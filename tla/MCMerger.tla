------------------------------ MODULE MCMerger ------------------------------
(* Three inputs with containers of up to two events of two types, over     *)
(* three timestamps: ties within and between inputs, empty containers, a   *)
(* change of type in the middle of an input.                               *)
EXTENDS Merger

MCTs == 1..3
=============================================================================
