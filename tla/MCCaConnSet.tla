------------------------------ MODULE MCCaConnSet ------------------------------
(* Small instances of the connection set.                                  *)
EXTENDS CaConnSet
=============================================================================
