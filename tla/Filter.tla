-------------------------------- MODULE Filter --------------------------------
(***************************************************************************)
(* The elements of a sequence that are in a set, in their order.  It is    *)
(* SelectSeq with a set for the test, written as a recursive function, of  *)
(* which the proofs need the definition.                                   *)
(***************************************************************************)
EXTENDS Integers, Sequences

KeepUpTo(q, S) ==
    LET F[i \in 0..Len(q)] ==
          IF i = 0 THEN <<>>
          ELSE IF q[i] \in S THEN Append(F[i - 1], q[i])
          ELSE F[i - 1]
    IN F
Keep(q, S) == KeepUpTo(q, S)[Len(q)]
===============================================================================
