------------------------------- MODULE MCTimeBin ------------------------------
(* An instance of the binning for model checking: six bins of two ticks.   *)
EXTENDS TimeBin

MCVals == {1, 3}
===============================================================================
