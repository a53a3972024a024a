----------------------------- MODULE MCEventStore -----------------------------
(* An instance of the event store for model checking.                      *)
EXTENDS EventStore

(* Ticks of half a millisecond, partitions of three milliseconds or more;    *)
(* the retention times differ in their rollover and in how often they take *)
(* a value.                                                                *)
MCTs == {13, 17, 20, 26}
MCRolloverIvl == [st |-> 4, mt |-> 6, lt |-> 8]
MCReadWindow == [st |-> 10, mt |-> 12, lt |-> 14]
MCMinQuiet == [st |-> 0, mt |-> 2, lt |-> 3]
MCRanges == {<<17, 26, TRUE>>, <<20, 27, FALSE>>}
MCKeyspaces == <<"st", "lt">>
===============================================================================
