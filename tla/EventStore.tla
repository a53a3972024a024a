------------------------------ MODULE EventStore ------------------------------
(***************************************************************************)
(* Writers, insert workers and a reader of one series: what is written     *)
(* comes back.  The reader runs while values are written.                  *)
(***************************************************************************)
EXTENDS RtWriter, EventReader

CONSTANTS
    MaxFaults,          \* bound: late rows, failed inserts and new writers
    MaxReadFaults       \* bound: the same for a behaviour with a read

vars == <<dbVars, writerVars, readerVars>>

Init == DbInit /\ WriterInit /\ ReaderInit

Faults == nlost + Cardinality(late) + nwriters - 1

(* Bounds: a read is combined with fewer faults, and what happens meanwhile*)
(* without a write to the tables that it reads is left out.                *)
ReadTables == [k \in ToSet(Keyspaces) |-> <<db_msp[k], db_ev[k]>>]
WriterBound ==
    IF phase = "idle" THEN Faults' <= MaxFaults
    ELSE Faults' <= MaxReadFaults /\ ReadTables' # ReadTables

Next ==
    \/ WriterNext /\ WriterBound /\ UNCHANGED readerVars
    \/ StartRead /\ Faults <= MaxReadFaults /\ UNCHANGED <<dbVars, writerVars>>
    \/ ReaderStep /\ UNCHANGED <<dbVars, writerVars>>

(* The reading task is polled and its queries are answered.                *)
Fairness == WF_vars(ReaderStep /\ UNCHANGED <<dbVars, writerVars>>)

Spec == Init /\ [][Next]_vars /\ Fairness
-----------------------------------------------------------------------------
IsMsp(m) == m \in {GridMsp(t) : t \in Ts}

TypeOK ==
    /\ \A rt \in Rts :
         /\ \A m \in db_msp[rt] \union settled[rt] : IsMsp(m)
         /\ \A e \in db_ev[rt] : IsMsp(e[1]) /\ e[2] \in Ts
         /\ writer[rt].ts \in Ts \union {0} /\ writer[rt].count \in 0..CountMax
         /\ writer[rt].put <= writer[rt].ts
    /\ now \in Ts /\ last_insert_ts \in Ts \union {0} /\ open \in BOOLEAN
    /\ phase \in {"idle", "bck", "lst", "read", "done"}
    /\ ToSet(merged) \subseteq Ts /\ item_lost \in BOOLEAN
    /\ \A k \in ToSet(Keyspaces) : \A i \in 1..Len(multi[k].inps) :
         multi[k].inps[i].s.msp \in db_msp[k]

(* Partitions overlap in time, are read page by page and ahead of time     *)
(* while they grow, and keyspaces hold the same events: what LspMerge      *)
(* hands on is in order all the same, so that Dedup drops only events that *)
(* were handed on before.                                                  *)
MergedSorted ==
    \A i, j \in 1..Len(merged) : i < j => merged[i] <= merged[j]

(* A read hands on, after Dedup, every event that could be found when it   *)
(* began: the look back of msp_bck, cut to its last msps, reaches every    *)
(* partition with events in the range, whatever is written meanwhile.      *)
(* Excepted is a read in which poll_state dropped an item (ItemDropped).   *)
ReadComplete ==
    phase = "done" /\ ~item_lost => due \subseteq ToSet(Dedup(merged))

(* If one event before the range is asked for, the latest one that was     *)
(* there when the read began is among those handed on, or a later one;     *)
(* with the same exception.                                                *)
OneBeforeFound ==
    phase = "done" /\ ~item_lost /\ range.one /\ due_before # 0 =>
        \E ts \in ToSet(Dedup(merged)) : due_before <= ts /\ ts < range.beg

(* An event is not orphaned by one failed insert, once its partition is    *)
(* over: the msp of a partition that was retired by the next one, or       *)
(* closed in the medium or the long term, has been sent twice to where its *)
(* events are, at its begin and at its end.  Not so a short-term partition *)
(* that was closed: its second msp row goes to st_rf1 (ReputKs).           *)
SettledIsFindable ==
    nlost <= 1 /\ late = {} =>
        \A rt \in Rts : \A e \in db_ev[rt] :
            e[1] \in settled[rt] => e[1] \in db_msp[rt]

(* A channel that fell silent has its last value in the long-term store:   *)
(* whenever the writer was looked at (write, tick) later than the quiet    *)
(* time of that store, the value has been put there.                       *)
QuietReachesLong ==
    open /\ Newest # 0 /\ QuietFor("lt", now) =>
        writer["lt"].ts = Newest

(* A read ends, while the writers go on (poll_state of LspFwdMspMulti and  *)
(* check_inputs of LspMerge never wait for an input that is over).         *)
ReadEnds == phase # "idle" ~> phase = "done"
===============================================================================
