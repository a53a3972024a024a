------------------------------- MODULE EventDb --------------------------------
(***************************************************************************)
(* The event tables between the writers and the readers: the rows that the *)
(* insert workers write (daqbuf-scywr/src/insertworker.rs) and that the    *)
(* queries of daqbuf-scyllaconn/src/events3 return.                        *)
(*                                                                         *)
(* Time is counted in ticks.  A partition is named by its msp, a time in   *)
(* milliseconds; an event is stored under the partition of its writer, and *)
(* is found only through the row of that msp.  One series is modelled, its *)
(* values are told apart by their timestamps.                              *)
(***************************************************************************)
EXTENDS Integers, Sequences, SequencesExt, FiniteSets, FiniteSetsExt

CONSTANTS
    MsLen,              \* ticks in a millisecond
    GridLen,            \* msp_res_max
    RolloverIvl,        \* msp_rollover_ivl, by retention time
    ReadWindow,         \* msp_rollover_ivl_on_read, by retention time
    Ts,                 \* the timestamps that events may have
    MaxLate,            \* bound: rows that others overtake
    MaxLost             \* bound: failed inserts

Rts == {"st", "mt", "lt"}

(* The insert queues (InsertQueuesTx), each of the workers of one          *)
(* keyspace.  The events of the short term go to st_rf3_qu, here "st";     *)
(* st_rf1_qu is another keyspace.                                          *)
Stores == Rts \union {"st_rf1"}

ASSUME TimeAssumption ==
    /\ MsLen \in Nat \ {0} /\ GridLen \in Nat \ {0}
    /\ GridLen % MsLen = 0
    /\ Ts \subseteq Nat /\ Ts # {}
    /\ MaxLate \in Nat /\ MaxLost \in Nat

(* The numbers of netpod/src/ttl.rs: what the readers look back is more    *)
(* than a partition may last.                                              *)
ASSUME WindowAssumption ==
    \A rt \in Rts : /\ RolloverIvl[rt] \in Nat /\ ReadWindow[rt] \in Nat
                    /\ ReadWindow[rt] >= RolloverIvl[rt] + GridLen

VARIABLES
    db_msp,     \* by keyspace: the msp rows
    db_ev,      \* by keyspace: the event rows
    late,       \* rows sent but not yet written
    nlost       \* bound

dbVars == <<db_msp, db_ev, late, nlost>>

Ms(ts) == ts \div MsLen
Start(msp) == msp * MsLen

MspRow(ks, msp) == [k |-> "Msp", ks |-> ks, msp |-> msp, ts |-> 0]
EventRow(ks, msp, ts) == [k |-> "Insert", ks |-> ks, msp |-> msp, ts |-> ts]

DbInit ==
    /\ db_msp = [ks \in Stores |-> {}]
    /\ db_ev = [ks \in Stores |-> {}]
    /\ late = {} /\ nlost = 0

Written(rows) ==
    /\ db_msp' = [ks \in Stores |-> db_msp[ks] \union
         {r.msp : r \in {q \in rows : q.k = "Msp" /\ q.ks = ks}}]
    /\ db_ev' = [ks \in Stores |-> db_ev[ks] \union
         {<<r.msp, r.ts>> : r \in {q \in rows : q.k = "Insert" /\ q.ks = ks}}]

UpTo(rows, n) == UNION {kSubset(i, rows) : i \in 0..n}

(* Rows go to the insert workers, which run their inserts concurrently and *)
(* unordered: some are late, some fail and are only counted.               *)
Insert(rows) ==
    \E l \in UpTo(rows, MaxLate - Cardinality(late)) :
      \E f \in UpTo(rows \ l, MaxLost - nlost) :
        /\ late' = late \union l
        /\ nlost' = nlost + Cardinality(f)
        /\ Written(rows \ (l \union f))

LateInsert ==
    \E r \in late : late' = late \ {r} /\ Written({r}) /\ UNCHANGED nlost

(* The numbers of a set in order, and the first n of them: order by limit. *)
InOrder(S) ==
    [i \in 1..Cardinality(S) |->
        CHOOSE x \in S : Cardinality({y \in S : y < x}) = i - 1]
Page(S, n) == SubSeq(InOrder(S), 1, Min({n, Cardinality(S)}))

(* ts_msp >= beg and ts_msp < end order by ts_msp limit n: the msps that   *)
(* Read03MspFwd asks for, over the range in milliseconds.                  *)
MspQuery(rt, beg, end, excl, n) ==
    LET from == IF excl THEN Ms(beg) + 1 ELSE Ms(beg)
    IN Page({m \in db_msp[rt] : from <= m /\ m < Ms(end)}, n)

(* ts_lsp >= beg and ts_lsp < end limit n, within a partition.             *)
Lsp(msp, ts) == IF ts >= Start(msp) THEN ts - Start(msp) ELSE 0

LspQuery(rt, msp, beg, end, excl, n) ==
    LET from == IF excl THEN Lsp(msp, beg) + 1 ELSE Lsp(msp, beg)
        stored == {e[2] : e \in {x \in db_ev[rt] : x[1] = msp}}
    IN Page({t \in stored : /\ from <= Lsp(msp, t)
                            /\ Lsp(msp, t) < Lsp(msp, end)}, n)

(* The latest event of a partition before end (Read03LspLst), or 0.        *)
LspLast(rt, msp, end) ==
    Max({0} \union {e[2] : e \in {x \in db_ev[rt] : x[1] = msp /\ x[2] < end}})
===============================================================================
