------------------------------ MODULE EventReader -----------------------------
(***************************************************************************)
(* A read of events over a range, cl_ks_merged in                          *)
(* daqbuf-scyllaconn/src/events3/ks/clksmerge.rs: for each keyspace the    *)
(* partitions that started before the range (msp_bck), the event before    *)
(* the range (BckLspLst), and then a stream that merges the partitions     *)
(* (LspFwdMspMulti); the streams are merged (LspMerge) and what two of     *)
(* them hold is handed on once (Dedup, daqbuf-streams/src/dedup.rs).       *)
(*                                                                         *)
(* Every query of the database is a step; the tables may grow between two. *)
(***************************************************************************)
EXTENDS EventDb, Filter

CONSTANTS
    Keyspaces,          \* the keyspaces to read, in order
    MspLimit, BckLimit, \* page of msps, forward and backward
    BckMax,             \* msps kept before the range
    LspLimit,           \* page of events
    MergeLimit,         \* lsp_limit of LspMerge
    Preopen, Reserve,   \* msp_preopen_min, msp_reserve_min
    BufMax,             \* pages read ahead per partition
    Ranges              \* the reads asked for: <<beg, end, one_before>>

ASSUME ReaderAssumption ==
    /\ Keyspaces \in Seq(Rts)
    /\ \A n \in {MspLimit, BckLimit, BckMax, LspLimit, MergeLimit, Preopen,
               Reserve, BufMax} :
         n \in Nat \ {0}
    /\ BckMax >= 2
    /\ \A q \in Ranges : /\ q[1] \in Nat /\ q[2] \in Nat /\ q[3] \in BOOLEAN
                          /\ q[1] <= q[2]

VARIABLES
    phase,      \* "idle", "bck", "lst", "read", "done"
    ks,         \* index of the keyspace that is being set up
    range,      \* the range asked for
    bck,        \* the msps before the range, and the stream they come from
    before,     \* the latest event before the range so far
    multi,      \* by keyspace: the state of LspFwdMspMulti
    buf,        \* by keyspace: the buffer of LspMerge
    evbuf,      \* the item of LspMerge that is being filled
    merged,     \* what LspMerge has handed to Dedup
    due, due_before,    \* history: what was in the tables at the start
    item_lost           \* history: a stream dropped an item

history == <<due, due_before, item_lost>>
readerVars == <<phase, ks, range, bck, before, multi, buf, evbuf, merged,
                history>>

NoRange == [beg |-> 0, end |-> 0, one |-> FALSE]

(* ReadMspFwdStream.                                                       *)
MspStream(beg, end, excl) == [beg |-> beg, end |-> end, excl |-> excl]
Exhausted(s) == s.beg >= s.end

(* A stream after a page: over when the page was not full.                 *)
NextStream(s, page, limit) ==
    IF Len(page) < limit THEN [s EXCEPT !.beg = s.end]
    ELSE MspStream(Start(Last(page)), s.end, TRUE)

Bck(msps, s, left) == [msps |-> msps, s |-> s, left |-> left]
NoBck == Bck(<<>>, MspStream(0, 0, FALSE), {})

(* LspFwdMspSingleStream, with its buffered pages.                         *)
Single(msp, beg) == [msp |-> msp, beg |-> beg, excl |-> FALSE, done |-> FALSE,
                     outbuf |-> <<>>]
Multi(beg, msps, ahead) ==
    [beg |-> beg, msps |-> msps, ahead |-> ahead, inps |-> <<>>]
NoMulti == Multi(0, MspStream(0, 0, FALSE), <<>>)

ReaderInit ==
    /\ phase = "idle" /\ ks = 0 /\ range = NoRange
    /\ bck = NoBck /\ before = 0
    /\ multi = [k \in ToSet(Keyspaces) |-> NoMulti]
    /\ buf = [k \in ToSet(Keyspaces) |-> <<>>]
    /\ evbuf = <<>> /\ merged = <<>>
    /\ due = {} /\ due_before = 0 /\ item_lost = FALSE
-----------------------------------------------------------------------------
(* What a read must find: the events whose partition is known, and that    *)
(* does not begin in the last, broken millisecond of the range.            *)
Findable(k, beg, end) ==
    {e[2] : e \in {x \in db_ev[k] : /\ x[1] \in db_msp[k] /\ x[1] < Ms(end)
                                    /\ beg <= x[2] /\ x[2] < end}}

(* The events before the range that msp_bck looks back to.                 *)
FindableBefore(k, beg) ==
    {e[2] : e \in {x \in db_ev[k] :
        /\ x[1] \in db_msp[k] /\ x[2] < beg
        /\ Ms(beg - ReadWindow[k]) <= x[1] /\ x[1] < Ms(beg)}}

SetupKeyspace(i, r) ==
    /\ ks' = i
    /\ IF i > Len(Keyspaces)
       THEN phase' = "read" /\ bck' = NoBck
       ELSE /\ phase' = "bck"
            /\ bck' = Bck(<<>>, MspStream(r.beg - ReadWindow[Keyspaces[i]],
                                           r.beg, FALSE), {})

StartRead ==
    /\ phase = "idle"
    /\ \E q \in Ranges :
         LET r == [beg |-> q[1], end |-> q[2], one |-> q[3]] IN
         /\ range' = r
         /\ SetupKeyspace(1, r)
         /\ due' = UNION {Findable(k, r.beg, r.end) : k \in ToSet(Keyspaces)}
         /\ due_before' = Max({0} \union
              UNION {FindableBefore(k, r.beg) : k \in ToSet(Keyspaces)})
    /\ UNCHANGED <<before, multi, buf, evbuf, merged, item_lost>>

(* msp_bck keeps the msps nearest to the range.                            *)
KeepLastMsps(msps) ==
    SubSeq(msps, Max({1, Len(msps) - BckMax + 1}), Len(msps))

(* LspFwdMspMulti::new: the msps before the range, and a stream of those   *)
(* that follow the last of them.                                           *)
NewMulti(msps, beg) ==
    Multi(beg,
          IF msps = <<>> THEN MspStream(beg, range.end, FALSE)
          ELSE MspStream(Start(Last(msps)), range.end, TRUE),
          [i \in 1..Len(msps) |-> Single(msps[i], beg)])

OpenMulti(msps, beg) ==
    /\ multi' = [multi EXCEPT ![Keyspaces[ks]] = NewMulti(msps, beg)]
    /\ SetupKeyspace(ks + 1, range)

(* A page of msp_bck.                                                      *)
BckPage ==
    LET s == bck.s
        page == MspQuery(Keyspaces[ks], s.beg, s.end, s.excl, BckLimit) IN
    /\ phase = "bck" /\ ~Exhausted(s)
    /\ bck' = Bck(bck.msps \o page, NextStream(s, page, BckLimit), {})
    /\ UNCHANGED <<phase, ks, range, before, multi, buf, evbuf, merged,
                   history>>

BckEnd ==
    LET msps == KeepLastMsps(bck.msps) IN
    /\ phase = "bck" /\ Exhausted(bck.s)
    /\ IF range.one
       THEN /\ phase' = "lst" /\ bck' = Bck(msps, bck.s, ToSet(msps))
            /\ UNCHANGED <<ks, multi>>
       ELSE OpenMulti(msps, range.beg)
    /\ before' = 0
    /\ UNCHANGED <<range, buf, evbuf, merged, history>>

(* BckLspLst: the latest event before the range in each of the partitions, *)
(* asked for concurrently.  avoid_order_desc takes it from all lsps of the *)
(* partition, with the same outcome; if there is none, the index i - 1     *)
(* wraps and get returns None (the release profiles check no overflow).    *)
LspLst ==
    /\ phase = "lst"
    /\ \E m \in bck.left :
         /\ bck' = [bck EXCEPT !.left = @ \ {m}]
         /\ before' = Max({before, LspLast(Keyspaces[ks], m, range.beg)})
    /\ UNCHANGED <<phase, ks, range, multi, buf, evbuf, merged,
                   history>>

(* Mutant: the partitions are read from the begin of the range only.       *)
ScanBegAtRange == range.beg

(* The events are read from the latest one before the range.               *)
ScanBeg == IF before = 0 THEN range.beg ELSE before

LspLstEnd ==
    /\ phase = "lst" /\ bck.left = {}
    /\ OpenMulti(bck.msps, ScanBeg)
    /\ before' = 0
    /\ UNCHANGED <<range, buf, evbuf, merged, history>>
-----------------------------------------------------------------------------
(* Merging: poll_state, poll_all_inp, check_inputs of LspFwdMspMulti.      *)
Inp(s) == [s |-> s, buf |-> <<>>]

(* An input without events takes its next page; one that is over goes.     *)
Refilled(i) ==
    IF i.buf = <<>> /\ i.s.outbuf # <<>>
    THEN [s |-> [i.s EXCEPT !.outbuf = Tail(@)], buf |-> Head(i.s.outbuf)]
    ELSE i

(* Mutant: inputs that are over are kept.                                  *)
RetainedAll(inps) == [n \in 1..Len(inps) |-> Refilled(inps[n])]

Retained(inps) ==
    LET all == [n \in 1..Len(inps) |-> Refilled(inps[n])]
    IN Keep(all, {i \in ToSet(all) : ~(i.s.done /\ i.buf = <<>>)})

SetMulti(k, m) ==
    /\ multi' = [multi EXCEPT ![k] = [m EXCEPT !.inps = Retained(@)]]
    /\ UNCHANGED <<phase, ks, range, bck, before, evbuf, due, due_before>>

(* find_next_ts: the input with the lowest timestamp, and the next one.    *)
TsMin(i) == Head(i.buf)
BestInp(inps) ==
    CHOOSE n \in 1..Len(inps) :
        \A j \in 1..Len(inps) : \/ TsMin(inps[n]) < TsMin(inps[j])
                                \/ TsMin(inps[n]) = TsMin(inps[j]) /\ n <= j
SecondTs(inps) == Min({TsMin(inps[n]) : n \in 1..Len(inps) \ {BestInp(inps)}})

(* The next partition must be opened before anything of its time or later  *)
(* is handed on.                                                           *)
MustOpen(m) ==
    /\ m.ahead # <<>>
    /\ \/ m.inps = <<>>
       \/ Len(m.inps) = 1 /\ Start(m.ahead[1].msp) <= Last(m.inps[1].buf)
       \/ Len(m.inps) > 1 /\ Start(m.ahead[1].msp) <= SecondTs(m.inps)

AllFilled(m) == \A n \in 1..Len(m.inps) : m.inps[n].buf # <<>>
NextMspKnown(m) == m.ahead # <<>> \/ Exhausted(m.msps)

CanOpen(m) == AllFilled(m) /\ MustOpen(m)

OpenNextMsp(k) ==
    LET m == multi[k] IN
    /\ phase = "read" /\ CanOpen(m)
    /\ SetMulti(k, [m EXCEPT !.ahead = Tail(@),
                             !.inps = Append(@, Inp(m.ahead[1]))])
    /\ UNCHANGED <<buf, merged, item_lost>>

Upto(s, ts) == Keep(s, {t \in ToSet(s) : t <= ts})
After(s, ts) == Keep(s, {t \in ToSet(s) : t > ts})

HasItem(m) ==
    m.inps # <<>> /\ AllFilled(m) /\ NextMspKnown(m) /\ ~MustOpen(m)

(* The page of msps that follows.                                          *)
NextMsps(k) ==
    LET s == multi[k].msps IN MspQuery(k, s.beg, s.end, s.excl, MspLimit)

WithMsps(m, page) ==
    [m EXCEPT !.msps = NextStream(@, page, MspLimit),
              !.ahead = @ \o [i \in 1..Len(page) |-> Single(page[i], m.beg)]]

(* The item that the stream hands on next, and what is left then.          *)
ItemEnd(m) ==
    IF Len(m.inps) = 1 THEN Last(m.inps[1].buf) ELSE SecondTs(m.inps)
Item(m) == Upto(m.inps[BestInp(m.inps)].buf, ItemEnd(m))
WithoutItem(m) ==
    [m EXCEPT !.inps[BestInp(m.inps)].buf = After(@, ItemEnd(m))]

(* The stream of keyspace k hands an item to LspMerge, which asks for one. *)
MultiItem(k) ==
    /\ phase = "read" /\ buf[k] = <<>> /\ HasItem(multi[k])
    /\ buf' = [buf EXCEPT ![k] = Item(multi[k])]
    /\ SetMulti(k, WithoutItem(multi[k]))
    /\ UNCHANGED <<merged, item_lost>>

(* poll_state goes on while it holds the item in retitem.  If the msps     *)
(* that it waits for arrive now and there are too few streams opened ahead,*)
(* it opens one and returns a log item: retitem is lost.                   *)
ItemDropped(k) ==
    /\ phase = "read" /\ buf[k] = <<>> /\ HasItem(multi[k])
    /\ Len(multi[k].ahead) < Preopen /\ ~Exhausted(multi[k].msps)
    /\ NextMsps(k) # <<>>
    /\ SetMulti(k, WithMsps(WithoutItem(multi[k]), NextMsps(k)))
    /\ item_lost' = TRUE
    /\ UNCHANGED <<buf, merged>>

MultiEnded(k) ==
    LET m == multi[k] IN
    m.inps = <<>> /\ m.ahead = <<>> /\ Exhausted(m.msps)
-----------------------------------------------------------------------------
(* LspMerge::check_inputs.                                                 *)
Feeding == {k \in ToSet(Keyspaces) : buf[k] # <<>>}

(* Mutant: what there is goes out without waiting for the others.          *)
MergeReadySome == Feeding # {} \/ \A k \in ToSet(Keyspaces) : MultiEnded(k)

MergeReady == \A k \in ToSet(Keyspaces) : buf[k] # <<>> \/ MultiEnded(k)

KsIndex(k) == CHOOSE i \in 1..Len(Keyspaces) : Keyspaces[i] = k
BestKs ==
    CHOOSE k \in Feeding :
        \A j \in Feeding : \/ Head(buf[k]) < Head(buf[j])
                           \/ /\ Head(buf[k]) = Head(buf[j])
                              /\ KsIndex(k) <= KsIndex(j)

(* How many events of the best input may go out.                           *)
Drainable ==
    LET others == Feeding \ {BestKs} IN
    IF others = {} THEN Len(buf[BestKs])
    ELSE Len(Upto(buf[BestKs], Min({Head(buf[j]) : j \in others})))

DrainTo(e, out, n) ==
    /\ evbuf' = e /\ merged' = merged \o out
    /\ buf' = [buf EXCEPT ![BestKs] = SubSeq(@, n + 1, Len(@))]

LspMinfill == MergeLimit \div 3

MergeStep ==
    /\ phase = "read" /\ Feeding # {} /\ MergeReady
    /\ LET b == buf[BestKs]
           n == Min({Drainable, MergeLimit - Len(evbuf)})
           e == evbuf \o SubSeq(b, 1, n) IN
       IF evbuf = <<>> /\ Drainable >= Len(b) /\ Len(b) <= MergeLimit
       THEN DrainTo(<<>>, b, Len(b))
       ELSE IF (evbuf = <<>> /\ n >= LspMinfill) \/ Len(e) >= MergeLimit
       THEN DrainTo(<<>>, e, n)
       ELSE DrainTo(e, <<>>, n)
    /\ UNCHANGED <<phase, ks, range, bck, before, multi, history>>

(* retain_unique_ts, with tsmin carried from item to item by clean_item:   *)
(* what is not later than all before it is dropped.                        *)
WithLater(kept, ts) ==
    IF ts > (IF kept = <<>> THEN 0 ELSE Last(kept)) THEN Append(kept, ts)
    ELSE kept
DedupUpTo(s) ==
    LET Kept[i \in 0..Len(s)] ==
          IF i = 0 THEN <<>> ELSE WithLater(Kept[i - 1], s[i])
    IN Kept
Dedup(s) == DedupUpTo(s)[Len(s)]

MergeEnd ==
    /\ phase = "read" /\ Feeding = {} /\ MergeReady
    /\ merged' = merged \o evbuf /\ evbuf' = <<>>
    /\ phase' = "done"
    /\ UNCHANGED <<ks, range, bck, before, multi, buf, history>>
-----------------------------------------------------------------------------
(* A poll goes on until nothing moves without the answer of a query.       *)
Polling ==
    \/ MergeReady
    \/ \E k \in ToSet(Keyspaces) :
         CanOpen(multi[k]) \/ (buf[k] = <<>> /\ HasItem(multi[k]))

(* The query for the next msps is answered.                                *)
MspPage(k) ==
    /\ phase = "read" /\ ~Polling
    /\ ~Exhausted(multi[k].msps) /\ Len(multi[k].ahead) < Preopen + Reserve
    /\ SetMulti(k, WithMsps(multi[k], NextMsps(k)))
    /\ UNCHANGED <<buf, merged, item_lost>>

(* Mutant: a page that is not full is taken for the last one.              *)
FetchedShortIsLast(k, s) ==
    LET page == LspQuery(k, s.msp, s.beg, range.end, s.excl, LspLimit) IN
    IF Len(page) < LspLimit
    THEN [s EXCEPT !.done = TRUE]
    ELSE [s EXCEPT !.beg = Last(page), !.excl = TRUE, !.outbuf = Append(@, page)]

(* poll_to_buffer: a page of one partition, which is over when it is empty.*)
Fetched(k, s) ==
    LET page == LspQuery(k, s.msp, s.beg, range.end, s.excl, LspLimit) IN
    IF page = <<>>
    THEN [s EXCEPT !.done = TRUE]
    ELSE [s EXCEPT !.beg = Last(page), !.excl = TRUE, !.outbuf = Append(@, page)]

Fetches(s) == ~s.done /\ Len(s.outbuf) < BufMax

PreopenPage(k) ==
    /\ phase = "read" /\ ~Polling
    /\ \E i \in 1..Min({Preopen, Len(multi[k].ahead)}) :
         LET s == multi[k].ahead[i] IN
         Fetches(s) /\ SetMulti(k, [multi[k] EXCEPT !.ahead[i] = Fetched(k, s)])
    /\ UNCHANGED <<buf, merged, item_lost>>

InputPage(k) ==
    /\ phase = "read" /\ ~Polling
    /\ \E i \in 1..Len(multi[k].inps) :
         LET s == multi[k].inps[i].s IN
         Fetches(s) /\ SetMulti(k, [multi[k] EXCEPT !.inps[i].s = Fetched(k, s)])
    /\ UNCHANGED <<buf, merged, item_lost>>

ReaderStep ==
    \/ BckPage \/ BckEnd \/ LspLst \/ LspLstEnd
    \/ \E k \in ToSet(Keyspaces) :
         MspPage(k) \/ PreopenPage(k) \/ InputPage(k) \/ OpenNextMsp(k)
           \/ MultiItem(k) \/ ItemDropped(k)
    \/ MergeStep \/ MergeEnd
===============================================================================
