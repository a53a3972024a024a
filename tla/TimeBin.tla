-------------------------------- MODULE TimeBin -------------------------------
(***************************************************************************)
(* Time-weighted binning: BinnedEventsTimeweightStream and its binner make *)
(* bins from events, BinnedBinsTimeweightStream makes coarser bins from    *)
(* them (daqbuf-items-2/src/binning/timeweight; chained by gapfill.rs of   *)
(* daqbuf-streams and by the bin writer).                                  *)
(*                                                                         *)
(* Time is counted in ticks, values are small numbers.  An average is kept *)
(* exact, as the sum of value times duration and the duration: the         *)
(* rounding of the floats in the code is left out.  The steps of one call  *)
(* of ingest or cycle_01 are steps here; nobody else sees their state.     *)
(***************************************************************************)
EXTENDS Integers, Sequences, SequencesExt, FiniteSets, FiniteSetsExt

CONSTANTS
    RangeBeg, RangeEnd, \* the range to bin
    BinLen,             \* length of a bin
    Coarse,             \* bins in a coarse bin
    OutMax,             \* OUT_LEN_MAX
    Vals,               \* the values that events may have
    Scale,              \* of the sums in coarse bins, see CoarseAdd
    MaxChunk, MaxEvents \* bounds: events in a container and in all

CoarseLen == Coarse * BinLen

ASSUME BinAssumption ==
    /\ BinLen \in Nat \ {0} /\ Coarse \in Nat \ {0} /\ OutMax \in Nat
    /\ RangeBeg \in Nat /\ RangeEnd \in Nat /\ RangeBeg < RangeEnd
    /\ RangeBeg % CoarseLen = 0 /\ RangeEnd % CoarseLen = 0
    /\ Vals \subseteq Nat /\ MaxChunk \in Nat /\ MaxEvents \in Nat
    /\ Scale \in Nat \ {0} /\ \A w \in 1..BinLen : Scale % w = 0

NoVal == 0 - 1

VARIABLES
    phase,      \* StreamState, with "Cycling" in a call of cycle_01 at the end,
                \* "Failed" after an error and "Panic" after a failed assertion
    cnt_zero,   \* produce_cnt_zero; always set by the stream
    evs,        \* the events that are left in the buffer
    bn,         \* InnerA and InnerB: the bin that is being filled, and lst
    out,        \* bins not yet handed on
    more,       \* input_done_range_final_continue_output
    fine,       \* the bins handed on
    coarse,     \* BinnedBinsTimeweight, with its bins handed on
    seen,       \* history: all events
    nleft       \* history: bins left to make when the input was over

vars == <<phase, cnt_zero, evs, bn, out, more, fine, coarse, seen, nleft>>

Init ==
    /\ phase = "Reading" /\ cnt_zero \in BOOLEAN
    /\ evs = <<>>
    /\ bn = [beg |-> RangeBeg, until |-> RangeBeg, width |-> 0, sum |-> 0,
             cnt |-> 0, min |-> NoVal, max |-> NoVal, lst |-> NoVal]
    /\ out = <<>> /\ more = FALSE
    /\ fine = <<>>
    /\ coarse = [beg |-> RangeBeg, cnt |-> 0, min |-> NoVal, max |-> NoVal,
                 lst |-> NoVal, filled |-> 0, sum |-> 0, non_fnl |-> FALSE,
                 out |-> <<>>]
    /\ seen = <<>> /\ nleft = 0

Event(ts, val) == [ts |-> ts, val |-> val]

(* At most one event before the range, which the range filter provides.    *)
Events == {Event(ts, val) : ts \in (RangeBeg - 1)..(RangeEnd - 1), val \in Vals}
Increasing(c) == \A i, j \in 1..Len(c) : i < j => c[i].ts < c[j].ts
Chunks == {c \in UNION {[1..n -> Events] : n \in 1..MaxChunk} : Increasing(c)}

(* handle_sitemty: a container of events, in order.                        *)
Data(c) ==
    /\ phase = "Reading" /\ phase' = "Buffered"
    /\ Len(seen) + Len(c) <= MaxEvents
    /\ seen # <<>> => Last(seen).ts < Head(c).ts
    /\ evs' = c /\ seen' = seen \o c
    /\ UNCHANGED <<cnt_zero, bn, out, more, fine, coarse, nleft>>

(* The input fails, and so does the output.                                *)
Fail ==
    /\ phase = "Reading" /\ phase' = "Failed"
    /\ UNCHANGED <<cnt_zero, evs, bn, out, more, fine, coarse, seen, nleft>>
-----------------------------------------------------------------------------
(* The binner of events.                                                   *)
End(b) == b.beg + BinLen
Floor(ts, len) == (ts \div len) * len

(* fill_until: lst has held until ts.                                      *)
FillUntil(b, ts) ==
    [b EXCEPT !.sum = @ + (ts - b.until) * b.lst, !.width = @ + (ts - b.until),
              !.until = ts]

(* push_out_and_reset.                                                     *)
Bin(b) == [beg |-> b.beg, end |-> End(b), cnt |-> b.cnt, min |-> b.min,
           max |-> b.max, sum |-> b.sum, width |-> b.width, lst |-> b.lst]

Reset(b) ==
    [b EXCEPT !.beg = End(b), !.until = End(b), !.width = 0, !.sum = 0,
              !.cnt = 0, !.min = b.lst, !.max = b.lst]

(* Mutant: filled_until is left behind.                                    *)
JumpKeepsUntil(b, ts) ==
    [b EXCEPT !.beg = Floor(ts, BinLen), !.width = 0, !.sum = 0, !.cnt = 0]

(* Direct to the bin of ts.                                                *)
Jump(b, ts) ==
    [b EXCEPT !.beg = Floor(ts, BinLen), !.until = Floor(ts, BinLen),
              !.width = 0, !.sum = 0, !.cnt = 0]

(* A round of cycle_01 towards ts: the active bin is filled and put out.   *)
(* Without cnt_zero the bins before that of ts are skipped.                *)
PutBin(ts) ==
    LET full == FillUntil(bn, End(bn)) IN
    /\ out' = Append(out, Bin(full))
    /\ bn' = IF cnt_zero THEN Reset(full) ELSE Jump(Reset(full), ts)

(* What the checks at the begin of cycle_01 assert.                        *)
CycleAssert(ts) == bn.beg < ts /\ bn.until < ts

(* ingest: an event beyond the active bin.                                 *)
IngestCycle ==
    /\ phase = "Buffered" /\ evs # <<>> /\ Len(out) <= OutMax
    /\ Head(evs).ts >= End(bn)
    /\ IF bn.lst = NoVal THEN bn' = Jump(bn, Head(evs).ts) /\ UNCHANGED out
       ELSE PutBin(Head(evs).ts)
    /\ UNCHANGED <<phase, cnt_zero, evs, more, fine, coarse, seen, nleft>>

(* The first event of all, ingest_event_without_lst.                       *)
FirstEvent(b, e) ==
    [b EXCEPT !.lst = e.val, !.min = e.val, !.max = e.val,
              !.cnt = IF e.ts < b.beg THEN @ ELSE @ + 1,
              !.until = IF e.ts < b.beg THEN @ ELSE e.ts]

(* Mutant: no case of its own for an event at the begin of the bin.        *)
WithLstAnywhere(b, e) ==
    [FillUntil(b, e.ts) EXCEPT !.min = Min({@, e.val}), !.max = Max({@, e.val}),
                               !.lst = e.val, !.cnt = @ + 1]

(* An event after lst: at the begin of the bin, lst did not hold in it.    *)
WithLst(b, e) ==
    IF e.ts = b.beg
    THEN [b EXCEPT !.min = e.val, !.max = e.val, !.lst = e.val, !.cnt = @ + 1]
    ELSE [FillUntil(b, e.ts) EXCEPT
            !.min = Min({@, e.val}), !.max = Max({@, e.val}),
            !.lst = e.val, !.cnt = @ + 1]

(* ingest: an event of the active bin.                                     *)
IngestEvent ==
    /\ phase = "Buffered" /\ evs # <<>> /\ Len(out) <= OutMax
    /\ Head(evs).ts < End(bn)
    /\ bn' = IF bn.lst = NoVal THEN FirstEvent(bn, Head(evs))
             ELSE WithLst(bn, Head(evs))
    /\ evs' = Tail(evs)
    /\ UNCHANGED <<phase, cnt_zero, out, more, fine, coarse, seen, nleft>>
-----------------------------------------------------------------------------
(* The binner of bins.  Sums are multiplied by Scale, which the width of   *)
(* every bin divides.                                                      *)
CoarseEnd(c) == c.beg + CoarseLen

(* maybe_emit_active: bins without events are not put out.                 *)
Emit(c) ==
    [c EXCEPT
       !.out = IF c.cnt = 0 THEN @
               ELSE Append(@, [beg |-> c.beg, end |-> CoarseEnd(c),
                      cnt |-> c.cnt, min |-> c.min, max |-> c.max,
                      sum |-> c.sum, width |-> c.filled, lst |-> c.lst,
                      fnl |-> ~c.non_fnl]),
       !.cnt = 0, !.sum = 0, !.filled = 0]

(* active_forward.                                                         *)
Forward(c, ts) ==
    [c EXCEPT !.min = c.lst, !.max = c.lst, !.beg = Floor(ts, CoarseLen),
              !.non_fnl = FALSE]

Finish(c, ts) == Forward(Emit(c), ts)

(* Mutant: the minimum and maximum of the bin before are carried on.       *)
CoarseAddMinMax(c, b) ==
    [c EXCEPT !.min = IF @ = NoVal THEN b.min ELSE Min({@, b.min}),
              !.max = Max({@, b.max}),
              !.cnt = @ + b.cnt, !.filled = @ + (b.end - b.beg),
              !.sum = @ + (b.end - b.beg) * b.sum * (Scale \div b.width),
              !.lst = b.lst]

(* A bin of the active coarse bin.                                         *)
CoarseAdd(c, b) ==
    LET at == b.beg = c.beg \/ c.min = NoVal IN
    [c EXCEPT !.min = IF at THEN b.min ELSE Min({@, b.min}),
              !.max = IF at THEN b.max ELSE Max({@, b.max}),
              !.cnt = @ + b.cnt, !.filled = @ + (b.end - b.beg),
              !.sum = @ + (b.end - b.beg) * b.sum * (Scale \div b.width),
              !.lst = b.lst]

(* ingest_bins, one bin.                                                   *)
IngestBin(c, b) ==
    LET c1 == IF b.beg >= CoarseEnd(c) THEN Finish(c, b.beg) ELSE c
        c2 == IF b.end > CoarseEnd(c1) THEN Finish(c1, b.end) ELSE c1
        c3 == CoarseAdd(c2, b)
    IN IF b.beg < c.beg THEN [c EXCEPT !.lst = b.lst]
       ELSE IF b.end >= CoarseEnd(c3) THEN Finish(c3, b.end) ELSE c3

(* ingest_bins: one bin after the other.                                   *)
IngestBins(c, bins) ==
    LET F[i \in 0..Len(bins)] ==
          IF i = 0 THEN c ELSE IngestBin(F[i - 1], bins[i])
    IN F[Len(bins)]

(* The bins made so far go to the coarse binner.                           *)
HandOn ==
    /\ fine' = fine \o out /\ out' = <<>>
    /\ coarse' = IngestBins(coarse, out)
-----------------------------------------------------------------------------
(* consume_evsbuf, after ingest: all is consumed, or out is full.          *)
Output ==
    /\ phase = "Buffered" /\ (evs = <<>> \/ Len(out) > OutMax)
    /\ phase' = IF evs = <<>> THEN "Reading" ELSE "Buffered"
    /\ HandOn
    /\ UNCHANGED <<cnt_zero, evs, bn, more, seen, nleft>>

(* A call of cycle_01 up to the end of the range.                          *)
CallCycle ==
    phase' = IF CycleAssert(RangeEnd) THEN "Cycling" ELSE "Panic"

(* handle_eos: the range is taken as complete, whether it is or not.  No   *)
(* binner was made if there were no events.                                *)
Eos ==
    /\ phase = "Reading"
    /\ IF bn.lst = NoVal THEN phase' = "Remains" /\ UNCHANGED <<nleft, more>>
       ELSE /\ CallCycle /\ more' = TRUE
            /\ nleft' = (RangeEnd - bn.beg) \div BinLen
    /\ UNCHANGED <<cnt_zero, evs, bn, out, fine, coarse, seen>>

EosCycle ==
    /\ phase = "Cycling" /\ Len(out) <= OutMax /\ bn.until < RangeEnd
    /\ PutBin(RangeEnd)
    /\ UNCHANGED <<phase, cnt_zero, evs, more, fine, coarse, seen, nleft>>

(* Only input_done_range_final asks for more output if out is full, the    *)
(* call from output does not.                                              *)
EosCycled ==
    /\ phase = "Cycling" /\ (Len(out) > OutMax \/ bn.until >= RangeEnd)
    /\ phase' = "Remains"
    /\ more' = (more /\ Len(out) > OutMax)
    /\ UNCHANGED <<cnt_zero, evs, bn, out, fine, coarse, seen, nleft>>

(* Mutant: what did not fit is forgotten.                                  *)
RemainsOnce ==
    /\ phase = "Remains" /\ out # <<>>
    /\ HandOn
    /\ more' = FALSE
    /\ UNCHANGED <<phase, cnt_zero, evs, bn, seen, nleft>>

(* handle_remains: output, which goes on with cycle_01.                    *)
Remains ==
    /\ phase = "Remains" /\ out # <<>>
    /\ HandOn
    /\ IF more THEN CallCycle ELSE UNCHANGED phase
    /\ more' = FALSE
    /\ UNCHANGED <<cnt_zero, evs, bn, seen, nleft>>

(* The end, which the coarse stream takes as that of an open range.        *)
RemainsDone ==
    /\ phase = "Remains" /\ out = <<>> /\ phase' = "Done"
    /\ coarse' = Finish([coarse EXCEPT !.non_fnl = TRUE], CoarseEnd(coarse))
    /\ UNCHANGED <<cnt_zero, evs, bn, out, more, fine, seen, nleft>>

Terminated == phase \in {"Done", "Failed", "Panic"} /\ UNCHANGED vars

Next ==
    \/ \E c \in Chunks : Data(c)
    \/ Fail \/ IngestCycle \/ IngestEvent \/ Output
    \/ Eos \/ EosCycle \/ EosCycled \/ Remains \/ RemainsDone
    \/ Terminated

Spec == Init /\ [][Next]_vars
-----------------------------------------------------------------------------
(* The type of the state; the filled part of the active bin lies within it.*)
TypeOK ==
    /\ phase \in {"Reading", "Buffered", "Cycling", "Remains", "Done",
                  "Failed", "Panic"}
    /\ cnt_zero \in BOOLEAN /\ more \in BOOLEAN /\ nleft \in Nat
    /\ ToSet(evs) \union ToSet(seen) \subseteq Events
    /\ bn.beg % BinLen = 0 /\ bn.beg \in RangeBeg..RangeEnd
    /\ bn.until \in bn.beg..End(bn) /\ bn.width \in 0..(bn.until - bn.beg)
    /\ {bn.min, bn.max, bn.lst} \subseteq Vals \union {NoVal}
    /\ coarse.beg % CoarseLen = 0 /\ coarse.filled \in 0..CoarseLen
    /\ Len(out) <= OutMax + 1

(* What binning means, for events g: the value that holds in every tick    *)
(* from the first event on, and the area below it, in unit squares.        *)
Ingested == SubSeq(seen, 1, Len(seen) - Len(evs))
First(g) == Head(g).ts
ValueAt(g, t) == g[Max({i \in 1..Len(g) : g[i].ts <= t})].val
Ticks(g, beg, end) == {t \in beg..(end - 1) : t >= First(g)}
HeldIn(g, beg, end) == {ValueAt(g, t) : t \in Ticks(g, beg, end)}
EventsIn(g, beg, end) == {i \in 1..Len(g) : beg <= g[i].ts /\ g[i].ts < end}
Area(g, beg, end) ==
    UNION {{t} \X (1..ValueAt(g, t)) : t \in Ticks(g, beg, end)}
Integral(g, beg, end) == Cardinality(Area(g, beg, end))

CountsMatch(g, b) ==
    /\ b.cnt = Cardinality(EventsIn(g, b.beg, b.end))
    /\ b.min = Min(HeldIn(g, b.beg, b.end)) /\ b.max = Max(HeldIn(g, b.beg, b.end))
    /\ b.lst = ValueAt(g, b.end - 1)

BinMatches(g, b) ==
    /\ CountsMatch(g, b)
    /\ b.sum = Integral(g, b.beg, b.end)
    /\ b.width = Cardinality(Ticks(g, b.beg, b.end))

(* Every bin tells the number of events in it, the least, greatest and     *)
(* last of the values that held in it, and their integral over the part of *)
(* it since the first event, however the events were cut into containers,  *)
(* on edges or between them, and however often out was full meanwhile.     *)
BinsMatch ==
    \A i \in 1..Len(fine) : BinMatches(Ingested, fine[i])

(* Bins of bins are the bins of the events: the average too, unless the    *)
(* series begins inside of a bin, which then weighs as much as a full one. *)
(* Holds only for an input without gaps (cnt_zero).                        *)
CoarseMatch ==
    cnt_zero =>
      \A i \in 1..Len(coarse.out) : LET b == coarse.out[i] IN
        /\ CountsMatch(Ingested, b)
        /\ First(Ingested) <= b.beg \/ First(Ingested) % BinLen = 0 =>
             b.sum * Cardinality(Ticks(Ingested, b.beg, b.end)) =
                Scale * Integral(Ingested, b.beg, b.end) * b.width

(* The input of the coarse binner has no gaps and, at the end, reaches the *)
(* end of the range: every bin from the first event on was made once, and  *)
(* every coarse bin with events.  Excepted is what cycle_01 and output do  *)
(* if as many bins are left as out holds (an assertion fails) or more than *)
(* twice as many (the others are never made).                              *)
FineFrom(b) == Floor(Max({RangeBeg, b}), BinLen)

RangeCovered ==
    cnt_zero /\ nleft # OutMax + 1 /\ nleft <= 2 * (OutMax + 1) =>
        /\ phase # "Panic"
        /\ \A i \in 1..Len(fine) : fine[i].beg = FineFrom(First(Ingested)) + (i - 1) * BinLen
        /\ phase = "Done" /\ seen # <<>> =>
             /\ Last(fine).end = RangeEnd
             /\ {b.beg : b \in ToSet(coarse.out)} =
                {Floor(e.ts, CoarseLen) : e \in {x \in ToSet(seen) : x.ts >= RangeBeg}}
===============================================================================
