---------------------------- MODULE RangeFilter2 ----------------------------
(***************************************************************************)
(* The event range filter of the read path, daqbuf-streams/src/            *)
(* rangefilter2.rs.  It sits behind the merger (timebinnedjson.rs,         *)
(* dyneventsstream.rs) and behind every scylla event reader                *)
(* (nodenet/src/scylla.rs) and cuts a stream of event containers down to   *)
(* the half-open range [Beg, End), optionally with the last event before   *)
(* Beg ("one before", which time-weighted binning needs).                  *)
(*                                                                         *)
(* One step of this specification is one iteration of the loop in          *)
(* poll_next.  A container is the sequence of its timestamps: the filter   *)
(* never looks at the values.  ContainerEvents is the only container that  *)
(* reaches the filter outside of tests, its drains are always "Done".      *)
(***************************************************************************)
EXTENDS Integers, Sequences, Filter

CONSTANTS
    Ts,          \* timestamps the input can carry
    Beg, End,    \* the requested range, NanoRange
    MaxItemLen,  \* bound: events in one input container
    MaxItems     \* bound: items the input stream delivers

ASSUME RangeAssumption ==
    /\ Ts \subseteq Nat
    /\ Beg \in Nat /\ End \in Nat
    /\ MaxItemLen \in Nat /\ MaxItems \in Nat

VARIABLES
    one_before,           \* constructor argument OneBeforeFlag
    one_before_done,
    slot1,                \* Option<ITY>: <<>> for None, else one held back event
    slot2,                \* Option<ITY>: <<>> for None, else a whole container
    have_range_complete,
    tsmax,
    phase,                \* the flags inp_done, raco_done, done, complete, which
                          \* are only ever set one after the other
    nitems,               \* items taken from the input so far (bound only)
    seen,                 \* every event accepted from the input, in order
    out,                  \* every event handed to the consumer, in order
    err,                  \* error the filter itself emitted
    raco_out              \* RangeComplete was handed to the consumer

slots == <<slot1, slot2>>
ghosts == <<seen, out, err, raco_out>>
vars == <<one_before, one_before_done, slots, have_range_complete, tsmax,
          phase, nitems, ghosts>>

Phases == {"input", "inp_done", "raco_done", "done", "complete"}

Sorted(s) == \A i, j \in 1..Len(s) : i < j => s[i] <= s[j]

(* Containers the input delivers: sorted, possibly empty.  The producers   *)
(* check this (Merger::refill, is_monotonic); the filter relies on it.     *)
Items == {s \in UNION {[1..n -> Ts] : n \in 0..MaxItemLen} : Sorted(s)}

(* Mutant: an event at ts counts as before ts.                             *)
PartitionPointLe(s, ts) ==
    {k \in 0..Len(s) : /\ \A i \in 1..k : s[i] <= ts
                       /\ \A i \in (k+1)..Len(s) : s[i] > ts}

(* MergeableTy::find_lowest_index_ge and find_highest_index_lt are both    *)
(* VecDeque::partition_point: the number of leading events before ts.      *)
PartitionPoint(s, ts) ==
    {k \in 0..Len(s) : /\ \A i \in 1..k : s[i] < ts
                       /\ \A i \in (k+1)..Len(s) : s[i] >= ts}

(* drain_into_new(n..m) with the drained part thrown away or kept.         *)
DropFirst(s, n) == SubSeq(s, n + 1, Len(s))
KeepFirst(s, n) == SubSeq(s, 1, n)

TypeOK ==
    /\ one_before \in BOOLEAN /\ one_before_done \in BOOLEAN
    /\ slot1 \in Seq(Ts) /\ slot2 \in Seq(Ts)
    /\ have_range_complete \in BOOLEAN
    /\ tsmax \in Nat
    /\ phase \in Phases
    /\ nitems \in 0..MaxItems
    /\ seen \in Seq(Ts) /\ out \in Seq(Ts)
    /\ err \in {"none", "Unordered", "Logic"}
    /\ raco_out \in BOOLEAN

Init ==
    /\ one_before \in BOOLEAN
    /\ one_before_done = FALSE
    /\ slot1 = <<>> /\ slot2 = <<>>
    /\ have_range_complete = FALSE
    /\ tsmax = 0
    /\ phase = "input"
    /\ nitems = 0
    /\ seen = <<>> /\ out = <<>>
    /\ err = "none"
    /\ raco_out = FALSE
-----------------------------------------------------------------------------
(* The branches of poll_next are tried in this order: complete, done,      *)
(* raco_done, inp_done, slot2, and only then the input.                    *)

Emit(s) == out' = out \o s

(* slot2 holds the container that was displaced by the one-before event.   *)
EmitSlot2 ==
    /\ phase = "input" /\ slot2 # <<>>
    /\ Emit(slot2)
    /\ slot2' = <<>>
    /\ UNCHANGED <<one_before, one_before_done, slot1, have_range_complete,
                   tsmax, phase, nitems, seen, err, raco_out>>

PollInput ==
    /\ phase = "input" /\ slot2 = <<>>
    /\ nitems < MaxItems
    /\ nitems' = nitems + 1

(* handle_item, container without events: counted in the stats only.       *)
RecvEmpty ==
    /\ PollInput
    /\ UNCHANGED <<one_before, one_before_done, slots, have_range_complete,
                   tsmax, phase, ghosts>>

(* Log, stats and error items of the input are handed on as they are; an   *)
(* error of the input does not stop the filter.                            *)
PassThrough ==
    /\ PollInput
    /\ UNCHANGED <<one_before, one_before_done, slots, have_range_complete,
                   tsmax, phase, ghosts>>

(* handle_item fails; poll_next emits the error and stops reading.         *)
Fail(e) ==
    /\ err' = e
    /\ phase' = "inp_done"

RecvUnordered(item) ==
    /\ PollInput
    /\ item # <<>> /\ item[1] < tsmax
    /\ Fail("Unordered")
    /\ UNCHANGED <<one_before, one_before_done, slots, have_range_complete,
                   tsmax, seen, out, raco_out>>

(* handle_item with the one-before event still to be found; it is the      *)
(* container after prune_high, lo its partition point at Beg.              *)
SearchOneBefore(it, lo) ==
    IF lo < Len(it)
    THEN /\ one_before_done' = TRUE
         /\ slot1' = <<>>
         /\ err' = err /\ phase' = phase
         /\ IF lo > 0
            THEN Emit(DropFirst(it, lo - 1)) /\ slot2' = slot2
            ELSE IF slot1 # <<>>
                 THEN Emit(slot1) /\ slot2' = it
                 ELSE Emit(it) /\ slot2' = slot2
    ELSE /\ UNCHANGED <<one_before_done, slot2, out>>
         /\ IF it = <<>>
            THEN Fail("Logic") /\ slot1' = slot1
            ELSE /\ slot1' = <<it[Len(it)]>>
                 /\ err' = err /\ phase' = phase

(* handle_item otherwise: only the events from Beg on are passed.          *)
PassInRange(it, lo) ==
    /\ Emit(DropFirst(it, lo))
    /\ UNCHANGED <<one_before_done, slots, err, phase>>

(* Mutant: the order watermark is one too low.                             *)
RecvDataTsMaxOff(item) ==
    /\ PollInput
    /\ item # <<>> /\ item[1] >= tsmax
    /\ tsmax' = item[Len(item)] - 1
    /\ seen' = seen \o item
    /\ UNCHANGED <<one_before, one_before_done, slots, have_range_complete,
                   phase, out, err, raco_out>>

RecvData(item) ==
    /\ PollInput
    /\ item # <<>> /\ item[1] >= tsmax
    /\ tsmax' = item[Len(item)]
    /\ seen' = seen \o item
    /\ \E hi \in PartitionPoint(item, End) :
         LET it == KeepFirst(item, hi)
         IN  \E lo \in PartitionPoint(it, Beg) :
               IF one_before /\ ~one_before_done
               THEN SearchOneBefore(it, lo)
               ELSE PassInRange(it, lo)
    /\ UNCHANGED <<one_before, have_range_complete, raco_out>>

(* Mutant: RangeComplete is forwarded at once, not held back to the end.   *)
RecvRangeCompleteForward ==
    /\ PollInput
    /\ have_range_complete' = TRUE
    /\ raco_out' = TRUE
    /\ UNCHANGED <<one_before, one_before_done, slots, tsmax, phase, seen, out,
                   err>>

RecvRangeComplete ==
    /\ PollInput
    /\ have_range_complete' = TRUE
    /\ UNCHANGED <<one_before, one_before_done, slots, tsmax, phase, ghosts>>

(* Mutant: the event still held in slot1 is forgotten.                     *)
RecvEndDropSlot1 ==
    /\ phase = "input" /\ slot2 = <<>>
    /\ phase' = "inp_done"
    /\ slot1' = <<>>
    /\ UNCHANGED <<one_before, one_before_done, slot2, have_range_complete,
                   tsmax, nitems, seen, out, err, raco_out>>

(* The input stream ended.  An event still held in slot1 is emitted.       *)
RecvEnd ==
    /\ phase = "input" /\ slot2 = <<>>
    /\ phase' = "inp_done"
    /\ Emit(slot1)
    /\ slot1' = <<>>
    /\ UNCHANGED <<one_before, one_before_done, slot2, have_range_complete,
                   tsmax, nitems, seen, err, raco_out>>

(* Mutant: raco_done is set only if there was a RangeComplete to emit.     *)
EmitRangeCompleteStuck ==
    /\ phase = "inp_done"
    /\ phase' = IF have_range_complete THEN "raco_done" ELSE phase
    /\ raco_out' = have_range_complete
    /\ UNCHANGED <<one_before, one_before_done, slots, have_range_complete,
                   tsmax, nitems, seen, out, err>>

EmitRangeComplete ==
    /\ phase = "inp_done"
    /\ phase' = "raco_done"
    /\ raco_out' = have_range_complete
    /\ UNCHANGED <<one_before, one_before_done, slots, have_range_complete,
                   tsmax, nitems, seen, out, err>>

(* The stats item, then the end of the stream.                             *)
Finish ==
    /\ \/ phase = "raco_done" /\ phase' = "done"
       \/ phase = "done" /\ phase' = "complete"
    /\ UNCHANGED <<one_before, one_before_done, slots, have_range_complete,
                   tsmax, nitems, ghosts>>

(* A consumer that polls once more gets an error, nothing changes.         *)
PollOnComplete ==
    /\ phase = "complete"
    /\ UNCHANGED vars

Poll ==
    \/ EmitSlot2
    \/ RecvEmpty
    \/ PassThrough
    \/ \E item \in Items : RecvUnordered(item) \/ RecvData(item)
    \/ RecvRangeComplete
    \/ RecvEnd
    \/ EmitRangeComplete
    \/ Finish

Next == Poll \/ PollOnComplete

(* The consumer keeps polling until the stream ends, the input is not      *)
(* Pending forever and is finite.                                          *)
Spec == Init /\ [][Next]_vars /\ WF_vars(Poll)
-----------------------------------------------------------------------------
(* What the consumer (and AssertMaxOneBefore, which the http handler puts  *)
(* behind the filter) relies on: whatever the input, the events come out   *)
(* in time order, none at or after End, and none before Beg but at most    *)
(* one, asked for, at the front.                                           *)
OutSorted == Sorted(out)
OutBelowEnd == \A i \in 1..Len(out) : out[i] < End
MaxOneBefore ==
    \A i \in 1..Len(out) : out[i] < Beg => i = 1 /\ one_before
OutputSafe == OutSorted /\ OutBelowEnd /\ MaxOneBefore

InRange == {t \in Ts : Beg <= t /\ t < End}
BeforeRange == {t \in Ts : t < Beg /\ t < End}

(* The filter written as a function of the whole input.                    *)
Expected ==
    LET before == Keep(seen, BeforeRange)
    IN  (IF one_before /\ before # <<>> THEN <<before[Len(before)]>> ELSE <<>>)
        \o Keep(seen, InRange)

(* Nothing is lost in slot1, slot2 or by a cut: when the stream ends       *)
(* without an error of the filter, the consumer has exactly the events a   *)
(* filter over the whole input would give, and was told that the range is  *)
(* complete iff the input said so.                                         *)
NoLossAtEnd ==
    phase = "complete" /\ err = "none" =>
        out = Expected /\ raco_out = have_range_complete

(* RangeComplete is the last word: no event follows it.                    *)
NothingAfterRangeComplete == [][raco_out => out' = out]_vars

(* The stream ends.                                                        *)
StreamEnds == <>(phase = "complete")

(* rangefilter2.rs:191 says of Error::Logic "checked already above, should *)
(* never get here".                                                        *)
NeverLogicError == err # "Logic"
=============================================================================
