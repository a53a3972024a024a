------------------------------- MODULE Merger -------------------------------
(***************************************************************************)
(* The k-way merge of event streams, daqbuf-items-2/src/merger.rs: one     *)
(* input per data node or per storage table, one time-ordered output.      *)
(*                                                                         *)
(* An event container is its value type and the sequence of its            *)
(* timestamps.  Containers of different types do not merge (drain_into     *)
(* answers NotCompatible), containers of the same type drain completely    *)
(* (ContainerEvents and EventFull never answer Partial).                   *)
(*                                                                         *)
(* Steps: one Refill action is one result of polling one input inside      *)
(* refill(); Poll3 is poll3() with the whole of process(); the others are  *)
(* the remaining branches of poll_next.                                    *)
(***************************************************************************)
EXTENDS Integers, Sequences, SequencesExt, FiniteSets, Functions, Filter

CONSTANTS
    N,           \* number of inputs
    Ts,          \* timestamps
    Types,       \* value types of containers
    OutMaxLen,   \* out_max_len
    MaxItemLen,  \* bound: events in one input container
    MaxItems     \* bound: items all inputs deliver together

ASSUME MergerAssumption ==
    /\ N \in Nat \ {0} /\ Ts \subseteq Nat \ {0} /\ "None" \notin Types
    /\ OutMaxLen \in Nat /\ MaxItemLen \in Nat /\ MaxItems \in Nat

Inps == 1..N

VARIABLES
    open,            \* inps[i] is Some
    items,           \* items[i], NoItem for None
    out,             \* the output under construction, NoItem for None
    do_clear_out,
    range_complete,
    outbuf,          \* finished stream items: "data", "other" or "raco"
    dim0ix_max,
    done_inp, done_range_complete, complete,
    nitems,          \* items delivered (bound only)
    seen,            \* timestamps each input delivered, in order
    emitted,         \* timestamps handed to the consumer, in order
    raco_out,        \* RangeComplete was handed to the consumer
    err              \* error handed to the consumer

inputVars == <<open, range_complete, nitems, seen>>
endVars == <<done_inp, done_range_complete, complete, err>>
consumerVars == <<emitted, raco_out>>
vars == <<inputVars, items, out, do_clear_out, outbuf, dim0ix_max, endVars,
          consumerVars>>

NoItem == [ty |-> "None", tss |-> <<>>]
Item(ty, tss) == [ty |-> ty, tss |-> tss]

Sorted(s) == \A i, j \in 1..Len(s) : i < j => s[i] <= s[j]
StrictlySorted(s) == \A i, j \in 1..Len(s) : i < j => s[i] < s[j]

TsSeqs == UNION {[1..n -> Ts] : n \in 0..MaxItemLen}
Items == [ty : Types, tss : TsSeqs]
MinOf(S) == CHOOSE x \in S : \A y \in S : x <= y

(* Error values that the code considers impossible.                        *)
InternalErrors == {"NoPendingButMissing", "ShouldFindTsMin",
                   "PartialPathDrainedAllItems"}
Errors == InternalErrors \union {"none", "Input", "InputNotMonotonic"}

TypeOK ==
    /\ open \in [Inps -> BOOLEAN]
    /\ \A i \in Inps : items[i] \in Items \union {NoItem}
    /\ out = NoItem \/ (out.ty \in Types /\ Len(out.tss) > 0)
    /\ do_clear_out \in BOOLEAN
    /\ range_complete \in [Inps -> BOOLEAN]
    /\ \A k \in 1..Len(outbuf) : outbuf[k].kind \in {"data", "other", "raco"}
    /\ dim0ix_max \in Nat
    /\ done_inp \in BOOLEAN /\ done_range_complete \in BOOLEAN
    /\ complete \in BOOLEAN /\ raco_out \in BOOLEAN
    /\ err \in Errors

Init ==
    /\ open = [i \in Inps |-> TRUE]
    /\ items = [i \in Inps |-> NoItem]
    /\ out = NoItem
    /\ do_clear_out = FALSE
    /\ range_complete = [i \in Inps |-> FALSE]
    /\ outbuf = <<>>
    /\ dim0ix_max = 0
    /\ done_inp = FALSE /\ done_range_complete = FALSE /\ complete = FALSE
    /\ nitems = 0
    /\ seen = [i \in Inps |-> <<>>]
    /\ emitted = <<>> /\ raco_out = FALSE
    /\ err = "none"

StreamItem(kind, tss) == [kind |-> kind, tss |-> tss]
-----------------------------------------------------------------------------
(* refill: polls input i, which has no item in its slot.  poll2 is reached *)
(* with nothing buffered but what refill itself passed on.                 *)
Polled(i) ==
    /\ ~done_inp /\ ~done_range_complete
    /\ \A k \in 1..Len(outbuf) : outbuf[k].kind = "other"
    /\ open[i] /\ items[i] = NoItem

Delivers(i) ==
    /\ Polled(i)
    /\ nitems < MaxItems
    /\ nitems' = nitems + 1

(* An input is in time order over all its containers; equal timestamps may *)
(* occur inside and across containers.  An empty container is legal.       *)
Continues(i, tss) ==
    tss # <<>> /\ seen[i] # <<>> => tss[1] >= Last(seen[i])

RefillData(i, item) ==
    /\ Delivers(i)
    /\ Sorted(item.tss) /\ Continues(i, item.tss)
    /\ items' = [items EXCEPT ![i] = item]
    /\ seen' = [seen EXCEPT ![i] = @ \o item.tss]
    /\ UNCHANGED <<open, range_complete, out, do_clear_out, outbuf, dim0ix_max,
                   endVars, consumerVars>>

(* The error ends the merge: what is in out and in items is never emitted. *)
Fail(e) ==
    /\ err' = e
    /\ done_inp' = TRUE
    /\ UNCHANGED <<done_range_complete, complete>>

RefillNotMonotonic(i, item) ==
    /\ Delivers(i)
    /\ ~Sorted(item.tss)
    /\ Fail("InputNotMonotonic")
    /\ UNCHANGED <<open, range_complete, seen, items, out, do_clear_out, outbuf,
                   dim0ix_max, consumerVars>>

RefillRangeComplete(i) ==
    /\ Delivers(i)
    /\ range_complete' = [range_complete EXCEPT ![i] = TRUE]
    /\ UNCHANGED <<open, seen, items, out, do_clear_out, outbuf, dim0ix_max,
                   endVars, consumerVars>>

(* Log and stats items are handed on.                                      *)
RefillOther(i) ==
    /\ Delivers(i)
    /\ outbuf' = Append(outbuf, StreamItem("other", <<>>))
    /\ UNCHANGED <<open, range_complete, seen, items, out, do_clear_out,
                   dim0ix_max, endVars, consumerVars>>

RefillError(i) ==
    /\ Delivers(i)
    /\ open' = [open EXCEPT ![i] = FALSE]
    /\ Fail("Input")
    /\ UNCHANGED <<range_complete, seen, items, out, do_clear_out, outbuf,
                   dim0ix_max, consumerVars>>

(* Mutant: the ended input is not taken out of inps.                       *)
RefillEndKeepsInput(i) ==
    /\ Polled(i)
    /\ UNCHANGED vars

RefillEnd(i) ==
    /\ Polled(i)
    /\ open' = [open EXCEPT ![i] = FALSE]
    /\ UNCHANGED <<range_complete, nitems, seen, items, out, do_clear_out,
                   outbuf, dim0ix_max, endVars, consumerVars>>
-----------------------------------------------------------------------------
(* drain_into_dst_upto, drain_into_new_upto: the events up to and          *)
(* including ts move, the rest stays.                                      *)
Upto(s, ts) == Keep(s, {t \in Ts : t <= ts})
After(s, ts) == Keep(s, {t \in Ts : t > ts})

Filled == {i \in Inps : items[i] # NoItem}
Empties == {i \in Filled : items[i].tss = <<>>}
TsMin(i) == items[i].tss[1]

(* tslows[0]: the first input with the lowest ts_min; tslows[1]: the       *)
(* lowest ts_min of the others.                                            *)
Lowest ==
    MinOf({i \in Filled : \A j \in Filled : TsMin(i) <= TsMin(j)})
SecondTs(il0) == MinOf({TsMin(i) : i \in Filled \ {il0}})

(* The outcome of process(): the slots, the output, dim0ix_max, whether    *)
(* the output must be cleared, and an error.                               *)
Outcome(its, o, dmax, clear, e) ==
    [items |-> its, out |-> o, dmax |-> dmax, clear |-> clear, err |-> e]

(* Mutants: nothing is discarded; the discard reaches one tick too far.    *)
DiscardNothing(its, dmax) == its
DiscardTooMuch(its, dmax) ==
    [i \in Inps |-> IF its[i] = NoItem THEN NoItem
                    ELSE Item(its[i].ty, After(its[i].tss, dmax + 1))]

(* The discard at the end of process(): once the second-lowest input is    *)
(* reached, events of all inputs at or before dim0ix_max are duplicates.   *)
DiscardUpto(its, dmax) ==
    [i \in Inps |-> IF its[i] = NoItem THEN NoItem
                    ELSE Item(its[i].ty, After(its[i].tss, dmax))]

(* Mutant: an item that ends at the second-lowest ts takes the other path. *)
EndsBefore(item, ts) == Last(item.tss) < ts

(* The whole item can be taken: it ends at or before the second-lowest ts. *)
EndsUpto(item, ts) == Last(item.tss) <= ts

TakeFrom(il0) ==
    LET item   == items[il0]
        others == Filled \ {il0} # {}
        tl1    == SecondTs(il0)
        whole  == ~others \/ EndsUpto(item, tl1)
        taken  == IF whole THEN item.tss ELSE Upto(item.tss, tl1)
        rest   == IF whole THEN <<>> ELSE After(item.tss, tl1)
        lowmax == IF TsMin(il0) <= dim0ix_max THEN TsMin(il0) ELSE dim0ix_max
        compat == out = NoItem \/ out.ty = item.ty
        newout == IF compat THEN Item(item.ty, out.tss \o taken) ELSE out
        dmax   == IF compat /\ (whole \/ rest # <<>>) THEN Last(newout.tss)
                  ELSE lowmax
        left   == IF ~compat THEN items
                  ELSE [items EXCEPT ![il0] = IF rest = <<>> THEN NoItem
                                              ELSE Item(item.ty, rest)]
        e      == IF compat /\ ~whole /\ rest = <<>>
                  THEN "PartialPathDrainedAllItems" ELSE "none"
    IN  Outcome(IF others /\ tl1 <= dmax THEN DiscardUpto(left, dmax) ELSE left,
                newout, dmax, do_clear_out \/ ~compat, e)

Process ==
    IF Empties # {}
    THEN Outcome([items EXCEPT ![MinOf(Empties)] = NoItem], out, dim0ix_max,
                 do_clear_out, "none")
    ELSE TakeFrom(Lowest)

(* Mutant: the container is emptied (mem::take) but not taken out of the   *)
(* option.                                                                 *)
OutputLeavesEmpty(o, clear, last_emit, heavy) ==
    IF o # NoItem /\ (Len(o.tss) >= OutMaxLen \/ heavy \/ clear \/ last_emit)
    THEN /\ outbuf' = Append(outbuf, StreamItem("data", o.tss))
         /\ out' = Item(o.ty, <<>>)
         /\ do_clear_out' = FALSE
    ELSE /\ outbuf' = outbuf
         /\ out' = o
         /\ do_clear_out' = clear

(* The second half of poll3: hand out what is long enough, heavy enough    *)
(* (byte_estimate, abstracted to a choice), of another type than what      *)
(* follows, or the last.                                                   *)
Output(o, clear, last_emit, heavy) ==
    IF o # NoItem /\ (Len(o.tss) >= OutMaxLen \/ heavy \/ clear \/ last_emit)
    THEN /\ outbuf' = Append(outbuf, StreamItem("data", o.tss))
         /\ out' = NoItem
         /\ do_clear_out' = FALSE
    ELSE /\ outbuf' = outbuf
         /\ out' = o
         /\ do_clear_out' = clear

(* Mutant: the merge goes ahead as soon as some input has an item.         *)
SomeReady ==
    (\E i \in Inps : items[i] # NoItem) \/ (\A i \in Inps : ~open[i])

(* poll2 goes on to poll3 only if no input is pending.                     *)
AllReady == \A i \in Inps : open[i] => items[i] # NoItem

Poll3 ==
    /\ ~done_inp /\ ~done_range_complete
    /\ \A k \in 1..Len(outbuf) : outbuf[k].kind = "other"
    /\ AllReady
    /\ UNCHANGED <<inputVars, done_range_complete, complete, consumerVars>>
    /\ IF Filled # {}
       THEN \E p \in {Process} :
                /\ items' = p.items
                /\ dim0ix_max' = p.dmax
                /\ err' = p.err
                /\ done_inp' = (p.err # "none")
                /\ IF p.err = "none"
                   THEN \E heavy \in BOOLEAN : Output(p.out, p.clear, FALSE, heavy)
                   ELSE out' = p.out /\ do_clear_out' = p.clear /\ outbuf' = outbuf
       ELSE /\ UNCHANGED <<items, dim0ix_max, err>>
            /\ Output(out, do_clear_out, TRUE, FALSE)
            /\ done_inp' = (out = NoItem)
-----------------------------------------------------------------------------
(* poll_next: a finished item goes to the consumer.                        *)
PopOutbuf ==
    /\ ~done_range_complete
    /\ outbuf # <<>>
    /\ emitted' = emitted \o Head(outbuf).tss
    /\ raco_out' = (raco_out \/ Head(outbuf).kind = "raco")
    /\ outbuf' = Tail(outbuf)
    /\ UNCHANGED <<inputVars, items, out, do_clear_out, dim0ix_max, endVars>>

EnterRangeComplete ==
    /\ ~done_range_complete /\ outbuf = <<>> /\ done_inp
    /\ done_range_complete' = TRUE
    /\ outbuf' = IF \A i \in Inps : range_complete[i]
                 THEN <<StreamItem("raco", <<>>)>> ELSE <<>>
    /\ UNCHANGED <<inputVars, items, out, do_clear_out, dim0ix_max, done_inp,
                   complete, err, consumerVars>>

EndOfStream ==
    /\ ~complete /\ done_range_complete
    /\ complete' = TRUE
    /\ UNCHANGED <<inputVars, items, out, do_clear_out, outbuf, dim0ix_max,
                   done_inp, done_range_complete, err, consumerVars>>

(* After the end of the stream the consumer does not poll again (it would  *)
(* panic).                                                                 *)
Ended == complete /\ UNCHANGED vars

Refill(i) ==
    \/ \E item \in Items : RefillData(i, item) \/ RefillNotMonotonic(i, item)
    \/ RefillRangeComplete(i)
    \/ RefillOther(i)
    \/ RefillError(i)
    \/ RefillEnd(i)

(* What a poll does without waiting for an input.                          *)
Proceed == Poll3 \/ PopOutbuf \/ EnterRangeComplete \/ EndOfStream

Poll == Proceed \/ \E i \in Inps : Refill(i)

Next == Poll \/ Ended

(* The consumer polls until the stream ends, and every input ends once it  *)
(* has delivered all it has.                                               *)
Fairness == WF_vars(Proceed) /\ \A i \in Inps : WF_vars(RefillEnd(i))

Spec == Init /\ [][Next]_vars /\ Fairness
-----------------------------------------------------------------------------
(* The merge of ordered inputs is ordered.                                 *)
EmittedSorted == Sorted(emitted)

(* Inputs without repeated timestamps of their own give an output without  *)
(* repeated timestamps: an event that two inputs deliver (two nodes, two   *)
(* retention tables) appears once, however the inputs are cut into         *)
(* containers and whenever they become ready.                              *)
DuplicatesRemoved ==
    (\A i \in Inps : StrictlySorted(seen[i])) => StrictlySorted(emitted)

(* No timestamp gets lost: at the end of a merge without error every       *)
(* timestamp of every input was emitted, and nothing else.                 *)
NoTimestampLost ==
    complete /\ err = "none" =>
        Range(emitted) = UNION {Range(seen[i]) : i \in Inps}

(* The errors that the code marks "should never be here" do not occur.     *)
NoInternalError == err \notin InternalErrors

(* Whatever the types and cuts, the merge makes progress to its end.       *)
MergeEnds == <>complete

(* merger.rs:527 announces "emit RangeComplete" when every input was       *)
(* complete; the http api turns it into "rangeFinal" (api4.html:226).      *)
RangeCompleteForwarded ==
    complete /\ err = "none" /\ (\A i \in Inps : range_complete[i]) => raco_out
=============================================================================
