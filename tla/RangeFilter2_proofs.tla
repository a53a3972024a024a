------------------------ MODULE RangeFilter2_proofs -------------------------
(***************************************************************************)
(* The filter's output is in time order, inside the range, with at most    *)
(* one event before it, for every range, every input and every way the     *)
(* input is cut into containers.                                           *)
(***************************************************************************)
EXTENDS RangeFilter2, ProofLemmas

(* Every event of s is at most t; every event of s is inside the range.    *)
UpTo(s, t) == \A i \in 1..Len(s) : s[i] <= t
WithinRange(s) == \A i \in 1..Len(s) : Beg <= s[i] /\ s[i] < End

(* Every event of a is at most every event of b.                           *)
Before(a, b) == \A i \in 1..Len(a), j \in 1..Len(b) : a[i] <= b[j]

(* The strengthening that makes OutputSafe inductive.  It says what the    *)
(* two slots may hold: slot1 a single event from before the range and only *)
(* while nothing was emitted, slot2 a container inside the range that      *)
(* continues the output; and that as long as the one-before event is       *)
(* searched the output is empty.                                           *)
SlotsOK ==
    /\ UpTo(out, tsmax)
    /\ Sorted(slot2) /\ WithinRange(slot2) /\ UpTo(slot2, tsmax)
    /\ Before(out, slot2)
    /\ Len(slot1) <= 1
    /\ slot1 # <<>> => /\ slot1[1] < Beg /\ slot1[1] < End
                       /\ slot1[1] <= tsmax
                       /\ one_before /\ ~one_before_done
    /\ phase = "input" /\ one_before /\ ~one_before_done =>
           out = <<>> /\ slot2 = <<>>

IInv == TypeOK /\ OutputSafe /\ SlotsOK

(* Appending a sorted sequence that lies after a sorted one.               *)
LEMMA SortedConcat ==
    ASSUME NEW a \in Seq(Ts), NEW b \in Seq(Ts),
           Sorted(a), Sorted(b), Before(a, b)
    PROVE  Sorted(a \o b)
<1> DEFINE c == a \o b
<1>1. /\ Len(c) = Len(a) + Len(b)
      /\ \A i \in 1..Len(a) : c[i] = a[i]
      /\ \A i \in (Len(a)+1)..Len(c) : c[i] = b[i - Len(a)]
  BY ConcatProperties
<1>2. Len(a) \in Nat /\ Len(b) \in Nat
  BY LenProperties
<1>3. ASSUME NEW i \in 1..Len(c), NEW j \in 1..Len(c), i < j
      PROVE  c[i] <= c[j]
  <2>1. CASE j <= Len(a)
    BY <1>1, <1>2, <1>3, <2>1 DEF Sorted
  <2>2. CASE i <= Len(a) /\ j > Len(a)
    BY <1>1, <1>2, <1>3, <2>2 DEF Before
  <2>3. CASE i > Len(a)
    <3>1. i - Len(a) \in 1..Len(b) /\ j - Len(a) \in 1..Len(b)
          /\ i - Len(a) < j - Len(a)
      BY <1>1, <1>2, <1>3, <2>3
    <3>2. b[i - Len(a)] <= b[j - Len(a)]
      BY <3>1 DEF Sorted
    <3> QED BY <1>1, <1>2, <1>3, <2>3, <3>2
  <2> QED BY <2>1, <2>2, <2>3, <1>2, <1>3
<1> HIDE DEF c
<1>4. Sorted(c)
  BY <1>3 DEF Sorted
<1> QED BY <1>4 DEF c

(* The indices of a concatenation.                                         *)
LEMMA ConcatElems ==
    ASSUME NEW a \in Seq(Ts), NEW b \in Seq(Ts), NEW i \in 1..Len(a \o b)
    PROVE  \/ i \in 1..Len(a) /\ (a \o b)[i] = a[i]
           \/ i > Len(a) /\ i - Len(a) \in 1..Len(b)
              /\ (a \o b)[i] = b[i - Len(a)]
<1>1. Len(a) \in Nat /\ Len(b) \in Nat /\ Len(a \o b) = Len(a) + Len(b)
  BY ConcatProperties, LenProperties
<1> QED BY <1>1, ConcatProperties

(* What drain_into_new leaves of a sorted container.                       *)
LEMMA CutElems ==
    ASSUME NEW s \in Seq(Ts), NEW m \in 1..(Len(s)+1), NEW n \in (m-1)..Len(s)
    PROVE  /\ SubSeq(s, m, n) \in Seq(Ts)
           /\ Len(SubSeq(s, m, n)) = n - m + 1
           /\ \A i \in 1..(n - m + 1) : SubSeq(s, m, n)[i] = s[m + i - 1]
           /\ Sorted(s) => Sorted(SubSeq(s, m, n))
<1>0. Len(s) \in Nat
  BY LenProperties
<1>1. /\ SubSeq(s, m, n) \in Seq(Ts)
      /\ Len(SubSeq(s, m, n)) = n - m + 1
      /\ \A i \in 1..(n - m + 1) : SubSeq(s, m, n)[i] = s[m + i - 1]
  BY <1>0
<1>2. ASSUME Sorted(s) PROVE Sorted(SubSeq(s, m, n))
  BY <1>0, <1>1, <1>2 DEF Sorted
<1> QED BY <1>1, <1>2

(* Emitting a container keeps the output safe when the container is sorted,*)
(* follows the output, ends before End and starts no earlier than Beg, or  *)
(* has one event before Beg that becomes the first of the output.          *)
LEMMA EmitSafe ==
    ASSUME TypeOK, OutputSafe, NEW s \in Seq(Ts), Emit(s), one_before' = one_before,
           Sorted(s), Before(out, s),
           \A i \in 1..Len(s) : s[i] < End,
           \A i \in 1..Len(s) :
               s[i] < Beg => i = 1 /\ out = <<>> /\ one_before
    PROVE  OutputSafe' /\ out' \in Seq(Ts)
<1>1. out \in Seq(Ts) /\ out' = out \o s /\ Ts \subseteq Nat
  BY RangeAssumption DEF TypeOK, Emit
<1>3. OutSorted'
  BY <1>1, SortedConcat DEF OutputSafe, OutSorted
<1>4. Len(out) \in Nat /\ (out = <<>> => Len(out) = 0)
  BY <1>1, LenProperties, EmptySeq
<1>5. ASSUME NEW i \in 1..Len(out')
      PROVE  out'[i] < End /\ (out'[i] < Beg => i = 1 /\ one_before')
  <2>1. CASE i \in 1..Len(out) /\ out'[i] = out[i]
    BY <2>1 DEF OutputSafe, OutBelowEnd, MaxOneBefore
  <2>2. CASE i > Len(out) /\ i - Len(out) \in 1..Len(s)
             /\ out'[i] = s[i - Len(out)]
    <3>1. out'[i] < End
      BY <2>2
    <3>2. ASSUME out'[i] < Beg PROVE i = 1 /\ one_before
      <4>1. i - Len(out) = 1 /\ out = <<>> /\ one_before
        BY <2>2, <3>2
      <4> QED BY <4>1, <1>4
    <3> QED BY <3>1, <3>2
  <2> QED BY <2>1, <2>2, <1>1, ConcatElems
<1>6. out' \in Seq(Ts)
  BY <1>1, ConcatProperties
<1> QED BY <1>3, <1>5, <1>6 DEF OutputSafe, OutBelowEnd, MaxOneBefore

(* Timestamps are numbers, and a container that is not empty has a first.  *)
LEMMA SeqFacts ==
    ASSUME NEW s \in Seq(Ts)
    PROVE  /\ Len(s) \in Nat
           /\ \A i \in 1..Len(s) : s[i] \in Nat
           /\ s # <<>> => Len(s) >= 1 /\ s[1] \in Nat
           /\ s # <<>> /\ Len(s) <= 1 => Len(s) = 1
<1>1. Len(s) \in Nat /\ (s # <<>> => Len(s) \in Nat \ {0})
  BY EmptySeq, LenProperties
<1>2. \A i \in 1..Len(s) : s[i] \in Nat
  BY ElementOfSeq, RangeAssumption
<1>3. s # <<>> => Len(s) >= 1 /\ 1 \in 1..Len(s)
  BY <1>1
<1>4. s # <<>> => s[1] \in Nat
  BY <1>2, <1>3, Zenon
<1>5. \A n \in Nat : n >= 1 /\ n <= 1 => n = 1
  OBVIOUS
<1> QED BY <1>1, <1>2, <1>3, <1>4, <1>5, Zenon

(* A step that emits nothing and leaves the slots alone.                   *)
LEMMA QuietStep ==
    ASSUME IInv,
           UNCHANGED <<one_before, one_before_done, slot1, slot2, tsmax, out>>,
           phase' = "input" => phase = "input",
           TypeOK'
    PROVE  IInv'
BY DEF IInv, OutputSafe, OutSorted, OutBelowEnd, MaxOneBefore, SlotsOK, Sorted,
       UpTo, WithinRange, Before

LEMMA EmptyFacts ==
    /\ Len(<< >>) = 0
    /\ Sorted(<< >>) /\ WithinRange(<< >>)
    /\ \A t : UpTo(<< >>, t)
    /\ \A s : Before(s, << >>) /\ Before(<< >>, s)
BY DEF Sorted, WithinRange, UpTo, Before

(* The container that handle_item works on: sorted, not before tsmax, and  *)
(* cut at End.                                                             *)
LEMMA Pruned ==
    ASSUME TypeOK, NEW item \in Items, item # <<>>, item[1] >= tsmax,
           NEW hi \in PartitionPoint(item, End),
           NEW it, it = KeepFirst(item, hi)
    PROVE  /\ it \in Seq(Ts) /\ Sorted(it)
           /\ Len(it) \in Nat
           /\ \A i \in 1..Len(it) : it[i] < End /\ tsmax <= it[i]
                                    /\ it[i] <= item[Len(item)]
           /\ item \in Seq(Ts) /\ item[Len(item)] \in Nat
           /\ tsmax <= item[Len(item)]
<1>1. item \in Seq(Ts) /\ Sorted(item) /\ Len(item) \in Nat \ {0}
  <2>1. PICK n \in 0..MaxItemLen : item \in [1..n -> Ts]
    BY DEF Items
  <2>2. item \in Seq(Ts) /\ Len(item) = n /\ n \in Nat
    BY <2>1, RangeAssumption
  <2>3. n # 0
    BY <2>2, EmptySeq
  <2> QED BY <2>2, <2>3 DEF Items
<1>2. hi \in 0..Len(item) /\ \A i \in 1..hi : item[i] < End
  BY DEF PartitionPoint
<1>3. /\ it \in Seq(Ts) /\ Sorted(it) /\ Len(it) = hi
      /\ \A i \in 1..hi : it[i] = item[i]
  <2>1. 1 \in 1..(Len(item) + 1) /\ hi \in (1-1)..Len(item)
    BY <1>1, <1>2
  <2>2. /\ it \in Seq(Ts) /\ Sorted(it) /\ Len(it) = hi - 1 + 1
        /\ \A i \in 1..(hi - 1 + 1) : it[i] = item[1 + i - 1]
    BY <1>1, <2>1, CutElems DEF KeepFirst
  <2> QED BY <2>2, <1>1, <1>2
<1>4. \A i \in 1..Len(item) : item[i] \in Nat
                /\ item[1] <= item[i] /\ item[i] <= item[Len(item)]
  <2>1. \A i \in 1..Len(item) : item[i] \in Nat
    BY <1>1, RangeAssumption, ElementOfSeq
  <2>2. ASSUME NEW i \in 1..Len(item)
        PROVE  item[1] <= item[i] /\ item[i] <= item[Len(item)]
    <3>1. i = 1 \/ 1 < i
      BY <1>1
    <3>2. i = Len(item) \/ i < Len(item)
      BY <1>1
    <3>3. 1 \in 1..Len(item) /\ Len(item) \in 1..Len(item)
      BY <1>1
    <3> QED BY <1>1, <2>1, <3>1, <3>2, <3>3 DEF Sorted
  <2> QED BY <2>1, <2>2
<1>5. tsmax \in Nat
  BY DEF TypeOK
<1> QED BY <1>1, <1>2, <1>3, <1>4, <1>5

LEMMA RecvDataTypeOK ==
    ASSUME IInv, NEW item \in Items, RecvData(item)
    PROVE  /\ nitems' \in 0..MaxItems /\ seen' \in Seq(Ts) /\ tsmax' \in Nat
           /\ one_before' = one_before /\ have_range_complete' \in BOOLEAN
           /\ raco_out' \in BOOLEAN
<1>1. PICK hi \in PartitionPoint(item, End) : TRUE
  BY DEF RecvData
<1>2. item \in Seq(Ts) /\ item[Len(item)] \in Nat
  BY <1>1, Pruned DEF IInv, RecvData
<1>3. seen' \in Seq(Ts)
  BY <1>2, ConcatProperties DEF RecvData, IInv, TypeOK
<1> QED BY <1>2, <1>3, RangeAssumption DEF RecvData, PollInput, IInv, TypeOK

(* handle_item while the one-before event is searched: there is no output  *)
(* yet, the first container with an event in the range starts it.          *)
LEMMA SearchOneBeforeInv ==
    ASSUME IInv, NEW item \in Items, RecvData(item),
           NEW hi \in PartitionPoint(item, End),
           NEW it, it = KeepFirst(item, hi),
           NEW lo \in PartitionPoint(it, Beg),
           one_before, ~one_before_done, SearchOneBefore(it, lo)
    PROVE  IInv'
<1> USE RangeAssumption
<1>1. /\ phase = "input" /\ slot2 = <<>> /\ out = <<>>
      /\ tsmax' = item[Len(item)]
      /\ one_before'
  BY DEF RecvData, PollInput, IInv, SlotsOK
<1>2. /\ it \in Seq(Ts) /\ Sorted(it)
      /\ Len(it) \in Nat
      /\ \A i \in 1..Len(it) : it[i] < End /\ tsmax <= it[i]
                               /\ it[i] <= tsmax'
      /\ tsmax' \in Nat /\ tsmax <= tsmax'
  BY <1>1, Pruned DEF IInv, RecvData
<1>3. lo \in 0..Len(it) /\ (\A i \in 1..lo : it[i] < Beg)
      /\ (\A i \in (lo+1)..Len(it) : it[i] >= Beg)
  BY DEF PartitionPoint
<1>4. \A i \in 1..Len(it) : it[i] \in Nat
  BY <1>2, ElementOfSeq
<1>5. \A s \in Seq(Ts) : Emit(s) => out' = s
  BY <1>1, ConcatEmptySeq DEF Emit
<1>6. CASE lo < Len(it) /\ lo > 0
  <2> DEFINE s == DropFirst(it, lo - 1)
  <2>1. one_before_done' = TRUE /\ slot1' = <<>> /\ err' = err
        /\ phase' = phase /\ Emit(s) /\ slot2' = <<>>
    BY <1>6, <1>1 DEF SearchOneBefore
  <2>2. /\ s \in Seq(Ts) /\ Sorted(s) /\ Len(s) = Len(it) - lo + 1
        /\ \A i \in 1..Len(s) : s[i] = it[lo + i - 1]
    <3>1. lo \in 1..(Len(it)+1) /\ Len(it) \in (lo-1)..Len(it)
      BY <1>2, <1>3, <1>6
    <3>2. s = SubSeq(it, lo, Len(it))
      BY <1>2, <1>3 DEF DropFirst
    <3> HIDE DEF s
    <3> QED BY <1>2, <3>1, <3>2, CutElems
  <2> HIDE DEF s
  <2>3. \A i \in 1..Len(s) : /\ s[i] < End /\ s[i] <= tsmax'
                             /\ s[i] < Beg => i = 1
    <3> SUFFICES ASSUME NEW i \in 1..Len(s)
                 PROVE  s[i] < End /\ s[i] <= tsmax' /\ (s[i] < Beg => i = 1)
      OBVIOUS
    <3>1. lo + i - 1 \in 1..Len(it) /\ s[i] = it[lo + i - 1]
      BY <2>2, <1>2, <1>3, <1>6
    <3>2. i # 1 => lo + i - 1 \in (lo+1)..Len(it)
      BY <3>1, <2>2, <1>2, <1>3
    <3> QED BY <3>1, <3>2, <1>2, <1>3, <1>4
  <2>4. OutputSafe' /\ out' \in Seq(Ts) /\ out' = s
    BY <1>1, <1>5, <2>1, <2>2, <2>3, EmitSafe, EmptyFacts DEF IInv, RecvData
  <2>5. TypeOK'
    BY <2>1, <2>4, RecvDataTypeOK, EmptySeq DEF IInv, TypeOK
  <2>6. SlotsOK'
    BY <2>1, <2>3, <2>4, EmptyFacts DEF SlotsOK, UpTo
  <2> QED BY <2>4, <2>5, <2>6 DEF IInv
<1>7. CASE lo < Len(it) /\ lo = 0 /\ slot1 # <<>>
  <2>1. one_before_done' = TRUE /\ slot1' = <<>> /\ err' = err
        /\ phase' = phase /\ Emit(slot1) /\ slot2' = it
    BY <1>7, <1>1 DEF SearchOneBefore
  <2>2. slot1 \in Seq(Ts) /\ Len(slot1) = 1 /\ slot1[1] \in Nat
        /\ slot1[1] < End /\ slot1[1] <= tsmax
    <3>1. slot1 \in Seq(Ts) /\ Len(slot1) <= 1
          /\ slot1[1] < End /\ slot1[1] <= tsmax
      BY <1>7 DEF IInv, SlotsOK, TypeOK
    <3>2. Len(slot1) = 1
      BY <3>1, <1>7, SeqFacts
    <3>3. slot1[1] \in Nat
      BY <3>1, <1>7, SeqFacts
    <3> QED BY <3>1, <3>2, <3>3
  <2>3. Sorted(slot1) /\ \A i \in 1..Len(slot1) : i = 1
    BY <2>2 DEF Sorted
  <2>4. OutputSafe' /\ out' \in Seq(Ts) /\ out' = slot1
    BY <1>1, <1>5, <2>1, <2>2, <2>3, EmitSafe, EmptyFacts DEF IInv, RecvData
  <2>5. TypeOK'
    BY <2>1, <2>4, <1>2, RecvDataTypeOK, EmptySeq DEF IInv, TypeOK
  <2>6. WithinRange(it) /\ UpTo(it, tsmax')
    BY <1>2, <1>3, <1>4, <1>7 DEF WithinRange, UpTo
  <2>7. UpTo(slot1, tsmax') /\ Before(slot1, it)
    <3>1. tsmax \in Nat
      BY DEF IInv, TypeOK
    <3> QED BY <3>1, <1>2, <1>4, <2>2, <2>3 DEF UpTo, Before
  <2>8. SlotsOK'
    BY <1>2, <2>1, <2>4, <2>6, <2>7, EmptyFacts DEF SlotsOK
  <2> QED BY <2>4, <2>5, <2>8 DEF IInv
<1>8. CASE lo < Len(it) /\ lo = 0 /\ slot1 = <<>>
  <2>1. one_before_done' = TRUE /\ slot1' = <<>> /\ err' = err
        /\ phase' = phase /\ Emit(it) /\ slot2' = <<>>
    BY <1>8, <1>1 DEF SearchOneBefore
  <2>2. \A i \in 1..Len(it) : it[i] < End /\ it[i] <= tsmax' /\ ~(it[i] < Beg)
    BY <1>2, <1>3, <1>4, <1>8
  <2>4. OutputSafe' /\ out' \in Seq(Ts) /\ out' = it
    BY <1>1, <1>2, <1>5, <2>1, <2>2, EmitSafe, EmptyFacts DEF IInv, RecvData
  <2>5. TypeOK'
    BY <2>1, <2>4, RecvDataTypeOK, EmptySeq DEF IInv, TypeOK
  <2>6. SlotsOK'
    BY <2>1, <2>2, <2>4, EmptyFacts DEF SlotsOK, UpTo
  <2> QED BY <2>4, <2>5, <2>6 DEF IInv
<1>9. CASE ~(lo < Len(it))
  <2>1. UNCHANGED <<one_before_done, slot2, out>> /\ lo = Len(it)
    BY <1>9, <1>3, <1>2 DEF SearchOneBefore
  <2>2. OutputSafe' /\ out' \in Seq(Ts)
    BY <1>1, <2>1 DEF IInv, OutputSafe, OutSorted, OutBelowEnd, MaxOneBefore,
                      TypeOK, RecvData
  <2>3. CASE it = <<>>
    <3>1. slot1' = slot1 /\ err' = "Logic" /\ phase' = "inp_done"
      BY <1>9, <2>3 DEF SearchOneBefore, Fail
    <3>2. TypeOK'
      BY <2>1, <2>2, <3>1, RecvDataTypeOK DEF IInv, TypeOK, Phases
    <3>3. slot1 # <<>> => slot1[1] <= tsmax'
      <4> SUFFICES ASSUME slot1 # <<>> PROVE slot1[1] <= tsmax'
        OBVIOUS
      <4>1. slot1 \in Seq(Ts) /\ slot1[1] <= tsmax /\ tsmax \in Nat
        BY DEF IInv, SlotsOK, TypeOK
      <4>2. slot1[1] \in Nat
        BY <4>1, SeqFacts
      <4> QED BY <4>1, <4>2, <1>2
    <3>4. SlotsOK'
      BY <1>1, <2>1, <3>1, <3>3, EmptyFacts DEF IInv, SlotsOK
    <3> QED BY <2>2, <3>2, <3>4 DEF IInv
  <2>4. CASE it # <<>>
    <3>1. slot1' = <<it[Len(it)]>> /\ err' = err /\ phase' = phase
      BY <1>9, <2>4 DEF SearchOneBefore
    <3>2. Len(it) \in 1..Len(it) /\ it[Len(it)] \in Ts
      BY <1>2, <2>4, EmptySeq, ElementOfSeq
    <3>3. slot1' \in Seq(Ts) /\ Len(slot1') = 1 /\ slot1'[1] = it[Len(it)]
      BY <3>1, <3>2
    <3>4. slot1'[1] < Beg /\ slot1'[1] < End /\ slot1'[1] <= tsmax'
      BY <1>2, <1>3, <2>1, <3>2, <3>3
    <3>5. TypeOK'
      BY <2>1, <2>2, <3>1, <3>3, RecvDataTypeOK DEF IInv, TypeOK
    <3>6. SlotsOK'
      BY <1>1, <2>1, <3>1, <3>3, <3>4, EmptyFacts DEF IInv, SlotsOK
    <3> QED BY <2>2, <3>5, <3>6 DEF IInv
  <2> QED BY <2>3, <2>4
<1> QED BY <1>3, <1>2, <1>6, <1>7, <1>8, <1>9

(* handle_item once the one-before event is settled or was not asked for.  *)
LEMMA PassInRangeInv ==
    ASSUME IInv, NEW item \in Items, RecvData(item),
           NEW hi \in PartitionPoint(item, End),
           NEW it, it = KeepFirst(item, hi),
           NEW lo \in PartitionPoint(it, Beg),
           ~(one_before /\ ~one_before_done), PassInRange(it, lo)
    PROVE  IInv'
<1> USE RangeAssumption
<1> DEFINE s == DropFirst(it, lo)
<1>1. /\ phase = "input" /\ slot2 = <<>> /\ slot1 = <<>>
      /\ tsmax' = item[Len(item)]
      /\ UNCHANGED <<one_before, one_before_done, slot1, slot2, err, phase>>
      /\ Emit(s)
  BY DEF RecvData, PollInput, IInv, SlotsOK, PassInRange, slots
<1>2. /\ it \in Seq(Ts) /\ Sorted(it)
      /\ Len(it) \in Nat
      /\ \A i \in 1..Len(it) : it[i] < End /\ tsmax <= it[i]
                               /\ it[i] <= tsmax'
      /\ tsmax' \in Nat /\ tsmax <= tsmax'
  BY <1>1, Pruned DEF IInv, RecvData
<1>3. lo \in 0..Len(it) /\ (\A i \in (lo+1)..Len(it) : it[i] >= Beg)
  BY DEF PartitionPoint
<1>4. \A i \in 1..Len(it) : it[i] \in Nat
  BY <1>2, ElementOfSeq
<1>5. /\ s \in Seq(Ts) /\ Sorted(s) /\ Len(s) = Len(it) - lo
      /\ \A i \in 1..Len(s) : s[i] = it[lo + i]
  <2>1. lo + 1 \in 1..(Len(it)+1) /\ Len(it) \in (lo+1-1)..Len(it)
    BY <1>2, <1>3
  <2>2. s = SubSeq(it, lo + 1, Len(it))
    BY DEF DropFirst
  <2> HIDE DEF s
  <2>3. /\ s \in Seq(Ts) /\ Sorted(s) /\ Len(s) = Len(it) - (lo + 1) + 1
        /\ \A i \in 1..(Len(it) - (lo + 1) + 1) : s[i] = it[lo + 1 + i - 1]
    BY <1>2, <2>1, <2>2, CutElems
  <2> QED BY <2>3, <1>2, <1>3
<1> HIDE DEF s
<1>6. \A i \in 1..Len(s) : /\ s[i] \in Nat /\ s[i] < End /\ ~(s[i] < Beg)
                           /\ tsmax <= s[i] /\ s[i] <= tsmax'
  BY <1>2, <1>3, <1>4, <1>5
<1>7. /\ out \in Seq(Ts) /\ tsmax \in Nat
      /\ \A i \in 1..Len(out) : out[i] \in Nat /\ out[i] <= tsmax
  BY ElementOfSeq DEF IInv, TypeOK, SlotsOK, UpTo
<1>8. Before(out, s)
  BY <1>6, <1>7 DEF Before
<1>9. OutputSafe' /\ out' \in Seq(Ts)
  BY <1>1, <1>5, <1>6, <1>8, EmitSafe DEF IInv
<1>10. UpTo(out', tsmax')
  <2> SUFFICES ASSUME NEW i \in 1..Len(out') PROVE out'[i] <= tsmax'
    BY DEF UpTo
  <2>1. out' = out \o s
    BY <1>1 DEF Emit
  <2>2. \/ i \in 1..Len(out) /\ out'[i] = out[i]
        \/ i - Len(out) \in 1..Len(s) /\ out'[i] = s[i - Len(out)]
    BY <2>1, <1>5, <1>7, ConcatElems
  <2> QED BY <2>2, <1>2, <1>6, <1>7
<1>11. TypeOK'
  BY <1>1, <1>9, RecvDataTypeOK DEF IInv, TypeOK
<1>12. SlotsOK'
  BY <1>1, <1>10, EmptyFacts DEF IInv, SlotsOK
<1> QED BY <1>9, <1>11, <1>12 DEF IInv

LEMMA NextInv ==
    ASSUME IInv, [Next]_vars
    PROVE  IInv'
<1> USE RangeAssumption
<1>1. CASE EmitSlot2
  <2>1. /\ slot2 \in Seq(Ts) /\ Sorted(slot2) /\ Before(out, slot2)
        /\ WithinRange(slot2) /\ UpTo(slot2, tsmax)
        /\ one_before' = one_before /\ Emit(slot2)
        /\ slot2 # <<>> /\ phase = "input"
    BY <1>1 DEF EmitSlot2, IInv, SlotsOK, TypeOK
  <2>2. \A i \in 1..Len(slot2) : slot2[i] \in Nat /\ slot2[i] < End
                                 /\ ~(slot2[i] < Beg)
    <3>1. \A i \in 1..Len(slot2) : slot2[i] \in Nat
      BY <2>1, SeqFacts
    <3> QED BY <2>1, <3>1 DEF WithinRange
  <2>3. OutputSafe' /\ out' \in Seq(Ts)
    BY <2>1, <2>2, EmitSafe DEF IInv
  <2>4. TypeOK'
    BY <1>1, <2>3, EmptySeq DEF EmitSlot2, IInv, TypeOK
  <2>5. UpTo(out', tsmax')
    <3> SUFFICES ASSUME NEW i \in 1..Len(out') PROVE out'[i] <= tsmax
      BY <1>1 DEF UpTo, EmitSlot2
    <3>1. out' = out \o slot2 /\ out \in Seq(Ts)
      BY <2>1 DEF Emit, IInv, TypeOK
    <3>2. \/ i \in 1..Len(out) /\ out'[i] = out[i]
          \/ i - Len(out) \in 1..Len(slot2) /\ out'[i] = slot2[i - Len(out)]
      BY <3>1, <2>1, ConcatElems
    <3> QED BY <3>2, <2>1 DEF IInv, SlotsOK, UpTo
  <2>6. SlotsOK'
    BY <1>1, <2>1, <2>5, EmptyFacts DEF IInv, SlotsOK, EmitSlot2
  <2> QED BY <2>3, <2>4, <2>6 DEF IInv
<1>2. CASE RecvEmpty \/ PassThrough \/ RecvRangeComplete
  <2>1. nitems' \in 0..MaxItems
    BY <1>2 DEF RecvEmpty, PassThrough, RecvRangeComplete, PollInput, IInv, TypeOK
  <2>2. /\ UNCHANGED <<one_before, one_before_done, slot1, slot2, tsmax, phase,
                       seen, out, err, raco_out>>
        /\ have_range_complete' \in BOOLEAN
    BY <1>2, Zenon DEF RecvEmpty, PassThrough, RecvRangeComplete, slots,
                ghosts, IInv, TypeOK
  <2>3. TypeOK'
    BY <2>1, <2>2 DEF IInv, TypeOK
  <2> QED BY <2>2, <2>3, QuietStep
<1>3. ASSUME NEW item \in Items, RecvUnordered(item) PROVE IInv'
  <2>1. TypeOK'
    BY <1>3 DEF RecvUnordered, Fail, PollInput, slots, IInv, TypeOK, Phases
  <2> QED BY <1>3, <2>1, QuietStep DEF RecvUnordered, Fail, slots
<1>4. ASSUME NEW item \in Items, RecvData(item) PROVE IInv'
  <2>1. PICK hi \in PartitionPoint(item, End) :
          \E lo \in PartitionPoint(KeepFirst(item, hi), Beg) :
             IF one_before /\ ~one_before_done
             THEN SearchOneBefore(KeepFirst(item, hi), lo)
             ELSE PassInRange(KeepFirst(item, hi), lo)
    BY <1>4 DEF RecvData
  <2>2. PICK lo \in PartitionPoint(KeepFirst(item, hi), Beg) :
             IF one_before /\ ~one_before_done
             THEN SearchOneBefore(KeepFirst(item, hi), lo)
             ELSE PassInRange(KeepFirst(item, hi), lo)
    BY <2>1
  <2>3. CASE one_before /\ ~one_before_done
    BY <1>4, <2>2, <2>3, SearchOneBeforeInv
  <2>4. CASE ~(one_before /\ ~one_before_done)
    BY <1>4, <2>2, <2>4, PassInRangeInv
  <2> QED BY <2>3, <2>4
<1>5. CASE RecvEnd
  <2>1. /\ slot1 \in Seq(Ts) /\ slot2 = <<>> /\ Len(slot1) <= 1
        /\ one_before' = one_before /\ Emit(slot1) /\ out \in Seq(Ts)
        /\ phase' = "inp_done" /\ slot1' = <<>> /\ slot2' = <<>>
        /\ tsmax' = tsmax /\ tsmax \in Nat
    BY <1>5 DEF RecvEnd, IInv, SlotsOK, TypeOK
  <2>2. CASE slot1 = <<>>
    <3>1. out' = out
      BY <2>1, <2>2, ConcatEmptySeq DEF Emit
    <3>2. TypeOK'
      BY <1>5, <2>1, <3>1, EmptySeq DEF RecvEnd, IInv, TypeOK, Phases
    <3> QED BY <1>5, <2>1, <2>2, <3>1, <3>2, QuietStep DEF RecvEnd
  <2>3. CASE slot1 # <<>>
    <3>1. /\ Len(slot1) = 1 /\ out = <<>> /\ one_before
          /\ slot1[1] < End /\ slot1[1] <= tsmax
      <4>1. Len(slot1) = 1
        BY <2>1, <2>3, SeqFacts
      <4> QED BY <4>1, <1>5, <2>3 DEF RecvEnd, IInv, SlotsOK
    <3>2. out' = slot1
      BY <2>1, <3>1, ConcatEmptySeq DEF Emit
    <3>3. Sorted(slot1) /\ \A i \in 1..Len(slot1) : i = 1
      BY <3>1 DEF Sorted
    <3>4. OutputSafe' /\ out' \in Seq(Ts)
      BY <2>1, <3>1, <3>3, EmitSafe, EmptyFacts DEF IInv
    <3>5. TypeOK'
      BY <1>5, <2>1, <3>4, EmptySeq DEF RecvEnd, IInv, TypeOK, Phases
    <3>6. UpTo(out', tsmax')
      BY <2>1, <3>1, <3>2, <3>3 DEF UpTo
    <3>7. SlotsOK'
      BY <2>1, <3>6, EmptyFacts DEF SlotsOK
    <3> QED BY <3>4, <3>5, <3>7 DEF IInv
  <2> QED BY <2>2, <2>3
<1>6. CASE EmitRangeComplete \/ Finish
  <2>1. TypeOK'
    BY <1>6 DEF EmitRangeComplete, Finish, slots, ghosts, IInv, TypeOK, Phases
  <2> QED BY <1>6, <2>1, QuietStep DEF EmitRangeComplete, Finish, slots, ghosts
<1>7. CASE UNCHANGED vars
  <2>1. TypeOK'
    BY <1>7 DEF vars, slots, ghosts, IInv, TypeOK
  <2> QED BY <1>7, <2>1, QuietStep DEF vars, slots, ghosts
<1> QED BY <1>1, <1>2, <1>3, <1>4, <1>5, <1>6, <1>7
        DEF Next, Poll, PollOnComplete

LEMMA InitInv == Init => IInv
<1> SUFFICES ASSUME Init PROVE IInv
  OBVIOUS
<1>1. TypeOK
  <2>1. <<>> \in Seq(Ts) /\ 0 \in 0..MaxItems
    BY RangeAssumption, EmptySeq
  <2> QED BY <2>1 DEF Init, TypeOK, Phases
<1>2. OutputSafe /\ SlotsOK
  BY EmptyFacts DEF Init, OutputSafe, OutSorted, OutBelowEnd, MaxOneBefore, SlotsOK
<1> QED BY <1>1, <1>2 DEF IInv

LEMMA SpecIInv == Spec => []IInv
<1>1. IInv /\ [Next]_vars => IInv'
  BY NextInv
<1> QED BY InitInv, <1>1, PTL DEF Spec

(* The fields of RangeFilter2 keep their types.                            *)
THEOREM TypeCorrect == Spec => []TypeOK
<1>1. IInv => TypeOK
  BY DEF IInv
<1> QED BY <1>1, SpecIInv, PTL

(* The events RangeFilter2::poll_next hands out are in time order, below   *)
(* the end of the range, and at most the first one lies before the range,  *)
(* and only if it was asked for.                                           *)
THEOREM OutputIsSafe == Spec => []OutputSafe
<1>1. IInv => OutputSafe
  BY DEF IInv
<1> QED BY <1>1, SpecIInv, PTL
-----------------------------------------------------------------------------
(* Where the events of the input are: what the filter has let through and  *)
(* what it holds back make up what a filter over the whole input gives.    *)
LastOf(q) == IF q = <<>> THEN <<>> ELSE <<q[Len(q)]>>
Searching == phase = "input" /\ one_before /\ ~one_before_done
Flow ==
    err = "none" =>
      /\ Searching =>
           /\ out = <<>> /\ slot2 = <<>> /\ Keep(seen, InRange) = <<>>
           /\ slot1 = LastOf(Keep(seen, BeforeRange))
      /\ ~Searching => slot1 = <<>> /\ out \o slot2 = Expected
      /\ one_before /\ one_before_done => Beg <= tsmax
      /\ phase # "input" => slot2 = <<>>

(* RangeComplete goes out at the end.                                      *)
RacoInv ==
    /\ raco_out => phase \in {"raco_done", "done", "complete"}
    /\ phase \in {"raco_done", "done", "complete"} =>
         raco_out = have_range_complete

(* The expected output in terms of the parts of the input.                 *)
LEMMA ExpectedParts ==
    ASSUME NEW b, NEW i, b = Keep(seen, BeforeRange), i = Keep(seen, InRange)
    PROVE  /\ one_before => Expected = LastOf(b) \o i
           /\ ~one_before => Expected = <<>> \o i
BY DEF Expected, LastOf

LEMMA ExpectedPartsPrime ==
    ASSUME NEW b, NEW i, b = Keep(seen', BeforeRange), i = Keep(seen', InRange)
    PROVE  /\ one_before' => Expected' = LastOf(b) \o i
           /\ ~one_before' => Expected' = <<>> \o i
BY DEF Expected, LastOf, BeforeRange, InRange

LEMMA LastOfConcat ==
    ASSUME NEW p \in Seq(Ts), NEW q \in Seq(Ts)
    PROVE  /\ LastOf(q) \in Seq(Ts)
           /\ q # <<>> => LastOf(p \o q) = LastOf(q)
           /\ q = <<>> => LastOf(p \o q) = LastOf(p)
<1>1. PICK m \in Nat, n \in Nat : m = Len(p) /\ n = Len(q)
  OBVIOUS
<1>2. ASSUME q # <<>>
      PROVE  LastOf(p \o q) = LastOf(q) /\ LastOf(q) \in Seq(Ts)
  <2>1. n > 0 /\ m + n \in 1..(m + n) /\ ~(m + n <= m) /\ (m + n) - m = n
    BY <1>1, <1>2, EmptySeq
  <2>2. /\ Len(p \o q) = m + n /\ p \o q \in Seq(Ts)
        /\ \A i \in 1..(m + n) : (p \o q)[i] = IF i <= m THEN p[i] ELSE q[i - m]
    BY <1>1, ConcatProperties
  <2>3. p \o q # <<>>
    BY <1>2, ConcatEmptySeq
  <2>4. q[n] \in Ts
    BY <1>1, <2>1, ElementOfSeq
  <2>5. (p \o q)[m + n] = q[n]
    BY <2>1, <2>2
  <2>6. LastOf(p \o q) = <<q[n]>> /\ LastOf(q) = <<q[n]>>
    BY <1>1, <1>2, <2>2, <2>3, <2>5 DEF LastOf
  <2> QED BY <2>4, <2>6
<1>3. q = <<>> => p \o q = p
  OBVIOUS
<1>4. q = <<>> => LastOf(q) \in Seq(Ts)
  BY DEF LastOf
<1> QED BY <1>2, <1>3, <1>4

(* What is kept of a sequence all of which passes, and of one of which     *)
(* nothing passes.                                                         *)
LEMMA KeepAllNone ==
    ASSUME NEW q \in Seq(Ts), NEW K
    PROVE  /\ ToSet(q) \subseteq K => Keep(q, K) = q
           /\ ToSet(q) \intersect K = {} => Keep(q, K) = <<>>
<1>1. ASSUME ToSet(q) \subseteq K PROVE Keep(q, K) = q
  <2>1. q \in Seq(ToSet(q))
    BY DEF ToSet
  <2>2. PICK S : S = ToSet(q)
    OBVIOUS
  <2> QED BY <1>1, <2>1, <2>2, KeepAll
<1> QED BY <1>1, KeepOne

LEMMA CutOnce ==
    ASSUME NEW s \in Seq(Ts), NEW n \in 0..Len(s)
    PROVE  /\ KeepFirst(s, n) \in Seq(Ts) /\ DropFirst(s, n) \in Seq(Ts)
           /\ s = KeepFirst(s, n) \o DropFirst(s, n)
           /\ ToSet(KeepFirst(s, n)) = {s[i] : i \in 1..n}
           /\ ToSet(DropFirst(s, n)) = {s[i] : i \in (n+1)..Len(s)}
<1>1. /\ SubSeq(s, 1, n) \in Seq(Ts) /\ SubSeq(s, n + 1, Len(s)) \in Seq(Ts)
      /\ s = SubSeq(s, 1, n) \o SubSeq(s, n + 1, Len(s))
      /\ ToSet(SubSeq(s, 1, n)) = {s[i] : i \in 1..n}
      /\ ToSet(SubSeq(s, n + 1, Len(s))) = {s[i] : i \in (n + 1)..Len(s)}
  BY SplitAt
<1> QED BY <1>1 DEF KeepFirst, DropFirst

(* The two cuts of a container part it into the events before, inside and  *)
(* after the range.                                                        *)
LEMMA CutKeeps ==
    ASSUME NEW item \in Seq(Ts), NEW hi \in PartitionPoint(item, End),
           NEW lo \in PartitionPoint(KeepFirst(item, hi), Beg)
    PROVE  \E low \in Seq(Ts), mid \in Seq(Ts) :
             /\ low = KeepFirst(KeepFirst(item, hi), lo)
             /\ mid = DropFirst(KeepFirst(item, hi), lo)
             /\ KeepFirst(item, hi) = low \o mid
             /\ Keep(item, BeforeRange) = low /\ Keep(item, InRange) = mid
<1> USE RangeAssumption
<1>0. PICK it : it = KeepFirst(item, hi)
  OBVIOUS
<1>1. PICK high : high = DropFirst(item, hi)
  OBVIOUS
<1>2. /\ hi \in 0..Len(item)
      /\ \A i \in 1..hi : item[i] < End
      /\ \A i \in (hi+1)..Len(item) : item[i] >= End
  BY DEF PartitionPoint
<1>3. /\ it \in Seq(Ts) /\ high \in Seq(Ts) /\ item = it \o high
      /\ ToSet(it) = {item[i] : i \in 1..hi}
      /\ ToSet(high) = {item[i] : i \in (hi+1)..Len(item)}
  BY <1>0, <1>1, <1>2, CutOnce
<1>4. PICK low, mid : low = KeepFirst(it, lo) /\ mid = DropFirst(it, lo)
  OBVIOUS
<1>5. /\ lo \in 0..Len(it)
      /\ \A i \in 1..lo : it[i] < Beg
      /\ \A i \in (lo+1)..Len(it) : it[i] >= Beg
  BY <1>0 DEF PartitionPoint
<1>6. /\ low \in Seq(Ts) /\ mid \in Seq(Ts) /\ it = low \o mid
      /\ ToSet(low) = {it[i] : i \in 1..lo}
      /\ ToSet(mid) = {it[i] : i \in (lo+1)..Len(it)}
  BY <1>3, <1>4, <1>5, CutOnce
<1>7. /\ \A x \in ToSet(high) : x \in Nat /\ x >= End
      /\ \A x \in ToSet(low) : x \in Ts /\ x \in Nat /\ x < Beg /\ x < End
      /\ \A x \in ToSet(mid) : x \in Ts /\ x \in Nat /\ x >= Beg /\ x < End
  <2>1. ToSet(high) \subseteq Ts /\ ToSet(it) \subseteq Ts
    BY <1>3, ToSetType
  <2>2. ToSet(it) = ToSet(low) \union ToSet(mid)
    BY <1>6, ToSetConcat
  <2>3. \A x \in ToSet(it) : x < End
    BY <1>2, <1>3
  <2>4. \A x \in ToSet(high) : x >= End
    BY <1>2, <1>3
  <2>5. (\A x \in ToSet(low) : x < Beg) /\ (\A x \in ToSet(mid) : x >= Beg)
    BY <1>5, <1>6
  <2> QED BY <2>1, <2>2, <2>3, <2>4, <2>5
<1>8. /\ ToSet(low) \subseteq BeforeRange /\ ToSet(low) \intersect InRange = {}
      /\ ToSet(mid) \subseteq InRange /\ ToSet(mid) \intersect BeforeRange = {}
      /\ ToSet(high) \intersect InRange = {} /\ ToSet(high) \intersect BeforeRange = {}
  BY <1>7 DEF InRange, BeforeRange
<1>9. ASSUME NEW K
      PROVE  Keep(item, K) = (Keep(low, K) \o Keep(mid, K)) \o Keep(high, K)
  <2>1. Keep(it \o high, K) = Keep(it, K) \o Keep(high, K)
    BY <1>3, KeepConcat
  <2>2. Keep(low \o mid, K) = Keep(low, K) \o Keep(mid, K)
    BY <1>6, KeepConcat
  <2> QED BY <1>3, <1>6, <2>1, <2>2
<1>10. (low \o <<>>) \o <<>> = low /\ (<<>> \o mid) \o <<>> = mid
  BY <1>6
<1>11. /\ Keep(low, BeforeRange) = low /\ Keep(mid, BeforeRange) = <<>>
       /\ Keep(high, BeforeRange) = <<>>
  BY <1>3, <1>6, <1>8, KeepAllNone
<1>12. /\ Keep(low, InRange) = <<>> /\ Keep(mid, InRange) = mid
       /\ Keep(high, InRange) = <<>>
  BY <1>3, <1>6, <1>8, KeepAllNone
<1>13. Keep(item, BeforeRange) = low /\ Keep(item, InRange) = mid
  BY <1>9, <1>10, <1>11, <1>12
<1> QED BY <1>0, <1>4, <1>6, <1>13, Zenon

LEMMA ConcatThree ==
    ASSUME NEW x \in Seq(Ts), NEW y \in Seq(Ts), NEW z \in Seq(Ts)
    PROVE  (x \o y) \o z = x \o (y \o z)
BY ConcatAssociative

(* The event before a cut, and what follows the cut.                       *)
LEMMA DropBefore ==
    ASSUME NEW it \in Seq(Ts), NEW lo \in 1..Len(it)
    PROVE  DropFirst(it, lo - 1) = LastOf(KeepFirst(it, lo)) \o DropFirst(it, lo)
<1>1. PICK l \in Nat, n \in Nat : l = Len(it) /\ n = lo /\ 1 <= n /\ n <= l
  BY LenProperties
<1>2. /\ KeepFirst(it, n) \in Seq(Ts) /\ Len(KeepFirst(it, n)) = n
      /\ KeepFirst(it, n)[n] = it[n]
  <2>1. 1 \in 1..(Len(it) + 1) /\ n \in (1-1)..Len(it)
    BY <1>1
  <2>2. /\ SubSeq(it, 1, n) \in Seq(Ts) /\ Len(SubSeq(it, 1, n)) = n - 1 + 1
        /\ \A i \in 1..(n - 1 + 1) : SubSeq(it, 1, n)[i] = it[1 + i - 1]
    BY <2>1, CutElems
  <2> QED BY <1>1, <2>2 DEF KeepFirst
<1>3. LastOf(KeepFirst(it, n)) = <<it[n]>> /\ it[n] \in Ts
  <2>1. KeepFirst(it, n) # <<>>
    BY <1>1, <1>2, EmptySeq
  <2> QED BY <1>1, <1>2, <2>1, ElementOfSeq DEF LastOf
<1>4. PICK d : d = DropFirst(it, n)
  OBVIOUS
<1>5. d \in Seq(Ts) /\ Len(d) = l - n /\ \A i \in 1..(l - n) : d[i] = it[n + i]
  <2>1. n + 1 \in 1..(Len(it) + 1) /\ Len(it) \in ((n+1)-1)..Len(it)
    BY <1>1
  <2>2. /\ SubSeq(it, n + 1, l) \in Seq(Ts) /\ Len(SubSeq(it, n + 1, l)) = l - (n + 1) + 1
        /\ \A i \in 1..(l - (n + 1) + 1) : SubSeq(it, n + 1, l)[i] = it[(n + 1) + i - 1]
    BY <1>1, <2>1, CutElems
  <2>3. l - (n + 1) + 1 = l - n /\ \A i \in 1..(l - n) : (n + 1) + i - 1 = n + i
    BY <1>1
  <2> QED BY <1>1, <1>4, <2>2, <2>3 DEF DropFirst
<1>6. PICK e : e = DropFirst(it, n - 1)
  OBVIOUS
<1>7. /\ e \in Seq(Ts) /\ Len(e) = l - n + 1
      /\ \A i \in 1..(l - n + 1) : e[i] = it[n + i - 1]
  <2>1. n \in 1..(Len(it) + 1) /\ Len(it) \in (n-1)..Len(it) /\ (n - 1) + 1 = n
    BY <1>1
  <2>2. /\ SubSeq(it, n, l) \in Seq(Ts) /\ Len(SubSeq(it, n, l)) = l - n + 1
        /\ \A i \in 1..(l - n + 1) : SubSeq(it, n, l)[i] = it[n + i - 1]
    BY <1>1, <2>1, CutElems
  <2> QED BY <1>1, <1>6, <2>1, <2>2 DEF DropFirst
<1>8. PICK c : c = <<it[n]>> \o d
  OBVIOUS
<1>9. /\ c \in Seq(Ts) /\ Len(c) = l - n + 1
      /\ \A i \in 1..(l - n + 1) : c[i] = it[n + i - 1]
  <2>1. PICK o \in Seq(Ts) : o = <<it[n]>> /\ Len(o) = 1 /\ o[1] = it[n]
    <3>1. PICK y \in Ts : y = it[n]
      BY <1>3
    <3>2. <<y>> \in Seq(Ts) /\ Len(<<y>>) = 1 /\ <<y>>[1] = y
      OBVIOUS
    <3> QED BY <3>1, <3>2
  <2>2. /\ c \in Seq(Ts) /\ Len(c) = Len(o) + Len(d)
        /\ \A i \in 1..(Len(o) + Len(d)) :
             c[i] = IF i <= Len(o) THEN o[i] ELSE d[i - Len(o)]
    BY <1>5, <1>8, <2>1, ConcatProperties
  <2>3. Len(o) + Len(d) = l - n + 1
    BY <1>1, <1>5, <2>1
  <2>4. ASSUME NEW i \in 1..(l - n + 1) PROVE c[i] = it[n + i - 1]
    <3>1. CASE i = 1
      <4>1. n + i - 1 = n /\ i <= 1
        BY <1>1, <3>1
      <4> QED BY <2>1, <2>2, <2>3, <3>1, <4>1
    <3>2. CASE i # 1
      <4>1. ~(i <= 1) /\ i - 1 \in 1..(l - n) /\ n + (i - 1) = n + i - 1
        BY <1>1, <3>2
      <4>2. c[i] = d[i - 1]
        BY <2>1, <2>2, <2>3, <4>1
      <4> QED BY <1>5, <4>1, <4>2
    <3> QED BY <3>1, <3>2
  <2> QED BY <2>2, <2>3, <2>4
<1>10. c = e
  BY <1>7, <1>9, SeqEqual
<1> QED BY <1>1, <1>3, <1>4, <1>6, <1>8, <1>10

(* handle_item: the events of a container find their place.                *)
LEMMA RecvDataFlow ==
    ASSUME IInv, Flow, NEW item \in Items, RecvData(item)
    PROVE  Flow'
<1> USE RangeAssumption
<1> SUFFICES ASSUME err' = "none" PROVE Flow'
  BY DEF Flow
<1>1. /\ phase = "input" /\ slot2 = <<>> /\ item # <<>> /\ item[1] >= tsmax
      /\ tsmax' = item[Len(item)] /\ seen' = seen \o item
      /\ one_before' = one_before
  BY DEF RecvData, PollInput
<1>2. PICK hi \in PartitionPoint(item, End) :
        \E lo \in PartitionPoint(KeepFirst(item, hi), Beg) :
           IF one_before /\ ~one_before_done
           THEN SearchOneBefore(KeepFirst(item, hi), lo)
           ELSE PassInRange(KeepFirst(item, hi), lo)
  BY DEF RecvData
<1>3. PICK it : it = KeepFirst(item, hi)
  OBVIOUS
<1>4. PICK lo \in PartitionPoint(it, Beg) :
        IF one_before /\ ~one_before_done
        THEN SearchOneBefore(it, lo) ELSE PassInRange(it, lo)
  BY <1>2, <1>3
<1>5. /\ it \in Seq(Ts) /\ Len(it) \in Nat
      /\ \A i \in 1..Len(it) : tsmax <= it[i] /\ it[i] <= item[Len(item)]
      /\ item \in Seq(Ts) /\ item[Len(item)] \in Nat
      /\ tsmax <= item[Len(item)]
  BY <1>1, <1>3, Pruned DEF IInv
<1>6. PICK low \in Seq(Ts), mid \in Seq(Ts) :
        /\ low = KeepFirst(it, lo) /\ mid = DropFirst(it, lo) /\ it = low \o mid
        /\ Keep(item, BeforeRange) = low /\ Keep(item, InRange) = mid
  <2>1. item \in Seq(Ts) /\ lo \in PartitionPoint(KeepFirst(item, hi), Beg)
    BY <1>3, <1>5
  <2>2. \E low \in Seq(Ts), mid \in Seq(Ts) :
             /\ low = KeepFirst(KeepFirst(item, hi), lo)
             /\ mid = DropFirst(KeepFirst(item, hi), lo)
             /\ KeepFirst(item, hi) = low \o mid
             /\ Keep(item, BeforeRange) = low /\ Keep(item, InRange) = mid
    BY <2>1, CutKeeps
  <2> QED BY <1>3, <2>2, Zenon
<1>60. /\ low = <<>> <=> lo = 0
       /\ mid = <<>> <=> lo = Len(it)
  <2>1. lo \in 0..Len(it)
    BY DEF PartitionPoint
  <2>2. Len(low) = lo
    <3>1. 1 \in 1..(Len(it) + 1) /\ lo \in (1-1)..Len(it)
      BY <1>5, <2>1
    <3>2. Len(SubSeq(it, 1, lo)) = lo - 1 + 1
      BY <1>5, <3>1, CutElems
    <3> QED BY <1>6, <2>1, <3>2 DEF KeepFirst
  <2>3. Len(mid) = Len(it) - lo
    <3>1. lo + 1 \in 1..(Len(it) + 1) /\ Len(it) \in ((lo+1)-1)..Len(it)
      BY <1>5, <2>1
    <3>2. Len(SubSeq(it, lo + 1, Len(it))) = Len(it) - (lo + 1) + 1
      BY <1>5, <3>1, CutElems
    <3>3. Len(it) - (lo + 1) + 1 = Len(it) - lo
      BY <1>5, <2>1
    <3> QED BY <1>6, <3>2, <3>3 DEF DropFirst
  <2>4. PICK l \in Nat, n \in Nat : l = Len(it) /\ n = lo /\ n <= l
    BY <1>5, <2>1
  <2>5. l - n = 0 <=> n = l
    BY <2>4
  <2> QED BY <1>6, <2>2, <2>3, <2>4, <2>5, EmptySeq
<1>7. /\ lo \in 0..Len(it) /\ (\A i \in 1..lo : it[i] < Beg)
      /\ (\A i \in (lo+1)..Len(it) : it[i] >= Beg)
      /\ tsmax \in Nat /\ seen \in Seq(Ts) /\ out \in Seq(Ts)
      /\ \A i \in 1..Len(it) : it[i] \in Nat
  BY <1>5, SeqFacts DEF PartitionPoint, IInv, TypeOK
<1>8. PICK b \in Seq(Ts), r \in Seq(Ts) :
        b = Keep(seen, BeforeRange) /\ r = Keep(seen, InRange)
  BY <1>7, KeepType
<1>9. Keep(seen', BeforeRange) = b \o low /\ Keep(seen', InRange) = r \o mid
  <2>1. Keep(seen \o item, BeforeRange) = Keep(seen, BeforeRange) \o Keep(item, BeforeRange)
    BY <1>5, <1>7, KeepConcat
  <2>2. Keep(seen \o item, InRange) = Keep(seen, InRange) \o Keep(item, InRange)
    BY <1>5, <1>7, KeepConcat
  <2> QED BY <1>1, <1>6, <1>8, <2>1, <2>2
<1>10. /\ one_before => Expected = LastOf(b) \o r /\ Expected' = LastOf(b \o low) \o (r \o mid)
       /\ ~one_before => Expected = <<>> \o r /\ Expected' = <<>> \o (r \o mid)
  <2>1. /\ one_before => Expected = LastOf(b) \o r
        /\ ~one_before => Expected = <<>> \o r
    BY <1>8, ExpectedParts
  <2>2. /\ one_before' => Expected' = LastOf(b \o low) \o (r \o mid)
        /\ ~one_before' => Expected' = <<>> \o (r \o mid)
    BY <1>9, ExpectedPartsPrime
  <2> QED BY <1>1, <2>1, <2>2
<1>11. CASE one_before /\ ~one_before_done
  <2>1. SearchOneBefore(it, lo)
    BY <1>4, <1>11
  <2>2. err = "none"
    BY <2>1 DEF SearchOneBefore, Fail
  <2>3. out = <<>> /\ r = <<>> /\ slot1 = LastOf(b)
    BY <1>1, <1>8, <1>11, <2>2 DEF Flow, Searching
  <2>4. LastOf(b) \in Seq(Ts) /\ LastOf(low) \in Seq(Ts)
    BY LastOfConcat
  <2>5. Expected' = LastOf(b \o low) \o mid
    <3>1. <<>> \o mid = mid
      OBVIOUS
    <3> QED BY <1>10, <1>11, <2>3, <3>1
  <2>6. \A s \in Seq(Ts) : out \o s = s /\ s \o <<>> = s
    BY <2>3
  <2>7. ASSUME lo < Len(it) PROVE Beg <= tsmax'
    <3>1. lo + 1 \in (lo+1)..Len(it) /\ lo + 1 \in 1..Len(it)
      BY <1>5, <1>7, <2>7
    <3>2. it[lo + 1] >= Beg /\ it[lo + 1] <= item[Len(item)] /\ it[lo + 1] \in Nat
      BY <1>5, <1>7, <3>1
    <3> QED BY <1>1, <1>5, <3>2
  <2>8. CASE lo < Len(it) /\ lo > 0
    <3>1. /\ one_before_done' = TRUE /\ slot1' = <<>> /\ slot2' = <<>> /\ phase' = phase
          /\ out' = out \o DropFirst(it, lo - 1)
      BY <1>1, <2>1, <2>8 DEF SearchOneBefore, Emit
    <3>2. DropFirst(it, lo - 1) = LastOf(low) \o mid
      <4>1. lo \in 1..Len(it)
        BY <1>7, <2>8
      <4> QED BY <1>5, <1>6, <4>1, DropBefore
    <3>3. LastOf(b \o low) = LastOf(low)
      BY <1>60, <2>8, LastOfConcat
    <3>4. out' = LastOf(low) \o mid /\ out' \o <<>> = out'
      <4>1. LastOf(low) \o mid \in Seq(Ts)
        BY <2>4, ConcatProperties
      <4> QED BY <2>6, <3>1, <3>2, <4>1
    <3>5. out' \o slot2' = Expected'
      BY <2>5, <3>1, <3>3, <3>4
    <3> QED BY <1>1, <2>7, <2>8, <3>1, <3>5 DEF Flow, Searching
  <2>9. CASE lo < Len(it) /\ lo = 0
    <3>1. low = <<>> /\ it = mid
      <4>1. <<>> \o mid = mid
        OBVIOUS
      <4> QED BY <1>6, <1>60, <2>9, <4>1
    <3>2. Expected' = LastOf(b) \o it
      BY <2>5, <3>1, LastOfConcat
    <3>3. /\ one_before_done' = TRUE /\ slot1' = <<>> /\ phase' = phase
          /\ \/ out' = out \o slot1 /\ slot2' = it
             \/ slot1 = <<>> /\ out' = out \o it /\ slot2' = <<>>
      BY <1>1, <2>1, <2>9 DEF SearchOneBefore, Emit
    <3>4. out' \o slot2' = LastOf(b) \o it
      <4>1. CASE out' = out \o slot1 /\ slot2' = it
        BY <2>3, <2>4, <2>6, <4>1
      <4>2. CASE slot1 = <<>> /\ out' = out \o it /\ slot2' = <<>>
        <5>1. out' = it /\ out' \o slot2' = it
          BY <1>5, <2>6, <4>2
        <5>2. LastOf(b) \o it = it
          BY <1>5, <2>3, <4>2
        <5> QED BY <5>1, <5>2
      <4> QED BY <3>3, <4>1, <4>2
    <3> QED BY <1>1, <2>7, <2>9, <3>2, <3>3, <3>4 DEF Flow, Searching
  <2>10. CASE ~(lo < Len(it))
    <3>1. lo = Len(it) /\ it # <<>>
      <4>1. lo = Len(it)
        BY <1>5, <1>7, <2>10
      <4>2. it # <<>>
        BY <2>1, <2>10 DEF SearchOneBefore, Fail
      <4> QED BY <4>1, <4>2
    <3>2. /\ one_before_done' = one_before_done /\ slot2' = slot2 /\ out' = out
          /\ slot1' = <<it[Len(it)]>> /\ phase' = phase
      BY <2>1, <2>10, <3>1 DEF SearchOneBefore
    <3>3. mid = <<>> /\ low = it
      <4>1. low \o <<>> = low
        OBVIOUS
      <4> QED BY <1>6, <1>60, <3>1, <4>1
    <3>4. Keep(seen', InRange) = <<>>
      BY <1>9, <2>3, <3>3
    <3>5. slot1' = LastOf(Keep(seen', BeforeRange))
      <4>1. LastOf(b \o low) = LastOf(low)
        BY <3>1, <3>3, LastOfConcat
      <4>2. LastOf(it) = <<it[Len(it)]>>
        BY <3>1 DEF LastOf
      <4> QED BY <1>9, <3>2, <3>3, <4>1, <4>2
    <3>6. Searching' /\ ~one_before_done'
      BY <1>1, <1>11, <3>2 DEF Searching
    <3> QED BY <1>1, <2>3, <3>2, <3>4, <3>5, <3>6 DEF Flow, InRange, BeforeRange, Searching
  <2> QED BY <1>5, <1>7, <2>8, <2>9, <2>10
<1>12. CASE ~(one_before /\ ~one_before_done)
  <2>1. /\ out' = out \o mid
        /\ UNCHANGED <<one_before_done, slot1, slot2, err, phase>>
    BY <1>4, <1>6, <1>12 DEF PassInRange, Emit, slots
  <2>2. ~Searching /\ ~Searching' /\ err = "none"
    BY <1>1, <1>12, <2>1 DEF Searching
  <2>3. slot1 = <<>> /\ out = Expected
    <3>1. slot1 = <<>> /\ out \o slot2 = Expected
      BY <2>2 DEF Flow
    <3>2. out \o <<>> = out
      BY <1>7
    <3> QED BY <1>1, <3>1, <3>2
  <2>4. one_before => low = <<>>
    <3>1. SUFFICES ASSUME one_before, low # <<>> PROVE FALSE
      OBVIOUS
    <3>2. Beg <= tsmax
      BY <1>12, <2>2, <3>1 DEF Flow
    <3>3. 1 \in 1..lo /\ 1 \in 1..Len(it)
      BY <1>5, <1>7, <1>60, <3>1
    <3>4. it[1] < Beg /\ tsmax <= it[1] /\ it[1] \in Nat
      BY <1>5, <1>7, <3>3
    <3> QED BY <1>7, <3>2, <3>4
  <2>5. out' = Expected'
    <3>1. CASE one_before
      <4>1. LastOf(b \o low) = LastOf(b) /\ LastOf(b) \in Seq(Ts)
        BY <2>4, <3>1, LastOfConcat
      <4>2. (LastOf(b) \o r) \o mid = LastOf(b) \o (r \o mid)
        <5>1. PICK z \in Seq(Ts) : z = LastOf(b)
          BY <4>1
        <5>2. (z \o r) \o mid = z \o (r \o mid)
          BY ConcatThree
        <5> QED BY <5>1, <5>2
      <4> QED BY <1>10, <2>1, <2>3, <3>1, <4>1, <4>2
    <3>2. CASE ~one_before
      <4>1. (<<>> \o r) \o mid = <<>> \o (r \o mid)
        <5>1. <<>> \in Seq(Ts)
          OBVIOUS
        <5> QED BY <5>1, ConcatThree
      <4> QED BY <1>10, <2>1, <2>3, <3>2, <4>1
    <3> QED BY <3>1, <3>2
  <2>6. out' \o slot2' = Expected'
    <3>1. out \o mid \in Seq(Ts)
      BY <1>7, ConcatProperties
    <3>2. out' \o <<>> = out'
      BY <2>1, <3>1
    <3> QED BY <1>1, <2>1, <2>5, <3>2
  <2>7. one_before /\ one_before_done => Beg <= tsmax'
    <3>1. ASSUME one_before, one_before_done PROVE Beg <= tsmax'
      <4>1. Beg <= tsmax
        BY <2>2, <3>1 DEF Flow
      <4> QED BY <1>1, <1>5, <1>7, <4>1
    <3> QED BY <3>1
  <2> QED BY <1>1, <2>1, <2>2, <2>3, <2>6, <2>7 DEF Flow
<1> QED BY <1>11, <1>12

LEMMA ExpectedSame ==
    ASSUME UNCHANGED <<one_before, seen>>
    PROVE  /\ Expected' = Expected
           /\ Keep(seen', InRange) = Keep(seen, InRange)
           /\ Keep(seen', BeforeRange) = Keep(seen, BeforeRange)
BY DEF Expected, InRange, BeforeRange

(* A step that moves no event.                                             *)
LEMMA QuietFlow ==
    ASSUME Flow,
           UNCHANGED <<one_before, one_before_done, slot1, slot2, tsmax, seen,
                       out, err>>,
           \/ phase' = phase
           \/ phase # "input" /\ phase' # "input"
    PROVE  Flow'
<1> SUFFICES ASSUME err' = "none" PROVE Flow'
  BY DEF Flow
<1>1. err = "none" /\ Searching' = Searching
  BY DEF Searching
<1>2. /\ Expected' = Expected
      /\ Keep(seen', InRange) = Keep(seen, InRange)
      /\ Keep(seen', BeforeRange) = Keep(seen, BeforeRange)
  BY ExpectedSame
<1>3. Searching' =>
        /\ out' = <<>> /\ slot2' = <<>> /\ Keep(seen', InRange) = <<>>
        /\ slot1' = LastOf(Keep(seen', BeforeRange))
  BY <1>1, <1>2 DEF Flow
<1>4. ~Searching' => slot1' = <<>> /\ out' \o slot2' = Expected'
  BY <1>1, <1>2 DEF Flow
<1>5. /\ one_before' /\ one_before_done' => Beg <= tsmax'
      /\ phase' # "input" => slot2' = <<>>
  BY <1>1 DEF Flow
<1> QED BY <1>3, <1>4, <1>5 DEF Flow, InRange, BeforeRange

LEMMA NextFlow ==
    ASSUME IInv, Flow, [Next]_vars
    PROVE  Flow'
<1>1. CASE EmitSlot2
  <2> SUFFICES ASSUME err' = "none" PROVE Flow'
    BY DEF Flow
  <2>1. /\ slot2 # <<>> /\ phase = "input" /\ out' = out \o slot2 /\ slot2' = <<>>
        /\ UNCHANGED <<one_before, one_before_done, slot1, tsmax, phase, seen, err>>
        /\ out \in Seq(Ts) /\ slot2 \in Seq(Ts)
    BY <1>1 DEF EmitSlot2, Emit, IInv, TypeOK
  <2>2. ~Searching /\ ~Searching' /\ err = "none"
    BY <2>1 DEF Flow, Searching
  <2>3. slot1 = <<>> /\ out \o slot2 = Expected
    BY <2>2 DEF Flow
  <2>4. PICK o \in Seq(Ts) : o = out \o slot2
    BY <2>1, ConcatProperties
  <2>5. o \o <<>> = o
    OBVIOUS
  <2>6. Expected' = Expected
    BY <2>1, ExpectedSame
  <2>7. out' \o slot2' = Expected'
    BY <2>1, <2>3, <2>4, <2>5, <2>6
  <2>8. one_before' /\ one_before_done' => Beg <= tsmax'
    BY <2>1, <2>2 DEF Flow
  <2> QED BY <2>1, <2>2, <2>3, <2>7, <2>8 DEF Flow
<1>2. CASE RecvEmpty \/ PassThrough \/ RecvRangeComplete
  <2>1. UNCHANGED <<one_before, one_before_done, slot1, slot2, tsmax, phase,
                    seen, out, err>>
    BY <1>2 DEF RecvEmpty, PassThrough, RecvRangeComplete, slots, ghosts
  <2> QED BY <2>1, QuietFlow
<1>3. ASSUME NEW item \in Items, RecvUnordered(item) PROVE Flow'
  BY <1>3 DEF RecvUnordered, Fail, Flow
<1>4. ASSUME NEW item \in Items, RecvData(item) PROVE Flow'
  BY <1>4, RecvDataFlow
<1>5. CASE RecvEnd
  <2> SUFFICES ASSUME err' = "none" PROVE Flow'
    BY DEF Flow
  <2>1. /\ slot2 = <<>> /\ phase = "input" /\ phase' = "inp_done"
        /\ out' = out \o slot1 /\ slot1' = <<>>
        /\ UNCHANGED <<one_before, one_before_done, slot2, tsmax, seen, err>>
        /\ out \in Seq(Ts) /\ slot1 \in Seq(Ts)
    BY <1>5 DEF RecvEnd, Emit, IInv, TypeOK
  <2>2. ~Searching' /\ err = "none"
    BY <2>1 DEF Searching
  <2>3. PICK o \in Seq(Ts) : o = out \o slot1
    BY <2>1, ConcatProperties
  <2>4. o \o <<>> = o /\ out \o <<>> = out
    BY <2>1
  <2>5. Expected' = Expected
    BY <2>1, ExpectedSame
  <2>6. o = Expected
    <3>1. CASE Searching
      <4>1. /\ out = <<>> /\ Keep(seen, InRange) = <<>> /\ one_before
            /\ slot1 = LastOf(Keep(seen, BeforeRange))
        BY <2>2, <3>1 DEF Flow, Searching
      <4>2. PICK b : b = Keep(seen, BeforeRange)
        OBVIOUS
      <4>3. Expected = LastOf(b) \o <<>>
        BY <4>1, <4>2, ExpectedParts
      <4>4. slot1 \o <<>> = slot1 /\ <<>> \o slot1 = slot1
        BY <2>1
      <4> QED BY <2>3, <4>1, <4>2, <4>3, <4>4
    <3>2. CASE ~Searching
      <4>1. slot1 = <<>> /\ out \o slot2 = Expected
        BY <2>2, <3>2 DEF Flow
      <4> QED BY <2>1, <2>3, <4>1
    <3> QED BY <3>1, <3>2
  <2>7. out' \o slot2' = Expected'
    BY <2>1, <2>3, <2>4, <2>5, <2>6
  <2>8. one_before' /\ one_before_done' => Beg <= tsmax'
    BY <2>1, <2>2 DEF Flow
  <2> QED BY <2>1, <2>2, <2>7, <2>8 DEF Flow
<1>6. CASE EmitRangeComplete \/ Finish
  <2>1. /\ UNCHANGED <<one_before, one_before_done, slot1, slot2, tsmax, seen,
                       out, err>>
        /\ phase # "input" /\ phase' # "input"
    BY <1>6 DEF EmitRangeComplete, Finish, slots, ghosts
  <2> QED BY <2>1, QuietFlow
<1>7. CASE UNCHANGED vars
  BY <1>7, QuietFlow DEF vars, slots, ghosts
<1> QED BY <1>1, <1>2, <1>3, <1>4, <1>5, <1>6, <1>7
        DEF Next, Poll, PollOnComplete

LEMMA InitFlow == Init => Flow /\ RacoInv
<1> SUFFICES ASSUME Init PROVE Flow /\ RacoInv
  OBVIOUS
<1>1. Keep(seen, InRange) = <<>> /\ Keep(seen, BeforeRange) = <<>>
  <2>1. seen = <<>> /\ ToSet(<<>>) = {}
    BY DEF Init, ToSet
  <2>2. \A K : Keep(<<>>, K) = <<>>
    BY <2>1, KeepAllNone, EmptySeq
  <2> QED BY <2>1, <2>2
<1>2. /\ out = <<>> /\ slot1 = <<>> /\ slot2 = <<>> /\ phase = "input"
      /\ one_before_done = FALSE /\ raco_out = FALSE
  BY DEF Init
<1>3. LastOf(<<>>) = <<>>
  BY DEF LastOf
<1>4. one_before \in BOOLEAN
  BY DEF Init
<1>5. ~Searching => Expected = <<>> /\ <<>> \o <<>> = <<>>
  BY <1>1, <1>2, <1>4 DEF Expected, Searching
<1>6. Flow
  BY <1>1, <1>2, <1>3, <1>5 DEF Flow
<1>7. RacoInv
  BY <1>2 DEF RacoInv
<1> QED BY <1>6, <1>7

LEMMA NextRaco ==
    ASSUME IInv, RacoInv, [Next]_vars
    PROVE  RacoInv' /\ (raco_out => out' = out)
<1>1. CASE EmitSlot2
  BY <1>1 DEF EmitSlot2, RacoInv
<1>2. CASE RecvEmpty \/ PassThrough \/ RecvRangeComplete
  BY <1>2 DEF RecvEmpty, PassThrough, RecvRangeComplete, PollInput, slots, ghosts, RacoInv
<1>3. ASSUME NEW item \in Items, RecvUnordered(item) PROVE RacoInv' /\ (raco_out => out' = out)
  BY <1>3 DEF RecvUnordered, PollInput, Fail, RacoInv
<1>4. ASSUME NEW item \in Items, RecvData(item) PROVE RacoInv' /\ (raco_out => out' = out)
  <2>1. phase = "input" /\ raco_out' = raco_out
    BY <1>4 DEF RecvData, PollInput
  <2>2. phase' \in {"input", "inp_done"}
    BY <1>4, <2>1 DEF RecvData, SearchOneBefore, PassInRange, Fail
  <2> QED BY <2>1, <2>2 DEF RacoInv
<1>5. CASE RecvEnd
  BY <1>5 DEF RecvEnd, RacoInv
<1>6. CASE EmitRangeComplete
  BY <1>6 DEF EmitRangeComplete, RacoInv
<1>7. CASE Finish
  BY <1>7 DEF Finish, slots, ghosts, RacoInv
<1>8. CASE UNCHANGED vars
  BY <1>8 DEF vars, slots, ghosts, RacoInv
<1> QED BY <1>1, <1>2, <1>3, <1>4, <1>5, <1>6, <1>7, <1>8
        DEF Next, Poll, PollOnComplete

LEMMA SpecFlow == Spec => [](IInv /\ Flow /\ RacoInv)
<1>1. Init => IInv /\ Flow /\ RacoInv
  BY InitInv, InitFlow
<1>2. (IInv /\ Flow /\ RacoInv) /\ [Next]_vars => (IInv /\ Flow /\ RacoInv)'
  BY NextInv, NextFlow, NextRaco
<1> QED BY <1>1, <1>2, PTL DEF Spec

(* When RangeFilter2 ends without an error of its own, the consumer has    *)
(* exactly the events a filter over the whole input gives (with the last   *)
(* event before the range if asked for) and RangeComplete iff the input    *)
(* said so: no cut, and neither slot1 nor slot2, loses an event.           *)
THEOREM NothingIsLost == Spec => []NoLossAtEnd
<1>1. IInv /\ Flow /\ RacoInv => NoLossAtEnd
  <2> SUFFICES ASSUME IInv, Flow, RacoInv, phase = "complete", err = "none"
               PROVE  out = Expected /\ raco_out = have_range_complete
    BY DEF NoLossAtEnd
  <2>1. ~Searching
    BY DEF Searching
  <2>2. slot2 = <<>> /\ out \o slot2 = Expected
    BY <2>1 DEF Flow
  <2>3. out \o <<>> = out
    BY DEF IInv, TypeOK
  <2>4. raco_out = have_range_complete
    BY DEF RacoInv
  <2> QED BY <2>2, <2>3, <2>4
<1> QED BY <1>1, SpecFlow, PTL

(* No step of RangeFilter2::poll_next hands out an event once              *)
(* RangeComplete went out.                                                 *)
THEOREM RangeCompleteIsLast == Spec => NothingAfterRangeComplete
<1>1. IInv /\ Flow /\ RacoInv /\ [Next]_vars => [raco_out => out' = out]_vars
  BY NextRaco
<1> QED BY <1>1, SpecFlow, PTL DEF Spec, NothingAfterRangeComplete
=============================================================================
