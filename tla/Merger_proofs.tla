---------------------------- MODULE Merger_proofs ----------------------------
(***************************************************************************)
(* Merger: for any number of inputs, any timestamps, types and container   *)
(* lengths the output is in order, has no timestamp twice that no input    *)
(* repeats, loses none, and the errors that the code marks "should never   *)
(* be here" do not occur.                                                  *)
(***************************************************************************)
EXTENDS Merger, ProofLemmas

LEMMA TsNat == \A x \in Ts : x \in Nat /\ 0 < x
  BY MergerAssumption

(* Sorted and StrictlySorted as relations.                                 *)
LE == {p \in Nat \X Nat : p[1] <= p[2]}
LT == {p \in Nat \X Nat : p[1] < p[2]}

LEMMA SortedIsOrdered ==
    ASSUME NEW q \in Seq(Ts)
    PROVE  /\ Sorted(q) <=> Ordered(q, LE)
           /\ StrictlySorted(q) <=> Ordered(q, LT)
  <1>1. \A i \in 1..Len(q) : q[i] \in Nat
    <2>1. \A i \in 1..Len(q) : q[i] \in Ts
      OBVIOUS
    <2> QED
      BY <2>1, TsNat
  <1>2. \A x, y \in Nat : (<<x, y>> \in LE <=> x <= y) /\ (<<x, y>> \in LT <=> x < y)
    BY DEF LE, LT
  <1> QED
    BY <1>1, <1>2 DEF Sorted, StrictlySorted, Ordered

(* Two parts in order, one before the other.                               *)
LEMMA SortedConcat ==
    ASSUME NEW p \in Seq(Ts), NEW q \in Seq(Ts)
    PROVE  /\ Sorted(p \o q) <=>
                /\ Sorted(p) /\ Sorted(q)
                /\ \A x \in ToSet(p), y \in ToSet(q) : x <= y
           /\ StrictlySorted(p \o q) <=>
                /\ StrictlySorted(p) /\ StrictlySorted(q)
                /\ \A x \in ToSet(p), y \in ToSet(q) : x < y
  <1>1. PICK r \in Seq(Ts) : r = p \o q
    BY ConcatProperties
  <1>2. \A x \in ToSet(p), y \in ToSet(q) : x \in Nat /\ y \in Nat
    BY ToSetType, MergerAssumption
  <1>3. \A x, y \in Nat : (<<x, y>> \in LE <=> x <= y) /\ (<<x, y>> \in LT <=> x < y)
    BY DEF LE, LT
  <1>4. /\ Sorted(r) <=> Ordered(r, LE)
        /\ StrictlySorted(r) <=> Ordered(r, LT)
    BY SortedIsOrdered
  <1>5. /\ Sorted(p) <=> Ordered(p, LE)
        /\ StrictlySorted(p) <=> Ordered(p, LT)
    BY SortedIsOrdered
  <1>6. /\ Sorted(q) <=> Ordered(q, LE)
        /\ StrictlySorted(q) <=> Ordered(q, LT)
    BY SortedIsOrdered
  <1>7. Ordered(p \o q, LE) <=>
             /\ Ordered(p, LE) /\ Ordered(q, LE)
             /\ \A x \in ToSet(p), y \in ToSet(q) : <<x, y>> \in LE
    BY OrderedConcat
  <1>8. Ordered(p \o q, LT) <=>
             /\ Ordered(p, LT) /\ Ordered(q, LT)
             /\ \A x \in ToSet(p), y \in ToSet(q) : <<x, y>> \in LT
    BY OrderedConcat
  <1> QED
    BY <1>1, <1>2, <1>3, <1>4, <1>5, <1>6, <1>7, <1>8

(* What stays of a sequence when a drain takes the others.                 *)
LEMMA KeepSorted ==
    ASSUME NEW q \in Seq(Ts), NEW K
    PROVE  /\ Keep(q, K) \in Seq(Ts)
           /\ ToSet(Keep(q, K)) = ToSet(q) \intersect K
           /\ Sorted(q) => Sorted(Keep(q, K))
           /\ StrictlySorted(q) => StrictlySorted(Keep(q, K))
           /\ Len(Keep(q, K)) <= Len(q)
  <1>1. PICK r \in Seq(Ts) : r = Keep(q, K)
    BY KeepType
  <1>2. ToSet(r) = ToSet(q) \intersect K
    BY <1>1, KeepSet
  <1>3. Ordered(q, LE) => Ordered(r, LE)
    BY <1>1, KeepOrdered
  <1>4. Ordered(q, LT) => Ordered(r, LT)
    BY <1>1, KeepOrdered
  <1>5. Len(r) <= Len(q)
    BY <1>1, KeepLen
  <1>6. /\ Sorted(q) <=> Ordered(q, LE)
        /\ StrictlySorted(q) <=> Ordered(q, LT)
    BY SortedIsOrdered
  <1>7. /\ Sorted(r) <=> Ordered(r, LE)
        /\ StrictlySorted(r) <=> Ordered(r, LT)
    BY SortedIsOrdered
  <1> QED
    BY <1>1, <1>2, <1>3, <1>4, <1>5, <1>6, <1>7

(* The ends of a sequence that is in order.                                *)
LEMMA SortedEnds ==
    ASSUME NEW q \in Seq(Ts), q # <<>>
    PROVE  /\ Last(q) \in ToSet(q) /\ q[1] \in ToSet(q) /\ Last(q) \in Nat /\ q[1] \in Nat
           /\ Sorted(q) => \A x \in ToSet(q) : q[1] <= x /\ x <= Last(q)
  <1>1. PICK n \in Nat : n = Len(q) /\ DOMAIN q = 1..n /\ n > 0
    <2>1. Len(q) \in Nat /\ DOMAIN q = 1..Len(q) /\ Len(q) > 0
      BY EmptySeq
    <2> QED
      BY <2>1
  <1>2. ToSet(q) = {q[i] : i \in 1..n}
    BY <1>1 DEF ToSet
  <1>3. Last(q) = q[n]
    BY <1>1 DEF Last
  <1>4. 1 \in 1..n /\ n \in 1..n
    BY <1>1
  <1>5. \A i \in 1..n : q[i] \in Nat
    <2>1. \A i \in 1..n : q[i] \in Ts
      BY <1>1
    <2> QED
      BY <2>1, TsNat
  <1>6. ASSUME Sorted(q), NEW i \in 1..n PROVE q[1] <= q[i] /\ q[i] <= q[n]
    <2>1. \A j, k \in 1..n : j < k => q[j] <= q[k]
      BY <1>1, <1>6 DEF Sorted
    <2>2. (1 = i \/ 1 < i) /\ (i = n \/ i < n)
      OBVIOUS
    <2>3. \A j \in 1..n : q[j] <= q[j]
      BY <1>5
    <2> QED
      BY <1>4, <2>1, <2>2, <2>3
  <1> QED
    BY <1>2, <1>3, <1>4, <1>5, <1>6

LEMMA LastConcat ==
    ASSUME NEW p \in Seq(Ts), NEW q \in Seq(Ts)
    PROVE  /\ q # <<>> => Last(p \o q) = Last(q)
           /\ q = <<>> => p \o q = p
  <1>1. PICK m \in Nat, n \in Nat : m = Len(p) /\ n = Len(q)
    OBVIOUS
  <1>2. ASSUME q # <<>> PROVE Last(p \o q) = Last(q)
    <2>1. n > 0 /\ m + n \in 1..(m + n) /\ ~(m + n <= m) /\ (m + n) - m = n
      BY <1>1, <1>2, EmptySeq
    <2>2. /\ Len(p \o q) = m + n
          /\ \A i \in 1..(m + n) : (p \o q)[i] = IF i <= m THEN p[i] ELSE q[i - m]
      BY <1>1, ConcatProperties
    <2> QED
      BY <1>1, <2>1, <2>2 DEF Last
  <1> QED
    BY <1>2
-----------------------------------------------------------------------------
(* What was made so far: handed out, finished but not yet handed out, and  *)
(* under construction.  held[i] are the timestamps in the slot of input i. *)
Tip == IF outbuf = <<>> THEN <<>> ELSE Last(outbuf).tss
Made == (emitted \o Tip) \o out.tss
Held(its) == [i \in Inps |-> its[i].tss]
AllStrict == \A i \in Inps : StrictlySorted(seen[i])

(* The output is in order and ends at dmax.                                *)
Produced(made, dmax) ==
    /\ \A x \in ToSet(made) : x <= dmax /\ \E i \in Inps : x \in ToSet(seen[i])
    /\ dmax = 0 \/ dmax \in ToSet(made)
    /\ Sorted(made)
    /\ AllStrict => StrictlySorted(made)

(* What waits in a slot is not before the end of the output, everything    *)
(* else that the input delivered is in the output, and an input that has   *)
(* to deliver again cannot go back before the end of the output.           *)
Waiting(dmax, held, i) ==
    /\ Sorted(held[i])
    /\ AllStrict => StrictlySorted(held[i])
    /\ \A x \in ToSet(held[i]) :
         /\ dmax <= x /\ x <= Last(seen[i]) /\ x \in ToSet(seen[i])
         /\ AllStrict => dmax < x
Used(made, held, i) ==
    \A x \in ToSet(seen[i]) : x \in ToSet(made) \/ x \in ToSet(held[i])
Reached(dmax, held, i) ==
    open[i] = TRUE /\ held[i] = <<>> /\ dmax # 0 =>
        seen[i] # <<>> /\ dmax <= Last(seen[i])

Core(made, dmax, held) ==
    /\ Produced(made, dmax)
    /\ \A i \in Inps : Waiting(dmax, held, i) /\ Used(made, held, i)
                       /\ Reached(dmax, held, i)

(* One step of process(): some of what waits at input k goes to the end of *)
(* the output, others are dropped as duplicates.                           *)
LEMMA CoreStep ==
    ASSUME NEW made \in Seq(Ts), NEW d0 \in Nat, NEW h0 \in [Inps -> Seq(Ts)],
           Core(made, d0, h0), seen \in [Inps -> Seq(Ts)],
           NEW k \in Inps, NEW taken \in Seq(Ts), NEW d \in Nat,
           NEW h \in [Inps -> Seq(Ts)],
           ToSet(taken) \subseteq ToSet(h0[k]), Sorted(taken),
           AllStrict => StrictlySorted(taken),
           d0 <= d, d = d0 \/ d \in ToSet(taken), \A x \in ToSet(taken) : x <= d,
           \A i \in Inps :
             /\ Sorted(h[i]) /\ (AllStrict => StrictlySorted(h[i]))
             /\ ToSet(h[i]) \subseteq ToSet(h0[i])
             /\ ToSet(h0[i]) \subseteq ToSet(h[i]) \union ToSet(made) \union ToSet(taken)
             /\ \A x \in ToSet(h[i]) : d <= x /\ (AllStrict => d < x)
             /\ open[i] = TRUE => \E x \in ToSet(h0[i]) : d <= x
    PROVE  Core(made \o taken, d, h)
  <1>1. PICK m \in Seq(Ts) : m = made \o taken
    BY ConcatProperties
  <1>2. ToSet(m) = ToSet(made) \union ToSet(taken)
    BY <1>1, ToSetConcat
  <1>3. /\ \A x \in ToSet(made) : x \in Nat
        /\ \A x \in ToSet(taken) : x \in Nat
        /\ \A i \in Inps : \A x \in ToSet(h0[i]) : x \in Nat
    <2>1. ToSet(made) \subseteq Ts /\ ToSet(taken) \subseteq Ts
      BY ToSetType
    <2>2. ASSUME NEW i \in Inps PROVE ToSet(h0[i]) \subseteq Ts
      BY ToSetType
    <2> QED
      BY <2>1, <2>2, TsNat
  <1>4. \A x \in ToSet(taken) : d0 <= x /\ (AllStrict => d0 < x) /\ x \in ToSet(seen[k])
    BY DEF Core, Waiting
  <1>5. Produced(made, d0)
    BY DEF Core
  <1>6. \A x \in ToSet(made), y \in ToSet(taken) : x <= y /\ (AllStrict => x < y)
    BY <1>3, <1>4, <1>5 DEF Produced
  <1>7. Sorted(m) /\ (AllStrict => StrictlySorted(m))
    <2>1. Sorted(made) /\ (AllStrict => StrictlySorted(made))
      BY <1>5 DEF Produced
    <2> QED
      BY <1>1, <1>6, <2>1, SortedConcat
  <1>8. Produced(m, d)
    <2>1. ASSUME NEW x \in ToSet(m) PROVE x <= d
      BY <1>2, <1>3, <1>5, <2>1 DEF Produced
    <2>2. ASSUME NEW x \in ToSet(m) PROVE \E i \in Inps : x \in ToSet(seen[i])
      BY <1>2, <1>4, <1>5 DEF Produced
    <2>3. d = 0 \/ d \in ToSet(m)
      BY <1>2, <1>5 DEF Produced
    <2> QED
      BY <1>7, <2>1, <2>2, <2>3 DEF Produced
  <1>9. ASSUME NEW i \in Inps
        PROVE  Waiting(d, h, i) /\ Used(m, h, i) /\ Reached(d, h, i)
    <2>1. Waiting(d0, h0, i) /\ Used(made, h0, i)
      BY DEF Core
    <2>2. Waiting(d, h, i)
      BY <2>1 DEF Waiting
    <2>3. Used(m, h, i)
      BY <1>2, <2>1 DEF Used
    <2>4. Reached(d, h, i)
      <3>1. SUFFICES ASSUME open[i] = TRUE PROVE seen[i] # <<>> /\ d <= Last(seen[i])
        BY DEF Reached
      <3>2. PICK x \in ToSet(h0[i]) : d <= x
        BY <3>1
      <3>3. x <= Last(seen[i]) /\ x \in ToSet(seen[i]) /\ x \in Nat
        BY <1>3, <2>1 DEF Waiting
      <3>4. seen[i] \in Seq(Ts) /\ seen[i] # <<>>
        <4>1. ToSet(<<>>) = {}
          BY DEF ToSet
        <4> QED
          BY <3>3, <4>1
      <3>5. Last(seen[i]) \in Nat
        BY <3>4, SortedEnds
      <3> QED
        BY <3>2, <3>3, <3>4, <3>5
    <2> QED
      BY <2>2, <2>3, <2>4
  <1> QED
    BY <1>1, <1>8, <1>9 DEF Core
-----------------------------------------------------------------------------
(* Types of all variables, as the proofs need them.                        *)
TypeInv ==
    /\ open \in [Inps -> BOOLEAN]
    /\ items \in [Inps -> Items \union {NoItem}]
    /\ out = NoItem \/ (out \in [ty : Types, tss : Seq(Ts)] /\ out.tss # <<>>)
    /\ do_clear_out \in BOOLEAN
    /\ range_complete \in [Inps -> BOOLEAN]
    /\ outbuf \in Seq([kind : {"data", "other", "raco"}, tss : Seq(Ts)])
    /\ dim0ix_max \in Nat
    /\ done_inp \in BOOLEAN /\ done_range_complete \in BOOLEAN
    /\ complete \in BOOLEAN /\ raco_out \in BOOLEAN
    /\ seen \in [Inps -> Seq(Ts)]
    /\ emitted \in Seq(Ts)
    /\ err \in {"none", "Input", "InputNotMonotonic"}

LEMMA ItemFacts ==
    /\ \A x \in Items \union {NoItem} :
         /\ x.tss \in Seq(Ts) /\ Len(x.tss) <= MaxItemLen
         /\ x # NoItem => x.ty \in Types
         /\ x.tss # <<>> => x # NoItem
    /\ \A ty \in Types, s \in Seq(Ts) :
         Len(s) <= MaxItemLen => Item(ty, s) \in Items /\ Item(ty, s).tss = s
    /\ NoItem.tss = <<>>
  <1>1. \A s \in TsSeqs : s \in Seq(Ts) /\ Len(s) <= MaxItemLen
    <2> SUFFICES ASSUME NEW n \in 0..MaxItemLen, NEW s \in [1..n -> Ts]
                 PROVE  s \in Seq(Ts) /\ Len(s) <= MaxItemLen
      BY DEF TsSeqs
    <2>1. n \in Nat /\ n <= MaxItemLen
      BY MergerAssumption
    <2>2. s \in Seq(Ts) /\ Len(s) = n
      BY <2>1
    <2> QED
      BY <2>1, <2>2
  <1>2. ASSUME NEW s \in Seq(Ts), Len(s) <= MaxItemLen PROVE s \in TsSeqs
    <2>1. Len(s) \in 0..MaxItemLen /\ s \in [1..Len(s) -> Ts]
      BY <1>2, MergerAssumption
    <2> QED
      BY <2>1 DEF TsSeqs
  <1>3. NoItem.tss = <<>> /\ <<>> \in Seq(Ts) /\ Len(<<>>) = 0 /\ 0 <= MaxItemLen
    BY MergerAssumption DEF NoItem
  <1>4. \A x \in Items : x.tss \in TsSeqs /\ x.ty \in Types
    BY DEF Items
  <1>5. ASSUME NEW x \in Items \union {NoItem}
        PROVE  /\ x.tss \in Seq(Ts) /\ Len(x.tss) <= MaxItemLen
               /\ x # NoItem => x.ty \in Types
               /\ x.tss # <<>> => x # NoItem
    BY <1>1, <1>3, <1>4
  <1>6. ASSUME NEW ty \in Types, NEW s \in Seq(Ts), Len(s) <= MaxItemLen
        PROVE  Item(ty, s) \in Items /\ Item(ty, s).tss = s
    BY <1>2, <1>6 DEF Item, Items
  <1> QED
    BY <1>3, <1>5, <1>6

LEMMA MinOfFacts ==
    ASSUME NEW S \in SUBSET Nat, S # {}
    PROVE  MinOf(S) \in S /\ \A y \in S : MinOf(S) <= y
  <1>1. \E x \in S : \A y \in S : x <= y
    BY LeastNat
  <1> QED
    BY <1>1 DEF MinOf

(* A container that is cut at t.                                           *)
LEMMA CutFacts ==
    ASSUME NEW q \in Seq(Ts), q # <<>>, Sorted(q), NEW t \in Nat, q[1] <= t,
           ~(Last(q) <= t)
    PROVE  /\ Upto(q, t) \in Seq(Ts) /\ Upto(q, t) # <<>> /\ Sorted(Upto(q, t))
           /\ After(q, t) \in Seq(Ts) /\ After(q, t) # <<>> /\ Sorted(After(q, t))
           /\ StrictlySorted(q) =>
                StrictlySorted(Upto(q, t)) /\ StrictlySorted(After(q, t))
           /\ ToSet(q) = ToSet(Upto(q, t)) \union ToSet(After(q, t))
           /\ \A x \in ToSet(Upto(q, t)) : x <= t
           /\ \A x \in ToSet(After(q, t)) : t < x
           /\ Len(After(q, t)) <= Len(q)
  <1> DEFINE A == {x \in Ts : x <= t}
             B == {x \in Ts : x > t}
  <1>1. PICK u \in Seq(Ts) : u = Upto(q, t) /\ u = Keep(q, A)
    BY KeepType DEF Upto
  <1>2. PICK r \in Seq(Ts) : r = After(q, t) /\ r = Keep(q, B)
    BY KeepType DEF After
  <1>3. /\ ToSet(u) = ToSet(q) \intersect A
        /\ Sorted(u) /\ (StrictlySorted(q) => StrictlySorted(u))
    <2> HIDE DEF A
    <2> QED
      BY <1>1, KeepSorted
  <1>4. /\ ToSet(r) = ToSet(q) \intersect B
        /\ Sorted(r) /\ (StrictlySorted(q) => StrictlySorted(r))
        /\ Len(r) <= Len(q)
    <2> HIDE DEF B
    <2> QED
      BY <1>2, KeepSorted
  <1>5. ToSet(q) \subseteq Ts
    BY ToSetType
  <1>6. /\ Last(q) \in ToSet(q) /\ q[1] \in ToSet(q) /\ Last(q) \in Nat /\ q[1] \in Nat
    BY SortedEnds
  <1>7. q[1] \in ToSet(u) /\ Last(q) \in ToSet(r)
    BY <1>3, <1>4, <1>5, <1>6
  <1>8. u # <<>> /\ r # <<>>
    <2>1. ToSet(<<>>) = {}
      BY DEF ToSet
    <2> QED
      BY <1>7, <2>1
  <1>9. ToSet(q) = ToSet(u) \union ToSet(r)
    BY <1>3, <1>4, <1>5, TsNat
  <1> QED
    BY <1>1, <1>2, <1>3, <1>4, <1>8, <1>9

(* What is left after a discard up to t.                                   *)
LEMMA AfterFacts ==
    ASSUME NEW q \in Seq(Ts), NEW t \in Nat
    PROVE  /\ After(q, t) \in Seq(Ts) /\ Len(After(q, t)) <= Len(q)
           /\ Sorted(q) => Sorted(After(q, t))
           /\ StrictlySorted(q) => StrictlySorted(After(q, t))
           /\ ToSet(After(q, t)) = {x \in ToSet(q) : t < x}
  <1> DEFINE B == {x \in Ts : x > t}
  <1>1. PICK r \in Seq(Ts) : r = After(q, t) /\ r = Keep(q, B)
    BY KeepType DEF After
  <1>2. /\ ToSet(r) = ToSet(q) \intersect B
        /\ Sorted(q) => Sorted(r)
        /\ StrictlySorted(q) => StrictlySorted(r)
        /\ Len(r) <= Len(q)
    <2> HIDE DEF B
    <2> QED
      BY <1>1, KeepSorted
  <1>3. ToSet(q) \subseteq Ts
    BY ToSetType
  <1>4. ToSet(r) = {x \in ToSet(q) : t < x}
    BY <1>2, <1>3, TsNat
  <1> QED
    BY <1>1, <1>2, <1>4
LEMMA DiscardFacts ==
    ASSUME NEW its \in [Inps -> Items \union {NoItem}], NEW d \in Nat
    PROVE  /\ DiscardUpto(its, d) \in [Inps -> Items \union {NoItem}]
           /\ \A i \in Inps :
                /\ Sorted(its[i].tss) => Sorted(DiscardUpto(its, d)[i].tss)
                /\ StrictlySorted(its[i].tss) =>
                     StrictlySorted(DiscardUpto(its, d)[i].tss)
                /\ ToSet(DiscardUpto(its, d)[i].tss) = {x \in ToSet(its[i].tss) : d < x}
  <1>1. PICK f : f = DiscardUpto(its, d)
    OBVIOUS
  <1>2. f = [i \in Inps |-> IF its[i] = NoItem THEN NoItem
                            ELSE Item(its[i].ty, After(its[i].tss, d))]
    BY <1>1 DEF DiscardUpto
  <1>3. ASSUME NEW i \in Inps
        PROVE  /\ f[i] \in Items \union {NoItem}
               /\ Sorted(its[i].tss) => Sorted(f[i].tss)
               /\ StrictlySorted(its[i].tss) => StrictlySorted(f[i].tss)
               /\ ToSet(f[i].tss) = {x \in ToSet(its[i].tss) : d < x}
    <2>1. CASE its[i] = NoItem
      <3>1. f[i] = NoItem /\ its[i].tss = <<>> /\ f[i].tss = <<>>
        BY <1>2, <2>1, ItemFacts
      <3>2. ToSet(<<>>) = {}
        BY DEF ToSet
      <3> QED
        BY <3>1, <3>2
    <2>2. CASE its[i] # NoItem
      <3>1. PICK q \in Seq(Ts), ty \in Types :
              q = its[i].tss /\ ty = its[i].ty /\ Len(q) <= MaxItemLen
        BY <2>2, ItemFacts
      <3>2. PICK r \in Seq(Ts) : r = After(q, d)
        BY AfterFacts
      <3>3. /\ Len(r) <= Len(q)
            /\ Sorted(q) => Sorted(r)
            /\ StrictlySorted(q) => StrictlySorted(r)
            /\ ToSet(r) = {x \in ToSet(q) : d < x}
        BY <3>2, AfterFacts
      <3>4. Len(r) <= MaxItemLen
        <4>1. Len(r) \in Nat /\ Len(q) \in Nat /\ MaxItemLen \in Nat
          BY MergerAssumption
        <4>2. \A a, b, c \in Nat : a <= b /\ b <= c => a <= c
          OBVIOUS
        <4> QED
          BY <3>1, <3>3, <4>1, <4>2
      <3>5. f[i] = Item(ty, r)
        BY <1>2, <2>2, <3>1, <3>2
      <3>6. f[i] \in Items /\ f[i].tss = r
        BY <3>4, <3>5, ItemFacts
      <3> QED
        BY <3>1, <3>3, <3>6
    <2> QED
      BY <2>1, <2>2
  <1>4. f \in [Inps -> Items \union {NoItem}]
    <2>1. DOMAIN f = Inps /\ f = [i \in DOMAIN f |-> f[i]]
      BY <1>2
    <2> QED
      BY <1>3, <2>1
  <1> QED
    BY <1>1, <1>3, <1>4

(* What the proof needs of an outcome of process().                        *)
OutcomeOK(p) ==
    /\ p.items \in [Inps -> Items \union {NoItem}]
    /\ p.out = NoItem \/ (p.out \in [ty : Types, tss : Seq(Ts)] /\ p.out.tss # <<>>)
    /\ p.dmax \in Nat
    /\ p.clear \in BOOLEAN
    /\ p.err = "none"
    /\ Core(emitted \o p.out.tss, p.dmax, Held(p.items))

(* The inputs that have events, and the earliest of the others.            *)
LEMMA FilledFacts ==
    ASSUME TypeInv, Core(emitted \o out.tss, dim0ix_max, Held(items)), Empties = {},
           NEW j \in Filled
    PROVE  /\ j \in Inps /\ items[j] \in Items /\ items[j].ty \in Types
           /\ items[j].tss \in Seq(Ts) /\ items[j].tss # <<>>
           /\ Sorted(items[j].tss) /\ (AllStrict => StrictlySorted(items[j].tss))
           /\ TsMin(j) = items[j].tss[1] /\ TsMin(j) \in Nat
           /\ TsMin(j) \in ToSet(items[j].tss)
           /\ \A x \in ToSet(items[j].tss) :
                /\ TsMin(j) <= x /\ dim0ix_max <= x /\ x \in Nat
                /\ AllStrict => dim0ix_max < x
  <1>1. j \in Inps /\ items[j] \in Items /\ items[j] # NoItem /\ items[j].tss # <<>>
    BY DEF Filled, Empties, TypeInv
  <1>2. items[j].ty \in Types /\ items[j].tss \in Seq(Ts)
    BY <1>1, ItemFacts
  <1>3. Waiting(dim0ix_max, Held(items), j) /\ Held(items)[j] = items[j].tss
    BY <1>1 DEF Core, Held
  <1>4. /\ Sorted(items[j].tss) /\ (AllStrict => StrictlySorted(items[j].tss))
        /\ \A x \in ToSet(items[j].tss) :
             dim0ix_max <= x /\ (AllStrict => dim0ix_max < x)
    BY <1>3 DEF Waiting
  <1>5. PICK q \in Seq(Ts) : q = items[j].tss
    BY <1>2
  <1>6. /\ q[1] \in ToSet(q) /\ q[1] \in Nat
        /\ \A x \in ToSet(q) : q[1] <= x /\ x <= Last(q)
    BY <1>1, <1>4, <1>5, SortedEnds
  <1>7. \A x \in ToSet(q) : x \in Nat
    BY ToSetType, TsNat
  <1>8. TsMin(j) = q[1]
    BY <1>5 DEF TsMin
  <1> QED
    BY <1>1, <1>2, <1>4, <1>5, <1>6, <1>7, <1>8

LEMMA SecondFacts ==
    ASSUME TypeInv, Core(emitted \o out.tss, dim0ix_max, Held(items)), Empties = {},
           NEW k \in Filled, \A j \in Filled : TsMin(k) <= TsMin(j),
           Filled \ {k} # {}
    PROVE  /\ SecondTs(k) \in Nat /\ TsMin(k) <= SecondTs(k)
           /\ \A j \in Filled \ {k} : \A y \in ToSet(items[j].tss) : SecondTs(k) <= y
  <1> DEFINE S == {TsMin(i) : i \in Filled \ {k}}
  <1>1. \A j \in Filled : TsMin(j) \in Nat
    BY FilledFacts
  <1>2. S \in SUBSET Nat /\ S # {}
    BY <1>1
  <1>3. SecondTs(k) = MinOf(S)
    BY DEF SecondTs
  <1>4. MinOf(S) \in S /\ \A y \in S : MinOf(S) <= y
    <2> HIDE DEF S
    <2> QED
      BY <1>2, MinOfFacts
  <1>5. PICK t \in Nat : t = SecondTs(k) /\ t \in S /\ \A j \in Filled \ {k} : t <= TsMin(j)
    BY <1>2, <1>3, <1>4
  <1>6. ASSUME NEW j \in Filled \ {k}, NEW y \in ToSet(items[j].tss) PROVE t <= y
    <2>1. TsMin(j) \in Nat /\ TsMin(j) <= y /\ y \in Nat
      BY FilledFacts
    <2> QED
      BY <1>5, <2>1
  <1> QED
    BY <1>5, <1>6
(* The part of the earliest container that is taken, and what stays: it is *)
(* cut where the next input begins, or taken whole.                        *)
Whole(k) == Filled \ {k} = {} \/ EndsUpto(items[k], SecondTs(k))
TakenOf(k) == IF Whole(k) THEN items[k].tss ELSE Upto(items[k].tss, SecondTs(k))
RestOf(k) == IF Whole(k) THEN <<>> ELSE After(items[k].tss, SecondTs(k))

LEMMA TakenFacts ==
    ASSUME TypeInv, Core(emitted \o out.tss, dim0ix_max, Held(items)), Empties = {},
           NEW k \in Filled, \A j \in Filled : TsMin(k) <= TsMin(j)
    PROVE  /\ TakenOf(k) \in Seq(Ts) /\ TakenOf(k) # <<>> /\ Sorted(TakenOf(k))
           /\ RestOf(k) \in Seq(Ts) /\ Sorted(RestOf(k)) /\ Len(RestOf(k)) <= MaxItemLen
           /\ AllStrict => StrictlySorted(TakenOf(k)) /\ StrictlySorted(RestOf(k))
           /\ ToSet(items[k].tss) = ToSet(TakenOf(k)) \union ToSet(RestOf(k))
           /\ ~Whole(k) => RestOf(k) # <<>>
           /\ Last(TakenOf(k)) \in Nat /\ Last(TakenOf(k)) \in ToSet(TakenOf(k))
           /\ \A x \in ToSet(TakenOf(k)) : x <= Last(TakenOf(k))
           /\ \A x \in ToSet(RestOf(k)) : Last(TakenOf(k)) < x
           /\ \A j \in Filled \ {k} : \A y \in ToSet(items[j].tss) :
                Last(TakenOf(k)) <= y
  <1>1. PICK q \in Seq(Ts) :
          /\ q = items[k].tss /\ q # <<>> /\ Sorted(q)
          /\ AllStrict => StrictlySorted(q)
          /\ q[1] = TsMin(k) /\ Len(q) <= MaxItemLen
    <2>1. /\ items[k] \in Items /\ items[k].tss \in Seq(Ts) /\ items[k].tss # <<>>
          /\ Sorted(items[k].tss) /\ (AllStrict => StrictlySorted(items[k].tss))
          /\ TsMin(k) = items[k].tss[1]
      BY FilledFacts
    <2>2. Len(items[k].tss) <= MaxItemLen
      BY <2>1, ItemFacts
    <2> QED
      BY <2>1, <2>2
  <1>2. /\ Last(q) \in ToSet(q) /\ Last(q) \in Nat /\ q[1] \in Nat
        /\ \A x \in ToSet(q) : x <= Last(q)
    BY <1>1, SortedEnds
  <1>3. CASE Whole(k)
    <2>1. TakenOf(k) = q /\ RestOf(k) = <<>>
      BY <1>1, <1>3 DEF TakenOf, RestOf
    <2>2. /\ ToSet(<<>>) = {} /\ Sorted(<<>>) /\ StrictlySorted(<<>>)
          /\ Len(<<>>) <= MaxItemLen /\ <<>> \in Seq(Ts)
      BY MergerAssumption DEF ToSet, Sorted, StrictlySorted
    <2>3. ASSUME NEW j \in Filled \ {k}, NEW y \in ToSet(items[j].tss)
          PROVE  Last(q) <= y
      <3>1. Last(q) <= SecondTs(k)
        BY <1>1, <1>3 DEF Whole, EndsUpto
      <3>2. SecondTs(k) \in Nat /\ SecondTs(k) <= y
        BY SecondFacts
      <3>3. y \in Nat
        BY FilledFacts
      <3> QED
        BY <1>2, <3>1, <3>2, <3>3
    <2> QED
      BY <1>1, <1>2, <1>3, <2>1, <2>2, <2>3
  <1>4. CASE ~Whole(k)
    <2>1. PICK t \in Nat :
            /\ t = SecondTs(k) /\ q[1] <= t
            /\ \A j \in Filled \ {k} : \A y \in ToSet(items[j].tss) : t <= y
      BY <1>1, <1>4, SecondFacts DEF Whole
    <2>2. ~(Last(q) <= t)
      BY <1>1, <1>4, <2>1 DEF Whole, EndsUpto
    <2>3. PICK u, r : u = Upto(q, t) /\ r = After(q, t)
      OBVIOUS
    <2>4. /\ u \in Seq(Ts) /\ u # <<>> /\ Sorted(u)
          /\ r \in Seq(Ts) /\ r # <<>> /\ Sorted(r)
          /\ StrictlySorted(q) => StrictlySorted(u) /\ StrictlySorted(r)
          /\ ToSet(q) = ToSet(u) \union ToSet(r)
          /\ \A x \in ToSet(u) : x <= t
          /\ \A x \in ToSet(r) : t < x
          /\ Len(r) <= Len(q)
      BY <1>1, <2>1, <2>2, <2>3, CutFacts
    <2>5. TakenOf(k) = u /\ RestOf(k) = r
      BY <1>1, <1>4, <2>1, <2>3 DEF TakenOf, RestOf
    <2>6. /\ Last(u) \in ToSet(u) /\ Last(u) \in Nat /\ Last(u) <= t
          /\ \A x \in ToSet(u) : x <= Last(u)
      BY <2>4, SortedEnds
    <2>7. /\ \A x \in ToSet(r) : x \in Nat
          /\ \A j \in Filled : \A y \in ToSet(items[j].tss) : y \in Nat
      <3>1. ToSet(r) \subseteq Ts
        BY <2>4, ToSetType
      <3> QED
        BY <3>1, TsNat, FilledFacts
    <2>8. /\ \A x \in ToSet(r) : Last(u) < x
          /\ \A j \in Filled \ {k} : \A y \in ToSet(items[j].tss) : Last(u) <= y
      <3>1. PICK w \in Nat : w = Last(u) /\ w <= t
        BY <2>6
      <3>2. \A x \in Nat : (t < x => w < x) /\ (t <= x => w <= x)
        BY <3>1
      <3> QED
        BY <2>1, <2>4, <2>7, <3>1, <3>2
    <2>9. Len(r) <= MaxItemLen
      <3>1. Len(r) \in Nat /\ Len(q) \in Nat /\ MaxItemLen \in Nat
        BY <2>4, MergerAssumption
      <3>2. \A a, b, c \in Nat : a <= b /\ b <= c => a <= c
        OBVIOUS
      <3> QED
        BY <1>1, <2>4, <3>1, <3>2
    <2> QED
      BY <1>1, <1>2, <2>4, <2>5, <2>6, <2>8, <2>9
  <1> QED
    BY <1>3, <1>4

(* A container of the same type, or the first: it is taken.                *)
LEMMA TakeCompatible ==
    ASSUME TypeInv, Core(emitted \o out.tss, dim0ix_max, Held(items)), Empties = {},
           AllReady, NEW k \in Filled, \A j \in Filled : TsMin(k) <= TsMin(j),
           out = NoItem \/ out.ty = items[k].ty
    PROVE  OutcomeOK(TakeFrom(k))
  <1> DEFINE left == [items EXCEPT ![k] = IF RestOf(k) = <<>> THEN NoItem
                                          ELSE Item(items[k].ty, RestOf(k))]
             newout == Item(items[k].ty, out.tss \o TakenOf(k))
             d == Last(TakenOf(k))
             discard == Filled \ {k} # {} /\ SecondTs(k) <= d
             fin == IF discard THEN DiscardUpto(left, d) ELSE left
  <1>1. PICK u \in Seq(Ts), r \in Seq(Ts), n \in Nat :
          /\ u = TakenOf(k) /\ r = RestOf(k) /\ n = d
          /\ u # <<>> /\ Sorted(u) /\ Sorted(r) /\ Len(r) <= MaxItemLen
          /\ AllStrict => StrictlySorted(u) /\ StrictlySorted(r)
          /\ ToSet(items[k].tss) = ToSet(u) \union ToSet(r)
          /\ ~Whole(k) => r # <<>>
          /\ n = Last(u) /\ n \in ToSet(u)
          /\ \A x \in ToSet(u) : x <= n
          /\ \A x \in ToSet(r) : n < x
          /\ \A j \in Filled \ {k} : \A y \in ToSet(items[j].tss) : n <= y
    BY TakenFacts
  <1>2. /\ k \in Inps /\ items[k] \in Items /\ items[k].ty \in Types
        /\ \A x \in ToSet(items[k].tss) : dim0ix_max <= x /\ x \in Nat
    BY FilledFacts
  <1>3. out.tss \in Seq(Ts) /\ items \in [Inps -> Items \union {NoItem}]
        /\ emitted \in Seq(Ts) /\ dim0ix_max \in Nat /\ do_clear_out \in BOOLEAN
    <2>1. NoItem.tss = <<>> /\ <<>> \in Seq(Ts)
      BY ItemFacts
    <2> QED
      BY <2>1 DEF TypeInv
  <1>4. out.tss \o u \in Seq(Ts) /\ out.tss \o u # <<>> /\ Last(out.tss \o u) = n
    <2>1. PICK o \in Seq(Ts) : o = out.tss
      BY <1>3
    <2>2. o \o u \in Seq(Ts) /\ Len(o \o u) = Len(o) + Len(u) /\ Last(o \o u) = Last(u)
      BY <1>1, ConcatProperties, LastConcat
    <2>3. o \o u # <<>>
      BY <1>1, <2>1, ConcatEmptySeq
    <2> QED
      BY <1>1, <2>1, <2>2, <2>3
  <1>5. /\ newout \in [ty : Types, tss : Seq(Ts)] /\ newout.tss = out.tss \o u
        /\ newout.tss # <<>> /\ Last(newout.tss) = n
    BY <1>1, <1>2, <1>4 DEF Item
  <1>6. TakeFrom(k) = Outcome(fin, newout, d, do_clear_out, "none")
    <2>1. Whole(k) \/ RestOf(k) # <<>>
      BY <1>1
    <2>2. Last(newout.tss) = d
      BY <1>1, <1>5
    <2>3. do_clear_out \/ ~(out = NoItem \/ out.ty = items[k].ty) <=> do_clear_out
      OBVIOUS
    <2> QED
      BY <1>3, <2>1, <2>2 DEF TakeFrom, Whole, TakenOf, RestOf
  <1>7. /\ left \in [Inps -> Items \union {NoItem}] /\ left[k].tss = r
        /\ \A i \in Inps : i # k => left[i] = items[i]
    <2>1. Item(items[k].ty, r) \in Items /\ Item(items[k].ty, r).tss = r
      BY <1>1, <1>2, ItemFacts
    <2> QED
      BY <1>1, <1>2, <1>3, <2>1, ItemFacts
  <1>8. /\ fin \in [Inps -> Items \union {NoItem}]
        /\ \A i \in Inps :
             /\ Sorted(left[i].tss) => Sorted(fin[i].tss)
             /\ StrictlySorted(left[i].tss) => StrictlySorted(fin[i].tss)
             /\ discard => ToSet(fin[i].tss) = {x \in ToSet(left[i].tss) : n < x}
             /\ ~discard => fin[i] = left[i]
    <2>1. n = d
      BY <1>1
    <2> HIDE DEF left, d, discard
    <2> QED
      BY <1>7, <2>1, DiscardFacts
  <1>9. ASSUME NEW i \in Inps
        PROVE  /\ Sorted(left[i].tss) /\ (AllStrict => StrictlySorted(left[i].tss))
               /\ ToSet(left[i].tss) \subseteq ToSet(items[i].tss)
               /\ ToSet(items[i].tss) \subseteq ToSet(left[i].tss) \union ToSet(u)
               /\ \A x \in ToSet(left[i].tss) : x \in Nat /\ n <= x /\ (~discard => n < x)
               /\ open[i] = TRUE => \E x \in ToSet(items[i].tss) : n <= x
    <2>1. CASE i = k
      <3>1. n \in ToSet(items[k].tss) /\ n <= n
        BY <1>1
      <3>2. \A x \in ToSet(r) : x \in ToSet(items[k].tss) /\ x \in Nat /\ n < x
        BY <1>1, <1>2
      <3>3. \A x \in Nat : n < x => n <= x
        OBVIOUS
      <3> HIDE DEF left, discard
      <3> QED
        BY <1>1, <1>7, <2>1, <3>1, <3>2, <3>3
    <2>2. CASE i # k /\ i \in Filled
      <3>1. /\ Sorted(items[i].tss) /\ (AllStrict => StrictlySorted(items[i].tss))
            /\ TsMin(i) \in ToSet(items[i].tss)
            /\ \A x \in ToSet(items[i].tss) : x \in Nat
        BY <2>2, FilledFacts
      <3>2. \A x \in ToSet(items[i].tss) : n <= x
        BY <1>1, <2>2
      <3>3. ASSUME ~discard, NEW x \in ToSet(items[i].tss) PROVE n < x
        <4>1. Filled \ {k} # {}
          BY <2>2
        <4>2. SecondTs(k) \in Nat /\ SecondTs(k) <= x
          BY <2>2, <4>1, SecondFacts
        <4>3. ~(SecondTs(k) <= n)
          BY <1>1, <3>3, <4>1
        <4> QED
          BY <3>1, <4>2, <4>3
      <3>4. left[i] = items[i]
        BY <1>7, <2>2
      <3> HIDE DEF left, discard
      <3> QED
        BY <3>1, <3>2, <3>3, <3>4
    <2>3. CASE i # k /\ i \notin Filled
      <3>1. items[i] = NoItem /\ left[i] = NoItem
        BY <1>7, <2>3 DEF Filled
      <3>2. ~(open[i] = TRUE)
        BY <3>1 DEF AllReady
      <3>3. NoItem.tss = <<>> /\ ToSet(<<>>) = {} /\ Sorted(<<>>) /\ StrictlySorted(<<>>)
        BY ItemFacts DEF ToSet, Sorted, StrictlySorted
      <3> HIDE DEF left, discard
      <3> QED
        BY <3>1, <3>2, <3>3
    <2> QED
      BY <2>1, <2>2, <2>3
  <1>10. Core((emitted \o out.tss) \o u, n, Held(fin))
    <2>1. PICK made \in Seq(Ts), h0 \in [Inps -> Seq(Ts)], h \in [Inps -> Seq(Ts)] :
            /\ made = emitted \o out.tss
            /\ h0 = Held(items) /\ h = Held(fin)
            /\ \A i \in Inps : h0[i] = items[i].tss /\ h[i] = fin[i].tss
      <3>1. emitted \o out.tss \in Seq(Ts)
        BY <1>3, ConcatProperties
      <3>2. ASSUME NEW f \in [Inps -> Items \union {NoItem}]
            PROVE  Held(f) \in [Inps -> Seq(Ts)] /\ \A i \in Inps : Held(f)[i] = f[i].tss
        BY ItemFacts DEF Held
      <3> HIDE DEF fin
      <3>3. Held(items) \in [Inps -> Seq(Ts)] /\ \A i \in Inps : Held(items)[i] = items[i].tss
        BY <1>3, <3>2
      <3>4. Held(fin) \in [Inps -> Seq(Ts)] /\ \A i \in Inps : Held(fin)[i] = fin[i].tss
        BY <1>8, <3>2
      <3> QED
        BY <3>1, <3>3, <3>4
    <2>2. \A i \in Inps :
             /\ Sorted(h[i]) /\ (AllStrict => StrictlySorted(h[i]))
             /\ ToSet(h[i]) \subseteq ToSet(h0[i])
             /\ ToSet(h0[i]) \subseteq ToSet(h[i]) \union ToSet(made) \union ToSet(u)
             /\ \A x \in ToSet(h[i]) : n <= x /\ (AllStrict => n < x)
             /\ open[i] = TRUE => \E x \in ToSet(h0[i]) : n <= x
      <3> SUFFICES ASSUME NEW i \in Inps
                   PROVE  /\ Sorted(h[i]) /\ (AllStrict => StrictlySorted(h[i]))
                          /\ ToSet(h[i]) \subseteq ToSet(h0[i])
                          /\ ToSet(h0[i]) \subseteq ToSet(h[i]) \union ToSet(made) \union ToSet(u)
                          /\ \A x \in ToSet(h[i]) : n <= x /\ (AllStrict => n < x)
                          /\ open[i] = TRUE => \E x \in ToSet(h0[i]) : n <= x
        OBVIOUS
      <3>1. PICK l : l = left[i].tss
        OBVIOUS
      <3>2. /\ Sorted(l) /\ (AllStrict => StrictlySorted(l))
            /\ ToSet(l) \subseteq ToSet(h0[i])
            /\ ToSet(h0[i]) \subseteq ToSet(l) \union ToSet(u)
            /\ \A x \in ToSet(l) : x \in Nat /\ n <= x /\ (~discard => n < x)
            /\ open[i] = TRUE => \E x \in ToSet(h0[i]) : n <= x
        <4> HIDE DEF left, discard
        <4> QED
          BY <1>9, <2>1, <3>1
      <3>3. /\ Sorted(l) => Sorted(h[i])
            /\ StrictlySorted(l) => StrictlySorted(h[i])
            /\ discard => ToSet(h[i]) = {x \in ToSet(l) : n < x}
            /\ ~discard => h[i] = l
        <4> HIDE DEF left, discard, fin
        <4> QED
          BY <1>8, <2>1, <3>1
      <3>4. /\ \A x \in ToSet(h[i]) : x \in ToSet(l) /\ n < x
            /\ \A x \in ToSet(l) : x \in ToSet(h[i]) \/ x = n
        <4> HIDE DEF discard
        <4> QED
          BY <3>2, <3>3
      <3>5. n \in ToSet(u)
        BY <1>1
      <3> HIDE DEF discard
      <3> QED
        BY <3>2, <3>3, <3>4, <3>5
    <2>3. /\ ToSet(u) \subseteq ToSet(h0[k]) /\ dim0ix_max <= n
          /\ Core(made, dim0ix_max, h0) /\ seen \in [Inps -> Seq(Ts)]
      BY <1>1, <1>2, <2>1 DEF TypeInv
    <2>4. Core(made \o u, n, h)
      <3>1. k \in Inps /\ dim0ix_max \in Nat
        BY <1>2, <1>3
      <3> HIDE DEF left, discard, fin, d, newout
      <3> QED
        BY <1>1, <2>2, <2>3, <3>1, CoreStep
    <2> QED
      BY <2>1, <2>4
  <1>11. (emitted \o out.tss) \o u = emitted \o newout.tss
    <2>1. PICK a \in Seq(Ts), b \in Seq(Ts) : a = emitted /\ b = out.tss
      BY <1>3
    <2>2. (a \o b) \o u = a \o (b \o u)
      BY ConcatAssociative
    <2> QED
      BY <1>5, <2>1, <2>2
  <1>12. n = d
    BY <1>1
  <1> HIDE DEF left, discard, fin, d, newout
  <1>13. PICK p : p = TakeFrom(k)
    OBVIOUS
  <1>14. /\ p.items = fin /\ p.out = newout /\ p.dmax = n /\ p.clear = do_clear_out
         /\ p.err = "none"
    BY <1>6, <1>12, <1>13 DEF Outcome
  <1>15. Core(emitted \o p.out.tss, p.dmax, Held(p.items))
    BY <1>10, <1>11, <1>14
  <1>16. OutcomeOK(p)
    BY <1>3, <1>5, <1>8, <1>14, <1>15 DEF OutcomeOK
  <1> QED
    BY <1>13, <1>16
(* A container of another type: the output has to be handed out first.     *)
LEMMA TakeIncompatible ==
    ASSUME TypeInv, Core(emitted \o out.tss, dim0ix_max, Held(items)), Empties = {},
           AllReady, NEW k \in Filled, \A j \in Filled : TsMin(k) <= TsMin(j),
           ~(out = NoItem \/ out.ty = items[k].ty)
    PROVE  OutcomeOK(TakeFrom(k))
  <1> DEFINE discard == Filled \ {k} # {} /\ SecondTs(k) <= dim0ix_max
             fin == IF discard THEN DiscardUpto(items, dim0ix_max) ELSE items
  <1>1. /\ k \in Inps /\ TsMin(k) \in Nat /\ TsMin(k) \in ToSet(items[k].tss)
        /\ dim0ix_max <= TsMin(k)
    BY FilledFacts
  <1>2. /\ items \in [Inps -> Items \union {NoItem}] /\ dim0ix_max \in Nat
        /\ emitted \in Seq(Ts) /\ out.tss \in Seq(Ts) /\ seen \in [Inps -> Seq(Ts)]
        /\ out \in [ty : Types, tss : Seq(Ts)] /\ out.tss # <<>>
    BY DEF TypeInv
  <1>3. TakeFrom(k) = Outcome(fin, out, dim0ix_max, TRUE, "none")
    <2>1. (IF TsMin(k) <= dim0ix_max THEN TsMin(k) ELSE dim0ix_max) = dim0ix_max
      BY <1>1, <1>2
    <2> QED
      BY <2>1 DEF TakeFrom
  <1>4. /\ fin \in [Inps -> Items \union {NoItem}]
        /\ \A i \in Inps :
             /\ Sorted(items[i].tss) => Sorted(fin[i].tss)
             /\ StrictlySorted(items[i].tss) => StrictlySorted(fin[i].tss)
             /\ \/ ToSet(fin[i].tss) = {x \in ToSet(items[i].tss) : dim0ix_max < x}
                \/ fin[i] = items[i]
    <2> HIDE DEF discard
    <2> QED
      BY <1>2, DiscardFacts
  <1>5. Core((emitted \o out.tss) \o <<>>, dim0ix_max, Held(fin))
    <2>1. PICK made \in Seq(Ts), h0 \in [Inps -> Seq(Ts)], h \in [Inps -> Seq(Ts)],
               n \in Nat :
            /\ made = emitted \o out.tss /\ n = dim0ix_max
            /\ h0 = Held(items) /\ h = Held(fin)
            /\ \A i \in Inps : h0[i] = items[i].tss /\ h[i] = fin[i].tss
      <3>1. emitted \o out.tss \in Seq(Ts)
        BY <1>2, ConcatProperties
      <3>2. ASSUME NEW f \in [Inps -> Items \union {NoItem}]
            PROVE  Held(f) \in [Inps -> Seq(Ts)] /\ \A i \in Inps : Held(f)[i] = f[i].tss
        BY ItemFacts DEF Held
      <3> HIDE DEF fin
      <3>3. Held(items) \in [Inps -> Seq(Ts)] /\ \A i \in Inps : Held(items)[i] = items[i].tss
        BY <1>2, <3>2
      <3>4. Held(fin) \in [Inps -> Seq(Ts)] /\ \A i \in Inps : Held(fin)[i] = fin[i].tss
        BY <1>4, <3>2
      <3> QED
        BY <1>2, <3>1, <3>3, <3>4
    <2>2. Core(made, n, h0)
      BY <2>1
    <2>3. ToSet(<<>>) = {} /\ <<>> \in Seq(Ts) /\ Sorted(<<>>) /\ StrictlySorted(<<>>)
      BY DEF ToSet, Sorted, StrictlySorted
    <2>4. \A i \in Inps :
             /\ Sorted(h[i]) /\ (AllStrict => StrictlySorted(h[i]))
             /\ ToSet(h[i]) \subseteq ToSet(h0[i])
             /\ ToSet(h0[i]) \subseteq ToSet(h[i]) \union ToSet(made) \union ToSet(<<>>)
             /\ \A x \in ToSet(h[i]) : n <= x /\ (AllStrict => n < x)
             /\ open[i] = TRUE => \E x \in ToSet(h0[i]) : n <= x
      <3> SUFFICES ASSUME NEW i \in Inps
                   PROVE  /\ Sorted(h[i]) /\ (AllStrict => StrictlySorted(h[i]))
                          /\ ToSet(h[i]) \subseteq ToSet(h0[i])
                          /\ ToSet(h0[i]) \subseteq
                               ToSet(h[i]) \union ToSet(made) \union ToSet(<<>>)
                          /\ \A x \in ToSet(h[i]) : n <= x /\ (AllStrict => n < x)
                          /\ open[i] = TRUE => \E x \in ToSet(h0[i]) : n <= x
        OBVIOUS
      <3>1. /\ Sorted(h0[i]) /\ (AllStrict => StrictlySorted(h0[i]))
            /\ \A x \in ToSet(h0[i]) : n <= x /\ (AllStrict => n < x)
        BY <2>2 DEF Core, Waiting
      <3>2. \A x \in ToSet(h0[i]) : x \in Nat /\ 0 < x
        <4>1. ToSet(h0[i]) \subseteq Ts
          BY ToSetType
        <4> QED
          BY <4>1, TsNat
      <3>3. /\ Sorted(h0[i]) => Sorted(h[i])
            /\ StrictlySorted(h0[i]) => StrictlySorted(h[i])
            /\ \/ ToSet(h[i]) = {x \in ToSet(h0[i]) : n < x}
               \/ h[i] = h0[i]
        <4> HIDE DEF fin
        <4> QED
          BY <1>4, <2>1
      <3>4. n = 0 \/ n \in ToSet(made)
        BY <2>2 DEF Core, Produced
      <3>5. ASSUME NEW x \in ToSet(h0[i]), x \notin ToSet(h[i]) PROVE x \in ToSet(made)
        <4>1. ~(n < x)
          BY <3>3, <3>5
        <4>2. x = n /\ n # 0
          BY <3>1, <3>2, <4>1
        <4> QED
          BY <3>4, <4>2
      <3>6. ASSUME open[i] = TRUE PROVE \E x \in ToSet(h0[i]) : n <= x
        <4>1. i \in Filled
          BY <3>6 DEF AllReady, Filled
        <4>2. TsMin(i) \in ToSet(items[i].tss) /\ dim0ix_max <= TsMin(i)
          BY <4>1, FilledFacts
        <4> QED
          BY <2>1, <4>2
      <3> QED
        BY <3>1, <3>3, <3>5, <3>6
    <2>5. Core(made \o <<>>, n, h)
      <3>1. n <= n
        OBVIOUS
      <3> HIDE DEF discard, fin
      <3> QED
        BY <1>1, <1>2, <2>2, <2>3, <2>4, <3>1, CoreStep
    <2> QED
      BY <2>1, <2>5
  <1>6. (emitted \o out.tss) \o <<>> = emitted \o out.tss
    <2>1. PICK m \in Seq(Ts) : m = emitted \o out.tss
      BY <1>2, ConcatProperties
    <2> QED
      BY <2>1
  <1> HIDE DEF discard, fin
  <1>7. PICK p : p = TakeFrom(k)
    OBVIOUS
  <1>8. /\ p.items = fin /\ p.out = out /\ p.dmax = dim0ix_max /\ p.clear = TRUE
        /\ p.err = "none"
    BY <1>3, <1>7 DEF Outcome
  <1>9. Core(emitted \o p.out.tss, p.dmax, Held(p.items))
    BY <1>5, <1>6, <1>8
  <1>10. OutcomeOK(p)
    BY <1>2, <1>4, <1>8, <1>9 DEF OutcomeOK
  <1> QED
    BY <1>7, <1>10

(* process() as a whole.                                                   *)
LEMMA ProcessFacts ==
    ASSUME TypeInv, Core(emitted \o out.tss, dim0ix_max, Held(items)),
           AllReady, Filled # {}
    PROVE  OutcomeOK(Process)
  <1>1. CASE Empties # {}
    <2>1. Empties \in SUBSET Nat
      BY MergerAssumption DEF Empties, Filled, Inps
    <2>2. PICK e \in Empties : e = MinOf(Empties)
      BY <1>1, <2>1, MinOfFacts
    <2>3. e \in Inps /\ items[e].tss = <<>> /\ NoItem.tss = <<>>
      BY ItemFacts DEF Empties, Filled
    <2>4. PICK its : its = [items EXCEPT ![e] = NoItem]
      OBVIOUS
    <2>5. /\ its \in [Inps -> Items \union {NoItem}]
          /\ \A i \in Inps : its[i].tss = items[i].tss
      BY <2>3, <2>4 DEF TypeInv
    <2>6. Held(its) = Held(items)
      BY <2>5 DEF Held
    <2>7. PICK p : p = Process
      OBVIOUS
    <2>8. /\ p.items = its /\ p.out = out /\ p.dmax = dim0ix_max
          /\ p.clear = do_clear_out /\ p.err = "none"
      BY <1>1, <2>2, <2>4, <2>7 DEF Process, Outcome
    <2>9. OutcomeOK(p)
      BY <2>5, <2>6, <2>8 DEF OutcomeOK, TypeInv
    <2> QED
      BY <2>7, <2>9
  <1>2. CASE Empties = {}
    <2> DEFINE T == {TsMin(j) : j \in Filled}
               L == {i \in Filled : \A j \in Filled : TsMin(i) <= TsMin(j)}
    <2>1. \A j \in Filled : TsMin(j) \in Nat
      BY <1>2, FilledFacts
    <2>2. \E t \in T : \A u \in T : t <= u
      <3>1. T \in SUBSET Nat /\ T # {}
        BY <2>1
      <3> HIDE DEF T
      <3> QED
        BY <3>1, LeastNat
    <2>3. L # {}
      BY <2>2
    <2>4. L \in SUBSET Nat
      BY DEF Filled, Inps
    <2>5. MinOf(L) \in L
      <3> HIDE DEF L
      <3> QED
        BY <2>3, <2>4, MinOfFacts
    <2>6. PICK k \in Filled : k = Lowest /\ \A j \in Filled : TsMin(k) <= TsMin(j)
      BY <2>5 DEF Lowest
    <2>7. Process = TakeFrom(k)
      BY <1>2, <2>6 DEF Process
    <2>8. OutcomeOK(TakeFrom(k))
      BY <1>2, <2>6, TakeCompatible, TakeIncompatible
    <2> QED
      BY <2>7, <2>8
  <1> QED
    BY <1>1, <1>2
-----------------------------------------------------------------------------
(* Only the last finished item can have events.                            *)
Shape ==
    \A j \in 1..Len(outbuf) :
        /\ j # Len(outbuf) => outbuf[j].kind = "other"
        /\ outbuf[j].kind # "data" => outbuf[j].tss = <<>>

(* A merge that ends without error has nothing left.                       *)
AtEnd ==
    /\ done_inp = TRUE /\ err = "none" =>
         (\A i \in Inps : items[i] = NoItem) /\ out = NoItem
    /\ done_range_complete = TRUE => done_inp = TRUE /\ Tip = <<>>
    /\ complete = TRUE => done_range_complete = TRUE

Inv == TypeInv /\ Shape /\ Core(Made, dim0ix_max, Held(items)) /\ AtEnd

NothingMade == \A j \in 1..Len(outbuf) : outbuf[j].kind = "other"

LEMMA CoreKept ==
    ASSUME NEW made, NEW dmax, NEW held, Core(made, dmax, held), seen' = seen,
           \A i \in Inps : open'[i] = TRUE => open[i] = TRUE,
           Made' = made, dim0ix_max' = dmax, Held(items)' = held
    PROVE  Core(Made, dim0ix_max, Held(items))'
  <1>1. AllStrict' <=> AllStrict
    BY DEF AllStrict
  <1>2. Produced(Made, dim0ix_max)'
    BY <1>1 DEF Core, Produced
  <1>3. ASSUME NEW i \in Inps
        PROVE  (Waiting(dim0ix_max, Held(items), i) /\ Used(Made, Held(items), i)
                /\ Reached(dim0ix_max, Held(items), i))'
    <2>1. Waiting(dmax, held, i) /\ Used(made, held, i) /\ Reached(dmax, held, i)
      BY DEF Core
    <2>2. Waiting(dim0ix_max, Held(items), i)'
      BY <1>1, <2>1 DEF Waiting
    <2>3. Used(Made, Held(items), i)'
      BY <2>1 DEF Used
    <2>4. Reached(dim0ix_max, Held(items), i)'
      BY <2>1 DEF Reached
    <2> QED
      BY <2>2, <2>3, <2>4
  <1> QED
    BY <1>2, <1>3 DEF Core

(* The last of the finished items.                                         *)
LEMMA TipFacts ==
    ASSUME TypeInv, Shape
    PROVE  /\ Tip \in Seq(Ts) /\ out.tss \in Seq(Ts) /\ emitted \in Seq(Ts)
           /\ NothingMade => Tip = <<>> /\ Made = emitted \o out.tss
  <1>1. /\ out.tss \in Seq(Ts) /\ emitted \in Seq(Ts)
    BY ItemFacts DEF TypeInv
  <1>2. CASE outbuf = <<>>
    <2>1. Tip = <<>>
      BY <1>2 DEF Tip
    <2>2. emitted \o <<>> = emitted
      BY <1>1
    <2> QED
      BY <1>1, <2>1, <2>2 DEF Made
  <1>3. CASE outbuf # <<>>
    <2>1. PICK n \in Nat : n = Len(outbuf) /\ n \in 1..Len(outbuf)
      <3>1. Len(outbuf) \in Nat /\ Len(outbuf) # 0
        BY <1>3, EmptySeq DEF TypeInv
      <3> QED
        BY <3>1
    <2>2. Tip = outbuf[n].tss /\ outbuf[n].tss \in Seq(Ts)
      <3>1. Tip = outbuf[n].tss
        BY <1>3, <2>1 DEF Tip, Last
      <3>2. PICK R : R = [kind : {"data", "other", "raco"}, tss : Seq(Ts)]
        OBVIOUS
      <3>3. outbuf[n] \in R
        <4>1. outbuf \in Seq(R) /\ n \in 1..Len(outbuf)
          BY <2>1, <3>2 DEF TypeInv
        <4> QED
          BY <4>1, ElementOfSeq
      <3> QED
        BY <3>1, <3>2, <3>3
    <2>3. NothingMade => outbuf[n].tss = <<>>
      BY <2>1 DEF NothingMade, Shape
    <2>4. emitted \o <<>> = emitted
      BY <1>1
    <2> QED
      BY <1>1, <2>2, <2>3, <2>4 DEF Made
  <1> QED
    BY <1>2, <1>3

(* A new finished item at the end.                                         *)
LEMMA AppendOutbuf ==
    ASSUME TypeInv, NothingMade, Shape,
           NEW kind \in {"data", "other", "raco"}, NEW s \in Seq(Ts),
           kind # "data" => s = <<>>, outbuf' = Append(outbuf, StreamItem(kind, s))
    PROVE  /\ outbuf' \in Seq([kind : {"data", "other", "raco"}, tss : Seq(Ts)])
           /\ Shape' /\ Tip' = s
  <1>1. PICK e \in [kind : {"data", "other", "raco"}, tss : Seq(Ts)] :
          e = StreamItem(kind, s) /\ e.kind = kind /\ e.tss = s
    BY DEF StreamItem
  <1>2. PICK q \in Seq([kind : {"data", "other", "raco"}, tss : Seq(Ts)]), n \in Nat :
          q = outbuf /\ n = Len(q)
    BY DEF TypeInv
  <1>3. PICK r : r = outbuf'
    OBVIOUS
  <1>4. /\ r \in Seq([kind : {"data", "other", "raco"}, tss : Seq(Ts)])
        /\ Len(r) = n + 1 /\ r[n + 1] = e /\ \A j \in 1..n : r[j] = q[j]
    BY <1>1, <1>2, <1>3, AppendProperties
  <1>5. r # <<>> /\ Last(r) = e
    BY <1>4 DEF Last
  <1>6. Tip' = s
    BY <1>1, <1>3, <1>5 DEF Tip
  <1>7. ASSUME NEW j \in 1..(n + 1)
        PROVE  (j # n + 1 => r[j].kind = "other") /\ (r[j].kind # "data" => r[j].tss = <<>>)
    <2>1. CASE j = n + 1
      BY <1>1, <1>4, <2>1
    <2>2. CASE j # n + 1
      <3>1. j \in 1..n
        BY <2>2
      <3>2. q[j].kind = "other" /\ (q[j].kind # "data" => q[j].tss = <<>>)
        BY <1>2, <3>1 DEF NothingMade, Shape
      <3> QED
        BY <1>4, <3>1, <3>2
    <2> QED
      BY <2>1, <2>2
  <1>8. Shape'
    BY <1>3, <1>4, <1>7 DEF Shape
  <1> QED
    BY <1>3, <1>4, <1>6, <1>8

LEMMA OutputFacts ==
    ASSUME TypeInv, NothingMade, Shape, NEW o, NEW c \in BOOLEAN, NEW l, NEW heavy,
           o = NoItem \/ (o \in [ty : Types, tss : Seq(Ts)] /\ o.tss # <<>>),
           Output(o, c, l, heavy), emitted' = emitted
    PROVE  /\ outbuf' \in Seq([kind : {"data", "other", "raco"}, tss : Seq(Ts)])
           /\ Shape'
           /\ out' = NoItem \/ (out' \in [ty : Types, tss : Seq(Ts)] /\ out'.tss # <<>>)
           /\ do_clear_out' \in BOOLEAN
           /\ Made' = emitted \o o.tss
           /\ o = NoItem => out' = NoItem
  <1>1. NoItem.tss = <<>> /\ o.tss \in Seq(Ts) /\ emitted \in Seq(Ts)
    BY ItemFacts DEF TypeInv
  <1>2. CASE /\ o # NoItem
             /\ outbuf' = Append(outbuf, StreamItem("data", o.tss))
             /\ out' = NoItem /\ do_clear_out' = FALSE
    <2>1. /\ outbuf' \in Seq([kind : {"data", "other", "raco"}, tss : Seq(Ts)])
          /\ Shape' /\ Tip' = o.tss
      BY <1>1, <1>2, AppendOutbuf
    <2>2. (emitted \o o.tss) \o <<>> = emitted \o o.tss
      <3>1. PICK a \in Seq(Ts) : a = emitted \o o.tss
        BY <1>1, ConcatProperties
      <3> QED
        BY <3>1
    <2>3. Made' = emitted \o o.tss
      BY <1>1, <1>2, <2>1, <2>2 DEF Made
    <2> QED
      BY <1>2, <2>1, <2>3
  <1>3. CASE outbuf' = outbuf /\ out' = o /\ do_clear_out' = c
    <2>1. /\ outbuf' \in Seq([kind : {"data", "other", "raco"}, tss : Seq(Ts)])
          /\ Shape' /\ Tip' = Tip
      BY <1>3 DEF TypeInv, Shape, Tip
    <2>2. Tip = <<>>
      BY TipFacts
    <2>3. emitted \o <<>> = emitted
      BY <1>1
    <2>4. Made' = emitted \o o.tss
      BY <1>3, <2>1, <2>2, <2>3 DEF Made
    <2> QED
      BY <1>3, <2>1, <2>4
  <1> QED
    BY <1>2, <1>3 DEF Output
-----------------------------------------------------------------------------
(* The steps.                                                              *)
LEMMA InitInv == Init => Inv
  <1> SUFFICES ASSUME Init PROVE Inv
    OBVIOUS
  <1>1. TypeInv
    <2>1. <<>> \in Seq(Ts) /\ <<>> \in Seq([kind : {"data", "other", "raco"}, tss : Seq(Ts)])
      OBVIOUS
    <2> QED
      BY <2>1 DEF Init, TypeInv
  <1>2. Shape
    BY DEF Init, Shape
  <1>3. /\ ToSet(<<>>) = {} /\ Sorted(<<>>) /\ StrictlySorted(<<>>) /\ NoItem.tss = <<>>
    BY ItemFacts DEF ToSet, Sorted, StrictlySorted
  <1>4. Made = <<>> /\ dim0ix_max = 0 /\ Tip = <<>>
    <2>1. emitted = <<>> /\ out.tss = <<>> /\ Tip = <<>> /\ <<>> \o <<>> = <<>>
      BY <1>3 DEF Init, Tip
    <2> QED
      BY <2>1 DEF Made, Init
  <1>5. \A i \in Inps : Held(items)[i] = <<>> /\ seen[i] = <<>>
    BY <1>3 DEF Init, Held
  <1>6. Core(Made, dim0ix_max, Held(items))
    BY <1>3, <1>4, <1>5 DEF Core, Produced, Waiting, Used, Reached
  <1>7. AtEnd
    BY DEF Init, AtEnd
  <1> QED
    BY <1>1, <1>2, <1>6, <1>7 DEF Inv

LEMMA RefillDataStep ==
    ASSUME Inv, NEW k \in Inps, NEW item \in Items, RefillData(k, item)
    PROVE  Inv'
  <1> USE DEF Inv
  <1>1. /\ open[k] = TRUE /\ items[k] = NoItem /\ done_inp # TRUE
        /\ done_range_complete # TRUE
        /\ Sorted(item.tss) /\ Continues(k, item.tss)
    BY DEF RefillData, Delivers, Polled, TypeInv
  <1>2. /\ items' = [items EXCEPT ![k] = item]
        /\ seen' = [seen EXCEPT ![k] = @ \o item.tss]
        /\ UNCHANGED <<open, range_complete, out, do_clear_out, outbuf, dim0ix_max,
                       endVars, consumerVars>>
    BY DEF RefillData
  <1>3. PICK s \in Seq(Ts), old \in Seq(Ts), new \in Seq(Ts) :
          s = item.tss /\ old = seen[k] /\ new = old \o s
    <2>1. item.tss \in Seq(Ts) /\ seen[k] \in Seq(Ts)
      BY ItemFacts DEF TypeInv
    <2> QED
      BY <2>1, ConcatProperties
  <1>4. TypeInv'
    BY <1>2, <1>3 DEF TypeInv, endVars, consumerVars
  <1>5. Shape' /\ Made' = Made
    BY <1>2 DEF Shape, Made, Tip, consumerVars
  <1>6. AtEnd'
    BY <1>1, <1>2 DEF AtEnd, endVars
  <1>7. /\ \A i \in Inps : i # k => seen'[i] = seen[i] /\ Held(items)'[i] = Held(items)[i]
        /\ seen'[k] = new /\ Held(items)'[k] = s /\ Held(items)[k] = <<>>
    <2>1. NoItem.tss = <<>>
      BY ItemFacts
    <2> QED
      BY <1>1, <1>2, <1>3, <2>1 DEF Held, TypeInv
  <1>8. /\ ToSet(new) = ToSet(old) \union ToSet(s)
        /\ StrictlySorted(new) =>
             /\ StrictlySorted(old) /\ StrictlySorted(s)
             /\ \A x \in ToSet(old), y \in ToSet(s) : x < y
        /\ s # <<>> => Last(new) = Last(s)
        /\ s = <<>> => new = old
    <2>1. ToSet(old \o s) = ToSet(old) \union ToSet(s)
      BY ToSetConcat
    <2>2. StrictlySorted(old \o s) =>
             /\ StrictlySorted(old) /\ StrictlySorted(s)
             /\ \A x \in ToSet(old), y \in ToSet(s) : x < y
      BY SortedConcat
    <2>3. (s # <<>> => Last(old \o s) = Last(s)) /\ (s = <<>> => old \o s = old)
      BY LastConcat
    <2> QED
      BY <1>3, <2>1, <2>2, <2>3
  <1>9. AllStrict' => AllStrict /\ StrictlySorted(new)
    <2>1. ASSUME AllStrict' PROVE AllStrict /\ StrictlySorted(new)
      <3>1. \A i \in Inps : StrictlySorted(seen'[i])
        BY <2>1 DEF AllStrict
      <3>2. StrictlySorted(old)
        BY <1>7, <1>8, <3>1
      <3> QED
        BY <1>3, <1>7, <3>1, <3>2 DEF AllStrict
    <2> QED
      BY <2>1
  <1>10. Core(Made, dim0ix_max, Held(items)) /\ dim0ix_max' = dim0ix_max /\ open' = open
    BY <1>2
  <1>11. /\ dim0ix_max \in Nat
         /\ dim0ix_max # 0 => old # <<>> /\ dim0ix_max <= Last(old)
    BY <1>1, <1>3, <1>7, <1>10 DEF Core, Reached, TypeInv
  <1>12. ASSUME NEW x \in ToSet(s)
         PROVE  /\ x \in Nat /\ 0 < x /\ x <= Last(s) /\ dim0ix_max <= x
                /\ AllStrict' => dim0ix_max < x
    <2>1. s # <<>>
      <3>1. ToSet(<<>>) = {}
        BY DEF ToSet
      <3> QED
        BY <3>1
    <2>2. x \in Nat /\ 0 < x
      <3>1. ToSet(s) \subseteq Ts
        BY ToSetType
      <3> QED
        BY <3>1, TsNat
    <2>3. s[1] \in Nat /\ s[1] <= x /\ x <= Last(s)
      BY <1>1, <1>3, <2>1, SortedEnds
    <2>4. CASE dim0ix_max = 0
      BY <2>2, <2>3, <2>4
    <2>5. CASE dim0ix_max # 0
      <3>1. /\ old # <<>> /\ dim0ix_max <= Last(old) /\ Last(old) \in Nat
            /\ Last(old) \in ToSet(old)
        BY <1>11, <2>5, SortedEnds
      <3>2. Last(old) <= s[1]
        <4>1. s[1] >= Last(old)
          BY <1>1, <1>3, <2>1, <3>1 DEF Continues
        <4> QED
          BY <2>3, <3>1, <4>1
      <3>3. AllStrict' => Last(old) < x
        BY <1>8, <1>9, <3>1
      <3>4. dim0ix_max <= x
        BY <1>11, <2>2, <2>3, <3>1, <3>2
      <3>5. ASSUME AllStrict' PROVE dim0ix_max < x
        <4>1. Last(old) < x
          BY <3>3, <3>5
        <4> QED
          BY <1>11, <2>2, <3>1, <4>1
      <3> QED
        BY <2>2, <2>3, <3>4, <3>5
    <2> QED
      BY <2>4, <2>5
  <1>13. Produced(Made, dim0ix_max)'
    <2>1. Produced(Made, dim0ix_max)
      BY <1>10 DEF Core
    <2>2. ASSUME NEW x, \E i \in Inps : x \in ToSet(seen[i])
          PROVE  \E i \in Inps : x \in ToSet(seen'[i])
      BY <1>3, <1>7, <1>8, <2>2
    <2> QED
      BY <1>5, <1>9, <1>10, <2>1, <2>2 DEF Produced
  <1>14. ASSUME NEW i \in Inps
         PROVE  (Waiting(dim0ix_max, Held(items), i) /\ Used(Made, Held(items), i)
                 /\ Reached(dim0ix_max, Held(items), i))'
    <2>1. Waiting(dim0ix_max, Held(items), i) /\ Used(Made, Held(items), i)
          /\ Reached(dim0ix_max, Held(items), i)
      BY <1>10 DEF Core
    <2>2. CASE i # k
      BY <1>5, <1>7, <1>9, <1>10, <2>1, <2>2 DEF Waiting, Used, Reached
    <2>3. CASE i = k
      <3>1. Waiting(dim0ix_max, Held(items), k)'
        <4>1. \A x \in ToSet(s) : x <= Last(new)
          <5>1. ToSet(<<>>) = {}
            BY DEF ToSet
          <5> QED
            BY <1>8, <1>12, <5>1
        <4> QED
          BY <1>1, <1>3, <1>7, <1>8, <1>9, <1>10, <1>12, <4>1 DEF Waiting
      <3>2. Used(Made, Held(items), k)'
        <4>1. ToSet(<<>>) = {}
          BY DEF ToSet
        <4> QED
          BY <1>3, <1>5, <1>7, <1>8, <2>1, <2>3, <4>1 DEF Used
      <3>3. Reached(dim0ix_max, Held(items), k)'
        BY <1>7, <1>8, <1>10, <1>11 DEF Reached
      <3> QED
        BY <2>3, <3>1, <3>2, <3>3
    <2> QED
      BY <2>2, <2>3
  <1>15. Core(Made, dim0ix_max, Held(items))'
    BY <1>13, <1>14 DEF Core
  <1> QED
    BY <1>4, <1>5, <1>6, <1>15
(* Steps that leave the events where they are.                             *)
LEMMA RefillOtherwiseStep ==
    ASSUME Inv, NEW k \in Inps,
           \/ \E item \in Items : RefillNotMonotonic(k, item)
           \/ RefillRangeComplete(k) \/ RefillError(k) \/ RefillEnd(k)
    PROVE  Inv'
  <1> USE DEF Inv
  <1>1. /\ UNCHANGED <<seen, items, out, do_clear_out, outbuf, dim0ix_max,
                       consumerVars, done_range_complete, complete>>
        /\ done_range_complete # TRUE
        /\ \/ UNCHANGED <<done_inp, err>>
           \/ done_inp' = TRUE /\ err' \in {"Input", "InputNotMonotonic"}
    BY DEF RefillNotMonotonic, RefillRangeComplete, RefillError, RefillEnd, Fail,
           Delivers, Polled, TypeInv, endVars
  <1>2. /\ open' = open \/ open' = [open EXCEPT ![k] = FALSE]
        /\ range_complete' = range_complete
             \/ range_complete' = [range_complete EXCEPT ![k] = TRUE]
    BY DEF RefillNotMonotonic, RefillRangeComplete, RefillError, RefillEnd
  <1>3. /\ open' \in [Inps -> BOOLEAN] /\ range_complete' \in [Inps -> BOOLEAN]
        /\ \A i \in Inps : open'[i] = TRUE => open[i] = TRUE
    BY <1>2 DEF TypeInv
  <1>4. TypeInv'
    BY <1>1, <1>3 DEF TypeInv, consumerVars
  <1>5. Shape' /\ Made' = Made /\ Tip' = Tip /\ Held(items)' = Held(items)
    BY <1>1 DEF Shape, Made, Tip, Held, consumerVars
  <1>6. Core(Made, dim0ix_max, Held(items))'
    BY <1>1, <1>3, <1>5, CoreKept
  <1>7. AtEnd'
    BY <1>1, <1>5 DEF AtEnd
  <1> QED
    BY <1>4, <1>5, <1>6, <1>7

LEMMA RefillOtherStep ==
    ASSUME Inv, NEW k \in Inps, RefillOther(k)
    PROVE  Inv'
  <1> USE DEF Inv
  <1>1. /\ UNCHANGED <<open, range_complete, seen, items, out, do_clear_out,
                       dim0ix_max, endVars, consumerVars>>
        /\ NothingMade /\ done_range_complete # TRUE
        /\ outbuf' = Append(outbuf, StreamItem("other", <<>>))
    BY DEF RefillOther, Delivers, Polled, NothingMade, TypeInv
  <1>2. /\ outbuf' \in Seq([kind : {"data", "other", "raco"}, tss : Seq(Ts)])
        /\ Shape' /\ Tip' = <<>>
    <2>1. <<>> \in Seq(Ts) /\ "other" \in {"data", "other", "raco"}
      OBVIOUS
    <2> QED
      BY <1>1, <2>1, AppendOutbuf
  <1>3. TypeInv'
    BY <1>1, <1>2 DEF TypeInv, endVars, consumerVars
  <1>4. Made' = Made /\ Held(items)' = Held(items)
    <2>1. Tip = <<>>
      BY <1>1, TipFacts
    <2> QED
      BY <1>1, <1>2, <2>1 DEF Made, Held, consumerVars
  <1>5. Core(Made, dim0ix_max, Held(items))'
    BY <1>1, <1>4, CoreKept
  <1>6. AtEnd'
    BY <1>1 DEF AtEnd, endVars
  <1> QED
    BY <1>2, <1>3, <1>5, <1>6

LEMMA Poll3Step == ASSUME Inv, Poll3 PROVE Inv'
  <1> USE DEF Inv
  <1>1. /\ done_inp # TRUE /\ done_range_complete # TRUE /\ NothingMade /\ AllReady
        /\ UNCHANGED <<inputVars, done_range_complete, complete, consumerVars>>
    BY DEF Poll3, NothingMade, TypeInv
  <1>2. /\ open' = open /\ range_complete' = range_complete /\ seen' = seen
        /\ emitted' = emitted /\ raco_out' = raco_out
    BY <1>1 DEF inputVars, consumerVars
  <1>3. Made = emitted \o out.tss
    BY <1>1, TipFacts
  <1>4. CASE Filled # {}
    <2>1. PICK p : p = Process
      OBVIOUS
    <2>2. OutcomeOK(p)
      BY <1>1, <1>3, <1>4, <2>1, ProcessFacts
    <2>3. /\ items' = p.items /\ dim0ix_max' = p.dmax /\ err' = "none"
          /\ done_inp' = FALSE
          /\ \E heavy \in BOOLEAN : Output(p.out, p.clear, FALSE, heavy)
      <3>1. p.err = "none"
        BY <2>2 DEF OutcomeOK
      <3>2. /\ items' = p.items /\ dim0ix_max' = p.dmax /\ err' = p.err
            /\ done_inp' = (p.err # "none")
            /\ IF p.err = "none"
               THEN \E heavy \in BOOLEAN : Output(p.out, p.clear, FALSE, heavy)
               ELSE out' = p.out /\ do_clear_out' = p.clear /\ outbuf' = outbuf
        BY <1>4, <2>1 DEF Poll3
      <3> QED
        BY <3>1, <3>2
    <2>4. PICK heavy \in BOOLEAN : Output(p.out, p.clear, FALSE, heavy)
      BY <2>3
    <2>c. PICK c \in BOOLEAN : c = p.clear
      BY <2>2, <2>4 DEF OutcomeOK
    <2>5. PICK o :
            /\ o = p.out /\ Output(o, c, FALSE, heavy)
            /\ o = NoItem \/ (o \in [ty : Types, tss : Seq(Ts)] /\ o.tss # <<>>)
      BY <2>c, <2>2, <2>4 DEF OutcomeOK
    <2>6. /\ outbuf' \in Seq([kind : {"data", "other", "raco"}, tss : Seq(Ts)])
          /\ Shape'
          /\ out' = NoItem \/ (out' \in [ty : Types, tss : Seq(Ts)] /\ out'.tss # <<>>)
          /\ do_clear_out' \in BOOLEAN
          /\ Made' = emitted \o o.tss
      BY <1>1, <1>2, <2>5, OutputFacts
    <2>7. TypeInv'
      BY <1>1, <1>2, <2>2, <2>3, <2>6 DEF TypeInv, OutcomeOK
    <2>8. Held(items)' = Held(p.items)
      BY <2>3 DEF Held
    <2>9. Core(emitted \o p.out.tss, p.dmax, Held(p.items))
      BY <2>2 DEF OutcomeOK
    <2>10. Core(Made, dim0ix_max, Held(items))'
      BY <1>2, <2>3, <2>5, <2>6, <2>8, <2>9, CoreKept
    <2>11. AtEnd'
      BY <1>1, <2>3 DEF AtEnd
    <2> QED
      BY <2>6, <2>7, <2>10, <2>11
  <1>5. CASE Filled = {}
    <2>1. /\ UNCHANGED <<items, dim0ix_max, err>>
          /\ Output(out, do_clear_out, TRUE, FALSE)
          /\ done_inp' = (out = NoItem)
      BY <1>5 DEF Poll3
    <2>c. PICK c \in BOOLEAN : c = do_clear_out
      BY <2>1 DEF TypeInv
    <2>2. PICK o :
            /\ o = out /\ Output(o, c, TRUE, FALSE)
            /\ o = NoItem \/ (o \in [ty : Types, tss : Seq(Ts)] /\ o.tss # <<>>)
      BY <2>c, <2>1 DEF TypeInv
    <2>3. /\ outbuf' \in Seq([kind : {"data", "other", "raco"}, tss : Seq(Ts)])
          /\ Shape'
          /\ out' = NoItem \/ (out' \in [ty : Types, tss : Seq(Ts)] /\ out'.tss # <<>>)
          /\ do_clear_out' \in BOOLEAN
          /\ Made' = emitted \o o.tss
          /\ o = NoItem => out' = NoItem
      BY <1>1, <1>2, <2>2, OutputFacts
    <2>4. TypeInv'
      BY <1>1, <1>2, <2>1, <2>3 DEF TypeInv
    <2>5. Held(items)' = Held(items) /\ Made' = Made
      BY <1>3, <2>1, <2>2, <2>3 DEF Held
    <2>6. Core(Made, dim0ix_max, Held(items))'
      BY <1>2, <2>1, <2>5, CoreKept
    <2>7. AtEnd'
      <3>1. \A i \in Inps : items'[i] = NoItem
        BY <1>5, <2>1 DEF Filled
      <3>2. done_inp' = TRUE => out' = NoItem
        BY <2>1, <2>2, <2>3
      <3> QED
        BY <1>1, <3>1, <3>2 DEF AtEnd
    <2> QED
      BY <2>3, <2>4, <2>6, <2>7
  <1> QED
    BY <1>4, <1>5
LEMMA PopOutbufStep == ASSUME Inv, PopOutbuf PROVE Inv'
  <1> USE DEF Inv
  <1>1. /\ outbuf # <<>> /\ done_range_complete # TRUE
        /\ emitted' = emitted \o Head(outbuf).tss
        /\ raco_out' = (raco_out \/ Head(outbuf).kind = "raco")
        /\ outbuf' = Tail(outbuf)
        /\ UNCHANGED <<inputVars, items, out, do_clear_out, dim0ix_max, endVars>>
    BY DEF PopOutbuf, TypeInv
  <1>2. PICK R : R = [kind : {"data", "other", "raco"}, tss : Seq(Ts)]
    OBVIOUS
  <1>3. PICK q \in Seq(R), t \in Seq(R), n \in Nat :
          /\ q = outbuf /\ t = Tail(q) /\ n = Len(t) /\ Len(q) = n + 1
          /\ Head(q) = q[1] /\ q[1] \in R
          /\ \A j \in 1..n : t[j] = q[j + 1]
    <2>1. outbuf \in Seq(R)
      BY <1>2 DEF TypeInv
    <2>2. PICK q \in Seq(R) : q = outbuf
      BY <2>1
    <2>3. /\ q # <<>> /\ Head(q) \in R /\ Tail(q) \in Seq(R) /\ Head(q) = q[1]
          /\ Len(Tail(q)) = Len(q) - 1 /\ \A j \in 1..Len(Tail(q)) : Tail(q)[j] = q[j + 1]
      BY <1>1, <2>2, HeadTailProperties
    <2>4. Len(q) \in Nat /\ Len(Tail(q)) \in Nat /\ Len(q) = Len(Tail(q)) + 1
      <3>1. \A a, b \in Nat : a = b - 1 => b = a + 1
        OBVIOUS
      <3> QED
        BY <2>3, <3>1
    <2> QED
      BY <2>2, <2>3, <2>4
  <1>4. q[1].tss \in Seq(Ts) /\ emitted \in Seq(Ts) /\ out.tss \in Seq(Ts)
    <2>1. emitted \in Seq(Ts) /\ out.tss \in Seq(Ts)
      BY TipFacts
    <2> QED
      BY <1>2, <1>3, <2>1
  <1>5. TypeInv'
    <2>1. emitted' \in Seq(Ts) /\ outbuf' \in Seq(R) /\ raco_out' \in BOOLEAN
      BY <1>1, <1>3, <1>4, ConcatProperties DEF TypeInv
    <2> QED
      BY <1>1, <1>2, <2>1 DEF TypeInv, inputVars, endVars
  <1>6. Shape'
    <2>1. ASSUME NEW j \in 1..n
          PROVE  (j # n => t[j].kind = "other") /\ (t[j].kind # "data" => t[j].tss = <<>>)
      <3>1. j + 1 \in 1..(n + 1) /\ (j # n => j + 1 # n + 1)
        OBVIOUS
      <3>2. (j + 1 # n + 1 => q[j + 1].kind = "other")
            /\ (q[j + 1].kind # "data" => q[j + 1].tss = <<>>)
        BY <1>3, <3>1 DEF Shape
      <3> QED
        BY <1>3, <3>1, <3>2
    <2> QED
      BY <1>1, <1>3, <2>1 DEF Shape
  <1>7. Made' = Made
    <2>1. CASE n = 0
      <3>1. t = <<>> /\ Tip' = <<>>
        BY <1>1, <1>3, <2>1, EmptySeq DEF Tip
      <3>2. Tip = q[1].tss
        BY <1>1, <1>3, <2>1 DEF Tip, Last
      <3>3. PICK a \in Seq(Ts) : a = emitted \o q[1].tss
        BY <1>4, ConcatProperties
      <3>4. a \o <<>> = a
        OBVIOUS
      <3> QED
        BY <1>1, <1>3, <3>1, <3>2, <3>3, <3>4 DEF Made
    <2>2. CASE n # 0
      <3>1. 1 \in 1..(n + 1) /\ 1 # n + 1 /\ n \in 1..n
        BY <2>2
      <3>2. q[1].tss = <<>>
        BY <1>3, <3>1 DEF Shape
      <3>3. t # <<>> /\ t[n] = q[n + 1]
        BY <1>3, <2>2, <3>1, EmptySeq
      <3>4. Last(t) = Last(q)
        BY <1>3, <3>3 DEF Last
      <3>5. Tip' = Tip
        BY <1>1, <1>3, <3>3, <3>4 DEF Tip
      <3>6. emitted' = emitted
        BY <1>1, <1>3, <1>4, <3>2
      <3> QED
        BY <1>1, <3>5, <3>6 DEF Made
    <2> QED
      BY <2>1, <2>2
  <1>8. Core(Made, dim0ix_max, Held(items))'
    <2>1. Held(items)' = Held(items) /\ seen' = seen /\ open' = open
          /\ dim0ix_max' = dim0ix_max
      BY <1>1 DEF Held, inputVars
    <2> QED
      BY <1>7, <2>1, CoreKept
  <1>9. AtEnd'
    BY <1>1 DEF AtEnd, endVars
  <1> QED
    BY <1>5, <1>6, <1>8, <1>9

LEMMA EndSteps == ASSUME Inv, EnterRangeComplete \/ EndOfStream PROVE Inv'
  <1> USE DEF Inv
  <1>1. /\ UNCHANGED <<inputVars, items, out, do_clear_out, dim0ix_max, done_inp, err,
                       consumerVars>>
        /\ done_range_complete' = TRUE /\ done_inp = TRUE /\ complete' \in BOOLEAN
    BY DEF EnterRangeComplete, EndOfStream, TypeInv, AtEnd
  <1>2. /\ outbuf' \in Seq([kind : {"data", "other", "raco"}, tss : Seq(Ts)])
        /\ Shape' /\ Tip = <<>> /\ Tip' = <<>>
    <2>1. CASE outbuf' = outbuf /\ done_range_complete = TRUE
      BY <2>1 DEF TypeInv, Shape, Tip, AtEnd
    <2>2. CASE outbuf = <<>> /\ outbuf' = <<>>
      <3>1. <<>> \in Seq([kind : {"data", "other", "raco"}, tss : Seq(Ts)])
        OBVIOUS
      <3> QED
        BY <2>2, <3>1 DEF Shape, Tip
    <2>3. CASE outbuf = <<>> /\ outbuf' = <<StreamItem("raco", <<>>)>>
      <3>1. Append(<<>>, StreamItem("raco", <<>>)) = <<StreamItem("raco", <<>>)>>
        OBVIOUS
      <3>2. NothingMade /\ <<>> \in Seq(Ts) /\ "raco" \in {"data", "other", "raco"}
        BY <2>3 DEF NothingMade
      <3>3. /\ outbuf' \in Seq([kind : {"data", "other", "raco"}, tss : Seq(Ts)])
            /\ Shape' /\ Tip' = <<>>
        BY <2>3, <3>1, <3>2, AppendOutbuf
      <3> QED
        BY <2>3, <3>3 DEF Tip
    <2> QED
      BY <2>1, <2>2, <2>3 DEF EnterRangeComplete, EndOfStream, TypeInv
  <1>3. TypeInv'
    BY <1>1, <1>2 DEF TypeInv, inputVars, consumerVars
  <1>4. Made' = Made /\ Held(items)' = Held(items)
    BY <1>1, <1>2 DEF Made, Held, consumerVars
  <1>5. Core(Made, dim0ix_max, Held(items))'
    <2>1. seen' = seen /\ open' = open /\ dim0ix_max' = dim0ix_max
      BY <1>1 DEF inputVars
    <2> QED
      BY <1>4, <2>1, CoreKept
  <1>6. AtEnd'
    BY <1>1, <1>2 DEF AtEnd
  <1> QED
    BY <1>2, <1>3, <1>5, <1>6

LEMMA StutterStep == ASSUME Inv, UNCHANGED vars PROVE Inv'
  <1> USE DEF Inv
  <1>1. /\ UNCHANGED <<open, range_complete, seen, items, out, do_clear_out, outbuf,
                       dim0ix_max, done_inp, done_range_complete, complete, err,
                       emitted, raco_out>>
    BY DEF vars, inputVars, endVars, consumerVars
  <1>2. TypeInv' /\ Shape' /\ AtEnd' /\ Made' = Made /\ Held(items)' = Held(items)
    BY <1>1 DEF TypeInv, Shape, AtEnd, Made, Held, Tip
  <1>3. Core(Made, dim0ix_max, Held(items))'
    BY <1>1, <1>2, CoreKept
  <1> QED
    BY <1>2, <1>3

LEMMA NextInv == Inv /\ [Next]_vars => Inv'
  <1> SUFFICES ASSUME Inv, [Next]_vars PROVE Inv'
    OBVIOUS
  <1>1. CASE \E i \in Inps : Refill(i)
    <2>1. PICK i \in Inps : Refill(i)
      BY <1>1
    <2>2. CASE \E item \in Items : RefillData(i, item)
      BY <2>2, RefillDataStep
    <2>3. CASE RefillOther(i)
      BY <2>3, RefillOtherStep
    <2>4. CASE \/ \E item \in Items : RefillNotMonotonic(i, item)
               \/ RefillRangeComplete(i) \/ RefillError(i) \/ RefillEnd(i)
      BY <2>4, RefillOtherwiseStep
    <2> QED
      BY <2>1, <2>2, <2>3, <2>4 DEF Refill
  <1>2. CASE Poll3
    BY <1>2, Poll3Step
  <1>3. CASE PopOutbuf
    BY <1>3, PopOutbufStep
  <1>4. CASE EnterRangeComplete \/ EndOfStream
    BY <1>4, EndSteps
  <1>5. CASE UNCHANGED vars
    BY <1>5, StutterStep
  <1> QED
    BY <1>1, <1>2, <1>3, <1>4, <1>5 DEF Next, Poll, Proceed, Ended

LEMMA SpecInv == Spec => []Inv
  BY InitInv, NextInv, PTL DEF Spec
-----------------------------------------------------------------------------
(* The types of all variables, with no bound on the number of inputs, the  *)
(* lengths of the containers or the number of items: in particular the     *)
(* output under construction is never an empty container (merger.rs takes  *)
(* it out of the option when it hands it out).                             *)
THEOREM TypeCorrect == Spec => []TypeOK
  <1>1. Inv => TypeOK
    <2> SUFFICES ASSUME Inv PROVE TypeOK
      OBVIOUS
    <2>1. \A k \in 1..Len(outbuf) : outbuf[k].kind \in {"data", "other", "raco"}
      <3>1. PICK R : R = [kind : {"data", "other", "raco"}, tss : Seq(Ts)]
        OBVIOUS
      <3>2. outbuf \in Seq(R)
        BY <3>1 DEF Inv, TypeInv
      <3>3. \A k \in 1..Len(outbuf) : outbuf[k] \in R
        BY <3>2, ElementOfSeq
      <3> QED
        BY <3>1, <3>3
    <2>2. out = NoItem \/ (out.ty \in Types /\ Len(out.tss) > 0)
      <3>1. CASE out \in [ty : Types, tss : Seq(Ts)] /\ out.tss # <<>>
        <4>1. PICK s \in Seq(Ts) : s = out.tss /\ s # <<>>
          BY <3>1
        <4>2. Len(s) > 0
          BY <4>1, EmptySeq
        <4> QED
          BY <3>1, <4>1, <4>2
      <3> QED
        BY <3>1 DEF Inv, TypeInv
    <2>3. err \in Errors
      BY DEF Inv, TypeInv, Errors
    <2> QED
      BY <2>1, <2>2, <2>3 DEF Inv, TypeInv, TypeOK
  <1> QED
    BY <1>1, SpecInv, PTL

(* The parts of what was made.                                             *)
LEMMA EmittedPart ==
    ASSUME Inv
    PROVE  Sorted(emitted) /\ (AllStrict => StrictlySorted(emitted))
  <1>1. PICK e \in Seq(Ts), t \in Seq(Ts), o \in Seq(Ts) :
          e = emitted /\ t = Tip /\ o = out.tss
    BY TipFacts DEF Inv
  <1>2. PICK m \in Seq(Ts) : m = e \o t /\ Made = m \o o
    BY <1>1, ConcatProperties DEF Made
  <1>3. Sorted(m \o o) /\ (AllStrict => StrictlySorted(m \o o))
    BY <1>2 DEF Inv, Core, Produced
  <1>4. Sorted(m) /\ (AllStrict => StrictlySorted(m))
    BY <1>3, SortedConcat
  <1>5. Sorted(e \o t) /\ (AllStrict => StrictlySorted(e \o t))
    BY <1>2, <1>4
  <1> QED
    BY <1>1, <1>5, SortedConcat

(* For any number of inputs and however they are cut into containers and   *)
(* become ready: what process() in merger.rs makes of ordered inputs is    *)
(* handed out in order.                                                    *)
THEOREM OutputIsSorted == Spec => []EmittedSorted
  <1>1. Inv => EmittedSorted
    BY EmittedPart DEF EmittedSorted
  <1> QED
    BY <1>1, SpecInv, PTL

(* An event that several inputs deliver appears once, if no input repeats  *)
(* a timestamp: the discard at the end of process() misses none.           *)
THEOREM NoDuplicates == Spec => []DuplicatesRemoved
  <1>1. Inv => DuplicatesRemoved
    BY EmittedPart DEF DuplicatesRemoved, AllStrict
  <1> QED
    BY <1>1, SpecInv, PTL

(* A merge that ended without an error has emitted every timestamp of      *)
(* every input and no other: the discard at the end of process() only ever *)
(* drops what is in the output.                                            *)
THEOREM NothingIsLost == Spec => []NoTimestampLost
  <1>1. Inv => NoTimestampLost
    <2> SUFFICES ASSUME Inv, complete, err = "none"
                 PROVE  Range(emitted) = UNION {Range(seen[i]) : i \in Inps}
      BY DEF NoTimestampLost
    <2>1. /\ Tip = <<>> /\ out = NoItem /\ \A i \in Inps : items[i] = NoItem
      <3>1. complete = TRUE
        BY DEF Inv, TypeInv
      <3> QED
        BY <3>1 DEF Inv, AtEnd
    <2>2. NoItem.tss = <<>> /\ ToSet(<<>>) = {} /\ emitted \in Seq(Ts)
      BY ItemFacts DEF ToSet, Inv, TypeInv
    <2>3. Made = emitted
      <3>1. emitted \o <<>> = emitted
        BY <2>2
      <3> QED
        BY <2>1, <2>2, <3>1 DEF Made
    <2>4. \A i \in Inps : Held(items)[i] = <<>>
      BY <2>1, <2>2 DEF Held
    <2>5. \A i \in Inps : \A x \in ToSet(seen[i]) : x \in ToSet(emitted)
      BY <2>2, <2>3, <2>4 DEF Inv, Core, Used
    <2>6. \A x \in ToSet(emitted) : \E i \in Inps : x \in ToSet(seen[i])
      BY <2>3 DEF Inv, Core, Produced
    <2>7. \A f : Range(f) = ToSet(f)
      BY DEF Range, ToSet
    <2>8. ToSet(emitted) = UNION {ToSet(seen[i]) : i \in Inps}
      BY <2>5, <2>6
    <2> QED
      BY <2>7, <2>8
  <1> QED
    BY <1>1, SpecInv, PTL

(* The errors that merger.rs returns where it "should never be" do not     *)
(* occur; in particular a container that is cut is never emptied by the    *)
(* cut (PartialPathDrainedAllItems).                                       *)
THEOREM InternalErrorsNeverOccur == Spec => []NoInternalError
  <1>1. Inv => NoInternalError
    BY DEF Inv, TypeInv, NoInternalError, InternalErrors
  <1> QED
    BY <1>1, SpecInv, PTL
=============================================================================
