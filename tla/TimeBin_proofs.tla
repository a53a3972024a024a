---------------------------- MODULE TimeBin_proofs ----------------------------
(***************************************************************************)
(* The bins are those of the events, for any range, bin length, values,    *)
(* containers and size of the output.                                      *)
(***************************************************************************)
EXTENDS TimeBin, ProofLemmas

Phases == {"Reading", "Buffered", "Cycling", "Remains", "Done", "Failed", "Panic"}
MaybeVals == Vals \union {NoVal}
Actives == [beg : Nat, until : Nat, width : Nat, sum : Nat, cnt : Nat,
            min : MaybeVals, max : MaybeVals, lst : MaybeVals]
Bins == [beg : Nat, end : Nat, cnt : Nat, min : Vals, max : Vals, sum : Nat,
         width : Nat, lst : Vals]
Increase == {g \in Seq(Events) : Increasing(g)}

LastTs(g) == g[Len(g)].ts

(* The events are those ingested and those in the buffer; the active bin   *)
(* is one of the grid.                                                     *)
StateTypes ==
    /\ phase \in Phases /\ cnt_zero \in BOOLEAN /\ more \in BOOLEAN /\ nleft \in Nat
    /\ seen \in Increase /\ evs \in Seq(Events)
    /\ \E g \in Seq(Events) : seen = g \o evs
    /\ phase # "Buffered" => evs = <<>>
    /\ bn \in Actives /\ out \in Seq(Bins) /\ fine \in Seq(Bins)
    /\ Len(out) <= OutMax + 1
    /\ bn.beg % BinLen = 0 /\ RangeBeg <= bn.beg /\ bn.beg <= RangeEnd

(* Before the first event.                                                 *)
Blank(b) ==
    /\ b.until = b.beg /\ b.width = 0 /\ b.sum = 0 /\ b.cnt = 0
    /\ b.min = NoVal /\ b.max = NoVal /\ b.lst = NoVal

IsLeast(x, S) == x \in S /\ \A y \in S : x <= y
IsGreatest(x, S) == x \in S /\ \A y \in S : y <= x

(* The active bin is filled up to its last event, or from before it, and   *)
(* the value of that event holds from there.                               *)
Active(g, b) ==
    /\ b.lst = g[Len(g)].val
    /\ LastTs(g) < End(b)
    /\ b.until = IF LastTs(g) <= b.beg THEN b.beg ELSE LastTs(g)
    /\ b.cnt = Cardinality(EventsIn(g, b.beg, End(b)))
    /\ IsLeast(b.min, HeldIn(g, b.beg, b.until) \union {b.lst})
    /\ IsGreatest(b.max, HeldIn(g, b.beg, b.until) \union {b.lst})
    /\ b.sum = Integral(g, b.beg, b.until)
    /\ b.width = Cardinality(Ticks(g, b.beg, b.until))

(* A bin that was put out lies before the active one, which begins at a.   *)
Made(g, b, a) ==
    /\ b.end = b.beg + BinLen /\ b.end <= a
    /\ First(g) < b.end
    /\ BinMatches(g, b)
    /\ IsLeast(b.min, HeldIn(g, b.beg, b.end)) /\ IsGreatest(b.max, HeldIn(g, b.beg, b.end))

BinsInv ==
    LET g == Ingested IN
    /\ g = <<>> => Blank(bn) /\ out = <<>> /\ fine = <<>>
    /\ g # <<>> => /\ Active(g, bn)
                   /\ \A i \in 1..Len(out) : Made(g, out[i], bn.beg)
                   /\ \A i \in 1..Len(fine) : Made(g, fine[i], bn.beg)

(* The active bin has no later begin than the next event; cycle_01 at the  *)
(* end of the input is called only after an event.                         *)
Following ==
    LET g == Ingested IN
    /\ g = <<>> => /\ ~more /\ phase # "Cycling"
                   /\ bn.beg = RangeBeg \/ (evs # <<>> /\ bn.beg <= Head(evs).ts)
    /\ g # <<>> /\ phase \in {"Reading", "Buffered"} =>
         \/ bn.beg = RangeBeg \/ bn.beg <= LastTs(g)
         \/ evs # <<>> /\ bn.beg <= Head(evs).ts

Core == StateTypes /\ BinsInv
IInv == Core /\ Following
-----------------------------------------------------------------------------
(* Numbers.                                                                *)
LEMMA MulMono ==
    ASSUME NEW a \in Int, NEW b \in Int, NEW n \in Nat, a <= b
    PROVE  a * n <= b * n
  OBVIOUS

LEMMA FloorFacts ==
    ASSUME NEW t \in Int, NEW n \in Nat \ {0}
    PROVE  /\ Floor(t, n) \in Int /\ Floor(t, n) <= t /\ t < Floor(t, n) + n
           /\ Floor(t, n) % n = 0
           /\ \A a \in Int : a % n = 0 /\ a <= t => a <= Floor(t, n)
  <1>1. PICK q \in Int : q = t \div n
    OBVIOUS
  <1>2. q * n <= t /\ t < q * n + n
    BY <1>1
  <1>3. Floor(t, n) = q * n /\ q * n \in Int
    BY <1>1 DEF Floor
  <1>4. (q * n) % n = 0
    OBVIOUS
  <1>5. ASSUME NEW a \in Int, a % n = 0, a <= t PROVE a <= q * n
    <2>1. PICK r \in Int : r = a \div n
      OBVIOUS
    <2>2. a = r * n
      BY <1>5, <2>1
    <2>3. CASE r <= q
      BY <2>2, <2>3, MulMono
    <2>4. CASE q + 1 <= r
      <3>1. (q + 1) * n <= r * n
        BY <2>4, MulMono
      <3>2. (q + 1) * n = q * n + n
        OBVIOUS
      <3> QED
        BY <1>2, <1>5, <2>2, <3>1, <3>2
    <2> QED
      BY <2>3, <2>4
  <1> QED
    BY <1>2, <1>3, <1>4, <1>5

(* The next point of the grid.                                             *)
LEMMA GridStep ==
    ASSUME NEW a \in Int, NEW b \in Int, NEW n \in Nat \ {0}, a % n = 0, b % n = 0
    PROVE  (a + n) % n = 0 /\ (a < b => a + n <= b)
  <1>1. PICK q \in Int, r \in Int : a = q * n /\ b = r * n
    <2>1. a = (a \div n) * n /\ b = (b \div n) * n
      OBVIOUS
    <2> QED
      BY <2>1
  <1>2. (q + 1) * n = q * n + n /\ (q + 1) * n \in Int
    OBVIOUS
  <1>3. ((q + 1) * n) % n = 0
    OBVIOUS
  <1>4. ASSUME a < b PROVE a + n <= b
    <2>1. CASE r <= q
      <3>1. r * n <= q * n
        BY <2>1, MulMono
      <3> QED
        BY <1>1, <1>4, <3>1
    <2>2. CASE q + 1 <= r
      <3>1. (q + 1) * n <= r * n
        BY <2>2, MulMono
      <3> QED
        BY <1>1, <1>2, <3>1
    <2> QED
      BY <2>1, <2>2
  <1> QED
    BY <1>1, <1>2, <1>3, <1>4

(* Least and greatest elements.                                            *)
LEMMA MinIs ==
    ASSUME NEW S \in SUBSET Int, NEW x, IsLeast(x, S)
    PROVE  Min(S) = x
  <1>1. \A z \in S : (\A y \in S : z <= y) => z = x
    BY DEF IsLeast
  <1> QED
    BY <1>1 DEF Min, IsLeast

LEMMA MaxIs ==
    ASSUME NEW S \in SUBSET Int, NEW x, IsGreatest(x, S)
    PROVE  Max(S) = x
  <1>1. \A z \in S : (\A y \in S : z >= y) => z = x
    BY DEF IsGreatest
  <1> QED
    BY <1>1 DEF Max, IsGreatest

LEMMA MaxBounded ==
    ASSUME NEW n \in Nat, NEW S \in SUBSET (1..n), S # {}
    PROVE  IsGreatest(Max(S), S)
  <1> DEFINE T == {n - x : x \in S}
  <1>1. T \in SUBSET Nat /\ T # {}
    <2>1. \A x \in S : n - x \in Nat
      OBVIOUS
    <2>2. T \subseteq Nat
      BY <2>1
    <2> QED
      BY <2>2
  <1>2. PICK m \in T : \A y \in T : m <= y
    BY <1>1, LeastNat
  <1>3. PICK x \in S : m = n - x
    OBVIOUS
  <1>4. ASSUME NEW y \in S PROVE y <= x
    <2>1. n - y \in T
      OBVIOUS
    <2>2. n - x <= n - y
      BY <1>2, <1>3, <2>1
    <2> QED
      BY <2>2
  <1>5. IsGreatest(x, S)
    BY <1>4 DEF IsGreatest
  <1> QED
    BY <1>5, MaxIs
-----------------------------------------------------------------------------
(* The value that holds at a time.                                         *)
LEMMA ConstFacts ==
    /\ BinLen \in Nat \ {0} /\ Vals \in SUBSET Nat
    /\ \A v \in Vals : v \in Nat /\ v \in Int
    /\ RangeBeg \in Nat /\ RangeEnd \in Nat /\ OutMax \in Nat
  BY BinAssumption

LEMMA EventFacts ==
    ASSUME NEW e \in Events
    PROVE  e.ts \in Int /\ e.val \in Vals /\ e.val \in Nat /\ e.ts < RangeEnd
           /\ e.ts >= RangeBeg - 1
  BY BinAssumption DEF Events, Event

(* The last event at or before t.                                          *)
LEMMA ValueOf ==
    ASSUME NEW g \in Increase, NEW t \in Int, NEW i \in 1..Len(g), g[i].ts <= t,
           \A j \in 1..Len(g) : i < j => t < g[j].ts
    PROVE  ValueAt(g, t) = g[i].val
  <1> DEFINE S == {j \in 1..Len(g) : g[j].ts <= t}
  <1>1. \A j \in 1..Len(g) : g[j].ts \in Int
    BY EventFacts DEF Increase
  <1>2. IsGreatest(i, S)
    <2>1. \A j \in S : ~(i < j)
      BY <1>1
    <2> QED
      BY <2>1 DEF IsGreatest
  <1>3. Max(S) = i
    BY <1>2, MaxIs
  <1> QED
    BY <1>3 DEF ValueAt

LEMMA FirstFacts ==
    ASSUME NEW g \in Increase, g # <<>>
    PROVE  /\ Len(g) \in Nat /\ 1 <= Len(g) /\ First(g) = g[1].ts /\ First(g) \in Int
           /\ LastTs(g) \in Int /\ First(g) <= LastTs(g)
           /\ g[Len(g)].val \in Vals
           /\ \A i \in 1..Len(g) : /\ g[i].ts \in Int /\ First(g) <= g[i].ts
                                   /\ g[i].ts <= LastTs(g) /\ g[i].val \in Vals
  <1>1. Len(g) \in Nat /\ Len(g) # 0 /\ First(g) = g[1].ts
    BY DEF Increase, First
  <1>2. \A i \in 1..Len(g) : g[i].ts \in Int /\ g[i].val \in Vals
    BY EventFacts DEF Increase
  <1>3. \A i, j \in 1..Len(g) : i < j => g[i].ts < g[j].ts
    BY DEF Increase, Increasing
  <1>4. 1 \in 1..Len(g) /\ Len(g) \in 1..Len(g)
    BY <1>1
  <1>5. ASSUME NEW i \in 1..Len(g) PROVE First(g) <= g[i].ts /\ g[i].ts <= LastTs(g)
    <2>1. i = 1 \/ 1 < i
      OBVIOUS
    <2>2. i = Len(g) \/ i < Len(g)
      BY <1>1
    <2>3. First(g) <= g[i].ts
      BY <1>1, <1>2, <1>3, <1>4, <2>1
    <2>4. g[i].ts <= LastTs(g)
      BY <1>2, <1>3, <1>4, <2>2 DEF LastTs
    <2> QED
      BY <2>3, <2>4
  <1> QED
    BY <1>1, <1>2, <1>4, <1>5 DEF LastTs

LEMMA ValueType ==
    ASSUME NEW g \in Increase, g # <<>>, NEW t \in Int, First(g) <= t
    PROVE  ValueAt(g, t) \in Vals /\ ValueAt(g, t) \in Nat
  <1>1. PICK n \in Nat : n = Len(g)
    BY FirstFacts
  <1>2. PICK S \in SUBSET (1..n) : S = {j \in 1..Len(g) : g[j].ts <= t}
    BY <1>1
  <1>3. 1 \in S
    BY <1>1, <1>2, FirstFacts
  <1>4. Max(S) \in 1..n
    BY <1>3, MaxBounded DEF IsGreatest
  <1>5. ValueAt(g, t) = g[Max(S)].val
    BY <1>2 DEF ValueAt
  <1>6. \A i \in 1..n : g[i].val \in Vals
    BY <1>1, FirstFacts
  <1> QED
    BY <1>4, <1>5, <1>6, BinAssumption

(* From the last event on.                                                 *)
LEMMA ValueLast ==
    ASSUME NEW g \in Increase, g # <<>>, NEW t \in Int, LastTs(g) <= t
    PROVE  ValueAt(g, t) = g[Len(g)].val
  <1>1. Len(g) \in 1..Len(g) /\ g[Len(g)].ts <= t
    BY FirstFacts DEF LastTs
  <1>2. \A j \in 1..Len(g) : ~(Len(g) < j)
    BY FirstFacts
  <1> QED
    BY <1>1, <1>2, ValueOf

(* One more event changes nothing before it.                               *)
LEMMA AppendFacts ==
    ASSUME NEW g \in Increase, NEW e \in Events,
           g # <<>> => LastTs(g) < e.ts
    PROVE  /\ Append(g, e) \in Increase /\ Append(g, e) # <<>>
           /\ Len(g) \in Nat /\ Len(Append(g, e)) = Len(g) + 1
           /\ \A i \in 1..Len(g) : Append(g, e)[i] = g[i]
           /\ Append(g, e)[Len(g) + 1] = e /\ LastTs(Append(g, e)) = e.ts
           /\ g # <<>> => First(Append(g, e)) = First(g)
           /\ g = <<>> => First(Append(g, e)) = e.ts
  <1>1. PICK h : h = Append(g, e)
    OBVIOUS
  <1>2. /\ h \in Seq(Events) /\ Len(g) \in Nat /\ Len(h) = Len(g) + 1 /\ h # <<>>
        /\ \A i \in 1..Len(g) : h[i] = g[i]
        /\ h[Len(g) + 1] = e
    BY <1>1 DEF Increase
  <1>3. Increasing(h)
    <2> SUFFICES ASSUME NEW i \in 1..Len(h), NEW j \in 1..Len(h), i < j
                 PROVE  h[i].ts < h[j].ts
      BY DEF Increasing
    <2>1. i \in 1..Len(g) /\ g # <<>>
      BY <1>2 DEF Increase
    <2>2. CASE j \in 1..Len(g)
      BY <1>2, <2>1, <2>2 DEF Increase, Increasing
    <2>3. CASE j = Len(g) + 1
      <3>1. g[i].ts \in Int /\ g[i].ts <= LastTs(g) /\ LastTs(g) \in Int /\ e.ts \in Int
        BY <2>1, FirstFacts, EventFacts
      <3> QED
        BY <1>2, <2>1, <2>3, <3>1
    <2> QED
      BY <1>2, <2>2, <2>3
  <1>4. First(h) = h[1].ts
    BY <1>2 DEF First
  <1>5. g # <<>> => First(h) = First(g)
    BY <1>2, <1>4, FirstFacts
  <1>6. g = <<>> => First(h) = e.ts
    BY <1>2, <1>4
  <1>7. LastTs(h) = e.ts
    BY <1>2 DEF LastTs
  <1> QED
    BY <1>1, <1>2, <1>3, <1>5, <1>6, <1>7 DEF Increase

LEMMA ValueAppend ==
    ASSUME NEW g \in Increase, g # <<>>, NEW e \in Events, LastTs(g) < e.ts,
           NEW t \in Int, First(g) <= t, t < e.ts
    PROVE  ValueAt(Append(g, e), t) = ValueAt(g, t)
  <1>1. PICK h : h = Append(g, e)
    OBVIOUS
  <1>2. /\ Len(g) \in Nat /\ Len(h) = Len(g) + 1
        /\ \A i \in 1..Len(g) : h[i] = g[i]
        /\ h[Len(g) + 1] = e
    BY <1>1, AppendFacts
  <1>3. e.ts \in Int
    BY EventFacts
  <1>4. {i \in 1..Len(h) : h[i].ts <= t} = {i \in 1..Len(g) : g[i].ts <= t}
    BY <1>2, <1>3
  <1>5. PICK S : S = {i \in 1..Len(g) : g[i].ts <= t}
    OBVIOUS
  <1>6. ValueAt(h, t) = h[Max(S)].val /\ ValueAt(g, t) = g[Max(S)].val
    BY <1>4, <1>5 DEF ValueAt
  <1>7. Max(S) \in 1..Len(g)
    <2>1. 1 \in S /\ S \in SUBSET (1..Len(g))
      BY <1>5, FirstFacts
    <2> QED
      BY <1>2, <2>1, MaxBounded DEF IsGreatest
  <1> QED
    BY <1>1, <1>2, <1>6, <1>7
-----------------------------------------------------------------------------
(* What a longer time adds.                                                *)
LEMMA TicksFinite ==
    ASSUME NEW g, NEW a \in Int, NEW b \in Int
    PROVE  IsFiniteSet(Ticks(g, a, b))
  <1>1. IsFiniteSet(a..(b - 1))
    BY FS_Interval
  <1>2. Ticks(g, a, b) \subseteq a..(b - 1)
    BY DEF Ticks
  <1> QED
    BY <1>1, <1>2, FS_Subset

LEMMA Spans ==
    ASSUME NEW a \in Int, NEW b \in Int, a <= b
    PROVE  IsFiniteSet(a..(b - 1)) /\ Cardinality(a..(b - 1)) = b - a
  <1>1. PICK c \in Int : c = b - 1
    OBVIOUS
  <1>2. IsFiniteSet(a..c) /\ Cardinality(a..c) = IF a > c THEN 0 ELSE c - a + 1
    BY FS_Interval
  <1> QED
    BY <1>1, <1>2

LEMMA TicksJoin ==
    ASSUME NEW g \in Increase, g # <<>>, NEW a \in Int, NEW b \in Int, NEW c \in Int,
           a <= b, b <= c
    PROVE  /\ Ticks(g, a, c) = Ticks(g, a, b) \union Ticks(g, b, c)
           /\ Ticks(g, a, b) \intersect Ticks(g, b, c) = {}
           /\ HeldIn(g, a, c) = HeldIn(g, a, b) \union HeldIn(g, b, c)
           /\ Area(g, a, c) = Area(g, a, b) \union Area(g, b, c)
           /\ Area(g, a, b) \intersect Area(g, b, c) = {}
  <1>1. Ticks(g, a, c) = Ticks(g, a, b) \union Ticks(g, b, c)
    BY DEF Ticks
  <1>2. Ticks(g, a, b) \intersect Ticks(g, b, c) = {}
    BY DEF Ticks
  <1>3. HeldIn(g, a, c) = HeldIn(g, a, b) \union HeldIn(g, b, c)
    BY <1>1 DEF HeldIn
  <1>4. Area(g, a, c) = Area(g, a, b) \union Area(g, b, c)
    BY <1>1 DEF Area
  <1>5. ASSUME NEW p \in Area(g, a, b), NEW q \in Area(g, b, c) PROVE p # q
    <2>1. p[1] \in Ticks(g, a, b) /\ q[1] \in Ticks(g, b, c)
      BY DEF Area
    <2> QED
      BY <1>2, <2>1
  <1> QED
    BY <1>1, <1>2, <1>3, <1>4, <1>5

(* While one value holds, the area is a rectangle.                         *)
LEMMA ConstantPart ==
    ASSUME NEW g \in Increase, g # <<>>, NEW a \in Int, NEW b \in Int, a <= b,
           LastTs(g) <= a
    PROVE  LET v == g[Len(g)].val IN
           /\ Ticks(g, a, b) = a..(b - 1)
           /\ Cardinality(Ticks(g, a, b)) = b - a
           /\ IsFiniteSet(Area(g, a, b))
           /\ Integral(g, a, b) = (b - a) * v
           /\ HeldIn(g, a, b) = IF a = b THEN {} ELSE {v}
  <1>1. PICK v \in Nat : v = g[Len(g)].val
    BY FirstFacts, BinAssumption
  <1>2. Ticks(g, a, b) = a..(b - 1)
    <2>1. \A t \in a..(b - 1) : t >= First(g)
      BY FirstFacts
    <2> QED
      BY <2>1 DEF Ticks
  <1>3. \A t \in a..(b - 1) : ValueAt(g, t) = v
    <2>1. ASSUME NEW t \in a..(b - 1) PROVE ValueAt(g, t) = v
      <3>1. t \in Int /\ LastTs(g) <= t
        BY FirstFacts
      <3> QED
        BY <1>1, <3>1, ValueLast
    <2> QED
      BY <2>1
  <1>4. IsFiniteSet(a..(b - 1)) /\ Cardinality(a..(b - 1)) = b - a
    BY Spans
  <1>5. Area(g, a, b) = (a..(b - 1)) \X (1..v)
    BY <1>2, <1>3 DEF Area
  <1>6. IsFiniteSet(1..v) /\ Cardinality(1..v) = v
    <2>1. IsFiniteSet(1..v) /\ Cardinality(1..v) = IF 1 > v THEN 0 ELSE v - 1 + 1
      BY FS_Interval
    <2> QED
      BY <2>1
  <1>7. IsFiniteSet(Area(g, a, b)) /\ Integral(g, a, b) = (b - a) * v
    BY <1>4, <1>5, <1>6, FS_Product, ZenonT(60) DEF Integral
  <1>8. HeldIn(g, a, b) = IF a = b THEN {} ELSE {v}
    <2>1. HeldIn(g, a, b) = {ValueAt(g, t) : t \in a..(b - 1)}
      BY <1>2 DEF HeldIn
    <2>2. a = b => a..(b - 1) = {}
      OBVIOUS
    <2>3. a # b => a \in a..(b - 1)
      OBVIOUS
    <2> QED
      BY <1>3, <2>1, <2>2, <2>3
  <1> QED
    BY <1>1, <1>2, <1>4, <1>7, <1>8

LEMMA AreaFinite ==
    ASSUME NEW g \in Increase, g # <<>>, NEW a \in Int, NEW b \in Int
    PROVE  IsFiniteSet(Area(g, a, b)) /\ Integral(g, a, b) \in Nat
  <1>1. PICK T : T = Ticks(g, a, b)
    OBVIOUS
  <1>2. IsFiniteSet(T)
    BY <1>1, TicksFinite
  <1>3. PICK f : f = [t \in T |-> {t} \X (1..ValueAt(g, t))]
    OBVIOUS
  <1>4. PICK C : C = {f[t] : t \in T}
    OBVIOUS
  <1>5. f \in Surjection(T, C)
    BY <1>3, <1>4 DEF Surjection
  <1>6. IsFiniteSet(C)
    BY <1>2, <1>5, FS_Surjection
  <1>7. \A t \in T : IsFiniteSet(f[t])
    <2>1. ASSUME NEW t \in T PROVE IsFiniteSet(f[t])
      <3>1. t \in Int /\ First(g) <= t
        BY <1>1, FirstFacts DEF Ticks
      <3>2. ValueAt(g, t) \in Nat
        BY <3>1, ValueType
      <3>3. IsFiniteSet(1..ValueAt(g, t))
        BY <3>2, FS_Interval
      <3>4. IsFiniteSet({t})
        BY FS_Singleton
      <3> QED
        BY <1>3, <3>3, <3>4, FS_Product
    <2> QED
      BY <2>1
  <1>8. IsFiniteSet(UNION C)
    BY <1>4, <1>6, <1>7, FS_UNION
  <1>9. UNION C = Area(g, a, b)
    BY <1>1, <1>3, <1>4 DEF Area
  <1> QED
    BY <1>8, <1>9, FS_CardinalityType DEF Integral

LEMMA DisjointCard ==
    ASSUME NEW U, NEW S, NEW T, IsFiniteSet(S), IsFiniteSet(T), U = S \union T,
           S \intersect T = {}
    PROVE  Cardinality(U) = Cardinality(S) + Cardinality(T)
  <1>1. Cardinality(S \union T) =
          Cardinality(S) + Cardinality(T) - Cardinality(S \intersect T)
    BY FS_Union
  <1>2. Cardinality(S \intersect T) = 0
    BY FS_EmptySet, Zenon
  <1>3. Cardinality(S) \in Nat /\ Cardinality(T) \in Nat
    BY FS_CardinalityType
  <1>4. Cardinality(U) = Cardinality(S \union T)
    BY Zenon
  <1> QED
    BY <1>1, <1>2, <1>3, <1>4

(* The time from b on, when the last value holds.                          *)
LEMMA Extend ==
    ASSUME NEW g \in Increase, g # <<>>, NEW a \in Int, NEW b \in Int, NEW c \in Int,
           a <= b, b <= c, LastTs(g) <= b
    PROVE  LET v == g[Len(g)].val IN
           /\ Cardinality(Ticks(g, a, c)) = Cardinality(Ticks(g, a, b)) + (c - b)
           /\ Integral(g, a, c) = Integral(g, a, b) + (c - b) * v
           /\ HeldIn(g, a, c) = HeldIn(g, a, b) \union (IF b = c THEN {} ELSE {v})
  <1>1. PICK v \in Nat : v = g[Len(g)].val
    BY FirstFacts, BinAssumption
  <1>2. /\ Ticks(g, a, c) = Ticks(g, a, b) \union Ticks(g, b, c)
        /\ Ticks(g, a, b) \intersect Ticks(g, b, c) = {}
        /\ HeldIn(g, a, c) = HeldIn(g, a, b) \union HeldIn(g, b, c)
        /\ Area(g, a, c) = Area(g, a, b) \union Area(g, b, c)
        /\ Area(g, a, b) \intersect Area(g, b, c) = {}
    BY TicksJoin
  <1>3. /\ Cardinality(Ticks(g, b, c)) = c - b
        /\ Integral(g, b, c) = (c - b) * v
        /\ HeldIn(g, b, c) = IF b = c THEN {} ELSE {v}
    BY <1>1, ConstantPart
  <1>4. /\ IsFiniteSet(Ticks(g, a, b)) /\ IsFiniteSet(Ticks(g, b, c))
        /\ IsFiniteSet(Area(g, a, b)) /\ IsFiniteSet(Area(g, b, c))
    BY TicksFinite, AreaFinite
  <1>6. Cardinality(Ticks(g, a, c)) = Cardinality(Ticks(g, a, b)) + (c - b)
    BY <1>2, <1>3, <1>4, DisjointCard
  <1>7. Integral(g, a, c) = Integral(g, a, b) + Integral(g, b, c)
    BY <1>2, <1>4, DisjointCard DEF Integral
  <1> QED
    BY <1>1, <1>2, <1>3, <1>6, <1>7

(* A later event does not change what was before it.                       *)
LEMMA Stable ==
    ASSUME NEW g \in Increase, g # <<>>, NEW e \in Events, LastTs(g) < e.ts,
           NEW a \in Int, NEW b \in Int, b <= e.ts
    PROVE  LET h == Append(g, e) IN
           /\ Ticks(h, a, b) = Ticks(g, a, b)
           /\ HeldIn(h, a, b) = HeldIn(g, a, b)
           /\ Integral(h, a, b) = Integral(g, a, b)
           /\ EventsIn(h, a, b) = EventsIn(g, a, b)
           /\ a < b /\ First(g) < b => ValueAt(h, b - 1) = ValueAt(g, b - 1)
  <1>1. PICK h : h = Append(g, e)
    OBVIOUS
  <1>2. /\ Len(g) \in Nat /\ Len(h) = Len(g) + 1 /\ First(h) = First(g)
        /\ \A i \in 1..Len(g) : h[i] = g[i]
        /\ h[Len(g) + 1] = e
    BY <1>1, AppendFacts
  <1>3. e.ts \in Int /\ First(g) \in Int
    BY EventFacts, FirstFacts
  <1>4. Ticks(h, a, b) = Ticks(g, a, b)
    BY <1>2 DEF Ticks
  <1>5. ASSUME NEW t \in Int, First(g) <= t, t < b
        PROVE  ValueAt(h, t) = ValueAt(g, t)
    <2>1. t < e.ts
      BY <1>3, <1>5
    <2> QED
      BY <1>1, <1>5, <2>1, ValueAppend
  <1>6. \A t \in Ticks(g, a, b) : ValueAt(h, t) = ValueAt(g, t)
    BY <1>3, <1>5 DEF Ticks
  <1>7. HeldIn(h, a, b) = HeldIn(g, a, b) /\ Area(h, a, b) = Area(g, a, b)
    BY <1>4, <1>6 DEF HeldIn, Area
  <1>8. EventsIn(h, a, b) = EventsIn(g, a, b)
    BY <1>2, <1>3 DEF EventsIn
  <1>9. a < b /\ First(g) < b => ValueAt(h, b - 1) = ValueAt(g, b - 1)
    BY <1>3, <1>5
  <1> QED
    BY <1>1, <1>4, <1>7, <1>8, <1>9 DEF Integral
-----------------------------------------------------------------------------
(* fill_until to the end of the bin, push_out_and_reset, and the jump to a *)
(* later bin.                                                              *)
LEMMA EventsAll ==
    ASSUME NEW g \in Increase, g # <<>>, NEW a \in Int, NEW b \in Int, NEW c \in Int,
           LastTs(g) < b, LastTs(g) < c
    PROVE  EventsIn(g, a, b) = EventsIn(g, a, c)
  BY FirstFacts DEF EventsIn

LEMMA FreshActive ==
    ASSUME NEW g \in Increase, g # <<>>, NEW b \in Actives,
           b.lst = g[Len(g)].val, LastTs(g) < b.beg, b.until = b.beg,
           b.min = b.lst, b.max = b.lst, b.cnt = 0, b.sum = 0, b.width = 0
    PROVE  Active(g, b)
  <1>1. b.beg \in Int /\ LastTs(g) \in Int /\ BinLen \in Nat \ {0} /\ b.lst \in Int
    <2>1. b.lst \in Vals /\ LastTs(g) \in Int
      BY FirstFacts
    <2>2. b.beg \in Nat
      BY DEF Actives
    <2>3. b.lst \in Int
      BY <2>1, ConstFacts, Zenon
    <2> QED
      BY <2>1, <2>2, <2>3, ConstFacts
  <1>2. EventsIn(g, b.beg, End(b)) = {}
    BY <1>1, FirstFacts DEF EventsIn
  <1>3. Ticks(g, b.beg, b.until) = {}
    BY <1>1 DEF Ticks
  <1>4. HeldIn(g, b.beg, b.until) = {} /\ Area(g, b.beg, b.until) = {}
    BY <1>3 DEF HeldIn, Area
  <1>5. Cardinality({}) = 0
    BY FS_EmptySet
  <1>6. Cardinality(EventsIn(g, b.beg, End(b))) = 0
    BY <1>2, <1>5
  <1>7. Integral(g, b.beg, b.until) = 0
    BY <1>4, <1>5 DEF Integral
  <1>8. Cardinality(Ticks(g, b.beg, b.until)) = 0
    BY <1>3, <1>5
  <1>9. /\ IsLeast(b.min, HeldIn(g, b.beg, b.until) \union {b.lst})
        /\ IsGreatest(b.max, HeldIn(g, b.beg, b.until) \union {b.lst})
    BY <1>1, <1>4 DEF IsLeast, IsGreatest
  <1>10. LastTs(g) < End(b)
    BY <1>1 DEF End
  <1> QED
    BY <1>1, <1>6, <1>7, <1>8, <1>9, <1>10 DEF Active

LEMMA FullBin ==
    ASSUME NEW g \in Increase, g # <<>>, NEW b \in Actives, Active(g, b)
    PROVE  LET full == FillUntil(b, End(b)) IN
           /\ Bin(full) \in Bins /\ BinMatches(g, Bin(full))
           /\ IsLeast(Bin(full).min, HeldIn(g, b.beg, b.beg + BinLen))
           /\ IsGreatest(Bin(full).max, HeldIn(g, b.beg, b.beg + BinLen))
           /\ Bin(full).beg = b.beg /\ Bin(full).end = b.beg + BinLen
           /\ First(g) < Bin(full).end
           /\ Reset(full) \in Actives /\ Active(g, Reset(full))
           /\ Reset(full).beg = End(b)
           /\ Reset(full).lst = b.lst /\ Reset(full).min = b.lst /\ Reset(full).max = b.lst
  <1>1. PICK v \in Nat : v = g[Len(g)].val /\ v \in Vals
    BY FirstFacts, ConstFacts
  <1>2. PICK full : full = FillUntil(b, End(b))
    OBVIOUS
  <1>3. /\ b.beg \in Nat /\ b.until \in Nat /\ b.width \in Nat /\ b.sum \in Nat
        /\ b.cnt \in Nat /\ BinLen \in Nat \ {0} /\ End(b) = b.beg + BinLen
        /\ b.lst = v
    BY <1>1, ConstFacts DEF Actives, End, Active
  <1>4. PICK c \in Nat : c = End(b)
    BY <1>3
  <1>5. LastTs(g) \in Int /\ First(g) \in Int /\ First(g) <= LastTs(g)
    BY FirstFacts
  <1>6. b.beg <= b.until /\ LastTs(g) <= b.until /\ b.until < c /\ LastTs(g) < c
    BY <1>3, <1>4, <1>5 DEF Active
  <1>7. /\ Cardinality(Ticks(g, b.beg, c)) = Cardinality(Ticks(g, b.beg, b.until)) + (c - b.until)
        /\ Integral(g, b.beg, c) = Integral(g, b.beg, b.until) + (c - b.until) * v
        /\ HeldIn(g, b.beg, c) = HeldIn(g, b.beg, b.until)
                                   \union (IF b.until = c THEN {} ELSE {v})
    <2>1. PICK a \in Int, u \in Int : a = b.beg /\ u = b.until
      BY <1>3
    <2>2. a <= u /\ u <= c /\ LastTs(g) <= u /\ c \in Int
      BY <1>3, <1>6, <2>1
    <2>3. /\ Cardinality(Ticks(g, a, c)) = Cardinality(Ticks(g, a, u)) + (c - u)
          /\ Integral(g, a, c) = Integral(g, a, u) + (c - u) * g[Len(g)].val
          /\ HeldIn(g, a, c) = HeldIn(g, a, u)
                                 \union (IF u = c THEN {} ELSE {g[Len(g)].val})
      BY <2>2, Extend
    <2> QED
      BY <1>1, <2>1, <2>3
  <1>8. HeldIn(g, b.beg, c) = HeldIn(g, b.beg, b.until) \union {b.lst}
    BY <1>3, <1>6, <1>7
  <1>9. HeldIn(g, b.beg, c) \subseteq Vals
    <2>1. ASSUME NEW t \in Ticks(g, b.beg, c) PROVE ValueAt(g, t) \in Vals
      <3>1. t \in Int /\ First(g) <= t
        BY <1>3, <1>4, <1>5 DEF Ticks
      <3> QED
        BY <3>1, ValueType
    <2> QED
      BY <2>1 DEF HeldIn
  <1>10. /\ IsLeast(b.min, HeldIn(g, b.beg, c)) /\ IsGreatest(b.max, HeldIn(g, b.beg, c))
    BY <1>8 DEF Active
  <1>11. /\ b.min = Min(HeldIn(g, b.beg, c)) /\ b.max = Max(HeldIn(g, b.beg, c))
         /\ b.min \in Vals /\ b.max \in Vals
    <2>0. \A x \in HeldIn(g, b.beg, c) : x \in Int
      BY <1>9, ConstFacts
    <2>1. HeldIn(g, b.beg, c) \in SUBSET Int
      BY <2>0
    <2> QED
      BY <1>9, <1>10, <2>1, MinIs, MaxIs DEF IsLeast, IsGreatest
  <1>12. ValueAt(g, c - 1) = v
    <2>1. c - 1 \in Int /\ LastTs(g) <= c - 1
      BY <1>5, <1>6
    <2> QED
      BY <1>1, <2>1, ValueLast
  <1>13. PICK d \in Nat : d = (c - b.until) * v
    <2>1. c - b.until \in Nat
      BY <1>3, <1>6
    <2> QED
      BY <2>1
  <1>42. PICK x \in Nat : x = c - b.until
    BY <1>3, <1>6
  <1>43. b.sum + d \in Nat /\ b.width + x \in Nat
    BY <1>3, SMTT(40)
  <1>40. PICK s \in Nat, w \in Nat : s = b.sum + d /\ w = b.width + (c - b.until)
    BY <1>42, <1>43
  <1>14. full = [b EXCEPT !.sum = s, !.width = w, !.until = c]
    BY <1>2, <1>3, <1>4, <1>13, <1>40 DEF FillUntil
  <1>15. /\ full.beg = b.beg /\ full.until = c /\ full.sum = s
         /\ full.width = w /\ full.cnt = b.cnt
         /\ full.min = b.min /\ full.max = b.max /\ full.lst = v
         /\ full \in Actives
    BY <1>3, <1>14 DEF Actives
  <1>16. End(full) = c
    BY <1>3, <1>4, <1>15 DEF End
  <1>17. /\ Bin(full) = [beg |-> b.beg, end |-> c, cnt |-> b.cnt, min |-> b.min,
                        max |-> b.max, sum |-> s,
                        width |-> w, lst |-> v]
         /\ Bin(full) \in Bins
    BY <1>1, <1>3, <1>11, <1>15, <1>16 DEF Bin, Bins
  <1>18. /\ b.sum = Integral(g, b.beg, b.until)
         /\ b.width = Cardinality(Ticks(g, b.beg, b.until))
         /\ b.cnt = Cardinality(EventsIn(g, b.beg, c))
    BY <1>4 DEF Active
  <1>41. s = Integral(g, b.beg, c) /\ w = Cardinality(Ticks(g, b.beg, c))
    BY <1>7, <1>13, <1>18, <1>40
  <1>19. BinMatches(g, Bin(full))
    BY <1>11, <1>12, <1>17, <1>18, <1>41 DEF BinMatches, CountsMatch
  <1>20. PICK r : r = Reset(full)
    OBVIOUS
  <1>21. r = [full EXCEPT !.beg = c, !.until = c, !.width = 0, !.sum = 0,
                          !.cnt = 0, !.min = v, !.max = v]
    BY <1>15, <1>16, <1>20 DEF Reset
  <1>22. /\ r \in Actives /\ r.beg = c /\ r.until = c /\ r.lst = v /\ r.min = v /\ r.max = v
         /\ r.cnt = 0 /\ r.sum = 0 /\ r.width = 0
    BY <1>1, <1>15, <1>21 DEF Actives, MaybeVals
  <1>23. Active(g, r)
    BY <1>1, <1>6, <1>22, FreshActive
  <1>24. First(g) < c
    BY <1>3, <1>5, <1>6
  <1>25. c = b.beg + BinLen
    BY <1>3, <1>4
  <1> QED
    BY <1>2, <1>3, <1>4, <1>10, <1>17, <1>19, <1>20, <1>22, <1>23, <1>24, <1>25

LEMMA JumpActive ==
    ASSUME NEW g \in Increase, g # <<>>, NEW b \in Actives, NEW ts \in Nat,
           b.lst = g[Len(g)].val, b.min = b.lst, b.max = b.lst,
           LastTs(g) < b.beg, b.beg % BinLen = 0, b.beg <= ts
    PROVE  /\ Jump(b, ts) \in Actives /\ Active(g, Jump(b, ts))
           /\ Jump(b, ts).lst = b.lst
           /\ Jump(b, ts).beg % BinLen = 0 /\ Jump(b, ts).beg <= ts
           /\ b.beg <= Jump(b, ts).beg
  <1>1. PICK j : j = Jump(b, ts)
    OBVIOUS
  <1>2. /\ BinLen \in Nat \ {0} /\ b.beg \in Nat /\ LastTs(g) \in Int
    BY ConstFacts, FirstFacts DEF Actives
  <1>3. /\ Floor(ts, BinLen) \in Int /\ Floor(ts, BinLen) <= ts
        /\ Floor(ts, BinLen) % BinLen = 0
        /\ b.beg <= Floor(ts, BinLen)
    <2>1. /\ Floor(ts, BinLen) \in Int /\ Floor(ts, BinLen) <= ts
          /\ Floor(ts, BinLen) % BinLen = 0
          /\ \A a \in Int : a % BinLen = 0 /\ a <= ts => a <= Floor(ts, BinLen)
      <3>1. ts \in Int
        OBVIOUS
      <3> QED
        BY <1>2, <3>1, FloorFacts
    <2> QED
      BY <1>2, <2>1
  <1>4. PICK f \in Nat : f = Floor(ts, BinLen)
    BY <1>2, <1>3
  <1>5. j = [b EXCEPT !.beg = f, !.until = f, !.width = 0, !.sum = 0, !.cnt = 0]
    BY <1>1, <1>4 DEF Jump
  <1>6. /\ j \in Actives /\ j.beg = f /\ j.until = f /\ j.lst = b.lst /\ j.min = b.min
        /\ j.max = b.max /\ j.cnt = 0 /\ j.sum = 0 /\ j.width = 0
    BY <1>5 DEF Actives
  <1>7. LastTs(g) < f
    BY <1>2, <1>3, <1>4
  <1>8. Active(g, j)
    BY <1>6, <1>7, FreshActive
  <1> QED
    BY <1>1, <1>3, <1>4, <1>6, <1>8

(* The first event of all.                                                 *)
LEMMA FirstActive ==
    ASSUME NEW b \in Actives, Blank(b), NEW e \in Events, e.ts < End(b)
    PROVE  LET c == FirstEvent(b, e) IN
           /\ c \in Actives /\ c.beg = b.beg /\ Active(Append(<<>>, e), c)
  <1>1. PICK g : g = Append(<<>>, e)
    OBVIOUS
  <1>2. <<>> \in Increase
    BY EmptySeq DEF Increase, Increasing
  <1>3. /\ g \in Increase /\ g # <<>> /\ Len(g) = 1 /\ g[1] = e /\ LastTs(g) = e.ts
        /\ First(g) = e.ts
    <2>1. PICK z \in Increase : z = <<>>
      BY <1>2
    <2>2. z # <<>> => LastTs(z) < e.ts
      BY <2>1
    <2>3. /\ Append(z, e) \in Increase /\ Append(z, e) # <<>>
          /\ Len(Append(z, e)) = Len(z) + 1
          /\ Append(z, e)[Len(z) + 1] = e /\ LastTs(Append(z, e)) = e.ts
          /\ z = <<>> => First(Append(z, e)) = e.ts
      BY <2>2, AppendFacts
    <2>4. Len(z) + 1 = 1 /\ Append(z, e) = g
      BY <1>1, <2>1
    <2>5. z = <<>>
      BY <2>1
    <2> HIDE <2>1
    <2>6. /\ g \in Increase /\ g # <<>> /\ Len(g) = Len(z) + 1 /\ g[Len(z) + 1] = e
          /\ LastTs(g) = e.ts /\ First(g) = e.ts
      BY <2>3, <2>4, <2>5, Zenon
    <2> QED
      BY <2>4, <2>6, Zenon
  <1>4. /\ e.ts \in Int /\ e.val \in Vals /\ e.val \in Int /\ e.val \in Nat
        /\ BinLen \in Nat \ {0} /\ b.beg \in Nat /\ End(b) = b.beg + BinLen
    BY EventFacts, ConstFacts DEF Actives, End
  <1>5. PICK c : c = FirstEvent(b, e)
    OBVIOUS
  <1>6. PICK u \in Nat, n \in Nat : /\ u = IF e.ts < b.beg THEN b.beg ELSE e.ts
                                    /\ n = IF e.ts < b.beg THEN 0 ELSE 1
    <2>1. (IF e.ts < b.beg THEN b.beg ELSE e.ts) \in Nat
      BY <1>4
    <2>2. (IF e.ts < b.beg THEN 0 ELSE 1) \in Nat
      OBVIOUS
    <2> QED
      BY <2>1, <2>2
  <1>7. c = [b EXCEPT !.lst = e.val, !.min = e.val, !.max = e.val, !.cnt = n, !.until = u]
    BY <1>4, <1>5, <1>6 DEF FirstEvent, Blank, Actives
  <1>8. /\ c \in Actives /\ c.beg = b.beg /\ c.until = u /\ c.lst = e.val /\ c.min = e.val
        /\ c.max = e.val /\ c.cnt = n /\ c.sum = 0 /\ c.width = 0 /\ End(c) = End(b)
    BY <1>4, <1>7 DEF Actives, MaybeVals, Blank, End
  <1>9. CASE e.ts < b.beg
    <2>1. u = b.beg /\ n = 0
      BY <1>6, <1>9
    <2> QED
      BY <1>1, <1>3, <1>5, <1>8, <1>9, <2>1, FreshActive
  <1>10. CASE ~(e.ts < b.beg)
    <2>1. u = e.ts /\ n = 1 /\ b.beg <= u
      BY <1>4, <1>6, <1>10
    <2>2. EventsIn(g, b.beg, End(c)) = {1}
      BY <1>3, <1>4, <1>8, <2>1 DEF EventsIn
    <2>3. Cardinality({1}) = 1 /\ Cardinality({}) = 0
      BY FS_Singleton, FS_EmptySet
    <2>4. Ticks(g, b.beg, u) = {}
      BY <1>3, <1>4, <2>1 DEF Ticks
    <2>5. HeldIn(g, b.beg, u) = {} /\ Area(g, b.beg, u) = {}
      BY <2>4 DEF HeldIn, Area
    <2>6. /\ IsLeast(e.val, HeldIn(g, b.beg, u) \union {e.val})
          /\ IsGreatest(e.val, HeldIn(g, b.beg, u) \union {e.val})
      BY <1>4, <2>5 DEF IsLeast, IsGreatest
    <2>7. Cardinality(EventsIn(g, b.beg, End(c))) = 1
      BY <2>2, <2>3
    <2>8. Integral(g, b.beg, u) = 0 /\ Cardinality(Ticks(g, b.beg, u)) = 0
      BY <2>3, <2>4, <2>5 DEF Integral
    <2>9. u = IF LastTs(g) <= b.beg THEN b.beg ELSE LastTs(g)
      BY <1>3, <1>4, <2>1
    <2>10. Active(g, c)
      BY <1>3, <1>8, <2>1, <2>6, <2>7, <2>8, <2>9 DEF Active
    <2> QED
      BY <1>1, <1>5, <1>8, <2>10
  <1> QED
    BY <1>9, <1>10

(* One more event in the active bin.                                       *)
LEMMA EventsMore ==
    ASSUME NEW g \in Increase, g # <<>>, NEW e \in Events, LastTs(g) < e.ts,
           NEW a \in Int, NEW b \in Int, a <= e.ts, e.ts < b
    PROVE  /\ Cardinality(EventsIn(g, a, b)) \in Nat
           /\ Cardinality(EventsIn(Append(g, e), a, b)) = Cardinality(EventsIn(g, a, b)) + 1
  <1>1. PICK h : h = Append(g, e)
    OBVIOUS
  <1>2. /\ Len(g) \in Nat /\ Len(h) = Len(g) + 1
        /\ \A i \in 1..Len(g) : h[i] = g[i]
        /\ h[Len(g) + 1] = e
    BY <1>1, AppendFacts
  <1>3. EventsIn(h, a, b) = EventsIn(g, a, b) \union {Len(g) + 1}
    BY <1>2 DEF EventsIn
  <1>4. Len(g) + 1 \notin EventsIn(g, a, b)
    BY <1>2 DEF EventsIn
  <1>5. IsFiniteSet(EventsIn(g, a, b))
    <2>1. EventsIn(g, a, b) \subseteq 1..Len(g)
      BY DEF EventsIn
    <2>2. IsFiniteSet(1..Len(g))
      BY <1>2, FS_Interval
    <2> QED
      BY <2>1, <2>2, FS_Subset
  <1>6. Cardinality(EventsIn(g, a, b)) \in Nat
    BY <1>5, FS_CardinalityType
  <1>7. Cardinality(EventsIn(g, a, b) \union {Len(g) + 1}) = Cardinality(EventsIn(g, a, b)) + 1
    BY <1>4, <1>5, FS_AddElement
  <1> QED
    BY <1>1, <1>3, <1>6, <1>7

LEMMA WithLstActive ==
    ASSUME NEW g \in Increase, g # <<>>, NEW b \in Actives, Active(g, b),
           NEW e \in Events, LastTs(g) < e.ts, b.beg <= e.ts, e.ts < End(b)
    PROVE  LET c == WithLst(b, e) IN
           /\ c \in Actives /\ c.beg = b.beg /\ Active(Append(g, e), c)
  <1>1. PICK h : h = Append(g, e)
    OBVIOUS
  <1>2. /\ h \in Increase /\ h # <<>> /\ Len(g) \in Nat /\ Len(h) = Len(g) + 1
        /\ h[Len(g) + 1] = e /\ LastTs(h) = e.ts
    BY <1>1, AppendFacts
  <1>3. /\ e.ts \in Int /\ e.val \in Vals /\ e.val \in Int /\ e.val \in Nat
        /\ BinLen \in Nat \ {0} /\ b.beg \in Nat /\ b.until \in Nat /\ b.sum \in Nat
        /\ b.width \in Nat /\ b.cnt \in Nat /\ End(b) = b.beg + BinLen
    BY EventFacts, ConstFacts DEF Actives, End
  <1>4. PICK t \in Nat : t = e.ts
    BY <1>3
  <1>5. PICK v \in Nat : v = g[Len(g)].val /\ v \in Vals /\ v = b.lst
    BY FirstFacts, ConstFacts DEF Active
  <1>6. LastTs(g) \in Int
    BY FirstFacts
  <1>7. PICK c : c = WithLst(b, e)
    OBVIOUS
  <1>8. /\ b.cnt + 1 = Cardinality(EventsIn(h, b.beg, End(b)))
    BY <1>1, <1>3, EventsMore DEF Active
  <1>20. b.cnt + 1 \in Nat
    BY <1>3
  <1>21. PICK n \in Nat : n = b.cnt + 1
    BY <1>20
  <1>9. CASE t = b.beg
    <2>1. c = [b EXCEPT !.min = e.val, !.max = e.val, !.lst = e.val, !.cnt = n]
      BY <1>4, <1>7, <1>9, <1>21 DEF WithLst
    <2>2. b.until = b.beg
      BY <1>3, <1>4, <1>6, <1>9 DEF Active
    <2>3. /\ c \in Actives /\ c.beg = b.beg /\ c.until = b.beg /\ c.lst = e.val
          /\ c.min = e.val /\ c.max = e.val /\ c.cnt = n /\ c.sum = b.sum
          /\ c.width = b.width /\ End(c) = End(b)
      BY <1>3, <2>1, <2>2 DEF Actives, MaybeVals, End
    <2>4. \A q : Ticks(q, b.beg, b.beg) = {}
      BY <1>3 DEF Ticks
    <2>5. \A q : HeldIn(q, b.beg, b.beg) = {} /\ Area(q, b.beg, b.beg) = {}
      BY <2>4 DEF HeldIn, Area
    <2>6. /\ IsLeast(e.val, HeldIn(h, b.beg, b.beg) \union {e.val})
          /\ IsGreatest(e.val, HeldIn(h, b.beg, b.beg) \union {e.val})
      BY <1>3, <2>5 DEF IsLeast, IsGreatest
    <2>7. b.sum = Integral(h, b.beg, b.beg)
      BY <2>2, <2>5 DEF Active, Integral
    <2>8. b.width = Cardinality(Ticks(h, b.beg, b.beg))
      BY <2>2, <2>4 DEF Active
    <2>9. Active(h, c)
      BY <1>2, <1>4, <1>8, <1>9, <1>21, <2>3, <2>6, <2>7, <2>8 DEF Active
    <2> QED
      BY <1>1, <1>7, <2>3, <2>9
  <1>10. CASE t # b.beg
    <2>1. /\ b.beg <= b.until /\ b.until < t /\ LastTs(g) <= b.until
      BY <1>3, <1>4, <1>6, <1>10 DEF Active
    <2>2. PICK a \in Int, u \in Int : a = b.beg /\ u = b.until
      BY <1>3
    <2>3. a <= u /\ u <= t /\ u # t /\ LastTs(g) <= u /\ t \in Int
      BY <2>1, <2>2
    <2>4. /\ Cardinality(Ticks(g, a, t)) = Cardinality(Ticks(g, a, u)) + (t - u)
          /\ Integral(g, a, t) = Integral(g, a, u) + (t - u) * g[Len(g)].val
          /\ HeldIn(g, a, t) = HeldIn(g, a, u)
                                 \union (IF u = t THEN {} ELSE {g[Len(g)].val})
      BY <2>3, Extend
    <2>5. /\ Ticks(h, a, t) = Ticks(g, a, t) /\ HeldIn(h, a, t) = HeldIn(g, a, t)
          /\ Integral(h, a, t) = Integral(g, a, t)
      <3>1. t <= e.ts
        BY <1>4
      <3> QED
        BY <1>1, <2>3, <3>1, Stable
    <2>6. HeldIn(h, a, t) = HeldIn(g, a, u) \union {v}
      BY <1>5, <2>3, <2>4, <2>5
    <2>7. HeldIn(h, a, t) \subseteq Int
      <3>1. ASSUME NEW x \in Ticks(h, a, t) PROVE ValueAt(h, x) \in Int
        <4>1. x \in Int /\ First(h) <= x
          BY <1>2, FirstFacts DEF Ticks
        <4>2. ValueAt(h, x) \in Nat
          BY <1>2, <4>1, ValueType
        <4> QED
          BY <4>2
      <3> QED
        BY <3>1 DEF HeldIn
    <2>8. IsLeast(b.min, HeldIn(h, a, t)) /\ IsGreatest(b.max, HeldIn(h, a, t))
      BY <1>5, <2>2, <2>6 DEF Active
    <2>9. PICK p : p = Min({b.min, e.val})
      OBVIOUS
    <2>10. PICK q : q = Max({b.max, e.val})
      OBVIOUS
    <2>11. b.min \in Int /\ b.max \in Int /\ b.min \in MaybeVals /\ b.max \in MaybeVals
      BY <2>7, <2>8 DEF IsLeast, IsGreatest, Actives
    <2>12. p = IF b.min <= e.val THEN b.min ELSE e.val
      <3>1. IsLeast(IF b.min <= e.val THEN b.min ELSE e.val, {b.min, e.val})
        BY <1>3, <2>11 DEF IsLeast
      <3> QED
        BY <1>3, <2>9, <2>11, <3>1, MinIs
    <2>13. q = IF b.max >= e.val THEN b.max ELSE e.val
      <3>1. IsGreatest(IF b.max >= e.val THEN b.max ELSE e.val, {b.max, e.val})
        BY <1>3, <2>11 DEF IsGreatest
      <3> QED
        BY <1>3, <2>10, <2>11, <3>1, MaxIs
    <2>14. IsLeast(p, HeldIn(h, a, t) \union {e.val})
      BY <1>3, <2>7, <2>8, <2>11, <2>12 DEF IsLeast
    <2>15. IsGreatest(q, HeldIn(h, a, t) \union {e.val})
      BY <1>3, <2>7, <2>8, <2>11, <2>13 DEF IsGreatest
    <2>16. p \in MaybeVals /\ q \in MaybeVals
      BY <1>3, <2>11, <2>12, <2>13 DEF MaybeVals
    <2>17. PICK x \in Nat : x = t - b.until
      BY <1>3, <2>1
    <2>18. PICK s \in Nat, w \in Nat : s = b.sum + x * v /\ w = b.width + x
      <3>1. PICK y \in Nat : y = x * v
        OBVIOUS
      <3>2. b.sum + y \in Nat /\ b.width + x \in Nat
        BY <1>3, SMTT(40)
      <3> QED
        BY <3>1, <3>2
    <2>19. c = [b EXCEPT !.sum = s, !.width = w, !.until = t, !.min = p, !.max = q,
                         !.lst = e.val, !.cnt = n]
      <3>1. FillUntil(b, e.ts) = [b EXCEPT !.sum = s, !.width = w, !.until = t]
        BY <1>3, <1>4, <1>5, <2>17, <2>18 DEF FillUntil
      <3>2. c = [FillUntil(b, e.ts) EXCEPT
                   !.min = Min({@, e.val}), !.max = Max({@, e.val}),
                   !.lst = e.val, !.cnt = @ + 1]
        BY <1>4, <1>7, <1>10 DEF WithLst
      <3> QED
        BY <1>21, <2>9, <2>10, <3>1, <3>2 DEF Actives
    <2>20. /\ c \in Actives /\ c.beg = b.beg /\ c.until = t /\ c.lst = e.val
           /\ c.min = p /\ c.max = q /\ c.cnt = n /\ c.sum = s
           /\ c.width = w /\ End(c) = End(b)
      BY <1>3, <2>16, <2>19 DEF Actives, MaybeVals, End
    <2>21. s = Integral(h, a, t) /\ w = Cardinality(Ticks(h, a, t))
      BY <1>5, <2>2, <2>4, <2>5, <2>17, <2>18 DEF Active
    <2>22. t = IF LastTs(h) <= b.beg THEN b.beg ELSE LastTs(h)
      BY <1>2, <1>3, <1>4, <2>1
    <2>23. Active(h, c)
      BY <1>2, <1>8, <1>21, <2>2, <2>14, <2>15, <2>20, <2>21, <2>22 DEF Active
    <2> QED
      BY <1>1, <1>7, <2>20, <2>23
  <1> QED
    BY <1>9, <1>10
-----------------------------------------------------------------------------
(* The events ingested and those in the buffer.                            *)
LEMMA PrefixOf ==
    ASSUME NEW g \in Seq(Events), NEW h \in Seq(Events)
    PROVE  SubSeq(g \o h, 1, Len(g \o h) - Len(h)) = g
  <1>1. PICK s : s = g \o h
    OBVIOUS
  <1>2. /\ s \in Seq(Events) /\ Len(s) = Len(g) + Len(h) /\ Len(g) \in Nat /\ Len(h) \in Nat
        /\ \A i \in 1..Len(g) + Len(h) : s[i] = IF i <= Len(g) THEN g[i] ELSE h[i - Len(g)]
    BY <1>1, ConcatProperties, LenProperties
  <1>3. Len(s) - Len(h) = Len(g)
    BY <1>2
  <1>4. \A i \in 1..Len(g) : s[i] = g[i] /\ s[i] \in Events
    BY <1>2
  <1>5. PICK n \in Int : n = Len(g)
    BY <1>2
  <1>6. PICK p : p = SubSeq(s, 1, n)
    OBVIOUS
  <1>7. \A i \in 1..n : s[i] \in Events
    BY <1>4, <1>5
  <1>8. /\ SubSeq(s, 1, n) \in Seq(Events)
        /\ Len(SubSeq(s, 1, n)) = IF 1 <= n THEN n - 1 + 1 ELSE 0
        /\ \A i \in 1..n - 1 + 1 : SubSeq(s, 1, n)[i] = s[1 + i - 1]
    BY <1>7, SubSeqProperties
  <1>9. p \in Seq(Events) /\ Len(p) = Len(g) /\ \A i \in 1..Len(p) : p[i] = g[i]
    BY <1>2, <1>4, <1>5, <1>6, <1>8
  <1>10. p = g
    BY <1>9, SeqEqual
  <1> QED
    BY <1>1, <1>3, <1>5, <1>6, <1>10

LEMMA IncreaseConcat ==
    ASSUME NEW g \in Seq(Events), NEW h \in Seq(Events)
    PROVE  /\ g \o h \in Increase => /\ g \in Increase /\ h \in Increase
                                     /\ g # <<>> /\ h # <<>> => LastTs(g) < Head(h).ts
           /\ g \in Increase /\ h \in Increase
                /\ (g # <<>> /\ h # <<>> => LastTs(g) < Head(h).ts) => g \o h \in Increase
  <1>1. PICK s : s = g \o h
    OBVIOUS
  <1>2. PICK m \in Nat, n \in Nat : m = Len(g) /\ n = Len(h)
    BY LenProperties
  <1>3. /\ s \in Seq(Events) /\ Len(s) = m + n
        /\ \A i \in 1..m + n : s[i] = IF i <= m THEN g[i] ELSE h[i - m]
    BY <1>1, <1>2, ConcatProperties
  <1>4. /\ \A i \in 1..m : s[i] = g[i] /\ i \in 1..Len(s)
        /\ \A i \in 1..n : s[m + i] = h[i] /\ m + i \in 1..Len(s)
    <2>1. ASSUME NEW i \in 1..n PROVE s[m + i] = h[i] /\ m + i \in 1..Len(s)
      <3>1. m + i \in 1..m + n /\ ~(m + i <= m) /\ (m + i) - m = i
        BY <1>2
      <3> QED
        BY <1>3, <3>1
    <2> QED
      BY <1>2, <1>3, <2>1
  <1>5. h # <<>> => Head(h) = h[1] /\ 1 \in 1..n
    BY <1>2
  <1>6. g # <<>> => m \in 1..m
    BY <1>2
  <1>7. ASSUME s \in Increase
        PROVE  /\ g \in Increase /\ h \in Increase
               /\ g # <<>> /\ h # <<>> => LastTs(g) < Head(h).ts
    <2>1. \A i, j \in 1..Len(s) : i < j => s[i].ts < s[j].ts
      BY <1>7 DEF Increase, Increasing
    <2>2. \A i, j \in 1..m : i < j => g[i].ts < g[j].ts
      BY <1>4, <2>1
    <2>3. ASSUME NEW i \in 1..n, NEW j \in 1..n, i < j PROVE h[i].ts < h[j].ts
      <3>1. m + i < m + j
        BY <1>2, <2>3
      <3> QED
        BY <1>4, <2>1, <3>1
    <2>4. ASSUME g # <<>>, h # <<>> PROVE LastTs(g) < Head(h).ts
      <3>1. m < m + 1
        BY <1>2
      <3>2. m \in 1..Len(s) /\ m + 1 \in 1..Len(s) /\ s[m] = g[m] /\ s[m + 1] = h[1]
        BY <1>4, <1>5, <1>6, <2>4
      <3> QED
        BY <1>2, <1>5, <2>1, <2>4, <3>1, <3>2 DEF LastTs
    <2> QED
      BY <1>2, <2>2, <2>3, <2>4 DEF Increase, Increasing
  <1>8. ASSUME g \in Increase, h \in Increase,
               g # <<>> /\ h # <<>> => LastTs(g) < Head(h).ts
        PROVE  s \in Increase
    <2>1. ASSUME NEW i \in 1..Len(s), NEW j \in 1..Len(s), i < j
          PROVE  s[i].ts < s[j].ts
      <3>1. CASE j <= m
        <4>1. i \in 1..m /\ j \in 1..m
          BY <1>2, <1>3, <2>1, <3>1
        <4> QED
          BY <1>2, <1>4, <1>8, <2>1, <4>1 DEF Increase, Increasing
      <3>2. CASE m < i
        <4>1. PICK k \in 1..n, l \in 1..n : i = m + k /\ j = m + l /\ k < l
          <5>1. i - m \in 1..n /\ j - m \in 1..n /\ i = m + (i - m) /\ j = m + (j - m)
                /\ i - m < j - m
            BY <1>2, <1>3, <2>1, <3>2
          <5> QED
            BY <5>1
        <4> QED
          BY <1>2, <1>4, <1>8, <4>1 DEF Increase, Increasing
      <3>3. CASE i <= m /\ m < j
        <4>1. PICK l \in 1..n : j = m + l
          <5>1. j - m \in 1..n /\ j = m + (j - m)
            BY <1>2, <1>3, <2>1, <3>3
          <5> QED
            BY <5>1
        <4>2. i \in 1..m /\ g # <<>> /\ h # <<>>
          BY <1>2, <1>3, <3>3
        <4>3. s[i].ts <= LastTs(g) /\ s[i].ts \in Int /\ LastTs(g) \in Int
          BY <1>2, <1>4, <1>8, <4>2, FirstFacts
        <4>4. Head(h).ts <= s[j].ts /\ Head(h).ts \in Int /\ s[j].ts \in Int
          <5>1. First(h) <= h[l].ts /\ First(h) \in Int /\ h[l].ts \in Int
            BY <1>2, <1>8, <4>2, FirstFacts
          <5> QED
            BY <1>4, <4>1, <5>1 DEF First
        <4> QED
          BY <1>8, <4>2, <4>3, <4>4
      <3> QED
        BY <1>2, <1>3, <2>1, <3>1, <3>2, <3>3
    <2> QED
      BY <1>3, <2>1 DEF Increase, Increasing
  <1> QED
    BY <1>1, <1>7, <1>8

LEMMA SplitFacts ==
    ASSUME StateTypes
    PROVE  /\ Ingested \in Increase /\ seen = Ingested \o evs
           /\ evs = <<>> => Ingested = seen
           /\ evs # <<>> =>
                /\ Head(evs) \in Events /\ Tail(evs) \in Seq(Events)
                /\ evs = <<Head(evs)>> \o Tail(evs)
                /\ Ingested # <<>> => LastTs(Ingested) < Head(evs).ts
  <1>1. PICK g \in Seq(Events) : seen = g \o evs
    BY DEF StateTypes
  <1>2. evs \in Seq(Events) /\ seen \in Increase
    BY DEF StateTypes
  <1>3. Ingested = g
    BY <1>1, <1>2, PrefixOf DEF Ingested
  <1>4. g \in Increase /\ (g # <<>> /\ evs # <<>> => LastTs(g) < Head(evs).ts)
    BY <1>1, <1>2, IncreaseConcat
  <1>5. evs = <<>> => g \o evs = g
    BY ConcatEmptySeq
  <1>6. evs # <<>> => /\ Head(evs) \in Events /\ Tail(evs) \in Seq(Events)
                      /\ evs = <<Head(evs)>> \o Tail(evs)
    BY <1>2
  <1> QED
    BY <1>1, <1>3, <1>4, <1>5, <1>6
-----------------------------------------------------------------------------
(* The range is one of whole bins.                                         *)
LEMMA ModMultiple ==
    ASSUME NEW x \in Int, NEW m \in Nat \ {0}, NEW n \in Nat \ {0}, x % (m * n) = 0
    PROVE  x % n = 0
  <1>1. PICK k \in Nat \ {0} : k = m * n
    OBVIOUS
  <1>2. PICK q \in Int : x = q * k
    <2>1. x = (x \div k) * k
      BY <1>1
    <2> QED
      BY <2>1
  <1>3. PICK r \in Int : r = q * m
    OBVIOUS
  <1>4. x = r * n
    BY <1>1, <1>2, <1>3
  <1>5. (r * n) % n = 0
    OBVIOUS
  <1> QED
    BY <1>4, <1>5

LEMMA RangeFacts ==
    /\ RangeBeg % BinLen = 0 /\ RangeEnd % BinLen = 0
    /\ RangeBeg \in Int /\ RangeEnd \in Int /\ RangeBeg < RangeEnd
  <1>1. BinLen \in Nat \ {0} /\ Coarse \in Nat \ {0} /\ RangeBeg \in Int /\ RangeEnd \in Int
    BY BinAssumption
  <1>2. RangeBeg % (Coarse * BinLen) = 0 /\ RangeEnd % (Coarse * BinLen) = 0
    BY BinAssumption DEF CoarseLen
  <1>3. RangeBeg % BinLen = 0
    BY <1>1, <1>2, ModMultiple
  <1>4. RangeEnd % BinLen = 0
    BY <1>1, <1>2, ModMultiple
  <1> QED
    BY <1>1, <1>3, <1>4, BinAssumption

(* Bins that were made stay as they are.                                   *)
LEMMA MadeLater ==
    ASSUME NEW g, NEW b \in Bins, NEW a \in Int, NEW c \in Int, Made(g, b, a), a <= c
    PROVE  Made(g, b, c)
  BY DEF Made, Bins

LEMMA MadeAppend ==
    ASSUME NEW g \in Increase, g # <<>>, NEW e \in Events, LastTs(g) < e.ts,
           NEW b \in Bins, NEW a \in Int, Made(g, b, a), a <= e.ts
    PROVE  Made(Append(g, e), b, a)
  <1>1. PICK h : h = Append(g, e)
    OBVIOUS
  <1>2. PICK p \in Int, q \in Int : p = b.beg /\ q = b.end /\ p < q /\ q <= a
    <2>1. b.beg \in Nat /\ b.end \in Nat /\ BinLen \in Nat \ {0}
      BY ConstFacts DEF Bins
    <2> QED
      BY <2>1 DEF Made
  <1>3. e.ts \in Int
    BY EventFacts
  <1>4. q <= e.ts /\ First(g) < q
    BY <1>2, <1>3 DEF Made
  <1>5. /\ Ticks(h, p, q) = Ticks(g, p, q)
        /\ HeldIn(h, p, q) = HeldIn(g, p, q)
        /\ Integral(h, p, q) = Integral(g, p, q)
        /\ EventsIn(h, p, q) = EventsIn(g, p, q)
        /\ ValueAt(h, q - 1) = ValueAt(g, q - 1)
    BY <1>1, <1>2, <1>4, Stable
  <1>6. First(h) = First(g)
    BY <1>1, AppendFacts
  <1>7. BinMatches(h, b)
    BY <1>2, <1>5 DEF Made, BinMatches, CountsMatch
  <1>8. IsLeast(b.min, HeldIn(h, b.beg, b.end)) /\ IsGreatest(b.max, HeldIn(h, b.beg, b.end))
    BY <1>2, <1>5 DEF Made
  <1> QED
    BY <1>1, <1>6, <1>7, <1>8 DEF Made

(* A round of cycle_01.                                                    *)
LEMMA PutBinKeeps ==
    ASSUME IInv, Ingested # <<>>, NEW ts \in Nat, End(bn) <= ts, ts <= RangeEnd,
           Len(out) <= OutMax, PutBin(ts)
    PROVE  /\ bn' \in Actives /\ Active(Ingested, bn')
           /\ bn'.beg % BinLen = 0 /\ bn'.beg <= RangeEnd /\ bn.beg <= bn'.beg
           /\ bn'.beg <= ts /\ bn'.beg \in Nat
           /\ cnt_zero => bn'.beg = bn.beg + BinLen
           /\ out' \in Seq(Bins) /\ Len(out') = Len(out) + 1 /\ Len(out') <= OutMax + 1
           /\ \A i \in 1..Len(out') : Made(Ingested, out'[i], bn'.beg)
           /\ out'[Len(out) + 1].beg = bn.beg
           /\ \A i \in 1..Len(out) : out'[i] = out[i]
  <1>1. PICK g \in Increase : g = Ingested
    BY SplitFacts DEF IInv, Core
  <1>2. g # <<>> /\ bn \in Actives /\ Active(g, bn) /\ out \in Seq(Bins)
        /\ \A i \in 1..Len(out) : Made(g, out[i], bn.beg)
    BY <1>1 DEF IInv, Core, StateTypes, BinsInv
  <1>3. PICK full, r, b : full = FillUntil(bn, End(bn)) /\ r = Reset(full) /\ b = Bin(full)
    OBVIOUS
  <1>4. /\ b \in Bins /\ BinMatches(g, b) /\ b.beg = bn.beg /\ b.end = bn.beg + BinLen
        /\ First(g) < b.end /\ r \in Actives /\ Active(g, r) /\ r.beg = End(bn)
        /\ r.lst = bn.lst
        /\ IsLeast(b.min, HeldIn(g, bn.beg, bn.beg + BinLen))
        /\ IsGreatest(b.max, HeldIn(g, bn.beg, bn.beg + BinLen))
    BY <1>2, <1>3, FullBin
  <1>5. /\ BinLen \in Nat \ {0} /\ bn.beg \in Nat /\ End(bn) = bn.beg + BinLen
        /\ RangeEnd \in Int /\ OutMax \in Nat /\ LastTs(g) \in Int
    BY <1>2, ConstFacts, FirstFacts DEF Actives, End
  <1>6. bn.beg % BinLen = 0 /\ (bn.beg + BinLen) % BinLen = 0
    <2>1. PICK x \in Int : x = bn.beg /\ x % BinLen = 0
      BY <1>5 DEF IInv, Core, StateTypes
    <2> QED
      BY <1>5, <2>1, GridStep
  <1>7. LastTs(g) < r.beg
    BY <1>2, <1>4 DEF Active
  <1>8. /\ r.lst = g[Len(g)].val /\ r.min = r.lst /\ r.max = r.lst
    <2>1. r.min = bn.lst /\ r.max = bn.lst
      BY <1>2, <1>3, FullBin
    <2> QED
      BY <1>2, <1>4, <2>1 DEF Active
  <1>9. out' = Append(out, b) /\ bn' = IF cnt_zero THEN r ELSE Jump(r, ts)
    BY <1>3 DEF PutBin
  <1>10. /\ bn' \in Actives /\ Active(g, bn') /\ bn'.beg % BinLen = 0 /\ bn'.beg <= ts
         /\ End(bn) <= bn'.beg /\ bn'.beg \in Int
         /\ cnt_zero => bn'.beg = bn.beg + BinLen
    <2>1. CASE cnt_zero
      <3>1. bn' = r
        BY <1>9, <2>1, Zenon
      <3>2. /\ r \in Actives /\ Active(g, r) /\ r.beg = bn.beg + BinLen
            /\ r.beg % BinLen = 0 /\ r.beg <= ts /\ End(bn) <= r.beg /\ r.beg \in Int
        BY <1>4, <1>5, <1>6
      <3> QED
        BY <3>1, <3>2, Zenon
    <2>2. CASE ~cnt_zero
      <3>1. r.beg % BinLen = 0 /\ r.beg <= ts
        BY <1>4, <1>5, <1>6
      <3>2. /\ Jump(r, ts) \in Actives /\ Active(g, Jump(r, ts))
            /\ Jump(r, ts).beg % BinLen = 0 /\ Jump(r, ts).beg <= ts
            /\ r.beg <= Jump(r, ts).beg
        BY <1>2, <1>4, <1>7, <1>8, <3>1, JumpActive
      <3>3. Jump(r, ts).beg \in Int
        BY <3>2 DEF Actives
      <3> QED
        BY <1>4, <1>9, <2>2, <3>2, <3>3
    <2> QED
      BY <2>1, <2>2
  <1>11. Made(g, b, bn'.beg)
    BY <1>4, <1>5, <1>10 DEF Made
  <1>12. /\ out' \in Seq(Bins) /\ Len(out') = Len(out) + 1 /\ Len(out) \in Nat
         /\ out'[Len(out) + 1] = b /\ \A i \in 1..Len(out) : out'[i] = out[i]
    BY <1>2, <1>4, <1>9, AppendProperties
  <1>13. ASSUME NEW i \in 1..Len(out') PROVE Made(g, out'[i], bn'.beg)
    <2>1. CASE i = Len(out) + 1
      BY <1>11, <1>12, <2>1
    <2>2. CASE i \in 1..Len(out)
      <3>1. out'[i] \in Bins /\ out'[i] = out[i]
        BY <1>2, <1>12, <2>2
      <3>2. Made(g, out'[i], bn.beg)
        BY <1>2, <2>2, <3>1
      <3>3. bn.beg \in Int /\ bn'.beg \in Int /\ bn.beg <= bn'.beg
        BY <1>5, <1>10
      <3> QED
        BY <3>1, <3>2, <3>3, MadeLater
    <2> QED
      BY <1>12, <2>1, <2>2
  <1>14. bn'.beg \in Nat
    BY <1>10 DEF Actives
  <1>15. Len(out') <= OutMax + 1 /\ bn'.beg <= RangeEnd /\ bn.beg <= bn'.beg
    BY <1>5, <1>10, <1>12
  <1>16. out'[Len(out) + 1].beg = bn.beg
    BY <1>4, <1>12
  <1> QED
    BY <1>1, <1>10, <1>12, <1>13, <1>14, <1>15, <1>16, Zenon
-----------------------------------------------------------------------------
(* The steps.                                                              *)
LEMMA NoValFacts == NoVal \notin Vals /\ NoVal \in Int
  BY ConstFacts DEF NoVal

(* lst is set with the first event.                                        *)
LEMMA LstIsSet ==
    ASSUME IInv
    PROVE  bn.lst = NoVal <=> Ingested = <<>>
  <1>1. CASE Ingested = <<>>
    BY <1>1 DEF IInv, Core, BinsInv, Blank
  <1>2. CASE Ingested # <<>>
    <2>1. Ingested \in Increase
      BY SplitFacts DEF IInv, Core
    <2>2. bn.lst \in Vals
      BY <1>2, <2>1, FirstFacts DEF IInv, Core, BinsInv, Active
    <2> QED
      BY <1>2, <2>2, NoValFacts
  <1> QED
    BY <1>1, <1>2

LEMMA BlankJump ==
    ASSUME NEW b \in Actives, Blank(b), NEW ts \in Nat, b.beg % BinLen = 0, b.beg <= ts
    PROVE  /\ Jump(b, ts) \in Actives /\ Blank(Jump(b, ts))
           /\ Jump(b, ts).beg % BinLen = 0 /\ b.beg <= Jump(b, ts).beg
           /\ Jump(b, ts).beg <= ts
  <1>1. PICK j : j = Jump(b, ts)
    OBVIOUS
  <1>2. BinLen \in Nat \ {0} /\ b.beg \in Nat
    BY ConstFacts DEF Actives
  <1>3. /\ Floor(ts, BinLen) \in Int /\ Floor(ts, BinLen) <= ts
        /\ Floor(ts, BinLen) % BinLen = 0 /\ b.beg <= Floor(ts, BinLen)
    <2>1. /\ Floor(ts, BinLen) \in Int /\ Floor(ts, BinLen) <= ts
          /\ Floor(ts, BinLen) % BinLen = 0
          /\ \A a \in Int : a % BinLen = 0 /\ a <= ts => a <= Floor(ts, BinLen)
      <3>1. ts \in Int
        OBVIOUS
      <3> QED
        BY <1>2, <3>1, FloorFacts
    <2> QED
      BY <1>2, <2>1
  <1>4. PICK f \in Nat : f = Floor(ts, BinLen)
    BY <1>2, <1>3
  <1>5. j = [b EXCEPT !.beg = f, !.until = f, !.width = 0, !.sum = 0, !.cnt = 0]
    BY <1>1, <1>4 DEF Jump
  <1>6. j \in Actives /\ j.beg = f /\ Blank(j)
    BY <1>5 DEF Actives, Blank
  <1> QED
    BY <1>1, <1>3, <1>4, <1>6

LEMMA InitCore == ASSUME Init PROVE Core
  <1>1. <<>> \in Increase /\ <<>> \in Seq(Events) /\ <<>> \in Seq(Bins) /\ Len(<<>>) = 0
    BY EmptySeq DEF Increase, Increasing
  <1>2. \E g \in Seq(Events) : seen = g \o evs
    <2>1. <<>> \o <<>> = <<>>
      BY <1>1, ConcatEmptySeq
    <2> QED
      BY <1>1, <2>1 DEF Init
  <1>3. bn \in Actives
    BY ConstFacts DEF Init, Actives, MaybeVals
  <1>4. StateTypes
    <2>1. cnt_zero \in BOOLEAN /\ more \in BOOLEAN
      BY DEF Init
    <2> QED
      BY <1>1, <1>2, <1>3, <2>1, RangeFacts, ConstFacts DEF Init, StateTypes, Phases
  <1>5. Ingested = <<>>
    BY <1>4, SplitFacts DEF Init
  <1>6. BinsInv
    BY <1>5 DEF BinsInv, Init, Blank
  <1> QED
    BY <1>4, <1>6 DEF Core

LEMMA DataKeeps ==
    ASSUME IInv, NEW c \in Chunks, Data(c)
    PROVE  Core' /\ Ingested' = Ingested /\ evs = <<>> /\ Ingested = seen
  <1>1. phase = "Reading" /\ evs = <<>> /\ Ingested = seen /\ seen \in Increase
    BY SplitFacts DEF IInv, Core, StateTypes, Data
  <1>2. c \in Increase /\ c # <<>> /\ c \in Seq(Events)
    <2>1. PICK n \in 1..MaxChunk : c \in [1..n -> Events]
      BY DEF Chunks
    <2>2. n \in Nat /\ n # 0
      BY <2>1, BinAssumption
    <2>3. c \in Seq(Events) /\ Len(c) = n
      BY <2>1, <2>2
    <2> QED
      BY <2>2, <2>3 DEF Chunks, Increase
  <1>3. seen # <<>> => LastTs(seen) < Head(c).ts
    BY DEF Data, LastTs, Last
  <1>4. seen' = seen \o c /\ evs' = c /\ seen \in Seq(Events)
    BY <1>1 DEF Data, Increase
  <1>5. seen' \in Increase
    BY <1>1, <1>2, <1>3, <1>4, IncreaseConcat
  <1>6. Ingested' = seen
    BY <1>2, <1>4, PrefixOf DEF Ingested
  <1>7. StateTypes'
    <2>1. \E g \in Seq(Events) : seen' = g \o evs'
      BY <1>4
    <2>2. /\ phase' \in Phases /\ phase' = "Buffered"
          /\ UNCHANGED <<cnt_zero, bn, out, more, fine, coarse, nleft>>
      BY DEF Data, Phases
    <2> QED
      BY <1>2, <1>4, <1>5, <2>1, <2>2 DEF IInv, Core, StateTypes
  <1>8. BinsInv'
    <2>1. UNCHANGED <<bn, out, fine>>
      BY DEF Data
    <2> QED
      BY <1>1, <1>6, <2>1 DEF IInv, Core, BinsInv
  <1> QED
    BY <1>1, <1>6, <1>7, <1>8 DEF Core

LEMMA PutStep ==
    ASSUME IInv, Ingested # <<>>,
           UNCHANGED <<phase, cnt_zero, evs, more, fine, seen, nleft>>,
           bn' \in Actives, Active(Ingested, bn'),
           bn'.beg % BinLen = 0, bn'.beg <= RangeEnd, bn.beg <= bn'.beg,
           out' \in Seq(Bins), Len(out') <= OutMax + 1,
           \A i \in 1..Len(out') : Made(Ingested, out'[i], bn'.beg)
    PROVE  Core'
  <1>1. PICK g : g = Ingested
    OBVIOUS
  <1>2. Ingested' = g
    BY <1>1 DEF Ingested
  <1>3. /\ bn.beg \in Int /\ bn'.beg \in Int /\ RangeBeg \in Int /\ RangeBeg <= bn.beg
        /\ fine \in Seq(Bins)
    BY ConstFacts DEF IInv, Core, StateTypes, Actives
  <1>4. StateTypes'
    <2>1. RangeBeg <= bn'.beg
      BY <1>3
    <2> QED
      BY <2>1 DEF IInv, Core, StateTypes
  <1>5. ASSUME NEW i \in 1..Len(fine) PROVE Made(g, fine[i], bn'.beg)
    <2>1. fine[i] \in Bins
      BY <1>3
    <2>2. Made(g, fine[i], bn.beg)
      BY <1>1 DEF IInv, Core, BinsInv
    <2> QED
      BY <1>3, <2>1, <2>2, MadeLater
  <1>6. Active(g, bn') /\ g # <<>> /\ \A i \in 1..Len(out') : Made(g, out'[i], bn'.beg)
    BY <1>1
  <1>7. BinsInv'
    BY <1>2, <1>5, <1>6 DEF BinsInv
  <1> QED
    BY <1>4, <1>7 DEF Core

LEMMA IngestCycleKeeps ==
    ASSUME IInv, IngestCycle
    PROVE  /\ Core' /\ bn'.beg <= Head(evs).ts
           /\ Head(evs).ts \in Nat /\ End(bn) <= Head(evs).ts /\ Head(evs).ts <= RangeEnd
  <1>1. PICK g \in Increase : g = Ingested
    BY SplitFacts DEF IInv, Core
  <1>2. /\ UNCHANGED <<phase, cnt_zero, evs, more, fine, coarse, seen, nleft>>
        /\ evs # <<>> /\ Len(out) <= OutMax /\ End(bn) <= Head(evs).ts
        /\ IF bn.lst = NoVal THEN bn' = Jump(bn, Head(evs).ts) /\ UNCHANGED out
           ELSE PutBin(Head(evs).ts)
    <2>1. Head(evs).ts >= End(bn) => End(bn) <= Head(evs).ts
      OBVIOUS
    <2> QED
      BY <2>1 DEF IngestCycle
  <1>3. Ingested' = g
    BY <1>1, <1>2 DEF Ingested
  <1>4. Head(evs) \in Events
    BY <1>2, SplitFacts DEF IInv, Core
  <1>5. /\ bn \in Actives /\ bn.beg \in Nat /\ BinLen \in Nat \ {0} /\ RangeEnd \in Int
        /\ End(bn) = bn.beg + BinLen
    BY ConstFacts DEF IInv, Core, StateTypes, Actives, End
  <1>6. PICK ts \in Nat : ts = Head(evs).ts /\ End(bn) <= ts /\ ts <= RangeEnd /\ bn.beg <= ts
    <2>1. Head(evs).ts \in Int /\ Head(evs).ts < RangeEnd
      BY <1>4, EventFacts
    <2> QED
      BY <1>2, <1>5, <2>1
  <1>7. CASE g = <<>>
    <2>1. bn.lst = NoVal /\ Blank(bn) /\ out = <<>> /\ fine = <<>>
      BY <1>1, <1>7, LstIsSet DEF IInv, Core, BinsInv
    <2>2. bn' = Jump(bn, ts) /\ out' = out
      BY <1>2, <1>6, <2>1
    <2>3. bn.beg % BinLen = 0
      BY DEF IInv, Core, StateTypes
    <2>4. /\ bn' \in Actives /\ Blank(bn') /\ bn'.beg % BinLen = 0 /\ bn.beg <= bn'.beg
          /\ bn'.beg <= ts
      BY <1>5, <1>6, <2>1, <2>2, <2>3, BlankJump
    <2>5. bn'.beg \in Int /\ RangeBeg \in Int /\ RangeBeg <= bn.beg
      BY <2>4, ConstFacts DEF Actives, IInv, Core, StateTypes
    <2>6. bn'.beg <= RangeEnd /\ RangeBeg <= bn'.beg
      BY <1>5, <1>6, <2>4, <2>5
    <2>7. StateTypes'
      BY <1>2, <2>2, <2>4, <2>6 DEF IInv, Core, StateTypes
    <2>8. BinsInv'
      BY <1>2, <1>3, <1>7, <2>1, <2>2, <2>4 DEF BinsInv
    <2> QED
      BY <1>6, <2>4, <2>7, <2>8 DEF Core
  <1>8. CASE g # <<>>
    <2>1. bn.lst # NoVal
      BY <1>1, <1>8, LstIsSet
    <2>2. PutBin(ts)
      BY <1>2, <1>6, <2>1
    <2>3. Ingested # <<>> /\ Len(out) <= OutMax
      BY <1>1, <1>2, <1>8
    <2>4. /\ bn' \in Actives /\ Active(Ingested, bn')
          /\ bn'.beg % BinLen = 0 /\ bn'.beg <= RangeEnd /\ bn.beg <= bn'.beg
          /\ bn'.beg <= ts
          /\ out' \in Seq(Bins) /\ Len(out') <= OutMax + 1
          /\ \A i \in 1..Len(out') : Made(Ingested, out'[i], bn'.beg)
      BY <1>6, <2>2, <2>3, PutBinKeeps
    <2> QED
      BY <1>1, <1>2, <1>6, <1>8, <2>4, PutStep
  <1> QED
    BY <1>7, <1>8

LEMMA IngestEventKeeps ==
    ASSUME IInv, IngestEvent
    PROVE  /\ Core' /\ bn'.beg = bn.beg /\ evs # <<>> /\ Head(evs) \in Events
           /\ Ingested' = Append(Ingested, Head(evs))
           /\ Ingested # <<>> => bn.beg <= Head(evs).ts /\ LastTs(Ingested) < Head(evs).ts
           /\ LastTs(Ingested') = Head(evs).ts /\ Ingested' # <<>>
  <1>1. PICK g \in Increase : g = Ingested
    BY SplitFacts DEF IInv, Core
  <1>2. /\ evs # <<>> /\ Head(evs).ts < End(bn) /\ phase = "Buffered"
        /\ bn' = IF bn.lst = NoVal THEN FirstEvent(bn, Head(evs))
                 ELSE WithLst(bn, Head(evs))
        /\ evs' = Tail(evs)
        /\ UNCHANGED <<phase, cnt_zero, out, more, fine, coarse, seen, nleft>>
    BY DEF IngestEvent
  <1>3. PICK e \in Events, t \in Seq(Events) :
           e = Head(evs) /\ t = Tail(evs) /\ evs = <<e>> \o t
    BY <1>2, SplitFacts DEF IInv, Core
  <1>4. g # <<>> => LastTs(g) < e.ts
    BY <1>1, <1>2, <1>3, SplitFacts DEF IInv, Core
  <1>5. PICK h \in Increase : h = Append(g, e) /\ h # <<>> /\ h \in Seq(Events)
    BY <1>4, AppendFacts DEF Increase
  <1>6. seen = h \o t
    <2>1. seen = g \o (<<e>> \o t) /\ g \in Seq(Events) /\ <<e>> \in Seq(Events)
      BY <1>1, <1>3, SplitFacts DEF IInv, Core, Increase
    <2>2. (g \o <<e>>) \o t = g \o (<<e>> \o t)
      BY <1>3, <2>1, ConcatAssociative
    <2>3. h = g \o <<e>>
      BY <1>5, <2>1, AppendIsConcat
    <2> QED
      BY <2>1, <2>2, <2>3
  <1>7. Ingested' = h
    BY <1>2, <1>3, <1>5, <1>6, PrefixOf DEF Ingested
  <1>8. /\ bn \in Actives /\ bn.beg \in Int /\ out \in Seq(Bins) /\ fine \in Seq(Bins)
        /\ e.ts \in Int /\ e.ts < End(bn) /\ Len(out) \in Nat
    BY <1>2, <1>3, EventFacts, LenProperties DEF IInv, Core, StateTypes, Actives
  <1>9. ASSUME bn' \in Actives, bn'.beg = bn.beg, Active(h, bn'),
               \A i \in 1..Len(out) : Made(h, out[i], bn.beg),
               \A i \in 1..Len(fine) : Made(h, fine[i], bn.beg)
        PROVE  Core'
    <2>1. StateTypes'
      <3>1. \E x \in Seq(Events) : seen' = x \o evs'
        BY <1>2, <1>3, <1>5, <1>6
      <3>2. evs' \in Seq(Events)
        BY <1>2, <1>3
      <3> QED
        BY <1>2, <1>9, <3>1, <3>2 DEF IInv, Core, StateTypes
    <2>2. BinsInv'
      BY <1>2, <1>5, <1>7, <1>9 DEF BinsInv
    <2> QED
      BY <2>1, <2>2 DEF Core
  <1>12. /\ Ingested' = Append(Ingested, Head(evs)) /\ evs # <<>> /\ Head(evs) \in Events
         /\ LastTs(Ingested') = Head(evs).ts /\ Ingested' # <<>>
    <2>1. LastTs(h) = e.ts
      BY <1>4, <1>5, AppendFacts
    <2> QED
      BY <1>1, <1>2, <1>3, <1>5, <1>7, <2>1
  <1>10. CASE g = <<>>
    <2>1. bn.lst = NoVal /\ Blank(bn) /\ out = <<>> /\ fine = <<>>
      BY <1>1, <1>10, LstIsSet DEF IInv, Core, BinsInv
    <2>2. bn' = FirstEvent(bn, e)
      BY <1>2, <1>3, <2>1
    <2>3. h = Append(<<>>, e)
      BY <1>5, <1>10
    <2>4. bn' \in Actives /\ bn'.beg = bn.beg /\ Active(h, bn')
      BY <1>8, <2>1, <2>2, <2>3, FirstActive
    <2>5. 1..Len(out) = {} /\ 1..Len(fine) = {}
      BY <2>1
    <2> QED
      BY <1>1, <1>9, <1>10, <1>12, <2>4, <2>5
  <1>11. CASE g # <<>>
    <2>1. bn.lst # NoVal
      BY <1>1, <1>11, LstIsSet
    <2>2. bn' = WithLst(bn, e)
      BY <1>2, <1>3, <2>1
    <2>3. Active(g, bn) /\ LastTs(g) < e.ts
      BY <1>1, <1>4, <1>11 DEF IInv, Core, BinsInv
    <2>4. bn.beg <= e.ts
      <3>1. bn.beg = RangeBeg \/ bn.beg <= LastTs(g) \/ bn.beg <= e.ts
        BY <1>1, <1>2, <1>3, <1>11 DEF IInv, Following
      <3>2. LastTs(g) \in Int /\ RangeBeg - 1 <= LastTs(g)
        <4>1. Len(g) \in 1..Len(g) /\ LastTs(g) \in Int
          BY <1>11, FirstFacts
        <4>2. g[Len(g)] \in Events
          BY <4>1 DEF Increase
        <4> QED
          BY <4>1, <4>2, EventFacts DEF LastTs
      <3> QED
        BY <1>8, <2>3, <3>1, <3>2, ConstFacts
    <2>5. bn' \in Actives /\ bn'.beg = bn.beg /\ Active(h, bn')
      BY <1>5, <1>8, <1>11, <2>2, <2>3, <2>4, WithLstActive
    <2>6. ASSUME NEW b \in Bins, Made(g, b, bn.beg) PROVE Made(h, b, bn.beg)
      BY <1>5, <1>8, <1>11, <2>3, <2>4, <2>6, MadeAppend
    <2>7. \A i \in 1..Len(out) : out[i] \in Bins /\ Made(g, out[i], bn.beg)
      BY <1>1, <1>8, <1>11 DEF IInv, Core, BinsInv
    <2>8. \A i \in 1..Len(fine) : fine[i] \in Bins /\ Made(g, fine[i], bn.beg)
      BY <1>1, <1>8, <1>11 DEF IInv, Core, BinsInv
    <2> QED
      BY <1>1, <1>3, <1>9, <1>12, <2>3, <2>4, <2>5, <2>6, <2>7, <2>8
  <1> QED
    BY <1>10, <1>11

(* Made bins are handed on.                                                *)
LEMMA HandOnKeeps ==
    ASSUME IInv, HandOn, phase' \in Phases, phase' # "Buffered" => evs = <<>>,
           more' \in BOOLEAN, UNCHANGED <<cnt_zero, evs, bn, seen, nleft>>
    PROVE  Core'
  <1>1. PICK g : g = Ingested
    OBVIOUS
  <1>2. Ingested' = g
    BY <1>1 DEF Ingested
  <1>3. /\ out \in Seq(Bins) /\ fine \in Seq(Bins) /\ out' = <<>> /\ fine' = fine \o out
        /\ <<>> \in Seq(Bins) /\ Len(<<>>) = 0
    BY EmptySeq DEF IInv, Core, StateTypes, HandOn
  <1>4. /\ fine' \in Seq(Bins) /\ Len(fine') = Len(fine) + Len(out)
        /\ \A i \in 1..Len(fine) + Len(out) :
             fine'[i] = IF i <= Len(fine) THEN fine[i] ELSE out[i - Len(fine)]
        /\ Len(fine) \in Nat /\ Len(out) \in Nat
    BY <1>3, ConcatProperties, LenProperties
  <1>5. StateTypes'
    <2>1. Len(out') <= OutMax + 1
      BY <1>3, ConstFacts
    <2> QED
      BY <1>3, <1>4, <2>1 DEF IInv, Core, StateTypes
  <1>6. BinsInv'
    <2>1. CASE g = <<>>
      <3>1. Blank(bn) /\ out = <<>> /\ fine = <<>>
        BY <1>1, <2>1 DEF IInv, Core, BinsInv
      <3>2. fine' = <<>>
        BY <1>3, <3>1, ConcatEmptySeq
      <3> QED
        BY <1>2, <1>3, <2>1, <3>1, <3>2 DEF BinsInv
    <2>2. CASE g # <<>>
      <3>1. /\ Active(g, bn)
            /\ \A i \in 1..Len(out) : Made(g, out[i], bn.beg)
            /\ \A i \in 1..Len(fine) : Made(g, fine[i], bn.beg)
        BY <1>1, <2>2 DEF IInv, Core, BinsInv
      <3>2. ASSUME NEW i \in 1..Len(fine') PROVE Made(g, fine'[i], bn.beg)
        <4>1. CASE i <= Len(fine)
          BY <1>4, <3>1, <4>1
        <4>2. CASE ~(i <= Len(fine))
          <5>1. i - Len(fine) \in 1..Len(out)
            BY <1>4, <4>2
          <5> QED
            BY <1>4, <3>1, <4>2, <5>1
        <4> QED
          BY <4>1, <4>2
      <3>3. 1..Len(out') = {}
        BY <1>3
      <3> QED
        BY <1>2, <2>2, <3>1, <3>2, <3>3 DEF BinsInv
    <2> QED
      BY <2>1, <2>2
  <1> QED
    BY <1>5, <1>6 DEF Core

(* The steps that leave the bins alone.                                    *)
LEMMA IdleKeeps ==
    ASSUME IInv, phase' \in Phases, phase' # "Buffered" => evs = <<>>,
           more' \in BOOLEAN, nleft' \in Nat,
           UNCHANGED <<cnt_zero, evs, bn, out, fine, seen>>
    PROVE  Core'
  <1>1. Ingested' = Ingested
    BY DEF Ingested
  <1>2. StateTypes'
    BY DEF IInv, Core, StateTypes
  <1>3. BinsInv'
    BY <1>1 DEF IInv, Core, BinsInv
  <1> QED
    BY <1>2, <1>3 DEF Core

LEMMA LeftNat ==
    ASSUME NEW x \in Nat, NEW n \in Nat \ {0}
    PROVE  x \div n \in Nat
  OBVIOUS

LEMMA EosKeeps == ASSUME IInv, Eos PROVE Core'
  <1>1. evs = <<>>
    BY DEF IInv, Core, StateTypes, Eos
  <1>2. phase' \in Phases
    BY DEF Eos, CallCycle, Phases
  <1>3. more' \in BOOLEAN
    BY DEF Eos, IInv, Core, StateTypes
  <1>4. nleft' \in Nat
    <2>1. CASE bn.lst = NoVal
      BY <2>1 DEF Eos, IInv, Core, StateTypes
    <2>2. CASE bn.lst # NoVal
      <3>1. PICK x \in Nat : x = RangeEnd - bn.beg
        BY ConstFacts DEF IInv, Core, StateTypes, Actives
      <3>2. x \div BinLen \in Nat
        BY ConstFacts, LeftNat
      <3> QED
        BY <2>2, <3>1, <3>2 DEF Eos
    <2> QED
      BY <2>1, <2>2
  <1> QED
    BY <1>1, <1>2, <1>3, <1>4, IdleKeeps DEF Eos

LEMMA EosCycleFacts ==
    ASSUME IInv, EosCycle
    PROVE  /\ Ingested # <<>> /\ RangeEnd \in Nat /\ End(bn) <= RangeEnd
           /\ Len(out) <= OutMax /\ PutBin(RangeEnd)
           /\ UNCHANGED <<phase, cnt_zero, evs, more, fine, coarse, seen, nleft>>
  <1>1. /\ Len(out) <= OutMax /\ bn.until < RangeEnd /\ PutBin(RangeEnd)
        /\ UNCHANGED <<phase, cnt_zero, evs, more, fine, coarse, seen, nleft>>
        /\ phase = "Cycling"
    BY DEF EosCycle
  <1>2. Ingested # <<>>
    BY <1>1 DEF IInv, Following
  <1>3. PICK g \in Increase : g = Ingested
    BY SplitFacts DEF IInv, Core
  <1>4. LastTs(g) \in Int
    BY <1>2, <1>3, FirstFacts
  <1>5. bn.beg \in Int /\ bn.beg <= bn.until /\ bn.until \in Int /\ bn.beg % BinLen = 0
    BY <1>2, <1>3, <1>4 DEF IInv, Core, StateTypes, BinsInv, Active, Actives
  <1>6. bn.beg < RangeEnd /\ RangeEnd \in Int /\ RangeEnd % BinLen = 0 /\ BinLen \in Nat \ {0}
    BY <1>1, <1>5, RangeFacts, ConstFacts
  <1>7. bn.beg + BinLen <= RangeEnd
    BY <1>5, <1>6, GridStep
  <1> QED
    BY <1>1, <1>2, <1>7, ConstFacts DEF End

LEMMA EosCycleKeeps == ASSUME IInv, EosCycle PROVE Core'
  <1>1. /\ Ingested # <<>> /\ RangeEnd \in Nat /\ End(bn) <= RangeEnd
        /\ Len(out) <= OutMax /\ PutBin(RangeEnd)
        /\ UNCHANGED <<phase, cnt_zero, evs, more, fine, coarse, seen, nleft>>
    BY EosCycleFacts
  <1>2. RangeEnd <= RangeEnd
    BY <1>1
  <1>3. /\ bn' \in Actives /\ Active(Ingested, bn')
        /\ bn'.beg % BinLen = 0 /\ bn'.beg <= RangeEnd /\ bn.beg <= bn'.beg
        /\ out' \in Seq(Bins) /\ Len(out') <= OutMax + 1
        /\ \A i \in 1..Len(out') : Made(Ingested, out'[i], bn'.beg)
    BY <1>1, <1>2, PutBinKeeps
  <1> QED
    BY <1>1, <1>3, PutStep

LEMMA OutputKeeps == ASSUME IInv, Output PROVE Core'
  <1>1. phase' \in Phases /\ (phase' # "Buffered" => evs = <<>>)
    BY DEF Output, Phases
  <1>2. more' \in BOOLEAN
    BY DEF Output, IInv, Core, StateTypes
  <1> QED
    BY <1>1, <1>2, HandOnKeeps DEF Output

LEMMA RemainsKeeps == ASSUME IInv, Remains PROVE Core'
  <1>1. evs = <<>>
    BY DEF IInv, Core, StateTypes, Remains
  <1>2. phase' \in Phases
    BY DEF Remains, CallCycle, Phases
  <1>3. more' \in BOOLEAN
    BY DEF Remains
  <1> QED
    BY <1>1, <1>2, <1>3, HandOnKeeps DEF Remains

LEMMA OtherKeeps ==
    ASSUME IInv, EosCycled \/ Fail \/ RemainsDone \/ Terminated \/ UNCHANGED vars
    PROVE  Core'
  <1>1. UNCHANGED <<cnt_zero, evs, bn, out, fine, seen, nleft>>
    BY DEF EosCycled, Fail, RemainsDone, Terminated, vars
  <1>2. phase' \in Phases
    BY DEF EosCycled, Fail, RemainsDone, Terminated, vars, Phases, IInv, Core, StateTypes
  <1>3. phase' # "Buffered" => evs = <<>>
    BY DEF EosCycled, Fail, RemainsDone, Terminated, vars, IInv, Core, StateTypes
  <1>4. more' \in BOOLEAN
    BY DEF EosCycled, Fail, RemainsDone, Terminated, vars, IInv, Core, StateTypes
  <1>5. nleft' \in Nat
    BY <1>1 DEF IInv, Core, StateTypes
  <1> QED
    BY <1>1, <1>2, <1>3, <1>4, <1>5, IdleKeeps

LEMMA CoreNext == ASSUME IInv, [Next]_vars PROVE Core'
  BY DataKeeps, IngestCycleKeeps, IngestEventKeeps, OutputKeeps, EosKeeps,
     EosCycleKeeps, RemainsKeeps, OtherKeeps DEF Next

(* The active bin follows the events.                                      *)
LEMMA FollowingSame ==
    ASSUME IInv, UNCHANGED <<evs, bn, seen>>,
           more' => more, phase' = "Cycling" => phase = "Cycling" \/ Ingested # <<>>,
           phase' \in {"Reading", "Buffered"} => phase \in {"Reading", "Buffered"}
    PROVE  Following'
  <1>1. Ingested' = Ingested
    BY DEF Ingested
  <1> QED
    BY <1>1 DEF IInv, Following

LEMMA FollowingNext == ASSUME IInv, [Next]_vars PROVE Following'
  <1>1. PICK g \in Increase : g = Ingested
    BY SplitFacts DEF IInv, Core
  <1>2. ASSUME NEW c \in Chunks, Data(c) PROVE Following'
    <2>1. phase = "Reading" /\ evs = <<>> /\ g = seen
      BY <1>1, <1>2, DataKeeps DEF Data
    <2>2. Ingested' = seen
      BY <1>2, DataKeeps
    <2>3. UNCHANGED <<bn, more>> /\ phase' = "Buffered"
      BY <1>2 DEF Data
    <2>4. /\ seen = <<>> => ~more /\ bn.beg = RangeBeg
          /\ seen # <<>> => bn.beg = RangeBeg \/ bn.beg <= LastTs(seen)
      BY <1>1, <2>1 DEF IInv, Following
    <2>5. /\ seen = <<>> => ~more' /\ bn'.beg = RangeBeg
          /\ seen # <<>> => bn'.beg = RangeBeg \/ bn'.beg <= LastTs(seen)
      BY <2>3, <2>4, Zenon
    <2>6. phase' # "Cycling"
      BY <2>3
    <2> QED
      BY <2>2, <2>5, <2>6, Zenon DEF Following
  <1>3. ASSUME IngestCycle PROVE Following'
    <2>1. UNCHANGED <<evs, seen, more, phase>> /\ evs # <<>> /\ phase = "Buffered"
      BY <1>3 DEF IngestCycle
    <2>2. Ingested' = Ingested
      BY <2>1 DEF Ingested
    <2>3. bn'.beg <= Head(evs).ts
      BY <1>3, IngestCycleKeeps
    <2> QED
      BY <2>1, <2>2, <2>3 DEF IInv, Following
  <1>4. ASSUME IngestEvent PROVE Following'
    <2>1. /\ bn'.beg = bn.beg /\ LastTs(Ingested') = Head(evs).ts /\ Ingested' # <<>>
          /\ Ingested # <<>> => bn.beg <= Head(evs).ts
          /\ evs # <<>> /\ Head(evs) \in Events
      BY <1>4, IngestEventKeeps
    <2>2. Ingested = <<>> => bn.beg = RangeBeg \/ bn.beg <= Head(evs).ts
      BY DEF IInv, Following
    <2>4. bn'.beg = RangeBeg \/ bn'.beg <= LastTs(Ingested')
      BY <2>1, <2>2
    <2>5. LastTs(Ingested') = LastTs(Ingested)'
      BY DEF LastTs
    <2> QED
      BY <2>1, <2>4, <2>5, Zenon DEF Following
  <1>5. ASSUME Output PROVE Following'
    <2>1. UNCHANGED <<evs, bn, seen, more>> /\ phase = "Buffered"
          /\ phase' \in {"Reading", "Buffered"}
      BY <1>5 DEF Output
    <2> QED
      BY <2>1, FollowingSame
  <1>6. ASSUME Eos PROVE Following'
    <2>1. UNCHANGED <<evs, seen, bn>> /\ evs = <<>> /\ phase' \notin {"Reading", "Buffered"}
      BY <1>6 DEF Eos, CallCycle, IInv, Core, StateTypes
    <2>2. Ingested' = Ingested
      BY <2>1 DEF Ingested
    <2>3. Ingested = <<>> => more' = more /\ phase' = "Remains"
      BY <1>6, LstIsSet DEF Eos
    <2> QED
      BY <2>1, <2>2, <2>3 DEF IInv, Following
  <1>7. ASSUME EosCycle PROVE Following'
    <2>1. Ingested # <<>> /\ UNCHANGED <<evs, seen, phase>> /\ phase = "Cycling"
      BY <1>7, EosCycleFacts DEF EosCycle
    <2>2. Ingested' = Ingested
      BY <2>1 DEF Ingested
    <2> QED
      BY <2>1, <2>2 DEF Following
  <1>8. ASSUME Remains PROVE Following'
    <2>1. UNCHANGED <<evs, bn, seen>> /\ ~more' /\ phase = "Remains"
          /\ phase' \notin {"Reading", "Buffered"}
          /\ (phase' = "Cycling" => more)
      BY <1>8 DEF Remains, CallCycle
    <2>2. more => Ingested # <<>>
      BY DEF IInv, Following
    <2> QED
      BY <2>1, <2>2, FollowingSame
  <1>9. ASSUME EosCycled \/ Fail \/ RemainsDone \/ Terminated \/ UNCHANGED vars
        PROVE  Following'
    <2>1. UNCHANGED <<evs, bn, seen>>
      BY <1>9 DEF EosCycled, Fail, RemainsDone, Terminated, vars
    <2>2. more' => more
      BY <1>9 DEF EosCycled, Fail, RemainsDone, Terminated, vars
    <2>3. phase' # phase => phase' \in {"Remains", "Failed", "Done"}
      BY <1>9 DEF EosCycled, Fail, RemainsDone, Terminated, vars
    <2>4. /\ phase' = "Cycling" => phase = "Cycling"
          /\ phase' \in {"Reading", "Buffered"} => phase \in {"Reading", "Buffered"}
      BY <2>3
    <2> QED
      BY <2>1, <2>2, <2>4, FollowingSame
  <1> QED
    BY <1>2, <1>3, <1>4, <1>5, <1>6, <1>7, <1>8, <1>9 DEF Next

LEMMA InitFollowing == ASSUME Init PROVE Following
  <1>1. Ingested = <<>>
    BY InitCore, SplitFacts DEF Init, Core
  <1>2. ~more /\ phase # "Cycling" /\ bn.beg = RangeBeg
    BY DEF Init
  <1> QED
    BY <1>1, <1>2, Zenon DEF Following

LEMMA IInvNext == ASSUME IInv, [Next]_vars PROVE IInv'
  BY CoreNext, FollowingNext DEF IInv

LEMMA IInvAlways == Spec => []IInv
  <1>1. Init => IInv
    BY InitCore, InitFollowing DEF IInv
  <1>2. IInv /\ [Next]_vars => IInv'
    BY IInvNext
  <1> QED
    BY <1>1, <1>2, PTL DEF Spec

(* Every bin handed on tells the events of it: their number, the least,    *)
(* greatest and last of the values that held in it and their integral,     *)
(* for every range, bin length, containers and size of the output.         *)
THEOREM BinsAreRight == Spec => []BinsMatch
  <1>1. IInv => BinsMatch
    <2>1. SUFFICES ASSUME IInv, NEW i \in 1..Len(fine) PROVE BinMatches(Ingested, fine[i])
      BY DEF BinsMatch
    <2>2. Ingested # <<>>
      <3>1. Ingested = <<>> => fine = <<>>
        BY <2>1 DEF IInv, Core, BinsInv
      <3> QED
        BY <2>1, <3>1
    <2> QED
      BY <2>1, <2>2 DEF IInv, Core, BinsInv, Made
  <1> QED
    BY <1>1, IInvAlways, PTL
-----------------------------------------------------------------------------
(* The bins are in order and, with cnt_zero, without gaps.                 *)
AllBins == fine \o out
MadeTo(g, n) == FineFrom(First(g)) + n * BinLen

OrderInv ==
    LET g == Ingested
        all == AllBins
    IN
    /\ \A i \in 1..Len(all) :
         /\ all[i].beg % BinLen = 0 /\ RangeBeg <= all[i].beg
         /\ \A j \in 1..Len(all) : i < j => all[i].end <= all[j].beg
    /\ cnt_zero /\ g # <<>> =>
         /\ bn.beg = MadeTo(g, Len(all))
         /\ \A i \in 1..Len(all) : all[i].beg = MadeTo(g, i - 1)

LEMMA AllFacts ==
    ASSUME IInv
    PROVE  /\ AllBins \in Seq(Bins) /\ Len(AllBins) = Len(fine) + Len(out)
           /\ Len(fine) \in Nat /\ Len(out) \in Nat
           /\ \A i \in 1..Len(fine) : AllBins[i] = fine[i]
           /\ \A i \in 1..Len(out) : AllBins[Len(fine) + i] = out[i]
           /\ Ingested = <<>> => AllBins = <<>>
           /\ Ingested # <<>> => \A i \in 1..Len(AllBins) : Made(Ingested, AllBins[i], bn.beg)
  <1>1. fine \in Seq(Bins) /\ out \in Seq(Bins) /\ Len(fine) \in Nat /\ Len(out) \in Nat
    BY LenProperties DEF IInv, Core, StateTypes
  <1>2. PICK all : all = AllBins
    OBVIOUS
  <1>3. /\ all \in Seq(Bins) /\ Len(all) = Len(fine) + Len(out)
        /\ \A i \in 1..Len(fine) + Len(out) :
             all[i] = IF i <= Len(fine) THEN fine[i] ELSE out[i - Len(fine)]
    BY <1>1, <1>2, ConcatProperties DEF AllBins
  <1>4. ASSUME NEW i \in 1..Len(out) PROVE all[Len(fine) + i] = out[i]
    <2>1. /\ Len(fine) + i \in 1..Len(fine) + Len(out) /\ ~(Len(fine) + i <= Len(fine))
          /\ (Len(fine) + i) - Len(fine) = i
      BY <1>1
    <2> QED
      BY <1>3, <2>1
  <1>5. \A i \in 1..Len(fine) : all[i] = fine[i]
    BY <1>1, <1>3
  <1>6. Ingested = <<>> => all = <<>>
    <2>1. Ingested = <<>> => fine = <<>> /\ out = <<>>
      BY DEF IInv, Core, BinsInv
    <2> QED
      BY <1>1, <1>2, <2>1, ConcatEmptySeq DEF AllBins
  <1>7. ASSUME Ingested # <<>>, NEW i \in 1..Len(all) PROVE Made(Ingested, all[i], bn.beg)
    <2>1. /\ \A j \in 1..Len(fine) : Made(Ingested, fine[j], bn.beg)
          /\ \A j \in 1..Len(out) : Made(Ingested, out[j], bn.beg)
      BY <1>7 DEF IInv, Core, BinsInv
    <2>2. CASE i <= Len(fine)
      BY <1>1, <1>5, <2>1, <2>2
    <2>3. CASE ~(i <= Len(fine))
      <3>1. i - Len(fine) \in 1..Len(out) /\ all[i] = out[i - Len(fine)]
        BY <1>1, <1>3, <2>3
      <3> QED
        BY <2>1, <3>1
    <2> QED
      BY <2>2, <2>3
  <1> QED
    BY <1>1, <1>2, <1>3, <1>4, <1>5, <1>6, <1>7

(* The bin of the first event is the first one.                            *)
LEMMA FirstBin ==
    ASSUME NEW t \in Int, NEW a \in Int, a % BinLen = 0, RangeBeg <= a, t < a + BinLen,
           a = RangeBeg \/ a <= t
    PROVE  FineFrom(t) = a
  <1>1. BinLen \in Nat \ {0} /\ RangeBeg \in Int
    BY ConstFacts
  <1>2. PICK x \in Int : x = IF RangeBeg <= t THEN t ELSE RangeBeg
    <2>1. (IF RangeBeg <= t THEN t ELSE RangeBeg) \in Int
      BY <1>1
    <2> QED
      BY <2>1
  <1>3. Max({RangeBeg, t}) = x
    <2>1. IsGreatest(x, {RangeBeg, t})
      BY <1>1, <1>2 DEF IsGreatest
    <2>2. {RangeBeg, t} \in SUBSET Int
      BY <1>1
    <2> QED
      BY <2>1, <2>2, MaxIs
  <1>4. a <= x /\ x < a + BinLen
    BY <1>1, <1>2
  <1>5. PICK f \in Int : /\ f = Floor(x, BinLen) /\ f <= x /\ x < f + BinLen /\ f % BinLen = 0
                         /\ a <= f
    BY <1>1, <1>4, FloorFacts
  <1>6. f <= a
    <2>1. a < f => a + BinLen <= f
      BY <1>1, <1>5, GridStep
    <2> QED
      BY <1>1, <1>4, <1>5, <2>1
  <1> QED
    BY <1>3, <1>5, <1>6 DEF FineFrom

(* One bin more.                                                           *)
LEMMA MadeToFacts ==
    ASSUME NEW g \in Increase, g # <<>>, NEW n \in Nat
    PROVE  /\ FineFrom(First(g)) \in Nat /\ RangeBeg <= FineFrom(First(g))
           /\ FineFrom(First(g)) % BinLen = 0 /\ FineFrom(First(g)) < RangeEnd
           /\ First(g) < FineFrom(First(g)) + BinLen
           /\ First(g) < RangeBeg => FineFrom(First(g)) = RangeBeg
           /\ First(g) >= RangeBeg => FineFrom(First(g)) <= First(g)
           /\ First(g) >= RangeBeg /\ First(g) % BinLen = 0 => FineFrom(First(g)) = First(g)
           /\ MadeTo(g, 0) = FineFrom(First(g))
           /\ MadeTo(g, n) \in Nat /\ MadeTo(g, n + 1) = MadeTo(g, n) + BinLen
           /\ FineFrom(First(g)) <= MadeTo(g, n)
  <1>1. PICK t \in Int : t = First(g) /\ t < RangeEnd
    <2>1. g[1] \in Events /\ First(g) = g[1].ts
      BY FirstFacts DEF Increase
    <2> QED
      BY <2>1, EventFacts
  <1>2. BinLen \in Nat \ {0} /\ RangeBeg \in Nat /\ RangeEnd \in Nat /\ RangeBeg < RangeEnd
        /\ RangeBeg % BinLen = 0
    BY ConstFacts, RangeFacts
  <1>3. PICK x \in Int : x = IF RangeBeg <= t THEN t ELSE RangeBeg
    <2>1. (IF RangeBeg <= t THEN t ELSE RangeBeg) \in Int
      BY <1>2
    <2> QED
      BY <2>1
  <1>4. Max({RangeBeg, t}) = x
    <2>1. IsGreatest(x, {RangeBeg, t})
      BY <1>2, <1>3 DEF IsGreatest
    <2>2. {RangeBeg, t} \in SUBSET Int
      BY <1>2
    <2> QED
      BY <2>1, <2>2, MaxIs
  <1>5. PICK f \in Int : /\ f = Floor(x, BinLen) /\ f <= x /\ x < f + BinLen /\ f % BinLen = 0
                         /\ \A a \in Int : a % BinLen = 0 /\ a <= x => a <= f
    BY <1>2, FloorFacts
  <1>6. f = FineFrom(First(g))
    BY <1>1, <1>4, <1>5 DEF FineFrom
  <1>7. RangeBeg <= x /\ RangeBeg <= f /\ f \in Nat
    BY <1>2, <1>3, <1>5
  <1>8. f < RangeEnd /\ t < f + BinLen
    BY <1>1, <1>2, <1>3, <1>5
  <1>9. t < RangeBeg => f = RangeBeg
    BY <1>2, <1>3, <1>5, <1>7
  <1>10. t >= RangeBeg => f <= t /\ (t % BinLen = 0 => f = t)
    BY <1>2, <1>3, <1>5
  <1>11. PICK k \in Nat : k = n * BinLen
    BY <1>2
  <1>12. (n + 1) * BinLen = k + BinLen /\ 0 * BinLen = 0
    BY <1>2, <1>11
  <1>13. f + k \in Nat /\ f + 0 = f /\ f <= f + k /\ f + (k + BinLen) = (f + k) + BinLen
    BY <1>2, <1>7
  <1>14. MadeTo(g, n) = f + k /\ MadeTo(g, n + 1) = f + (k + BinLen) /\ MadeTo(g, 0) = f
    BY <1>6, <1>11, <1>12, <1>13 DEF MadeTo
  <1> QED
    BY <1>1, <1>5, <1>6, <1>7, <1>8, <1>9, <1>10, <1>13, <1>14

LEMMA OrderSame ==
    ASSUME IInv, OrderInv, UNCHANGED <<cnt_zero, bn>>, Ingested' = Ingested,
           AllBins' = AllBins
    PROVE  OrderInv'
  BY DEF OrderInv, MadeTo

LEMMA OrderPut ==
    ASSUME IInv, OrderInv, Ingested # <<>>, NEW ts \in Nat, End(bn) <= ts, ts <= RangeEnd,
           Len(out) <= OutMax, PutBin(ts), UNCHANGED <<cnt_zero, fine, evs, seen>>
    PROVE  OrderInv'
  <1>1. PICK g \in Increase : g = Ingested /\ g # <<>> /\ Ingested' = g
    BY SplitFacts DEF IInv, Core, Ingested
  <1>2. /\ cnt_zero => bn'.beg = bn.beg + BinLen
        /\ out' \in Seq(Bins) /\ Len(out') = Len(out) + 1
        /\ out'[Len(out) + 1].beg = bn.beg
        /\ \A i \in 1..Len(out) : out'[i] = out[i]
        /\ \A i \in 1..Len(out') : Made(g, out'[i], bn'.beg)
    BY <1>1, PutBinKeeps
  <1>3. PICK all \in Seq(Bins), m \in Nat : all = AllBins /\ m = Len(fine)
    BY AllFacts
  <1>4. PICK n \in Nat : n = Len(all) /\ n = m + Len(out) /\ Len(out) \in Nat
    BY <1>3, AllFacts
  <1>5. /\ all \in Seq(Bins)
        /\ \A i \in 1..n : Made(g, all[i], bn.beg)
    BY <1>1, <1>3, <1>4, AllFacts
  <1>6. PICK b \in Bins : b = out'[Len(out) + 1] /\ b.beg = bn.beg
    BY <1>2, <1>4
  <1>7. AllBins' = Append(all, b)
    <2>1. out' = Append(out, b)
      BY <1>2, <1>4, <1>6 DEF PutBin
    <2>2. fine \in Seq(Bins) /\ out \in Seq(Bins) /\ <<b>> \in Seq(Bins)
      BY <1>6 DEF IInv, Core, StateTypes
    <2>3. out' = out \o <<b>> /\ Append(all, b) = all \o <<b>>
      BY <1>5, <1>6, <2>1, <2>2, AppendIsConcat
    <2>4. fine \o (out \o <<b>>) = (fine \o out) \o <<b>>
      BY <2>2, ConcatAssociative
    <2> QED
      BY <1>3, <2>3, <2>4 DEF AllBins
  <1>8. PICK new : new = AllBins'
    OBVIOUS
  <1>9. /\ new \in Seq(Bins) /\ Len(new) = n + 1 /\ new[n + 1] = b
        /\ \A i \in 1..n : new[i] = all[i]
    <2>1. /\ Append(all, b) \in Seq(Bins) /\ Len(Append(all, b)) = Len(all) + 1
          /\ \A i \in 1..Len(all) : Append(all, b)[i] = all[i]
          /\ Append(all, b)[Len(all) + 1] = b
      BY <1>6, AppendProperties
    <2> QED
      BY <1>4, <1>7, <1>8, <2>1
  <1>10. /\ bn.beg \in Nat /\ bn.beg % BinLen = 0 /\ RangeBeg <= bn.beg
    BY DEF IInv, Core, StateTypes, Actives
  <1>11. \A i \in 1..n :
           /\ all[i].beg % BinLen = 0 /\ RangeBeg <= all[i].beg /\ all[i].end <= bn.beg
           /\ \A j \in 1..n : i < j => all[i].end <= all[j].beg
    <2>1. \A i \in 1..n :
           /\ all[i].beg % BinLen = 0 /\ RangeBeg <= all[i].beg
           /\ \A j \in 1..n : i < j => all[i].end <= all[j].beg
      BY <1>3, <1>4 DEF OrderInv
    <2>2. \A i \in 1..n : all[i].end <= bn.beg
      BY <1>5 DEF Made
    <2> QED
      BY <2>1, <2>2
  <1>12. \A i \in 1..n + 1 :
           /\ new[i].beg % BinLen = 0 /\ RangeBeg <= new[i].beg
           /\ \A j \in 1..n + 1 : i < j => new[i].end <= new[j].beg
    <2>1. ASSUME NEW i \in 1..n + 1
          PROVE  new[i].beg % BinLen = 0 /\ RangeBeg <= new[i].beg
      <3>1. i = n + 1 \/ i \in 1..n
        OBVIOUS
      <3> QED
        BY <1>6, <1>9, <1>10, <1>11, <3>1
    <2>2. ASSUME NEW i \in 1..n + 1, NEW j \in 1..n + 1, i < j
          PROVE  new[i].end <= new[j].beg
      <3>1. i \in 1..n /\ (j = n + 1 \/ j \in 1..n)
        BY <2>2
      <3> QED
        BY <1>6, <1>9, <1>11, <2>2, <3>1
    <2> QED
      BY <2>1, <2>2
  <1>13. ASSUME cnt_zero
         PROVE  /\ bn'.beg = MadeTo(g, n + 1)
                /\ \A i \in 1..n + 1 : new[i].beg = MadeTo(g, i - 1)
    <2>1. bn.beg = MadeTo(g, n) /\ \A i \in 1..n : all[i].beg = MadeTo(g, i - 1)
      BY <1>1, <1>3, <1>4, <1>13 DEF OrderInv
    <2>2. MadeTo(g, n + 1) = MadeTo(g, n) + BinLen
      BY <1>1, MadeToFacts
    <2>3. bn'.beg = bn.beg + BinLen
      BY <1>2, <1>13
    <2>4. ASSUME NEW i \in 1..n + 1 PROVE new[i].beg = MadeTo(g, i - 1)
      <3>1. CASE i \in 1..n
        BY <1>9, <2>1, <3>1
      <3>2. CASE i = n + 1
        <4>1. i - 1 = n
          BY <3>2
        <4> QED
          BY <1>6, <1>9, <2>1, <3>2, <4>1
      <3> QED
        BY <3>1, <3>2
    <2> QED
      BY <2>1, <2>2, <2>3, <2>4
  <1>14. cnt_zero' = cnt_zero
    OBVIOUS
  <1>15. ASSUME cnt_zero'
         PROVE  /\ bn'.beg = MadeTo(g, Len(new))
                /\ \A i \in 1..Len(new) : new[i].beg = MadeTo(g, i - 1)
    BY <1>9, <1>13, <1>14, <1>15, Zenon
  <1> QED
    BY <1>1, <1>8, <1>9, <1>12, <1>15 DEF OrderInv, MadeTo

LEMMA OrderNext == ASSUME IInv, OrderInv, [Next]_vars PROVE OrderInv'
  <1>1. PICK g \in Increase : g = Ingested
    BY SplitFacts DEF IInv, Core
  <1>2. ASSUME NEW c \in Chunks, Data(c) PROVE OrderInv'
    <2>1. Ingested' = Ingested
      BY <1>2, DataKeeps
    <2> QED
      BY <1>2, <2>1, OrderSame DEF Data, AllBins
  <1>3. ASSUME IngestCycle PROVE OrderInv'
    <2>1. PICK ts \in Nat : ts = Head(evs).ts /\ End(bn) <= ts /\ ts <= RangeEnd
      BY <1>3, IngestCycleKeeps
    <2>2. UNCHANGED <<cnt_zero, fine, evs, seen>> /\ Len(out) <= OutMax
      BY <1>3 DEF IngestCycle
    <2>3. CASE g = <<>>
      <3>1. bn.lst = NoVal
        BY <1>1, <2>3, LstIsSet
      <3>2. out' = out /\ Ingested' = g
        BY <1>1, <1>3, <3>1 DEF IngestCycle, Ingested
      <3>3. AllBins = <<>> /\ AllBins' = AllBins /\ Len(AllBins) = 0
        BY <1>1, <2>2, <2>3, <3>2, AllFacts DEF AllBins
      <3> QED
        BY <2>3, <3>2, <3>3 DEF OrderInv
    <2>4. CASE g # <<>>
      <3>1. bn.lst # NoVal
        BY <1>1, <2>4, LstIsSet
      <3>2. PutBin(ts)
        BY <1>3, <2>1, <3>1 DEF IngestCycle
      <3> QED
        BY <1>1, <2>1, <2>2, <2>4, <3>2, OrderPut
    <2> QED
      BY <2>3, <2>4
  <1>4. ASSUME IngestEvent PROVE OrderInv'
    <2>1. PICK e \in Events : /\ e = Head(evs) /\ Ingested' = Append(g, e)
                              /\ g # <<>> => LastTs(g) < e.ts
      BY <1>1, <1>4, IngestEventKeeps
    <2>2. UNCHANGED <<cnt_zero, out, fine>> /\ bn'.beg = bn.beg
      BY <1>4, IngestEventKeeps DEF IngestEvent
    <2>3. AllBins' = AllBins
      BY <2>2 DEF AllBins
    <2>4. PICK h : h = Append(g, e)
      OBVIOUS
    <2>5. CASE g = <<>>
      <3>1. AllBins = <<>> /\ Len(AllBins) = 0 /\ 1..0 = {}
        BY <1>1, <2>5, AllFacts
      <3>2. h \in Increase /\ h # <<>> /\ First(h) = e.ts
        BY <2>1, <2>4, <2>5, AppendFacts
      <3>3. PICK a \in Int : /\ a = bn.beg /\ a % BinLen = 0 /\ RangeBeg <= a
                             /\ e.ts < a + BinLen /\ (a = RangeBeg \/ a <= e.ts)
        <4>1. bn.beg \in Int /\ bn.beg % BinLen = 0 /\ RangeBeg <= bn.beg
          BY DEF IInv, Core, StateTypes, Actives
        <4>2. e.ts < bn.beg + BinLen
          BY <1>4, <2>1 DEF IngestEvent, End
        <4>3. bn.beg = RangeBeg \/ bn.beg <= e.ts
          BY <1>1, <2>1, <2>5 DEF IInv, Following
        <4> QED
          BY <4>1, <4>2, <4>3
      <3>4. FineFrom(e.ts) = a
        <4>1. e.ts \in Int
          BY EventFacts
        <4> QED
          BY <3>3, <4>1, FirstBin
      <3>5. MadeTo(h, 0) = FineFrom(First(h))
        BY <3>2, MadeToFacts
      <3>6. bn'.beg = MadeTo(h, Len(AllBins'))
        BY <2>2, <2>3, <3>1, <3>2, <3>3, <3>4, <3>5
      <3>7. 1..Len(AllBins') = {}
        BY <2>3, <3>1
      <3> QED
        BY <2>1, <2>4, <3>6, <3>7 DEF OrderInv, MadeTo
    <2>6. CASE g # <<>>
      <3>1. h # <<>> /\ First(h) = First(g)
        BY <2>1, <2>4, <2>6, AppendFacts
      <3>2. \A n : MadeTo(h, n) = MadeTo(g, n)
        BY <3>1 DEF MadeTo
      <3>3. PICK all : all = AllBins
        OBVIOUS
      <3>4. /\ \A i \in 1..Len(all) :
                 /\ all[i].beg % BinLen = 0 /\ RangeBeg <= all[i].beg
                 /\ \A j \in 1..Len(all) : i < j => all[i].end <= all[j].beg
            /\ cnt_zero =>
                 /\ bn.beg = MadeTo(h, Len(all))
                 /\ \A i \in 1..Len(all) : all[i].beg = MadeTo(h, i - 1)
        BY <1>1, <2>6, <3>2, <3>3 DEF OrderInv
      <3>5. /\ cnt_zero' =>
                 /\ bn'.beg = MadeTo(h, Len(all))
                 /\ \A i \in 1..Len(all) : all[i].beg = MadeTo(h, i - 1)
        BY <2>2, <3>4, Zenon
      <3> QED
        BY <2>1, <2>3, <2>4, <3>3, <3>4, <3>5 DEF OrderInv, MadeTo
    <2> QED
      BY <2>5, <2>6
  <1>5. ASSUME Output \/ Remains PROVE OrderInv'
    <2>1. UNCHANGED <<evs, bn, seen, cnt_zero>> /\ fine' = fine \o out /\ out' = <<>>
      BY <1>5 DEF Output, Remains, HandOn
    <2>2. AllBins' = AllBins
      <3>1. fine \o out \in Seq(Bins)
        BY AllFacts DEF AllBins
      <3> QED
        BY <2>1, <3>1, ConcatEmptySeq DEF AllBins
    <2>3. Ingested' = Ingested
      BY <2>1 DEF Ingested
    <2> QED
      BY <2>1, <2>2, <2>3, OrderSame
  <1>6. ASSUME EosCycle PROVE OrderInv'
    <2>1. /\ Ingested # <<>> /\ RangeEnd \in Nat /\ End(bn) <= RangeEnd
          /\ Len(out) <= OutMax /\ PutBin(RangeEnd)
          /\ UNCHANGED <<phase, cnt_zero, evs, more, fine, coarse, seen, nleft>>
      BY <1>6, EosCycleFacts
    <2>2. RangeEnd <= RangeEnd
      BY <2>1
    <2> QED
      BY <2>1, <2>2, OrderPut
  <1>7. ASSUME Eos \/ EosCycled \/ Fail \/ RemainsDone \/ Terminated \/ UNCHANGED vars
        PROVE  OrderInv'
    <2>1. UNCHANGED <<evs, bn, seen, cnt_zero, out, fine>>
      BY <1>7 DEF Eos, EosCycled, Fail, RemainsDone, Terminated, vars
    <2>2. Ingested' = Ingested /\ AllBins' = AllBins
      BY <2>1 DEF Ingested, AllBins
    <2> QED
      BY <2>1, <2>2, OrderSame
  <1> QED
    BY <1>2, <1>3, <1>4, <1>5, <1>6, <1>7 DEF Next

LEMMA OrderInit == ASSUME Init PROVE OrderInv
  <1>1. Ingested = <<>>
    BY InitCore, SplitFacts DEF Init, Core
  <1>2. AllBins = <<>> /\ Len(<<>>) = 0
    BY EmptySeq, ConcatEmptySeq DEF Init, AllBins
  <1> QED
    BY <1>1, <1>2 DEF OrderInv
-----------------------------------------------------------------------------
(* The end of the input: how many bins are left, in the first call of      *)
(* cycle_01 and in the second one.                                         *)
Left(n) == bn.beg + n * BinLen = RangeEnd

EndCount ==
    /\ phase = "Cycling" /\ more => \E n \in Nat : Left(n) /\ nleft = n + Len(out)
    /\ phase = "Remains" /\ more => \E n \in Nat : Left(n) /\ nleft = n + (OutMax + 1)
    /\ phase = "Cycling" /\ ~more =>
         \E n \in Nat : Left(n) /\ nleft = (n + Len(out)) + (OutMax + 1)
    /\ phase \in {"Remains", "Done"} /\ ~more =>
         \E n \in Nat : Left(n) /\ (n = 0 \/ nleft = n + 2 * (OutMax + 1))
    /\ phase = "Panic" => nleft = OutMax + 1
    /\ phase \in {"Cycling", "Remains", "Done"} =>
         LastTs(Ingested) < (RangeEnd - nleft * BinLen) + BinLen

EndInv ==
    /\ phase \in {"Reading", "Done"} => out = <<>>
    /\ phase \in {"Reading", "Buffered", "Done"} => ~more
    /\ phase \in {"Reading", "Buffered"} => nleft = 0
    /\ phase = "Remains" /\ more => Len(out) = OutMax + 1
    /\ cnt_zero /\ Ingested # <<>> => EndCount

LEMMA UntilEnd ==
    ASSUME IInv, Ingested # <<>>
    PROVE  /\ LastTs(Ingested) \in Int /\ LastTs(Ingested) < RangeEnd
           /\ LastTs(Ingested) < bn.beg + BinLen
           /\ bn.beg \in Nat /\ bn.until \in Nat /\ RangeEnd \in Nat /\ bn.beg <= bn.until
           /\ bn.beg <= RangeEnd
           /\ bn.until < RangeEnd <=> bn.beg < RangeEnd
  <1>1. PICK g \in Increase : g = Ingested /\ g # <<>>
    BY SplitFacts DEF IInv, Core
  <1>2. LastTs(g) \in Int /\ LastTs(g) < RangeEnd
    <2>1. Len(g) \in 1..Len(g) /\ LastTs(g) \in Int
      BY <1>1, FirstFacts
    <2>2. g[Len(g)] \in Events
      BY <2>1 DEF Increase
    <2> QED
      BY <2>1, <2>2, EventFacts DEF LastTs
  <1>3. /\ LastTs(g) < bn.beg + BinLen
        /\ bn.until = IF LastTs(g) <= bn.beg THEN bn.beg ELSE LastTs(g)
    BY <1>1 DEF IInv, Core, BinsInv, Active, End
  <1>4. bn.beg \in Nat /\ bn.until \in Nat /\ RangeEnd \in Nat /\ bn.beg <= RangeEnd
    BY ConstFacts DEF IInv, Core, StateTypes, Actives
  <1> QED
    BY <1>1, <1>2, <1>3, <1>4

LEMMA LeftFacts ==
    ASSUME IInv, NEW n \in Nat, Left(n)
    PROVE  /\ n = 0 <=> bn.beg = RangeEnd
           /\ bn.beg < RangeEnd => n - 1 \in Nat /\ (bn.beg + BinLen) + (n - 1) * BinLen = RangeEnd
  <1>1. bn.beg \in Nat /\ RangeEnd \in Nat /\ BinLen \in Nat \ {0}
    BY ConstFacts DEF IInv, Core, StateTypes, Actives
  <1>2. PICK a \in Nat : a = bn.beg
    BY <1>1
  <1>3. a + n * BinLen = RangeEnd
    BY <1>2 DEF Left
  <1>4. CASE n = 0
    <2>1. n * BinLen = 0
      BY <1>1, <1>4
    <2> QED
      BY <1>1, <1>2, <1>3, <1>4, <2>1
  <1>5. CASE n # 0
    <2>1. PICK m \in Nat : n = m + 1 /\ m = n - 1
      <3>1. n - 1 \in Nat /\ n = (n - 1) + 1
        BY <1>5
      <3> QED
        BY <3>1
    <2>2. PICK k \in Nat : k = m * BinLen
      BY <1>1
    <2>3. (m + 1) * BinLen = k + BinLen
      BY <1>1, <2>2
    <2>4. a + (k + BinLen) = RangeEnd
      BY <1>3, <2>1, <2>3
    <2> QED
      BY <1>1, <1>2, <1>5, <2>1, <2>2, <2>4
  <1> QED
    BY <1>4, <1>5

LEMMA EndInit == ASSUME Init PROVE EndInv
  <1>1. Ingested = <<>>
    BY InitCore, SplitFacts DEF Init, Core
  <1>2. ~more
    BY DEF Init
  <1> QED
    BY <1>1, <1>2 DEF Init, EndInv

LEMMA EndEos == ASSUME IInv, EndInv, Eos PROVE EndInv'
  <1>1. /\ phase = "Reading" /\ out = <<>> /\ ~more /\ nleft = 0
        /\ UNCHANGED <<cnt_zero, evs, bn, out, fine, coarse, seen>>
    BY DEF Eos, EndInv
  <1>2. PICK g \in Increase : g = Ingested /\ Ingested' = g
    BY <1>1, SplitFacts DEF IInv, Core, Ingested
  <1>3. CASE g = <<>>
    <2>1. phase' = "Remains" /\ more' = more
      BY <1>2, <1>3, LstIsSet DEF Eos
    <2>2. ~more'
      BY <1>1, <2>1, Zenon
    <2> QED
      BY <1>2, <1>3, <2>1, <2>2 DEF EndInv
  <1>4. CASE g # <<>>
    <2>1. /\ CallCycle /\ more' /\ nleft' = (RangeEnd - bn.beg) \div BinLen
      BY <1>2, <1>4, LstIsSet DEF Eos
    <2>2. /\ LastTs(g) \in Int /\ LastTs(g) < RangeEnd /\ LastTs(g) < bn.beg + BinLen
          /\ bn.beg \in Nat /\ bn.until \in Nat /\ RangeEnd \in Nat /\ bn.beg <= RangeEnd
          /\ bn.until < RangeEnd <=> bn.beg < RangeEnd
      BY <1>2, <1>4, UntilEnd
    <2>3. bn.beg < RangeEnd
      <3>1. bn.beg = RangeBeg \/ bn.beg <= LastTs(g) \/ (evs # <<>> /\ bn.beg <= Head(evs).ts)
        BY <1>1, <1>2, <1>4 DEF IInv, Following
      <3>2. evs = <<>>
        BY <1>1 DEF IInv, Core, StateTypes
      <3> QED
        BY <2>2, <3>1, <3>2, RangeFacts
    <2>4. phase' = "Cycling"
      BY <2>1, <2>2, <2>3 DEF CallCycle, CycleAssert
    <2>5. PICK n \in Nat : n = nleft' /\ bn.beg + n * BinLen = RangeEnd
      <3>1. PICK a \in Int : a = bn.beg /\ a % BinLen = 0 /\ a <= RangeEnd
        BY <2>2 DEF IInv, Core, StateTypes
      <3>2. BinLen \in Nat \ {0} /\ RangeEnd \in Int /\ RangeEnd % BinLen = 0
        BY ConstFacts, RangeFacts
      <3>3. PICK q \in Int, r \in Int : a = q * BinLen /\ RangeEnd = r * BinLen
        <4>1. a = (a \div BinLen) * BinLen /\ RangeEnd = (RangeEnd \div BinLen) * BinLen
          BY <3>1, <3>2
        <4>2. a \div BinLen \in Int /\ RangeEnd \div BinLen \in Int
          BY <3>1, <3>2
        <4> QED
          BY <4>1, <4>2
      <3>4. RangeEnd - a = (r - q) * BinLen
        BY <3>2, <3>3
      <3>5. PICK d \in Int : d = r - q
        OBVIOUS
      <3>6. (d * BinLen) \div BinLen = d
        BY <3>2
      <3>7. d >= 0
        <4>1. CASE d + 1 <= 0
          <5>1. (d + 1) * BinLen <= 0 * BinLen
            BY <3>2, <4>1, MulMono
          <5>2. (d + 1) * BinLen = d * BinLen + BinLen /\ 0 * BinLen = 0
            BY <3>2
          <5> QED
            BY <3>1, <3>2, <3>4, <3>5, <5>1, <5>2
        <4> QED
          BY <3>5, <4>1
      <3>8. nleft' = d
        BY <2>1, <3>1, <3>4, <3>5, <3>6
      <3>9. a + d * BinLen = RangeEnd
        BY <3>1, <3>2, <3>4, <3>5
      <3> QED
        BY <3>1, <3>5, <3>7, <3>8, <3>9
    <2>6. \E m \in Nat : Left(m)' /\ nleft' = m + Len(out')
      <3>1. bn'.beg + n * BinLen = RangeEnd
        BY <1>1, <2>5
      <3>2. Left(n)'
        BY <3>1 DEF Left
      <3>3. Len(out') = 0 /\ nleft' = n
        BY <1>1, <2>5
      <3>4. nleft' = n + Len(out')
        BY <3>3
      <3> QED
        BY <3>2, <3>4
    <2>7. LastTs(g) < (RangeEnd - nleft' * BinLen) + BinLen
      <3>1. PICK k \in Nat : k = n * BinLen
        BY ConstFacts
      <3>2. bn.beg + k = RangeEnd
        BY <2>5, <3>1
      <3>3. LastTs(g) < (RangeEnd - k) + BinLen
        BY <2>2, <3>2, ConstFacts
      <3> QED
        BY <2>5, <3>1, <3>3
    <2>8. EndCount'
      BY <1>2, <2>1, <2>4, <2>6, <2>7 DEF EndCount, LastTs
    <2> QED
      BY <2>4, <2>8 DEF EndInv
  <1> QED
    BY <1>3, <1>4

LEMMA EndCycle == ASSUME IInv, EndInv, EosCycle PROVE EndInv'
  <1>1. /\ Ingested # <<>> /\ RangeEnd \in Nat /\ End(bn) <= RangeEnd
        /\ Len(out) <= OutMax /\ PutBin(RangeEnd)
        /\ UNCHANGED <<phase, cnt_zero, evs, more, fine, coarse, seen, nleft>>
        /\ phase = "Cycling"
    BY EosCycleFacts DEF EosCycle
  <1>2. Ingested' = Ingested
    BY <1>1 DEF Ingested
  <1>3. ASSUME cnt_zero PROVE EndCount'
    <2>1. bn'.beg = bn.beg + BinLen /\ Len(out') = Len(out) + 1 /\ Len(out) \in Nat
      <3>1. RangeEnd <= RangeEnd
        BY <1>1
      <3> QED
        BY <1>1, <1>3, <3>1, PutBinKeeps, AllFacts
    <2>2. EndCount
      BY <1>1, <1>3 DEF EndInv
    <2>3. bn.beg \in Nat /\ BinLen \in Nat \ {0} /\ bn.beg < RangeEnd /\ OutMax \in Nat
      BY <1>1, ConstFacts DEF IInv, Core, StateTypes, Actives, End
    <2>4. ASSUME NEW n \in Nat, Left(n) PROVE n - 1 \in Nat /\ Left(n - 1)'
      BY <2>1, <2>3, <2>4, LeftFacts DEF Left
    <2>5. ASSUME more PROVE \E n \in Nat : Left(n)' /\ nleft' = n + Len(out')
      <3>1. PICK n \in Nat : Left(n) /\ nleft = n + Len(out)
        BY <1>1, <2>2, <2>5 DEF EndCount
      <3>2. n - 1 \in Nat /\ Left(n - 1)'
        BY <2>4, <3>1
      <3>3. nleft' = (n - 1) + Len(out')
        BY <1>1, <2>1, <3>1
      <3> QED
        BY <3>2, <3>3
    <2>6. ASSUME ~more
          PROVE  \E n \in Nat : Left(n)' /\ nleft' = (n + Len(out')) + (OutMax + 1)
      <3>1. PICK n \in Nat : Left(n) /\ nleft = (n + Len(out)) + (OutMax + 1)
        BY <1>1, <2>2, <2>6 DEF EndCount
      <3>2. n - 1 \in Nat /\ Left(n - 1)'
        BY <2>4, <3>1
      <3>3. nleft' = ((n - 1) + Len(out')) + (OutMax + 1)
        BY <1>1, <2>1, <3>1
      <3> QED
        BY <3>2, <3>3
    <2>7. LastTs(Ingested)' < (RangeEnd - nleft' * BinLen) + BinLen
      BY <1>1, <1>2, <2>2 DEF EndCount, LastTs
    <2>8. more' = more /\ phase' = "Cycling"
      BY <1>1
    <2>9. /\ more' => \E n \in Nat : Left(n)' /\ nleft' = n + Len(out')
          /\ ~more' => \E n \in Nat : Left(n)' /\ nleft' = (n + Len(out')) + (OutMax + 1)
      BY <2>5, <2>6, <2>8, Zenon
    <2> QED
      BY <2>7, <2>8, <2>9 DEF EndCount
  <1>4. cnt_zero' => EndCount'
    BY <1>1, <1>3, Zenon
  <1> QED
    BY <1>1, <1>4 DEF EndInv

LEMMA EndCycled == ASSUME IInv, EndInv, EosCycled PROVE EndInv'
  <1>1. /\ phase = "Cycling" /\ phase' = "Remains"
        /\ (Len(out) > OutMax \/ bn.until >= RangeEnd)
        /\ more' = (more /\ Len(out) > OutMax)
        /\ UNCHANGED <<cnt_zero, evs, bn, out, fine, coarse, seen, nleft>>
    BY DEF EosCycled
  <1>2. Ingested' = Ingested /\ Ingested # <<>>
    BY <1>1 DEF Ingested, IInv, Following
  <1>3. Len(out) \in Nat /\ Len(out) <= OutMax + 1 /\ OutMax \in Nat
    BY AllFacts, ConstFacts DEF IInv, Core, StateTypes
  <1>4. Len(out) > OutMax => Len(out) = OutMax + 1
    BY <1>3
  <1>5. bn.until >= RangeEnd => bn.beg = RangeEnd
    BY <1>2, UntilEnd
  <1>6. more' => Len(out') = OutMax + 1
    <2>1. more' => Len(out) > OutMax
      BY <1>1, Zenon
    <2> QED
      BY <1>1, <1>4, <2>1
  <1>7. ASSUME cnt_zero PROVE EndCount'
    <2>1. EndCount
      BY <1>2, <1>7 DEF EndInv
    <2>2. \A n : Left(n)' <=> Left(n)
      BY <1>1 DEF Left
    <2>3. LastTs(Ingested)' < (RangeEnd - nleft' * BinLen) + BinLen
      BY <1>1, <1>2, <2>1 DEF EndCount, LastTs
    <2>4. CASE more
      <3>1. PICK n \in Nat : Left(n) /\ nleft = n + Len(out)
        BY <1>1, <2>1, <2>4 DEF EndCount
      <3>2. CASE Len(out) > OutMax
        <4>1. more'
          BY <1>1, <2>4, <3>2, Zenon
        <4>2. nleft' = n + (OutMax + 1) /\ Left(n)'
          BY <1>1, <1>4, <2>2, <3>1, <3>2
        <4> QED
          BY <1>1, <2>3, <4>1, <4>2 DEF EndCount
      <3>3. CASE ~(Len(out) > OutMax)
        <4>1. ~more'
          BY <1>1, <3>3, Zenon
        <4>2. n = 0 /\ Left(n)'
          BY <1>1, <1>5, <2>2, <3>1, <3>3, LeftFacts
        <4> QED
          BY <1>1, <2>3, <4>1, <4>2 DEF EndCount
      <3> QED
        BY <3>2, <3>3
    <2>5. CASE ~more
      <3>1. PICK n \in Nat : Left(n) /\ nleft = (n + Len(out)) + (OutMax + 1)
        BY <1>1, <2>1, <2>5 DEF EndCount
      <3>2. ~more'
        BY <1>1, <2>5, Zenon
      <3>3. n = 0 \/ nleft = n + 2 * (OutMax + 1)
        <4>1. CASE Len(out) > OutMax
          BY <1>3, <1>4, <3>1, <4>1
        <4>2. CASE ~(Len(out) > OutMax)
          BY <1>1, <1>5, <3>1, <4>2, LeftFacts
        <4> QED
          BY <4>1, <4>2
      <3>4. Left(n)' /\ (n = 0 \/ nleft' = n + 2 * (OutMax + 1))
        BY <1>1, <2>2, <3>1, <3>3
      <3> QED
        BY <1>1, <2>3, <3>2, <3>4 DEF EndCount
    <2> QED
      BY <2>4, <2>5
  <1>8. cnt_zero' => EndCount'
    BY <1>1, <1>7, Zenon
  <1> QED
    BY <1>1, <1>6, <1>8 DEF EndInv

LEMMA EndRemains == ASSUME IInv, EndInv, Remains PROVE EndInv'
  <1>1. /\ phase = "Remains" /\ out' = <<>> /\ ~more'
        /\ IF more THEN CallCycle ELSE phase' = phase
        /\ UNCHANGED <<cnt_zero, evs, bn, seen, nleft>>
    BY DEF Remains, HandOn
  <1>2. Ingested' = Ingested /\ (more => Ingested # <<>>)
    BY <1>1 DEF Ingested, IInv, Following
  <1>3. phase' \in {"Cycling", "Panic", "Remains"} /\ Len(out') = 0
    BY <1>1 DEF CallCycle
  <1>4. ASSUME cnt_zero, Ingested # <<>> PROVE EndCount'
    <2>1. EndCount
      BY <1>4 DEF EndInv
    <2>2. \A n : Left(n)' <=> Left(n)
      BY <1>1 DEF Left
    <2>3. LastTs(Ingested)' < (RangeEnd - nleft' * BinLen) + BinLen
      BY <1>1, <1>2, <2>1 DEF EndCount, LastTs
    <2>4. CASE more
      <3>1. PICK n \in Nat : Left(n) /\ nleft = n + (OutMax + 1)
        BY <1>1, <2>1, <2>4 DEF EndCount
      <3>2. phase' = IF CycleAssert(RangeEnd) THEN "Cycling" ELSE "Panic"
        BY <1>1, <2>4 DEF CallCycle
      <3>3. CASE CycleAssert(RangeEnd)
        <4>1. Left(n)' /\ nleft' = (n + Len(out')) + (OutMax + 1)
          BY <1>1, <1>3, <2>2, <3>1, ConstFacts
        <4> QED
          BY <1>1, <2>3, <3>2, <3>3, <4>1 DEF EndCount
      <3>4. CASE ~CycleAssert(RangeEnd)
        <4>1. n = 0
          <5>1. bn.beg = RangeEnd
            BY <1>4, <3>4, UntilEnd DEF CycleAssert
          <5> QED
            BY <3>1, <5>1, LeftFacts
        <4>2. nleft' = OutMax + 1
          BY <1>1, <3>1, <4>1, ConstFacts
        <4> QED
          BY <3>2, <3>4, <4>2 DEF EndCount
      <3> QED
        BY <3>3, <3>4
    <2>5. CASE ~more
      <3>1. phase' = "Remains"
        BY <1>1, <2>5
      <3>2. PICK n \in Nat : Left(n) /\ (n = 0 \/ nleft = n + 2 * (OutMax + 1))
        BY <1>1, <2>1, <2>5 DEF EndCount
      <3>3. Left(n)' /\ (n = 0 \/ nleft' = n + 2 * (OutMax + 1))
        BY <1>1, <2>2, <3>2
      <3> QED
        BY <1>1, <2>3, <3>1, <3>3 DEF EndCount
    <2> QED
      BY <2>4, <2>5
  <1>5. cnt_zero' /\ Ingested' # <<>> => EndCount'
    BY <1>1, <1>2, <1>4, Zenon
  <1> QED
    BY <1>1, <1>3, <1>5 DEF EndInv

LEMMA EndDone == ASSUME IInv, EndInv, RemainsDone PROVE EndInv'
  <1>1. /\ phase = "Remains" /\ out = <<>> /\ phase' = "Done"
        /\ UNCHANGED <<cnt_zero, evs, bn, out, more, fine, seen, nleft>>
    BY DEF RemainsDone
  <1>2. Ingested' = Ingested
    BY <1>1 DEF Ingested
  <1>3. ~more
    <2>1. Len(out) = 0 /\ OutMax \in Nat
      BY <1>1, ConstFacts
    <2>2. more => Len(out) = OutMax + 1
      BY <1>1 DEF EndInv
    <2> QED
      BY <2>1, <2>2
  <1>4. ~more'
    BY <1>1, <1>3, Zenon
  <1>5. ASSUME cnt_zero, Ingested # <<>> PROVE EndCount'
    <2>1. EndCount
      BY <1>5 DEF EndInv
    <2>2. PICK n \in Nat : Left(n) /\ (n = 0 \/ nleft = n + 2 * (OutMax + 1))
      BY <1>1, <1>3, <2>1 DEF EndCount
    <2>3. Left(n)' /\ (n = 0 \/ nleft' = n + 2 * (OutMax + 1))
      BY <1>1, <2>2 DEF Left
    <2>4. LastTs(Ingested)' < (RangeEnd - nleft' * BinLen) + BinLen
      BY <1>1, <1>2, <2>1 DEF EndCount, LastTs
    <2> QED
      BY <1>1, <1>4, <2>3, <2>4 DEF EndCount
  <1>6. cnt_zero' /\ Ingested' # <<>> => EndCount'
    BY <1>1, <1>2, <1>5, Zenon
  <1> QED
    BY <1>1, <1>4, <1>6 DEF EndInv

LEMMA EndNext == ASSUME IInv, EndInv, [Next]_vars PROVE EndInv'
  <1>1. ASSUME (\E c \in Chunks : Data(c)) \/ IngestCycle \/ IngestEvent PROVE EndInv'
    <2>1. /\ phase \in {"Reading", "Buffered"} /\ phase' = "Buffered"
          /\ UNCHANGED <<more, nleft>>
      BY <1>1 DEF Data, IngestCycle, IngestEvent
    <2>2. ~more /\ nleft = 0
      BY <2>1 DEF EndInv
    <2>3. ~more' /\ nleft' = 0
      BY <2>1, <2>2, Zenon
    <2>4. EndCount'
      BY <2>1 DEF EndCount
    <2> QED
      BY <2>1, <2>3, <2>4 DEF EndInv
  <1>2. ASSUME Output PROVE EndInv'
    <2>1. /\ phase = "Buffered" /\ phase' \in {"Reading", "Buffered"} /\ out' = <<>>
          /\ UNCHANGED <<more, nleft>>
      BY <1>2 DEF Output, HandOn
    <2>2. ~more /\ nleft = 0
      BY <2>1 DEF EndInv
    <2>3. ~more' /\ nleft' = 0
      BY <2>1, <2>2, Zenon
    <2>4. EndCount'
      BY <2>1 DEF EndCount
    <2> QED
      BY <2>1, <2>3, <2>4 DEF EndInv
  <1>3. ASSUME Fail PROVE EndInv'
    <2>1. phase' = "Failed"
      BY <1>3 DEF Fail
    <2> QED
      BY <2>1 DEF EndInv, EndCount
  <1>4. ASSUME UNCHANGED vars PROVE EndInv'
    <2>1. Ingested' = Ingested
      BY <1>4 DEF Ingested, vars
    <2>2. UNCHANGED <<phase, out, more, nleft, cnt_zero, bn>>
      BY <1>4 DEF vars
    <2>3. EndCount' <=> EndCount
      BY <2>1, <2>2 DEF EndCount, Left, LastTs
    <2> QED
      BY <2>1, <2>2, <2>3 DEF EndInv
  <1>5. Terminated => UNCHANGED vars
    BY DEF Terminated
  <1> QED
    BY <1>1, <1>2, <1>3, <1>4, <1>5, EndEos, EndCycle, EndCycled, EndRemains, EndDone DEF Next

(* Without events cycle_01 is not called at all.                           *)
PanicInv == phase = "Panic" => Ingested # <<>>

LEMMA PanicNext == ASSUME IInv, PanicInv, [Next]_vars PROVE PanicInv'
  <1>1. SUFFICES ASSUME phase' = "Panic" PROVE Ingested' # <<>>
    BY DEF PanicInv
  <1>2. CASE Eos
    <2>1. bn.lst # NoVal /\ UNCHANGED <<evs, seen>>
      BY <1>1, <1>2 DEF Eos
    <2> QED
      BY <2>1, LstIsSet DEF Ingested
  <1>3. CASE Remains
    <2>1. more /\ UNCHANGED <<evs, seen>>
      BY <1>1, <1>3 DEF Remains
    <2>2. Ingested = <<>> => ~more
      BY DEF IInv, Following
    <2> QED
      BY <2>1, <2>2 DEF Ingested
  <1>4. CASE Terminated \/ UNCHANGED vars
    <2>1. UNCHANGED <<phase, evs, seen>>
      BY <1>4 DEF Terminated, vars
    <2> QED
      BY <1>1, <2>1 DEF PanicInv, Ingested
  <1>5. ~(\E c \in Chunks : Data(c))
    BY <1>1 DEF Data
  <1>6. ~Fail /\ ~IngestCycle /\ ~IngestEvent /\ ~Output /\ ~EosCycle /\ ~EosCycled /\ ~RemainsDone
    BY <1>1 DEF Fail, IngestCycle, IngestEvent, Output, EosCycle, EosCycled, RemainsDone
  <1> QED
    BY <1>2, <1>3, <1>4, <1>5, <1>6 DEF Next
-----------------------------------------------------------------------------
(* The binner of bins.                                                     *)
CoarseBins == [beg : Nat, end : Nat, cnt : Nat, min : MaybeVals, max : MaybeVals,
               sum : Nat, width : Nat, lst : MaybeVals, fnl : BOOLEAN]
Coarses == [beg : Nat, cnt : Nat, min : MaybeVals, max : MaybeVals, lst : MaybeVals,
            filled : Nat, sum : Nat, non_fnl : BOOLEAN, out : Seq(CoarseBins)]

CoarseInit == [beg |-> RangeBeg, cnt |-> 0, min |-> NoVal, max |-> NoVal,
               lst |-> NoVal, filled |-> 0, sum |-> 0, non_fnl |-> FALSE, out |-> <<>>]

(* The active coarse bin is that of t, the end of the bins ingested.       *)
Grown(c, t) ==
    /\ c.beg % CoarseLen = 0 /\ c.beg <= t /\ t < CoarseEnd(c)
    /\ c.filled <= t - c.beg

(* The weights are right if the series does not begin inside of a bin.     *)
Whole(g, a) == First(g) <= a \/ First(g) % BinLen = 0

(* What the active coarse bin knows of the events before t.                *)
Knows(g, c, t) ==
    LET held == HeldIn(g, c.beg, t) IN
    /\ FineFrom(First(g)) <= t
    /\ c.cnt = Cardinality(EventsIn(g, c.beg, t))
    /\ \/ t = c.beg
       \/ c.min = NoVal /\ held = {}
       \/ c.min # NoVal /\ IsLeast(c.min, held) /\ IsGreatest(c.max, held)
    /\ Whole(g, c.beg) => /\ c.sum = Scale * Integral(g, c.beg, t)
                          /\ c.filled = Cardinality(Ticks(g, c.beg, t))

(* A coarse bin that was put out, before a.                                *)
CoarseRight(g, b, a) ==
    /\ b.end = b.beg + CoarseLen /\ b.end <= a /\ First(g) < b.end
    /\ CountsMatch(g, b)
    /\ Whole(g, b.beg) => b.sum * Cardinality(Ticks(g, b.beg, b.end)) =
                            Scale * Integral(g, b.beg, b.end) * b.width

(* Every coarse bin with events was put out.                               *)
CoarseBegs(q) == {b.beg : b \in ToSet(q)}
EventBegs(g, a) == {Floor(g[i].ts, CoarseLen) : i \in EventsIn(g, RangeBeg, a)}

PutOut(g, c) ==
    /\ \A i \in 1..Len(c.out) : CoarseRight(g, c.out[i], c.beg)
    /\ CoarseBegs(c.out) = EventBegs(g, c.beg)

(* At the end, the active coarse bin is put out too, if it has events.     *)
Ended(c) == Finish([c EXCEPT !.non_fnl = TRUE], CoarseEnd(c))

(* The bins on their way to the coarse binner: At(k) is the end of the     *)
(* first k of them, OkAt what holds of the coarse binner after them.       *)
At(k) == IF k = 0 THEN RangeBeg ELSE AllBins[k].end

OkAt(c, k) ==
    /\ Grown(c, At(k))
    /\ k = 0 => c = CoarseInit
    /\ cnt_zero /\ k # 0 => Knows(Ingested, c, At(k)) /\ PutOut(Ingested, c)

CoarseInv ==
    \E c \in Coarses :
      OkAt(c, Len(fine)) /\ coarse = IF phase = "Done" THEN Ended(c) ELSE c

(* The bins that the events binner makes.                                  *)
GoodBins == {b \in Bins : /\ b.width \in 1..BinLen /\ b.end = b.beg + BinLen
                          /\ b.beg % BinLen = 0 /\ RangeBeg <= b.beg}

LEMMA CoarseConst ==
    /\ CoarseLen \in Nat \ {0} /\ BinLen \in Nat \ {0} /\ Scale \in Nat \ {0}
    /\ RangeBeg % CoarseLen = 0 /\ RangeEnd % CoarseLen = 0
    /\ RangeBeg \in Nat /\ RangeEnd \in Nat
    /\ \A x \in Int : x % CoarseLen = 0 => x % BinLen = 0
    /\ \A x \in Int : x % CoarseLen = 0 => (x + CoarseLen) % CoarseLen = 0
    /\ \A w \in 1..BinLen : Scale \div w \in Nat /\ w * (Scale \div w) = Scale
  <1>1. Coarse \in Nat \ {0} /\ BinLen \in Nat \ {0} /\ Scale \in Nat \ {0}
    BY BinAssumption
  <1>2. CoarseLen \in Nat \ {0}
    BY <1>1 DEF CoarseLen
  <1>3. ASSUME NEW x \in Int, x % CoarseLen = 0 PROVE x % BinLen = 0
    BY <1>1, <1>3, ModMultiple DEF CoarseLen
  <1>4. ASSUME NEW x \in Int, x % CoarseLen = 0 PROVE (x + CoarseLen) % CoarseLen = 0
    BY <1>2, <1>4, GridStep
  <1>5. ASSUME NEW w \in 1..BinLen PROVE Scale \div w \in Nat /\ w * (Scale \div w) = Scale
    <2>1. w \in Nat \ {0} /\ Scale % w = 0
      BY <1>1, BinAssumption
    <2>2. Scale \div w \in Nat
      BY <1>1, <2>1, LeftNat
    <2>3. Scale = w * (Scale \div w) + (Scale % w)
      BY <1>1, <2>1
    <2>4. PICK k \in Nat : k = Scale \div w
      BY <2>2
    <2>5. w * k \in Nat
      BY <2>1
    <2> QED
      BY <1>1, <2>1, <2>2, <2>3, <2>4, <2>5
  <1> QED
    BY <1>1, <1>2, <1>3, <1>4, <1>5, BinAssumption

LEMMA MinMaxTwo ==
    ASSUME NEW a \in Int, NEW b \in Int
    PROVE  /\ Min({a, b}) = IF a <= b THEN a ELSE b
           /\ Max({a, b}) = IF a >= b THEN a ELSE b
  <1>1. {a, b} \in SUBSET Int
    OBVIOUS
  <1>2. IsLeast(IF a <= b THEN a ELSE b, {a, b}) /\ IsGreatest(IF a >= b THEN a ELSE b, {a, b})
    BY DEF IsLeast, IsGreatest
  <1>3. Min({a, b}) = IF a <= b THEN a ELSE b
    BY <1>1, <1>2, MinIs
  <1>4. Max({a, b}) = IF a >= b THEN a ELSE b
    BY <1>1, <1>2, MaxIs
  <1> QED
    BY <1>3, <1>4

LEMMA MaybeFacts == \A v \in MaybeVals : v \in Int
  BY ConstFacts, NoValFacts DEF MaybeVals

(* The coarse bin that maybe_emit_active puts out.                         *)
Emitted(c) == [beg |-> c.beg, end |-> CoarseEnd(c), cnt |-> c.cnt, min |-> c.min,
               max |-> c.max, sum |-> c.sum, width |-> c.filled, lst |-> c.lst,
               fnl |-> ~c.non_fnl]

LEMMA FinishFacts ==
    ASSUME NEW c \in Coarses, NEW ts \in Nat
    PROVE  LET r == Finish(c, ts) IN
           /\ r \in Coarses /\ r.beg = Floor(ts, CoarseLen)
           /\ r.cnt = 0 /\ r.sum = 0 /\ r.filled = 0
           /\ r.min = c.lst /\ r.max = c.lst /\ r.lst = c.lst
           /\ r.out = IF c.cnt = 0 THEN c.out ELSE Append(c.out, Emitted(c))
           /\ c.out \in Seq(CoarseBins) /\ Emitted(c) \in CoarseBins
  <1>1. PICK q : q = IF c.cnt = 0 THEN c.out ELSE Append(c.out, Emitted(c))
    OBVIOUS
  <1>2. c.out \in Seq(CoarseBins) /\ c.beg \in Nat /\ CoarseLen \in Nat \ {0}
    BY CoarseConst DEF Coarses
  <1>3. CoarseEnd(c) \in Nat
    BY <1>2 DEF CoarseEnd
  <1>4. Emitted(c) \in CoarseBins
    <2>1. (~c.non_fnl) \in BOOLEAN
      BY DEF Coarses
    <2>2. PICK f \in BOOLEAN : f = ~c.non_fnl
      BY <2>1
    <2>3. Emitted(c) = [beg |-> c.beg, end |-> CoarseEnd(c), cnt |-> c.cnt, min |-> c.min,
                        max |-> c.max, sum |-> c.sum, width |-> c.filled, lst |-> c.lst,
                        fnl |-> f]
      BY <2>2 DEF Emitted
    <2> QED
      BY <1>3, <2>3 DEF CoarseBins, Coarses
  <1>5. q \in Seq(CoarseBins)
    BY <1>1, <1>2, <1>4
  <1>6. PICK e : e = Emit(c)
    OBVIOUS
  <1>7. e = [c EXCEPT !.out = q, !.cnt = 0, !.sum = 0, !.filled = 0]
    BY <1>1, <1>6 DEF Emit, Emitted
  <1>8. /\ e \in Coarses /\ e.out = q /\ e.cnt = 0 /\ e.sum = 0 /\ e.filled = 0 /\ e.lst = c.lst
    BY <1>5, <1>7 DEF Coarses
  <1>9. PICK f \in Nat : f = Floor(ts, CoarseLen)
    <2>1. ts \div CoarseLen \in Nat
      BY <1>2, LeftNat
    <2>2. PICK k \in Nat : k = ts \div CoarseLen
      BY <2>1
    <2>3. k * CoarseLen \in Nat
      BY <1>2
    <2> QED
      BY <2>2, <2>3 DEF Floor
  <1>10. PICK r : r = Finish(c, ts)
    OBVIOUS
  <1>11. r = [e EXCEPT !.min = c.lst, !.max = c.lst, !.beg = f, !.non_fnl = FALSE]
    BY <1>6, <1>8, <1>9, <1>10 DEF Finish, Forward
  <1>12. /\ r \in Coarses /\ r.beg = f /\ r.cnt = 0 /\ r.sum = 0 /\ r.filled = 0
         /\ r.min = c.lst /\ r.max = c.lst /\ r.lst = c.lst /\ r.out = q
    BY <1>8, <1>11 DEF Coarses
  <1> QED
    BY <1>1, <1>2, <1>4, <1>9, <1>10, <1>12

(* A bin is added to the active coarse bin.                                *)
LEMMA AddFacts ==
    ASSUME NEW c \in Coarses, NEW b \in GoodBins
    PROVE  LET r == CoarseAdd(c, b)
               at == b.beg = c.beg \/ c.min = NoVal
           IN
           /\ r \in Coarses /\ r.beg = c.beg /\ r.cnt = c.cnt + b.cnt
           /\ r.filled = c.filled + BinLen /\ r.lst = b.lst /\ r.out = c.out
           /\ r.sum = c.sum + (BinLen * b.sum) * (Scale \div b.width)
           /\ r.min = IF at \/ b.min < c.min THEN b.min ELSE c.min
           /\ r.max = IF at \/ b.max > c.max THEN b.max ELSE c.max
           /\ r.min \in Int /\ r.max \in Int
  <1>1. /\ c.cnt \in Nat /\ c.filled \in Nat /\ c.sum \in Nat /\ c.min \in MaybeVals
        /\ c.max \in MaybeVals
    BY DEF Coarses
  <1>2. /\ b.cnt \in Nat /\ b.sum \in Nat /\ b.width \in 1..BinLen /\ b.min \in Vals
        /\ b.max \in Vals /\ b.lst \in Vals /\ b.beg \in Nat /\ b.end = b.beg + BinLen
        /\ BinLen \in Nat \ {0}
    BY CoarseConst DEF GoodBins, Bins
  <1>3. c.min \in Int /\ c.max \in Int /\ b.min \in Int /\ b.max \in Int
        /\ b.min \in MaybeVals /\ b.max \in MaybeVals /\ b.lst \in MaybeVals
    <2>1. b.min \in MaybeVals /\ b.max \in MaybeVals /\ b.lst \in MaybeVals
      BY <1>2 DEF MaybeVals
    <2> QED
      BY <1>1, <2>1, MaybeFacts
  <1>4. PICK k \in Nat : k = Scale \div b.width
    BY <1>2, CoarseConst
  <1>5. PICK y \in Nat : y = BinLen * b.sum
    BY <1>2
  <1>6. PICK z \in Nat : z = y * k
    OBVIOUS
  <1>7. c.sum + z \in Nat /\ c.cnt + b.cnt \in Nat /\ c.filled + BinLen \in Nat
    BY <1>1, <1>2
  <1>8. PICK s \in Nat, n \in Nat, f \in Nat :
           s = c.sum + z /\ n = c.cnt + b.cnt /\ f = c.filled + BinLen
    BY <1>7
  <1>9. b.end - b.beg = BinLen
    BY <1>2
  <1>10. PICK p : p = IF b.beg = c.beg \/ c.min = NoVal THEN b.min ELSE Min({c.min, b.min})
    OBVIOUS
  <1>11. PICK q : q = IF b.beg = c.beg \/ c.min = NoVal THEN b.max ELSE Max({c.max, b.max})
    OBVIOUS
  <1>12. /\ Min({c.min, b.min}) = IF c.min <= b.min THEN c.min ELSE b.min
         /\ Max({c.max, b.max}) = IF c.max >= b.max THEN c.max ELSE b.max
    BY <1>3, MinMaxTwo
  <1>13. p = IF (b.beg = c.beg \/ c.min = NoVal) \/ b.min < c.min THEN b.min ELSE c.min
    BY <1>3, <1>10, <1>12
  <1>14. q = IF (b.beg = c.beg \/ c.min = NoVal) \/ b.max > c.max THEN b.max ELSE c.max
    BY <1>3, <1>11, <1>12
  <1>15. p \in MaybeVals /\ q \in MaybeVals /\ p \in Int /\ q \in Int
    BY <1>1, <1>3, <1>13, <1>14
  <1>16. PICK r : r = CoarseAdd(c, b)
    OBVIOUS
  <1>17. r = [c EXCEPT !.min = p, !.max = q, !.cnt = n, !.filled = f, !.sum = s, !.lst = b.lst]
    BY <1>4, <1>5, <1>6, <1>8, <1>9, <1>10, <1>11, <1>16 DEF CoarseAdd
  <1>18. /\ r \in Coarses /\ r.beg = c.beg /\ r.cnt = n /\ r.filled = f /\ r.lst = b.lst
         /\ r.out = c.out /\ r.sum = s /\ r.min = p /\ r.max = q
    BY <1>3, <1>15, <1>17 DEF Coarses
  <1> QED
    BY <1>4, <1>5, <1>6, <1>8, <1>13, <1>14, <1>15, <1>16, <1>18

(* ingest_bins: to the coarse bin of b, and on if b ends it.               *)
Opened(c, b) == IF b.beg >= CoarseEnd(c) THEN Finish(c, b.beg) ELSE c
Closed(c, b) == IF b.end >= CoarseEnd(c) THEN Finish(c, b.end) ELSE c

LEMMA OpenFacts ==
    ASSUME NEW c \in Coarses, NEW b \in GoodBins, c.beg % CoarseLen = 0, c.beg <= b.beg
    PROVE  LET o == Opened(c, b) IN
           /\ o \in Coarses /\ o.beg % CoarseLen = 0 /\ o.beg <= b.beg
           /\ b.end <= CoarseEnd(o) /\ (RangeBeg <= c.beg => RangeBeg <= o.beg)
           /\ IngestBin(c, b) = Closed(CoarseAdd(o, b), b)
           /\ b.beg >= CoarseEnd(c) => o.filled = 0
  <1>1. PICK o : o = Opened(c, b)
    OBVIOUS
  <1>2. /\ b.beg \in Nat /\ b.end = b.beg + BinLen /\ b.beg % BinLen = 0 /\ b.end \in Nat
    BY DEF GoodBins, Bins
  <1>3. /\ CoarseLen \in Nat \ {0} /\ BinLen \in Nat \ {0} /\ c.beg \in Nat
        /\ \A x \in Int : x % CoarseLen = 0 => x % BinLen = 0
        /\ \A x \in Int : x % CoarseLen = 0 => (x + CoarseLen) % CoarseLen = 0
        /\ RangeBeg \in Nat
    BY CoarseConst DEF Coarses
  <1>4. /\ o \in Coarses /\ o.beg % CoarseLen = 0 /\ o.beg <= b.beg /\ b.beg < CoarseEnd(o)
        /\ c.beg <= o.beg /\ (b.beg >= CoarseEnd(c) => o.filled = 0)
    <2>1. CASE b.beg >= CoarseEnd(c)
      <3>1. o = Finish(c, b.beg)
        BY <1>1, <2>1 DEF Opened
      <3>2. o \in Coarses /\ o.beg = Floor(b.beg, CoarseLen) /\ o.filled = 0
        BY <1>2, <3>1, FinishFacts
      <3>3. /\ Floor(b.beg, CoarseLen) \in Int /\ Floor(b.beg, CoarseLen) <= b.beg
            /\ b.beg < Floor(b.beg, CoarseLen) + CoarseLen
            /\ Floor(b.beg, CoarseLen) % CoarseLen = 0
            /\ \A a \in Int : a % CoarseLen = 0 /\ a <= b.beg => a <= Floor(b.beg, CoarseLen)
        <4>1. PICK x \in Int : x = b.beg
          BY <1>2
        <4> QED
          BY <1>3, <4>1, FloorFacts
      <3> QED
        BY <1>3, <3>2, <3>3 DEF CoarseEnd
    <2>2. CASE ~(b.beg >= CoarseEnd(c))
      <3>1. o = c
        BY <1>1, <2>2 DEF Opened
      <3> QED
        BY <1>2, <1>3, <2>2, <3>1 DEF CoarseEnd
    <2> QED
      BY <2>1, <2>2
  <1>5. b.end <= CoarseEnd(o)
    <2>1. PICK x \in Int : x = CoarseEnd(o) /\ x % BinLen = 0
      <3>1. o.beg \in Int
        BY <1>4 DEF Coarses
      <3> QED
        BY <1>3, <1>4, <3>1 DEF CoarseEnd
    <2>2. b.beg + BinLen <= x
      BY <1>2, <1>3, <1>4, <2>1, GridStep
    <2> QED
      BY <1>2, <2>1, <2>2
  <1>6. ~(b.end > CoarseEnd(o)) /\ ~(b.beg < c.beg)
    <2>1. CoarseEnd(o) \in Int
      BY <1>3, <1>4 DEF CoarseEnd, Coarses
    <2> QED
      BY <1>2, <1>3, <1>5, <2>1
  <1>7. IngestBin(c, b) = Closed(CoarseAdd(o, b), b)
    BY <1>1, <1>6 DEF IngestBin, Opened, Closed
  <1>8. RangeBeg <= c.beg => RangeBeg <= o.beg
    <2>1. o.beg \in Int
      BY <1>4 DEF Coarses
    <2> QED
      BY <1>3, <1>4, <2>1
  <1> QED
    BY <1>1, <1>4, <1>5, <1>7, <1>8

(* The active coarse bin goes with the bins.                               *)
LEMMA GrownStep ==
    ASSUME NEW c \in Coarses, NEW b \in GoodBins, NEW t \in Nat, Grown(c, t), t <= b.beg
    PROVE  IngestBin(c, b) \in Coarses /\ Grown(IngestBin(c, b), b.end)
  <1>1. /\ b.beg \in Nat /\ b.end = b.beg + BinLen /\ b.end \in Nat
        /\ c.beg \in Nat /\ c.filled \in Nat /\ CoarseLen \in Nat \ {0}
        /\ BinLen \in Nat \ {0}
    BY CoarseConst DEF GoodBins, Bins, Coarses
  <1>2. c.beg % CoarseLen = 0 /\ c.beg <= b.beg
    BY <1>1 DEF Grown
  <1>3. PICK o : o = Opened(c, b)
    OBVIOUS
  <1>4. /\ o \in Coarses /\ o.beg % CoarseLen = 0 /\ o.beg <= b.beg
        /\ b.end <= CoarseEnd(o) /\ IngestBin(c, b) = Closed(CoarseAdd(o, b), b)
        /\ b.beg >= CoarseEnd(c) => o.filled = 0
    BY <1>2, <1>3, OpenFacts
  <1>5. o.beg \in Nat /\ o.filled \in Nat /\ o.filled <= b.beg - o.beg
    <2>1. o.beg \in Nat /\ o.filled \in Nat
      BY <1>4 DEF Coarses
    <2>2. CASE b.beg >= CoarseEnd(c)
      BY <1>1, <1>4, <2>1, <2>2
    <2>3. CASE ~(b.beg >= CoarseEnd(c))
      <3>1. o = c
        BY <1>3, <2>3 DEF Opened
      <3> QED
        BY <1>1, <2>1, <3>1 DEF Grown
    <2> QED
      BY <2>2, <2>3
  <1>6. PICK a : a = CoarseAdd(o, b)
    OBVIOUS
  <1>7. a \in Coarses /\ a.beg = o.beg /\ a.filled = o.filled + BinLen
    BY <1>4, <1>6, AddFacts
  <1>8. CASE b.end >= CoarseEnd(a)
    <2>1. b.end = o.beg + CoarseLen
      BY <1>1, <1>4, <1>5, <1>7, <1>8 DEF CoarseEnd
    <2>2. PICK r : r = Finish(a, b.end)
      OBVIOUS
    <2>3. r \in Coarses /\ r.beg = Floor(b.end, CoarseLen) /\ r.filled = 0
      BY <1>1, <1>7, <2>2, FinishFacts
    <2>4. PICK x \in Int : x = b.end /\ x % CoarseLen = 0
      BY <1>1, <1>4, <1>5, <2>1, CoarseConst
    <2>5. Floor(x, CoarseLen) = x
      <3>1. /\ Floor(x, CoarseLen) \in Int /\ Floor(x, CoarseLen) <= x
            /\ \A z \in Int : z % CoarseLen = 0 /\ z <= x => z <= Floor(x, CoarseLen)
        BY <1>1, <2>4, FloorFacts
      <3>2. x <= Floor(x, CoarseLen)
        BY <2>4, <3>1
      <3> QED
        BY <3>1, <3>2
    <2>6. IngestBin(c, b) = r
      BY <1>4, <1>6, <1>8, <2>2 DEF Closed
    <2>7. r.beg = x /\ x <= x /\ x < x + CoarseLen /\ 0 <= x - x
      BY <1>1, <2>3, <2>4, <2>5
    <2>8. Grown(r, b.end)
      BY <2>3, <2>4, <2>7 DEF Grown, CoarseEnd
    <2> QED
      BY <2>3, <2>6, <2>8
  <1>9. CASE ~(b.end >= CoarseEnd(a))
    <2>1. IngestBin(c, b) = a
      BY <1>4, <1>6, <1>9 DEF Closed
    <2>2. Grown(a, b.end)
      BY <1>1, <1>4, <1>5, <1>7, <1>9 DEF Grown, CoarseEnd
    <2> QED
      BY <1>7, <2>1, <2>2
  <1> QED
    BY <1>8, <1>9

(* Events and area of two parts.                                           *)
LEMMA PartsJoin ==
    ASSUME NEW g \in Increase, g # <<>>, NEW a \in Int, NEW b \in Int, NEW c \in Int,
           a <= b, b <= c
    PROVE  /\ HeldIn(g, a, c) = HeldIn(g, a, b) \union HeldIn(g, b, c)
           /\ Integral(g, a, c) = Integral(g, a, b) + Integral(g, b, c)
           /\ Cardinality(Ticks(g, a, c)) = Cardinality(Ticks(g, a, b)) + Cardinality(Ticks(g, b, c))
           /\ Cardinality(EventsIn(g, a, c)) =
                Cardinality(EventsIn(g, a, b)) + Cardinality(EventsIn(g, b, c))
           /\ EventsIn(g, a, c) = EventsIn(g, a, b) \union EventsIn(g, b, c)
           /\ Integral(g, a, b) \in Nat /\ Integral(g, b, c) \in Nat
           /\ Cardinality(Ticks(g, a, b)) \in Nat /\ Cardinality(Ticks(g, b, c)) \in Nat
           /\ IsFiniteSet(EventsIn(g, b, c))
  <1>1. /\ Ticks(g, a, c) = Ticks(g, a, b) \union Ticks(g, b, c)
        /\ Ticks(g, a, b) \intersect Ticks(g, b, c) = {}
        /\ HeldIn(g, a, c) = HeldIn(g, a, b) \union HeldIn(g, b, c)
        /\ Area(g, a, c) = Area(g, a, b) \union Area(g, b, c)
        /\ Area(g, a, b) \intersect Area(g, b, c) = {}
    BY TicksJoin
  <1>2. /\ IsFiniteSet(Area(g, a, b)) /\ IsFiniteSet(Area(g, b, c))
        /\ Integral(g, a, b) \in Nat /\ Integral(g, b, c) \in Nat
    BY AreaFinite
  <1>3. IsFiniteSet(Ticks(g, a, b)) /\ IsFiniteSet(Ticks(g, b, c))
    BY TicksFinite
  <1>4. Integral(g, a, c) = Integral(g, a, b) + Integral(g, b, c)
    BY <1>1, <1>2, DisjointCard DEF Integral
  <1>5. Cardinality(Ticks(g, a, c)) = Cardinality(Ticks(g, a, b)) + Cardinality(Ticks(g, b, c))
    BY <1>1, <1>3, DisjointCard
  <1>6. Cardinality(Ticks(g, a, b)) \in Nat /\ Cardinality(Ticks(g, b, c)) \in Nat
    BY <1>3, FS_CardinalityType
  <1>7. \A i \in 1..Len(g) : g[i].ts \in Int
    BY FirstFacts
  <1>8. /\ EventsIn(g, a, c) = EventsIn(g, a, b) \union EventsIn(g, b, c)
        /\ EventsIn(g, a, b) \intersect EventsIn(g, b, c) = {}
    BY <1>7 DEF EventsIn
  <1>9. IsFiniteSet(EventsIn(g, a, b)) /\ IsFiniteSet(EventsIn(g, b, c))
    <2>1. IsFiniteSet(1..Len(g))
      BY FirstFacts, FS_Interval
    <2>2. EventsIn(g, a, b) \subseteq 1..Len(g) /\ EventsIn(g, b, c) \subseteq 1..Len(g)
      BY DEF EventsIn
    <2> QED
      BY <2>1, <2>2, FS_Subset
  <1>10. Cardinality(EventsIn(g, a, c)) =
           Cardinality(EventsIn(g, a, b)) + Cardinality(EventsIn(g, b, c))
    BY <1>8, <1>9, DisjointCard
  <1> QED
    BY <1>1, <1>2, <1>4, <1>5, <1>6, <1>8, <1>9, <1>10

(* The width of a bin.                                                     *)
LEMMA WidthFacts ==
    ASSUME NEW g \in Increase, g # <<>>, NEW a \in Int, NEW b \in Int, a < b, First(g) < b
    PROVE  /\ Cardinality(Ticks(g, a, b)) \in 1..(b - a)
           /\ First(g) <= a => Cardinality(Ticks(g, a, b)) = b - a
  <1>1. First(g) \in Int
    BY FirstFacts
  <1>2. IsFiniteSet(a..(b - 1)) /\ Cardinality(a..(b - 1)) = b - a
    BY Spans
  <1>3. Ticks(g, a, b) \subseteq a..(b - 1)
    BY DEF Ticks
  <1>4. /\ IsFiniteSet(Ticks(g, a, b)) /\ Cardinality(Ticks(g, a, b)) <= b - a
    BY <1>2, <1>3, FS_Subset
  <1>5. b - 1 \in Ticks(g, a, b)
    BY <1>1 DEF Ticks
  <1>6. Cardinality(Ticks(g, a, b)) \in Nat /\ Cardinality(Ticks(g, a, b)) # 0
    BY <1>4, <1>5, FS_CardinalityType, FS_EmptySet
  <1>7. First(g) <= a => Ticks(g, a, b) = a..(b - 1)
    BY <1>1 DEF Ticks
  <1> QED
    BY <1>2, <1>4, <1>6, <1>7

LEMMA FloorFixed ==
    ASSUME NEW x \in Int, x % CoarseLen = 0
    PROVE  Floor(x, CoarseLen) = x
  <1>1. /\ Floor(x, CoarseLen) \in Int /\ Floor(x, CoarseLen) <= x
        /\ \A z \in Int : z % CoarseLen = 0 /\ z <= x => z <= Floor(x, CoarseLen)
    BY CoarseConst, FloorFacts
  <1>2. x <= Floor(x, CoarseLen)
    BY <1>1
  <1> QED
    BY <1>1, <1>2

LEMMA FloorIn ==
    ASSUME NEW x \in Int, NEW a \in Int, a % CoarseLen = 0, a <= x, x < a + CoarseLen
    PROVE  Floor(x, CoarseLen) = a
  <1>1. /\ Floor(x, CoarseLen) \in Int /\ Floor(x, CoarseLen) <= x
        /\ Floor(x, CoarseLen) % CoarseLen = 0 /\ CoarseLen \in Nat \ {0}
        /\ \A z \in Int : z % CoarseLen = 0 /\ z <= x => z <= Floor(x, CoarseLen)
    BY CoarseConst, FloorFacts
  <1>2. a <= Floor(x, CoarseLen)
    BY <1>1
  <1>3. a < Floor(x, CoarseLen) => a + CoarseLen <= Floor(x, CoarseLen)
    BY <1>1, GridStep
  <1> QED
    BY <1>1, <1>2, <1>3

(* A bin adds what it tells of the events.                                 *)
LEMMA AddKnows ==
    ASSUME NEW g \in Increase, g # <<>>, NEW c \in Coarses, NEW b \in GoodBins,
           Knows(g, c, b.beg), c.beg <= b.beg, Made(g, b, b.end)
    PROVE  LET r == CoarseAdd(c, b) IN
           /\ Knows(g, r, b.end)
           /\ r.min # NoVal /\ IsLeast(r.min, HeldIn(g, c.beg, b.end))
           /\ IsGreatest(r.max, HeldIn(g, c.beg, b.end))
           /\ r.lst = ValueAt(g, b.end - 1)
  <1>1. PICK r : r = CoarseAdd(c, b)
    OBVIOUS
  <1>2. PICK x \in Int, t \in Int, u \in Int : x = c.beg /\ t = b.beg /\ u = b.end
    <2>1. c.beg \in Int /\ b.beg \in Int /\ b.end \in Int
      BY DEF Coarses, GoodBins, Bins
    <2> QED
      BY <2>1
  <1>3. x <= t /\ t < u /\ u = t + BinLen /\ BinLen \in Nat \ {0} /\ First(g) < u
    BY <1>2, CoarseConst DEF GoodBins, Made
  <1>4. /\ r.beg = c.beg /\ r.cnt = c.cnt + b.cnt
        /\ r.filled = c.filled + BinLen /\ r.lst = b.lst
        /\ r.sum = c.sum + (BinLen * b.sum) * (Scale \div b.width)
        /\ r.min = IF (b.beg = c.beg \/ c.min = NoVal) \/ b.min < c.min THEN b.min ELSE c.min
        /\ r.max = IF (b.beg = c.beg \/ c.min = NoVal) \/ b.max > c.max THEN b.max ELSE c.max
        /\ r.min \in Int /\ r.max \in Int
    BY <1>1, AddFacts
  <1>5. /\ HeldIn(g, x, u) = HeldIn(g, x, t) \union HeldIn(g, t, u)
        /\ Integral(g, x, u) = Integral(g, x, t) + Integral(g, t, u)
        /\ Cardinality(Ticks(g, x, u)) = Cardinality(Ticks(g, x, t)) + Cardinality(Ticks(g, t, u))
        /\ Cardinality(EventsIn(g, x, u)) =
             Cardinality(EventsIn(g, x, t)) + Cardinality(EventsIn(g, t, u))
        /\ Integral(g, x, t) \in Nat /\ Integral(g, t, u) \in Nat
        /\ Cardinality(Ticks(g, x, t)) \in Nat /\ Cardinality(Ticks(g, t, u)) \in Nat
    <2>1. x <= t
      BY <1>3
    <2>2. t <= u
      BY <1>3
    <2>3. Integral(g, x, u) = Integral(g, x, t) + Integral(g, t, u)
      BY <2>1, <2>2, PartsJoin
    <2>6. HeldIn(g, x, u) = HeldIn(g, x, t) \union HeldIn(g, t, u)
      BY <2>1, <2>2, TicksJoin
    <2>4. /\ Cardinality(Ticks(g, x, u))
               = Cardinality(Ticks(g, x, t)) + Cardinality(Ticks(g, t, u))
          /\ Cardinality(EventsIn(g, x, u))
               = Cardinality(EventsIn(g, x, t)) + Cardinality(EventsIn(g, t, u))
      BY <2>1, <2>2, PartsJoin
    <2>5. /\ Integral(g, x, t) \in Nat /\ Integral(g, t, u) \in Nat
          /\ Cardinality(Ticks(g, x, t)) \in Nat /\ Cardinality(Ticks(g, t, u)) \in Nat
      BY <2>1, <2>2, PartsJoin
    <2> QED
      BY <2>3, <2>4, <2>5, <2>6, Zenon
  <1>6. /\ b.cnt = Cardinality(EventsIn(g, t, u))
        /\ IsLeast(b.min, HeldIn(g, t, u)) /\ IsGreatest(b.max, HeldIn(g, t, u))
        /\ b.lst = ValueAt(g, u - 1)
        /\ b.sum = Integral(g, t, u) /\ b.width = Cardinality(Ticks(g, t, u))
    BY <1>2 DEF Made, BinMatches, CountsMatch
  <1>7. r.cnt = Cardinality(EventsIn(g, x, u))
    BY <1>2, <1>4, <1>5, <1>6 DEF Knows
  <1>8. /\ b.min \in Int /\ b.max \in Int /\ c.min \in Int /\ c.max \in Int /\ b.min # NoVal
    <2>1. b.min \in Vals /\ b.max \in Vals /\ c.min \in MaybeVals /\ c.max \in MaybeVals
      BY DEF GoodBins, Bins, Coarses
    <2>2. b.min \in MaybeVals /\ b.max \in MaybeVals
      BY <2>1 DEF MaybeVals
    <2> QED
      BY <2>1, <2>2, MaybeFacts, NoValFacts
  <1>9. HeldIn(g, x, u) \subseteq Int
    <2>1. ASSUME NEW k \in Ticks(g, x, u) PROVE ValueAt(g, k) \in Int
      <3>1. k \in Int /\ First(g) <= k
        BY FirstFacts DEF Ticks
      <3>2. ValueAt(g, k) \in Nat
        BY <3>1, ValueType
      <3> QED
        BY <3>2
    <2> QED
      BY <2>1 DEF HeldIn
  <1>10. /\ r.min # NoVal /\ IsLeast(r.min, HeldIn(g, x, u)) /\ IsGreatest(r.max, HeldIn(g, x, u))
    <2>1. CASE b.beg = c.beg \/ c.min = NoVal
      <3>1. HeldIn(g, x, t) = {}
        <4>1. CASE b.beg = c.beg
          <5>1. Ticks(g, x, t) = {}
            BY <1>2, <4>1 DEF Ticks
          <5> QED
            BY <5>1 DEF HeldIn
        <4>2. CASE b.beg # c.beg /\ c.min = NoVal
          BY <1>2, <4>2 DEF Knows
        <4> QED
          BY <2>1, <4>1, <4>2
      <3>2. HeldIn(g, x, u) = HeldIn(g, t, u)
        BY <1>5, <3>1
      <3> QED
        BY <1>4, <1>6, <1>8, <2>1, <3>2
    <2>2. CASE ~(b.beg = c.beg \/ c.min = NoVal)
      <3>1. IsLeast(c.min, HeldIn(g, x, t)) /\ IsGreatest(c.max, HeldIn(g, x, t))
        BY <1>2, <2>2 DEF Knows
      <3>2. /\ r.min = IF b.min < c.min THEN b.min ELSE c.min
            /\ r.max = IF b.max > c.max THEN b.max ELSE c.max
        BY <1>4, <2>2
      <3>3. r.min \in HeldIn(g, x, u) /\ r.max \in HeldIn(g, x, u) /\ r.min # NoVal
        BY <1>5, <1>6, <1>8, <2>2, <3>1, <3>2 DEF IsLeast, IsGreatest
      <3>4. ASSUME NEW y \in HeldIn(g, x, u) PROVE r.min <= y /\ y <= r.max
        <4>1. y \in Int
          BY <1>9
        <4>2. \/ c.min <= y /\ y <= c.max
              \/ b.min <= y /\ y <= b.max
          BY <1>5, <1>6, <3>1 DEF IsLeast, IsGreatest
        <4>3. r.min <= c.min /\ r.min <= b.min /\ c.max <= r.max /\ b.max <= r.max
          BY <1>8, <3>2
        <4> QED
          BY <1>4, <1>8, <4>1, <4>2, <4>3
      <3> QED
        BY <3>3, <3>4 DEF IsLeast, IsGreatest
    <2> QED
      BY <2>1, <2>2
  <1>11. ASSUME Whole(g, x)
         PROVE  /\ r.sum = Scale * Integral(g, x, u)
                /\ r.filled = Cardinality(Ticks(g, x, u))
    <2>1. First(g) \in Int /\ FineFrom(First(g)) <= t
      BY <1>2, FirstFacts DEF Knows
    <2>2. First(g) <= t
      <3>1. CASE First(g) <= x
        BY <1>3, <2>1, <3>1
      <3>2. CASE First(g) % BinLen = 0
        <4>1. First(g) <= FineFrom(First(g)) /\ FineFrom(First(g)) \in Int
          <5>1. /\ FineFrom(First(g)) \in Nat /\ RangeBeg <= FineFrom(First(g))
                /\ First(g) >= RangeBeg /\ First(g) % BinLen = 0 => FineFrom(First(g)) = First(g)
            BY MadeToFacts
          <5> QED
            BY <2>1, <3>2, <5>1, ConstFacts
        <4> QED
          BY <2>1, <4>1
      <3> QED
        BY <1>11, <3>1, <3>2 DEF Whole
    <2>3. b.width = BinLen
      BY <1>3, <1>6, <2>2, WidthFacts
    <2>4. PICK k \in Nat : k = Scale \div BinLen /\ BinLen * k = Scale
      <3>1. BinLen \in 1..BinLen
        BY <1>3
      <3> QED
        BY <3>1, CoarseConst
    <2>5. PICK i \in Nat, j \in Nat : i = Integral(g, x, t) /\ j = Integral(g, t, u)
      BY <1>5
    <2>6. (BinLen * j) * k = Scale * j
      <3>1. (BinLen * j) * k = (BinLen * k) * j
        BY <1>3
      <3> QED
        BY <2>4, <3>1
    <2>7. c.sum = Scale * i /\ c.filled = Cardinality(Ticks(g, x, t))
      BY <1>2, <1>11, <2>5 DEF Knows
    <2>8. r.sum = Scale * i + Scale * j
      BY <1>4, <1>6, <2>3, <2>4, <2>5, <2>6, <2>7
    <2>9. Scale * i + Scale * j = Scale * (i + j)
      BY CoarseConst
    <2>10. r.filled = Cardinality(Ticks(g, x, t)) + BinLen
      BY <1>4, <2>7
    <2> QED
      BY <1>5, <1>6, <2>3, <2>5, <2>8, <2>9, <2>10
  <1>12. FineFrom(First(g)) <= u
    <2>1. FineFrom(First(g)) \in Nat
      BY MadeToFacts
    <2>2. FineFrom(First(g)) <= t
      BY <1>2 DEF Knows
    <2> QED
      BY <1>3, <2>1, <2>2
  <1>13. Knows(g, r, u)
    BY <1>2, <1>4, <1>7, <1>10, <1>11, <1>12 DEF Knows
  <1> QED
    BY <1>1, <1>2, <1>4, <1>6, <1>10, <1>13

(* The active coarse bin ends with b, and is put out.                      *)
LEMMA CloseRight ==
    ASSUME NEW g \in Increase, g # <<>>, NEW a \in Coarses, NEW u \in Nat,
           Knows(g, a, u), u = a.beg + CoarseLen, First(g) < u, a.min # NoVal,
           IsLeast(a.min, HeldIn(g, a.beg, u)), IsGreatest(a.max, HeldIn(g, a.beg, u)),
           a.lst = ValueAt(g, u - 1)
    PROVE  CoarseRight(g, Emitted(a), u)
  <1>1. PICK e : e = Emitted(a)
    OBVIOUS
  <1>2. /\ a.beg \in Nat /\ CoarseLen \in Nat \ {0} /\ CoarseEnd(a) = u
    BY CoarseConst DEF Coarses, CoarseEnd
  <1>3. /\ e.beg = a.beg /\ e.end = u /\ e.cnt = a.cnt /\ e.min = a.min /\ e.max = a.max
        /\ e.sum = a.sum /\ e.width = a.filled /\ e.lst = a.lst
    BY <1>1, <1>2 DEF Emitted
  <1>4. HeldIn(g, a.beg, u) \in SUBSET Int
    <2>1. ASSUME NEW k \in Ticks(g, a.beg, u) PROVE ValueAt(g, k) \in Int
      <3>1. k \in Int /\ First(g) <= k
        BY <1>2, FirstFacts DEF Ticks
      <3>2. ValueAt(g, k) \in Nat
        BY <3>1, ValueType
      <3> QED
        BY <3>2
    <2> QED
      BY <2>1 DEF HeldIn
  <1>5. e.min = Min(HeldIn(g, e.beg, e.end)) /\ e.max = Max(HeldIn(g, e.beg, e.end))
    BY <1>3, <1>4, MinIs, MaxIs
  <1>6. e.cnt = Cardinality(EventsIn(g, e.beg, e.end))
    BY <1>3 DEF Knows
  <1>7. CountsMatch(g, e)
    BY <1>3, <1>5, <1>6 DEF CountsMatch
  <1>8. ASSUME Whole(g, e.beg)
        PROVE  e.sum * Cardinality(Ticks(g, e.beg, e.end))
                 = Scale * Integral(g, e.beg, e.end) * e.width
    <2>1. e.sum = Scale * Integral(g, e.beg, e.end)
          /\ e.width = Cardinality(Ticks(g, e.beg, e.end))
      BY <1>3, <1>8 DEF Knows
    <2> QED
      BY <2>1
  <1>9. e.end = e.beg + CoarseLen /\ e.end <= u /\ First(g) < e.end
    BY <1>2, <1>3
  <1> QED
    BY <1>1, <1>7, <1>8, <1>9 DEF CoarseRight

LEMMA BegsAppend ==
    ASSUME NEW q \in Seq(CoarseBins), NEW e \in CoarseBins
    PROVE  CoarseBegs(Append(q, e)) = CoarseBegs(q) \union {e.beg}
  <1>1. <<e>> \in Seq(CoarseBins) /\ Append(q, e) = q \o <<e>>
    BY AppendIsConcat
  <1>2. ToSet(q \o <<e>>) = ToSet(q) \union ToSet(<<e>>)
    BY <1>1, ToSetConcat, ZenonT(60)
  <1>3. ToSet(<<e>>) = {e}
    BY ToSetOne
  <1>4. ToSet(Append(q, e)) = ToSet(q) \union {e}
    BY <1>1, <1>2, <1>3
  <1> QED
    BY <1>4 DEF CoarseBegs

LEMMA BegsJoin ==
    ASSUME NEW g \in Increase, g # <<>>, NEW a \in Nat, a % CoarseLen = 0, RangeBeg <= a
    PROVE  LET u == a + CoarseLen IN
           EventBegs(g, u) = EventBegs(g, a)
                               \union (IF Cardinality(EventsIn(g, a, u)) = 0 THEN {} ELSE {a})
  <1>1. PICK u \in Nat : u = a + CoarseLen /\ a <= u /\ RangeBeg \in Int
    BY CoarseConst
  <1>2. /\ EventsIn(g, RangeBeg, u) = EventsIn(g, RangeBeg, a) \union EventsIn(g, a, u)
        /\ IsFiniteSet(EventsIn(g, a, u))
    <2>1. \A i \in 1..Len(g) : g[i].ts \in Int
      BY FirstFacts
    <2>2. EventsIn(g, RangeBeg, u) = EventsIn(g, RangeBeg, a) \union EventsIn(g, a, u)
      BY <1>1, <2>1 DEF EventsIn
    <2>3. a \in Int /\ u \in Int /\ a <= a
      OBVIOUS
    <2>4. IsFiniteSet(EventsIn(g, a, u))
      BY <1>1, <2>3, PartsJoin
    <2> QED
      BY <2>2, <2>4
  <1>3. Cardinality(EventsIn(g, a, u)) = 0 <=> EventsIn(g, a, u) = {}
    BY <1>2, FS_EmptySet
  <1>4. ASSUME NEW i \in EventsIn(g, a, u) PROVE Floor(g[i].ts, CoarseLen) = a
    <2>1. a <= g[i].ts /\ g[i].ts < a + CoarseLen /\ g[i].ts \in Int
      BY <1>1, FirstFacts DEF EventsIn
    <2> QED
      BY <2>1, FloorIn
  <1>5. EventBegs(g, u) = EventBegs(g, a) \union {Floor(g[i].ts, CoarseLen) : i \in EventsIn(g, a, u)}
    BY <1>2 DEF EventBegs
  <1>6. {Floor(g[i].ts, CoarseLen) : i \in EventsIn(g, a, u)}
          = IF Cardinality(EventsIn(g, a, u)) = 0 THEN {} ELSE {a}
    BY <1>3, <1>4
  <1> QED
    BY <1>1, <1>5, <1>6

LEMMA RightLater ==
    ASSUME NEW g, NEW b \in CoarseBins, NEW a \in Int, NEW c \in Int,
           CoarseRight(g, b, a), a <= c
    PROVE  CoarseRight(g, b, c)
  BY DEF CoarseRight, CoarseBins

LEMMA ClosePutOut ==
    ASSUME NEW g \in Increase, g # <<>>, NEW a \in Coarses, NEW u \in Nat,
           a.beg % CoarseLen = 0, RangeBeg <= a.beg, PutOut(g, a),
           Knows(g, a, u), u = a.beg + CoarseLen, First(g) < u, a.min # NoVal,
           IsLeast(a.min, HeldIn(g, a.beg, u)), IsGreatest(a.max, HeldIn(g, a.beg, u)),
           a.lst = ValueAt(g, u - 1)
    PROVE  LET r == Finish(a, u) IN PutOut(g, r) /\ Knows(g, r, u) /\ r.beg = u
  <1>1. PICK r : r = Finish(a, u)
    OBVIOUS
  <1>2. /\ a.beg \in Nat /\ CoarseLen \in Nat \ {0}
    BY CoarseConst DEF Coarses
  <1>3. r.beg = u /\ u \in Int
    <2>1. PICK y \in Int : y = a.beg
      BY <1>2
    <2>2. y \in Int /\ y % CoarseLen = 0
      BY <2>1
    <2>3. (y + CoarseLen) % CoarseLen = 0
      BY ONLY <2>2, CoarseConst
    <2>4. PICK x \in Int : x = u /\ x % CoarseLen = 0
      BY <1>2, <2>1, <2>3
    <2>5. Floor(x, CoarseLen) = x
      BY <2>4, FloorFixed
    <2> QED
      BY <1>1, <2>4, <2>5, FinishFacts
  <1>4. /\ r.cnt = 0 /\ r.sum = 0 /\ r.filled = 0
        /\ r.out = IF a.cnt = 0 THEN a.out ELSE Append(a.out, Emitted(a))
        /\ a.out \in Seq(CoarseBins) /\ Emitted(a) \in CoarseBins
    BY <1>1, FinishFacts
  <1>5. Ticks(g, u, u) = {} /\ EventsIn(g, u, u) = {}
    BY <1>3, FirstFacts DEF Ticks, EventsIn
  <1>6. Integral(g, u, u) = 0 /\ Cardinality(Ticks(g, u, u)) = 0 /\ Cardinality(EventsIn(g, u, u)) = 0
    <2>1. Area(g, u, u) = {}
      BY <1>5 DEF Area
    <2> QED
      BY <1>5, <2>1, FS_EmptySet DEF Integral
  <1>7. Knows(g, r, u)
    <2>1. Scale * 0 = 0 /\ FineFrom(First(g)) <= u
      BY CoarseConst DEF Knows
    <2> QED
      BY <1>3, <1>4, <1>6, <2>1 DEF Knows
  <1>8. PICK e \in CoarseBins : e = Emitted(a) /\ e.beg = a.beg
    BY <1>4 DEF Emitted
  <1>9. \A i \in 1..Len(a.out) : CoarseRight(g, a.out[i], u)
    <2>1. ASSUME NEW i \in 1..Len(a.out) PROVE CoarseRight(g, a.out[i], u)
      <3>1. a.out[i] \in CoarseBins /\ CoarseRight(g, a.out[i], a.beg)
        BY <1>4 DEF PutOut
      <3>2. a.beg \in Int /\ a.beg <= u
        BY <1>2
      <3> QED
        BY <1>3, <3>1, <3>2, RightLater
    <2> QED
      BY <2>1
  <1>10. CoarseRight(g, e, u)
    BY <1>8, CloseRight
  <1>11. EventBegs(g, u) = EventBegs(g, a.beg) \union (IF a.cnt = 0 THEN {} ELSE {a.beg})
    <2>1. PICK x \in Nat : x = a.beg
      BY <1>2
    <2>2. EventBegs(g, x + CoarseLen) = EventBegs(g, x)
            \union (IF Cardinality(EventsIn(g, x, x + CoarseLen)) = 0 THEN {} ELSE {x})
      BY <2>1, BegsJoin
    <2>3. a.cnt = Cardinality(EventsIn(g, x, x + CoarseLen))
      BY <2>1 DEF Knows
    <2> QED
      BY <2>1, <2>2, <2>3
  <1>12. CoarseBegs(a.out) = EventBegs(g, a.beg)
    BY DEF PutOut
  <1>13. CASE a.cnt = 0
    BY <1>1, <1>3, <1>4, <1>7, <1>9, <1>11, <1>12, <1>13 DEF PutOut
  <1>14. CASE a.cnt # 0
    <2>1. r.out = Append(a.out, e)
      BY <1>4, <1>8, <1>14
    <2>2. CoarseBegs(r.out) = CoarseBegs(a.out) \union {a.beg}
      BY <1>4, <1>8, <2>1, BegsAppend
    <2>3. /\ Len(r.out) = Len(a.out) + 1 /\ Len(a.out) \in Nat /\ r.out[Len(a.out) + 1] = e
          /\ \A i \in 1..Len(a.out) : r.out[i] = a.out[i]
      BY <1>4, <1>8, <2>1, AppendProperties
    <2>4. ASSUME NEW i \in 1..Len(r.out) PROVE CoarseRight(g, r.out[i], u)
      <3>1. i = Len(a.out) + 1 \/ i \in 1..Len(a.out)
        BY <2>3
      <3> QED
        BY <1>9, <1>10, <2>3, <3>1
    <2>5. CoarseBegs(r.out) = EventBegs(g, u)
      BY <1>11, <1>12, <1>14, <2>2
    <2> QED
      BY <1>1, <1>3, <1>7, <2>4, <2>5 DEF PutOut
  <1> QED
    BY <1>13, <1>14

(* A bin of the active coarse bin.                                         *)
LEMMA CoarseStep ==
    ASSUME NEW g \in Increase, g # <<>>, NEW o \in Coarses, NEW b \in GoodBins,
           o.beg % CoarseLen = 0, RangeBeg <= o.beg, o.beg <= b.beg, b.end <= CoarseEnd(o),
           Made(g, b, b.end), Knows(g, o, b.beg), PutOut(g, o)
    PROVE  LET r == Closed(CoarseAdd(o, b), b) IN PutOut(g, r) /\ Knows(g, r, b.end)
  <1>1. PICK a : a = CoarseAdd(o, b)
    OBVIOUS
  <1>2. /\ a \in Coarses /\ a.beg = o.beg /\ a.out = o.out
    BY <1>1, AddFacts
  <1>3. /\ Knows(g, a, b.end) /\ a.min # NoVal /\ IsLeast(a.min, HeldIn(g, a.beg, b.end))
        /\ IsGreatest(a.max, HeldIn(g, a.beg, b.end)) /\ a.lst = ValueAt(g, b.end - 1)
    BY <1>1, <1>2, AddKnows
  <1>4. PutOut(g, a)
    BY <1>2 DEF PutOut
  <1>5. b.end \in Nat /\ a.beg \in Nat /\ CoarseLen \in Nat \ {0} /\ First(g) < b.end
    BY <1>2, CoarseConst DEF GoodBins, Bins, Coarses, Made
  <1>6. CASE b.end >= CoarseEnd(a)
    <2>1. PICK u \in Nat : u = b.end /\ u = a.beg + CoarseLen
      BY <1>2, <1>5, <1>6 DEF CoarseEnd
    <2>2. PutOut(g, Finish(a, u)) /\ Knows(g, Finish(a, u), u)
      <3>1. a.beg % CoarseLen = 0 /\ RangeBeg <= a.beg
        BY <1>2
      <3>2. Knows(g, a, u) /\ First(g) < u /\ IsLeast(a.min, HeldIn(g, a.beg, u))
            /\ IsGreatest(a.max, HeldIn(g, a.beg, u)) /\ a.lst = ValueAt(g, u - 1)
        BY <1>3, <1>5, <2>1
      <3> QED
        BY <1>2, <1>3, <1>4, <2>1, <3>1, <3>2, ClosePutOut
    <2> QED
      BY <1>1, <1>6, <2>1, <2>2 DEF Closed
  <1>7. CASE ~(b.end >= CoarseEnd(a))
    BY <1>1, <1>3, <1>4, <1>7 DEF Closed
  <1> QED
    BY <1>6, <1>7

(* Before the first bin the coarse binner knows of no events.              *)
LEMMA NothingBefore ==
    ASSUME NEW g \in Increase, g # <<>>, NEW a \in Int, RangeBeg <= a
    PROVE  LET f == FineFrom(First(g)) IN
           /\ EventsIn(g, a, f) = {} /\ Ticks(g, a, f) = {}
           /\ a <= f => EventsIn(g, RangeBeg, a) = {}
  <1>1. PICK f \in Nat : f = FineFrom(First(g))
    BY MadeToFacts
  <1>2. /\ First(g) < RangeBeg => f = RangeBeg
        /\ First(g) >= RangeBeg => f <= First(g)
    BY <1>1, MadeToFacts
  <1>3. First(g) \in Int /\ RangeBeg \in Int /\ \A i \in 1..Len(g) : g[i].ts \in Int /\ First(g) <= g[i].ts
    BY FirstFacts, ConstFacts
  <1>4. EventsIn(g, a, f) = {}
    BY <1>2, <1>3 DEF EventsIn
  <1>5. Ticks(g, a, f) = {}
    BY <1>2, <1>3 DEF Ticks
  <1>6. a <= f => EventsIn(g, RangeBeg, a) = {}
    BY <1>2, <1>3 DEF EventsIn
  <1> QED
    BY <1>1, <1>4, <1>5, <1>6

LEMMA InitFacts ==
    /\ CoarseInit \in Coarses /\ CoarseInit.beg = RangeBeg /\ CoarseInit.cnt = 0
    /\ CoarseInit.min = NoVal /\ CoarseInit.filled = 0 /\ CoarseInit.sum = 0
    /\ CoarseInit.out = <<>> /\ CoarseInit.lst = NoVal /\ Grown(CoarseInit, RangeBeg)
  <1>1. NoVal \in MaybeVals /\ RangeBeg \in Nat /\ <<>> \in Seq(CoarseBins)
    BY ConstFacts, EmptySeq DEF MaybeVals
  <1>2. CoarseInit \in Coarses
    BY <1>1 DEF CoarseInit, Coarses
  <1>3. Grown(CoarseInit, RangeBeg)
    BY CoarseConst DEF Grown, CoarseInit, CoarseEnd
  <1> QED
    BY <1>2, <1>3 DEF CoarseInit

LEMMA OpenFirst ==
    ASSUME NEW g \in Increase, g # <<>>, NEW b \in GoodBins, b.beg = FineFrom(First(g))
    PROVE  LET o == Opened(CoarseInit, b) IN Knows(g, o, b.beg) /\ PutOut(g, o)
  <1>1. PICK o : o = Opened(CoarseInit, b)
    OBVIOUS
  <1>2. PICK f \in Nat : f = FineFrom(First(g)) /\ f = b.beg /\ RangeBeg <= f
    BY MadeToFacts
  <1>3. CoarseInit.beg <= b.beg /\ CoarseInit.beg % CoarseLen = 0 /\ RangeBeg <= CoarseInit.beg
    BY <1>2, InitFacts, CoarseConst
  <1>4. o \in Coarses /\ o.beg <= f /\ RangeBeg <= o.beg
    BY <1>1, <1>2, <1>3, InitFacts, OpenFacts
  <1>5. /\ o.cnt = 0 /\ o.min = NoVal /\ o.filled = 0 /\ o.sum = 0 /\ o.out = <<>>
    <2>1. CASE b.beg >= CoarseEnd(CoarseInit)
      <3>1. o = Finish(CoarseInit, f)
        BY <1>1, <1>2, <2>1 DEF Opened
      <3> QED
        BY <3>1, InitFacts, FinishFacts
    <2>2. CASE ~(b.beg >= CoarseEnd(CoarseInit))
      BY <1>1, <2>2, InitFacts DEF Opened
    <2> QED
      BY <2>1, <2>2
  <1>6. PICK a \in Int : a = o.beg /\ RangeBeg <= a /\ a <= f
    <2>1. o.beg \in Int
      BY <1>4 DEF Coarses
    <2> QED
      BY <1>4, <2>1
  <1>7. EventsIn(g, a, f) = {} /\ Ticks(g, a, f) = {} /\ EventsIn(g, RangeBeg, a) = {}
    BY <1>2, <1>6, NothingBefore
  <1>8. /\ HeldIn(g, a, f) = {} /\ Integral(g, a, f) = 0 /\ Cardinality(Ticks(g, a, f)) = 0
        /\ Cardinality(EventsIn(g, a, f)) = 0
    <2>1. HeldIn(g, a, f) = {} /\ Area(g, a, f) = {}
      BY <1>7 DEF HeldIn, Area
    <2> QED
      BY <1>7, <2>1, FS_EmptySet DEF Integral
  <1>9. Knows(g, o, f)
    <2>1. Scale * 0 = 0
      BY CoarseConst
    <2>2. f <= f
      OBVIOUS
    <2> QED
      BY <1>2, <1>5, <1>6, <1>8, <2>1, <2>2 DEF Knows
  <1>10. EventBegs(g, a) = {}
    BY <1>7 DEF EventBegs
  <1>11. CoarseBegs(<<>>) = {} /\ 1..Len(<<>>) = {}
    BY DEF CoarseBegs, ToSet
  <1>12. PutOut(g, o)
    BY <1>5, <1>6, <1>10, <1>11 DEF PutOut
  <1> QED
    BY <1>1, <1>2, <1>9, <1>12

(* ingest_bins, one bin after the other: what holds of the binner stays    *)
(* so if every bin keeps it.                                               *)
IsIngest(c, q, F) ==
    F = [i \in 0..Len(q) |-> IF i = 0 THEN c ELSE IngestBin(F[i - 1], q[i])]

LEMMA IngestExists ==
    ASSUME NEW c
    PROVE  \A n \in Nat : \A q \in Seq(Bins) : Len(q) = n => \E F : IsIngest(c, q, F)
  <1> DEFINE T == {n \in Nat : \A q \in Seq(Bins) : Len(q) = n => \E F : IsIngest(c, q, F)}
  <1>1. 0 \in T
    <2>1. ASSUME NEW q \in Seq(Bins), Len(q) = 0 PROVE \E F : IsIngest(c, q, F)
      <3>1. PICK F : F = [i \in 0..0 |-> c]
        OBVIOUS
      <3>2. IsIngest(c, q, F)
        BY <2>1, <3>1 DEF IsIngest
      <3> QED
        BY <3>2
    <2> QED
      BY <2>1
  <1>2. ASSUME NEW n \in Nat, n \in T PROVE n + 1 \in T
    <2>1. ASSUME NEW q \in Seq(Bins), Len(q) = n + 1 PROVE \E F : IsIngest(c, q, F)
      <3>1. PICK p : p = SubSeq(q, 1, n)
        OBVIOUS
      <3>2. p \in Seq(Bins) /\ Len(p) = n /\ \A i \in 1..n : p[i] = q[i]
        <4>1. \A i \in 1..n : q[i] \in Bins
          BY <2>1
        <4>2. /\ SubSeq(q, 1, n) \in Seq(Bins)
              /\ Len(SubSeq(q, 1, n)) = IF 1 <= n THEN n - 1 + 1 ELSE 0
              /\ \A i \in 1..n - 1 + 1 : SubSeq(q, 1, n)[i] = q[1 + i - 1]
          BY <4>1, SubSeqProperties
        <4> QED
          BY <3>1, <4>2
      <3>3. PICK G : IsIngest(c, p, G)
        BY <1>2, <3>2
      <3>4. PICK F : F = [i \in 0..(n + 1) |-> IF i \in 0..n THEN G[i] ELSE IngestBin(G[n], q[n + 1])]
        OBVIOUS
      <3>5. G = [i \in 0..n |-> IF i = 0 THEN c ELSE IngestBin(G[i - 1], p[i])]
        BY <3>2, <3>3 DEF IsIngest
      <3>6. ASSUME NEW i \in 0..(n + 1)
            PROVE  F[i] = IF i = 0 THEN c ELSE IngestBin(F[i - 1], q[i])
        <4>1. CASE i \in 0..n
          <5>1. F[i] = G[i] /\ G[i] = IF i = 0 THEN c ELSE IngestBin(G[i - 1], p[i])
            BY <3>4, <3>5, <4>1
          <5>2. i # 0 => i - 1 \in 0..n /\ i - 1 \in 0..(n + 1) /\ i \in 1..n
            BY <4>1
          <5>3. i # 0 => F[i - 1] = G[i - 1] /\ p[i] = q[i]
            BY <3>2, <3>4, <5>2
          <5> QED
            BY <5>1, <5>3
        <4>2. CASE i = n + 1
          <5>1. F[i] = IngestBin(G[n], q[n + 1]) /\ F[n] = G[n] /\ i - 1 = n /\ i # 0
            BY <3>4, <4>2
          <5> QED
            BY <4>2, <5>1
        <4> QED
          BY <4>1, <4>2
      <3>7. F = [i \in 0..(n + 1) |-> IF i = 0 THEN c ELSE IngestBin(F[i - 1], q[i])]
        <4>1. F = [i \in 0..(n + 1) |-> F[i]]
          BY <3>4
        <4> QED
          BY <3>6, <4>1
      <3> QED
        BY <2>1, <3>7 DEF IsIngest
    <2> QED
      BY <2>1
  <1>3. \A n \in Nat : n \in T
    <2> HIDE DEF T
    <2> QED
      BY <1>1, <1>2, NatSetInduction
  <1> QED
    BY <1>3

LEMMA IngestKeeps ==
    ASSUME NEW q \in Seq(Bins), NEW P, NEW c, c \in P[0],
           \A i \in 1..Len(q) : \A x \in P[i - 1] : IngestBin(x, q[i]) \in P[i]
    PROVE  IngestBins(c, q) \in P[Len(q)]
  <1>1. PICK n \in Nat : n = Len(q)
    OBVIOUS
  <1> DEFINE R == CHOOSE F : F = [i \in 0..Len(q) |->
                                   IF i = 0 THEN c ELSE IngestBin(F[i - 1], q[i])]
  <1>2. IngestBins(c, q) = R[Len(q)]
    BY DEF IngestBins
  <1>3. R = [i \in 0..Len(q) |-> IF i = 0 THEN c ELSE IngestBin(R[i - 1], q[i])]
    <2>1. PICK F : IsIngest(c, q, F)
      BY <1>1, IngestExists
    <2>2. F = [i \in 0..Len(q) |-> IF i = 0 THEN c ELSE IngestBin(F[i - 1], q[i])]
      BY <2>1 DEF IsIngest
    <2> QED
      BY <2>2
  <1>4. PICK F : F = R
    OBVIOUS
  <1>5. F = [i \in 0..n |-> IF i = 0 THEN c ELSE IngestBin(F[i - 1], q[i])]
    BY <1>1, <1>3, <1>4
  <1> HIDE DEF R
  <1> DEFINE T == {i \in Nat : i <= n => F[i] \in P[i]}
  <1>6. 0 \in T
    BY <1>5
  <1>7. ASSUME NEW i \in Nat, i \in T PROVE i + 1 \in T
    <2>1. ASSUME i + 1 <= n PROVE F[i + 1] \in P[i + 1]
      <3>1. i + 1 \in 0..n /\ i + 1 # 0 /\ (i + 1) - 1 = i /\ i + 1 \in 1..Len(q) /\ i <= n
        BY <1>1, <2>1
      <3>2. F[i + 1] = IngestBin(F[i], q[i + 1])
        BY <1>5, <3>1
      <3>3. F[i] \in P[(i + 1) - 1]
        BY <1>7, <3>1
      <3> QED
        BY <3>1, <3>2, <3>3
    <2> QED
      BY <2>1
  <1>8. \A i \in Nat : i \in T
    <2> HIDE DEF T
    <2> QED
      BY <1>6, <1>7, NatSetInduction
  <1>9. F[n] \in P[n]
    BY <1>8
  <1> QED
    BY <1>1, <1>2, <1>4, <1>9

LEMMA AtFacts ==
    ASSUME IInv, OrderInv, Ingested # <<>>, NEW k \in 1..Len(AllBins)
    PROVE  /\ AllBins[k] \in GoodBins /\ At(k) = AllBins[k].end
           /\ At(k - 1) \in Nat /\ RangeBeg <= At(k - 1) /\ At(k - 1) <= AllBins[k].beg
           /\ Made(Ingested, AllBins[k], AllBins[k].end)
           /\ cnt_zero => AllBins[k].beg = IF k = 1 THEN FineFrom(First(Ingested)) ELSE At(k - 1)
  <1>1. PICK g \in Increase : g = Ingested /\ g # <<>>
    BY SplitFacts DEF IInv, Core
  <1>2. PICK all \in Seq(Bins) : all = AllBins
    BY AllFacts
  <1>3. PICK n \in Nat : n = Len(all) /\ k \in 1..n
    BY <1>2
  <1>4. \A i \in 1..n : Made(g, all[i], bn.beg) /\ all[i] \in Bins
    BY <1>1, <1>2, <1>3, AllFacts
  <1>5. /\ \A i \in 1..n :
             /\ all[i].beg % BinLen = 0 /\ RangeBeg <= all[i].beg
             /\ \A j \in 1..n : i < j => all[i].end <= all[j].beg
        /\ cnt_zero => \A i \in 1..n : all[i].beg = MadeTo(g, i - 1)
    BY <1>1, <1>2, <1>3 DEF OrderInv
  <1>6. PICK b \in Bins : b = all[k]
    BY <1>3, <1>4
  <1>7. /\ b.end = b.beg + BinLen /\ First(g) < b.end
        /\ b.width = Cardinality(Ticks(g, b.beg, b.end))
        /\ b.beg \in Int /\ b.end \in Int /\ BinLen \in Nat \ {0} /\ RangeBeg \in Nat
    BY <1>3, <1>4, <1>6, ConstFacts DEF Made, BinMatches, Bins
  <1>8. b.width \in 1..BinLen
    <2>1. Cardinality(Ticks(g, b.beg, b.end)) \in 1..(b.end - b.beg)
      BY <1>1, <1>7, WidthFacts
    <2> QED
      BY <1>7, <2>1
  <1>9. b \in GoodBins
    BY <1>3, <1>5, <1>6, <1>7, <1>8 DEF GoodBins
  <1>10. Made(g, b, b.end)
    <2>1. Made(g, b, bn.beg)
      BY <1>3, <1>4, <1>6
    <2>2. b.end <= b.end
      BY <1>7
    <2> QED
      BY <2>1, <2>2 DEF Made
  <1>11. At(k) = b.end
    BY <1>2, <1>3, <1>6 DEF At
  <1>12. CASE k = 1
    <2>1. At(k - 1) = RangeBeg
      BY <1>12 DEF At
    <2>2. RangeBeg <= b.beg
      BY <1>3, <1>5, <1>6
    <2>3. cnt_zero => b.beg = FineFrom(First(g))
      <3>1. MadeTo(g, 0) = FineFrom(First(g)) /\ k - 1 = 0
        BY <1>1, <1>12, MadeToFacts
      <3>2. cnt_zero => b.beg = MadeTo(g, k - 1)
        BY <1>3, <1>5, <1>6
      <3> QED
        BY <3>1, <3>2
    <2> QED
      BY <1>1, <1>2, <1>6, <1>7, <1>9, <1>10, <1>11, <1>12, <2>1, <2>2, <2>3
  <1>13. CASE k # 1
    <2>1. PICK j \in 1..n : j = k - 1 /\ j < k /\ j # 0
      BY <1>3, <1>13
    <2>2. PICK m \in Nat : j = m + 1 /\ j - 1 = m /\ k - 1 = m + 1
      <3>1. j - 1 \in Nat /\ j = (j - 1) + 1
        BY <2>1
      <3> QED
        BY <2>1, <3>1
    <2>3. At(k - 1) = all[j].end
      BY <1>2, <2>1 DEF At
    <2>4. /\ all[j].end <= b.beg /\ all[j] \in Bins /\ RangeBeg <= all[j].beg
          /\ all[j].end = all[j].beg + BinLen
      BY <1>3, <1>4, <1>5, <1>6, <2>1 DEF Made
    <2>5. all[j].end \in Nat /\ all[j].beg \in Nat
      BY <2>4 DEF Bins
    <2>6. RangeBeg <= all[j].end
      BY <1>7, <2>4, <2>5
    <2>7. ASSUME cnt_zero PROVE b.beg = all[j].end
      <3>1. all[j].beg = MadeTo(g, m) /\ b.beg = MadeTo(g, m + 1)
        BY <1>3, <1>5, <1>6, <2>1, <2>2, <2>7
      <3>2. MadeTo(g, m + 1) = MadeTo(g, m) + BinLen
        BY <1>1, MadeToFacts
      <3> QED
        BY <2>4, <3>1, <3>2
    <2> QED
      BY <1>1, <1>2, <1>6, <1>7, <1>9, <1>10, <1>11, <1>13, <2>3, <2>4, <2>5, <2>6, <2>7
  <1> QED
    BY <1>12, <1>13

(* Where the range begins, a coarse bin begins.                            *)
LEMMA GrownInRange ==
    ASSUME NEW c \in Coarses, NEW t \in Nat, Grown(c, t), RangeBeg <= t
    PROVE  c.beg \in Nat /\ RangeBeg <= c.beg
  <1>1. c.beg \in Int /\ c.beg \in Nat /\ CoarseLen \in Nat \ {0} /\ RangeBeg \in Int
        /\ RangeBeg % CoarseLen = 0
    BY CoarseConst DEF Coarses
  <1>2. c.beg % CoarseLen = 0 /\ t < c.beg + CoarseLen
    BY DEF Grown, CoarseEnd
  <1>3. c.beg < RangeBeg => c.beg + CoarseLen <= RangeBeg
    BY <1>1, <1>2, GridStep
  <1> QED
    BY <1>1, <1>2, <1>3

LEMMA StepFirst ==
    ASSUME NEW g \in Increase, g # <<>>, NEW b \in GoodBins, b.beg = FineFrom(First(g)),
           Made(g, b, b.end)
    PROVE  Knows(g, IngestBin(CoarseInit, b), b.end) /\ PutOut(g, IngestBin(CoarseInit, b))
  <1>1. PICK c \in Coarses : c = CoarseInit
    BY InitFacts
  <1>2. c.beg % CoarseLen = 0 /\ c.beg <= b.beg /\ RangeBeg <= c.beg
    <2>1. RangeBeg <= b.beg
      BY DEF GoodBins
    <2> QED
      BY <1>1, <2>1, InitFacts, CoarseConst
  <1>3. PICK o : o = Opened(c, b)
    OBVIOUS
  <1>4. /\ o \in Coarses /\ o.beg % CoarseLen = 0 /\ o.beg <= b.beg
        /\ b.end <= CoarseEnd(o) /\ RangeBeg <= o.beg
        /\ IngestBin(c, b) = Closed(CoarseAdd(o, b), b)
    BY <1>2, <1>3, OpenFacts
  <1>5. Knows(g, o, b.beg) /\ PutOut(g, o)
    BY <1>1, <1>3, OpenFirst
  <1> QED
    BY <1>1, <1>4, <1>5, CoarseStep

LEMMA StepLater ==
    ASSUME NEW g \in Increase, g # <<>>, NEW c \in Coarses, NEW b \in GoodBins,
           Grown(c, b.beg), Made(g, b, b.end), Knows(g, c, b.beg), PutOut(g, c)
    PROVE  Knows(g, IngestBin(c, b), b.end) /\ PutOut(g, IngestBin(c, b))
  <1>1. /\ b.beg \in Nat /\ RangeBeg <= b.beg
    BY DEF GoodBins, Bins
  <1>2. c.beg \in Nat /\ RangeBeg <= c.beg
    BY <1>1, GrownInRange
  <1>3. c.beg % CoarseLen = 0 /\ c.beg <= b.beg /\ ~(b.beg >= CoarseEnd(c))
    <2>1. CoarseEnd(c) \in Nat
      BY <1>2, CoarseConst DEF CoarseEnd
    <2> QED
      BY <1>1, <2>1 DEF Grown
  <1>4. Opened(c, b) = c
    BY <1>3 DEF Opened
  <1>5. b.end <= CoarseEnd(c) /\ IngestBin(c, b) = Closed(CoarseAdd(c, b), b)
    <2>1. PICK o : o = Opened(c, b)
      OBVIOUS
    <2>2. b.end <= CoarseEnd(o) /\ IngestBin(c, b) = Closed(CoarseAdd(o, b), b)
      BY <1>3, <2>1, OpenFacts
    <2> QED
      BY <1>4, <2>1, <2>2
  <1> QED
    BY <1>2, <1>3, <1>5, CoarseStep

(* One bin more.                                                           *)
LEMMA OkStep ==
    ASSUME IInv, OrderInv, Ingested # <<>>, NEW k \in 1..Len(AllBins), NEW c \in Coarses,
           OkAt(c, k - 1)
    PROVE  IngestBin(c, AllBins[k]) \in Coarses /\ OkAt(IngestBin(c, AllBins[k]), k)
  <1>1. PICK g \in Increase : g = Ingested /\ g # <<>>
    BY SplitFacts DEF IInv, Core
  <1>2. PICK b \in GoodBins : b = AllBins[k] /\ At(k) = b.end /\ Made(g, b, b.end)
    BY <1>1, AtFacts
  <1>3. PICK t \in Nat : t = At(k - 1) /\ RangeBeg <= t /\ t <= b.beg
    BY <1>2, AtFacts
  <1>4. cnt_zero => b.beg = IF k = 1 THEN FineFrom(First(g)) ELSE t
    BY <1>1, <1>2, <1>3, AtFacts
  <1>5. Grown(c, t) /\ (k - 1 = 0 => c = CoarseInit)
        /\ (cnt_zero /\ k - 1 # 0 => Knows(g, c, t) /\ PutOut(g, c))
    BY <1>1, <1>3 DEF OkAt
  <1>6. PICK r : r = IngestBin(c, b)
    OBVIOUS
  <1>7. r \in Coarses /\ Grown(r, b.end)
    BY <1>3, <1>5, <1>6, GrownStep
  <1>8. ASSUME cnt_zero PROVE Knows(g, r, b.end) /\ PutOut(g, r)
    <2>1. CASE k = 1
      <3>1. c = CoarseInit /\ b.beg = FineFrom(First(g))
        BY <1>4, <1>5, <1>8, <2>1
      <3> QED
        BY <1>1, <1>2, <1>6, <3>1, StepFirst
    <2>2. CASE k # 1
      <3>1. b.beg = t /\ Knows(g, c, t) /\ PutOut(g, c)
        BY <1>4, <1>5, <1>8, <2>2
      <3> QED
        BY <1>1, <1>2, <1>5, <1>6, <3>1, StepLater
    <2> QED
      BY <2>1, <2>2
  <1>9. k # 0
    OBVIOUS
  <1>10. OkAt(r, k)
    BY <1>1, <1>2, <1>7, <1>8, <1>9 DEF OkAt
  <1> QED
    BY <1>2, <1>6, <1>7, <1>10

(* The bins of out, all of them.                                           *)
LEMMA OkIngest ==
    ASSUME IInv, OrderInv, NEW c \in Coarses, OkAt(c, Len(fine))
    PROVE  /\ IngestBins(c, out) \in Coarses
           /\ OkAt(IngestBins(c, out), Len(fine) + Len(out))
  <1>1. PICK m \in Nat, n \in Nat : m = Len(fine) /\ n = Len(out) /\ Len(AllBins) = m + n
    BY AllFacts
  <1>2. /\ \A i \in 1..n : AllBins[m + i] = out[i]
        /\ Ingested = <<>> => AllBins = <<>>
    BY <1>1, AllFacts
  <1>3. out \in Seq(Bins)
    BY DEF IInv, Core, StateTypes
  <1> DEFINE P == [i \in 0..n |-> {x \in Coarses : OkAt(x, m + i)}]
  <1>4. c \in P[0]
    <2>1. 0 \in 0..n /\ m + 0 = m
      OBVIOUS
    <2> QED
      BY <1>1, <2>1
  <1>5. ASSUME NEW i \in 1..n, NEW x \in P[i - 1] PROVE IngestBin(x, out[i]) \in P[i]
    <2>1. /\ m + i \in 1..Len(AllBins) /\ (m + i) - 1 = m + (i - 1) /\ i - 1 \in 0..n /\ i \in 0..n
      BY <1>1
    <2>2. x \in Coarses /\ OkAt(x, (m + i) - 1)
      BY <2>1
    <2>3. Ingested # <<>>
      <3>1. Len(<<>>) = 0
        OBVIOUS
      <3> QED
        BY <1>2, <2>1, <3>1
    <2>4. IngestBin(x, AllBins[m + i]) \in Coarses /\ OkAt(IngestBin(x, AllBins[m + i]), m + i)
      BY <2>1, <2>2, <2>3, OkStep
    <2>5. PICK r : r = IngestBin(x, AllBins[m + i])
      OBVIOUS
    <2>6. r \in P[i]
      BY <2>1, <2>4, <2>5
    <2> QED
      BY <1>2, <2>5, <2>6
  <1>6. IngestBins(c, out) \in P[Len(out)]
    <2> HIDE DEF P
    <2> QED
      BY <1>1, <1>3, <1>4, <1>5, IngestKeeps
  <1>7. n \in 0..n
    OBVIOUS
  <1> QED
    BY <1>1, <1>6, <1>7
-----------------------------------------------------------------------------
(* An event does not change what was said of the time before it.           *)
LEMMA KnowsAppend ==
    ASSUME NEW g \in Increase, g # <<>>, NEW e \in Events, LastTs(g) < e.ts,
           NEW c \in Coarses, NEW t \in Int, t <= e.ts, Knows(g, c, t)
    PROVE  Knows(Append(g, e), c, t)
  <1>1. PICK h : h = Append(g, e)
    OBVIOUS
  <1>2. PICK a \in Int : a = c.beg
    BY DEF Coarses
  <1>3. First(h) = First(g)
    BY <1>1, AppendFacts
  <1>4. /\ Ticks(h, a, t) = Ticks(g, a, t) /\ HeldIn(h, a, t) = HeldIn(g, a, t)
        /\ Integral(h, a, t) = Integral(g, a, t) /\ EventsIn(h, a, t) = EventsIn(g, a, t)
    BY <1>1, Stable
  <1> QED
    BY <1>1, <1>2, <1>3, <1>4 DEF Knows, Whole

LEMMA RightAppend ==
    ASSUME NEW g \in Increase, g # <<>>, NEW e \in Events, LastTs(g) < e.ts,
           NEW b \in CoarseBins, NEW a \in Int, a <= e.ts, CoarseRight(g, b, a)
    PROVE  CoarseRight(Append(g, e), b, a)
  <1>1. PICK h : h = Append(g, e)
    OBVIOUS
  <1>2. PICK x \in Int, y \in Int : x = b.beg /\ y = b.end
    <2>1. b.beg \in Int /\ b.end \in Int
      BY DEF CoarseBins
    <2> QED
      BY <2>1
  <1>3. First(h) = First(g)
    BY <1>1, AppendFacts
  <1>4. /\ y = x + CoarseLen /\ y <= a /\ First(g) < y /\ CoarseLen \in Nat \ {0}
    BY <1>2, CoarseConst DEF CoarseRight
  <1>5. x < y /\ y <= e.ts
    BY <1>4, EventFacts
  <1>6. /\ Ticks(h, x, y) = Ticks(g, x, y) /\ HeldIn(h, x, y) = HeldIn(g, x, y)
        /\ Integral(h, x, y) = Integral(g, x, y) /\ EventsIn(h, x, y) = EventsIn(g, x, y)
        /\ ValueAt(h, y - 1) = ValueAt(g, y - 1)
    BY <1>1, <1>4, <1>5, Stable
  <1> QED
    BY <1>1, <1>2, <1>3, <1>6 DEF CoarseRight, CountsMatch, Whole

LEMMA PutOutAppend ==
    ASSUME NEW g \in Increase, g # <<>>, NEW e \in Events, LastTs(g) < e.ts,
           NEW c \in Coarses, c.beg <= e.ts, PutOut(g, c)
    PROVE  PutOut(Append(g, e), c)
  <1>0. PICK h : h = Append(g, e)
    OBVIOUS
  <1>1. h = Append(g, e) /\ \A i \in 1..Len(g) : h[i] = g[i]
    BY <1>0, AppendFacts
  <1>2. PICK a \in Int : a = c.beg /\ c.out \in Seq(CoarseBins)
    BY DEF Coarses
  <1>3. RangeBeg \in Int
    BY ConstFacts
  <1>4. EventsIn(h, RangeBeg, a) = EventsIn(g, RangeBeg, a)
    BY <1>1, <1>2, <1>3, Stable
  <1>5. \A i \in EventsIn(g, RangeBeg, a) : h[i] = g[i]
    BY <1>1 DEF EventsIn
  <1>6. EventBegs(h, a) = EventBegs(g, a)
    BY <1>4, <1>5 DEF EventBegs
  <1>7. ASSUME NEW i \in 1..Len(c.out) PROVE CoarseRight(h, c.out[i], a)
    <2>1. c.out[i] \in CoarseBins /\ CoarseRight(g, c.out[i], a)
      BY <1>2 DEF PutOut
    <2> QED
      BY <1>1, <1>2, <2>1, RightAppend
  <1> QED
    BY <1>1, <1>2, <1>6, <1>7 DEF PutOut

(* What was handed on stays so.                                            *)
LEMMA AtFine ==
    ASSUME IInv, IInv', fine' = fine
    PROVE  /\ Len(fine') = Len(fine) /\ Len(fine) \in Nat
           /\ At(Len(fine))' = At(Len(fine)) /\ At(Len(fine)) \in Nat
           /\ At(Len(fine)) = IF fine = <<>> THEN RangeBeg ELSE fine[Len(fine)].end
           /\ Ingested # <<>> /\ fine # <<>> => At(Len(fine)) <= bn.beg
           /\ Len(fine) = 0 <=> fine = <<>>
  <1>1. /\ fine \in Seq(Bins) /\ out \in Seq(Bins) /\ out' \in Seq(Bins)
    BY DEF IInv, Core, StateTypes
  <1>2. PICK n \in Nat : n = Len(fine) /\ (n = 0 <=> fine = <<>>)
    BY <1>1
  <1>3. ASSUME NEW q \in Seq(Bins), n # 0 PROVE (fine \o q)[n] = fine[n]
    <2>1. /\ n \in 1..Len(fine) + Len(q) /\ n <= Len(fine)
          /\ \A i \in 1..Len(fine) + Len(q) :
               (fine \o q)[i] = IF i <= Len(fine) THEN fine[i] ELSE q[i - Len(fine)]
      BY <1>1, <1>2, <1>3, ConcatProperties
    <2> QED
      BY <2>1
  <1>4. n # 0 => AllBins[n] = fine[n] /\ AllBins'[n] = fine[n]
    BY <1>1, <1>3 DEF AllBins
  <1>5. At(n) = IF n = 0 THEN RangeBeg ELSE fine[n].end
    BY <1>4 DEF At
  <1>6. At(n)' = IF n = 0 THEN RangeBeg ELSE fine[n].end
    BY <1>4 DEF At
  <1>7. n # 0 => fine[n] \in Bins /\ n \in 1..Len(fine)
    BY <1>1, <1>2
  <1>8. At(n) \in Nat
    BY <1>5, <1>7, ConstFacts DEF Bins
  <1>9. Ingested # <<>> /\ n # 0 => fine[n].end <= bn.beg
    BY <1>7 DEF IInv, Core, BinsInv, Made
  <1>10. At(Len(fine))' = At(n)'
    BY <1>2 DEF At
  <1> QED
    BY <1>2, <1>5, <1>6, <1>8, <1>9, <1>10

(* The events ingested stay, or one more comes after the bins.             *)
EventsAdded ==
    \/ Ingested' = Ingested
    \/ \E e \in Events : /\ Ingested' = Append(Ingested, e)
                         /\ Ingested # <<>> => bn.beg <= e.ts /\ LastTs(Ingested) < e.ts

LEMMA OkSame ==
    ASSUME IInv, IInv', UNCHANGED <<fine, cnt_zero>>, NEW c \in Coarses, OkAt(c, Len(fine)),
           EventsAdded
    PROVE  OkAt(c, Len(fine))'
  <1>1. PICK n \in Nat, t \in Nat : n = Len(fine) /\ t = At(n) /\ n = Len(fine')
    BY AtFine
  <1>2. At(Len(fine))' = t
    BY <1>1, AtFine
  <1>3. n # 0 => Ingested # <<>> /\ t <= bn.beg
    <2>1. Ingested = <<>> => fine = <<>>
      BY DEF IInv, Core, BinsInv
    <2> QED
      BY <1>1, <2>1, AtFine
  <1>4. /\ Grown(c, t) /\ (n = 0 => c = CoarseInit)
        /\ (cnt_zero /\ n # 0 => Knows(Ingested, c, t) /\ PutOut(Ingested, c))
    BY <1>1 DEF OkAt
  <1>5. PICK g \in Increase : g = Ingested
    BY SplitFacts DEF IInv, Core
  <1>6. PICK h : h = Ingested'
    OBVIOUS
  <1>7. ASSUME cnt_zero, n # 0 PROVE Knows(h, c, t) /\ PutOut(h, c)
    <2>1. Knows(g, c, t) /\ PutOut(g, c) /\ g # <<>> /\ t <= bn.beg
      BY <1>3, <1>4, <1>5, <1>7
    <2>2. CASE h = g
      BY <2>1, <2>2
    <2>3. CASE h # g
      <3>1. PICK e \in Events : h = Append(g, e) /\ bn.beg <= e.ts /\ LastTs(g) < e.ts
        BY <1>5, <1>6, <2>1, <2>3 DEF EventsAdded
      <3>2. bn.beg \in Nat /\ e.ts \in Int
        BY EventFacts DEF IInv, Core, StateTypes, Actives
      <3>3. t <= e.ts /\ t \in Int
        BY <2>1, <3>1, <3>2
      <3>4. c.beg <= e.ts
        <4>1. c.beg \in Nat /\ c.beg <= t
          BY <1>4 DEF Grown, Coarses
        <4> QED
          BY <3>2, <3>3, <4>1
      <3> QED
        BY <2>1, <3>1, <3>3, <3>4, KnowsAppend, PutOutAppend
    <2> QED
      BY <2>2, <2>3
  <1>8. cnt_zero' = cnt_zero
    OBVIOUS
  <1>9. cnt_zero' /\ Len(fine') # 0 => Knows(h, c, t) /\ PutOut(h, c)
    <2>1. ASSUME cnt_zero', n # 0 PROVE Knows(h, c, t) /\ PutOut(h, c)
      <3>1. cnt_zero
        BY <1>8, <2>1
      <3> QED
        BY <1>7, <2>1, <3>1
    <2>2. n = Len(fine')
      BY <1>1
    <2> QED
      BY <2>1, <2>2, Zenon
  <1>10. Len(fine') = 0 => c = CoarseInit
    BY <1>1, <1>4
  <1> QED
    BY <1>2, <1>4, <1>6, <1>9, <1>10 DEF OkAt, Knows, PutOut, Grown

(* The bins of out are handed on.                                          *)
LEMMA OkHandOn ==
    ASSUME IInv, IInv', OrderInv, HandOn, UNCHANGED <<evs, seen, cnt_zero>>,
           NEW c \in Coarses, coarse = c, OkAt(c, Len(fine))
    PROVE  \E x \in Coarses : coarse' = x /\ OkAt(x, Len(fine))'
  <1>1. PICK x \in Coarses : x = IngestBins(c, out) /\ OkAt(x, Len(fine) + Len(out))
    BY OkIngest
  <1>2. fine' = fine \o out /\ out' = <<>> /\ coarse' = x
    BY <1>1 DEF HandOn
  <1>3. AllBins' = AllBins
    <2>1. fine \o out \in Seq(Bins)
      BY AllFacts DEF AllBins
    <2> QED
      BY <1>2, <2>1, ConcatEmptySeq DEF AllBins
  <1>4. Len(fine') = Len(fine) + Len(out)
    BY <1>2, AllFacts DEF AllBins
  <1>5. Ingested' = Ingested
    BY DEF Ingested
  <1>6. PICK k : k = Len(fine')
    OBVIOUS
  <1>7. OkAt(x, k)
    BY <1>1, <1>4, <1>6
  <1>8. At(k)' = At(k)
    BY <1>3 DEF At
  <1>9. OkAt(x, k)'
    BY <1>5, <1>7, <1>8 DEF OkAt, Knows, PutOut, Grown
  <1>10. OkAt(x, Len(fine))'
    BY <1>6, <1>9 DEF OkAt, At
  <1> QED
    BY <1>2, <1>10

LEMMA CoarseStart == ASSUME Init PROVE CoarseInv
  <1>1. Len(fine) = 0 /\ coarse = CoarseInit /\ phase # "Done"
    BY DEF Init, CoarseInit
  <1>2. At(0) = RangeBeg
    BY DEF At
  <1>3. OkAt(CoarseInit, 0)
    BY <1>2, InitFacts DEF OkAt
  <1> QED
    BY <1>1, <1>3, InitFacts DEF CoarseInv

LEMMA CoarseNext == ASSUME IInv, OrderInv, CoarseInv, [Next]_vars PROVE CoarseInv'
  <1>1. IInv'
    BY IInvNext
  <1>2. PICK c \in Coarses :
          OkAt(c, Len(fine)) /\ coarse = IF phase = "Done" THEN Ended(c) ELSE c
    BY DEF CoarseInv
  <1>3. ASSUME UNCHANGED <<fine, cnt_zero, coarse>>, phase' = "Done" <=> phase = "Done",
               EventsAdded
        PROVE  CoarseInv'
    <2>1. OkAt(c, Len(fine))'
      BY <1>1, <1>2, <1>3, OkSame
    <2>2. coarse' = IF phase' = "Done" THEN Ended(c) ELSE c
      BY <1>2, <1>3
    <2> QED
      BY <2>1, <2>2 DEF CoarseInv
  <1>4. ASSUME NEW d \in Chunks, Data(d) PROVE CoarseInv'
    <2>1. Ingested' = Ingested
      BY <1>4, DataKeeps
    <2>2. UNCHANGED <<fine, cnt_zero, coarse>> /\ phase # "Done" /\ phase' # "Done"
      BY <1>4 DEF Data
    <2> QED
      BY <1>3, <2>1, <2>2 DEF EventsAdded
  <1>5. ASSUME IngestEvent PROVE CoarseInv'
    <2>1. UNCHANGED <<fine, cnt_zero, coarse>> /\ phase # "Done" /\ phase' # "Done"
      BY <1>5 DEF IngestEvent
    <2>2. \E e \in Events : /\ Ingested' = Append(Ingested, e)
                            /\ Ingested # <<>> => bn.beg <= e.ts /\ LastTs(Ingested) < e.ts
      BY <1>5, IngestEventKeeps
    <2> QED
      BY <1>3, <2>1, <2>2 DEF EventsAdded
  <1>6. ASSUME Fail \/ IngestCycle \/ Eos \/ EosCycle \/ EosCycled PROVE CoarseInv'
    <2>1. /\ UNCHANGED <<fine, cnt_zero, coarse, evs, seen>> /\ phase # "Done" /\ phase' # "Done"
      BY <1>6 DEF Fail, IngestCycle, Eos, EosCycle, EosCycled, CallCycle
    <2>2. Ingested' = Ingested
      BY <2>1 DEF Ingested
    <2> QED
      BY <1>3, <2>1, <2>2 DEF EventsAdded
  <1>7. ASSUME Terminated \/ UNCHANGED vars PROVE CoarseInv'
    <2>1. UNCHANGED <<fine, cnt_zero, coarse, evs, seen, phase>>
      BY <1>7 DEF Terminated, vars
    <2>2. Ingested' = Ingested
      BY <2>1 DEF Ingested
    <2> QED
      BY <1>3, <2>1, <2>2 DEF EventsAdded
  <1>8. ASSUME Output \/ Remains PROVE CoarseInv'
    <2>1. /\ HandOn /\ UNCHANGED <<cnt_zero, evs, seen>> /\ phase # "Done" /\ phase' # "Done"
      BY <1>8 DEF Output, Remains, CallCycle
    <2>2. coarse = c
      BY <1>2, <2>1
    <2>3. PICK x \in Coarses : coarse' = x /\ OkAt(x, Len(fine))'
      BY <1>1, <1>2, <2>1, <2>2, OkHandOn
    <2> QED
      BY <2>1, <2>3 DEF CoarseInv
  <1>9. ASSUME RemainsDone PROVE CoarseInv'
    <2>1. /\ phase = "Remains" /\ phase' = "Done" /\ UNCHANGED <<fine, cnt_zero, evs, seen>>
          /\ coarse' = Finish([coarse EXCEPT !.non_fnl = TRUE], CoarseEnd(coarse))
      BY <1>9 DEF RemainsDone
    <2>2. coarse' = Ended(c)
      BY <1>2, <2>1 DEF Ended
    <2>3. Ingested' = Ingested
      BY <2>1 DEF Ingested
    <2>4. OkAt(c, Len(fine))'
      BY <1>1, <1>2, <2>1, <2>3, OkSame DEF EventsAdded
    <2> QED
      BY <2>1, <2>2, <2>4 DEF CoarseInv
  <1> QED
    BY <1>4, <1>5, <1>6, <1>7, <1>8, <1>9 DEF Next

FullInv == IInv /\ OrderInv /\ EndInv /\ PanicInv /\ CoarseInv

LEMMA FullAlways == Spec => []FullInv
  <1>1. Init => FullInv
    BY InitCore, InitFollowing, OrderInit, EndInit, CoarseStart
    DEF FullInv, IInv, PanicInv, Init
  <1>2. FullInv /\ [Next]_vars => FullInv'
    BY IInvNext, OrderNext, EndNext, PanicNext, CoarseNext DEF FullInv
  <1> QED
    BY <1>1, <1>2, PTL DEF Spec
-----------------------------------------------------------------------------
(* At the end the active coarse bin is put out.                            *)
LEMMA EndedFacts ==
    ASSUME NEW c \in Coarses, c.beg % CoarseLen = 0
    PROVE  /\ Ended(c) \in Coarses /\ Ended(c).beg % CoarseLen = 0 /\ Ended(c).filled = 0
           /\ c.cnt = 0 => Ended(c).out = c.out
  <1>1. PICK d : d = [c EXCEPT !.non_fnl = TRUE]
    OBVIOUS
  <1>2. d \in Coarses /\ d.cnt = c.cnt /\ d.out = c.out
    BY <1>1 DEF Coarses
  <1>3. PICK t \in Nat : t = CoarseEnd(c) /\ t = c.beg + CoarseLen
    BY CoarseConst DEF CoarseEnd, Coarses
  <1>4. PICK r : r = Ended(c)
    OBVIOUS
  <1>5. r = Finish(d, t)
    BY <1>1, <1>3, <1>4 DEF Ended
  <1>6. /\ r \in Coarses /\ r.beg = Floor(t, CoarseLen) /\ r.filled = 0
        /\ r.out = IF d.cnt = 0 THEN d.out ELSE Append(d.out, Emitted(d))
    BY <1>2, <1>5, FinishFacts
  <1>7. Floor(t, CoarseLen) % CoarseLen = 0
    <2>1. t \in Int /\ CoarseLen \in Nat \ {0}
      BY CoarseConst
    <2> QED
      BY <2>1, FloorFacts
  <1> QED
    BY <1>2, <1>4, <1>6, <1>7

LEMMA CoarseTyped ==
    ASSUME IInv, CoarseInv
    PROVE  coarse \in Coarses /\ coarse.beg % CoarseLen = 0 /\ coarse.filled \in 0..CoarseLen
  <1>1. PICK c \in Coarses :
          OkAt(c, Len(fine)) /\ coarse = IF phase = "Done" THEN Ended(c) ELSE c
    BY DEF CoarseInv
  <1>2. PICK t : t = At(Len(fine)) /\ Grown(c, t)
    BY <1>1 DEF OkAt
  <1>3. t \in Nat
    <2>1. fine \in Seq(Bins)
      BY DEF IInv, Core, StateTypes
    <2>2. PICK n \in Nat : n = Len(fine) /\ t = At(n)
      BY <1>2, <2>1
    <2>3. CASE n = 0
      BY <2>2, <2>3, ConstFacts DEF At
    <2>4. CASE n # 0
      <3>1. n \in 1..Len(fine) /\ AllBins[n] = fine[n] /\ fine[n] \in Bins
        BY <2>1, <2>2, <2>4, AllFacts
      <3> QED
        BY <2>2, <2>4, <3>1 DEF At, Bins
    <2> QED
      BY <2>3, <2>4
  <1>4. c.beg % CoarseLen = 0 /\ c.filled \in 0..CoarseLen
    <2>1. c.beg \in Nat /\ c.filled \in Nat /\ CoarseLen \in Nat \ {0}
      BY CoarseConst DEF Coarses
    <2> QED
      BY <1>2, <1>3, <2>1 DEF Grown, CoarseEnd
  <1>5. /\ Ended(c) \in Coarses /\ Ended(c).beg % CoarseLen = 0 /\ Ended(c).filled = 0
    BY <1>4, EndedFacts
  <1>6. 0 \in 0..CoarseLen
    BY CoarseConst
  <1> QED
    BY <1>1, <1>4, <1>5, <1>6

LEMMA WidthBound ==
    ASSUME NEW g, NEW a \in Int, NEW b \in Int, a <= b
    PROVE  Cardinality(Ticks(g, a, b)) \in 0..(b - a)
  <1>1. IsFiniteSet(a..(b - 1)) /\ Cardinality(a..(b - 1)) = b - a
    BY Spans
  <1>2. Ticks(g, a, b) \subseteq a..(b - 1)
    BY DEF Ticks
  <1>3. /\ IsFiniteSet(Ticks(g, a, b)) /\ Cardinality(Ticks(g, a, b)) <= b - a
    BY <1>1, <1>2, FS_Subset
  <1>4. Cardinality(Ticks(g, a, b)) \in Nat
    BY <1>3, FS_CardinalityType
  <1> QED
    BY <1>3, <1>4

LEMMA ActiveTyped ==
    ASSUME IInv
    PROVE  bn.until \in bn.beg..End(bn) /\ bn.width \in 0..(bn.until - bn.beg)
  <1>1. bn.beg \in Nat /\ bn.until \in Nat /\ BinLen \in Nat \ {0} /\ End(bn) = bn.beg + BinLen
    BY ConstFacts DEF IInv, Core, StateTypes, Actives, End
  <1>2. CASE Ingested = <<>>
    <2>1. bn.until = bn.beg /\ bn.width = 0
      BY <1>2 DEF IInv, Core, BinsInv, Blank
    <2> QED
      BY <1>1, <2>1
  <1>3. CASE Ingested # <<>>
    <2>1. PICK g \in Increase : g = Ingested /\ g # <<>>
      BY <1>3, SplitFacts DEF IInv, Core
    <2>2. /\ LastTs(g) < End(bn)
          /\ bn.until = IF LastTs(g) <= bn.beg THEN bn.beg ELSE LastTs(g)
          /\ bn.width = Cardinality(Ticks(g, bn.beg, bn.until))
      BY <2>1 DEF IInv, Core, BinsInv, Active
    <2>3. LastTs(g) \in Int
      BY <2>1, FirstFacts
    <2>4. bn.beg <= bn.until /\ bn.until <= End(bn)
      BY <1>1, <2>2, <2>3
    <2>5. bn.width \in 0..(bn.until - bn.beg)
      BY <1>1, <2>2, <2>4, WidthBound
    <2> QED
      BY <1>1, <2>4, <2>5
  <1> QED
    BY <1>2, <1>3

(* Type correctness: the active bin lies in the range and on the grid, is  *)
(* filled within its bounds, and holds the values of events; the active    *)
(* coarse bin is on its grid and never filled beyond its length.           *)
THEOREM TypeCorrect == Spec => []TypeOK
  <1>1. FullInv => TypeOK
    <2> SUFFICES ASSUME FullInv PROVE TypeOK
      OBVIOUS
    <2>1. IInv /\ CoarseInv
      BY DEF FullInv
    <2>2. ToSet(evs) \union ToSet(seen) \subseteq Events
      <3>1. evs \in Seq(Events) /\ seen \in Seq(Events)
        BY <2>1 DEF IInv, Core, StateTypes, Increase
      <3> QED
        BY <3>1, ToSetType
    <2>3. /\ phase \in {"Reading", "Buffered", "Cycling", "Remains", "Done", "Failed", "Panic"}
          /\ cnt_zero \in BOOLEAN /\ more \in BOOLEAN /\ nleft \in Nat
          /\ bn.beg % BinLen = 0 /\ bn.beg \in RangeBeg..RangeEnd
          /\ Len(out) <= OutMax + 1
      BY <2>1, ConstFacts DEF IInv, Core, StateTypes, Phases, Actives
    <2>4. {bn.min, bn.max, bn.lst} \subseteq Vals \union {NoVal}
      BY <2>1 DEF IInv, Core, StateTypes, Actives, MaybeVals
    <2>5. bn.until \in bn.beg..End(bn) /\ bn.width \in 0..(bn.until - bn.beg)
      BY <2>1, ActiveTyped
    <2>6. coarse.beg % CoarseLen = 0 /\ coarse.filled \in 0..CoarseLen
      BY <2>1, CoarseTyped
    <2> QED
      BY <2>2, <2>3, <2>4, <2>5, <2>6 DEF TypeOK
  <1> QED
    BY <1>1, FullAlways, PTL
-----------------------------------------------------------------------------
(* Where the bins handed on end, once out is empty.                        *)
LEMMA AllHandedOn ==
    ASSUME IInv, OrderInv, out = <<>>, cnt_zero, Ingested # <<>>
    PROVE  /\ Len(fine) \in Nat /\ (fine # <<>> <=> Len(fine) # 0)
           /\ bn.beg = MadeTo(Ingested, Len(fine))
           /\ fine # <<>> => At(Len(fine)) = bn.beg /\ fine[Len(fine)].end = bn.beg
  <1>1. PICK g \in Increase : g = Ingested /\ g # <<>>
    BY SplitFacts DEF IInv, Core
  <1>2. PICK n \in Nat : n = Len(fine) /\ Len(AllBins) = n /\ (fine # <<>> <=> n # 0)
    <2>1. fine \in Seq(Bins) /\ Len(out) = 0
      BY DEF IInv, Core, StateTypes
    <2>2. Len(fine) \in Nat /\ (fine # <<>> <=> Len(fine) # 0)
      BY <2>1
    <2>3. Len(AllBins) = Len(fine)
      BY <2>1, <2>2, AllFacts
    <2> QED
      BY <2>2, <2>3
  <1>3. bn.beg = MadeTo(g, n)
    BY <1>1, <1>2 DEF OrderInv
  <1>4. CASE n # 0
    <2>1. n \in 1..n
      BY <1>4
    <2>2. PICK m \in Nat : n = m + 1 /\ n - 1 = m
      <3>1. n - 1 \in Nat /\ n = (n - 1) + 1
        BY <1>4
      <3> QED
        BY <3>1
    <2>3. AllBins[n].beg = MadeTo(g, n - 1)
      BY <1>1, <1>2, <2>1 DEF OrderInv
    <2>4. AllBins[n].end = AllBins[n].beg + BinLen
      BY <1>1, <1>2, <2>1, AllFacts DEF Made
    <2>5. MadeTo(g, m + 1) = MadeTo(g, m) + BinLen
      BY <1>1, MadeToFacts
    <2>6. AllBins[n].end = bn.beg
      BY <1>3, <2>2, <2>3, <2>4, <2>5
    <2>7. AllBins[n] = fine[n]
      BY <1>2, <2>1, AllFacts
    <2>8. At(n) = AllBins[n].end
      BY <1>4 DEF At
    <2> QED
      BY <1>1, <1>2, <1>3, <2>6, <2>7, <2>8
  <1>5. CASE n = 0
    BY <1>1, <1>2, <1>3, <1>5
  <1> QED
    BY <1>4, <1>5

(* At the end the active coarse bin has no events.                         *)
LEMMA NoneLeft ==
    ASSUME FullInv, phase = "Done", cnt_zero,
           nleft <= 2 * (OutMax + 1) \/ Coarse <= 2 * (OutMax + 1),
           NEW c \in Coarses, OkAt(c, Len(fine))
    PROVE  /\ c.cnt = 0
           /\ Ingested # <<>> /\ nleft <= 2 * (OutMax + 1) =>
                fine # <<>> /\ bn.beg = RangeEnd /\ c.beg = RangeEnd
  <1>1. IInv /\ OrderInv /\ EndInv
    BY DEF FullInv
  <1>2. out = <<>> /\ ~more
    BY <1>1 DEF EndInv
  <1>3. fine = <<>> => c.cnt = 0
    <2>1. fine = <<>> => Len(fine) = 0
      OBVIOUS
    <2> QED
      BY <2>1, InitFacts DEF OkAt
  <1>4. CASE Ingested = <<>>
    <2>1. fine = <<>>
      BY <1>1, <1>4 DEF IInv, Core, BinsInv
    <2> QED
      BY <1>3, <1>4, <2>1
  <1>5. CASE Ingested # <<>>
    <2>1. PICK g \in Increase : g = Ingested /\ g # <<>>
      BY <1>1, <1>5, SplitFacts DEF IInv, Core
    <2>2. EndCount
      BY <1>1, <1>5 DEF EndInv
    <2>3. PICK n \in Nat : Left(n) /\ (n = 0 \/ nleft = n + 2 * (OutMax + 1))
      BY <1>2, <2>2 DEF EndCount
    <2>4. LastTs(g) < (RangeEnd - nleft * BinLen) + BinLen
      BY <2>1, <2>2 DEF EndCount
    <2>5. PICK a \in Nat : a = bn.beg /\ a % BinLen = 0 /\ a <= RangeEnd
      BY <1>1 DEF IInv, Core, StateTypes, Actives
    <2>6. /\ Len(fine) \in Nat /\ (fine # <<>> <=> Len(fine) # 0)
          /\ a = MadeTo(g, Len(fine))
          /\ fine # <<>> => At(Len(fine)) = a
      BY <1>1, <1>2, <1>5, <2>1, <2>5, AllHandedOn
    <2>7. n = 0 <=> a = RangeEnd
      BY <1>1, <2>3, <2>5, LeftFacts
    <2>8. ASSUME n = 0 PROVE fine # <<>>
      <3>1. MadeTo(g, 0) < RangeEnd
        BY <2>1, MadeToFacts
      <3> QED
        BY <2>5, <2>6, <2>7, <2>8, <3>1, ConstFacts
    <2>9. ASSUME fine # <<>>
          PROVE  /\ c.beg \in Nat /\ c.beg % CoarseLen = 0 /\ c.beg <= a /\ a < c.beg + CoarseLen
                 /\ c.cnt = Cardinality(EventsIn(g, c.beg, a))
      BY <2>1, <2>6, <2>9 DEF OkAt, Grown, Knows, CoarseEnd, Coarses
    <2>10. /\ CoarseLen \in Nat \ {0} /\ BinLen \in Nat \ {0} /\ RangeEnd \in Nat
           /\ RangeEnd % CoarseLen = 0 /\ OutMax \in Nat /\ Coarse \in Nat /\ nleft \in Nat
      BY <1>1, CoarseConst, BinAssumption DEF IInv, Core, StateTypes
    <2>11. CASE n = 0
      <3>1. /\ c.beg \in Nat /\ c.beg % CoarseLen = 0 /\ c.beg <= RangeEnd
            /\ RangeEnd < c.beg + CoarseLen
            /\ c.cnt = Cardinality(EventsIn(g, c.beg, RangeEnd))
        BY <2>7, <2>8, <2>9, <2>11
      <3>2. c.beg < RangeEnd => c.beg + CoarseLen <= RangeEnd
        <4>1. c.beg \in Int /\ RangeEnd \in Int
          BY <2>10, <3>1
        <4> QED
          BY <2>10, <3>1, <4>1, GridStep
      <3>3. c.beg = RangeEnd
        BY <2>10, <3>1, <3>2
      <3>4. EventsIn(g, RangeEnd, RangeEnd) = {}
        BY <2>1, <2>10, FirstFacts DEF EventsIn
      <3>5. c.cnt = 0
        BY <3>1, <3>3, <3>4, FS_EmptySet
      <3> QED
        BY <2>5, <2>7, <2>8, <2>11, <3>3, <3>5
    <2>12. CASE n # 0
      <3>1. nleft = n + 2 * (OutMax + 1) /\ ~(nleft <= 2 * (OutMax + 1))
        BY <2>3, <2>10, <2>12
      <3>2. Coarse <= 2 * (OutMax + 1)
        BY <3>1
      <3>3. ASSUME fine # <<>> PROVE c.cnt = 0
        <4>1. PICK x \in Nat, k \in Nat : x = 2 * (OutMax + 1) /\ k = n * BinLen
          BY <2>10
        <4>2. a + k = RangeEnd
          BY <2>3, <2>5, <4>1 DEF Left
        <4>3. Coarse * BinLen <= x * BinLen
          <5>1. Coarse \in Int /\ x \in Int /\ BinLen \in Nat /\ Coarse <= x
            BY <2>10, <3>2, <4>1
          <5> QED
            BY <5>1, MulMono
        <4>4. nleft * BinLen = k + x * BinLen
          BY <2>10, <3>1, <4>1
        <4>5. PICK y \in Nat, z \in Nat : y = x * BinLen /\ z = CoarseLen /\ z <= y
          BY <2>10, <4>3 DEF CoarseLen
        <4>6. LastTs(g) < (RangeEnd - (k + y)) + BinLen /\ LastTs(g) \in Int
          BY <2>1, <2>4, <4>4, <4>5, FirstFacts
        <4>7. a + BinLen <= c.beg + z
          <5>1. PICK e \in Int : e = c.beg + CoarseLen /\ e % BinLen = 0
            <6>1. c.beg \in Int /\ c.beg + CoarseLen \in Int
              BY <2>9, <2>10, <3>3
            <6> QED
              BY <2>9, <3>3, <6>1, CoarseConst
          <5>2. a \in Int /\ a < e
            BY <2>9, <3>3, <5>1
          <5>3. a + BinLen <= e
            BY <2>5, <2>10, <5>1, <5>2, GridStep
          <5> QED
            BY <4>5, <5>1, <5>3
        <4>8. LastTs(g) < c.beg
          BY <2>9, <2>10, <3>3, <4>2, <4>5, <4>6, <4>7
        <4>9. EventsIn(g, c.beg, a) = {}
          <5>1. \A i \in 1..Len(g) : g[i].ts \in Int /\ g[i].ts <= LastTs(g)
            BY <2>1, FirstFacts
          <5>2. c.beg \in Int
            BY <2>9, <3>3
          <5> QED
            BY <4>6, <4>8, <5>1, <5>2 DEF EventsIn
        <4> QED
          BY <2>9, <3>3, <4>9, FS_EmptySet
      <3> QED
        BY <1>3, <3>1, <3>3
    <2> QED
      BY <2>11, <2>12
  <1> QED
    BY <1>4, <1>5

(* Every coarse bin that was put out is right.                             *)
LEMMA CoarseOutRight ==
    ASSUME FullInv, cnt_zero, Coarse <= 2 * (OutMax + 1)
    PROVE  \A i \in 1..Len(coarse.out) :
             \E a \in Nat : CoarseRight(Ingested, coarse.out[i], a)
  <1>1. IInv /\ CoarseInv
    BY DEF FullInv
  <1>2. PICK c \in Coarses :
          OkAt(c, Len(fine)) /\ coarse = IF phase = "Done" THEN Ended(c) ELSE c
    BY <1>1 DEF CoarseInv
  <1>3. coarse.out = c.out
    <2>1. CASE phase = "Done"
      <3>1. c.cnt = 0
        BY <1>2, <2>1, NoneLeft
      <3>2. c.beg % CoarseLen = 0
        BY <1>2 DEF OkAt, Grown
      <3> QED
        BY <1>2, <2>1, <3>1, <3>2, EndedFacts
    <2>2. CASE phase # "Done"
      BY <1>2, <2>2
    <2> QED
      BY <2>1, <2>2
  <1>4. CASE Len(fine) = 0
    <2>1. c.out = <<>> /\ 1..Len(<<>>) = {}
      BY <1>2, <1>4, InitFacts DEF OkAt
    <2> QED
      BY <1>3, <2>1
  <1>5. CASE Len(fine) # 0
    <2>1. PutOut(Ingested, c) /\ c.beg \in Nat
      BY <1>2, <1>5 DEF OkAt, Coarses
    <2> QED
      BY <1>3, <2>1 DEF PutOut
  <1> QED
    BY <1>4, <1>5

(* The bins of bins, if no gaps are in the input, tell the number of       *)
(* events, the least, greatest and last value and, up to the scale, the    *)
(* average of the events themselves.  A coarse bin has fewer bins than     *)
(* twice OUT_LEN_MAX, so what is never made of the range (see RangeCovered) *)
(* is at least a coarse bin without events.                                *)
THEOREM CoarseAreRight ==
    ASSUME Coarse <= 2 * (OutMax + 1)
    PROVE  Spec => []CoarseMatch
  <1>1. FullInv => CoarseMatch
    <2> SUFFICES ASSUME FullInv, cnt_zero, NEW i \in 1..Len(coarse.out)
                 PROVE  LET b == coarse.out[i] IN
                        /\ CountsMatch(Ingested, b)
                        /\ First(Ingested) <= b.beg \/ First(Ingested) % BinLen = 0 =>
                             b.sum * Cardinality(Ticks(Ingested, b.beg, b.end)) =
                                Scale * Integral(Ingested, b.beg, b.end) * b.width
      BY DEF CoarseMatch
    <2>1. PICK a \in Nat : CoarseRight(Ingested, coarse.out[i], a)
      BY CoarseOutRight
    <2> QED
      BY <2>1 DEF CoarseRight, Whole
  <1> QED
    BY <1>1, FullAlways, PTL

(* The coarse bins with events are those of the events of the range.       *)
LEMMA BegsOfEvents ==
    ASSUME NEW g \in Increase
    PROVE  EventBegs(g, RangeEnd) =
             {Floor(e.ts, CoarseLen) : e \in {x \in ToSet(g) : x.ts >= RangeBeg}}
  <1>1. g \in Seq(Events) /\ RangeBeg \in Int /\ RangeEnd \in Int
    BY ConstFacts DEF Increase
  <1>2. ToSet(g) = {g[i] : i \in 1..Len(g)}
    BY <1>1 DEF ToSet
  <1>3. \A i \in 1..Len(g) : g[i].ts \in Int /\ g[i].ts < RangeEnd
    <2>1. \A i \in 1..Len(g) : g[i] \in Events
      BY <1>1
    <2> QED
      BY <2>1, EventFacts
  <1>4. EventsIn(g, RangeBeg, RangeEnd) = {i \in 1..Len(g) : g[i].ts >= RangeBeg}
    BY <1>1, <1>3 DEF EventsIn
  <1>5. EventBegs(g, RangeEnd) = {Floor(g[i].ts, CoarseLen) : i \in EventsIn(g, RangeBeg, RangeEnd)}
    BY DEF EventBegs
  <1> QED
    BY <1>2, <1>4, <1>5

(* With cnt_zero there is no gap between bins, and the end of the range is *)
(* reached with a coarse bin for all events, unless as many bins are left  *)
(* at the end of the input as out holds, or more than twice as many.       *)
THEOREM RangeIsCovered == Spec => []RangeCovered
  <1>1. FullInv => RangeCovered
    <2> SUFFICES ASSUME FullInv, cnt_zero, nleft # OutMax + 1, nleft <= 2 * (OutMax + 1)
                 PROVE  /\ phase # "Panic"
                        /\ \A i \in 1..Len(fine) :
                             fine[i].beg = FineFrom(First(Ingested)) + (i - 1) * BinLen
                        /\ phase = "Done" /\ seen # <<>> =>
                             /\ Last(fine).end = RangeEnd
                             /\ {b.beg : b \in ToSet(coarse.out)} =
                                {Floor(e.ts, CoarseLen) :
                                   e \in {x \in ToSet(seen) : x.ts >= RangeBeg}}
      BY DEF RangeCovered
    <2>1. IInv /\ OrderInv /\ EndInv /\ PanicInv /\ CoarseInv
      BY DEF FullInv
    <2>2. phase # "Panic"
      <3>1. Ingested # <<>> => EndCount
        BY <2>1 DEF EndInv
      <3> QED
        BY <2>1, <3>1 DEF EndCount, PanicInv
    <2>3. ASSUME NEW i \in 1..Len(fine)
          PROVE  fine[i].beg = FineFrom(First(Ingested)) + (i - 1) * BinLen
      <3>1. Ingested # <<>>
        <4>1. Ingested = <<>> => fine = <<>>
          BY <2>1 DEF IInv, Core, BinsInv
        <4> QED
          BY <4>1
      <3>2. i \in 1..Len(AllBins) /\ AllBins[i] = fine[i]
        BY <2>1, AllFacts
      <3>3. AllBins[i].beg = MadeTo(Ingested, i - 1)
        BY <2>1, <3>1, <3>2 DEF OrderInv
      <3> QED
        BY <3>2, <3>3 DEF MadeTo
    <2>4. ASSUME phase = "Done", seen # <<>>
          PROVE  /\ Last(fine).end = RangeEnd
                 /\ {b.beg : b \in ToSet(coarse.out)} =
                    {Floor(e.ts, CoarseLen) : e \in {x \in ToSet(seen) : x.ts >= RangeBeg}}
      <3>1. evs = <<>> /\ out = <<>>
        BY <2>1, <2>4 DEF IInv, Core, StateTypes, EndInv
      <3>2. PICK g \in Increase : g = Ingested /\ g = seen /\ g # <<>>
        BY <2>1, <2>4, <3>1, SplitFacts DEF IInv, Core
      <3>3. PICK c \in Coarses : OkAt(c, Len(fine)) /\ coarse = Ended(c)
        BY <2>1, <2>4 DEF CoarseInv
      <3>4. c.cnt = 0 /\ fine # <<>> /\ bn.beg = RangeEnd /\ c.beg = RangeEnd
        BY <2>4, <3>2, <3>3, NoneLeft
      <3>5. Len(fine) # 0 /\ fine[Len(fine)].end = RangeEnd
        BY <2>1, <3>1, <3>2, <3>4, AllHandedOn
      <3>6. Last(fine).end = RangeEnd
        BY <3>5 DEF Last
      <3>7. coarse.out = c.out
        <4>1. c.beg % CoarseLen = 0
          BY <3>4, CoarseConst
        <4> QED
          BY <3>3, <3>4, <4>1, EndedFacts
      <3>8. CoarseBegs(c.out) = EventBegs(g, RangeEnd)
        BY <3>2, <3>3, <3>4, <3>5 DEF OkAt, PutOut
      <3>9. CoarseBegs(coarse.out) =
              {Floor(e.ts, CoarseLen) : e \in {x \in ToSet(seen) : x.ts >= RangeBeg}}
        BY <3>2, <3>7, <3>8, BegsOfEvents
      <3> QED
        BY <3>6, <3>9 DEF CoarseBegs
    <2> QED
      BY <2>2, <2>3, <2>4
  <1> QED
    BY <1>1, FullAlways, PTL
=============================================================================
