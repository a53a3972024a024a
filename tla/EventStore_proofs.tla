-------------------------- MODULE EventStore_proofs --------------------------
(***************************************************************************)
(* The store of a series, for any times, intervals, limits and page sizes. *)
(*                                                                         *)
(* The writer (IInv): no partition is orphaned by one failed insert, and a *)
(* value that stays reaches the long-term store.                           *)
(*                                                                         *)
(* The history of the tables (HInv): partitions follow each other in time, *)
(* whatever is late or lost.                                               *)
(*                                                                         *)
(* The reader (RInv, DueInv, OneInv): what it hands on is in order, and    *)
(* nothing is missed that was there when the read began.                   *)
(***************************************************************************)
EXTENDS EventStore, ProofLemmas

States == [ts : Nat, msp : Int, count : Nat, rollover_at : Nat, put : Nat,
           put_at : Nat]

WriterTypes ==
    /\ now \in Nat
    /\ writer \in [Rts -> States]
    /\ \A rt \in Rts : writer[rt].ts <= now
    /\ nlost \in Nat

(* The msp row is written or on its way, unless n inserts failed.          *)
MspKept(rt, m, n) ==
    \/ m \in db_msp[rt]
    \/ \E r \in late : r.k = "Msp" /\ r.ks = rt /\ r.msp = m
    \/ nlost >= n

(* A partition has its row put when it begins and again when it is over.   *)
MspsKept ==
    \A rt \in Rts :
        /\ \A m \in settled[rt] : MspKept(rt, m, 2)
        /\ writer[rt].msp # NoMsp => MspKept(rt, writer[rt].msp, 1)

IInv == WriterTypes /\ MspsKept
-----------------------------------------------------------------------------
(* What failed is counted.                                                 *)
LEMMA Failed ==
    ASSUME NEW S, IsFiniteSet(S), NEW n, NEW f \in UpTo(S, n)
    PROVE  /\ Cardinality(f) \in Nat
           /\ f # {} => Cardinality(f) >= 1
           /\ \A x, y \in f : x # y => Cardinality(f) >= 2
  <1>1. f \subseteq S
    BY DEF UpTo, kSubset
  <1>2. IsFiniteSet(f) /\ Cardinality(f) \in Nat
    BY <1>1, FS_Subset, FS_CardinalityType
  <1>3. f # {} => Cardinality(f) >= 1
    <2>1. Cardinality(f) = 0 <=> f = {}
      BY <1>2, FS_EmptySet
    <2> QED
      BY <1>2, <2>1
  <1>4. ASSUME NEW x \in f, NEW y \in f, x # y PROVE Cardinality(f) >= 2
    <2>1. IsFiniteSet({x, y}) /\ Cardinality({x, y}) = 2
      <3>1. IsFiniteSet({x}) /\ Cardinality({x}) = 1
        BY FS_Singleton
      <3>2. {x, y} = {x} \union {y} /\ y \notin {x}
        BY <1>4
      <3> QED
        BY <3>1, <3>2, FS_AddElement
    <2>2. {x, y} \subseteq f
      OBVIOUS
    <2> QED
      BY <1>2, <2>1, <2>2, FS_Subset
  <1> QED
    BY <1>2, <1>3, <1>4

(* What was kept stays kept, and a msp row that is sent is written, late,  *)
(* or counted as failed.                                                   *)
LEMMA InsertKeeps ==
    ASSUME nlost \in Nat, NEW rows, IsFiniteSet(rows), Insert(rows)
    PROVE  /\ nlost' \in Nat /\ nlost <= nlost'
           /\ \A rt \in Rts : db_msp[rt] \subseteq db_msp'[rt]
           /\ late \subseteq late'
           /\ \A r \in rows : r.k = "Msp" /\ r.ks \in Rts =>
                r.msp \in db_msp'[r.ks] \/ r \in late' \/ nlost' >= nlost + 1
           /\ \A r, q \in rows :
                /\ r # q /\ r.k = "Msp" /\ r.ks \in Rts
                /\ q.k = "Msp" /\ q.ks = r.ks /\ q.msp = r.msp
                => \/ r.msp \in db_msp'[r.ks] \/ r \in late' \/ q \in late'
                   \/ nlost' >= nlost + 2
  <1>1. PICK l \in UpTo(rows, MaxLate - Cardinality(late)) :
          \E f \in UpTo(rows \ l, MaxLost - nlost) :
            /\ late' = late \union l
            /\ nlost' = nlost + Cardinality(f)
            /\ Written(rows \ (l \union f))
    BY DEF Insert
  <1>2. PICK f \in UpTo(rows \ l, MaxLost - nlost) :
            /\ late' = late \union l
            /\ nlost' = nlost + Cardinality(f)
            /\ Written(rows \ (l \union f))
    BY <1>1
  <1>3. IsFiniteSet(rows \ l)
    BY FS_Subset
  <1>4. /\ Cardinality(f) \in Nat
        /\ f # {} => Cardinality(f) >= 1
        /\ \A x, y \in f : x # y => Cardinality(f) >= 2
    BY <1>3, Failed
  <1>5. \A rt \in Rts :
          /\ db_msp[rt] \subseteq db_msp'[rt]
          /\ \A q \in rows \ (l \union f) :
               q.k = "Msp" /\ q.ks = rt => q.msp \in db_msp'[rt]
    BY <1>2 DEF Written, Stores
  <1>6. \A r \in rows : r.k = "Msp" /\ r.ks \in Rts =>
          r.msp \in db_msp'[r.ks] \/ r \in l \/ r \in f
    BY <1>5
  <1>7. late' = late \union l /\ nlost' = nlost + Cardinality(f)
    BY <1>2
  <1>8. ASSUME NEW r \in rows, NEW q \in rows, r # q, r.k = "Msp", r.ks \in Rts,
               q.k = "Msp", q.ks = r.ks, q.msp = r.msp
        PROVE  \/ r.msp \in db_msp'[r.ks] \/ r \in late' \/ q \in late'
               \/ nlost' >= nlost + 2
    <2>1. r \in f /\ q \in f => Cardinality(f) >= 2
      BY <1>4, <1>8
    <2>2. r.msp \in db_msp'[r.ks] \/ r \in l \/ q \in l \/ (r \in f /\ q \in f)
      BY <1>6, <1>8
    <2> QED
      BY <1>4, <1>7, <2>1, <2>2
  <1>9. ASSUME NEW r \in rows, r.k = "Msp", r.ks \in Rts
        PROVE  r.msp \in db_msp'[r.ks] \/ r \in late' \/ nlost' >= nlost + 1
    <2>1. r \in f => Cardinality(f) >= 1
      BY <1>4
    <2> QED
      BY <1>4, <1>6, <1>7, <1>9, <2>1
  <1>10. nlost' \in Nat /\ nlost <= nlost'
    BY <1>4, <1>7
  <1> QED
    BY <1>5, <1>7, <1>8, <1>9, <1>10

(* What was kept stays kept.                                               *)
LEMMA StaysKept ==
    ASSUME nlost \in Nat, nlost' \in Nat, nlost <= nlost',
           NEW rt \in Rts, NEW m, NEW n \in Nat,
           db_msp[rt] \subseteq db_msp'[rt],
           \A r \in late : r.k = "Msp" /\ r.ks = rt /\ r.msp = m =>
              r \in late' \/ m \in db_msp'[rt],
           MspKept(rt, m, n)
    PROVE  MspKept(rt, m, n)'
  BY DEF MspKept

LEMMA LateStaysKept ==
    ASSUME nlost \in Nat, LateInsert, NEW rt \in Rts, NEW m, NEW n \in Nat,
           MspKept(rt, m, n)
    PROVE  MspKept(rt, m, n)'
  <1>1. PICK r \in late : late' = late \ {r} /\ Written({r}) /\ nlost' = nlost
    BY DEF LateInsert
  <1>2. /\ db_msp[rt] \subseteq db_msp'[rt]
        /\ r.k = "Msp" /\ r.ks = rt => r.msp \in db_msp'[rt]
    BY <1>1 DEF Written, Stores
  <1>3. \A q \in late : q.k = "Msp" /\ q.ks = rt /\ q.msp = m =>
              q \in late' \/ m \in db_msp'[rt]
    BY <1>1, <1>2
  <1> QED
    BY <1>1, <1>2, <1>3, StaysKept

(* Rows about a partition.                                                 *)
LEMMA RowFacts ==
    ASSUME NEW rt, NEW m, NEW ts
    PROVE  /\ MspRow(rt, m).k = "Msp" /\ MspRow(rt, m).ks = rt /\ MspRow(rt, m).msp = m
           /\ OnCloseRow(rt, m).k = "Msp" /\ OnCloseRow(rt, m).ks = ReputKs(rt)
           /\ OnCloseRow(rt, m).msp = m /\ OnCloseRow(rt, m) # MspRow(rt, m)
  <1>1. MspRow(rt, m).ts = 0 /\ OnCloseRow(rt, m).ts = 1
    BY DEF MspRow, OnCloseRow
  <1> QED
    BY <1>1 DEF MspRow, OnCloseRow

(* There are three retention times.                                        *)
LEMMA FiniteUnion ==
    ASSUME NEW rts \in SUBSET Rts, NEW F,
           \A rt \in Rts : IsFiniteSet(F[rt])
    PROVE  IsFiniteSet(UNION {F[rt] : rt \in rts})
  <1>1. IsFiniteSet((F["st"] \union F["mt"]) \union F["lt"])
    <2>1. IsFiniteSet(F["st"]) /\ IsFiniteSet(F["mt"]) /\ IsFiniteSet(F["lt"])
      BY DEF Rts
    <2> QED
      BY <2>1, FS_Union
  <1>2. UNION {F[rt] : rt \in rts} \subseteq (F["st"] \union F["mt"]) \union F["lt"]
    BY DEF Rts
  <1> QED
    BY <1>1, <1>2, FS_Subset

LEMMA SeriesRowsFinite ==
    ASSUME NEW rt, NEW w, NEW ts
    PROVE  IsFiniteSet(SeriesRows(rt, w, ts))
  <1>1. \A x : IsFiniteSet({x})
    BY FS_Singleton
  <1>2. IsFiniteSet(Puts(rt, w, ts))
    <2>1. IsFiniteSet({MspRow(rt, GridMsp(ts))}) /\ IsFiniteSet({MspRow(rt, w.msp)})
          /\ IsFiniteSet({})
      BY <1>1, FS_EmptySet
    <2>2. /\ IsFiniteSet({MspRow(rt, GridMsp(ts))} \union {MspRow(rt, w.msp)})
          /\ IsFiniteSet({MspRow(rt, GridMsp(ts))} \union {})
      BY <2>1, FS_Union
    <2> QED
      BY <2>1, <2>2 DEF Puts
  <1> QED
    BY <1>1, <1>2, FS_Union DEF SeriesRows

LEMMA WriteRowsFinite ==
    ASSUME NEW rts \in SUBSET Rts, NEW ts
    PROVE  IsFiniteSet(UNION {SeriesRows(rt, writer[rt], ts) : rt \in rts})
  <1>1. PICK F : F = [rt \in Rts |-> SeriesRows(rt, writer[rt], ts)]
    OBVIOUS
  <1>2. \A rt \in Rts : F[rt] = SeriesRows(rt, writer[rt], ts) /\ IsFiniteSet(F[rt])
    BY <1>1, SeriesRowsFinite
  <1>3. IsFiniteSet(UNION {F[rt] : rt \in rts})
    BY <1>2, FiniteUnion
  <1>4. {F[rt] : rt \in rts} = {SeriesRows(rt, writer[rt], ts) : rt \in rts}
    BY <1>2
  <1> QED
    BY <1>3, <1>4
-----------------------------------------------------------------------------
(* The state of a store after a value.                                     *)
LEMMA SplitFacts ==
    ASSUME NEW rt \in Rts, NEW w \in States, NEW ts \in Nat, NEW t \in Nat
    PROVE  /\ Split(rt, w, ts, t) \in States /\ Split(rt, w, ts, t).ts = ts
           /\ Rollover(w, ts) => Split(rt, w, ts, t).msp = GridMsp(ts)
           /\ ~Rollover(w, ts) => Split(rt, w, ts, t).msp = w.msp
  <1>1. GridMsp(ts) \in Int
    <2>1. ts \div GridLen \in Int /\ GridLen \in Int /\ MsLen \in Nat \ {0}
      BY TimeAssumption
    <2>2. (ts \div GridLen) * GridLen \in Int
      BY <2>1
    <2> QED
      BY <2>1, <2>2 DEF GridMsp, Ms
  <1>2. ts + RolloverIvl[rt] \in Nat
    BY WindowAssumption
  <1>3. CASE Rollover(w, ts)
    <2>1. Split(rt, w, ts, t) = State(ts, GridMsp(ts), ts + RolloverIvl[rt], t)
      BY <1>3 DEF Split
    <2> QED
      BY <1>1, <1>2, <1>3, <2>1 DEF State, States
  <1>4. CASE ~Rollover(w, ts)
    <2>1. PICK c \in Nat : Split(rt, w, ts, t) = [[w EXCEPT !.ts = ts] EXCEPT !.count = c]
      <3>1. w.count \in Nat /\ w.count + 1 \in Nat
        BY DEF States
      <3> QED
        BY <1>4, <3>1 DEF Split, States
    <2> QED
      BY <1>4, <2>1 DEF States
  <1> QED
    BY <1>3, <1>4

LEMMA NewestFacts ==
    ASSUME WriterTypes
    PROVE  /\ Newest \in Nat /\ Newest <= now
           /\ \A rt \in Rts : writer[rt].ts <= Newest
           /\ \E rt \in Rts : writer[rt].ts = Newest
  <1>1. PICK S : S = {writer[rt].ts : rt \in Rts}
    OBVIOUS
  <1>2. \A rt \in Rts : writer[rt].ts \in Nat /\ writer[rt].ts <= now
    BY DEF WriterTypes, States
  <1>3. \E x \in S : \A y \in S : x >= y
    <2>1. S = {writer["st"].ts, writer["mt"].ts, writer["lt"].ts}
      BY <1>1 DEF Rts
    <2>2. PICK a \in Nat, b \in Nat, c \in Nat :
            a = writer["st"].ts /\ b = writer["mt"].ts /\ c = writer["lt"].ts
      BY <1>2 DEF Rts
    <2>3. \E x \in {a, b, c} : \A y \in {a, b, c} : x >= y
      OBVIOUS
    <2> QED
      BY <2>1, <2>2, <2>3
  <1>4. Newest \in S /\ \A y \in S : Newest >= y
    BY <1>1, <1>3 DEF Newest, Max
  <1>5. PICK rt \in Rts : Newest = writer[rt].ts
    BY <1>1, <1>4
  <1>6. now \in Nat
    BY DEF WriterTypes
  <1>7. \A q \in Rts : writer[q].ts \in S
    BY <1>1
  <1> QED
    BY <1>2, <1>4, <1>5, <1>6, <1>7

(* The stores in rts write a value: SeriesWriter::write.                   *)
LEMMA WriteToInv ==
    ASSUME IInv, NEW rts \in SUBSET Rts, NEW ts \in Nat, NEW t \in Nat,
           now' \in Nat, now <= now', ts <= now', WriteTo(rts, ts, t)
    PROVE  IInv'
  <1> DEFINE rows == UNION {SeriesRows(rt, writer[rt], ts) : rt \in rts}
  <1>1. /\ writer' = [rt \in Rts |-> IF rt \in rts THEN Split(rt, writer[rt], ts, t)
                                     ELSE writer[rt]]
        /\ settled' = [rt \in Rts |-> IF rt \in rts
                           THEN settled[rt] \union Retired(rt, writer[rt], ts)
                           ELSE settled[rt]]
        /\ Insert(rows)
    BY DEF WriteTo
  <1>2. IsFiniteSet(rows)
    BY WriteRowsFinite
  <1>3. \A rt \in Rts : writer[rt] \in States /\ writer[rt].ts \in Nat
    BY DEF IInv, WriterTypes, States
  <1>4. nlost \in Nat /\ now \in Nat
    BY DEF IInv, WriterTypes
  <1> HIDE DEF rows
  <1>5. /\ nlost' \in Nat /\ nlost <= nlost'
        /\ \A rt \in Rts : db_msp[rt] \subseteq db_msp'[rt]
        /\ late \subseteq late'
        /\ \A r \in rows : r.k = "Msp" /\ r.ks \in Rts =>
             r.msp \in db_msp'[r.ks] \/ r \in late' \/ nlost' >= nlost + 1
    BY <1>1, <1>2, <1>4, InsertKeeps
  <1>6. WriterTypes'
    <2>1. \A rt \in Rts : writer'[rt] \in States /\ writer'[rt].ts <= now'
      <3> SUFFICES ASSUME NEW rt \in Rts
                   PROVE  writer'[rt] \in States /\ writer'[rt].ts <= now'
        OBVIOUS
      <3>1. CASE rt \in rts
        <4>1. writer'[rt] = Split(rt, writer[rt], ts, t)
          BY <1>1, <3>1
        <4>2. PICK w \in States : w = writer[rt]
          BY <1>3
        <4>3. w \in States /\ rt \in Rts /\ ts \in Nat /\ t \in Nat
          OBVIOUS
        <4>4. Split(rt, w, ts, t) \in States /\ Split(rt, w, ts, t).ts = ts
          BY ONLY <4>3, SplitFacts
        <4> QED
          BY <4>1, <4>2, <4>4
      <3>2. CASE rt \notin rts
        <4>1. writer'[rt] = writer[rt]
          BY <1>1, <3>2
        <4>2. writer[rt].ts <= now
          BY DEF IInv, WriterTypes
        <4> QED
          BY <1>3, <1>4, <4>1, <4>2
      <3> QED
        BY <3>1, <3>2
    <2>2. writer' \in [Rts -> States]
      BY <1>1, <2>1
    <2> QED
      BY <1>5, <2>1, <2>2 DEF WriterTypes
  <1>7. \A rt \in Rts, n \in Nat : \A m : MspKept(rt, m, n) => MspKept(rt, m, n)'
    BY <1>4, <1>5, StaysKept
  <1>8. ASSUME NEW rt \in Rts, NEW m, MspRow(rt, m) \in rows
        PROVE  /\ MspKept(rt, m, 1)'
               /\ MspKept(rt, m, 1) => MspKept(rt, m, 2)'
    <2>1. m \in db_msp'[rt] \/ MspRow(rt, m) \in late' \/ nlost' >= nlost + 1
      BY <1>5, <1>8, RowFacts
    <2>2. nlost' >= nlost + 1 => nlost' >= 1
      BY <1>4, <1>5
    <2>3. nlost >= 1 /\ nlost' >= nlost + 1 => nlost' >= 2
      BY <1>4, <1>5
    <2>4. \A r \in late : r \in late'
      BY <1>5
    <2>5. \A x \in db_msp[rt] : x \in db_msp'[rt]
      BY <1>5
    <2> QED
      BY <2>1, <2>2, <2>3, <2>4, <2>5, RowFacts DEF MspKept
  <1>9. ASSUME NEW rt \in Rts
        PROVE  /\ \A m \in settled'[rt] : MspKept(rt, m, 2)'
               /\ \A m : m = writer'[rt].msp /\ m # NoMsp => MspKept(rt, m, 1)'
    <2>1. /\ \A m \in settled[rt] : MspKept(rt, m, 2)
          /\ writer[rt].msp # NoMsp => MspKept(rt, writer[rt].msp, 1)
      BY DEF IInv, MspsKept
    <2>2. CASE rt \notin rts \/ ~Rollover(writer[rt], ts)
      <3>1. settled'[rt] = settled[rt]
        BY <1>1, <2>2 DEF Retired
      <3>2. writer'[rt].msp = writer[rt].msp
        <4>1. writer'[rt] = IF rt \in rts THEN Split(rt, writer[rt], ts, t) ELSE writer[rt]
          BY <1>1
        <4>2. PICK w \in States : w = writer[rt]
          BY <1>3
        <4>3. w \in States /\ rt \in Rts /\ ts \in Nat /\ t \in Nat
          OBVIOUS
        <4>4. ~Rollover(w, ts) => Split(rt, w, ts, t).msp = w.msp
          BY ONLY <4>3, SplitFacts
        <4> QED
          BY <2>2, <4>1, <4>2, <4>4
      <3>3. \A m \in settled'[rt] : MspKept(rt, m, 2)'
        BY <1>7, <2>1, <3>1
      <3>4. ASSUME NEW m, m = writer'[rt].msp, m # NoMsp PROVE MspKept(rt, m, 1)'
        <4>1. m = writer[rt].msp /\ MspKept(rt, m, 1)
          BY <2>1, <3>2, <3>4
        <4> QED
          BY <1>7, <4>1
      <3> QED
        BY <3>3, <3>4
    <2>3. CASE rt \in rts /\ Rollover(writer[rt], ts)
      <3>1. /\ settled'[rt] = settled[rt] \union Retired(rt, writer[rt], ts)
            /\ writer'[rt] = Split(rt, writer[rt], ts, t)
        BY <1>1, <2>3
      <3>2. writer'[rt].msp = GridMsp(ts)
        <4>1. PICK w \in States : w = writer[rt]
          BY <1>3
        <4>2. w \in States /\ rt \in Rts /\ ts \in Nat /\ t \in Nat
          OBVIOUS
        <4>3. Rollover(w, ts) => Split(rt, w, ts, t).msp = GridMsp(ts)
          BY ONLY <4>2, SplitFacts
        <4> QED
          BY <2>3, <3>1, <4>1, <4>3
      <3>3. MspRow(rt, GridMsp(ts)) \in rows
        BY <2>3 DEF rows, SeriesRows, Puts
      <3>4. ASSUME NEW m \in Retired(rt, writer[rt], ts)
            PROVE  MspKept(rt, m, 2)'
        <4>1. m = writer[rt].msp /\ m # NoMsp
          BY DEF Retired
        <4>2. MspRow(rt, m) \in rows
          BY <2>3, <4>1 DEF rows, SeriesRows, Puts
        <4> QED
          BY <1>8, <2>1, <4>1, <4>2
      <3>5. \A m \in settled[rt] : MspKept(rt, m, 2)'
        BY <1>7, <2>1
      <3>6. ASSUME NEW m, m = writer'[rt].msp, m # NoMsp PROVE MspKept(rt, m, 1)'
        <4>1. m = GridMsp(ts)
          BY <3>2, <3>6
        <4> QED
          BY <1>8, <3>3, <4>1
      <3> QED
        BY <3>1, <3>4, <3>5, <3>6
    <2> QED
      BY <2>2, <2>3
  <1>10. MspsKept'
    BY <1>9 DEF MspsKept
  <1> QED
    BY <1>6, <1>10 DEF IInv

(* A step that writes nothing, and leaves or resets the writer.            *)
LEMMA QuietInv ==
    ASSUME IInv, UNCHANGED <<now, settled, dbVars>>,
           writer' = writer \/ writer' = [rt \in Rts |-> NoState]
    PROVE  IInv'
  <1>1. NoState \in States /\ NoState.msp = NoMsp /\ NoState.ts = 0
    BY DEF NoState, State, States, NoMsp
  <1>2. WriterTypes'
    <2>1. CASE writer' = writer
      BY <2>1 DEF IInv, WriterTypes, dbVars
    <2>2. CASE writer' = [rt \in Rts |-> NoState]
      <3>1. now \in Nat /\ nlost \in Nat
        BY DEF IInv, WriterTypes
      <3>2. \A rt \in Rts : writer'[rt] = NoState
        BY <2>2
      <3>3. 0 <= now
        BY <3>1
      <3>4. writer' \in [Rts -> States]
        BY <1>1, <2>2
      <3> QED
        BY <1>1, <3>1, <3>2, <3>3, <3>4 DEF WriterTypes, dbVars
    <2> QED
      BY <2>1, <2>2
  <1>3. MspsKept'
    <2> SUFFICES ASSUME NEW rt \in Rts
                 PROVE  /\ \A m \in settled'[rt] : MspKept(rt, m, 2)'
                        /\ \A m : m = writer'[rt].msp /\ m # NoMsp => MspKept(rt, m, 1)'
      BY DEF MspsKept
    <2>1. writer'[rt].msp = writer[rt].msp \/ writer'[rt].msp = NoMsp
      BY <1>1
    <2> QED
      BY <2>1 DEF IInv, MspsKept, MspKept, dbVars
  <1> QED
    BY <1>2, <1>3 DEF IInv

(* A row that was late is written.                                         *)
LEMMA LateInv ==
    ASSUME IInv, LateInsert, UNCHANGED writerVars
    PROVE  IInv'
  <1>1. nlost \in Nat /\ nlost' = nlost
    BY DEF IInv, WriterTypes, LateInsert
  <1>2. WriterTypes'
    BY <1>1 DEF IInv, WriterTypes, writerVars
  <1>3. MspsKept'
    <2> SUFFICES ASSUME NEW rt \in Rts
                 PROVE  /\ \A m \in settled'[rt] : MspKept(rt, m, 2)'
                        /\ \A m : m = writer'[rt].msp /\ m # NoMsp => MspKept(rt, m, 1)'
      BY DEF MspsKept
    <2>1. \A m \in settled[rt] : MspKept(rt, m, 2)'
      BY <1>1, LateStaysKept DEF IInv, MspsKept
    <2>2. ASSUME NEW m, m = writer[rt].msp, m # NoMsp PROVE MspKept(rt, m, 1)'
      <3>1. MspKept(rt, m, 1)
        BY <2>2 DEF IInv, MspsKept
      <3> QED
        BY <1>1, <3>1, LateStaysKept
    <2> QED
      BY <2>1, <2>2 DEF writerVars
  <1> QED
    BY <1>2, <1>3 DEF IInv

(* SeriesWriter::housekeeping.                                             *)
LEMMA HousekeepingInv ==
    ASSUME IInv, Housekeeping
    PROVE  IInv'
  <1> DEFINE rows == {MspRow(ReputKs(rt), writer[rt].msp) : rt \in ReputDue}
  <1>1. /\ writer' = [rt \in Rts |-> IF rt \in ReputDue THEN Reput(writer[rt])
                                     ELSE writer[rt]]
        /\ Insert(rows) /\ now' = now /\ settled' = settled
    BY DEF Housekeeping
  <1>2. IsFiniteSet(rows)
    <2>1. PICK F : F = [rt \in Rts |-> {MspRow(ReputKs(rt), writer[rt].msp)}]
      OBVIOUS
    <2>2. \A rt \in Rts : F[rt] = {MspRow(ReputKs(rt), writer[rt].msp)} /\ IsFiniteSet(F[rt])
      BY <2>1, FS_Singleton
    <2>3. IsFiniteSet(UNION {F[rt] : rt \in ReputDue})
      <3>1. PICK rs \in SUBSET Rts : rs = ReputDue
        BY DEF ReputDue
      <3>2. IsFiniteSet(UNION {F[rt] : rt \in rs})
        BY <2>2, FiniteUnion
      <3> QED
        BY <3>1, <3>2
    <2>4. UNION {F[rt] : rt \in ReputDue} = rows
      BY <2>2 DEF ReputDue
    <2> QED
      BY <2>3, <2>4
  <1> HIDE DEF rows
  <1>3. nlost \in Nat /\ now \in Nat
    BY DEF IInv, WriterTypes
  <1>4. /\ nlost' \in Nat /\ nlost <= nlost'
        /\ \A rt \in Rts : db_msp[rt] \subseteq db_msp'[rt]
        /\ late \subseteq late'
    BY <1>1, <1>2, <1>3, InsertKeeps
  <1>5. ASSUME NEW rt \in Rts
        PROVE  writer'[rt] \in States /\ writer'[rt].ts = writer[rt].ts
               /\ writer'[rt].msp = writer[rt].msp
    <2>1. writer[rt] \in States /\ writer[rt].ts \in Nat
      BY DEF IInv, WriterTypes, States
    <2>2. /\ Reput(writer[rt]) \in States /\ Reput(writer[rt]).ts = writer[rt].ts
          /\ Reput(writer[rt]).msp = writer[rt].msp
      BY <1>3, <2>1 DEF Reput, States
    <2> QED
      BY <1>1, <2>1, <2>2
  <1>6. WriterTypes'
    <2>1. writer' \in [Rts -> States]
      BY <1>1, <1>5
    <2>2. \A rt \in Rts : writer'[rt].ts <= now'
      BY <1>1, <1>5 DEF IInv, WriterTypes
    <2> QED
      BY <1>1, <1>3, <1>4, <2>1, <2>2 DEF WriterTypes
  <1>7. \A rt \in Rts, n \in Nat : \A m : MspKept(rt, m, n) => MspKept(rt, m, n)'
    BY <1>3, <1>4, StaysKept
  <1>8. MspsKept'
    <2> SUFFICES ASSUME NEW rt \in Rts
                 PROVE  /\ \A m \in settled'[rt] : MspKept(rt, m, 2)'
                        /\ \A m : m = writer'[rt].msp /\ m # NoMsp => MspKept(rt, m, 1)'
      BY DEF MspsKept
    <2>1. \A m \in settled[rt] : MspKept(rt, m, 2)'
      BY <1>7 DEF IInv, MspsKept
    <2>2. ASSUME NEW m, m = writer[rt].msp, m # NoMsp PROVE MspKept(rt, m, 1)'
      <3>1. MspKept(rt, m, 1)
        BY <2>2 DEF IInv, MspsKept
      <3> QED
        BY <1>7, <3>1
    <2> QED
      BY <1>1, <1>5, <2>1, <2>2
  <1> QED
    BY <1>6, <1>8 DEF IInv

(* channel_close_by_cid.  A partition that begins in the tick at the end   *)
(* has its row sent twice.                                                 *)
LEMMA CloseInv ==
    ASSUME IInv, Close
    PROVE  IInv'
  <1>1. PICK rts \in SUBSET Rts : rts = ReputTo(now)
    BY DEF ReputTo, Rts
  <1>2. PICK after : after = [rt \in Rts |-> AfterTick(rt)]
    OBVIOUS
  <1>20. \A rt \in Rts : after[rt] = IF rt \in rts
                     THEN Split(rt, writer[rt], Newest, now) ELSE writer[rt]
    BY <1>1, <1>2 DEF AfterTick
  <1>3. PICK closed \in SUBSET Rts : closed = {rt \in Rts : after[rt].msp # NoMsp}
    OBVIOUS
  <1>4. PICK opened : opened = UNION {SeriesRows(rt, writer[rt], Newest) : rt \in rts}
    OBVIOUS
  <1>5. PICK again : again = {OnCloseRow(rt, after[rt].msp) : rt \in closed}
    OBVIOUS
  <1>30. closed = WithMsp
    BY <1>2, <1>3 DEF WithMsp
  <1>6. /\ writer' = [rt \in Rts |-> NoState]
        /\ settled' = [rt \in Rts |-> settled[rt] \union
             (IF rt \in rts THEN Retired(rt, writer[rt], Newest) ELSE {}) \union
             (IF rt \in closed \ {"st"} THEN {after[rt].msp} ELSE {})]
        /\ Insert(opened \union again) /\ now' = now
    <2>1. again = {OnCloseRow(rt, AfterTick(rt).msp) : rt \in WithMsp}
      BY <1>2, <1>5, <1>30 DEF WithMsp
    <2>2. opened \union again = CloseRows
      <3>1. opened = UNION {SeriesRows(rt, writer[rt], Newest) : rt \in ReputTo(now)}
        BY <1>1, <1>4
      <3> QED
        BY <2>1, <3>1, Zenon DEF CloseRows
    <2>3. Insert(opened \union again)
      BY <2>2 DEF Close
    <2>4. settled' = [rt \in Rts |-> settled[rt] \union
             (IF rt \in ReputTo(now) THEN Retired(rt, writer[rt], Newest) ELSE {}) \union
             (IF rt \in WithMsp \ {"st"} THEN {AfterTick(rt).msp} ELSE {})]
      BY DEF Close
    <2>5. writer' = [rt \in Rts |-> NoState] /\ now' = now
      BY DEF Close
    <2> QED
      BY <1>1, <1>2, <1>30, <2>3, <2>4, <2>5
  <1>7. IsFiniteSet(opened \union again)
    <2>1. IsFiniteSet(opened)
      BY <1>1, <1>4, WriteRowsFinite
    <2>2. PICK F : F = [rt \in Rts |-> {OnCloseRow(rt, after[rt].msp)}]
      OBVIOUS
    <2>3. \A rt \in Rts : F[rt] = {OnCloseRow(rt, after[rt].msp)} /\ IsFiniteSet(F[rt])
      BY <2>2, FS_Singleton
    <2>4. IsFiniteSet(UNION {F[rt] : rt \in closed})
      <3>1. closed \in SUBSET Rts
        BY <1>3
      <3> QED
        BY <2>3, <3>1, FiniteUnion
    <2>5. UNION {F[rt] : rt \in closed} = again
      BY <1>3, <1>5, <2>3
    <2> QED
      BY <2>1, <2>4, <2>5, FS_Union
  <1>8. nlost \in Nat /\ now \in Nat /\ Newest \in Nat
        /\ \A rt \in Rts : writer[rt] \in States
    BY NewestFacts DEF IInv, WriterTypes
  <1>9. PICK rows : rows = opened \union again
    OBVIOUS
  <1>10. IsFiniteSet(rows) /\ Insert(rows)
    BY <1>6, <1>7, <1>9
  <1>11. /\ nlost' \in Nat /\ nlost <= nlost'
         /\ \A rt \in Rts : db_msp[rt] \subseteq db_msp'[rt]
         /\ late \subseteq late'
         /\ \A r \in rows : r.k = "Msp" /\ r.ks \in Rts =>
              r.msp \in db_msp'[r.ks] \/ r \in late' \/ nlost' >= nlost + 1
         /\ \A r, q \in rows :
              /\ r # q /\ r.k = "Msp" /\ r.ks \in Rts
              /\ q.k = "Msp" /\ q.ks = r.ks /\ q.msp = r.msp
              => \/ r.msp \in db_msp'[r.ks] \/ r \in late' \/ q \in late'
                 \/ nlost' >= nlost + 2
    BY <1>8, <1>10, InsertKeeps
  <1>12. \A rt \in Rts, n \in Nat : \A m : MspKept(rt, m, n) => MspKept(rt, m, n)'
    BY <1>8, <1>11, StaysKept
  <1>13. ASSUME NEW rt \in Rts, NEW m, MspKept(rt, m, 1),
                \/ MspRow(rt, m) \in rows
                \/ OnCloseRow(rt, m) \in rows /\ rt # "st"
         PROVE  MspKept(rt, m, 2)'
    <2>1. PICK r \in rows : r.k = "Msp" /\ r.ks = rt /\ r.msp = m
      BY <1>13, RowFacts DEF ReputKs
    <2>2. m \in db_msp'[rt] \/ r \in late' \/ nlost' >= nlost + 1
      BY <1>11, <2>1
    <2>3. nlost >= 1 /\ nlost' >= nlost + 1 => nlost' >= 2
      BY <1>8, <1>11
    <2>4. (\A q \in late : q \in late') /\ \A x \in db_msp[rt] : x \in db_msp'[rt]
      BY <1>11
    <2> QED
      BY <1>13, <2>1, <2>2, <2>3, <2>4 DEF MspKept
  <1>14. ASSUME NEW rt \in Rts, NEW m, MspRow(rt, m) \in rows, OnCloseRow(rt, m) \in rows,
                rt # "st"
         PROVE  MspKept(rt, m, 2)'
    <2>1. \/ m \in db_msp'[rt] \/ MspRow(rt, m) \in late' \/ OnCloseRow(rt, m) \in late'
          \/ nlost' >= nlost + 2
      BY <1>11, <1>14, RowFacts DEF ReputKs
    <2>2. nlost' >= nlost + 2 => nlost' >= 2
      BY <1>8, <1>11
    <2> QED
      BY <1>14, <2>1, <2>2, RowFacts DEF MspKept, ReputKs
  <1>15. ASSUME NEW rt \in Rts, NEW m \in settled'[rt]
         PROVE  MspKept(rt, m, 2)'
    <2>0. /\ \A x \in settled[rt] : MspKept(rt, x, 2)
          /\ writer[rt].msp # NoMsp => MspKept(rt, writer[rt].msp, 1)
      BY DEF IInv, MspsKept
    <2>1. \/ m \in settled[rt]
          \/ rt \in rts /\ m \in Retired(rt, writer[rt], Newest)
          \/ rt \in closed /\ rt # "st" /\ m = after[rt].msp
      BY <1>6
    <2>2. CASE m \in settled[rt]
      BY <1>12, <2>0, <2>2
    <2>3. CASE rt \in rts /\ m \in Retired(rt, writer[rt], Newest)
      <3>1. m = writer[rt].msp /\ m # NoMsp /\ Rollover(writer[rt], Newest)
        BY <2>3 DEF Retired
      <3>2. MspRow(rt, m) \in rows
        BY <1>4, <1>9, <2>3, <3>1 DEF SeriesRows, Puts
      <3>3. MspKept(rt, m, 1)
        BY <2>0, <3>1
      <3> QED
        BY <1>13, <3>2, <3>3
    <2>4. CASE rt \in closed /\ rt # "st" /\ m = after[rt].msp
      <3>1. OnCloseRow(rt, m) \in rows /\ m # NoMsp
        BY <1>3, <1>5, <1>9, <2>4
      <3>2. CASE rt \in rts /\ Rollover(writer[rt], Newest)
        <4>1. m = GridMsp(Newest)
          BY <1>20, <1>8, <2>4, <3>2, SplitFacts
        <4>2. MspRow(rt, m) \in rows
          BY <1>4, <1>9, <3>2, <4>1 DEF SeriesRows, Puts
        <4> QED
          BY <1>14, <2>4, <3>1, <4>2
      <3>3. CASE rt \notin rts \/ ~Rollover(writer[rt], Newest)
        <4>1. m = writer[rt].msp
          BY <1>20, <1>8, <2>4, <3>3, SplitFacts
        <4>2. MspKept(rt, m, 1)
          BY <2>0, <3>1, <4>1
        <4> QED
          BY <1>13, <2>4, <3>1, <4>2
      <3> QED
        BY <3>2, <3>3
    <2> QED
      BY <2>1, <2>2, <2>3, <2>4
  <1>16. NoState \in States /\ NoState.msp = NoMsp /\ NoState.ts = 0
    BY DEF NoState, State, States, NoMsp
  <1>17. WriterTypes'
    <2>1. \A rt \in Rts : writer'[rt] = NoState
      BY <1>6
    <2>2. writer' \in [Rts -> States] /\ 0 <= now
      BY <1>6, <1>8, <1>16
    <2> QED
      BY <1>6, <1>8, <1>11, <1>16, <2>1, <2>2 DEF WriterTypes
  <1>18. MspsKept'
    <2>1. \A rt \in Rts : writer'[rt].msp = NoMsp
      BY <1>6, <1>16
    <2> QED
      BY <1>15, <2>1 DEF MspsKept
  <1> QED
    BY <1>17, <1>18 DEF IInv

(* A value that arrives is written by the stores that accept it.           *)
LEMMA WriteInv ==
    ASSUME IInv, NEW ts \in Ts, Write(ts)
    PROVE  IInv'
  <1>1. PICK rts \in SUBSET Rts : rts = {rt \in Rts : Accepts(rt, writer[rt], ts)}
    OBVIOUS
  <1>2. now' = ts /\ ts >= now /\ WriteTo(rts, ts, ts)
    BY <1>1 DEF Write
  <1>3. ts \in Nat /\ now \in Nat
    BY TimeAssumption DEF IInv, WriterTypes
  <1>4. now' \in Nat /\ now <= now' /\ ts <= now'
    BY <1>2, <1>3
  <1> QED
    BY <1>2, <1>3, <1>4, WriteToInv

(* A tick writes the newest value again, if at all.                        *)
LEMMA TickInv ==
    ASSUME IInv, NEW t \in Ts, Tick(t)
    PROVE  IInv'
  <1>1. PICK rts \in SUBSET Rts : rts = ReputTo(t)
    BY DEF ReputTo, Rts
  <1>2. now' = t /\ t >= now /\ WriteTo(rts, Newest, t)
    BY <1>1 DEF Tick
  <1>3. /\ t \in Nat /\ now \in Nat /\ Newest \in Nat /\ Newest <= now
    BY TimeAssumption, NewestFacts DEF IInv, WriterTypes
  <1>4. now' \in Nat /\ now <= now' /\ Newest <= now'
    BY <1>2, <1>3
  <1>5. PICK ts \in Nat : ts = Newest
    BY <1>3
  <1>6. WriteTo(rts, ts, t) /\ ts <= now'
    BY <1>2, <1>4, <1>5
  <1> QED
    BY <1>3, <1>4, <1>6, WriteToInv

LEMMA NextInv == IInv /\ [Next]_vars => IInv'
  <1> SUFFICES ASSUME IInv, [Next]_vars PROVE IInv'
    OBVIOUS
  <1>1. CASE NewWriter \/ DropWriter
    <2>1. UNCHANGED <<now, settled, dbVars>> /\ writer' = [rt \in Rts |-> NoState]
      BY <1>1 DEF NewWriter, DropWriter
    <2> QED
      BY <2>1, QuietInv
  <1>2. CASE Housekeeping
    BY <1>2, HousekeepingInv
  <1>3. CASE Close
    BY <1>3, CloseInv
  <1>4. ASSUME NEW ts \in Ts, Write(ts) PROVE IInv'
    BY <1>4, WriteInv
  <1>5. ASSUME NEW ts \in Ts, Tick(ts) PROVE IInv'
    BY <1>5, TickInv
  <1>6. CASE LateInsert /\ UNCHANGED writerVars
    BY <1>6, LateInv
  <1>7. CASE UNCHANGED <<dbVars, writerVars>>
    <2>1. UNCHANGED <<now, settled, dbVars>> /\ writer' = writer
      BY <1>7 DEF writerVars
    <2> QED
      BY <2>1, QuietInv
  <1>8. UNCHANGED vars => UNCHANGED <<dbVars, writerVars>>
    BY DEF vars
  <1>9. WriterNext \/ UNCHANGED <<dbVars, writerVars>>
    BY <1>8 DEF Next
  <1> QED
    BY <1>1, <1>2, <1>3, <1>4, <1>5, <1>6, <1>7, <1>9 DEF WriterNext

LEMMA InitInv == Init => IInv
  <1> SUFFICES ASSUME DbInit, WriterInit PROVE IInv
    BY DEF Init
  <1>1. NoState \in States /\ NoState.msp = NoMsp /\ NoState.ts = 0
    BY DEF NoState, State, States, NoMsp
  <1>2. now \in Nat
    <2>1. \E n \in Ts : \A m \in Ts : n <= m
      BY TimeAssumption, LeastNat
    <2>2. Min(Ts) \in Ts
      BY <2>1 DEF Min
    <2> QED
      BY <2>2, TimeAssumption DEF WriterInit
  <1>3. \A rt \in Rts : writer[rt] = NoState /\ settled[rt] = {}
    BY DEF WriterInit
  <1>4. nlost = 0 /\ writer \in [Rts -> States] /\ 0 <= now
    BY <1>1, <1>2 DEF DbInit, WriterInit
  <1>5. WriterTypes
    BY <1>1, <1>2, <1>3, <1>4 DEF WriterTypes
  <1>6. MspsKept
    BY <1>1, <1>3 DEF MspsKept
  <1> QED
    BY <1>5, <1>6 DEF IInv

LEMMA SpecInv == Spec => []IInv
  BY InitInv, NextInv, PTL DEF Spec

(* An event is not orphaned by one failed insert, once its partition is    *)
(* over, whatever is written, in whichever order the inserts of the        *)
(* workers end, and however often the writer is dropped: the msp of a      *)
(* partition is put when MspSplitDyn begins it and once more when it is    *)
(* retired, or closed in the medium or the long term.  A closed short-term *)
(* partition is not covered: on_close puts its msp into st_rf1.            *)
THEOREM SettledIsFound == Spec => []SettledIsFindable
  <1>1. IInv => SettledIsFindable
    <2> SUFFICES ASSUME IInv, nlost <= 1, late = {}, NEW rt \in Rts,
                        NEW e \in db_ev[rt], e[1] \in settled[rt]
                 PROVE  e[1] \in db_msp[rt]
      BY DEF SettledIsFindable
    <2>1. nlost \in Nat /\ ~(nlost >= 2)
      BY DEF IInv, WriterTypes
    <2>2. MspKept(rt, e[1], 2)
      BY DEF IInv, MspsKept
    <2> QED
      BY <2>1, <2>2 DEF MspKept
  <1> QED
    BY <1>1, SpecInv, PTL
-----------------------------------------------------------------------------
LEMMA NewestIs ==
    ASSUME NEW a \in [Rts -> Nat], NEW n \in Nat,
           \A rt \in Rts : a[rt] <= n, \E rt \in Rts : a[rt] = n
    PROVE  Max({a[rt] : rt \in Rts}) = n
  <1>1. PICK S : S = {a[rt] : rt \in Rts}
    OBVIOUS
  <1>2. n \in S /\ \A y \in S : y \in Nat /\ n >= y
    BY <1>1
  <1>3. \A x \in S : (\A y \in S : x >= y) => x = n
    BY <1>2
  <1> QED
    BY <1>1, <1>2, <1>3 DEF Max

(* The newest value after a step.                                          *)
LEMMA NewestAfter ==
    ASSUME WriterTypes', NEW n \in Nat,
           \A rt \in Rts : writer'[rt].ts <= n, \E rt \in Rts : writer'[rt].ts = n
    PROVE  Newest' = n
  <1>1. PICK a : a = [rt \in Rts |-> writer'[rt].ts]
    OBVIOUS
  <1>2. a \in [Rts -> Nat] /\ \A rt \in Rts : a[rt] = writer'[rt].ts
    BY <1>1 DEF WriterTypes, States
  <1>3. Max({a[rt] : rt \in Rts}) = n
    BY <1>2, NewestIs
  <1>4. {a[rt] : rt \in Rts} = {writer'[rt].ts : rt \in Rts}
    BY <1>2
  <1>5. Newest' = Max({writer'[rt].ts : rt \in Rts})
    BY DEF Newest
  <1> QED
    BY <1>3, <1>4, <1>5

(* A written value is the newest one.                                      *)
LEMMA WriteKeepsQuiet ==
    ASSUME IInv, IInv', MinQuiet["lt"] # 0, NEW ts \in Ts, Write(ts)
    PROVE  QuietReachesLong'
  <1>1. PICK rts \in SUBSET Rts : rts = {rt \in Rts : Accepts(rt, writer[rt], ts)}
    OBVIOUS
  <1>2. now' = ts /\ ts >= now /\ rts # {} /\ WriteTo(rts, ts, ts)
    BY <1>1 DEF Write
  <1>3. /\ ts \in Nat /\ now \in Nat
        /\ \A rt \in Rts : writer[rt] \in States /\ writer[rt].ts \in Nat
                           /\ writer[rt].ts <= now
    BY TimeAssumption DEF IInv, WriterTypes, States
  <1>4. \A rt \in Rts : writer'[rt].ts = IF rt \in rts THEN ts ELSE writer[rt].ts
    BY <1>2, <1>3, SplitFacts DEF WriteTo
  <1>5. \A rt \in Rts : writer'[rt].ts <= ts
    BY <1>2, <1>3, <1>4
  <1>6. \E rt \in Rts : writer'[rt].ts = ts
    BY <1>2, <1>4
  <1>7. Newest' = ts
    BY <1>3, <1>5, <1>6, NewestAfter DEF IInv
  <1>8. ~QuietFor("lt", now)'
    <2>1. MinQuiet["lt"] \in Nat /\ MsLen \in Nat \ {0}
      BY WriterAssumption, TimeAssumption DEF Rts
    <2>2. PICK q \in Nat : q = MinQuiet["lt"] * MsLen
      BY <2>1
    <2>3. q # 0
      BY <2>1, <2>2
    <2>4. ~(ts + q <= ts)
      BY <1>3, <2>3
    <2> QED
      BY <1>2, <1>7, <2>2, <2>4 DEF QuietFor, Start
  <1> QED
    BY <1>8, Zenon DEF QuietReachesLong

(* A tick puts the newest value where it is due, and changes no other.     *)
LEMMA TickKeepsQuiet ==
    ASSUME IInv, IInv', NEW t \in Ts, Tick(t)
    PROVE  QuietReachesLong'
  <1>1. PICK rts \in SUBSET Rts : rts = ReputTo(t)
    BY DEF ReputTo, Rts
  <1>2. now' = t /\ t >= now /\ WriteTo(rts, Newest, t)
    BY <1>1 DEF Tick
  <1>3. /\ Newest \in Nat /\ Newest <= now
        /\ \A rt \in Rts : writer[rt].ts <= Newest
        /\ \E rt \in Rts : writer[rt].ts = Newest
    BY NewestFacts DEF IInv
  <1>4. t \in Nat /\ \A rt \in Rts : writer[rt] \in States /\ writer[rt].ts \in Nat
    BY TimeAssumption DEF IInv, WriterTypes, States
  <1>5. \A rt \in Rts : writer'[rt].ts = IF rt \in rts THEN Newest ELSE writer[rt].ts
    <2>1. PICK n \in Nat : n = Newest
      BY <1>3
    <2>2. WriteTo(rts, n, t)
      BY <1>2, <2>1
    <2>3. \A rt \in Rts : writer'[rt].ts = IF rt \in rts THEN n ELSE writer[rt].ts
      BY <1>4, <2>2, SplitFacts DEF WriteTo
    <2> QED
      BY <2>1, <2>3
  <1>6. (\A rt \in Rts : writer'[rt].ts <= Newest) /\ \E rt \in Rts : writer'[rt].ts = Newest
    BY <1>3, <1>4, <1>5
  <1>7. Newest' = Newest
    BY <1>3, <1>6, NewestAfter DEF IInv
  <1>8. QuietFor("lt", now)' <=> QuietFor("lt", t)
    BY <1>2, <1>7 DEF QuietFor
  <1>9. ASSUME Newest # 0, QuietFor("lt", t) PROVE writer'["lt"].ts = Newest
    <2>1. CASE Holder = "lt"
      <3>1. writer["lt"].ts = Newest
        BY <2>1 DEF Holder
      <3> QED
        BY <1>5, <3>1 DEF Rts
    <2>2. CASE Holder # "lt"
      <3>1. Holder \in {"st", "mt"}
        BY <2>2 DEF Holder
      <3>2. "lt" \in rts
        BY <1>1, <1>9, <3>1 DEF ReputTo
      <3> QED
        BY <1>5, <3>2 DEF Rts
    <2> QED
      BY <2>1, <2>2
  <1> QED
    BY <1>7, <1>8, <1>9, Zenon DEF QuietReachesLong

(* Any other step leaves the values where they are, or there is no writer  *)
(* or an empty one afterwards.                                             *)
LEMMA OtherKeepsQuiet ==
    ASSUME IInv, IInv', QuietReachesLong,
           \/ open' = FALSE
           \/ \A rt \in Rts : writer'[rt].ts = 0
           \/ UNCHANGED <<open, now>> /\ \A rt \in Rts : writer'[rt].ts = writer[rt].ts
    PROVE  QuietReachesLong'
  <1>1. CASE open' = FALSE
    BY <1>1, Zenon DEF QuietReachesLong
  <1>2. CASE \A rt \in Rts : writer'[rt].ts = 0
    <2>1. "lt" \in Rts
      BY DEF Rts
    <2>2. (\A rt \in Rts : writer'[rt].ts <= 0) /\ \E rt \in Rts : writer'[rt].ts = 0
      BY <1>2, <2>1
    <2>3. Newest' = 0
      BY <2>2, NewestAfter DEF IInv
    <2> QED
      BY <2>3, Zenon DEF QuietReachesLong
  <1>3. CASE UNCHANGED <<open, now>> /\ \A rt \in Rts : writer'[rt].ts = writer[rt].ts
    <2>1. /\ Newest \in Nat
          /\ \A rt \in Rts : writer[rt].ts <= Newest
          /\ \E rt \in Rts : writer[rt].ts = Newest
      BY NewestFacts DEF IInv
    <2>2. (\A rt \in Rts : writer'[rt].ts <= Newest) /\ \E rt \in Rts : writer'[rt].ts = Newest
      BY <1>3, <2>1
    <2>3. Newest' = Newest
      BY <2>1, <2>2, NewestAfter DEF IInv
    <2>4. QuietFor("lt", now)' <=> QuietFor("lt", now)
      BY <1>3, <2>3 DEF QuietFor
    <2>5. writer'["lt"].ts = writer["lt"].ts /\ open' = open
      BY <1>3 DEF Rts
    <2> QED
      BY <2>3, <2>4, <2>5, Zenon DEF QuietReachesLong
  <1> QED
    BY <1>1, <1>2, <1>3

LEMMA NextKeepsQuiet ==
    ASSUME MinQuiet["lt"] # 0, IInv, IInv', QuietReachesLong, [Next]_vars
    PROVE  QuietReachesLong'
  <1>1. CASE NewWriter
    <2>1. \A rt \in Rts : writer'[rt].ts = 0
      BY <1>1 DEF NewWriter, NoState, State
    <2> QED
      BY <2>1, OtherKeepsQuiet
  <1>2. CASE DropWriter \/ Close
    <2>1. open' = FALSE
      BY <1>2 DEF DropWriter, Close
    <2> QED
      BY <2>1, OtherKeepsQuiet
  <1>3. CASE Housekeeping
    <2>1. \A rt \in Rts : writer[rt] \in States
      BY DEF IInv, WriterTypes
    <2>2. UNCHANGED <<open, now>> /\ \A rt \in Rts : writer'[rt].ts = writer[rt].ts
      BY <1>3, <2>1 DEF Housekeeping, Reput, States
    <2> QED
      BY <2>2, OtherKeepsQuiet
  <1>4. ASSUME NEW ts \in Ts, Write(ts) PROVE QuietReachesLong'
    BY <1>4, WriteKeepsQuiet
  <1>5. ASSUME NEW ts \in Ts, Tick(ts) PROVE QuietReachesLong'
    BY <1>5, TickKeepsQuiet
  <1>6. CASE UNCHANGED writerVars
    <2>1. UNCHANGED <<open, now>> /\ \A rt \in Rts : writer'[rt].ts = writer[rt].ts
      BY <1>6 DEF writerVars
    <2> QED
      BY <2>1, OtherKeepsQuiet
  <1>7. WriterNext \/ UNCHANGED writerVars
    BY DEF Next, vars
  <1> QED
    BY <1>1, <1>2, <1>3, <1>4, <1>5, <1>6, <1>7 DEF WriterNext

(* Whenever the writer was looked at (write, tick) later than the quiet    *)
(* time of the long-term store, the newest value has been put there, by    *)
(* check_quiet_reput or before.  That store has a quiet time: with 0, a    *)
(* value within a millisecond of its last one goes past it.                *)
THEOREM QuietIsKept ==
    ASSUME MinQuiet["lt"] # 0
    PROVE  Spec => []QuietReachesLong
  <1>1. Init => QuietReachesLong
    BY Zenon DEF Init, WriterInit, QuietReachesLong
  <1>2. IInv /\ IInv' /\ QuietReachesLong /\ [Next]_vars => QuietReachesLong'
    BY NextKeepsQuiet
  <1> QED
    BY <1>1, <1>2, SpecInv, PTL DEF Spec
-----------------------------------------------------------------------------
(* The numbers of a finite set in order.                                   *)
Lt == {p \in Nat \X Nat : p[1] < p[2]}
Le == {p \in Nat \X Nat : p[1] <= p[2]}

LEMMA PairFacts ==
    ASSUME NEW x \in Nat, NEW y \in Nat
    PROVE  (<<x, y>> \in Lt <=> x < y) /\ (<<x, y>> \in Le <=> x <= y)
  BY DEF Lt, Le

LEMMA RankFacts ==
    ASSUME NEW S \in SUBSET Nat, IsFiniteSet(S)
    PROVE  /\ Cardinality(S) \in Nat
           /\ \A i \in 1..Cardinality(S) : \E x \in S :
                Cardinality({y \in S : y < x}) = i - 1
           /\ \A x \in S : Cardinality({y \in S : y < x}) + 1 \in 1..Cardinality(S)
           /\ \A x, z \in S : x < z =>
                Cardinality({y \in S : y < x}) < Cardinality({y \in S : y < z})
  <1> DEFINE B(x) == {y \in S : y < x}
             n == Cardinality(S)
  <1>0. \A x \in S : x \in Nat
    OBVIOUS
  <1>1. n \in Nat
    BY FS_CardinalityType
  <1>2. \A x \in S : B(x) \in SUBSET S /\ IsFiniteSet(B(x)) /\ Cardinality(B(x)) \in Nat
    BY FS_Subset, FS_CardinalityType
  <1>3. ASSUME NEW x \in S PROVE Cardinality(B(x)) \in 0..(n - 1)
    <2>1. Cardinality(B(x)) <= n /\ (n = Cardinality(B(x)) => S = B(x))
      BY <1>2, FS_Subset
    <2>2. x \notin B(x) /\ x \in S
      BY <1>0
    <2>3. n # Cardinality(B(x)) /\ Cardinality(B(x)) \in Nat
      BY <1>2, <2>1, <2>2
    <2> HIDE DEF B, n
    <2> QED
      BY <1>1, <2>1, <2>3
  <1>4. ASSUME NEW x \in S, NEW z \in S, x < z
        PROVE  Cardinality(B(x)) < Cardinality(B(z))
    <2>0. x \in Nat /\ z \in Nat
      BY <1>0
    <2>1. /\ \A y \in S : y < x => y < z
          /\ x \in B(z) /\ x \notin B(x)
      BY <1>0, <1>4, <2>0
    <2>2. PICK X : X = B(x)
      OBVIOUS
    <2>3. PICK Z : Z = B(z)
      OBVIOUS
    <2>4. X \in SUBSET Z /\ X # Z /\ IsFiniteSet(Z) /\ Cardinality(Z) \in Nat
          /\ Cardinality(X) \in Nat
      BY <1>2, <2>1, <2>2, <2>3
    <2>5. Cardinality(X) <= Cardinality(Z) /\ (Cardinality(Z) = Cardinality(X) => Z = X)
      BY <2>4, FS_Subset
    <2>6. Cardinality(X) < Cardinality(Z)
      BY <2>4, <2>5
    <2> QED
      BY <2>2, <2>3, <2>6
  <1>5. PICK f : f = [x \in S |-> Cardinality(B(x))]
    OBVIOUS
  <1>6. \A x \in S : f[x] = Cardinality(B(x))
    BY <1>5
  <1>7. PICK T : T = 0..(n - 1)
    OBVIOUS
  <1>8. IsFiniteSet(T) /\ Cardinality(T) = n
    <2>1. 0 \in Int /\ n - 1 \in Int
      BY <1>1
    <2>2. /\ IsFiniteSet(0..(n - 1))
          /\ Cardinality(0..(n - 1)) = IF 0 > n - 1 THEN 0 ELSE (n - 1) - 0 + 1
      BY <2>1, FS_Interval
    <2>3. (IF 0 > n - 1 THEN 0 ELSE (n - 1) - 0 + 1) = n
      BY <1>1
    <2> QED
      BY <1>7, <2>2, <2>3
  <1>9. f \in [S -> T]
    BY <1>3, <1>5, <1>7
  <1>10. \A x, z \in S : f[x] = f[z] => x = z
    <2> SUFFICES ASSUME NEW x \in S, NEW z \in S, x # z PROVE f[x] # f[z]
      OBVIOUS
    <2>1. x < z \/ z < x
      OBVIOUS
    <2>2. f[x] < f[z] \/ f[z] < f[x]
      BY <1>4, <1>6, <2>1
    <2>3. f[x] \in Nat /\ f[z] \in Nat
      BY <1>2, <1>6
    <2> QED
      BY <2>2, <2>3
  <1>11. f \in Injection(S, T)
    BY <1>9, <1>10 DEF Injection, IsInjective
  <1>12. f \in Surjection(S, T)
    BY <1>8, <1>11, FS_Injection
  <1>13. \A j \in T : \E x \in S : f[x] = j
    BY <1>12 DEF Surjection
  <1>14. ASSUME NEW i \in 1..n PROVE \E x \in S : Cardinality(B(x)) = i - 1
    <2>1. i - 1 \in T
      BY <1>1, <1>7
    <2> QED
      BY <1>6, <1>13, <2>1
  <1>15. \A x \in S : Cardinality(B(x)) + 1 \in 1..n
    BY <1>1, <1>3
  <1> QED
    BY <1>1, <1>4, <1>14, <1>15

LEMMA InOrderFacts ==
    ASSUME NEW S \in SUBSET Nat, IsFiniteSet(S)
    PROVE  /\ InOrder(S) \in Seq(S) /\ Len(InOrder(S)) = Cardinality(S)
           /\ Cardinality(S) \in Nat
           /\ Ordered(InOrder(S), Lt)
           /\ \A x \in S : \E i \in 1..Cardinality(S) : InOrder(S)[i] = x
  <1> DEFINE rank(x) == Cardinality({y \in S : y < x})
             n == Cardinality(S)
             at(i) == CHOOSE x \in S : rank(x) = i - 1
  <1>1. /\ n \in Nat
        /\ \A i \in 1..n : \E x \in S : rank(x) = i - 1
        /\ \A x \in S : rank(x) + 1 \in 1..n
        /\ \A x, z \in S : x < z => rank(x) < rank(z)
    BY RankFacts
  <1>2. \A x \in S : rank(x) \in Int
    <2>1. \A x \in S : IsFiniteSet({y \in S : y < x})
      BY FS_Subset
    <2> QED
      BY <2>1, FS_CardinalityType
  <1>3. InOrder(S) = [i \in 1..n |-> at(i)]
    BY DEF InOrder
  <1> HIDE DEF rank
  <1>4. \A i \in 1..n : at(i) \in S /\ rank(at(i)) = i - 1
    BY <1>1
  <1> HIDE DEF at
  <1>5. PICK q : q = InOrder(S)
    OBVIOUS
  <1>6. q \in [1..n -> S] /\ \A i \in 1..n : q[i] = at(i)
    BY <1>3, <1>4, <1>5
  <1> HIDE DEF n
  <1>7. q \in Seq(S) /\ Len(q) = n
    BY <1>1, <1>6
  <1>8. ASSUME NEW i \in 1..n, NEW j \in 1..n, i < j PROVE <<q[i], q[j]>> \in Lt
    <2>1. q[i] \in S /\ q[j] \in S /\ rank(q[i]) = i - 1 /\ rank(q[j]) = j - 1
      BY <1>4, <1>6
    <2>2. PICK a \in S, b \in S : a = q[i] /\ b = q[j]
      BY <2>1
    <2>3. a \in Nat /\ b \in Nat /\ rank(a) = i - 1 /\ rank(b) = j - 1
      BY <2>1, <2>2
    <2>4. b < a => rank(b) < rank(a)
      BY <1>1
    <2>5. a < b
      BY <1>1, <1>8, <2>3, <2>4
    <2> QED
      BY <2>2, <2>3, <2>5, PairFacts
  <1>9. Ordered(q, Lt)
    BY <1>7, <1>8 DEF Ordered
  <1>10. ASSUME NEW x \in S PROVE \E i \in 1..n : q[i] = x
    <2>1. PICK i \in 1..n : i = rank(x) + 1
      BY <1>1
    <2>2. q[i] \in S /\ rank(q[i]) = rank(x)
      BY <1>2, <1>4, <1>6, <2>1
    <2>3. PICK a \in S : a = q[i]
      BY <2>2
    <2>4. (a < x => rank(a) < rank(x)) /\ (x < a => rank(x) < rank(a))
      BY <1>1
    <2>5. rank(a) = rank(x) /\ rank(x) \in Int /\ a \in Nat /\ x \in Nat
      BY <1>2, <2>2, <2>3
    <2>6. a = x
      BY <2>4, <2>5
    <2> QED
      BY <2>3, <2>6
  <1> QED
    BY <1>1, <1>5, <1>7, <1>9, <1>10 DEF n

(* What a query returns: the least elements, all of them if there are      *)
(* fewer than the limit.                                                   *)
LEMMA PageFacts ==
    ASSUME NEW S \in SUBSET Nat, IsFiniteSet(S), NEW n \in Nat, n # 0
    PROVE  /\ Page(S, n) \in Seq(S) /\ Ordered(Page(S, n), Lt)
           /\ Len(Page(S, n)) <= n
           /\ \A x \in S : \/ x \in ToSet(Page(S, n))
                           \/ /\ Len(Page(S, n)) = n
                              /\ Page(S, n) # <<>> /\ Last(Page(S, n)) < x
  <1>1. PICK q : q = InOrder(S)
    OBVIOUS
  <1>2. PICK c \in Nat : c = Cardinality(S)
    BY InOrderFacts
  <1>3. /\ q \in Seq(S) /\ Len(q) = c /\ Ordered(q, Lt)
        /\ \A x \in S : \E i \in 1..c : q[i] = x
    BY <1>1, <1>2, InOrderFacts
  <1>4. PICK l \in 0..c : l = IF n <= c THEN n ELSE c
    BY <1>2
  <1>5. Min({n, c}) = l
    <2>1. l \in {n, c} /\ \A y \in {n, c} : l <= y
      BY <1>2, <1>4
    <2>2. \A x \in {n, c} : (\A y \in {n, c} : x <= y) => x = l
      BY <1>2, <2>1
    <2> QED
      BY <2>1, <2>2 DEF Min
  <1>6. PICK p : p = SubSeq(q, 1, l)
    OBVIOUS
  <1>7. Page(S, n) = p
    BY <1>1, <1>2, <1>5, <1>6 DEF Page
  <1>8. p \in Seq(S) /\ Len(p) = l /\ \A i \in 1..l : p[i] = q[i]
    BY <1>3, <1>4, <1>6
  <1>9. Ordered(p, Lt)
    BY <1>3, <1>4, <1>8 DEF Ordered
  <1>10. ASSUME NEW x \in S
         PROVE  x \in ToSet(p) \/ (Len(p) = n /\ p # <<>> /\ Last(p) < x)
    <2>1. PICK i \in 1..c : q[i] = x
      BY <1>3
    <2>2. CASE i <= l
      <3>1. i \in 1..l /\ p[i] = x
        BY <1>8, <2>1, <2>2
      <3> QED
        BY <1>8, <3>1 DEF ToSet
    <2>3. CASE ~(i <= l)
      <3>1. l < i /\ l = n /\ l # 0 /\ l \in 1..c
        BY <1>2, <1>4, <2>3
      <3>2. p # <<>> /\ Last(p) = q[l]
        BY <1>8, <3>1 DEF Last
      <3>3. <<q[l], q[i]>> \in Lt /\ q[l] \in S
        BY <1>3, <3>1 DEF Ordered
      <3>4. q[l] < x
        BY <2>1, <3>3, PairFacts
      <3> QED
        BY <1>8, <3>1, <3>2, <3>4
    <2> QED
      BY <2>2, <2>3
  <1>11. l <= n
    BY <1>2, <1>4
  <1> QED
    BY <1>7, <1>8, <1>9, <1>10, <1>11
-----------------------------------------------------------------------------
(* Milliseconds and the grid of the partitions.                            *)
LEMMA MulMono ==
    ASSUME NEW x \in Int, NEW y \in Int, NEW d \in Nat \ {0}
    PROVE  /\ x * d \in Int /\ y * d \in Int
           /\ x < y => x * d + d <= y * d
           /\ x * d <= y * d => x <= y
  <1>1. /\ x * d \in Int /\ y * d \in Int /\ (x + 1) * d \in Int
        /\ (x + 1) * d = x * d + d /\ (y + 1) * d = y * d + d
    OBVIOUS
  <1>2. \A a, b \in Int : a <= b => a * d <= b * d
    OBVIOUS
  <1>3. x < y => (x + 1) * d <= y * d
    BY <1>2
  <1>4. y < x => (y + 1) * d <= x * d
    BY <1>2
  <1> QED
    BY <1>1, <1>3, <1>4

LEMMA DivFacts ==
    ASSUME NEW a \in Int, NEW d \in Nat \ {0}
    PROVE  /\ a \div d \in Int /\ (a \div d) * d \in Int
           /\ (a \div d) * d <= a /\ a < (a \div d) * d + d
           /\ a \in Nat => a \div d \in Nat
  OBVIOUS

LEMMA DivLe ==
    ASSUME NEW a \in Int, NEW d \in Nat \ {0}, NEW x \in Int
    PROVE  x * d <= a <=> x <= a \div d
  <1>1. PICK q \in Int : q = a \div d
    BY DivFacts
  <1>2. q * d <= a /\ a < q * d + d /\ q * d \in Int
    BY <1>1, DivFacts
  <1>3. /\ x * d \in Int /\ (q < x => q * d + d <= x * d)
        /\ (x < q => x * d + d <= q * d)
    BY MulMono
  <1>4. x = q => x * d = q * d
    OBVIOUS
  <1>5. x <= q => x * d <= a
    BY <1>2, <1>3, <1>4
  <1>6. x * d <= a => x <= q
    BY <1>2, <1>3
  <1> QED
    BY <1>1, <1>5, <1>6

LEMMA MsFacts ==
    ASSUME NEW m \in Int, NEW t \in Int
    PROVE  /\ Start(m) \in Int /\ Ms(t) \in Int
           /\ m <= Ms(t) <=> Start(m) <= t
           /\ Start(Ms(t)) <= t
           /\ m < Ms(t) => Start(m) < t
           /\ t \in Nat => Ms(t) \in Nat
           /\ m \in Nat => Start(m) \in Nat
  <1>1. MsLen \in Nat \ {0}
    BY TimeAssumption
  <1>2. /\ m * MsLen \in Int /\ t \div MsLen \in Int
        /\ m * MsLen <= t <=> m <= t \div MsLen
        /\ (t \div MsLen) * MsLen <= t
        /\ t \in Nat => t \div MsLen \in Nat
        /\ m < t \div MsLen => m * MsLen + MsLen <= (t \div MsLen) * MsLen
        /\ (t \div MsLen) * MsLen \in Int
    BY <1>1, MulMono, DivFacts, DivLe
  <1>3. m \in Nat => m * MsLen \in Nat
    BY <1>1
  <1>4. m < t \div MsLen => m * MsLen < t
    BY <1>1, <1>2
  <1> QED
    BY <1>2, <1>3, <1>4 DEF Ms, Start

LEMMA StartMono ==
    ASSUME NEW m \in Int, NEW n \in Int
    PROVE  /\ Start(m) \in Int /\ Start(n) \in Int
           /\ m < n => Start(m) < Start(n)
           /\ m <= n => Start(m) <= Start(n)
           /\ Start(m) <= Start(n) => m <= n
           /\ Start(m) < Start(n) => m < n
           /\ Ms(Start(m)) = m
  <1>1. MsLen \in Nat \ {0}
    BY TimeAssumption
  <1>2. /\ m * MsLen \in Int /\ n * MsLen \in Int
        /\ m < n => m * MsLen + MsLen <= n * MsLen
        /\ n < m => n * MsLen + MsLen <= m * MsLen
        /\ m * MsLen <= n * MsLen => m <= n
    BY <1>1, MulMono
  <1>3. m = n => m * MsLen = n * MsLen
    OBVIOUS
  <1>4. PICK a \in Int : a = m * MsLen
    BY <1>2
  <1>5. (m + 1) * MsLen = a + MsLen
    BY <1>1, <1>4
  <1>6. m <= a \div MsLen /\ ~(m + 1 <= a \div MsLen) /\ a \div MsLen \in Int
    <2>1. (m * MsLen <= a <=> m <= a \div MsLen)
      BY <1>1, DivLe
    <2>2. ((m + 1) * MsLen <= a <=> m + 1 <= a \div MsLen)
      BY <1>1, DivLe
    <2>3. a \div MsLen \in Int
      BY <1>1, DivFacts
    <2> QED
      BY <1>1, <1>4, <1>5, <2>1, <2>2, <2>3
  <1>7. a \div MsLen = m
    BY <1>6
  <1> QED
    BY <1>1, <1>2, <1>3, <1>4, <1>7 DEF Start, Ms

(* A partition begins on the grid, at or before its first value.           *)
LEMMA GridFacts ==
    ASSUME NEW t \in Nat
    PROVE  /\ GridMsp(t) \in Nat
           /\ Start(GridMsp(t)) = (t \div GridLen) * GridLen
           /\ Start(GridMsp(t)) <= t /\ t < Start(GridMsp(t)) + GridLen
  <1>1. MsLen \in Nat \ {0} /\ GridLen \in Nat \ {0} /\ GridLen % MsLen = 0
    BY TimeAssumption
  <1>2. PICK c \in Int : GridLen = c * MsLen
    BY <1>1
  <1>3. PICK q \in Nat : q = t \div GridLen
    BY <1>1, DivFacts
  <1>4. q * GridLen <= t /\ t < q * GridLen + GridLen /\ q * GridLen \in Nat
    <2>1. q * GridLen <= t /\ t < q * GridLen + GridLen
      BY <1>1, <1>3, DivFacts
    <2>2. q * GridLen \in Nat
      BY <1>1
    <2> QED
      BY <2>1, <2>2
  <1>5. PICK m \in Int : m = q * c
    OBVIOUS
  <1>6. q * GridLen = m * MsLen
    BY <1>1, <1>2, <1>5
  <1>7. Ms(q * GridLen) = m
    BY <1>6, StartMono DEF Start
  <1>8. GridMsp(t) = m
    BY <1>3, <1>7 DEF GridMsp
  <1>9. Start(m) = q * GridLen
    BY <1>6 DEF Start
  <1>10. m \in Nat
    BY <1>4, <1>7, MsFacts
  <1> QED
    BY <1>3, <1>4, <1>8, <1>9, <1>10

LEMMA GridOrder ==
    ASSUME NEW t \in Nat, NEW u \in Nat
    PROVE  /\ GridMsp(t) < GridMsp(u) => Start(GridMsp(t)) + GridLen <= Start(GridMsp(u))
           /\ Start(GridMsp(t)) <= u => GridMsp(t) <= GridMsp(u)
           /\ t <= u => GridMsp(t) <= GridMsp(u)
  <1>1. GridLen \in Nat \ {0}
    BY TimeAssumption
  <1>2. PICK p \in Nat : p = t \div GridLen
    BY <1>1, DivFacts
  <1>3. PICK q \in Nat : q = u \div GridLen
    BY <1>1, DivFacts
  <1>4. PICK g \in Nat : g = GridMsp(t)
    BY GridFacts
  <1>5. PICK h \in Nat : h = GridMsp(u)
    BY GridFacts
  <1>6. Start(g) = p * GridLen /\ Start(h) = q * GridLen /\ Start(g) <= t
    BY <1>2, <1>3, <1>4, <1>5, GridFacts
  <1>7. /\ p * GridLen \in Int /\ q * GridLen \in Int
        /\ p < q => p * GridLen + GridLen <= q * GridLen
        /\ p * GridLen <= q * GridLen => p <= q
    BY <1>1, MulMono
  <1>8. q < p => q * GridLen + GridLen <= p * GridLen
    BY <1>1, MulMono
  <1>9. /\ g < h => Start(g) < Start(h)
        /\ Start(g) <= Start(h) => g <= h
    BY StartMono
  <1>10. p * GridLen <= u <=> p <= q
    BY <1>1, <1>3, DivLe
  <1>11. p = q => p * GridLen = q * GridLen
    OBVIOUS
  <1>12. g < h => Start(g) + GridLen <= Start(h)
    BY <1>1, <1>6, <1>7, <1>8, <1>9, <1>11
  <1>13. Start(g) <= u => g <= h
    BY <1>1, <1>6, <1>7, <1>9, <1>10, <1>11
  <1>14. t <= u => Start(g) <= u
    BY <1>6, <1>7
  <1> QED
    BY <1>4, <1>5, <1>12, <1>13, <1>14

Msps == {GridMsp(t) : t \in Ts}

LEMMA MspFacts ==
    ASSUME NEW m \in Msps
    PROVE  /\ m \in Nat
           /\ \A n \in Msps : m < n => Start(m) + GridLen <= Start(n)
           /\ \A t \in Nat : Start(m) <= t => m <= GridMsp(t)
  <1>1. PICK u \in Ts : m = GridMsp(u)
    BY DEF Msps
  <1>2. u \in Nat
    BY TimeAssumption
  <1>3. ASSUME NEW n \in Msps, m < n PROVE Start(m) + GridLen <= Start(n)
    <2>1. PICK v \in Ts : n = GridMsp(v)
      BY DEF Msps
    <2>2. v \in Nat
      BY TimeAssumption
    <2> QED
      BY <1>1, <1>2, <1>3, <2>1, <2>2, GridOrder
  <1> QED
    BY <1>1, <1>2, <1>3, GridFacts, GridOrder
-----------------------------------------------------------------------------
(* The history of a store: M are its partitions, E its events, written or  *)
(* on their way.                                                           *)

(* An event is in a partition that began before it, and not longer ago     *)
(* than a partition may last.                                              *)
EventOK(rt, e) ==
    /\ e \in Msps \X Ts /\ e[2] >= 1
    /\ Start(e[1]) <= e[2] /\ e[2] < Start(e[1]) + GridLen + RolloverIvl[rt]

(* Partitions follow each other: what is in an earlier one is not later    *)
(* than what is in a later one, nor than the grid cell where that began.   *)
Hist(rt, M, E) ==
    /\ M \subseteq Msps
    /\ \A e \in E : EventOK(rt, e) /\ e[1] \in M
    /\ \A e \in E, m \in M : e[1] < m => GridMsp(e[2]) <= m
    /\ \A e, f \in E : e[1] < f[1] => e[2] <= f[2]

HistUpTo(M, E, n) ==
    (\A m \in M : Start(m) <= n) /\ \A e \in E : e[2] <= n

(* A partition has an event of the grid cell where it begins.              *)
Begun(M, E) == \A m \in M : \E e \in E : e[1] = m /\ GridMsp(e[2]) = m

(* The partition of a store that writes is its last one.                   *)
WState(rt, M, w) ==
    /\ w \in States
    /\ w.ts \in Ts \union {0} /\ w.count \in 0..CountMax /\ w.put <= w.ts
    /\ w.msp # NoMsp =>
         /\ w.msp \in M /\ \A m \in M : m <= w.msp
         /\ Start(w.msp) <= w.ts
         /\ w.rollover_at <= Start(w.msp) + GridLen + RolloverIvl[rt]

(* Where a value of time ts goes.                                          *)
Fits(rt, M, m, ts) ==
    /\ m \in Msps /\ \A x \in M : x <= m
    /\ Start(m) <= ts /\ ts < Start(m) + GridLen + RolloverIvl[rt]
    /\ m \in M \/ m = GridMsp(ts)

LEMMA HistStep ==
    ASSUME NEW rt \in Rts, NEW M, NEW E, NEW M2, NEW E2, NEW m, NEW ts \in Ts,
           ts >= 1, Hist(rt, M, E), HistUpTo(M, E, ts), Fits(rt, M, m, ts),
           M2 \subseteq M \union {m}, E2 \subseteq E \union {<<m, ts>>},
           \A e \in E2 : e[1] \in M2
    PROVE  /\ Hist(rt, M2, E2) /\ HistUpTo(M2, E2, ts)
           /\ E \subseteq E2 /\ <<m, ts>> \in E2 /\ Begun(M, E) => Begun(M2, E2)
  <1> DEFINE new == <<m, ts>>
  <1>0. ts \in Nat
    BY TimeAssumption
  <1>1. /\ m \in Msps /\ (\A x \in M : x <= m) /\ Start(m) <= ts
        /\ ts < Start(m) + GridLen + RolloverIvl[rt]
        /\ m \in M \/ m = GridMsp(ts)
    BY DEF Fits
  <1>2. m \in Nat /\ \A x \in M : x \in Msps /\ x \in Nat
    BY <1>1, MspFacts DEF Hist
  <1>3. new[1] = m /\ new[2] = ts /\ new \in Msps \X Ts /\ EventOK(rt, new)
    BY <1>1 DEF EventOK
  <1> HIDE DEF new
  <1>4. ASSUME NEW e \in E
        PROVE  e[1] \in M /\ e[2] \in Nat /\ e[2] <= ts /\ EventOK(rt, e)
    BY TimeAssumption DEF Hist, HistUpTo, EventOK
  <1>5. \A e \in E2 : e \in E \/ e = new
    BY DEF new
  <1>6. \A e \in E2 : EventOK(rt, e) /\ e[1] \in M2
    BY <1>3, <1>4, <1>5
  <1>7. ASSUME NEW e \in E2, NEW x \in M2, e[1] < x PROVE GridMsp(e[2]) <= x
    <2>1. CASE e = new
      <3>1. x \in M \/ x = m
        OBVIOUS
      <3>2. m < x
        BY <1>3, <1>7, <2>1
      <3> QED
        BY <1>1, <1>2, <3>1, <3>2
    <2>2. CASE e \in E /\ x \in M
      BY <1>7, <2>2 DEF Hist
    <2>3. CASE e \in E /\ x = m
      <3>1. e[2] \in Nat /\ e[2] <= ts
        BY <1>4, <2>3
      <3>2. GridMsp(e[2]) <= GridMsp(ts)
        BY <1>0, <3>1, GridOrder
      <3>3. m \in M => GridMsp(e[2]) <= m
        BY <1>7, <2>3 DEF Hist
      <3> QED
        BY <1>1, <2>3, <3>2, <3>3
    <2> QED
      BY <1>5, <2>1, <2>2, <2>3
  <1>8. ASSUME NEW e \in E2, NEW f \in E2, e[1] < f[1] PROVE e[2] <= f[2]
    <2>1. CASE e \in E /\ f \in E
      BY <1>8, <2>1 DEF Hist
    <2>2. CASE e = new
      <3>1. f[1] \in M \/ f[1] = m
        BY <1>3, <1>4, <1>5
      <3> QED
        BY <1>1, <1>2, <1>3, <1>8, <2>2, <3>1
    <2>3. CASE e \in E /\ f = new
      BY <1>3, <1>4, <2>3
    <2> QED
      BY <1>5, <2>1, <2>2, <2>3
  <1>9. M2 \subseteq Msps
    BY <1>1, <1>2
  <1>10. Hist(rt, M2, E2)
    BY <1>6, <1>7, <1>8, <1>9 DEF Hist
  <1>11. HistUpTo(M2, E2, ts)
    <2>1. \A x \in M2 : Start(x) <= ts
      BY <1>1 DEF HistUpTo
    <2>2. \A e \in E2 : e[2] <= ts
      BY <1>0, <1>3, <1>4, <1>5
    <2> QED
      BY <2>1, <2>2 DEF HistUpTo
  <1>12. ASSUME E \subseteq E2, new \in E2, Begun(M, E), NEW x \in M2
         PROVE  \E e \in E2 : e[1] = x /\ GridMsp(e[2]) = x
    <2>1. CASE x \in M
      BY <1>12, <2>1 DEF Begun
    <2>2. CASE x \notin M
      <3>1. x = m /\ m = GridMsp(ts)
        BY <1>1, <2>2
      <3> QED
        BY <1>3, <1>12, <3>1
    <2> QED
      BY <2>1, <2>2
  <1> QED
    BY <1>10, <1>11, <1>12 DEF Begun, new

(* Nothing new, or less of the partitions.                                 *)
LEMMA HistLess ==
    ASSUME NEW rt \in Rts, NEW M, NEW E, NEW M2 \in SUBSET M, NEW E2 \in SUBSET E,
           Hist(rt, M, E), \A e \in E2 : e[1] \in M2
    PROVE  /\ Hist(rt, M2, E2)
           /\ \A n : HistUpTo(M, E, n) => HistUpTo(M2, E2, n)
           /\ E2 = E /\ Begun(M, E) => Begun(M2, E2)
  <1>1. \A m \in M2 : m \in M
    OBVIOUS
  <1>2. \A e \in E2 : e \in E
    OBVIOUS
  <1>3. M2 \subseteq Msps
    BY DEF Hist
  <1>4. Hist(rt, M2, E2)
    BY <1>1, <1>2, <1>3 DEF Hist
  <1>5. \A n : HistUpTo(M, E, n) => HistUpTo(M2, E2, n)
    BY <1>1, <1>2 DEF HistUpTo
  <1>6. E2 = E /\ Begun(M, E) => Begun(M2, E2)
    BY <1>1 DEF Begun
  <1> QED
    BY <1>4, <1>5, <1>6

LEMMA HistUpToLater ==
    ASSUME NEW rt \in Rts, NEW M, NEW E, Hist(rt, M, E), NEW n \in Nat, NEW n2 \in Nat,
           n <= n2, HistUpTo(M, E, n)
    PROVE  HistUpTo(M, E, n2)
  <1>1. \A m \in M : Start(m) \in Int
    BY MspFacts, StartMono DEF Hist
  <1>2. \A e \in E : e[2] \in Nat
    BY TimeAssumption DEF Hist, EventOK
  <1> QED
    BY <1>1, <1>2 DEF HistUpTo

(* MspSplitDyn::split sends a value where it fits.                         *)
LEMMA SplitFits ==
    ASSUME NEW rt \in Rts, NEW M, NEW E, NEW w, NEW ts \in Ts, NEW t \in Nat,
           Hist(rt, M, E), HistUpTo(M, E, ts), WState(rt, M, w), w.ts <= ts
    PROVE  /\ Fits(rt, M, Split(rt, w, ts, t).msp, ts)
           /\ Split(rt, w, ts, t).msp # NoMsp
           /\ \A M2 : M2 \subseteq M \union {Split(rt, w, ts, t).msp}
                      /\ Split(rt, w, ts, t).msp \in M2
                => WState(rt, M2, Split(rt, w, ts, t))
  <1>0. ts \in Nat /\ w \in States /\ GridLen \in Nat \ {0} /\ RolloverIvl[rt] \in Nat
        /\ CountMax \in Nat \ {0}
    BY TimeAssumption, WindowAssumption, WriterAssumption DEF WState
  <1>1. PICK s \in States : s = Split(rt, w, ts, t)
    BY <1>0, SplitFacts
  <1>2. PICK g \in Nat : g = GridMsp(ts)
    BY <1>0, GridFacts
  <1>3. g \in Msps /\ Start(g) <= ts /\ ts < Start(g) + GridLen /\ Start(g) \in Int
    BY <1>0, <1>2, GridFacts, StartMono DEF Msps
  <1>4. M \subseteq Msps /\ \A x \in M : x \in Nat
    BY MspFacts DEF Hist
  <1>5. s.ts = ts /\ s.ts \in Ts \union {0}
    <2>1. Split(rt, w, ts, t).ts = ts
      BY <1>0, SplitFacts
    <2> QED
      BY <1>1, <2>1
  <1>6. CASE Rollover(w, ts)
    <2>1. s = State(ts, g, ts + RolloverIvl[rt], t)
      BY <1>1, <1>2, <1>6 DEF Split
    <2>2. /\ s.msp = g /\ s.count = 1 /\ s.put = ts
          /\ s.rollover_at = ts + RolloverIvl[rt]
      BY <2>1 DEF State
    <2>3. \A x \in M : x <= g
      BY <1>0, <1>2, <1>4, MspFacts DEF HistUpTo
    <2>4. ts < Start(g) + GridLen + RolloverIvl[rt]
      BY <1>0, <1>3
    <2>5. Fits(rt, M, g, ts)
      BY <1>2, <1>3, <2>3, <2>4 DEF Fits
    <2>6. ASSUME NEW M2, M2 \subseteq M \union {g}, g \in M2 PROVE WState(rt, M2, s)
      <3>1. \A x \in M2 : x <= g
        BY <2>3, <2>6
      <3>2. s.count \in 0..CountMax /\ s.put <= s.ts
        BY <1>0, <1>5, <2>2
      <3>3. s.rollover_at <= Start(g) + GridLen + RolloverIvl[rt] /\ Start(g) <= s.ts
        BY <1>0, <1>3, <1>5, <2>2
      <3> QED
        BY <1>5, <2>2, <2>6, <3>1, <3>2, <3>3 DEF WState
    <2>7. g # NoMsp
      BY <1>2 DEF NoMsp
    <2> QED
      BY <1>1, <2>2, <2>5, <2>6, <2>7
  <1>7. CASE ~Rollover(w, ts)
    <2>1. PICK m : m = w.msp
      OBVIOUS
    <2>2. m # NoMsp /\ (~RolloverDue(w, ts) \/ g = m)
      BY <1>2, <1>7, <2>1 DEF Rollover
    <2>3. /\ m \in M /\ (\A x \in M : x <= m) /\ Start(m) <= w.ts
          /\ w.rollover_at <= Start(m) + GridLen + RolloverIvl[rt]
          /\ w.count \in 0..CountMax /\ w.put <= w.ts
      BY <2>1, <2>2 DEF WState
    <2>4. m \in Nat /\ m \in Msps /\ Start(m) \in Int
      BY <1>4, <2>3, StartMono
    <2>5. /\ w.ts \in Nat /\ w.rollover_at \in Nat /\ w.put \in Nat /\ w.count \in Nat
      BY <1>0 DEF States
    <2>6. Start(m) <= ts
      BY <1>0, <2>3, <2>4, <2>5
    <2>7. ts < Start(m) + GridLen + RolloverIvl[rt]
      <3>1. CASE ~RolloverDue(w, ts)
        <4>1. ~(w.rollover_at <= ts)
          BY <3>1 DEF RolloverDue
        <4> QED
          BY <1>0, <2>3, <2>4, <2>5, <4>1
      <3>2. CASE g = m
        BY <1>0, <1>3, <3>2
      <3> QED
        BY <2>2, <3>1, <3>2
    <2>8. Fits(rt, M, m, ts)
      BY <2>3, <2>4, <2>6, <2>7 DEF Fits
    <2>9. PICK c : c = IF RolloverDue(w, ts) THEN w.count ELSE w.count + 1
      OBVIOUS
    <2>10. c \in 0..CountMax
      <3>1. ~RolloverDue(w, ts) => ~(w.count >= CountMax)
        BY DEF RolloverDue
      <3> QED
        BY <1>0, <2>3, <2>5, <2>9, <3>1
    <2>11. s = [[w EXCEPT !.ts = ts] EXCEPT !.count = c]
      BY <1>0, <1>1, <1>7, <2>9 DEF Split, States
    <2>12. /\ s.msp = m /\ s.count = c /\ s.put = w.put
           /\ s.rollover_at = w.rollover_at
      BY <1>0, <2>1, <2>11 DEF States
    <2>13. ASSUME NEW M2, M2 \subseteq M \union {m}, m \in M2 PROVE WState(rt, M2, s)
      <3>1. \A x \in M2 : x <= m
        BY <2>3, <2>13
      <3>2. s.put <= s.ts
        BY <1>0, <1>5, <2>3, <2>5, <2>12
      <3> QED
        BY <1>5, <2>3, <2>6, <2>10, <2>12, <2>13, <3>1, <3>2 DEF WState
    <2> QED
      BY <1>1, <2>2, <2>8, <2>12, <2>13
  <1> QED
    BY <1>6, <1>7
-----------------------------------------------------------------------------
RowEvents(rt, rows) ==
    {<<r.msp, r.ts>> : r \in {q \in rows : q.k = "Insert" /\ q.ks = rt}}
RowMsps(rt, rows) == {r.msp : r \in {q \in rows : q.ks = rt}}

EventsOf(rt) == db_ev[rt] \union RowEvents(rt, late)
MspsOf(rt) ==
    db_msp[rt] \union RowMsps(rt, late) \union {e[1] : e \in EventsOf(rt)}
    \union ({writer[rt].msp} \ {NoMsp})

Finite ==
    IsFiniteSet(late) /\ \A rt \in Rts : IsFiniteSet(db_msp[rt]) /\ IsFiniteSet(db_ev[rt])

LEMMA ImageFinite ==
    ASSUME NEW S, IsFiniteSet(S), NEW f, DOMAIN f = S, f = [x \in S |-> f[x]]
    PROVE  IsFiniteSet({f[x] : x \in S})
  <1>1. PICK T : T = {f[x] : x \in S}
    OBVIOUS
  <1>2. f \in [S -> T] /\ \A y \in T : \E x \in S : f[x] = y
    BY <1>1
  <1>3. f \in Surjection(S, T)
    BY <1>2 DEF Surjection
  <1> QED
    BY <1>1, <1>3, FS_Surjection

LEMMA RowsFinite ==
    ASSUME NEW rows, IsFiniteSet(rows), NEW rt
    PROVE  /\ IsFiniteSet(RowEvents(rt, rows))
           /\ IsFiniteSet({r.msp : r \in {q \in rows : q.k = "Msp" /\ q.ks = rt}})
  <1>1. PICK S : S = {q \in rows : q.k = "Insert" /\ q.ks = rt}
    OBVIOUS
  <1>2. PICK U : U = {q \in rows : q.k = "Msp" /\ q.ks = rt}
    OBVIOUS
  <1>3. IsFiniteSet(S) /\ IsFiniteSet(U)
    BY <1>1, <1>2, FS_Subset
  <1>4. PICK f : f = [r \in S |-> <<r.msp, r.ts>>]
    OBVIOUS
  <1>5. PICK g : g = [r \in U |-> r.msp]
    OBVIOUS
  <1>6. DOMAIN f = S /\ f = [x \in S |-> f[x]] /\ DOMAIN g = U /\ g = [x \in U |-> g[x]]
    BY <1>4, <1>5
  <1>7. IsFiniteSet({f[x] : x \in S}) /\ IsFiniteSet({g[x] : x \in U})
    BY <1>3, <1>6, ImageFinite
  <1>8. {f[x] : x \in S} = RowEvents(rt, rows)
    BY <1>1, <1>4 DEF RowEvents
  <1>9. {g[x] : x \in U} = {r.msp : r \in U}
    BY <1>5
  <1> QED
    BY <1>2, <1>7, <1>8, <1>9

(* What Written adds to the tables.                                        *)
LEMMA WrittenAdds ==
    ASSUME Finite, NEW rows, IsFiniteSet(rows), Written(rows)
    PROVE  \A rt \in Rts :
             /\ db_ev'[rt] = db_ev[rt] \union RowEvents(rt, rows)
             /\ db_msp[rt] \subseteq db_msp'[rt]
             /\ db_msp'[rt] \subseteq db_msp[rt] \union RowMsps(rt, rows)
             /\ IsFiniteSet(db_ev'[rt]) /\ IsFiniteSet(db_msp'[rt])
  <1> SUFFICES ASSUME NEW rt \in Rts
               PROVE  /\ db_ev'[rt] = db_ev[rt] \union RowEvents(rt, rows)
                      /\ db_msp[rt] \subseteq db_msp'[rt]
                      /\ db_msp'[rt] \subseteq db_msp[rt] \union RowMsps(rt, rows)
                      /\ IsFiniteSet(db_ev'[rt]) /\ IsFiniteSet(db_msp'[rt])
    OBVIOUS
  <1>1. PICK new : new = {r.msp : r \in {q \in rows : q.k = "Msp" /\ q.ks = rt}}
    OBVIOUS
  <1>2. db_msp'[rt] = db_msp[rt] \union new
    BY <1>1 DEF Written, Stores
  <1>3. db_ev'[rt] = db_ev[rt] \union RowEvents(rt, rows)
    BY DEF Written, RowEvents, Stores
  <1>4. new \subseteq RowMsps(rt, rows)
    BY <1>1 DEF RowMsps
  <1>5. IsFiniteSet(new) /\ IsFiniteSet(RowEvents(rt, rows))
    BY <1>1, RowsFinite
  <1>6. IsFiniteSet(db_ev[rt]) /\ IsFiniteSet(db_msp[rt])
    BY DEF Finite
  <1> QED
    BY <1>2, <1>3, <1>4, <1>5, <1>6, FS_Union

(* Rows that are sent: what they add to the history of a store.            *)
LEMMA InsertAdds ==
    ASSUME nlost \in Nat, Finite, NEW rows, IsFiniteSet(rows), Insert(rows)
    PROVE  /\ Finite' /\ nlost' \in Nat /\ (nlost' = 0 => nlost = 0)
           /\ \A rt \in Rts :
                /\ EventsOf(rt) \subseteq EventsOf(rt)'
                /\ EventsOf(rt)' \subseteq EventsOf(rt) \union RowEvents(rt, rows)
                /\ nlost' = 0 => RowEvents(rt, rows) \subseteq EventsOf(rt)'
                /\ db_msp'[rt] \union RowMsps(rt, late')
                     \subseteq db_msp[rt] \union RowMsps(rt, late) \union RowMsps(rt, rows)
                /\ db_msp[rt] \subseteq db_msp'[rt] /\ db_ev[rt] \subseteq db_ev'[rt]
  <1>1. PICK l \in UpTo(rows, MaxLate - Cardinality(late)) :
          \E f \in UpTo(rows \ l, MaxLost - nlost) :
            /\ late' = late \union l
            /\ nlost' = nlost + Cardinality(f)
            /\ Written(rows \ (l \union f))
    BY DEF Insert
  <1>2. PICK f \in UpTo(rows \ l, MaxLost - nlost) :
            /\ late' = late \union l
            /\ nlost' = nlost + Cardinality(f)
            /\ Written(rows \ (l \union f))
    BY <1>1
  <1>3. IsFiniteSet(rows \ l) /\ l \subseteq rows /\ IsFiniteSet(l)
    <2>1. l \subseteq rows
      BY DEF UpTo, kSubset
    <2> QED
      BY <2>1, FS_Subset
  <1>4. /\ Cardinality(f) \in Nat
        /\ f # {} => Cardinality(f) >= 1
    BY <1>3, Failed
  <1>5. nlost' \in Nat /\ (nlost' = 0 => nlost = 0 /\ f = {})
    BY <1>2, <1>4
  <1>6. PICK ok : ok = rows \ (l \union f)
    OBVIOUS
  <1>7. ok \subseteq rows /\ IsFiniteSet(ok) /\ Written(ok)
    BY <1>2, <1>6, FS_Subset
  <1>8. \A rt \in Rts :
             /\ db_ev'[rt] = db_ev[rt] \union RowEvents(rt, ok)
             /\ db_msp[rt] \subseteq db_msp'[rt]
             /\ db_msp'[rt] \subseteq db_msp[rt] \union RowMsps(rt, ok)
             /\ IsFiniteSet(db_ev'[rt]) /\ IsFiniteSet(db_msp'[rt])
    BY <1>7, WrittenAdds
  <1>9. late' = late \union l
    BY <1>2
  <1>10. IsFiniteSet(late')
    BY <1>3, <1>9, FS_Union DEF Finite
  <1>11. Finite'
    BY <1>8, <1>10 DEF Finite
  <1>12. \A rt \in Rts : RowEvents(rt, late') = RowEvents(rt, late) \union RowEvents(rt, l)
    BY <1>9 DEF RowEvents
  <1>13. \A rt \in Rts : RowMsps(rt, late') = RowMsps(rt, late) \union RowMsps(rt, l)
    BY <1>9 DEF RowMsps
  <1>14. \A rt \in Rts : /\ RowEvents(rt, l) \subseteq RowEvents(rt, rows)
                         /\ RowEvents(rt, ok) \subseteq RowEvents(rt, rows)
                         /\ RowMsps(rt, l) \subseteq RowMsps(rt, rows)
                         /\ RowMsps(rt, ok) \subseteq RowMsps(rt, rows)
    BY <1>3, <1>7 DEF RowEvents, RowMsps
  <1>15. nlost' = 0 => \A rt \in Rts :
            RowEvents(rt, rows) \subseteq RowEvents(rt, l) \union RowEvents(rt, ok)
    <2>1. nlost' = 0 => \A r \in rows : r \in l \/ r \in ok
      BY <1>5, <1>6
    <2> QED
      BY <2>1 DEF RowEvents
  <1>16. ASSUME NEW rt \in Rts
         PROVE  /\ EventsOf(rt) \subseteq EventsOf(rt)'
                /\ EventsOf(rt)' \subseteq EventsOf(rt) \union RowEvents(rt, rows)
                /\ nlost' = 0 => RowEvents(rt, rows) \subseteq EventsOf(rt)'
    <2>1. EventsOf(rt)' = db_ev'[rt] \union RowEvents(rt, late')
      BY DEF EventsOf
    <2>2. EventsOf(rt) = db_ev[rt] \union RowEvents(rt, late)
      BY DEF EventsOf
    <2>3. db_ev'[rt] = db_ev[rt] \union RowEvents(rt, ok)
      BY <1>8
    <2> QED
      BY <1>12, <1>14, <1>15, <2>1, <2>2, <2>3
  <1>17. ASSUME NEW rt \in Rts
         PROVE  db_msp'[rt] \union RowMsps(rt, late')
                     \subseteq db_msp[rt] \union RowMsps(rt, late) \union RowMsps(rt, rows)
    <2>1. db_msp'[rt] \subseteq db_msp[rt] \union RowMsps(rt, ok)
      BY <1>8
    <2> QED
      BY <1>13, <1>14, <2>1
  <1>18. \A rt \in Rts : db_ev[rt] \subseteq db_ev'[rt]
    BY <1>8
  <1> QED
    BY <1>5, <1>8, <1>11, <1>16, <1>17, <1>18

LEMMA LateAdds ==
    ASSUME nlost \in Nat, Finite, LateInsert
    PROVE  /\ Finite' /\ nlost' = nlost
           /\ \A rt \in Rts :
                /\ EventsOf(rt)' = EventsOf(rt)
                /\ db_msp'[rt] \union RowMsps(rt, late')
                     \subseteq db_msp[rt] \union RowMsps(rt, late)
                /\ db_msp[rt] \subseteq db_msp'[rt] /\ db_ev[rt] \subseteq db_ev'[rt]
  <1>1. PICK r \in late : late' = late \ {r} /\ Written({r}) /\ nlost' = nlost
    BY DEF LateInsert
  <1>2. IsFiniteSet({r}) /\ IsFiniteSet(late')
    BY <1>1, FS_Singleton, FS_RemoveElement DEF Finite
  <1>3. \A rt \in Rts :
             /\ db_ev'[rt] = db_ev[rt] \union RowEvents(rt, {r})
             /\ db_msp[rt] \subseteq db_msp'[rt]
             /\ db_msp'[rt] \subseteq db_msp[rt] \union RowMsps(rt, {r})
             /\ IsFiniteSet(db_ev'[rt]) /\ IsFiniteSet(db_msp'[rt])
    BY <1>1, <1>2, WrittenAdds
  <1>4. Finite'
    BY <1>2, <1>3 DEF Finite
  <1>5. \A rt \in Rts : RowEvents(rt, {r}) \union RowEvents(rt, late') = RowEvents(rt, late)
    BY <1>1 DEF RowEvents
  <1>6. \A rt \in Rts : RowMsps(rt, {r}) \union RowMsps(rt, late') = RowMsps(rt, late)
    BY <1>1 DEF RowMsps
  <1>7. ASSUME NEW rt \in Rts PROVE EventsOf(rt)' = EventsOf(rt)
    <2>1. EventsOf(rt)' = db_ev'[rt] \union RowEvents(rt, late')
      BY DEF EventsOf
    <2>2. EventsOf(rt) = db_ev[rt] \union RowEvents(rt, late)
      BY DEF EventsOf
    <2>3. db_ev'[rt] = db_ev[rt] \union RowEvents(rt, {r})
      BY <1>3
    <2> QED
      BY <1>5, <2>1, <2>2, <2>3
  <1>8. ASSUME NEW rt \in Rts
        PROVE  db_msp'[rt] \union RowMsps(rt, late')
                     \subseteq db_msp[rt] \union RowMsps(rt, late)
    <2>1. db_msp'[rt] \subseteq db_msp[rt] \union RowMsps(rt, {r})
      BY <1>3
    <2> QED
      BY <1>6, <2>1
  <1>9. \A rt \in Rts : db_ev[rt] \subseteq db_ev'[rt]
    BY <1>3
  <1> QED
    BY <1>1, <1>3, <1>4, <1>7, <1>8, <1>9
-----------------------------------------------------------------------------
(* A store: its history lies before the clock, and before the newest value *)
(* of its writer if there is one.                                          *)
StoreHist(rt) ==
    /\ Hist(rt, MspsOf(rt), EventsOf(rt))
    /\ nlost = 0 => Begun(MspsOf(rt), EventsOf(rt))
StoreOK(rt) ==
    /\ settled[rt] \subseteq Msps
    /\ StoreHist(rt)
    /\ WState(rt, MspsOf(rt), writer[rt])
    /\ HistUpTo(MspsOf(rt), EventsOf(rt), now)
    /\ Newest # 0 => HistUpTo(MspsOf(rt), EventsOf(rt), Newest)

Counted ==
    /\ nwriters \in Nat /\ (open => nwriters >= 1)
    /\ nwriters = 0 => nlost = 0 /\ late = {}

HInv ==
    /\ Finite
    /\ now \in Ts /\ last_insert_ts \in Ts \union {0} /\ open \in BOOLEAN
    /\ \A rt \in Rts : StoreOK(rt)
    /\ Counted

AreRows(all, rts, wr, ts) ==
    \A r : r \in all <=> \E q \in rts : r \in SeriesRows(q, wr[q], ts)

LEMMA SeriesRowFacts ==
    ASSUME NEW rts \in SUBSET Rts, NEW ts \in Nat, NEW t \in Nat, NEW rt \in Rts,
           NEW wr, wr[rt] \in States, NEW m, m = Split(rt, wr[rt], ts, t).msp,
           NEW all, AreRows(all, rts, wr, ts)
    PROVE  /\ rt \in rts => /\ RowEvents(rt, all) = {<<m, ts>>}
                            /\ RowMsps(rt, all) \subseteq {m} \union ({wr[rt].msp} \ {NoMsp})
           /\ rt \notin rts => RowEvents(rt, all) = {} /\ RowMsps(rt, all) = {}
  <1> DEFINE rows == all
  <1>1. m = Split(rt, wr[rt], ts, t).msp
    OBVIOUS
  <1>2. m = IF Rollover(wr[rt], ts) THEN GridMsp(ts) ELSE wr[rt].msp
    BY <1>1, SplitFacts
  <1>3. \A q, x, y : /\ MspRow(q, x).k = "Msp" /\ MspRow(q, x).ks = q /\ MspRow(q, x).msp = x
                     /\ EventRow(q, x, y).k = "Insert" /\ EventRow(q, x, y).ks = q
                     /\ EventRow(q, x, y).msp = x /\ EventRow(q, x, y).ts = y
    BY DEF MspRow, EventRow
  <1>4. \A q : \A r \in SeriesRows(q, wr[q], ts) : r.ks = q
    BY <1>3 DEF SeriesRows, Puts
  <1>5. \A r \in rows : r.ks = rt => rt \in rts /\ r \in SeriesRows(rt, wr[rt], ts)
    BY <1>4 DEF AreRows
  <1>6. rt \in rts => \A r \in SeriesRows(rt, wr[rt], ts) : r \in rows
    BY DEF AreRows
  <1> HIDE DEF rows
  <1>7. ASSUME NEW r \in SeriesRows(rt, wr[rt], ts)
        PROVE  /\ r.k = "Insert" => r.msp = m /\ r.ts = ts
               /\ r.msp = m \/ (r.msp = wr[rt].msp /\ r.msp # NoMsp)
    <2>1. CASE r = EventRow(rt, IF Rollover(wr[rt], ts) THEN GridMsp(ts) ELSE wr[rt].msp, ts)
      BY <1>2, <1>3, <2>1
    <2>2. CASE r \in Puts(rt, wr[rt], ts)
      <3>1. Rollover(wr[rt], ts) /\ (r = MspRow(rt, GridMsp(ts))
                      \/ (wr[rt].msp # NoMsp /\ r = MspRow(rt, wr[rt].msp)))
        BY <2>2 DEF Puts
      <3>2. r.k = "Msp" /\ (r.msp = m \/ (r.msp = wr[rt].msp /\ r.msp # NoMsp))
        BY <1>2, <1>3, <3>1
      <3> QED
        BY <3>2
    <2> QED
      BY <2>1, <2>2 DEF SeriesRows
  <1>8. PICK ev : ev = EventRow(rt, m, ts)
    OBVIOUS
  <1>9. ev \in SeriesRows(rt, wr[rt], ts) /\ ev.k = "Insert" /\ ev.ks = rt /\ ev.msp = m
        /\ ev.ts = ts
    BY <1>2, <1>3, <1>8 DEF SeriesRows
  <1>10. ASSUME rt \in rts
         PROVE  /\ RowEvents(rt, rows) = {<<m, ts>>}
                /\ RowMsps(rt, rows) \subseteq {m} \union ({wr[rt].msp} \ {NoMsp})
    <2>1. RowEvents(rt, rows) \subseteq {<<m, ts>>}
      BY <1>5, <1>7 DEF RowEvents
    <2>2. <<m, ts>> \in RowEvents(rt, rows)
      <3>1. ev \in {q \in rows : q.k = "Insert" /\ q.ks = rt}
        BY <1>6, <1>9, <1>10
      <3> QED
        BY <1>9, <3>1 DEF RowEvents
    <2>3. RowMsps(rt, rows) \subseteq {m} \union ({wr[rt].msp} \ {NoMsp})
      BY <1>5, <1>7 DEF RowMsps
    <2> QED
      BY <2>1, <2>2, <2>3
  <1>11. ASSUME rt \notin rts PROVE RowEvents(rt, rows) = {} /\ RowMsps(rt, rows) = {}
    BY <1>5, <1>11 DEF RowEvents, RowMsps
  <1> QED
    BY <1>10, <1>11 DEF rows

(* A store that takes the value of time n in partition m.                  *)
LEMMA TakesValue ==
    ASSUME NEW rt \in Rts, NEW n \in Ts, n >= 1, NEW m, StoreHist(rt),
           HistUpTo(MspsOf(rt), EventsOf(rt), n), Fits(rt, MspsOf(rt), m, n),
           EventsOf(rt) \subseteq EventsOf(rt)',
           EventsOf(rt)' \subseteq EventsOf(rt) \union {<<m, n>>},
           nlost' = 0 => nlost = 0 /\ <<m, n>> \in EventsOf(rt)',
           db_msp'[rt] \union RowMsps(rt, late')
             \subseteq db_msp[rt] \union RowMsps(rt, late) \union {m}
               \union ({writer[rt].msp} \ {NoMsp}),
           writer'[rt].msp \in {writer[rt].msp, m, NoMsp}
    PROVE  /\ StoreHist(rt)' /\ HistUpTo(MspsOf(rt)', EventsOf(rt)', n)
           /\ MspsOf(rt)' \subseteq MspsOf(rt) \union {m}
  <1>1. PICK M : M = MspsOf(rt)
    OBVIOUS
  <1>2. PICK E : E = EventsOf(rt)
    OBVIOUS
  <1>3. PICK M2 : M2 = MspsOf(rt)'
    OBVIOUS
  <1>4. PICK E2 : E2 = EventsOf(rt)'
    OBVIOUS
  <1>5. M = db_msp[rt] \union RowMsps(rt, late) \union {e[1] : e \in E}
              \union ({writer[rt].msp} \ {NoMsp})
    BY <1>1, <1>2 DEF MspsOf
  <1>6. M2 = db_msp'[rt] \union RowMsps(rt, late') \union {e[1] : e \in E2}
              \union ({writer'[rt].msp} \ {NoMsp})
    BY <1>3, <1>4 DEF MspsOf
  <1>7. \A e \in E2 : e \in E \/ (e = <<m, n>> /\ e[1] = m)
    BY <1>2, <1>4
  <1>8. M2 \subseteq M \union {m}
    <2>1. ASSUME NEW x \in M2 PROVE x \in M \/ x = m
      <3>1. CASE x \in db_msp'[rt] \union RowMsps(rt, late')
        BY <1>5, <3>1
      <3>2. CASE \E e \in E2 : x = e[1]
        BY <1>5, <1>7, <3>2
      <3>3. CASE x = writer'[rt].msp /\ x # NoMsp
        BY <1>5, <3>3
      <3> QED
        BY <1>6, <3>1, <3>2, <3>3
    <2> QED
      BY <2>1
  <1>9. \A e \in E2 : e[1] \in M2
    BY <1>6
  <1>10. /\ Hist(rt, M, E) /\ HistUpTo(M, E, n) /\ Fits(rt, M, m, n)
         /\ nlost = 0 => Begun(M, E)
    BY <1>1, <1>2 DEF StoreHist
  <1>11. /\ E \subseteq E2 /\ E2 \subseteq E \union {<<m, n>>}
         /\ nlost' = 0 => nlost = 0 /\ <<m, n>> \in E2
    BY <1>2, <1>4
  <1>12. /\ Hist(rt, M2, E2) /\ HistUpTo(M2, E2, n)
         /\ E \subseteq E2 /\ <<m, n>> \in E2 /\ Begun(M, E) => Begun(M2, E2)
    BY <1>8, <1>9, <1>10, <1>11, HistStep
  <1>13. nlost' = 0 => Begun(M2, E2)
    BY <1>10, <1>11, <1>12
  <1>14. StoreHist(rt)'
    BY <1>3, <1>4, <1>12, <1>13 DEF StoreHist
  <1> QED
    BY <1>1, <1>3, <1>4, <1>8, <1>12, <1>14

(* A store that takes none.                                                *)
LEMMA TakesNone ==
    ASSUME NEW rt \in Rts, StoreHist(rt), EventsOf(rt)' = EventsOf(rt),
           nlost' = 0 => nlost = 0,
           db_msp'[rt] \union RowMsps(rt, late') \subseteq MspsOf(rt),
           writer'[rt].msp \in {writer[rt].msp, NoMsp}
    PROVE  /\ StoreHist(rt)' /\ MspsOf(rt)' \subseteq MspsOf(rt)
           /\ \A n : HistUpTo(MspsOf(rt), EventsOf(rt), n)
                       => HistUpTo(MspsOf(rt)', EventsOf(rt)', n)
  <1>1. PICK M : M = MspsOf(rt)
    OBVIOUS
  <1>2. PICK E : E = EventsOf(rt)
    OBVIOUS
  <1>3. PICK M2 : M2 = MspsOf(rt)'
    OBVIOUS
  <1>5. M = db_msp[rt] \union RowMsps(rt, late) \union {e[1] : e \in E}
              \union ({writer[rt].msp} \ {NoMsp})
    BY <1>1, <1>2 DEF MspsOf
  <1>6. M2 = db_msp'[rt] \union RowMsps(rt, late') \union {e[1] : e \in E}
              \union ({writer'[rt].msp} \ {NoMsp})
    BY <1>2, <1>3 DEF MspsOf
  <1>7. M2 \subseteq M
    <2>1. db_msp'[rt] \union RowMsps(rt, late') \subseteq M
      BY <1>1
    <2> QED
      BY <1>5, <1>6, <2>1
  <1>8. \A e \in E : e[1] \in M2
    BY <1>6
  <1>9. Hist(rt, M, E) /\ (nlost = 0 => Begun(M, E))
    BY <1>1, <1>2 DEF StoreHist
  <1>10. /\ Hist(rt, M2, E)
         /\ \A n : HistUpTo(M, E, n) => HistUpTo(M2, E, n)
         /\ Begun(M, E) => Begun(M2, E)
    BY <1>7, <1>8, <1>9, HistLess
  <1>11. StoreHist(rt)'
    BY <1>2, <1>3, <1>9, <1>10 DEF StoreHist
  <1> QED
    BY <1>1, <1>2, <1>3, <1>7, <1>10, <1>11
-----------------------------------------------------------------------------
(* The stores in rts take a value of time ts.                              *)
LEMMA WriteToHist ==
    ASSUME IInv, HInv, NEW rts \in SUBSET Rts, NEW ts \in Nat, NEW t \in Nat,
           WriteTo(rts, ts, t),
           rts # {} => /\ ts \in Ts /\ ts >= 1
                       /\ \A rt \in Rts : /\ writer[rt].ts <= ts
                                          /\ HistUpTo(MspsOf(rt), EventsOf(rt), ts)
    PROVE  /\ Finite' /\ nlost' \in Nat
           /\ \A rt \in Rts :
                /\ settled'[rt] \subseteq Msps
                /\ StoreHist(rt)'
                /\ WState(rt, MspsOf(rt)', writer'[rt])
                /\ \A n \in Nat : n >= ts /\ HistUpTo(MspsOf(rt), EventsOf(rt), n)
                     => HistUpTo(MspsOf(rt)', EventsOf(rt)', n)
  <1>1. PICK rows : rows = UNION {SeriesRows(rt, writer[rt], ts) : rt \in rts}
    OBVIOUS
  <1>2. /\ writer' = [rt \in Rts |-> IF rt \in rts THEN Split(rt, writer[rt], ts, t)
                                     ELSE writer[rt]]
        /\ settled' = [rt \in Rts |-> IF rt \in rts
                           THEN settled[rt] \union Retired(rt, writer[rt], ts)
                           ELSE settled[rt]]
        /\ Insert(rows)
    BY <1>1 DEF WriteTo
  <1>3. IsFiniteSet(rows)
    BY <1>1, WriteRowsFinite
  <1>4. nlost \in Nat /\ Finite /\ \A rt \in Rts : writer[rt] \in States /\ StoreOK(rt)
    BY DEF IInv, WriterTypes, HInv
  <1>5. /\ Finite' /\ nlost' \in Nat /\ (nlost' = 0 => nlost = 0)
        /\ \A rt \in Rts :
                /\ EventsOf(rt) \subseteq EventsOf(rt)'
                /\ EventsOf(rt)' \subseteq EventsOf(rt) \union RowEvents(rt, rows)
                /\ nlost' = 0 => RowEvents(rt, rows) \subseteq EventsOf(rt)'
                /\ db_msp'[rt] \union RowMsps(rt, late')
                     \subseteq db_msp[rt] \union RowMsps(rt, late) \union RowMsps(rt, rows)
    BY <1>2, <1>3, <1>4, InsertAdds
  <1>6. ASSUME NEW rt \in Rts
        PROVE  /\ settled'[rt] \subseteq Msps
               /\ StoreHist(rt)'
               /\ WState(rt, MspsOf(rt)', writer'[rt])
               /\ \A n \in Nat : n >= ts /\ HistUpTo(MspsOf(rt), EventsOf(rt), n)
                     => HistUpTo(MspsOf(rt)', EventsOf(rt)', n)
    <2>1. /\ settled[rt] \subseteq Msps /\ StoreHist(rt)
          /\ WState(rt, MspsOf(rt), writer[rt]) /\ MspsOf(rt) \subseteq Msps
          /\ Hist(rt, MspsOf(rt), EventsOf(rt))
      BY <1>4 DEF StoreOK, StoreHist, Hist
    <2>2. CASE rt \in rts
      <3>1. PICK m : m = Split(rt, writer[rt], ts, t).msp
        OBVIOUS
      <3>2. ts \in Ts /\ ts >= 1 /\ writer[rt].ts <= ts
            /\ HistUpTo(MspsOf(rt), EventsOf(rt), ts)
        BY <2>2
      <3>3. /\ Fits(rt, MspsOf(rt), m, ts) /\ m # NoMsp
            /\ \A M2 : M2 \subseteq MspsOf(rt) \union {m} /\ m \in M2
                => WState(rt, M2, Split(rt, writer[rt], ts, t))
        BY <2>1, <3>1, <3>2, SplitFits
      <3>4. /\ RowEvents(rt, rows) = {<<m, ts>>}
            /\ RowMsps(rt, rows) \subseteq {m} \union ({writer[rt].msp} \ {NoMsp})
        <4>1. PICK wr : wr = writer
          OBVIOUS
        <4>2. wr[rt] \in States
          BY <1>4, <4>1
        <4>4. m = Split(rt, wr[rt], ts, t).msp
          BY <3>1, <4>1
        <4>5. AreRows(rows, rts, wr, ts)
          BY <1>1, <4>1 DEF AreRows
        <4>6. rt \in rts =>
              /\ RowEvents(rt, rows) = {<<m, ts>>}
              /\ RowMsps(rt, rows) \subseteq {m} \union ({wr[rt].msp} \ {NoMsp})
          BY ONLY <4>2, <4>4, <4>5, SeriesRowFacts, rt \in Rts, rts \in SUBSET Rts, ts \in Nat, t \in Nat
        <4>3. /\ RowEvents(rt, rows) = {<<m, ts>>}
              /\ RowMsps(rt, rows) \subseteq {m} \union ({wr[rt].msp} \ {NoMsp})
          BY <2>2, <4>6
        <4> QED
          BY <4>1, <4>3
      <3>5. writer'[rt] = Split(rt, writer[rt], ts, t) /\ writer'[rt].msp = m
        BY <1>2, <2>2, <3>1
      <3>6. /\ StoreHist(rt)' /\ HistUpTo(MspsOf(rt)', EventsOf(rt)', ts)
            /\ MspsOf(rt)' \subseteq MspsOf(rt) \union {m}
        <4>1. /\ EventsOf(rt) \subseteq EventsOf(rt)'
              /\ EventsOf(rt)' \subseteq EventsOf(rt) \union {<<m, ts>>}
              /\ nlost' = 0 => nlost = 0 /\ <<m, ts>> \in EventsOf(rt)'
          BY <1>5, <3>4
        <4>2. db_msp'[rt] \union RowMsps(rt, late')
             \subseteq db_msp[rt] \union RowMsps(rt, late) \union {m}
               \union ({writer[rt].msp} \ {NoMsp})
          <5>1. db_msp'[rt] \union RowMsps(rt, late')
                  \subseteq db_msp[rt] \union RowMsps(rt, late) \union RowMsps(rt, rows)
            BY <1>5
          <5> QED
            BY <3>4, <5>1
        <4> QED
          BY <2>1, <3>2, <3>3, <3>5, <4>1, <4>2, TakesValue
      <3>7. m \in MspsOf(rt)'
        BY <3>3, <3>5 DEF MspsOf
      <3>8. WState(rt, MspsOf(rt)', writer'[rt])
        BY <3>3, <3>5, <3>6, <3>7
      <3>9. settled'[rt] \subseteq Msps
        <4>1. settled'[rt] = settled[rt] \union Retired(rt, writer[rt], ts)
          BY <1>2, <2>2
        <4>2. \A x \in Retired(rt, writer[rt], ts) : x = writer[rt].msp /\ x # NoMsp
          BY DEF Retired
        <4>3. writer[rt].msp # NoMsp => writer[rt].msp \in MspsOf(rt)
          BY DEF MspsOf
        <4> QED
          BY <2>1, <4>1, <4>2, <4>3
      <3>10. ASSUME NEW n \in Nat, n >= ts PROVE HistUpTo(MspsOf(rt)', EventsOf(rt)', n)
        <4>1. Hist(rt, MspsOf(rt)', EventsOf(rt)')
          BY <3>6 DEF StoreHist
        <4>2. ts <= n
          BY <3>10
        <4> QED
          BY <3>6, <4>1, <4>2, HistUpToLater
      <3> QED
        BY <3>6, <3>8, <3>9, <3>10
    <2>3. CASE rt \notin rts
      <3>1. RowEvents(rt, rows) = {} /\ RowMsps(rt, rows) = {}
        <4>1. PICK wr : wr = writer
          OBVIOUS
        <4>2. PICK m : m = Split(rt, wr[rt], ts, t).msp
          OBVIOUS
        <4>3. /\ wr[rt] \in States
              /\ AreRows(rows, rts, wr, ts)
          BY <1>1, <1>4, <4>1 DEF AreRows
        <4> QED
          BY <2>3, <4>2, <4>3, SeriesRowFacts
      <3>2. writer'[rt] = writer[rt] /\ settled'[rt] = settled[rt]
        BY <1>2, <2>3
      <3>3. EventsOf(rt)' = EventsOf(rt)
        BY <1>5, <3>1
      <3>4. db_msp'[rt] \union RowMsps(rt, late') \subseteq MspsOf(rt)
        <4>1. db_msp'[rt] \union RowMsps(rt, late')
                  \subseteq db_msp[rt] \union RowMsps(rt, late)
          BY <1>5, <3>1
        <4> QED
          BY <4>1 DEF MspsOf
      <3>5. /\ StoreHist(rt)' /\ MspsOf(rt)' \subseteq MspsOf(rt)
            /\ \A n : HistUpTo(MspsOf(rt), EventsOf(rt), n)
                       => HistUpTo(MspsOf(rt)', EventsOf(rt)', n)
        BY <1>5, <2>1, <3>2, <3>3, <3>4, TakesNone
      <3>6. writer[rt].msp # NoMsp => writer[rt].msp \in MspsOf(rt)'
        BY <3>2 DEF MspsOf
      <3>7. WState(rt, MspsOf(rt)', writer'[rt])
        BY <2>1, <3>2, <3>5, <3>6 DEF WState
      <3> QED
        BY <2>1, <3>2, <3>5, <3>7
    <2> QED
      BY <2>2, <2>3
  <1> QED
    BY <1>5, <1>6

LEMMA WriteHist ==
    ASSUME IInv, IInv', HInv, NEW ts \in Ts, Write(ts)
    PROVE  HInv'
  <1>1. PICK rts \in SUBSET Rts : rts = {rt \in Rts : Accepts(rt, writer[rt], ts)}
    OBVIOUS
  <1>2. /\ now' = ts /\ ts >= now /\ rts # {} /\ WriteTo(rts, ts, ts)
        /\ ts > last_insert_ts /\ last_insert_ts' = ts
        /\ open /\ open' = open /\ nwriters' = nwriters
    BY <1>1 DEF Write
  <1>3. /\ ts \in Nat /\ now \in Nat /\ last_insert_ts \in Nat
        /\ \A rt \in Rts : writer[rt] \in States /\ writer[rt].ts \in Nat
                           /\ writer[rt].ts <= now
    BY TimeAssumption DEF IInv, WriterTypes, States, HInv
  <1>4. ts >= 1 /\ \A rt \in Rts : writer[rt].ts <= ts
    BY <1>2, <1>3
  <1>5. \A rt \in Rts : HistUpTo(MspsOf(rt), EventsOf(rt), ts)
    <2>1. \A rt \in Rts : Hist(rt, MspsOf(rt), EventsOf(rt))
                          /\ HistUpTo(MspsOf(rt), EventsOf(rt), now)
      BY DEF HInv, StoreOK, StoreHist
    <2>2. now <= ts
      BY <1>2, <1>3
    <2> QED
      BY <1>3, <2>1, <2>2, HistUpToLater
  <1>6. /\ Finite' /\ nlost' \in Nat
        /\ \A rt \in Rts :
                /\ settled'[rt] \subseteq Msps
                /\ StoreHist(rt)'
                /\ WState(rt, MspsOf(rt)', writer'[rt])
                /\ \A n \in Nat : n >= ts /\ HistUpTo(MspsOf(rt), EventsOf(rt), n)
                     => HistUpTo(MspsOf(rt)', EventsOf(rt)', n)
    BY <1>2, <1>3, <1>4, <1>5, WriteToHist
  <1>7. \A rt \in Rts : HistUpTo(MspsOf(rt)', EventsOf(rt)', ts)
    <2>1. ts >= ts
      BY <1>3
    <2> QED
      BY <1>3, <1>5, <1>6, <2>1
  <1>8. Newest' = ts
    <2>1. \A rt \in Rts : writer'[rt].ts = IF rt \in rts THEN ts ELSE writer[rt].ts
      BY <1>2, <1>3, SplitFacts DEF WriteTo
    <2>2. \A rt \in Rts : writer'[rt].ts <= ts
      BY <1>3, <1>4, <2>1
    <2>3. \E rt \in Rts : writer'[rt].ts = ts
      BY <1>2, <2>1
    <2> QED
      BY <1>3, <2>2, <2>3, NewestAfter DEF IInv
  <1>9. \A rt \in Rts : StoreOK(rt)'
    BY <1>2, <1>6, <1>7, <1>8 DEF StoreOK
  <1>10. Counted'
    BY <1>2 DEF HInv, Counted
  <1> QED
    BY <1>2, <1>6, <1>9, <1>10 DEF HInv

LEMMA TickHist ==
    ASSUME IInv, IInv', HInv, NEW t \in Ts, Tick(t)
    PROVE  HInv'
  <1>1. PICK rts \in SUBSET Rts : rts = ReputTo(t)
    BY DEF ReputTo, Rts
  <1>2. /\ Newest \in Nat /\ Newest <= now
        /\ \A rt \in Rts : writer[rt].ts <= Newest
        /\ \E rt \in Rts : writer[rt].ts = Newest
    BY NewestFacts DEF IInv
  <1>3. PICK ts \in Nat : ts = Newest
    BY <1>2
  <1>4. /\ now' = t /\ t >= now /\ WriteTo(rts, ts, t)
        /\ last_insert_ts' = last_insert_ts
        /\ open /\ open' = open /\ nwriters' = nwriters
    BY <1>1, <1>3 DEF Tick
  <1>5. /\ t \in Nat /\ now \in Nat
        /\ \A rt \in Rts : writer[rt] \in States /\ writer[rt].ts \in Nat
    BY TimeAssumption DEF IInv, WriterTypes, States
  <1>6. ts # 0 => /\ ts \in Ts /\ ts >= 1
                  /\ \A rt \in Rts : /\ writer[rt].ts <= ts
                                     /\ HistUpTo(MspsOf(rt), EventsOf(rt), ts)
    <2>1. \A rt \in Rts : writer[rt].ts \in Ts \union {0}
      BY DEF HInv, StoreOK, WState
    <2>2. ts # 0 => ts \in Ts
      BY <1>2, <1>3, <2>1
    <2>3. Newest # 0 => \A rt \in Rts : HistUpTo(MspsOf(rt), EventsOf(rt), Newest)
      BY DEF HInv, StoreOK
    <2> QED
      BY <1>2, <1>3, <2>2, <2>3
  <1>7. rts # {} => ts # 0
    BY <1>1, <1>3 DEF ReputTo
  <1>8. /\ Finite' /\ nlost' \in Nat
        /\ \A rt \in Rts :
                /\ settled'[rt] \subseteq Msps
                /\ StoreHist(rt)'
                /\ WState(rt, MspsOf(rt)', writer'[rt])
                /\ \A n \in Nat : n >= ts /\ HistUpTo(MspsOf(rt), EventsOf(rt), n)
                     => HistUpTo(MspsOf(rt)', EventsOf(rt)', n)
    BY <1>4, <1>5, <1>6, <1>7, WriteToHist
  <1>9. Newest' = ts
    <2>1. \A rt \in Rts : writer'[rt].ts = IF rt \in rts THEN ts ELSE writer[rt].ts
      BY <1>4, <1>5, SplitFacts DEF WriteTo
    <2>2. (\A rt \in Rts : writer'[rt].ts <= ts) /\ \E rt \in Rts : writer'[rt].ts = ts
      BY <1>2, <1>3, <1>5, <2>1
    <2> QED
      BY <1>3, <2>2, NewestAfter DEF IInv
  <1>10. \A rt \in Rts : HistUpTo(MspsOf(rt)', EventsOf(rt)', t)
    <2>1. \A rt \in Rts : Hist(rt, MspsOf(rt), EventsOf(rt))
                          /\ HistUpTo(MspsOf(rt), EventsOf(rt), now)
      BY DEF HInv, StoreOK, StoreHist
    <2>2. now <= t /\ t >= ts
      BY <1>2, <1>3, <1>4, <1>5
    <2>3. \A rt \in Rts : HistUpTo(MspsOf(rt), EventsOf(rt), t)
      BY <1>5, <2>1, <2>2, HistUpToLater
    <2> QED
      BY <1>5, <1>8, <2>2, <2>3
  <1>11. ts # 0 => \A rt \in Rts : HistUpTo(MspsOf(rt)', EventsOf(rt)', ts)
    <2>1. ts >= ts
      BY <1>3
    <2> QED
      BY <1>6, <1>8, <2>1
  <1>12. \A rt \in Rts : StoreOK(rt)'
    BY <1>4, <1>8, <1>9, <1>10, <1>11 DEF StoreOK
  <1>13. Counted'
    BY <1>4 DEF HInv, Counted
  <1> QED
    BY <1>4, <1>8, <1>12, <1>13 DEF HInv

(* A step that begins no partition and writes no event.                    *)
LEMMA SameHist ==
    ASSUME IInv, IInv', HInv, Finite',
           UNCHANGED now, last_insert_ts' \in Ts \union {0}, open' \in BOOLEAN,
           nlost' = 0 => nlost = 0,
           \A rt \in Rts :
              /\ settled'[rt] = settled[rt]
              /\ EventsOf(rt)' = EventsOf(rt)
              /\ db_msp'[rt] \union RowMsps(rt, late') \subseteq MspsOf(rt),
           \/ \A rt \in Rts : writer'[rt] = NoState
           \/ \A rt \in Rts : \/ writer'[rt] = writer[rt]
                              \/ writer'[rt] = Reput(writer[rt])
    PROVE  \A rt \in Rts : StoreOK(rt)'
  <1>1. NoState \in States /\ NoState.msp = NoMsp /\ NoState.ts = 0 /\ NoState.count = 0
        /\ NoState.put = 0
    BY DEF NoState, State, States, NoMsp
  <1>2. now \in Nat /\ CountMax \in Nat
    BY WriterAssumption DEF IInv, WriterTypes
  <1>3. ASSUME NEW rt \in Rts
        PROVE  /\ Reput(writer[rt]) \in States
               /\ Reput(writer[rt]).ts = writer[rt].ts
               /\ Reput(writer[rt]).msp = writer[rt].msp
               /\ Reput(writer[rt]).count = writer[rt].count
               /\ Reput(writer[rt]).rollover_at = writer[rt].rollover_at
               /\ Reput(writer[rt]).put = writer[rt].ts
               /\ writer[rt].ts \in Nat
    <2>1. writer[rt] \in States
      BY DEF IInv, WriterTypes
    <2> QED
      BY <1>2, <2>1 DEF Reput, States
  <1>4. Newest' = Newest \/ Newest' = 0
    <2>1. CASE \A rt \in Rts : writer'[rt] = NoState
      <3>1. "lt" \in Rts
        BY DEF Rts
      <3>2. (\A rt \in Rts : writer'[rt].ts <= 0) /\ \E rt \in Rts : writer'[rt].ts = 0
        BY <1>1, <2>1, <3>1
      <3> QED
        BY <3>2, NewestAfter DEF IInv
    <2>2. CASE \A rt \in Rts : writer'[rt] = writer[rt] \/ writer'[rt] = Reput(writer[rt])
      <3>1. \A rt \in Rts : writer'[rt].ts = writer[rt].ts
        BY <1>3, <2>2
      <3>2. /\ Newest \in Nat
            /\ \A rt \in Rts : writer[rt].ts <= Newest
            /\ \E rt \in Rts : writer[rt].ts = Newest
        BY NewestFacts DEF IInv
      <3> QED
        BY <3>1, <3>2, NewestAfter DEF IInv
    <2> QED
      BY <2>1, <2>2
  <1> SUFFICES ASSUME NEW rt \in Rts PROVE StoreOK(rt)'
    OBVIOUS
  <1>5. StoreOK(rt)
    BY DEF HInv
  <1>6. writer'[rt].msp \in {writer[rt].msp, NoMsp}
    BY <1>1, <1>3
  <1>7. /\ StoreHist(rt)' /\ MspsOf(rt)' \subseteq MspsOf(rt)
        /\ \A n : HistUpTo(MspsOf(rt), EventsOf(rt), n)
                       => HistUpTo(MspsOf(rt)', EventsOf(rt)', n)
    BY <1>5, <1>6, TakesNone DEF StoreOK
  <1>8. WState(rt, MspsOf(rt)', writer'[rt])
    <2>1. writer'[rt].msp # NoMsp => writer'[rt].msp \in MspsOf(rt)'
      BY DEF MspsOf
    <2>2. WState(rt, MspsOf(rt), writer[rt])
      BY <1>5 DEF StoreOK
    <2>3. CASE writer'[rt] = NoState
      <3>1. 0 \in 0..CountMax /\ 0 <= 0
        BY <1>2
      <3> QED
        BY <1>1, <2>3, <3>1 DEF WState
    <2>4. CASE writer'[rt] = writer[rt]
      BY <1>7, <2>1, <2>2, <2>4 DEF WState
    <2>5. CASE writer'[rt] = Reput(writer[rt])
      <3>1. writer[rt].ts <= writer[rt].ts
        BY <1>3
      <3> QED
        BY <1>3, <1>7, <2>1, <2>2, <2>5, <3>1 DEF WState
    <2> QED
      BY <2>3, <2>4, <2>5
  <1> QED
    BY <1>4, <1>5, <1>7, <1>8 DEF StoreOK

LEMMA LateHist ==
    ASSUME IInv, IInv', HInv, LateInsert, UNCHANGED writerVars
    PROVE  HInv'
  <1>1. nlost \in Nat /\ Finite
    BY DEF IInv, WriterTypes, HInv
  <1>2. /\ Finite' /\ nlost' = nlost
        /\ \A rt \in Rts :
                /\ EventsOf(rt)' = EventsOf(rt)
                /\ db_msp'[rt] \union RowMsps(rt, late')
                     \subseteq db_msp[rt] \union RowMsps(rt, late)
    BY <1>1, LateAdds
  <1>3. \A rt \in Rts : db_msp'[rt] \union RowMsps(rt, late') \subseteq MspsOf(rt)
    BY <1>2 DEF MspsOf
  <1>4. /\ now' = now /\ last_insert_ts' = last_insert_ts /\ open' = open
        /\ settled' = settled /\ writer' = writer /\ nwriters' = nwriters
    BY DEF writerVars
  <1>5. now \in Ts /\ last_insert_ts \in Ts \union {0} /\ open \in BOOLEAN /\ Counted
    BY DEF HInv
  <1>6. \A rt \in Rts : StoreOK(rt)'
    BY <1>2, <1>3, <1>4, <1>5, SameHist
  <1>7. Counted'
    <2>1. nwriters # 0
      BY <1>5 DEF LateInsert, Counted
    <2> QED
      BY <1>4, <1>5, <2>1 DEF Counted
  <1> QED
    BY <1>2, <1>4, <1>5, <1>6, <1>7 DEF HInv
-----------------------------------------------------------------------------
(* Rows that only name partitions.                                         *)
MspOnly(rows, msp) ==
    \A r \in rows : r.k = "Msp" /\ (r.ks \in Rts => r.msp = msp[r.ks] /\ r.msp # NoMsp)

LEMMA MspOnlyRows ==
    ASSUME NEW rows, NEW msp, MspOnly(rows, msp), NEW rt \in Rts
    PROVE  RowEvents(rt, rows) = {} /\ RowMsps(rt, rows) \subseteq {msp[rt]} \ {NoMsp}
  BY DEF MspOnly, RowEvents, RowMsps

LEMMA RowsUnion ==
    ASSUME NEW a, NEW b, NEW rt
    PROVE  /\ RowEvents(rt, a \union b) = RowEvents(rt, a) \union RowEvents(rt, b)
           /\ RowMsps(rt, a \union b) = RowMsps(rt, a) \union RowMsps(rt, b)
  BY DEF RowEvents, RowMsps

LEMMA HousekeepingHist ==
    ASSUME IInv, IInv', HInv, Housekeeping
    PROVE  HInv'
  <1>1. PICK due_rts \in SUBSET Rts : due_rts = ReputDue
    BY DEF ReputDue
  <1>2. PICK rows : rows = {MspRow(ReputKs(rt), writer[rt].msp) : rt \in due_rts}
    OBVIOUS
  <1>3. /\ writer' = [rt \in Rts |-> IF rt \in due_rts THEN Reput(writer[rt])
                                     ELSE writer[rt]]
        /\ Insert(rows) /\ open
        /\ UNCHANGED <<now, last_insert_ts, open, nwriters, settled>>
    BY <1>1, <1>2 DEF Housekeeping
  <1>4. IsFiniteSet(rows)
    <2>1. PICK F : F = [rt \in Rts |-> {MspRow(ReputKs(rt), writer[rt].msp)}]
      OBVIOUS
    <2>2. \A rt \in Rts : F[rt] = {MspRow(ReputKs(rt), writer[rt].msp)} /\ IsFiniteSet(F[rt])
      BY <2>1, FS_Singleton
    <2>3. IsFiniteSet(UNION {F[rt] : rt \in due_rts})
      BY <2>2, FiniteUnion
    <2>4. UNION {F[rt] : rt \in due_rts} = rows
      BY <1>2, <2>2
    <2> QED
      BY <2>3, <2>4
  <1>5. nlost \in Nat /\ Finite
    BY DEF IInv, WriterTypes, HInv
  <1>6. /\ Finite' /\ nlost' \in Nat /\ (nlost' = 0 => nlost = 0)
        /\ \A rt \in Rts :
                /\ EventsOf(rt) \subseteq EventsOf(rt)'
                /\ EventsOf(rt)' \subseteq EventsOf(rt) \union RowEvents(rt, rows)
                /\ db_msp'[rt] \union RowMsps(rt, late')
                     \subseteq db_msp[rt] \union RowMsps(rt, late) \union RowMsps(rt, rows)
    BY <1>3, <1>4, <1>5, InsertAdds
  <1>7. PICK msp : msp = [rt \in Rts |-> writer[rt].msp]
    OBVIOUS
  <1>8. MspOnly(rows, msp)
    <2>1. \A rt \in due_rts : writer[rt].msp # NoMsp
      BY <1>1 DEF ReputDue
    <2> QED
      BY <1>2, <1>7, <2>1, RowFacts DEF MspOnly, ReputKs, Rts
  <1>9. \A rt \in Rts : RowEvents(rt, rows) = {}
                        /\ RowMsps(rt, rows) \subseteq {msp[rt]} \ {NoMsp}
    BY <1>8, MspOnlyRows
  <1>10. ASSUME NEW rt \in Rts
         PROVE  /\ EventsOf(rt)' = EventsOf(rt)
                /\ db_msp'[rt] \union RowMsps(rt, late') \subseteq MspsOf(rt)
    <2>1. EventsOf(rt)' = EventsOf(rt)
      BY <1>6, <1>9
    <2>2. db_msp'[rt] \union RowMsps(rt, late')
             \subseteq db_msp[rt] \union RowMsps(rt, late) \union ({writer[rt].msp} \ {NoMsp})
      <3>1. db_msp'[rt] \union RowMsps(rt, late')
                     \subseteq db_msp[rt] \union RowMsps(rt, late) \union RowMsps(rt, rows)
        BY <1>6
      <3>2. RowMsps(rt, rows) \subseteq {writer[rt].msp} \ {NoMsp}
        BY <1>7, <1>9
      <3> QED
        BY <3>1, <3>2
    <2> QED
      BY <2>1, <2>2 DEF MspsOf
  <1>11. now \in Ts /\ last_insert_ts \in Ts \union {0} /\ open \in BOOLEAN /\ Counted
    BY DEF HInv
  <1>12. \A rt \in Rts : writer'[rt] = writer[rt] \/ writer'[rt] = Reput(writer[rt])
    BY <1>3
  <1>13. \A rt \in Rts : StoreOK(rt)'
    BY <1>3, <1>6, <1>10, <1>11, <1>12, SameHist
  <1>14. Counted'
    BY <1>3, <1>11 DEF Counted
  <1> QED
    BY <1>3, <1>6, <1>11, <1>13, <1>14 DEF HInv

LEMMA QuietHist ==
    ASSUME IInv, IInv', HInv, UNCHANGED <<now, settled, dbVars>>,
           last_insert_ts' \in Ts \union {0}, open' \in BOOLEAN, Counted',
           writer' = writer \/ writer' = [rt \in Rts |-> NoState]
    PROVE  HInv'
  <1>1. Finite'
    BY DEF HInv, Finite, dbVars
  <1>2. \A rt \in Rts :
              /\ settled'[rt] = settled[rt]
              /\ EventsOf(rt)' = EventsOf(rt)
              /\ db_msp'[rt] \union RowMsps(rt, late') \subseteq MspsOf(rt)
    BY DEF EventsOf, MspsOf, dbVars
  <1>3. now' = now /\ nlost' = nlost /\ now \in Ts
    BY DEF dbVars, HInv
  <1>4. \/ \A rt \in Rts : writer'[rt] = NoState
        \/ \A rt \in Rts : writer'[rt] = writer[rt] \/ writer'[rt] = Reput(writer[rt])
    OBVIOUS
  <1>5. \A rt \in Rts : StoreOK(rt)'
    BY <1>1, <1>2, <1>3, <1>4, SameHist
  <1> QED
    BY <1>1, <1>3, <1>5 DEF HInv
-----------------------------------------------------------------------------
LEMMA CloseHist ==
    ASSUME IInv, IInv', HInv, Close
    PROVE  HInv'
  <1>1. PICK rts \in SUBSET Rts : rts = ReputTo(now)
    BY DEF ReputTo, Rts
  <1>2. PICK after : after = [rt \in Rts |-> AfterTick(rt)]
    OBVIOUS
  <1>3. /\ Newest \in Nat /\ Newest <= now
        /\ \A rt \in Rts : writer[rt].ts <= Newest
        /\ \E rt \in Rts : writer[rt].ts = Newest
    BY NewestFacts DEF IInv
  <1>4. PICK ts \in Nat : ts = Newest
    BY <1>3
  <1>5. \A rt \in Rts : after[rt] = IF rt \in rts
                     THEN Split(rt, writer[rt], ts, now) ELSE writer[rt]
    BY <1>1, <1>2, <1>4 DEF AfterTick
  <1>6. PICK closed \in SUBSET Rts : closed = {rt \in Rts : after[rt].msp # NoMsp}
    OBVIOUS
  <1>7. closed = WithMsp
    BY <1>2, <1>6 DEF WithMsp
  <1>8. PICK opened : opened = UNION {SeriesRows(rt, writer[rt], ts) : rt \in rts}
    OBVIOUS
  <1>9. PICK again : again = {OnCloseRow(rt, after[rt].msp) : rt \in closed}
    OBVIOUS
  <1>10. Insert(opened \union again)
    <2>1. again = {OnCloseRow(rt, AfterTick(rt).msp) : rt \in WithMsp}
      BY <1>2, <1>7, <1>9 DEF WithMsp
    <2>2. opened = UNION {SeriesRows(rt, writer[rt], Newest) : rt \in ReputTo(now)}
      BY <1>1, <1>4, <1>8
    <2>3. opened \union again = CloseRows
      BY <2>1, <2>2, Zenon DEF CloseRows
    <2> QED
      BY <2>3 DEF Close
  <1>11. /\ writer' = [rt \in Rts |-> NoState] /\ now' = now /\ open /\ open' = FALSE
         /\ last_insert_ts' = 0 /\ nwriters' = nwriters
    BY DEF Close
  <1>12. settled' = [rt \in Rts |-> settled[rt] \union
             (IF rt \in rts THEN Retired(rt, writer[rt], ts) ELSE {}) \union
             (IF rt \in closed \ {"st"} THEN {after[rt].msp} ELSE {})]
    <2>1. settled' = [rt \in Rts |-> settled[rt] \union
             (IF rt \in ReputTo(now) THEN Retired(rt, writer[rt], Newest) ELSE {}) \union
             (IF rt \in WithMsp \ {"st"} THEN {AfterTick(rt).msp} ELSE {})]
      BY DEF Close
    <2> QED
      BY <1>1, <1>2, <1>4, <1>7, <2>1
  <1>13. IsFiniteSet(opened \union again)
    <2>1. IsFiniteSet(opened)
      BY <1>1, <1>8, WriteRowsFinite
    <2>2. PICK F : F = [rt \in Rts |-> {OnCloseRow(rt, after[rt].msp)}]
      OBVIOUS
    <2>3. \A rt \in Rts : F[rt] = {OnCloseRow(rt, after[rt].msp)} /\ IsFiniteSet(F[rt])
      BY <2>2, FS_Singleton
    <2>4. IsFiniteSet(UNION {F[rt] : rt \in closed})
      BY <1>6, <2>3, FiniteUnion
    <2>5. UNION {F[rt] : rt \in closed} = again
      BY <1>6, <1>9, <2>3
    <2> QED
      BY <2>1, <2>4, <2>5, FS_Union
  <1>14. nlost \in Nat /\ Finite /\ now \in Nat /\ now \in Ts
         /\ \A rt \in Rts : writer[rt] \in States /\ StoreOK(rt)
    BY DEF IInv, WriterTypes, HInv
  <1>15. PICK rows : rows = opened \union again
    OBVIOUS
  <1>16. /\ Finite' /\ nlost' \in Nat /\ (nlost' = 0 => nlost = 0)
         /\ \A rt \in Rts :
                /\ EventsOf(rt) \subseteq EventsOf(rt)'
                /\ EventsOf(rt)' \subseteq EventsOf(rt) \union RowEvents(rt, rows)
                /\ nlost' = 0 => RowEvents(rt, rows) \subseteq EventsOf(rt)'
                /\ db_msp'[rt] \union RowMsps(rt, late')
                     \subseteq db_msp[rt] \union RowMsps(rt, late) \union RowMsps(rt, rows)
    BY <1>10, <1>13, <1>14, <1>15, InsertAdds
  <1>17. PICK msp : msp = [rt \in Rts |-> after[rt].msp]
    OBVIOUS
  <1>18. MspOnly(again, msp)
    BY <1>6, <1>9, <1>17, RowFacts DEF MspOnly, ReputKs, Rts
  <1>19. \A rt \in Rts : /\ RowEvents(rt, rows) = RowEvents(rt, opened)
                         /\ RowMsps(rt, rows) \subseteq RowMsps(rt, opened)
                              \union ({after[rt].msp} \ {NoMsp})
    <2>1. \A rt \in Rts : RowEvents(rt, again) = {}
                          /\ RowMsps(rt, again) \subseteq {msp[rt]} \ {NoMsp}
      BY <1>18, MspOnlyRows
    <2>2. \A rt \in Rts :
             /\ RowEvents(rt, rows) = RowEvents(rt, opened) \union RowEvents(rt, again)
             /\ RowMsps(rt, rows) = RowMsps(rt, opened) \union RowMsps(rt, again)
      BY <1>15, RowsUnion
    <2>3. \A rt \in Rts : msp[rt] = after[rt].msp
      BY <1>17
    <2> QED
      BY <2>1, <2>2, <2>3
  <1>20. NoState \in States /\ NoState.msp = NoMsp /\ NoState.ts = 0 /\ NoState.count = 0
         /\ NoState.put = 0
    BY DEF NoState, State, States, NoMsp
  <1>21. Newest' = 0
    <2>1. "lt" \in Rts
      BY DEF Rts
    <2>2. (\A rt \in Rts : writer'[rt].ts <= 0) /\ \E rt \in Rts : writer'[rt].ts = 0
      BY <1>11, <1>20, <2>1
    <2> QED
      BY <2>2, NewestAfter DEF IInv
  <1>22. ASSUME NEW rt \in Rts PROVE StoreOK(rt)'
    <2>1. /\ settled[rt] \subseteq Msps /\ StoreHist(rt)
          /\ WState(rt, MspsOf(rt), writer[rt]) /\ MspsOf(rt) \subseteq Msps
          /\ Hist(rt, MspsOf(rt), EventsOf(rt))
          /\ HistUpTo(MspsOf(rt), EventsOf(rt), now)
          /\ Newest # 0 => HistUpTo(MspsOf(rt), EventsOf(rt), Newest)
      BY <1>14 DEF StoreOK, StoreHist, Hist
    <2>2. writer[rt].msp # NoMsp => writer[rt].msp \in MspsOf(rt)
      BY DEF MspsOf
    <2>3. \A x \in settled'[rt] :
              \/ x \in settled[rt]
              \/ x = writer[rt].msp /\ x # NoMsp
              \/ x = after[rt].msp /\ x # NoMsp
      BY <1>6, <1>12 DEF Retired
    <2>4. WState(rt, MspsOf(rt)', writer'[rt])
      <3>1. 0 \in 0..CountMax /\ 0 <= 0
        BY WriterAssumption
      <3>2. writer'[rt] = NoState
        BY <1>11
      <3> QED
        BY <1>20, <3>1, <3>2 DEF WState
    <2>5. PICK wr : wr = writer
      OBVIOUS
    <2>6. PICK m : m = Split(rt, wr[rt], ts, now).msp
      OBVIOUS
    <2>7. wr[rt] \in States
      BY <1>14, <2>5
    <2>8. AreRows(opened, rts, wr, ts)
      BY <1>8, <2>5 DEF AreRows
    <2>9. /\ rt \in rts => /\ RowEvents(rt, opened) = {<<m, ts>>}
                           /\ RowMsps(rt, opened) \subseteq {m} \union ({wr[rt].msp} \ {NoMsp})
          /\ rt \notin rts => RowEvents(rt, opened) = {} /\ RowMsps(rt, opened) = {}
      <3>1. now \in Nat
        BY <1>14
      <3> QED
        BY ONLY <2>6, <2>7, <2>8, <3>1, SeriesRowFacts, rt \in Rts, rts \in SUBSET Rts, ts \in Nat
    <2>10. CASE rt \in rts
      <3>1. ts # 0 /\ ts \in Ts /\ ts >= 1
        <4>1. ts # 0
          BY <1>1, <1>4, <2>10 DEF ReputTo
        <4>2. \A q \in Rts : writer[q].ts \in Ts \union {0}
          BY <1>14 DEF StoreOK, WState
        <4> QED
          BY <1>3, <1>4, <4>1, <4>2
      <3>2. HistUpTo(MspsOf(rt), EventsOf(rt), ts) /\ writer[rt].ts <= ts
        BY <1>3, <1>4, <2>1, <3>1
      <3>3. m = Split(rt, writer[rt], ts, now).msp /\ after[rt].msp = m
        BY <1>5, <2>5, <2>6, <2>10
      <3>4. /\ Fits(rt, MspsOf(rt), m, ts) /\ m # NoMsp
        BY <1>14, <2>1, <3>1, <3>2, <3>3, SplitFits
      <3>5. /\ EventsOf(rt) \subseteq EventsOf(rt)'
            /\ EventsOf(rt)' \subseteq EventsOf(rt) \union {<<m, ts>>}
            /\ nlost' = 0 => nlost = 0 /\ <<m, ts>> \in EventsOf(rt)'
        BY <1>16, <1>19, <2>9, <2>10
      <3>6. db_msp'[rt] \union RowMsps(rt, late')
             \subseteq db_msp[rt] \union RowMsps(rt, late) \union {m}
               \union ({writer[rt].msp} \ {NoMsp})
        <4>1. RowMsps(rt, rows) \subseteq {m} \union ({writer[rt].msp} \ {NoMsp})
          BY <1>19, <2>5, <2>9, <2>10, <3>3
        <4>2. db_msp'[rt] \union RowMsps(rt, late')
                     \subseteq db_msp[rt] \union RowMsps(rt, late) \union RowMsps(rt, rows)
          BY <1>16
        <4> QED
          BY <4>1, <4>2
      <3>7. writer'[rt].msp = NoMsp
        BY <1>11, <1>20
      <3>8. /\ StoreHist(rt)' /\ HistUpTo(MspsOf(rt)', EventsOf(rt)', ts)
            /\ MspsOf(rt)' \subseteq MspsOf(rt) \union {m}
        BY <2>1, <3>1, <3>2, <3>4, <3>5, <3>6, <3>7, TakesValue
      <3>9. HistUpTo(MspsOf(rt)', EventsOf(rt)', now)
        <4>1. Hist(rt, MspsOf(rt)', EventsOf(rt)')
          BY <3>8 DEF StoreHist
        <4>2. ts <= now
          BY <1>3, <1>4
        <4> QED
          BY <1>14, <3>8, <4>1, <4>2, HistUpToLater
      <3>10. settled'[rt] \subseteq Msps
        <4>1. m \in Msps
          BY <3>4 DEF Fits
        <4> QED
          BY <2>1, <2>2, <2>3, <3>3, <4>1
      <3> QED
        BY <1>11, <1>21, <2>4, <3>8, <3>9, <3>10 DEF StoreOK
    <2>11. CASE rt \notin rts
      <3>1. after[rt].msp = writer[rt].msp
        BY <1>5, <2>11
      <3>2. EventsOf(rt)' = EventsOf(rt)
        BY <1>16, <1>19, <2>9, <2>11
      <3>3. db_msp'[rt] \union RowMsps(rt, late') \subseteq MspsOf(rt)
        <4>1. RowMsps(rt, rows) \subseteq {writer[rt].msp} \ {NoMsp}
          BY <1>19, <2>9, <2>11, <3>1
        <4>2. db_msp'[rt] \union RowMsps(rt, late')
                     \subseteq db_msp[rt] \union RowMsps(rt, late) \union RowMsps(rt, rows)
          BY <1>16
        <4>3. db_msp'[rt] \union RowMsps(rt, late')
                     \subseteq db_msp[rt] \union RowMsps(rt, late) \union ({writer[rt].msp} \ {NoMsp})
          BY <4>1, <4>2
        <4> QED
          BY <4>3 DEF MspsOf
      <3>4. writer'[rt].msp = NoMsp
        BY <1>11, <1>20
      <3>5. /\ StoreHist(rt)' /\ MspsOf(rt)' \subseteq MspsOf(rt)
            /\ \A n : HistUpTo(MspsOf(rt), EventsOf(rt), n)
                       => HistUpTo(MspsOf(rt)', EventsOf(rt)', n)
        BY <1>16, <2>1, <3>2, <3>3, <3>4, TakesNone
      <3>6. settled'[rt] \subseteq Msps
        BY <2>1, <2>2, <2>3, <3>1
      <3> QED
        BY <1>11, <1>21, <2>1, <2>4, <3>5, <3>6 DEF StoreOK
    <2> QED
      BY <2>10, <2>11
  <1>23. Counted'
    BY <1>11 DEF HInv, Counted
  <1> QED
    BY <1>11, <1>14, <1>16, <1>22, <1>23 DEF HInv

LEMMA NextHist == IInv /\ HInv /\ [Next]_vars => HInv'
  <1> SUFFICES ASSUME IInv, HInv, [Next]_vars PROVE HInv'
    OBVIOUS
  <1>0. IInv'
    BY NextInv
  <1>1. CASE UNCHANGED <<dbVars, writerVars>>
    <2>1. /\ UNCHANGED <<now, settled, dbVars>> /\ writer' = writer
          /\ last_insert_ts' = last_insert_ts /\ open' = open /\ nwriters' = nwriters
          /\ nlost' = nlost /\ late' = late
      BY <1>1 DEF writerVars, dbVars
    <2>2. last_insert_ts' \in Ts \union {0} /\ open' \in BOOLEAN /\ Counted'
      BY <2>1 DEF HInv, Counted
    <2> QED
      BY <1>0, <2>1, <2>2, QuietHist
  <1>2. CASE WriterNext
    <2>1. CASE NewWriter
      <3>1. /\ UNCHANGED <<now, settled, dbVars>> /\ writer' = [rt \in Rts |-> NoState]
            /\ last_insert_ts' = 0 /\ open' = TRUE /\ nwriters' = nwriters + 1
        BY <2>1 DEF NewWriter
      <3>2. Counted'
        BY <3>1 DEF HInv, Counted
      <3> QED
        BY <1>0, <3>1, <3>2, QuietHist
    <2>2. CASE DropWriter
      <3>1. /\ UNCHANGED <<now, settled, dbVars>> /\ writer' = [rt \in Rts |-> NoState]
            /\ last_insert_ts' = 0 /\ open' = FALSE /\ nwriters' = nwriters
            /\ nlost' = nlost /\ late' = late
        BY <2>2 DEF DropWriter, dbVars
      <3>2. Counted'
        BY <3>1 DEF HInv, Counted
      <3> QED
        BY <1>0, <3>1, <3>2, QuietHist
    <2>3. CASE Housekeeping
      BY <1>0, <2>3, HousekeepingHist
    <2>4. CASE Close
      BY <1>0, <2>4, CloseHist
    <2>5. CASE LateInsert /\ UNCHANGED writerVars
      BY <1>0, <2>5, LateHist
    <2>6. ASSUME NEW ts \in Ts, Write(ts) PROVE HInv'
      BY <1>0, <2>6, WriteHist
    <2>7. ASSUME NEW ts \in Ts, Tick(ts) PROVE HInv'
      BY <1>0, <2>7, TickHist
    <2> QED
      BY <1>2, <2>1, <2>2, <2>3, <2>4, <2>5, <2>6, <2>7 DEF WriterNext
  <1>3. CASE UNCHANGED vars
    BY <1>1, <1>3 DEF vars
  <1> QED
    BY <1>1, <1>2, <1>3 DEF Next

LEMMA InitHist == Init => HInv
  <1> SUFFICES ASSUME Init PROVE HInv
    OBVIOUS
  <1>1. /\ now = Min(Ts) /\ writer = [rt \in Rts |-> NoState]
        /\ last_insert_ts = 0 /\ open = FALSE /\ nwriters = 0
        /\ settled = [rt \in Rts |-> {}] /\ nlost = 0 /\ late = {}
        /\ \A rt \in Rts : db_msp[rt] = {} /\ db_ev[rt] = {}
    BY DEF Init, WriterInit, DbInit, Stores
  <1>2. now \in Ts
    <2>1. \E x \in Ts : \A y \in Ts : x <= y
      BY LeastNat, TimeAssumption
    <2> QED
      BY <1>1, <2>1 DEF Min
  <1>3. Finite
    BY <1>1, FS_EmptySet DEF Finite
  <1>4. NoState \in States /\ NoState.msp = NoMsp /\ NoState.ts = 0 /\ NoState.count = 0
         /\ NoState.put = 0
    BY DEF NoState, State, States, NoMsp
  <1>5. ASSUME NEW rt \in Rts PROVE StoreOK(rt)
    <2>1. EventsOf(rt) = {}
      BY <1>1 DEF EventsOf, RowEvents
    <2>2. MspsOf(rt) = {}
      BY <1>1, <1>4, <2>1 DEF MspsOf, RowMsps
    <2>3. StoreHist(rt) /\ \A n : HistUpTo(MspsOf(rt), EventsOf(rt), n)
      BY <2>1, <2>2 DEF StoreHist, Hist, Begun, HistUpTo
    <2>4. WState(rt, MspsOf(rt), writer[rt])
      <3>1. 0 \in 0..CountMax /\ 0 <= 0
        BY WriterAssumption
      <3> QED
        BY <1>1, <1>4, <3>1 DEF WState
    <2> QED
      BY <1>1, <2>3, <2>4 DEF StoreOK
  <1>6. Counted
    BY <1>1 DEF Counted
  <1> QED
    BY <1>1, <1>2, <1>3, <1>5, <1>6 DEF HInv

LEMMA SpecHist == Spec => [](IInv /\ HInv)
  <1>1. Init => IInv /\ HInv
    BY InitInv, InitHist
  <1>2. IInv /\ HInv /\ [Next]_vars => (IInv /\ HInv)'
    BY NextInv, NextHist
  <1> QED
    BY <1>1, <1>2, PTL DEF Spec
-----------------------------------------------------------------------------
StreamT == [msp : Nat, beg : Nat, excl : BOOLEAN, done : BOOLEAN, outbuf : Seq(Seq(Ts))]
InpT == [s : StreamT, buf : Seq(Ts)]
MspStreamT == [beg : Int, end : Int, excl : BOOLEAN]
MultiT == [beg : Nat, msps : MspStreamT, ahead : Seq(StreamT), inps : Seq(InpT)]

(* The events of a stream that have arrived.                               *)
InPages(s, x) == \E n \in 1..Len(s.outbuf) : x \in ToSet(s.outbuf[n])

(* A stream of a partition of M: its pages are in order, and it goes on    *)
(* after the last of them.                                                 *)
StreamOK(M, s) ==
    /\ s.msp \in M
    /\ s.excl => Start(s.msp) <= s.beg
    /\ \A n \in 1..Len(s.outbuf) : s.outbuf[n] # <<>> /\ Ordered(s.outbuf[n], Le)
    /\ \A n \in 1..Len(s.outbuf) : \A x \in ToSet(s.outbuf[n]) :
         s.excl /\ Start(s.msp) <= x /\ x <= s.beg
    /\ \A n, o \in 1..Len(s.outbuf) : n < o =>
         \A x \in ToSet(s.outbuf[n]), y \in ToSet(s.outbuf[o]) : x <= y
InpOK(M, i) ==
    /\ StreamOK(M, i.s) /\ Ordered(i.buf, Le)
    /\ \A x \in ToSet(i.buf) : /\ i.s.excl /\ Start(i.s.msp) <= x /\ x <= i.s.beg
                               /\ \A y \in Ts : InPages(i.s, y) => x <= y
(* No partition that starts before x will be added.                        *)
NoNewMsps(s, x) == Exhausted(s) \/ (s.excl /\ x <= s.beg)
MultiOK(M, m) ==
    /\ \A n \in 1..Len(m.inps) : InpOK(M, m.inps[n])
    /\ \A n \in 1..Len(m.ahead) : /\ StreamOK(M, m.ahead[n])
                                  /\ NoNewMsps(m.msps, Start(m.ahead[n].msp))
    /\ \A n, o \in 1..Len(m.ahead) : n < o => m.ahead[n].msp <= m.ahead[o].msp

(* Nothing earlier than x will be handed on.                               *)
StreamBeyond(s, x) ==
    /\ \A y \in Ts : InPages(s, y) => x <= y
    /\ s.done \/ (s.excl /\ x <= s.beg) \/ x <= Start(s.msp)
InpBeyond(i, x) == StreamBeyond(i.s, x) /\ \A y \in ToSet(i.buf) : x <= y
Beyond(m, x) ==
    /\ \A n \in 1..Len(m.inps) : InpBeyond(m.inps[n], x)
    /\ \A n \in 1..Len(m.ahead) : x <= Start(m.ahead[n].msp)
    /\ NoNewMsps(m.msps, x)

(* The event of time t in partition p will be handed on.                   *)
StreamHas(s, t) ==
    InPages(s, t) \/ (~s.done /\ (IF s.excl THEN s.beg < t ELSE s.beg <= t))
InpHas(i, p, t) == i.s.msp = p /\ (t \in ToSet(i.buf) \/ StreamHas(i.s, t))
MspsFrom(s) == IF s.excl THEN Ms(s.beg) + 1 ELSE Ms(s.beg)
WillFind(s, p) == ~Exhausted(s) /\ MspsFrom(s) <= p /\ p < Ms(s.end)
MultiHas(m, p, t) ==
    \/ \E n \in 1..Len(m.inps) : InpHas(m.inps[n], p, t)
    \/ \E n \in 1..Len(m.ahead) : m.ahead[n].msp = p /\ StreamHas(m.ahead[n], t)
    \/ WillFind(m.msps, p) /\ m.beg <= t
-----------------------------------------------------------------------------
LEMMA InToSet ==
    ASSUME NEW S, NEW q \in Seq(S)
    PROVE  /\ Len(q) \in Nat
           /\ \A i \in 1..Len(q) : q[i] \in S /\ q[i] \in ToSet(q)
           /\ \A x \in ToSet(q) : x \in S /\ \E i \in 1..Len(q) : x = q[i]
  BY DEF ToSet

LEMMA FirstPage ==
    ASSUME NEW s \in StreamT, s.outbuf # <<>>, NEW r,
           r = [s EXCEPT !.outbuf = Tail(@)]
    PROVE  /\ r \in StreamT /\ r.msp = s.msp /\ r.beg = s.beg /\ r.excl = s.excl
           /\ r.done = s.done /\ Head(s.outbuf) \in Seq(Ts) /\ Head(s.outbuf) = s.outbuf[1]
           /\ Len(r.outbuf) = Len(s.outbuf) - 1 /\ Len(s.outbuf) \in Nat /\ Len(s.outbuf) >= 1
           /\ \A n \in 1..Len(r.outbuf) : r.outbuf[n] = s.outbuf[n + 1]
  <1>1. s.outbuf \in Seq(Seq(Ts))
    BY DEF StreamT
  <1>2. /\ Tail(s.outbuf) \in Seq(Seq(Ts)) /\ Head(s.outbuf) \in Seq(Ts)
        /\ Head(s.outbuf) = s.outbuf[1]
        /\ Len(Tail(s.outbuf)) = Len(s.outbuf) - 1 /\ Len(s.outbuf) \in Nat /\ Len(s.outbuf) >= 1
        /\ \A n \in 1..Len(Tail(s.outbuf)) : Tail(s.outbuf)[n] = s.outbuf[n + 1]
    BY <1>1
  <1>3. /\ r \in StreamT /\ r.msp = s.msp /\ r.beg = s.beg /\ r.excl = s.excl
        /\ r.done = s.done /\ r.outbuf = Tail(s.outbuf)
    BY <1>2 DEF StreamT
  <1> QED
    BY <1>2, <1>3

LEMMA RefilledFacts ==
    ASSUME NEW M, NEW i \in InpT, InpOK(M, i)
    PROVE  /\ Refilled(i) \in InpT /\ InpOK(M, Refilled(i))
           /\ \A x \in Nat : InpBeyond(i, x) => InpBeyond(Refilled(i), x)
           /\ \A p \in Nat, t \in Ts : InpHas(i, p, t) =>
                /\ InpHas(Refilled(i), p, t)
                /\ ~(Refilled(i).s.done /\ Refilled(i).buf = <<>>)
  <1>1. i.s \in StreamT /\ i.buf \in Seq(Ts) /\ Ts \subseteq Nat
    BY TimeAssumption DEF InpT
  <1>2. i.s.outbuf \in Seq(Seq(Ts)) /\ i.s.done \in BOOLEAN
    BY <1>1 DEF StreamT
  <1>3. CASE i.buf = <<>> /\ i.s.outbuf # <<>>
    <2>1. PICK r : r = [i.s EXCEPT !.outbuf = Tail(@)]
      OBVIOUS
    <2>2. PICK h \in Seq(Ts) : h = Head(i.s.outbuf)
      BY <1>2, <1>3
    <2>3. /\ r \in StreamT /\ r.msp = i.s.msp /\ r.beg = i.s.beg /\ r.excl = i.s.excl
          /\ r.done = i.s.done /\ h = i.s.outbuf[1]
          /\ Len(r.outbuf) = Len(i.s.outbuf) - 1 /\ Len(i.s.outbuf) \in Nat /\ Len(i.s.outbuf) >= 1
          /\ \A n \in 1..Len(r.outbuf) : r.outbuf[n] = i.s.outbuf[n + 1]
      BY <1>1, <1>3, <2>1, <2>2, FirstPage
    <2>4. Refilled(i).s = r /\ Refilled(i).buf = h /\ Refilled(i) \in InpT
      BY <1>3, <2>1, <2>2, <2>3 DEF Refilled, InpT
    <2>5. 1 \in 1..Len(i.s.outbuf) /\ \A n \in 1..Len(r.outbuf) : n + 1 \in 1..Len(i.s.outbuf)
                                                                /\ 1 < n + 1
      BY <2>3
    <2>6. \A y : InPages(i.s, y) <=> y \in ToSet(h) \/ InPages(r, y)
      <3>1. ASSUME NEW y, InPages(i.s, y) PROVE y \in ToSet(h) \/ InPages(r, y)
        <4>1. PICK n \in 1..Len(i.s.outbuf) : y \in ToSet(i.s.outbuf[n])
          BY <3>1 DEF InPages
        <4>2. n = 1 \/ (n - 1 \in 1..Len(r.outbuf) /\ r.outbuf[n - 1] = i.s.outbuf[n])
          BY <2>3
        <4> QED
          BY <2>3, <4>1, <4>2 DEF InPages
      <3>2. ASSUME NEW y, y \in ToSet(h) PROVE InPages(i.s, y)
        BY <2>3, <2>5, <3>2 DEF InPages
      <3>3. ASSUME NEW y, InPages(r, y) PROVE InPages(i.s, y)
        BY <2>3, <2>5, <3>3 DEF InPages
      <3> QED
        BY <3>1, <3>2, <3>3
    <2>7. StreamOK(M, i.s) /\ ToSet(h) \subseteq Ts
      BY <2>2, InToSet DEF InpOK
    <2>8. StreamOK(M, r)
      <3>1. \A n, o \in 1..Len(r.outbuf) : n < o => n + 1 < o + 1
        BY <2>3
      <3> QED
        BY <2>3, <2>5, <2>7, <3>1 DEF StreamOK
    <2>9. /\ h # <<>> /\ Ordered(h, Le)
          /\ \A x \in ToSet(h) : r.excl /\ Start(r.msp) <= x /\ x <= r.beg
          /\ \A x \in ToSet(h), y \in Ts : InPages(r, y) => x <= y
      BY <2>3, <2>5, <2>7 DEF StreamOK, InPages
    <2>10. InpOK(M, Refilled(i))
      BY <2>4, <2>8, <2>9 DEF InpOK
    <2>11. ASSUME NEW x \in Nat, InpBeyond(i, x) PROVE InpBeyond(Refilled(i), x)
      <3>1. /\ \A y \in Ts : InPages(i.s, y) => x <= y
            /\ r.done \/ (r.excl /\ x <= r.beg) \/ x <= Start(r.msp)
        BY <2>3, <2>11 DEF InpBeyond, StreamBeyond
      <3>2. \A y \in ToSet(h) : x <= y
        BY <2>6, <2>7, <3>1
      <3> QED
        BY <2>4, <2>6, <3>1, <3>2 DEF InpBeyond, StreamBeyond
    <2>12. ASSUME NEW p \in Nat, NEW t \in Ts, InpHas(i, p, t)
           PROVE  InpHas(Refilled(i), p, t) /\ Refilled(i).buf # <<>>
      <3>1. i.s.msp = p /\ (t \in ToSet(i.buf) \/ StreamHas(i.s, t))
        BY <2>12 DEF InpHas
      <3>2. t \notin ToSet(i.buf)
        BY <1>3 DEF ToSet
      <3>3. t \in ToSet(h) \/ StreamHas(r, t)
        BY <2>3, <2>6, <3>1, <3>2 DEF StreamHas
      <3> QED
        BY <2>3, <2>4, <2>9, <3>1, <3>3 DEF InpHas
    <2> QED
      BY <2>4, <2>10, <2>11, <2>12
  <1>4. CASE ~(i.buf = <<>> /\ i.s.outbuf # <<>>)
    <2>1. Refilled(i) = i
      BY <1>4 DEF Refilled
    <2>2. ASSUME NEW p \in Nat, NEW t \in Ts, InpHas(i, p, t), i.s.done, i.buf = <<>>
          PROVE  FALSE
      <3>1. i.s.outbuf = <<>> /\ t \notin ToSet(i.buf)
        BY <1>4, <2>2 DEF ToSet
      <3>2. ~InPages(i.s, t)
        BY <3>1 DEF InPages
      <3> QED
        BY <2>2, <3>1, <3>2 DEF InpHas, StreamHas
    <2> QED
      BY <2>1, <2>2
  <1> QED
    BY <1>3, <1>4

LEMMA RetainedFacts ==
    ASSUME NEW inps \in Seq(InpT), \A n \in 1..Len(inps) : Refilled(inps[n]) \in InpT
    PROVE  /\ Retained(inps) \in Seq(InpT)
           /\ \A o \in 1..Len(Retained(inps)) : \E n \in 1..Len(inps) :
                Retained(inps)[o] = Refilled(inps[n])
           /\ \A n \in 1..Len(inps) :
                \/ Refilled(inps[n]).s.done /\ Refilled(inps[n]).buf = <<>>
                \/ \E o \in 1..Len(Retained(inps)) : Retained(inps)[o] = Refilled(inps[n])
  <1>1. PICK all : all = [n \in 1..Len(inps) |-> Refilled(inps[n])]
    OBVIOUS
  <1>2. /\ all \in Seq(InpT) /\ Len(all) = Len(inps) /\ Len(inps) \in Nat
        /\ \A n \in 1..Len(inps) : all[n] = Refilled(inps[n])
    BY <1>1
  <1>3. PICK K : K = {i \in ToSet(all) : ~(i.s.done /\ i.buf = <<>>)}
    OBVIOUS
  <1>4. PICK q : q = Keep(all, K)
    OBVIOUS
  <1>5. Retained(inps) = q
    BY <1>1, <1>3, <1>4 DEF Retained
  <1>6. q \in Seq(InpT) /\ ToSet(q) = ToSet(all) \intersect K
    BY <1>2, <1>4, KeepType, KeepSet
  <1>7. ASSUME NEW o \in 1..Len(q) PROVE \E n \in 1..Len(inps) : q[o] = Refilled(inps[n])
    <2>1. q[o] \in ToSet(all)
      BY <1>6, InToSet
    <2>2. \E n \in 1..Len(all) : q[o] = all[n]
      BY <1>2, <2>1, InToSet
    <2> QED
      BY <1>2, <2>2
  <1>8. ASSUME NEW n \in 1..Len(inps),
               ~(Refilled(inps[n]).s.done /\ Refilled(inps[n]).buf = <<>>)
        PROVE  \E o \in 1..Len(q) : q[o] = Refilled(inps[n])
    <2>1. all[n] \in ToSet(all) /\ all[n] = Refilled(inps[n])
      BY <1>2, InToSet
    <2>2. all[n] \in ToSet(q)
      BY <1>3, <1>6, <1>8, <2>1
    <2> QED
      BY <1>6, <2>1, <2>2, InToSet
  <1> QED
    BY <1>5, <1>6, <1>7, <1>8

(* Taking the next pages and dropping inputs that are over changes nothing *)
(* of what a stream will hand on.                                          *)
LEMMA KeptMulti ==
    ASSUME NEW M, NEW m \in MultiT, MultiOK(M, m), NEW mm,
           mm = [m EXCEPT !.inps = Retained(@)]
    PROVE  /\ mm \in MultiT /\ MultiOK(M, mm)
           /\ mm.msps = m.msps /\ mm.ahead = m.ahead /\ mm.beg = m.beg
           /\ \A x \in Nat : Beyond(m, x) => Beyond(mm, x)
           /\ \A p \in Nat, t \in Ts : MultiHas(m, p, t) => MultiHas(mm, p, t)
  <1>1. m.inps \in Seq(InpT) /\ \A n \in 1..Len(m.inps) : m.inps[n] \in InpT
    BY DEF MultiT
  <1>2. \A n \in 1..Len(m.inps) : InpOK(M, m.inps[n])
    BY DEF MultiOK
  <1>3. \A n \in 1..Len(m.inps) :
           /\ Refilled(m.inps[n]) \in InpT /\ InpOK(M, Refilled(m.inps[n]))
           /\ \A x \in Nat : InpBeyond(m.inps[n], x) => InpBeyond(Refilled(m.inps[n]), x)
           /\ \A p \in Nat, t \in Ts : InpHas(m.inps[n], p, t) =>
                /\ InpHas(Refilled(m.inps[n]), p, t)
                /\ ~(Refilled(m.inps[n]).s.done /\ Refilled(m.inps[n]).buf = <<>>)
    BY <1>1, <1>2, RefilledFacts
  <1>4. PICK q : q = Retained(m.inps)
    OBVIOUS
  <1>5. /\ q \in Seq(InpT)
        /\ \A o \in 1..Len(q) : \E n \in 1..Len(m.inps) : q[o] = Refilled(m.inps[n])
        /\ \A n \in 1..Len(m.inps) :
                \/ Refilled(m.inps[n]).s.done /\ Refilled(m.inps[n]).buf = <<>>
                \/ \E o \in 1..Len(q) : q[o] = Refilled(m.inps[n])
    BY <1>1, <1>3, <1>4, RetainedFacts
  <1>6. /\ mm \in MultiT /\ mm.inps = q /\ mm.msps = m.msps /\ mm.ahead = m.ahead
        /\ mm.beg = m.beg
    BY <1>4, <1>5 DEF MultiT
  <1>7. MultiOK(M, mm)
    BY <1>3, <1>5, <1>6 DEF MultiOK
  <1>8. ASSUME NEW x \in Nat, Beyond(m, x) PROVE Beyond(mm, x)
    BY <1>3, <1>5, <1>6, <1>8 DEF Beyond
  <1>9. ASSUME NEW p \in Nat, NEW t \in Ts, MultiHas(m, p, t) PROVE MultiHas(mm, p, t)
    <2>1. CASE \E n \in 1..Len(m.inps) : InpHas(m.inps[n], p, t)
      <3>1. PICK n \in 1..Len(m.inps) : InpHas(m.inps[n], p, t)
        BY <2>1
      <3>2. InpHas(Refilled(m.inps[n]), p, t)
            /\ ~(Refilled(m.inps[n]).s.done /\ Refilled(m.inps[n]).buf = <<>>)
        BY <1>3, <3>1
      <3>3. \E o \in 1..Len(q) : q[o] = Refilled(m.inps[n])
        BY <1>5, <3>2
      <3> QED
        BY <1>6, <3>2, <3>3 DEF MultiHas
    <2>2. CASE ~\E n \in 1..Len(m.inps) : InpHas(m.inps[n], p, t)
      BY <1>6, <1>9, <2>2 DEF MultiHas
    <2> QED
      BY <2>1, <2>2
  <1> QED
    BY <1>6, <1>7, <1>8, <1>9
-----------------------------------------------------------------------------
(* The tables that a query meets.                                          *)
LEMMA TableFacts ==
    ASSUME HInv, NEW k \in Rts
    PROVE  /\ db_msp[k] \subseteq Nat /\ db_msp[k] \subseteq Msps /\ IsFiniteSet(db_msp[k])
           /\ IsFiniteSet(db_ev[k])
           /\ \A e \in db_ev[k] : /\ e \in Msps \X Ts /\ e[1] \in Nat /\ e[2] \in Ts
                                  /\ Start(e[1]) <= e[2] /\ EventOK(k, e)
  <1>1. Finite /\ StoreOK(k)
    BY DEF HInv
  <1>2. Hist(k, MspsOf(k), EventsOf(k))
    BY <1>1 DEF StoreOK, StoreHist
  <1>3. db_msp[k] \subseteq MspsOf(k) /\ db_ev[k] \subseteq EventsOf(k)
    BY DEF MspsOf, EventsOf
  <1>4. db_msp[k] \subseteq Msps /\ \A e \in db_ev[k] : EventOK(k, e)
    BY <1>2, <1>3 DEF Hist
  <1>5. \A p \in Msps : p \in Nat
    BY MspFacts
  <1>6. \A e \in db_ev[k] : /\ e \in Msps \X Ts /\ e[1] \in Msps /\ e[2] \in Ts
                            /\ Start(e[1]) <= e[2]
    BY <1>4 DEF EventOK
  <1> QED
    BY <1>1, <1>4, <1>5, <1>6 DEF Finite

LEMMA SeqLarger ==
    ASSUME NEW T, NEW S \in SUBSET T, NEW q \in Seq(S)
    PROVE  q \in Seq(T)
  <1>1. Len(q) \in Nat /\ q = [i \in 1..Len(q) |-> q[i]] /\ \A i \in 1..Len(q) : q[i] \in T
    OBVIOUS
  <1> QED
    BY <1>1

LEMMA LastOf ==
    ASSUME NEW S \in SUBSET Nat, NEW q \in Seq(S), Ordered(q, Lt), q # <<>>
    PROVE  /\ Last(q) \in ToSet(q) /\ Last(q) \in S /\ Len(q) \in Nat \ {0}
           /\ Last(q) = q[Len(q)]
           /\ \A x \in ToSet(q) : x <= Last(q)
  <1>1. Len(q) \in Nat \ {0} /\ Len(q) \in 1..Len(q) /\ Last(q) = q[Len(q)]
    BY DEF Last
  <1>2. ASSUME NEW x \in ToSet(q) PROVE x <= Last(q)
    <2>1. PICK i \in 1..Len(q) : x = q[i]
      BY InToSet
    <2>2. i < Len(q) \/ i = Len(q)
      BY <1>1
    <2>3. q[i] \in Nat /\ q[Len(q)] \in Nat
      BY <1>1, InToSet
    <2>4. i < Len(q) => <<q[i], q[Len(q)]>> \in Lt
      BY <1>1 DEF Ordered
    <2> QED
      BY <1>1, <2>1, <2>2, <2>3, <2>4, PairFacts
  <1> QED
    BY <1>1, <1>2, InToSet

LEMMA MspPageFacts ==
    ASSUME HInv, NEW k \in Rts, NEW s \in MspStreamT, NEW limit \in Nat \ {0}, NEW page,
           page = MspQuery(k, s.beg, s.end, s.excl, limit)
    PROVE  /\ page \in Seq(db_msp[k]) /\ page \in Seq(Nat) /\ Ordered(page, Lt)
           /\ Len(page) <= limit
           /\ \A p \in ToSet(page) : /\ p \in db_msp[k] /\ p \in Nat
                                     /\ MspsFrom(s) <= p /\ p < Ms(s.end)
                                     /\ s.excl => s.beg < Start(p)
           /\ \A p \in db_msp[k] : MspsFrom(s) <= p /\ p < Ms(s.end) =>
                p \in ToSet(page) \/ (Len(page) = limit /\ page # <<>> /\ Last(page) < p)
  <1>1. s.beg \in Int /\ s.end \in Int /\ s.excl \in BOOLEAN
    BY DEF MspStreamT
  <1>2. PICK S : S = {p \in db_msp[k] : MspsFrom(s) <= p /\ p < Ms(s.end)}
    OBVIOUS
  <1>3. page = Page(S, limit)
    BY <1>2 DEF MspQuery, MspsFrom
  <1>4. db_msp[k] \subseteq Nat /\ IsFiniteSet(db_msp[k])
    BY TableFacts
  <1>5. S \in SUBSET Nat /\ IsFiniteSet(S) /\ S \subseteq db_msp[k]
    BY <1>2, <1>4, FS_Subset
  <1>6. /\ page \in Seq(S) /\ Ordered(page, Lt)
        /\ Len(page) <= limit
        /\ \A x \in S : \/ x \in ToSet(page)
                        \/ Len(page) = limit /\ page # <<>> /\ Last(page) < x
    BY <1>3, <1>5, PageFacts
  <1>7. page \in Seq(db_msp[k]) /\ page \in Seq(Nat)
    BY <1>4, <1>5, <1>6, SeqLarger
  <1>8. ASSUME NEW p \in ToSet(page)
        PROVE  /\ p \in db_msp[k] /\ p \in Nat /\ MspsFrom(s) <= p /\ p < Ms(s.end)
               /\ s.excl => s.beg < Start(p)
    <2>1. p \in S
      BY <1>6, InToSet
    <2>2. p \in db_msp[k] /\ p \in Nat /\ MspsFrom(s) <= p /\ p < Ms(s.end)
      BY <1>2, <1>5, <2>1
    <2>3. ASSUME s.excl PROVE s.beg < Start(p)
      <3>1. Ms(s.beg) + 1 <= p
        BY <2>2, <2>3 DEF MspsFrom
      <3>2. /\ Start(p) \in Int /\ Ms(s.beg) \in Int
            /\ p <= Ms(s.beg) <=> Start(p) <= s.beg
        BY <1>1, <2>2, MsFacts
      <3> QED
        BY <1>1, <2>2, <3>1, <3>2
    <2> QED
      BY <2>2, <2>3
  <1>9. ASSUME NEW p \in db_msp[k], MspsFrom(s) <= p, p < Ms(s.end)
        PROVE  p \in ToSet(page) \/ (Len(page) = limit /\ page # <<>> /\ Last(page) < p)
    <2>1. p \in S
      BY <1>2, <1>9
    <2> QED
      BY <1>6, <2>1
  <1> QED
    BY <1>6, <1>7, <1>8, <1>9

(* The stream after a page.                                                *)
LEMMA NextStreamFacts ==
    ASSUME HInv, NEW k \in Rts, NEW s \in MspStreamT, NEW limit \in Nat \ {0}, NEW page,
           page = MspQuery(k, s.beg, s.end, s.excl, limit),
           NEW r, r = NextStream(s, page, limit)
    PROVE  /\ r \in MspStreamT /\ r.end = s.end
           /\ \A p \in db_msp[k] : WillFind(s, p) => p \in ToSet(page) \/ WillFind(r, p)
           /\ \A p \in ToSet(page) : NoNewMsps(r, Start(p))
           /\ \A x \in Nat : NoNewMsps(s, x) /\ ~Exhausted(s) =>
                /\ \A p \in ToSet(page) : x <= Start(p)
                /\ NoNewMsps(r, x)
  <1>1. s.beg \in Int /\ s.end \in Int /\ s.excl \in BOOLEAN
    BY DEF MspStreamT
  <1>2. /\ page \in Seq(db_msp[k]) /\ page \in Seq(Nat) /\ Ordered(page, Lt)
        /\ Len(page) <= limit
        /\ \A p \in ToSet(page) : /\ p \in db_msp[k] /\ p \in Nat
                                  /\ MspsFrom(s) <= p /\ p < Ms(s.end)
                                  /\ s.excl => s.beg < Start(p)
        /\ \A p \in db_msp[k] : MspsFrom(s) <= p /\ p < Ms(s.end) =>
                p \in ToSet(page) \/ (Len(page) = limit /\ page # <<>> /\ Last(page) < p)
    BY MspPageFacts
  <1>3. db_msp[k] \subseteq Nat
    BY TableFacts
  <1>4. \A x \in Nat : NoNewMsps(s, x) /\ ~Exhausted(s) =>
           s.excl /\ x <= s.beg /\ \A p \in ToSet(page) : x <= Start(p)
    <2>1. \A p \in ToSet(page) : Start(p) \in Int
      BY <1>2, StartMono
    <2> QED
      BY <1>1, <1>2, <2>1 DEF NoNewMsps
  <1>5. CASE Len(page) < limit
    <2>1. r \in MspStreamT /\ r.end = s.end /\ r.beg = s.end
      BY <1>1, <1>5 DEF NextStream, MspStreamT
    <2>2. Exhausted(r)
      BY <1>1, <2>1 DEF Exhausted
    <2>3. \A p \in db_msp[k] : WillFind(s, p) => p \in ToSet(page)
      <3>1. Len(page) # limit
        BY <1>2, <1>5
      <3> QED
        BY <1>2, <3>1 DEF WillFind
    <2> QED
      BY <1>4, <2>1, <2>2, <2>3 DEF NoNewMsps
  <1>6. CASE ~(Len(page) < limit)
    <2>1. page # <<>> /\ Len(page) = limit
      BY <1>2, <1>6
    <2>2. PICK l : l = Last(page)
      OBVIOUS
    <2>3. l \in ToSet(page) /\ l \in Nat /\ \A p \in ToSet(page) : p <= l
      BY <1>2, <2>1, <2>2, LastOf
    <2>4. /\ Start(l) \in Nat /\ Ms(Start(l)) = l /\ Start(l) < s.end
      <3>1. l \in Int /\ l < Ms(s.end)
        BY <1>2, <2>3
      <3>2. Ms(Start(l)) = l
        BY <3>1, StartMono
      <3>3. Start(l) < s.end /\ (l \in Nat => Start(l) \in Nat)
        BY <1>1, <3>1, MsFacts
      <3> QED
        BY <2>3, <3>2, <3>3
    <2>5. r \in MspStreamT /\ r.beg = Start(l) /\ r.end = s.end /\ r.excl = TRUE
      BY <1>1, <1>6, <2>2, <2>4 DEF NextStream, MspStream, MspStreamT
    <2>6. ~Exhausted(r) /\ MspsFrom(r) = l + 1
      BY <1>1, <2>4, <2>5 DEF Exhausted, MspsFrom
    <2>7. ASSUME NEW p \in db_msp[k], WillFind(s, p)
          PROVE  p \in ToSet(page) \/ WillFind(r, p)
      <3>1. p \in ToSet(page) \/ l < p
        BY <1>2, <2>2, <2>7 DEF WillFind
      <3>2. l < p => l + 1 <= p
        BY <1>3, <2>3
      <3> QED
        BY <2>5, <2>6, <2>7, <3>1, <3>2 DEF WillFind
    <2>8. ASSUME NEW p \in ToSet(page) PROVE NoNewMsps(r, Start(p))
      <3>1. Start(p) <= Start(l)
        <4>1. p \in Nat
          BY <1>2
        <4>2. p <= l /\ l \in Nat
          BY <2>3
        <4>3. p \in Int /\ l \in Int
          BY <4>1, <4>2
        <4> QED
          BY <4>2, <4>3, StartMono
      <3> QED
        BY <2>5, <3>1 DEF NoNewMsps
    <2>9. ASSUME NEW x \in Nat, NoNewMsps(s, x) /\ ~Exhausted(s)
          PROVE  NoNewMsps(r, x)
      <3>1. x <= Start(l)
        BY <1>4, <2>3, <2>9
      <3> QED
        BY <2>5, <3>1 DEF NoNewMsps
    <2> QED
      BY <1>4, <2>5, <2>7, <2>8, <2>9
  <1> QED
    BY <1>5, <1>6
-----------------------------------------------------------------------------
(* A stream has not been read up to t.                                     *)
From(s, t) == IF s.excl THEN s.beg < t ELSE s.beg <= t

LEMMA LspFacts ==
    ASSUME NEW p \in Nat, NEW t \in Nat
    PROVE  /\ Start(p) \in Nat /\ Lsp(p, t) \in Nat
           /\ Start(p) <= t => Lsp(p, t) = t - Start(p)
           /\ t < Start(p) => Lsp(p, t) = 0
  <1>1. Start(p) \in Nat
    BY MsFacts
  <1> QED
    BY <1>1 DEF Lsp

LEMMA LspPageFacts ==
    ASSUME HInv, NEW k \in Rts, NEW s \in StreamT, StreamOK(db_msp[k], s),
           NEW end \in Nat, NEW page,
           page = LspQuery(k, s.msp, s.beg, end, s.excl, LspLimit)
    PROVE  /\ page \in Seq(Ts) /\ Ordered(page, Lt)
           /\ \A x \in ToSet(page) : Start(s.msp) <= x /\ From(s, x)
           /\ \A t : <<s.msp, t>> \in db_ev[k] /\ t < end /\ From(s, t) =>
                t \in ToSet(page) \/ (page # <<>> /\ Last(page) < t)
  <1>1. /\ s.msp \in Nat /\ s.beg \in Nat /\ s.excl \in BOOLEAN
        /\ s.excl => Start(s.msp) <= s.beg
        /\ LspLimit \in Nat \ {0} /\ Ts \subseteq Nat
    BY TimeAssumption, ReaderAssumption DEF StreamT, StreamOK
  <1>2. PICK part : part = {x \in db_ev[k] : x[1] = s.msp}
    OBVIOUS
  <1>3. PICK stored : stored = {e[2] : e \in part}
    OBVIOUS
  <1>4. PICK from : from = IF s.excl THEN Lsp(s.msp, s.beg) + 1 ELSE Lsp(s.msp, s.beg)
    OBVIOUS
  <1>5. PICK S : S = {t \in stored : from <= Lsp(s.msp, t) /\ Lsp(s.msp, t) < Lsp(s.msp, end)}
    OBVIOUS
  <1>6. page = Page(S, LspLimit)
    BY <1>2, <1>3, <1>4, <1>5 DEF LspQuery
  <1>7. /\ IsFiniteSet(db_ev[k])
        /\ \A e \in db_ev[k] : e \in Msps \X Ts /\ e[2] \in Ts /\ Start(e[1]) <= e[2]
    BY TableFacts
  <1>8. \A t \in stored : t \in Ts /\ Start(s.msp) <= t
    BY <1>2, <1>3, <1>7
  <1>9. IsFiniteSet(stored)
    <2>1. IsFiniteSet(part)
      BY <1>2, <1>7, FS_Subset
    <2>2. PICK f : f = [e \in part |-> e[2]]
      OBVIOUS
    <2>3. DOMAIN f = part /\ f = [e \in part |-> f[e]] /\ \A e \in part : f[e] = e[2]
      BY <2>2
    <2>4. IsFiniteSet({f[e] : e \in part})
      BY <2>1, <2>3, ImageFinite
    <2>5. {f[e] : e \in part} = stored
      BY <1>3, <2>3
    <2> QED
      BY <2>4, <2>5
  <1>10. S \subseteq Ts /\ IsFiniteSet(S)
    <2>1. S \subseteq stored
      BY <1>5
    <2> QED
      BY <1>8, <1>9, <2>1, FS_Subset
  <1>11. /\ page \in Seq(S) /\ Ordered(page, Lt)
         /\ \A x \in S : \/ x \in ToSet(page)
                         \/ Len(page) = LspLimit /\ page # <<>> /\ Last(page) < x
    <2>1. S \in SUBSET Nat
      BY <1>1, <1>10
    <2> QED
      BY <1>1, <1>6, <1>10, <2>1, PageFacts
  <1>12. page \in Seq(Ts)
    BY <1>10, <1>11, SeqLarger
  <1>13. \A t \in Nat : Start(s.msp) <= t => (from <= Lsp(s.msp, t) <=> From(s, t))
    <2>1. ASSUME NEW t \in Nat, Start(s.msp) <= t PROVE from <= Lsp(s.msp, t) <=> From(s, t)
      <3>1. Start(s.msp) \in Nat /\ Lsp(s.msp, t) = t - Start(s.msp)
        BY <1>1, <2>1, LspFacts
      <3>2. CASE s.excl
        <4>1. Lsp(s.msp, s.beg) = s.beg - Start(s.msp)
          BY <1>1, <3>2, LspFacts
        <4>2. from = Lsp(s.msp, s.beg) + 1
          BY <1>4, <3>2
        <4> QED
          BY <1>1, <2>1, <3>1, <3>2, <4>1, <4>2 DEF From
      <3>3. CASE ~s.excl /\ Start(s.msp) <= s.beg
        <4>1. Lsp(s.msp, s.beg) = s.beg - Start(s.msp)
          BY <1>1, <3>3, LspFacts
        <4>2. from = Lsp(s.msp, s.beg)
          BY <1>4, <3>3
        <4> QED
          BY <1>1, <2>1, <3>1, <3>3, <4>1, <4>2 DEF From
      <3>4. CASE ~s.excl /\ s.beg < Start(s.msp)
        <4>1. Lsp(s.msp, s.beg) = 0
          BY <1>1, <3>4, LspFacts
        <4>2. from = 0
          BY <1>4, <3>4, <4>1
        <4>3. 0 <= t - Start(s.msp) /\ s.beg <= t
          BY <1>1, <2>1, <3>1, <3>4
        <4> QED
          BY <3>1, <3>4, <4>2, <4>3 DEF From
      <3> QED
        BY <1>1, <3>1, <3>2, <3>3, <3>4
    <2> QED
      BY <2>1
  <1>14. ASSUME NEW x \in ToSet(page) PROVE Start(s.msp) <= x /\ From(s, x)
    <2>1. x \in S
      BY <1>11, InToSet
    <2>2. x \in Nat /\ Start(s.msp) <= x /\ from <= Lsp(s.msp, x)
      BY <1>1, <1>5, <1>8, <2>1
    <2> QED
      BY <1>13, <2>2
  <1>15. ASSUME NEW t, <<s.msp, t>> \in db_ev[k], t < end, From(s, t)
         PROVE  t \in ToSet(page) \/ (page # <<>> /\ Last(page) < t)
    <2>1. PICK e \in part : e = <<s.msp, t>> /\ e[2] = t
      BY <1>2, <1>15
    <2>2. t \in stored
      BY <1>3, <2>1
    <2>3. t \in Nat /\ Start(s.msp) <= t
      BY <1>1, <1>8, <2>2
    <2>4. Lsp(s.msp, t) < Lsp(s.msp, end)
      <3>1. /\ Start(s.msp) \in Nat /\ Lsp(s.msp, t) = t - Start(s.msp)
        BY <1>1, <2>3, LspFacts
      <3>2. Start(s.msp) <= end
        BY <1>15, <2>3, <3>1
      <3>3. Lsp(s.msp, end) = end - Start(s.msp)
        BY <1>1, <3>2, LspFacts
      <3> QED
        BY <1>15, <2>3, <3>1, <3>3
    <2>5. t \in S
      BY <1>5, <1>13, <1>15, <2>2, <2>3, <2>4
    <2> QED
      BY <1>11, <2>5
  <1> QED
    BY <1>11, <1>12, <1>14, <1>15

LEMMA LtIsLe ==
    ASSUME NEW S \in SUBSET Nat, NEW q \in Seq(S), Ordered(q, Lt)
    PROVE  Ordered(q, Le)
  <1>1. ASSUME NEW i \in 1..Len(q), NEW j \in 1..Len(q), i < j PROVE <<q[i], q[j]>> \in Le
    <2>1. q[i] \in Nat /\ q[j] \in Nat
      BY InToSet
    <2>2. <<q[i], q[j]>> \in Lt
      BY <1>1 DEF Ordered
    <2> QED
      BY <2>1, <2>2, PairFacts
  <1> QED
    BY <1>1 DEF Ordered

(* A page of a partition: it follows what the stream had, and nothing of   *)
(* what is stored is skipped.                                              *)
LEMMA FetchedFacts ==
    ASSUME HInv, NEW k \in Rts, NEW s \in StreamT, StreamOK(db_msp[k], s), ~s.done,
           range.end \in Nat, NEW r, r = Fetched(k, s)
    PROVE  /\ r \in StreamT /\ StreamOK(db_msp[k], r) /\ r.msp = s.msp
           /\ s.excl => r.excl /\ s.beg <= r.beg
           /\ \A y \in Ts : InPages(r, y) =>
                InPages(s, y) \/ (Start(s.msp) <= y /\ From(s, y))
           /\ \A x \in Nat : StreamBeyond(s, x) => StreamBeyond(r, x)
           /\ \A t \in Ts : <<s.msp, t>> \in db_ev[k] /\ t < range.end /\ StreamHas(s, t)
                => StreamHas(r, t)
  <1>1. PICK page : page = LspQuery(k, s.msp, s.beg, range.end, s.excl, LspLimit)
    OBVIOUS
  <1>2. /\ page \in Seq(Ts) /\ Ordered(page, Lt)
        /\ \A x \in ToSet(page) : Start(s.msp) <= x /\ From(s, x)
        /\ \A t : <<s.msp, t>> \in db_ev[k] /\ t < range.end /\ From(s, t) =>
                t \in ToSet(page) \/ (page # <<>> /\ Last(page) < t)
    BY <1>1, LspPageFacts, SMTT(40)
  <1>3. /\ s.msp \in Nat /\ s.beg \in Nat /\ s.excl \in BOOLEAN /\ s.done \in BOOLEAN
        /\ s.outbuf \in Seq(Seq(Ts)) /\ Ts \subseteq Nat /\ Start(s.msp) \in Nat
    BY TimeAssumption, MsFacts DEF StreamT
  <1>4. CASE page = <<>>
    <2>1. /\ r \in StreamT /\ r.msp = s.msp /\ r.beg = s.beg /\ r.excl = s.excl /\ r.done = TRUE
          /\ r.outbuf = s.outbuf
      BY <1>1, <1>3, <1>4 DEF Fetched, StreamT
    <2>2. \A y : InPages(r, y) <=> InPages(s, y)
      BY <2>1 DEF InPages
    <2>3. StreamOK(db_msp[k], r)
      BY <2>1 DEF StreamOK
    <2>4. ASSUME NEW t \in Ts, <<s.msp, t>> \in db_ev[k], t < range.end, StreamHas(s, t)
          PROVE  StreamHas(r, t)
      <3>1. ToSet(page) = {}
        BY <1>4 DEF ToSet
      <3>2. ~From(s, t)
        BY <1>2, <1>4, <2>4, <3>1
      <3> QED
        BY <2>2, <2>4, <3>2 DEF StreamHas, From
    <2>5. s.beg <= r.beg
      BY <1>3, <2>1
    <2> QED
      BY <2>1, <2>2, <2>3, <2>4, <2>5 DEF StreamBeyond
  <1>5. CASE page # <<>>
    <2>1. PICK l : l = Last(page)
      OBVIOUS
    <2>2. l \in ToSet(page) /\ l \in Ts /\ l \in Nat /\ \A x \in ToSet(page) : x <= l
      BY <1>2, <1>3, <1>5, <2>1, LastOf
    <2>3. /\ r \in StreamT /\ r.msp = s.msp /\ r.beg = l /\ r.excl = TRUE /\ r.done = s.done
          /\ r.outbuf = Append(s.outbuf, page)
      <3>1. PICK all \in Seq(Seq(Ts)) : all = Append(s.outbuf, page)
        <4>1. Append(s.outbuf, page) \in Seq(Seq(Ts))
          <5>1. s.outbuf \in Seq(Seq(Ts)) /\ page \in Seq(Ts)
            BY <1>2, <1>3
          <5> QED
            BY ONLY <5>1, AppendProperties
        <4> QED
          BY <4>1
      <3>2. r = [s EXCEPT !.beg = l, !.excl = TRUE, !.outbuf = all]
        BY <1>1, <1>5, <2>1, <3>1 DEF Fetched
      <3>3. /\ r \in StreamT /\ r.msp = s.msp /\ r.beg = l /\ r.excl = TRUE /\ r.done = s.done
            /\ r.outbuf = all
        BY <2>2, <3>2 DEF StreamT
      <3> QED
        BY <3>1, <3>3
    <2>4. /\ Len(r.outbuf) = Len(s.outbuf) + 1 /\ Len(s.outbuf) \in Nat
          /\ r.outbuf[Len(s.outbuf) + 1] = page
          /\ \A n \in 1..Len(s.outbuf) : r.outbuf[n] = s.outbuf[n]
      BY <1>2, <1>3, <2>3
    <2>5. \A n \in 1..Len(r.outbuf) :
             \/ n \in 1..Len(s.outbuf) /\ r.outbuf[n] = s.outbuf[n]
             \/ n = Len(s.outbuf) + 1 /\ r.outbuf[n] = page
      BY <2>4
    <2>6. \A y : InPages(r, y) <=> InPages(s, y) \/ y \in ToSet(page)
      <3>1. \A y : InPages(r, y) => InPages(s, y) \/ y \in ToSet(page)
        BY <2>5 DEF InPages
      <3>2. \A y : InPages(s, y) => InPages(r, y)
        <4>1. \A n \in 1..Len(s.outbuf) : n \in 1..Len(r.outbuf)
          BY <2>4
        <4> QED
          BY <2>4, <4>1 DEF InPages
      <3>3. \A y : y \in ToSet(page) => InPages(r, y)
        <4>1. Len(s.outbuf) + 1 \in 1..Len(r.outbuf)
          BY <2>4
        <4> QED
          BY <2>4, <4>1 DEF InPages
      <3> QED
        BY <3>1, <3>2, <3>3
    <2>7. Start(s.msp) <= l /\ s.beg <= l
      BY <1>2, <1>3, <2>2 DEF From
    <2>8. \A x \in ToSet(page) : x \in Ts /\ Start(s.msp) <= x /\ x <= l
      BY <1>2, <2>2, InToSet
    <2>9. \A n \in 1..Len(s.outbuf) : \A x \in ToSet(s.outbuf[n]) :
             s.excl /\ Start(s.msp) <= x /\ x <= s.beg /\ x \in Ts
      <3>1. \A n \in 1..Len(s.outbuf) : s.outbuf[n] \in Seq(Ts)
        BY <1>3
      <3>2. \A n \in 1..Len(s.outbuf) : \A x \in ToSet(s.outbuf[n]) : x \in Ts
        BY <3>1, InToSet
      <3> QED
        BY <3>2 DEF StreamOK
    <2>10. \A n \in 1..Len(s.outbuf) : \A x \in ToSet(s.outbuf[n]), y \in ToSet(page) :
             x <= y
      <3>1. ASSUME NEW n \in 1..Len(s.outbuf), NEW x \in ToSet(s.outbuf[n]),
                   NEW y \in ToSet(page)
            PROVE  x <= y
        <4>1. s.excl /\ x <= s.beg /\ x \in Nat
          BY <1>3, <2>9
        <4>2. s.beg < y /\ y \in Nat
          BY <1>2, <1>3, <2>8, <4>1 DEF From
        <4> QED
          BY <1>3, <4>1, <4>2
      <3> QED
        BY <3>1
    <2>11. StreamOK(db_msp[k], r)
      <3>1. s.msp \in db_msp[k]
        BY DEF StreamOK
      <3>2. \A n \in 1..Len(r.outbuf) : r.outbuf[n] # <<>> /\ Ordered(r.outbuf[n], Le)
        <4>1. Ordered(page, Le)
          BY <1>2, <1>3, LtIsLe
        <4> QED
          BY <1>5, <2>5, <4>1 DEF StreamOK
      <3>3. \A n \in 1..Len(r.outbuf) : \A x \in ToSet(r.outbuf[n]) :
              Start(s.msp) <= x /\ x <= l
        <4>1. ASSUME NEW n \in 1..Len(s.outbuf), NEW x \in ToSet(s.outbuf[n])
              PROVE  Start(s.msp) <= x /\ x <= l
          <5>1. Start(s.msp) <= x /\ x <= s.beg /\ x \in Nat
            BY <1>3, <2>9
          <5> QED
            BY <1>3, <2>2, <2>7, <5>1
        <4> QED
          BY <2>5, <2>8, <4>1
      <3>4. \A n, o \in 1..Len(r.outbuf) : n < o =>
              \A x \in ToSet(r.outbuf[n]), y \in ToSet(r.outbuf[o]) : x <= y
        <4>1. ASSUME NEW n \in 1..Len(r.outbuf), NEW o \in 1..Len(r.outbuf), n < o
              PROVE  \A x \in ToSet(r.outbuf[n]), y \in ToSet(r.outbuf[o]) : x <= y
          <5>1. n \in 1..Len(s.outbuf) /\ r.outbuf[n] = s.outbuf[n]
            BY <2>4, <2>5, <4>1
          <5>2. CASE o \in 1..Len(s.outbuf) /\ r.outbuf[o] = s.outbuf[o]
            BY <4>1, <5>1, <5>2 DEF StreamOK
          <5>3. CASE r.outbuf[o] = page
            BY <2>10, <5>1, <5>3
          <5> QED
            BY <2>5, <5>2, <5>3
        <4> QED
          BY <4>1
      <3> QED
        BY <2>3, <2>7, <3>1, <3>2, <3>3, <3>4 DEF StreamOK
    <2>12. ASSUME NEW x \in Nat, StreamBeyond(s, x) PROVE StreamBeyond(r, x)
      <3>1. (s.excl /\ x <= s.beg) \/ x <= Start(s.msp)
        BY <2>12 DEF StreamBeyond
      <3>2. ASSUME NEW y \in ToSet(page) PROVE x <= y
        <4>1. y \in Nat /\ Start(s.msp) <= y /\ From(s, y)
          BY <1>2, <1>3, <2>8
        <4> QED
          BY <1>3, <3>1, <4>1 DEF From
      <3>3. x <= l
        BY <2>2, <3>2
      <3> QED
        BY <2>3, <2>6, <2>12, <3>2, <3>3 DEF StreamBeyond
    <2>13. ASSUME NEW t \in Ts, <<s.msp, t>> \in db_ev[k], t < range.end, StreamHas(s, t)
           PROVE  StreamHas(r, t)
      <3>1. InPages(s, t) \/ From(s, t)
        BY <2>13 DEF StreamHas, From
      <3>2. From(s, t) => t \in ToSet(page) \/ l < t
        BY <1>2, <2>1, <2>13
      <3> QED
        BY <2>3, <2>6, <3>1, <3>2 DEF StreamHas
    <2>14. \A y \in Ts : InPages(r, y) => InPages(s, y) \/ (Start(s.msp) <= y /\ From(s, y))
      BY <1>2, <2>6
    <2> QED
      BY <2>3, <2>7, <2>11, <2>12, <2>13, <2>14
  <1> QED
    BY <1>4, <1>5
-----------------------------------------------------------------------------
Known(k, p, t) ==
    /\ p \in db_msp[k] /\ t \in Ts /\ <<p, t>> \in db_ev[k] /\ t < range.end

(* A stream of keyspace k goes from m to mm and hands nothing on.          *)
Carries(k, m, mm) ==
    /\ mm \in MultiT /\ MultiOK(db_msp[k], mm)
    /\ \A x \in Nat : Beyond(m, x) => Beyond(mm, x)
    /\ \A p, t : Known(k, p, t) /\ MultiHas(m, p, t) => MultiHas(mm, p, t)

LEMMA CarriesKept ==
    ASSUME HInv, NEW k \in Rts, NEW m, NEW mm, Carries(k, m, mm), NEW mr,
           mr = [mm EXCEPT !.inps = Retained(@)]
    PROVE  Carries(k, m, mr)
  <1>1. mm \in MultiT /\ MultiOK(db_msp[k], mm)
    BY DEF Carries
  <1>2. db_msp[k] \subseteq Nat
    BY TableFacts
  <1>3. /\ mr \in MultiT /\ MultiOK(db_msp[k], mr)
        /\ \A x \in Nat : Beyond(mm, x) => Beyond(mr, x)
        /\ \A p \in Nat, t \in Ts : MultiHas(mm, p, t) => MultiHas(mr, p, t)
    BY <1>1, KeptMulti
  <1> QED
    BY <1>2, <1>3 DEF Carries, Known

LEMMA StartNat == \A p \in Nat : Start(p) \in Nat
  <1>1. 0 \in Int
    OBVIOUS
  <1> QED
    BY <1>1, MsFacts

LEMMA TailOf ==
    ASSUME NEW S, NEW q \in Seq(S), q # <<>>
    PROVE  /\ Tail(q) \in Seq(S) /\ Head(q) = q[1] /\ q[1] \in S
           /\ Len(q) \in Nat /\ Len(q) >= 1 /\ Len(Tail(q)) = Len(q) - 1
           /\ \A n \in 1..Len(Tail(q)) : Tail(q)[n] = q[n + 1]
  OBVIOUS

LEMMA ConcatOf ==
    ASSUME NEW S, NEW a \in Seq(S), NEW b \in Seq(S)
    PROVE  /\ a \o b \in Seq(S) /\ Len(a) \in Nat /\ Len(b) \in Nat
           /\ Len(a \o b) = Len(a) + Len(b)
           /\ \A n \in 1..Len(a) : n \in 1..Len(a \o b) /\ (a \o b)[n] = a[n]
           /\ \A n \in 1..Len(b) : n + Len(a) \in 1..Len(a \o b) /\ (a \o b)[n + Len(a)] = b[n]
           /\ \A n \in 1..Len(a \o b) : \/ n \in 1..Len(a)
                                        \/ /\ n - Len(a) \in 1..Len(b)
                                           /\ (a \o b)[n] = b[n - Len(a)]
  <1>1. /\ a \o b \in Seq(S) /\ Len(a) \in Nat /\ Len(b) \in Nat
        /\ Len(a \o b) = Len(a) + Len(b)
        /\ \A n \in 1..Len(a) + Len(b) : (a \o b)[n] = IF n <= Len(a) THEN a[n] ELSE b[n - Len(a)]
    OBVIOUS
  <1> QED
    BY <1>1

LEMMA OpenedCarries ==
    ASSUME HInv, NEW k \in Rts, NEW m \in MultiT, MultiOK(db_msp[k], m), m.ahead # <<>>,
           NEW mm, mm = [m EXCEPT !.ahead = Tail(@), !.inps = Append(@, Inp(m.ahead[1]))]
    PROVE  Carries(k, m, mm)
  <1>1. /\ m.ahead \in Seq(StreamT) /\ m.inps \in Seq(InpT)
    BY DEF MultiT
  <1>2. PICK a \in StreamT : a = m.ahead[1]
    BY <1>1
  <1>3. PICK rest \in Seq(StreamT) : rest = Tail(m.ahead)
    BY <1>1, TailOf
  <1>4. /\ Len(m.ahead) \in Nat /\ Len(m.ahead) >= 1 /\ Len(rest) = Len(m.ahead) - 1
        /\ \A n \in 1..Len(rest) : rest[n] = m.ahead[n + 1]
    BY <1>1, <1>3, TailOf
  <1>5. PICK i \in InpT : i = Inp(a)
    <2>1. <<>> \in Seq(Ts)
      OBVIOUS
    <2> QED
      BY <2>1 DEF Inp, InpT
  <1>6. i.s = a /\ i.buf = <<>>
    BY <1>5 DEF Inp
  <1>7. PICK all \in Seq(InpT) : all = Append(m.inps, i)
    <2>1. Append(m.inps, i) \in Seq(InpT)
      BY <1>1, AppendProperties
    <2> QED
      BY <2>1
  <1>8. /\ Len(m.inps) \in Nat /\ Len(all) = Len(m.inps) + 1 /\ all[Len(m.inps) + 1] = i
        /\ \A n \in 1..Len(m.inps) : all[n] = m.inps[n] /\ n \in 1..Len(all)
        /\ \A n \in 1..Len(all) : n \in 1..Len(m.inps) \/ n = Len(m.inps) + 1
    BY <1>1, <1>7
  <1>9. /\ mm \in MultiT /\ mm.ahead = rest /\ mm.inps = all /\ mm.msps = m.msps
        /\ mm.beg = m.beg
    <2>1. mm = [m EXCEPT !.ahead = rest, !.inps = all]
      BY <1>2, <1>3, <1>5, <1>7
    <2> QED
      BY <2>1 DEF MultiT
  <1>10. 1 \in 1..Len(m.ahead) /\ \A n \in 1..Len(rest) : n + 1 \in 1..Len(m.ahead)
    BY <1>4
  <1>11. /\ StreamOK(db_msp[k], a)
         /\ \A n \in 1..Len(rest) : StreamOK(db_msp[k], rest[n])
                                    /\ NoNewMsps(m.msps, Start(rest[n].msp))
    BY <1>2, <1>4, <1>10 DEF MultiOK
  <1>12. ToSet(i.buf) = {} /\ Ordered(i.buf, Le)
    BY <1>6 DEF ToSet, Ordered
  <1>13. InpOK(db_msp[k], i)
    BY <1>6, <1>11, <1>12 DEF InpOK
  <1>14. MultiOK(db_msp[k], mm)
    <2>1. \A n \in 1..Len(all) : InpOK(db_msp[k], all[n])
      BY <1>8, <1>13 DEF MultiOK
    <2>2. \A n, o \in 1..Len(rest) : n < o => rest[n].msp <= rest[o].msp
      <3>1. \A n, o \in 1..Len(rest) : n < o => n + 1 < o + 1
        BY <1>4
      <3> QED
        BY <1>4, <1>10, <3>1 DEF MultiOK
    <2> QED
      BY <1>9, <1>11, <2>1, <2>2 DEF MultiOK
  <1>15. ASSUME NEW x \in Nat, Beyond(m, x) PROVE Beyond(mm, x)
    <2>1. x <= Start(a.msp)
      BY <1>2, <1>10, <1>15 DEF Beyond
    <2>2. \A y \in Ts : InPages(a, y) => x <= y
      <3>1. ASSUME NEW y \in Ts, InPages(a, y) PROVE x <= y
        <4>1. Start(a.msp) <= y
          BY <1>11, <3>1 DEF StreamOK, InPages
        <4>2. y \in Nat /\ a.msp \in Nat
          BY TimeAssumption DEF StreamT
        <4>3. Start(a.msp) \in Nat
          BY <4>2, StartNat
        <4> QED
          BY <2>1, <4>1, <4>2, <4>3
      <3> QED
        BY <3>1
    <2>3. InpBeyond(i, x)
      BY <1>6, <1>12, <2>1, <2>2 DEF InpBeyond, StreamBeyond
    <2>4. \A n \in 1..Len(all) : InpBeyond(all[n], x)
      BY <1>8, <1>15, <2>3 DEF Beyond
    <2>5. \A n \in 1..Len(rest) : x <= Start(rest[n].msp)
      BY <1>4, <1>10, <1>15 DEF Beyond
    <2> QED
      BY <1>9, <1>15, <2>4, <2>5 DEF Beyond
  <1>16. ASSUME NEW p, NEW t, MultiHas(m, p, t) PROVE MultiHas(mm, p, t)
    <2>1. CASE \E n \in 1..Len(m.inps) : InpHas(m.inps[n], p, t)
      BY <1>8, <1>9, <2>1 DEF MultiHas
    <2>2. CASE \E n \in 1..Len(m.ahead) : m.ahead[n].msp = p /\ StreamHas(m.ahead[n], t)
      <3>1. PICK n \in 1..Len(m.ahead) : m.ahead[n].msp = p /\ StreamHas(m.ahead[n], t)
        BY <2>2
      <3>2. CASE n = 1
        <4>1. InpHas(i, p, t)
          BY <1>2, <1>6, <3>1, <3>2 DEF InpHas
        <4>2. Len(m.inps) + 1 \in 1..Len(all)
          BY <1>8
        <4> QED
          BY <1>8, <1>9, <4>1, <4>2 DEF MultiHas
      <3>3. CASE n # 1
        <4>1. n - 1 \in 1..Len(rest) /\ rest[n - 1] = m.ahead[n]
          BY <1>4, <3>3
        <4> QED
          BY <1>9, <3>1, <4>1 DEF MultiHas
      <3> QED
        BY <3>2, <3>3
    <2>3. CASE WillFind(m.msps, p) /\ m.beg <= t
      BY <1>9, <2>3 DEF MultiHas
    <2> QED
      BY <1>16, <2>1, <2>2, <2>3 DEF MultiHas
  <1> QED
    BY <1>9, <1>14, <1>15, <1>16 DEF Carries

LEMMA SingleFacts ==
    ASSUME NEW M, NEW p \in Nat, p \in M, NEW beg \in Nat
    PROVE  /\ Single(p, beg) \in StreamT /\ StreamOK(M, Single(p, beg))
           /\ Single(p, beg).msp = p
           /\ \A t : beg <= t => StreamHas(Single(p, beg), t)
  <1>1. PICK s : s = Single(p, beg)
    OBVIOUS
  <1>2. <<>> \in Seq(Seq(Ts))
    OBVIOUS
  <1>3. /\ s \in StreamT /\ s.msp = p /\ s.beg = beg /\ s.excl = FALSE /\ s.done = FALSE
        /\ s.outbuf = <<>>
    BY <1>1, <1>2 DEF Single, StreamT
  <1>4. StreamOK(M, s)
    BY <1>3 DEF StreamOK
  <1> QED
    BY <1>1, <1>3, <1>4 DEF StreamHas

LEMMA WithMspsCarries ==
    ASSUME HInv, NEW k \in Rts, NEW m \in MultiT, MultiOK(db_msp[k], m),
           ~Exhausted(m.msps), NEW page,
           page = MspQuery(k, m.msps.beg, m.msps.end, m.msps.excl, MspLimit),
           NEW mm, mm = WithMsps(m, page)
    PROVE  Carries(k, m, mm)
  <1>1. /\ m.ahead \in Seq(StreamT) /\ m.msps \in MspStreamT /\ m.beg \in Nat
        /\ MspLimit \in Nat \ {0}
    BY ReaderAssumption DEF MultiT
  <1>2. PICK r : r = NextStream(m.msps, page, MspLimit)
    OBVIOUS
  <1>3. /\ r \in MspStreamT /\ r.end = m.msps.end
        /\ \A p \in db_msp[k] : WillFind(m.msps, p) => p \in ToSet(page) \/ WillFind(r, p)
        /\ \A p \in ToSet(page) : NoNewMsps(r, Start(p))
        /\ \A x \in Nat : NoNewMsps(m.msps, x) /\ ~Exhausted(m.msps) =>
             /\ \A p \in ToSet(page) : x <= Start(p)
             /\ NoNewMsps(r, x)
    BY <1>1, <1>2, NextStreamFacts
  <1>4. /\ page \in Seq(Nat) /\ Ordered(page, Lt)
        /\ \A p \in ToSet(page) : p \in db_msp[k] /\ p \in Nat
    BY <1>1, MspPageFacts
  <1>5. PICK new : new = [i \in 1..Len(page) |-> Single(page[i], m.beg)]
    OBVIOUS
  <1>6. \A i \in 1..Len(page) :
           /\ page[i] \in ToSet(page) /\ page[i] \in db_msp[k] /\ page[i] \in Nat
           /\ Single(page[i], m.beg) \in StreamT /\ StreamOK(db_msp[k], Single(page[i], m.beg))
           /\ Single(page[i], m.beg).msp = page[i]
           /\ \A t : m.beg <= t => StreamHas(Single(page[i], m.beg), t)
    <2>1. \A i \in 1..Len(page) : page[i] \in ToSet(page) /\ page[i] \in db_msp[k]
                                  /\ page[i] \in Nat
      BY <1>4, InToSet
    <2> QED
      BY <1>1, <2>1, SingleFacts
  <1>7. /\ new \in Seq(StreamT) /\ Len(new) = Len(page) /\ Len(page) \in Nat
        /\ \A i \in 1..Len(page) : new[i] = Single(page[i], m.beg)
    BY <1>4, <1>5, <1>6
  <1>8. PICK all \in Seq(StreamT) : all = m.ahead \o new
    BY <1>1, <1>7, ConcatOf
  <1>9. /\ Len(m.ahead) \in Nat /\ Len(all) = Len(m.ahead) + Len(page)
        /\ \A n \in 1..Len(m.ahead) : n \in 1..Len(all) /\ all[n] = m.ahead[n]
        /\ \A n \in 1..Len(page) : n + Len(m.ahead) \in 1..Len(all)
                                   /\ all[n + Len(m.ahead)] = Single(page[n], m.beg)
        /\ \A n \in 1..Len(all) : \/ n \in 1..Len(m.ahead)
                                  \/ /\ n - Len(m.ahead) \in 1..Len(page)
                                     /\ all[n] = Single(page[n - Len(m.ahead)], m.beg)
    <2>1. /\ Len(m.ahead) \in Nat /\ Len(all) = Len(m.ahead) + Len(new)
          /\ \A n \in 1..Len(m.ahead) : n \in 1..Len(all) /\ all[n] = m.ahead[n]
          /\ \A n \in 1..Len(new) : n + Len(m.ahead) \in 1..Len(all)
                                     /\ all[n + Len(m.ahead)] = new[n]
          /\ \A n \in 1..Len(all) : \/ n \in 1..Len(m.ahead)
                                    \/ /\ n - Len(m.ahead) \in 1..Len(new)
                                       /\ all[n] = new[n - Len(m.ahead)]
      <3>1. m.ahead \in Seq(StreamT) /\ new \in Seq(StreamT)
        BY <1>1, <1>7
      <3>2. all = m.ahead \o new
        BY <1>8
      <3> QED
        BY ONLY <3>1, <3>2, ConcatOf
    <2> QED
      BY <1>7, <2>1
  <1>10. /\ mm \in MultiT /\ mm.ahead = all /\ mm.inps = m.inps /\ mm.msps = r
         /\ mm.beg = m.beg
    <2>1. mm = [m EXCEPT !.msps = r, !.ahead = all]
      BY <1>2, <1>5, <1>8 DEF WithMsps
    <2> QED
      BY <1>3, <2>1 DEF MultiT
  <1>11. \A n \in 1..Len(m.ahead) : m.ahead[n] \in StreamT /\ m.ahead[n].msp \in Nat
    <2>1. \A n \in 1..Len(m.ahead) : m.ahead[n] \in StreamT
      BY <1>1, InToSet
    <2> QED
      BY <2>1 DEF StreamT
  <1>12. \A n \in 1..Len(m.ahead) :
           /\ NoNewMsps(r, Start(m.ahead[n].msp))
           /\ \A p \in ToSet(page) : m.ahead[n].msp <= p
    <2>1. ASSUME NEW n \in 1..Len(m.ahead)
          PROVE  /\ NoNewMsps(r, Start(m.ahead[n].msp))
                 /\ \A p \in ToSet(page) : m.ahead[n].msp <= p
      <3>1. NoNewMsps(m.msps, Start(m.ahead[n].msp)) /\ m.ahead[n].msp \in Nat
        BY <1>11 DEF MultiOK
      <3>2. Start(m.ahead[n].msp) \in Nat
        BY <3>1, StartNat
      <3>3. /\ \A p \in ToSet(page) : Start(m.ahead[n].msp) <= Start(p)
            /\ NoNewMsps(r, Start(m.ahead[n].msp))
        BY <1>3, <3>1, <3>2
      <3>4. ASSUME NEW p \in ToSet(page) PROVE m.ahead[n].msp <= p
        <4>1. p \in Int /\ m.ahead[n].msp \in Int
          BY <1>4, <3>1
        <4> QED
          BY <3>3, <4>1, StartMono
      <3> QED
        BY <3>3, <3>4
    <2> QED
      BY <2>1
  <1>13. MultiOK(db_msp[k], mm)
    <2>1. \A n \in 1..Len(all) : StreamOK(db_msp[k], all[n])
                                 /\ NoNewMsps(r, Start(all[n].msp))
      <3>1. ASSUME NEW n \in 1..Len(page)
            PROVE  StreamOK(db_msp[k], Single(page[n], m.beg))
                   /\ NoNewMsps(r, Start(Single(page[n], m.beg).msp))
        BY <1>3, <1>6
      <3> QED
        BY <1>9, <1>12, <3>1 DEF MultiOK
    <2>2. ASSUME NEW n \in 1..Len(all), NEW o \in 1..Len(all), n < o
          PROVE  all[n].msp <= all[o].msp
      <3>1. CASE n \in 1..Len(m.ahead) /\ o \in 1..Len(m.ahead)
        BY <1>9, <2>2, <3>1 DEF MultiOK
      <3>2. CASE n \in 1..Len(m.ahead) /\ o \notin 1..Len(m.ahead)
        <4>1. o - Len(m.ahead) \in 1..Len(page)
              /\ all[o] = Single(page[o - Len(m.ahead)], m.beg)
          BY <1>9, <3>2
        <4>2. all[o].msp \in ToSet(page)
          BY <1>6, <4>1
        <4> QED
          BY <1>9, <1>12, <3>2, <4>2
      <3>3. CASE n \notin 1..Len(m.ahead)
        <4>1. PICK i \in 1..Len(page) : i = n - Len(m.ahead)
          BY <1>9, <3>3
        <4>2. o \notin 1..Len(m.ahead)
          BY <1>9, <2>2, <3>3
        <4>3. PICK j \in 1..Len(page) : j = o - Len(m.ahead)
          BY <1>9, <4>2
        <4>4. i < j /\ all[n].msp = page[i] /\ all[o].msp = page[j]
          <5>1. i < j
            BY <1>9, <2>2, <4>1, <4>3
          <5>2. all[n] = Single(page[i], m.beg)
            BY <1>9, <3>3, <4>1
          <5>3. all[o] = Single(page[j], m.beg)
            BY <1>9, <4>2, <4>3
          <5> QED
            BY <1>6, <5>1, <5>2, <5>3
        <4>5. <<page[i], page[j]>> \in Lt /\ page[i] \in Nat /\ page[j] \in Nat
          BY <1>4, <1>6, <4>4 DEF Ordered
        <4> QED
          BY <4>4, <4>5, PairFacts
      <3> QED
        BY <3>1, <3>2, <3>3
    <2> QED
      BY <1>10, <2>1, <2>2 DEF MultiOK
  <1>14. ASSUME NEW x \in Nat, Beyond(m, x) PROVE Beyond(mm, x)
    <2>1. NoNewMsps(r, x) /\ \A p \in ToSet(page) : x <= Start(p)
      BY <1>3, <1>14 DEF Beyond
    <2>2. \A n \in 1..Len(all) : x <= Start(all[n].msp)
      <3>1. ASSUME NEW n \in 1..Len(page) PROVE x <= Start(Single(page[n], m.beg).msp)
        BY <1>6, <2>1
      <3> QED
        BY <1>9, <1>14, <3>1 DEF Beyond
    <2> QED
      BY <1>10, <1>14, <2>1, <2>2 DEF Beyond
  <1>15. ASSUME NEW p, NEW t, Known(k, p, t), MultiHas(m, p, t) PROVE MultiHas(mm, p, t)
    <2>1. CASE \E n \in 1..Len(m.inps) : InpHas(m.inps[n], p, t)
      BY <1>10, <2>1 DEF MultiHas
    <2>2. CASE \E n \in 1..Len(m.ahead) : m.ahead[n].msp = p /\ StreamHas(m.ahead[n], t)
      BY <1>9, <1>10, <2>2 DEF MultiHas
    <2>3. CASE WillFind(m.msps, p) /\ m.beg <= t
      <3>1. p \in ToSet(page) \/ WillFind(r, p)
        BY <1>3, <1>15, <2>3 DEF Known
      <3>2. CASE p \in ToSet(page)
        <4>1. PICK i \in 1..Len(page) : p = page[i]
          BY <1>4, <3>2, InToSet
        <4>2. /\ i + Len(m.ahead) \in 1..Len(all)
              /\ all[i + Len(m.ahead)].msp = p /\ StreamHas(all[i + Len(m.ahead)], t)
          BY <1>6, <1>9, <2>3, <4>1
        <4> QED
          BY <1>10, <4>2 DEF MultiHas
      <3>3. CASE WillFind(r, p)
        BY <1>10, <2>3, <3>3 DEF MultiHas
      <3> QED
        BY <3>1, <3>2, <3>3
    <2> QED
      BY <1>15, <2>1, <2>2, <2>3 DEF MultiHas
  <1> QED
    BY <1>10, <1>13, <1>14, <1>15 DEF Carries
-----------------------------------------------------------------------------
LEMMA AheadCarries ==
    ASSUME HInv, NEW k \in Rts, NEW m \in MultiT, MultiOK(db_msp[k], m),
           range.end \in Nat, NEW i \in 1..Len(m.ahead), ~m.ahead[i].done,
           NEW mm, mm = [m EXCEPT !.ahead[i] = Fetched(k, m.ahead[i])]
    PROVE  Carries(k, m, mm)
  <1>1. m.ahead \in Seq(StreamT) /\ m.ahead[i] \in StreamT
    BY DEF MultiT
  <1>2. StreamOK(db_msp[k], m.ahead[i])
    BY DEF MultiOK
  <1>3. PICK r : r = Fetched(k, m.ahead[i])
    OBVIOUS
  <1>4. /\ r \in StreamT /\ StreamOK(db_msp[k], r) /\ r.msp = m.ahead[i].msp
        /\ \A t \in Ts : <<m.ahead[i].msp, t>> \in db_ev[k] /\ t < range.end
                         /\ StreamHas(m.ahead[i], t) => StreamHas(r, t)
    BY <1>1, <1>2, <1>3, FetchedFacts
  <1>5. PICK all : all = [m.ahead EXCEPT ![i] = r]
    OBVIOUS
  <1>6. /\ all \in Seq(StreamT) /\ Len(all) = Len(m.ahead) /\ all[i] = r
        /\ \A n \in 1..Len(m.ahead) : n # i => all[n] = m.ahead[n]
    BY <1>1, <1>4, <1>5
  <1>7. /\ mm \in MultiT /\ mm.ahead = all /\ mm.inps = m.inps /\ mm.msps = m.msps
        /\ mm.beg = m.beg
    <2>1. mm = [m EXCEPT !.ahead = all]
      BY <1>3, <1>5 DEF MultiT
    <2> QED
      BY <1>6, <2>1 DEF MultiT
  <1>8. \A n \in 1..Len(m.ahead) : all[n].msp = m.ahead[n].msp /\ StreamOK(db_msp[k], all[n])
    BY <1>4, <1>6 DEF MultiOK
  <1>9. MultiOK(db_msp[k], mm)
    BY <1>6, <1>7, <1>8 DEF MultiOK
  <1>10. ASSUME NEW x \in Nat, Beyond(m, x) PROVE Beyond(mm, x)
    BY <1>6, <1>7, <1>8, <1>10 DEF Beyond
  <1>11. ASSUME NEW p, NEW t, Known(k, p, t), MultiHas(m, p, t) PROVE MultiHas(mm, p, t)
    <2>1. CASE \E n \in 1..Len(m.ahead) : m.ahead[n].msp = p /\ StreamHas(m.ahead[n], t)
      <3>1. PICK n \in 1..Len(m.ahead) : m.ahead[n].msp = p /\ StreamHas(m.ahead[n], t)
        BY <2>1
      <3>2. all[n].msp = p /\ StreamHas(all[n], t)
        BY <1>4, <1>6, <1>8, <1>11, <3>1 DEF Known
      <3> QED
        BY <1>6, <1>7, <3>2 DEF MultiHas
    <2>2. CASE ~\E n \in 1..Len(m.ahead) : m.ahead[n].msp = p /\ StreamHas(m.ahead[n], t)
      BY <1>7, <1>11, <2>2 DEF MultiHas
    <2> QED
      BY <2>1, <2>2
  <1> QED
    BY <1>7, <1>9, <1>10, <1>11 DEF Carries

LEMMA InpCarries ==
    ASSUME HInv, NEW k \in Rts, NEW m \in MultiT, MultiOK(db_msp[k], m),
           range.end \in Nat, NEW i \in 1..Len(m.inps), ~m.inps[i].s.done,
           NEW mm, mm = [m EXCEPT !.inps[i].s = Fetched(k, m.inps[i].s)]
    PROVE  Carries(k, m, mm)
  <1>0. m.inps \in Seq(InpT)
    BY DEF MultiT
  <1>1. PICK inp \in InpT : inp = m.inps[i]
    BY <1>0
  <1>2. inp.s \in StreamT /\ inp.buf \in Seq(Ts) /\ InpOK(db_msp[k], inp)
    BY <1>1 DEF InpT, MultiOK
  <1>3. StreamOK(db_msp[k], inp.s) /\ ~inp.s.done
    BY <1>1, <1>2 DEF InpOK
  <1>4. PICK r : r = Fetched(k, inp.s)
    OBVIOUS
  <1>5. /\ r \in StreamT /\ StreamOK(db_msp[k], r) /\ r.msp = inp.s.msp
        /\ inp.s.excl => r.excl /\ inp.s.beg <= r.beg
        /\ \A y \in Ts : InPages(r, y) =>
                InPages(inp.s, y) \/ (Start(inp.s.msp) <= y /\ From(inp.s, y))
        /\ \A x \in Nat : StreamBeyond(inp.s, x) => StreamBeyond(r, x)
        /\ \A t \in Ts : <<inp.s.msp, t>> \in db_ev[k] /\ t < range.end
                         /\ StreamHas(inp.s, t) => StreamHas(r, t)
    BY <1>2, <1>3, <1>4, FetchedFacts
  <1>6. PICK j : j = [inp EXCEPT !.s = r]
    OBVIOUS
  <1>7. j \in InpT /\ j.s = r /\ j.buf = inp.buf
    BY <1>5, <1>6 DEF InpT
  <1>8. PICK all : all = [m.inps EXCEPT ![i] = j]
    OBVIOUS
  <1>9. /\ all \in Seq(InpT) /\ Len(all) = Len(m.inps) /\ all[i] = j
        /\ \A n \in 1..Len(m.inps) : n # i => all[n] = m.inps[n]
    BY <1>0, <1>7, <1>8
  <1>10. /\ mm \in MultiT /\ mm.inps = all /\ mm.ahead = m.ahead /\ mm.msps = m.msps
         /\ mm.beg = m.beg
    <2>1. mm = [m EXCEPT !.inps = all]
      BY <1>1, <1>4, <1>6, <1>8 DEF MultiT
    <2> QED
      BY <1>9, <2>1 DEF MultiT
  <1>11. InpOK(db_msp[k], j)
    <2>1. ASSUME NEW x \in ToSet(inp.buf)
          PROVE  /\ r.excl /\ Start(r.msp) <= x /\ x <= r.beg
                 /\ \A y \in Ts : InPages(r, y) => x <= y
      <3>1. /\ inp.s.excl /\ Start(inp.s.msp) <= x /\ x <= inp.s.beg
            /\ \A y \in Ts : InPages(inp.s, y) => x <= y
        BY <1>2 DEF InpOK
      <3>2. x \in Nat /\ inp.s.beg \in Nat /\ r.beg \in Nat /\ Ts \subseteq Nat
        BY <1>2, <1>5, InToSet, TimeAssumption DEF StreamT
      <3>3. \A y \in Ts : InPages(r, y) => x <= y
        BY <1>5, <3>1, <3>2 DEF From
      <3> QED
        BY <1>5, <3>1, <3>2, <3>3
    <2> QED
      BY <1>2, <1>5, <1>7, <2>1 DEF InpOK
  <1>12. MultiOK(db_msp[k], mm)
    BY <1>9, <1>10, <1>11 DEF MultiOK
  <1>13. ASSUME NEW x \in Nat, Beyond(m, x) PROVE Beyond(mm, x)
    <2>1. InpBeyond(inp, x)
      BY <1>1, <1>13 DEF Beyond
    <2>2. InpBeyond(j, x)
      BY <1>5, <1>7, <2>1 DEF InpBeyond
    <2> QED
      BY <1>9, <1>10, <1>13, <2>2 DEF Beyond
  <1>14. ASSUME NEW p, NEW t, Known(k, p, t), MultiHas(m, p, t) PROVE MultiHas(mm, p, t)
    <2>1. CASE \E n \in 1..Len(m.inps) : InpHas(m.inps[n], p, t)
      <3>1. PICK n \in 1..Len(m.inps) : InpHas(m.inps[n], p, t)
        BY <2>1
      <3>2. InpHas(all[n], p, t)
        BY <1>1, <1>5, <1>7, <1>9, <1>14, <3>1 DEF Known, InpHas
      <3> QED
        BY <1>9, <1>10, <3>2 DEF MultiHas
    <2>2. CASE ~\E n \in 1..Len(m.inps) : InpHas(m.inps[n], p, t)
      BY <1>10, <1>14, <2>2 DEF MultiHas
    <2> QED
      BY <2>1, <2>2
  <1> QED
    BY <1>10, <1>12, <1>13, <1>14 DEF Carries
-----------------------------------------------------------------------------
LEMMA InpBufs ==
    ASSUME NEW inps \in Seq(InpT), NEW n \in 1..Len(inps)
    PROVE  inps[n] \in InpT /\ inps[n].buf \in Seq(Ts) /\ inps[n].s \in StreamT
  <1>1. inps[n] \in InpT
    OBVIOUS
  <1> QED
    BY <1>1 DEF InpT

(* find_next_ts.                                                           *)
LEMMA BestInpFacts ==
    ASSUME NEW inps \in Seq(InpT), inps # <<>>, \A n \in 1..Len(inps) : inps[n].buf # <<>>
    PROVE  BestInp(inps) \in 1..Len(inps)
  <1>1. Len(inps) \in Nat /\ 1 \in 1..Len(inps)
    OBVIOUS
  <1>2. \A n \in 1..Len(inps) : TsMin(inps[n]) \in Nat
    <2>1. \A n \in 1..Len(inps) : inps[n].buf \in Seq(Ts) /\ inps[n].buf # <<>>
      BY InpBufs
    <2> QED
      <3>1. \A q \in Seq(Ts) : q # <<>> => Head(q) \in Ts
        OBVIOUS
      <3> QED
        BY <2>1, <3>1, TimeAssumption DEF TsMin
  <1>3. PICK T : T = {TsMin(inps[n]) : n \in 1..Len(inps)}
    OBVIOUS
  <1>4. PICK t \in T : \A u \in T : t <= u
    <2>1. T \in SUBSET Nat /\ T # {}
      BY <1>1, <1>2, <1>3
    <2> QED
      BY <2>1, LeastNat
  <1>5. PICK N : N = {n \in 1..Len(inps) : TsMin(inps[n]) = t}
    OBVIOUS
  <1>6. PICK n \in N : \A j \in N : n <= j
    <2>1. N \in SUBSET Nat /\ N # {}
      BY <1>3, <1>5
    <2> QED
      BY <2>1, LeastNat
  <1>7. ASSUME NEW j \in 1..Len(inps)
        PROVE  \/ TsMin(inps[n]) < TsMin(inps[j])
               \/ TsMin(inps[n]) = TsMin(inps[j]) /\ n <= j
    <2>1. n \in 1..Len(inps) /\ TsMin(inps[n]) = t /\ t <= TsMin(inps[j])
      BY <1>3, <1>4, <1>5
    <2>2. t \in Nat /\ TsMin(inps[j]) \in Nat
      BY <1>2, <2>1
    <2>3. TsMin(inps[j]) = t => n <= j
      BY <1>5, <1>6
    <2> QED
      BY <2>1, <2>2, <2>3
  <1>8. n \in 1..Len(inps)
    BY <1>5
  <1> QED
    BY <1>7, <1>8 DEF BestInp

LEMMA OrderedHead ==
    ASSUME NEW S \in SUBSET Nat, NEW q \in Seq(S), Ordered(q, Le), q # <<>>
    PROVE  /\ Head(q) \in ToSet(q) /\ Head(q) \in S /\ Last(q) \in ToSet(q) /\ Last(q) \in S
           /\ \A x \in ToSet(q) : Head(q) <= x /\ x <= Last(q)
  <1>1. Len(q) \in Nat \ {0} /\ Len(q) \in 1..Len(q) /\ 1 \in 1..Len(q)
        /\ Last(q) = q[Len(q)] /\ Head(q) = q[1]
    BY DEF Last
  <1>2. ASSUME NEW x \in ToSet(q) PROVE Head(q) <= x /\ x <= Last(q)
    <2>1. PICK i \in 1..Len(q) : x = q[i]
      BY InToSet
    <2>2. q[i] \in Nat /\ q[Len(q)] \in Nat /\ q[1] \in Nat
      BY <1>1, InToSet
    <2>3. (i < Len(q) => <<q[i], q[Len(q)]>> \in Le) /\ (1 < i => <<q[1], q[i]>> \in Le)
      BY <1>1 DEF Ordered
    <2>4. (i < Len(q) \/ i = Len(q)) /\ (1 < i \/ i = 1)
      BY <1>1
    <2> QED
      BY <1>1, <2>1, <2>2, <2>3, <2>4, PairFacts
  <1> QED
    BY <1>1, <1>2, InToSet

LEMMA SecondTsFacts ==
    ASSUME NEW inps \in Seq(InpT), inps # <<>>, Len(inps) # 1,
           \A n \in 1..Len(inps) : inps[n].buf # <<>> /\ Ordered(inps[n].buf, Le)
    PROVE  /\ SecondTs(inps) \in Ts
           /\ \A n \in 1..Len(inps) : n # BestInp(inps) =>
                \A y \in ToSet(inps[n].buf) : SecondTs(inps) <= y
  <1>1. PICK b \in 1..Len(inps) : b = BestInp(inps)
    BY BestInpFacts
  <1>2. \A n \in 1..Len(inps) : /\ TsMin(inps[n]) \in Ts
                                /\ \A y \in ToSet(inps[n].buf) : TsMin(inps[n]) <= y
    <2>1. \A n \in 1..Len(inps) : inps[n].buf \in Seq(Ts) /\ inps[n].buf # <<>>
                                  /\ Ordered(inps[n].buf, Le)
      BY InpBufs
    <2> QED
      BY <2>1, OrderedHead, TimeAssumption DEF TsMin
  <1>3. PICK T : T = {TsMin(inps[n]) : n \in 1..Len(inps) \ {b}}
    OBVIOUS
  <1>4. T \in SUBSET Nat /\ T \subseteq Ts /\ T # {}
    <2>1. 1 \in 1..Len(inps) /\ 2 \in 1..Len(inps)
      <3>1. Len(inps) \in Nat /\ Len(inps) # 0 /\ Len(inps) # 1
        BY EmptySeq
      <3>2. \A l \in Nat : l # 0 /\ l # 1 => 1 \in 1..l /\ 2 \in 1..l
        OBVIOUS
      <3> QED
        BY ONLY <3>1, <3>2
    <2>2. \E n \in 1..Len(inps) : n # b
      BY <2>1
    <2> QED
      BY <1>2, <1>3, <2>2, TimeAssumption
  <1>5. PICK t \in T : \A u \in T : t <= u
    BY <1>4, LeastNat
  <1>6. SecondTs(inps) = Min(T)
    BY <1>1, <1>3 DEF SecondTs
  <1>7. SecondTs(inps) \in T /\ \A u \in T : SecondTs(inps) <= u
    BY <1>5, <1>6 DEF Min
  <1>8. ASSUME NEW n \in 1..Len(inps), n # b, NEW y \in ToSet(inps[n].buf)
        PROVE  SecondTs(inps) <= y
    <2>1. TsMin(inps[n]) \in T
      BY <1>3, <1>8
    <2>2. SecondTs(inps) <= TsMin(inps[n]) /\ TsMin(inps[n]) <= y
      BY <1>2, <1>7, <2>1
    <2>3. SecondTs(inps) \in Nat /\ TsMin(inps[n]) \in Nat /\ y \in Nat
      <3>1. inps[n].buf \in Seq(Ts)
        BY InpBufs
      <3> QED
        BY <1>4, <1>7, <2>1, <3>1, InToSet, TimeAssumption
    <2> QED
      BY <2>2, <2>3
  <1> QED
    BY <1>1, <1>4, <1>7, <1>8
-----------------------------------------------------------------------------
LEMMA UptoFacts ==
    ASSUME NEW S \in SUBSET Nat, NEW q \in Seq(S), Ordered(q, Le), NEW n \in Nat
    PROVE  /\ Upto(q, n) \in Seq(S) /\ Ordered(Upto(q, n), Le)
           /\ \A x : x \in ToSet(Upto(q, n)) <=> x \in ToSet(q) /\ x <= n
           /\ After(q, n) \in Seq(S) /\ Ordered(After(q, n), Le)
           /\ \A x : x \in ToSet(After(q, n)) <=> x \in ToSet(q) /\ x > n
  <1>1. PICK K : K = {t \in ToSet(q) : t <= n}
    OBVIOUS
  <1>2. PICK L : L = {t \in ToSet(q) : t > n}
    OBVIOUS
  <1>3. Upto(q, n) = Keep(q, K) /\ After(q, n) = Keep(q, L)
    BY <1>1, <1>2 DEF Upto, After
  <1>4. /\ Keep(q, K) \in Seq(S) /\ Ordered(Keep(q, K), Le)
        /\ ToSet(Keep(q, K)) = ToSet(q) \intersect K
    BY KeepType, KeepOrdered, KeepSet
  <1>5. /\ Keep(q, L) \in Seq(S) /\ Ordered(Keep(q, L), Le)
        /\ ToSet(Keep(q, L)) = ToSet(q) \intersect L
    BY KeepType, KeepOrdered, KeepSet
  <1> QED
    BY <1>1, <1>2, <1>3, <1>4, <1>5

LEMMA ItemFacts ==
    ASSUME HInv, NEW k \in Rts, NEW m \in MultiT, MultiOK(db_msp[k], m), HasItem(m),
           NEW mm, mm = WithoutItem(m), NEW q, q = Item(m)
    PROVE  /\ q \in Seq(Ts) /\ Ordered(q, Le)
           /\ mm \in MultiT /\ MultiOK(db_msp[k], mm)
           /\ mm.msps = m.msps /\ mm.ahead = m.ahead /\ mm.beg = m.beg
           /\ \A x \in Nat : Beyond(m, x) => Beyond(mm, x) /\ \A y \in ToSet(q) : x <= y
           /\ \A y \in ToSet(q) : Beyond(mm, y)
           /\ \A p, t : MultiHas(m, p, t) => MultiHas(mm, p, t) \/ t \in ToSet(q)
  <1>1. /\ m.inps \in Seq(InpT) /\ m.ahead \in Seq(StreamT) /\ m.inps # <<>>
        /\ Ts \subseteq Nat /\ Len(m.inps) \in Nat
    BY TimeAssumption DEF MultiT, HasItem
  <1>2. \A n \in 1..Len(m.inps) :
           /\ m.inps[n] \in InpT /\ m.inps[n].buf \in Seq(Ts) /\ m.inps[n].s \in StreamT
           /\ m.inps[n].buf # <<>> /\ Ordered(m.inps[n].buf, Le)
           /\ InpOK(db_msp[k], m.inps[n])
    <2>1. \A n \in 1..Len(m.inps) : m.inps[n] \in InpT /\ m.inps[n].buf \in Seq(Ts)
                                    /\ m.inps[n].s \in StreamT
      BY <1>1, InpBufs
    <2> QED
      BY <2>1 DEF MultiOK, InpOK, HasItem, AllFilled
  <1>3. PICK b \in 1..Len(m.inps) : b = BestInp(m.inps)
    BY <1>1, <1>2, BestInpFacts
  <1>4. PICK inp \in InpT : inp = m.inps[b]
    BY <1>2
  <1>5. PICK e : e = ItemEnd(m)
    OBVIOUS
  <1>6. /\ e \in Nat
        /\ \A n \in 1..Len(m.inps) : n # b => \A y \in ToSet(m.inps[n].buf) : e <= y
        /\ m.ahead # <<>> => ~(Start(m.ahead[1].msp) <= e)
    <2>1. CASE Len(m.inps) = 1
      <3>1. e = Last(m.inps[1].buf) /\ 1 \in 1..Len(m.inps)
        BY <1>1, <1>5, <2>1 DEF ItemEnd
      <3>2. e \in Ts
        BY <1>1, <1>2, <3>1, OrderedHead
      <3>3. m.ahead # <<>> => ~(Start(m.ahead[1].msp) <= e)
        BY <2>1, <3>1 DEF HasItem, MustOpen
      <3>4. \A n \in 1..Len(m.inps) : n = b
        BY <2>1
      <3> QED
        BY <1>1, <3>2, <3>3, <3>4
    <2>2. CASE Len(m.inps) # 1
      <3>1. e = SecondTs(m.inps)
        BY <1>5, <2>2 DEF ItemEnd
      <3>2. /\ SecondTs(m.inps) \in Ts
            /\ \A n \in 1..Len(m.inps) : n # BestInp(m.inps) =>
                 \A y \in ToSet(m.inps[n].buf) : SecondTs(m.inps) <= y
        BY <1>1, <1>2, <2>2, SecondTsFacts
      <3>3. Len(m.inps) > 1
        <4>1. Len(m.inps) # 0
          BY <1>1, EmptySeq
        <4>2. Len(m.inps) \in Nat /\ Len(m.inps) # 1
          BY <1>1, <2>2
        <4>3. \A l \in Nat : l # 0 /\ l # 1 => l > 1
          OBVIOUS
        <4> QED
          BY ONLY <4>1, <4>2, <4>3
      <3>4. m.ahead # <<>> => ~(Start(m.ahead[1].msp) <= e)
        BY <3>1, <3>3 DEF HasItem, MustOpen
      <3> QED
        BY <1>1, <1>3, <3>1, <3>2, <3>4
    <2> QED
      BY <2>1, <2>2
  <1>7. inp.buf \in Seq(Ts) /\ inp.s \in StreamT /\ InpOK(db_msp[k], inp)
        /\ Ordered(inp.buf, Le)
    BY <1>2, <1>4
  <1>8. q = Upto(inp.buf, e)
    BY <1>3, <1>4, <1>5 DEF Item
  <1>9. PICK rest : rest = After(inp.buf, e)
    OBVIOUS
  <1>10. /\ q \in Seq(Ts) /\ Ordered(q, Le)
         /\ \A x : x \in ToSet(q) <=> x \in ToSet(inp.buf) /\ x <= e
         /\ rest \in Seq(Ts) /\ Ordered(rest, Le)
         /\ \A x : x \in ToSet(rest) <=> x \in ToSet(inp.buf) /\ x > e
    <2>1. Ts \in SUBSET Nat /\ e \in Nat /\ inp.buf \in Seq(Ts) /\ Ordered(inp.buf, Le)
      BY <1>1, <1>6, <1>7
    <2>2. /\ Upto(inp.buf, e) \in Seq(Ts) /\ Ordered(Upto(inp.buf, e), Le)
          /\ \A x : x \in ToSet(Upto(inp.buf, e)) <=> x \in ToSet(inp.buf) /\ x <= e
          /\ After(inp.buf, e) \in Seq(Ts) /\ Ordered(After(inp.buf, e), Le)
          /\ \A x : x \in ToSet(After(inp.buf, e)) <=> x \in ToSet(inp.buf) /\ x > e
      BY ONLY <2>1, UptoFacts
    <2> QED
      BY <1>8, <1>9, <2>2
  <1>11. \A x \in ToSet(inp.buf) : x \in Ts /\ x \in Nat
    BY <1>1, <1>7, InToSet
  <1>12. PICK j : j = [inp EXCEPT !.buf = rest]
    OBVIOUS
  <1>13. j \in InpT /\ j.s = inp.s /\ j.buf = rest
    BY <1>10, <1>12 DEF InpT
  <1>14. PICK all : all = [m.inps EXCEPT ![b] = j]
    OBVIOUS
  <1>15. /\ all \in Seq(InpT) /\ Len(all) = Len(m.inps) /\ all[b] = j
         /\ \A n \in 1..Len(m.inps) : n # b => all[n] = m.inps[n]
    BY <1>1, <1>13, <1>14
  <1>16. /\ mm \in MultiT /\ mm.inps = all /\ mm.ahead = m.ahead /\ mm.msps = m.msps
         /\ mm.beg = m.beg
    <2>1. mm = [m EXCEPT !.inps = all]
      BY <1>3, <1>4, <1>5, <1>9, <1>12, <1>14 DEF MultiT, WithoutItem
    <2> QED
      BY <1>15, <2>1 DEF MultiT
  <1>17. InpOK(db_msp[k], j)
    BY <1>7, <1>10, <1>13 DEF InpOK
  <1>18. MultiOK(db_msp[k], mm)
    BY <1>15, <1>16, <1>17 DEF MultiOK
  <1>19. ASSUME NEW x \in Nat, Beyond(m, x)
         PROVE  Beyond(mm, x) /\ \A y \in ToSet(q) : x <= y
    <2>1. InpBeyond(inp, x)
      BY <1>4, <1>19 DEF Beyond
    <2>2. InpBeyond(j, x) /\ \A y \in ToSet(q) : x <= y
      BY <1>10, <1>13, <2>1 DEF InpBeyond
    <2> QED
      BY <1>15, <1>16, <1>19, <2>2 DEF Beyond
  <1>20. ASSUME NEW y \in ToSet(q) PROVE Beyond(mm, y)
    <2>1. y \in Nat /\ y <= e /\ y \in ToSet(inp.buf)
      BY <1>10, <1>11
    <2>2. InpBeyond(j, y)
      <3>1. inp.s.excl /\ y <= inp.s.beg /\ \A z \in Ts : InPages(inp.s, z) => y <= z
        BY <1>7, <2>1 DEF InpOK
      <3>2. \A z \in ToSet(rest) : y <= z
        BY <1>6, <1>10, <1>11, <2>1
      <3> QED
        BY <1>13, <3>1, <3>2 DEF InpBeyond, StreamBeyond
    <2>3. ASSUME NEW n \in 1..Len(m.inps), n # b PROVE InpBeyond(m.inps[n], y)
      <3>1. \A z \in ToSet(m.inps[n].buf) : z \in Nat /\ y <= z
        <4>1. \A z \in ToSet(m.inps[n].buf) : z \in Nat /\ e <= z
          <5>1. m.inps[n].buf \in Seq(Ts)
            BY <1>2
          <5>2. \A z \in ToSet(m.inps[n].buf) : z \in Ts
            BY ONLY <5>1, InToSet
          <5> QED
            BY <1>1, <1>6, <2>3, <5>2
        <4> QED
          BY <1>6, <2>1, <4>1
      <3>2. PICK h \in ToSet(m.inps[n].buf) : TRUE
        <4>1. m.inps[n].buf \in Seq(Ts) /\ m.inps[n].buf # <<>>
              /\ Ordered(m.inps[n].buf, Le)
          BY <1>2
        <4>2. Head(m.inps[n].buf) \in ToSet(m.inps[n].buf)
          BY <1>1, <4>1, OrderedHead
        <4> QED
          BY <4>2
      <3>3. /\ m.inps[n].s.excl /\ h <= m.inps[n].s.beg
            /\ \A z \in Ts : InPages(m.inps[n].s, z) => h <= z
        BY <1>2 DEF InpOK
      <3>4. h \in Nat /\ y <= h /\ m.inps[n].s.beg \in Nat
        <4>1. m.inps[n].s \in StreamT
          BY <1>2
        <4> QED
          BY <3>1, <4>1 DEF StreamT
      <3>5. y <= m.inps[n].s.beg /\ \A z \in Ts : InPages(m.inps[n].s, z) => y <= z
        BY <1>1, <2>1, <3>3, <3>4
      <3> QED
        BY <3>1, <3>3, <3>5 DEF InpBeyond, StreamBeyond
    <2>4. \A n \in 1..Len(all) : InpBeyond(all[n], y)
      BY <1>15, <2>2, <2>3
    <2>5. ASSUME m.ahead # <<>>
          PROVE  /\ \A n \in 1..Len(m.ahead) : y <= Start(m.ahead[n].msp)
                 /\ NoNewMsps(m.msps, y)
      <3>1. /\ Len(m.ahead) \in Nat /\ 1 \in 1..Len(m.ahead)
        <4>1. Len(m.ahead) \in Nat /\ Len(m.ahead) # 0
          BY <1>1, <2>5, EmptySeq
        <4> QED
          BY <4>1
      <3>2. \A n \in 1..Len(m.ahead) : m.ahead[n].msp \in Nat /\ Start(m.ahead[n].msp) \in Nat
        <4>1. \A n \in 1..Len(m.ahead) : m.ahead[n] \in StreamT
          BY <1>1, InToSet
        <4>2. \A n \in 1..Len(m.ahead) : m.ahead[n].msp \in Nat
          BY <4>1 DEF StreamT
        <4> QED
          BY <4>2, StartNat
      <3>3. y <= Start(m.ahead[1].msp)
        BY <1>6, <2>1, <2>5, <3>1, <3>2
      <3>4. ASSUME NEW n \in 1..Len(m.ahead) PROVE y <= Start(m.ahead[n].msp)
        <4>1. 1 < n \/ n = 1
          BY <3>1
        <4>2. 1 < n => m.ahead[1].msp <= m.ahead[n].msp
          BY <3>1 DEF MultiOK
        <4>3. m.ahead[1].msp \in Int /\ m.ahead[n].msp \in Int
          BY <3>1, <3>2
        <4>4. 1 < n => Start(m.ahead[1].msp) <= Start(m.ahead[n].msp)
          BY <4>2, <4>3, StartMono
        <4> QED
          BY <2>1, <3>1, <3>2, <3>3, <4>1, <4>4
      <3>5. NoNewMsps(m.msps, Start(m.ahead[1].msp))
        BY <3>1 DEF MultiOK
      <3>6. m.msps \in MspStreamT /\ m.msps.beg \in Int
        BY DEF MultiT, MspStreamT
      <3> QED
        BY <2>1, <3>1, <3>2, <3>3, <3>4, <3>5, <3>6 DEF NoNewMsps
    <2>6. ASSUME m.ahead = <<>>
          PROVE  /\ \A n \in 1..Len(m.ahead) : y <= Start(m.ahead[n].msp)
                 /\ NoNewMsps(m.msps, y)
      BY <2>6 DEF HasItem, NextMspKnown, NoNewMsps
    <2> QED
      BY <1>16, <2>4, <2>5, <2>6 DEF Beyond
  <1>21. ASSUME NEW p, NEW t, MultiHas(m, p, t) PROVE MultiHas(mm, p, t) \/ t \in ToSet(q)
    <2>1. CASE \E n \in 1..Len(m.inps) : InpHas(m.inps[n], p, t)
      <3>1. PICK n \in 1..Len(m.inps) : InpHas(m.inps[n], p, t)
        BY <2>1
      <3>2. CASE n = b
        <4>1. t \in ToSet(inp.buf) => t \in ToSet(q) \/ t \in ToSet(rest)
          BY <1>6, <1>10, <1>11
        <4>2. InpHas(j, p, t) \/ t \in ToSet(q)
          BY <1>4, <1>13, <3>1, <3>2, <4>1 DEF InpHas
        <4> QED
          BY <1>15, <1>16, <4>2 DEF MultiHas
      <3>3. CASE n # b
        BY <1>15, <1>16, <3>1, <3>3 DEF MultiHas
      <3> QED
        BY <3>2, <3>3
    <2>2. CASE ~\E n \in 1..Len(m.inps) : InpHas(m.inps[n], p, t)
      BY <1>16, <1>21, <2>2 DEF MultiHas
    <2> QED
      BY <2>1, <2>2
  <1> QED
    BY <1>10, <1>16, <1>18, <1>19, <1>20, <1>21
-----------------------------------------------------------------------------
Kss == ToSet(Keyspaces)
RangeT == [beg : Nat, end : Nat, one : BOOLEAN]
Setup == phase \in {"bck", "lst"}

(* What the merge has taken from the streams.                              *)
Out == merged \o evbuf

ReaderTypes ==
    /\ phase \in {"idle", "bck", "lst", "read", "done"}
    /\ ks \in Nat /\ (Setup => ks \in 1..Len(Keyspaces))
    /\ range \in RangeT /\ range.beg <= range.end
    /\ before \in Nat
    /\ multi \in [Kss -> MultiT] /\ buf \in [Kss -> Seq(Ts)]
    /\ evbuf \in Seq(Ts) /\ merged \in Seq(Ts) /\ Len(evbuf) <= MergeLimit
    /\ phase \in {"idle", "bck", "lst"} =>
         Out = <<>> /\ \A k \in Kss : buf[k] = <<>>
    /\ item_lost \in BOOLEAN
    /\ phase = "done" => evbuf = <<>>

(* The partitions before the range that have been found.                   *)
BckOK ==
    /\ bck.msps \in Seq(Nat) /\ bck.s \in MspStreamT /\ Ordered(bck.msps, Lt)
    /\ bck.left \subseteq ToSet(bck.msps)
    /\ Setup =>
         /\ ToSet(bck.msps) \subseteq db_msp[Keyspaces[ks]]
         /\ bck.s.end = range.beg
         /\ \A p \in ToSet(bck.msps) : p < Ms(range.beg) /\ NoNewMsps(bck.s, Start(p))

KsOK(M, out, m, b) ==
    /\ MultiOK(M, m) /\ Ordered(b, Le)
    /\ \A y \in ToSet(b) : Beyond(m, y)
    /\ \A x \in ToSet(out) : Beyond(m, x) /\ \A y \in ToSet(b) : x <= y

OrderInv ==
    /\ Ordered(Out, Le)
    /\ \A k \in Kss : KsOK(db_msp[k], Out, multi[k], buf[k])

RInv == ReaderTypes /\ BckOK /\ OrderInv

(* An event of keyspace k has been handed on or will be.                   *)
Tracked(k, p, t) ==
    t \in ToSet(Out) \/ t \in ToSet(buf[k]) \/ MultiHas(multi[k], p, t)

LEMMA KssFacts ==
    /\ Kss \subseteq Rts /\ \A i \in 1..Len(Keyspaces) : Keyspaces[i] \in Kss
    /\ \A k \in Kss : \E i \in 1..Len(Keyspaces) : Keyspaces[i] = k
  <1>1. Keyspaces \in Seq(Rts)
    BY ReaderAssumption
  <1> QED
    BY <1>1, InToSet DEF Kss

LEMMA ReaderFacts ==
    ASSUME RInv, NEW k \in Kss
    PROVE  /\ multi[k] \in MultiT /\ buf[k] \in Seq(Ts) /\ Out \in Seq(Ts)
           /\ MultiOK(db_msp[k], multi[k]) /\ KsOK(db_msp[k], Out, multi[k], buf[k])
           /\ k \in Rts /\ range.end \in Nat /\ range.beg \in Nat /\ Ts \subseteq Nat
  <1>1. ReaderTypes /\ KsOK(db_msp[k], Out, multi[k], buf[k])
    BY DEF RInv, OrderInv
  <1>2. evbuf \in Seq(Ts) /\ merged \in Seq(Ts)
    BY <1>1 DEF ReaderTypes
  <1>3. Out \in Seq(Ts)
    BY <1>2, ConcatOf DEF Out
  <1>4. multi[k] \in MultiT /\ buf[k] \in Seq(Ts) /\ range \in RangeT
    BY <1>1 DEF ReaderTypes
  <1>5. range.end \in Nat /\ range.beg \in Nat
    BY <1>4 DEF RangeT
  <1> QED
    BY <1>1, <1>3, <1>4, <1>5, KssFacts, TimeAssumption DEF KsOK

LEMMA MultiOKGrows ==
    ASSUME NEW M, NEW M2, M \subseteq M2, NEW m, MultiOK(M, m)
    PROVE  MultiOK(M2, m)
  <1>1. \A s : StreamOK(M, s) => StreamOK(M2, s)
    BY DEF StreamOK
  <1>2. \A i : InpOK(M, i) => InpOK(M2, i)
    BY <1>1 DEF InpOK
  <1> QED
    BY <1>1, <1>2 DEF MultiOK

(* The tables grow under a reader.                                         *)
LEMMA GrowsReader ==
    ASSUME RInv, UNCHANGED readerVars, \A k \in Rts : db_msp[k] \subseteq db_msp'[k]
    PROVE  RInv' /\ \A k \in Kss : \A p, t : Tracked(k, p, t)' = Tracked(k, p, t)
  <1>1. /\ phase' = phase /\ ks' = ks /\ range' = range /\ bck' = bck /\ before' = before
        /\ multi' = multi /\ buf' = buf /\ evbuf' = evbuf /\ merged' = merged
        /\ item_lost' = item_lost
    BY DEF readerVars, history
  <1>2. ReaderTypes'
    BY <1>1 DEF RInv, ReaderTypes, Out, Setup
  <1>3. BckOK'
    <2>1. Setup => Keyspaces[ks] \in Rts
      BY KssFacts DEF RInv, ReaderTypes
    <2>2. BckOK
      BY DEF RInv
    <2>3. Setup => db_msp[Keyspaces[ks]] \subseteq db_msp'[Keyspaces[ks]]
      BY <2>1
    <2> QED
      BY <1>1, <2>2, <2>3 DEF BckOK, Setup
  <1>4. OrderInv'
    <2>1. ASSUME NEW k \in Kss PROVE KsOK(db_msp'[k], Out, multi[k], buf[k])
      <3>1. KsOK(db_msp[k], Out, multi[k], buf[k]) /\ db_msp[k] \subseteq db_msp'[k]
        BY KssFacts DEF RInv, OrderInv
      <3>2. MultiOK(db_msp'[k], multi[k])
        BY <3>1, MultiOKGrows DEF KsOK
      <3> QED
        BY <3>1, <3>2 DEF KsOK
    <2> QED
      BY <1>1, <2>1 DEF RInv, OrderInv, Out
  <1>5. \A k \in Kss : \A p, t : Tracked(k, p, t)' = Tracked(k, p, t)
    BY <1>1 DEF Tracked, Out
  <1> QED
    BY <1>2, <1>3, <1>4, <1>5 DEF RInv

(* One stream changes, and with it what LspMerge holds of it.              *)
LEMMA SetReader ==
    ASSUME RInv, phase = "read", NEW k \in Kss, NEW mr, NEW b,
           multi' = [multi EXCEPT ![k] = mr], buf' = [buf EXCEPT ![k] = b],
           UNCHANGED <<phase, ks, range, bck, before, evbuf, merged, db_msp>>,
           item_lost' \in BOOLEAN, mr \in MultiT, b \in Seq(Ts),
           KsOK(db_msp[k], Out, mr, b)
    PROVE  /\ RInv'
           /\ \A j \in Kss : \A p, t : Tracked(j, p, t) /\ j # k => Tracked(j, p, t)'
           /\ \A p, t : t \in ToSet(Out) \/ t \in ToSet(b) \/ MultiHas(mr, p, t)
                        => Tracked(k, p, t)'
  <1>1. Out' = Out
    BY DEF Out
  <1>2. multi \in [Kss -> MultiT] /\ buf \in [Kss -> Seq(Ts)]
    BY DEF RInv, ReaderTypes
  <1>3. /\ multi' \in [Kss -> MultiT] /\ buf' \in [Kss -> Seq(Ts)]
        /\ multi'[k] = mr /\ buf'[k] = b
        /\ \A j \in Kss : j # k => multi'[j] = multi[j] /\ buf'[j] = buf[j]
    BY <1>2
  <1>4. ReaderTypes'
    BY <1>1, <1>3 DEF RInv, ReaderTypes, Setup
  <1>5. BckOK'
    BY DEF RInv, BckOK, Setup
  <1>6. OrderInv'
    BY <1>1, <1>3 DEF RInv, OrderInv
  <1>7. \A j \in Kss : \A p, t : Tracked(j, p, t) /\ j # k => Tracked(j, p, t)'
    BY <1>1, <1>3 DEF Tracked
  <1>8. \A p, t : t \in ToSet(Out) \/ t \in ToSet(b) \/ MultiHas(mr, p, t)
                        => Tracked(k, p, t)'
    BY <1>1, <1>3 DEF Tracked
  <1> QED
    BY <1>4, <1>5, <1>6, <1>7, <1>8 DEF RInv

(* Nothing that is known is lost.                                          *)
TracksAll == \A k \in Kss : \A p, t : Known(k, p, t) /\ Tracked(k, p, t) => Tracked(k, p, t)'

LEMMA CarriesReader ==
    ASSUME HInv, RInv, phase = "read", NEW k \in Kss, NEW mm, Carries(k, multi[k], mm),
           SetMulti(k, mm), UNCHANGED <<buf, merged, item_lost, dbVars>>
    PROVE  RInv' /\ TracksAll
  <1>1. /\ multi[k] \in MultiT /\ buf[k] \in Seq(Ts) /\ k \in Rts /\ Out \in Seq(Ts)
        /\ KsOK(db_msp[k], Out, multi[k], buf[k]) /\ Ts \subseteq Nat
        /\ buf \in [Kss -> Seq(Ts)]
    BY ReaderFacts DEF RInv, ReaderTypes
  <1>2. PICK mr : mr = [mm EXCEPT !.inps = Retained(@)]
    OBVIOUS
  <1>3. Carries(k, multi[k], mr)
    BY <1>1, <1>2, CarriesKept
  <1>4. /\ multi' = [multi EXCEPT ![k] = mr]
        /\ UNCHANGED <<phase, ks, range, bck, before, evbuf, merged, db_msp>>
    BY <1>2 DEF SetMulti, dbVars
  <1>5. buf' = [buf EXCEPT ![k] = buf[k]] /\ item_lost' \in BOOLEAN
    BY <1>1 DEF RInv, ReaderTypes
  <1>6. \A x \in ToSet(Out) \union ToSet(buf[k]) : x \in Nat
    BY <1>1, InToSet
  <1>7. mr \in MultiT /\ KsOK(db_msp[k], Out, mr, buf[k])
    BY <1>1, <1>3, <1>6 DEF KsOK, Carries
  <1>8. /\ RInv'
        /\ \A j \in Kss : \A p, t : Tracked(j, p, t) /\ j # k => Tracked(j, p, t)'
        /\ \A p, t : t \in ToSet(Out) \/ t \in ToSet(buf[k]) \/ MultiHas(mr, p, t)
                        => Tracked(k, p, t)'
    BY <1>1, <1>4, <1>5, <1>7, SetReader
  <1>9. ASSUME NEW p, NEW t, Known(k, p, t), Tracked(k, p, t) PROVE Tracked(k, p, t)'
    BY <1>3, <1>8, <1>9 DEF Tracked, Carries
  <1> QED
    BY <1>8, <1>9 DEF TracksAll
-----------------------------------------------------------------------------
LEMMA MinOfTwo ==
    ASSUME NEW a \in Nat, NEW b \in Nat
    PROVE  Min({a, b}) \in Nat /\ Min({a, b}) <= a /\ Min({a, b}) <= b
           /\ Min({a, b}) \in {a, b}
  <1>1. \E x \in {a, b} : \A y \in {a, b} : x <= y
    BY LeastNat
  <1> QED
    BY <1>1 DEF Min

LEMMA OpenNextMspReader ==
    ASSUME HInv, RInv, NEW k \in Kss, OpenNextMsp(k), UNCHANGED dbVars
    PROVE  RInv' /\ TracksAll
  <1>1. PICK m : m = multi[k]
    OBVIOUS
  <1>2. PICK mm : mm = [m EXCEPT !.ahead = Tail(@), !.inps = Append(@, Inp(m.ahead[1]))]
    OBVIOUS
  <1>3. phase = "read" /\ m.ahead # <<>> /\ SetMulti(k, mm)
        /\ UNCHANGED <<buf, merged, item_lost>>
    BY <1>1, <1>2 DEF OpenNextMsp, CanOpen, MustOpen
  <1>4. m \in MultiT /\ MultiOK(db_msp[k], m) /\ k \in Rts
    BY <1>1, ReaderFacts
  <1>5. Carries(k, multi[k], mm)
    BY <1>1, <1>2, <1>3, <1>4, OpenedCarries
  <1> QED
    BY <1>3, <1>5, CarriesReader

LEMMA MspPageReader ==
    ASSUME HInv, RInv, NEW k \in Kss, MspPage(k), UNCHANGED dbVars
    PROVE  RInv' /\ TracksAll
  <1>1. PICK m : m = multi[k]
    OBVIOUS
  <1>2. PICK page : page = MspQuery(k, m.msps.beg, m.msps.end, m.msps.excl, MspLimit)
    OBVIOUS
  <1>3. phase = "read" /\ ~Exhausted(m.msps) /\ SetMulti(k, WithMsps(m, page))
        /\ UNCHANGED <<buf, merged, item_lost>>
    BY <1>1, <1>2 DEF MspPage, NextMsps
  <1>4. m \in MultiT /\ MultiOK(db_msp[k], m) /\ k \in Rts
    BY <1>1, ReaderFacts
  <1>5. Carries(k, m, WithMsps(m, page))
    BY <1>2, <1>3, <1>4, WithMspsCarries
  <1> QED
    BY <1>1, <1>3, <1>5, CarriesReader

LEMMA PreopenPageReader ==
    ASSUME HInv, RInv, NEW k \in Kss, PreopenPage(k), UNCHANGED dbVars
    PROVE  RInv' /\ TracksAll
  <1>1. PICK m : m = multi[k]
    OBVIOUS
  <1>2. m \in MultiT /\ MultiOK(db_msp[k], m) /\ k \in Rts /\ range.end \in Nat
    BY <1>1, ReaderFacts
  <1>3. PICK i \in 1..Min({Preopen, Len(m.ahead)}) :
           /\ Fetches(m.ahead[i])
           /\ SetMulti(k, [m EXCEPT !.ahead[i] = Fetched(k, m.ahead[i])])
    BY <1>1 DEF PreopenPage
  <1>4. phase = "read" /\ UNCHANGED <<buf, merged, item_lost>>
    BY DEF PreopenPage
  <1>5. i \in 1..Len(m.ahead) /\ ~m.ahead[i].done
    <2>1. Preopen \in Nat /\ Len(m.ahead) \in Nat
      BY <1>2, ReaderAssumption DEF MultiT
    <2>2. Min({Preopen, Len(m.ahead)}) \in Nat /\ Min({Preopen, Len(m.ahead)}) <= Len(m.ahead)
      BY <2>1, MinOfTwo
    <2> QED
      BY <1>3, <2>1, <2>2 DEF Fetches
  <1>6. Carries(k, m, [m EXCEPT !.ahead[i] = Fetched(k, m.ahead[i])])
    BY <1>2, <1>5, AheadCarries
  <1> QED
    BY <1>1, <1>3, <1>4, <1>6, CarriesReader

LEMMA InputPageReader ==
    ASSUME HInv, RInv, NEW k \in Kss, InputPage(k), UNCHANGED dbVars
    PROVE  RInv' /\ TracksAll
  <1>1. PICK m : m = multi[k]
    OBVIOUS
  <1>2. m \in MultiT /\ MultiOK(db_msp[k], m) /\ k \in Rts /\ range.end \in Nat
    BY <1>1, ReaderFacts
  <1>3. PICK i \in 1..Len(m.inps) :
           /\ Fetches(m.inps[i].s)
           /\ SetMulti(k, [m EXCEPT !.inps[i].s = Fetched(k, m.inps[i].s)])
    BY <1>1 DEF InputPage
  <1>4. phase = "read" /\ UNCHANGED <<buf, merged, item_lost>> /\ ~m.inps[i].s.done
    BY <1>3 DEF InputPage, Fetches
  <1>5. Carries(k, m, [m EXCEPT !.inps[i].s = Fetched(k, m.inps[i].s)])
    BY <1>2, <1>4, InpCarries
  <1> QED
    BY <1>1, <1>3, <1>4, <1>5, CarriesReader

LEMMA MultiItemReader ==
    ASSUME HInv, RInv, NEW k \in Kss, MultiItem(k), UNCHANGED dbVars
    PROVE  RInv' /\ TracksAll
  <1>1. PICK m : m = multi[k]
    OBVIOUS
  <1>2. /\ m \in MultiT /\ MultiOK(db_msp[k], m) /\ k \in Rts /\ Out \in Seq(Ts)
        /\ KsOK(db_msp[k], Out, m, buf[k]) /\ Ts \subseteq Nat
        /\ buf \in [Kss -> Seq(Ts)]
    BY <1>1, ReaderFacts DEF RInv, ReaderTypes
  <1>3. PICK q : q = Item(m)
    OBVIOUS
  <1>4. PICK mm : mm = WithoutItem(m)
    OBVIOUS
  <1>5. /\ phase = "read" /\ buf[k] = <<>> /\ HasItem(m) /\ buf' = [buf EXCEPT ![k] = q]
        /\ SetMulti(k, mm) /\ UNCHANGED <<merged, item_lost>>
    BY <1>1, <1>3, <1>4 DEF MultiItem
  <1>6. /\ q \in Seq(Ts) /\ Ordered(q, Le)
        /\ mm \in MultiT /\ MultiOK(db_msp[k], mm)
        /\ \A x \in Nat : Beyond(m, x) => Beyond(mm, x) /\ \A y \in ToSet(q) : x <= y
        /\ \A y \in ToSet(q) : Beyond(mm, y)
        /\ \A p, t : MultiHas(m, p, t) => MultiHas(mm, p, t) \/ t \in ToSet(q)
    BY <1>2, <1>3, <1>4, <1>5, ItemFacts
  <1>7. PICK mr : mr = [mm EXCEPT !.inps = Retained(@)]
    OBVIOUS
  <1>8. /\ mr \in MultiT /\ MultiOK(db_msp[k], mr)
        /\ \A x \in Nat : Beyond(mm, x) => Beyond(mr, x)
        /\ \A p \in Nat, t \in Ts : MultiHas(mm, p, t) => MultiHas(mr, p, t)
    BY <1>6, <1>7, KeptMulti
  <1>9. /\ multi' = [multi EXCEPT ![k] = mr] /\ item_lost' \in BOOLEAN
        /\ UNCHANGED <<phase, ks, range, bck, before, evbuf, merged, db_msp>>
    BY <1>5, <1>7 DEF SetMulti, dbVars, RInv, ReaderTypes
  <1>10. \A x \in ToSet(Out) \union ToSet(q) : x \in Nat
    BY <1>2, <1>6, InToSet
  <1>11. KsOK(db_msp[k], Out, mr, q)
    BY <1>2, <1>6, <1>8, <1>10 DEF KsOK
  <1>12. /\ RInv'
         /\ \A j \in Kss : \A p, t : Tracked(j, p, t) /\ j # k => Tracked(j, p, t)'
         /\ \A p, t : t \in ToSet(Out) \/ t \in ToSet(q) \/ MultiHas(mr, p, t)
                        => Tracked(k, p, t)'
    BY <1>5, <1>6, <1>8, <1>9, <1>11, SetReader
  <1>13. ASSUME NEW p, NEW t, Known(k, p, t), Tracked(k, p, t) PROVE Tracked(k, p, t)'
    <2>1. t \notin ToSet(buf[k])
      BY <1>5 DEF ToSet
    <2>2. p \in Nat /\ t \in Ts
      BY <1>2, <1>13, TableFacts DEF Known
    <2>3. t \in ToSet(Out) \/ t \in ToSet(q) \/ MultiHas(mr, p, t)
      BY <1>1, <1>6, <1>8, <1>13, <2>1, <2>2 DEF Tracked
    <2> QED
      BY <1>12, <2>3
  <1> QED
    BY <1>12, <1>13 DEF TracksAll

LEMMA ItemDroppedReader ==
    ASSUME HInv, RInv, NEW k \in Kss, ItemDropped(k), UNCHANGED dbVars
    PROVE  RInv'
  <1>1. PICK m : m = multi[k]
    OBVIOUS
  <1>2. /\ m \in MultiT /\ MultiOK(db_msp[k], m) /\ k \in Rts /\ Out \in Seq(Ts)
        /\ KsOK(db_msp[k], Out, m, buf[k]) /\ Ts \subseteq Nat
        /\ buf \in [Kss -> Seq(Ts)] /\ buf[k] \in Seq(Ts)
    BY <1>1, ReaderFacts DEF RInv, ReaderTypes
  <1>3. PICK wi : wi = WithoutItem(m)
    OBVIOUS
  <1>4. PICK page : page = MspQuery(k, m.msps.beg, m.msps.end, m.msps.excl, MspLimit)
    OBVIOUS
  <1>5. PICK mm : mm = WithMsps(wi, page)
    OBVIOUS
  <1>6. /\ phase = "read" /\ buf[k] = <<>> /\ HasItem(m) /\ ~Exhausted(m.msps)
        /\ SetMulti(k, mm) /\ UNCHANGED <<merged, buf>> /\ item_lost' = TRUE
    BY <1>1, <1>3, <1>4, <1>5 DEF ItemDropped, NextMsps
  <1>7. /\ wi \in MultiT /\ MultiOK(db_msp[k], wi) /\ wi.msps = m.msps
        /\ \A x \in Nat : Beyond(m, x) => Beyond(wi, x)
    BY <1>2, <1>3, <1>6, ItemFacts
  <1>8. Carries(k, wi, mm)
    <2>1. page = MspQuery(k, wi.msps.beg, wi.msps.end, wi.msps.excl, MspLimit)
          /\ ~Exhausted(wi.msps)
      BY <1>4, <1>6, <1>7
    <2> QED
      BY <1>2, <1>5, <1>7, <2>1, WithMspsCarries
  <1>9. PICK mr : mr = [mm EXCEPT !.inps = Retained(@)]
    OBVIOUS
  <1>10. Carries(k, wi, mr)
    BY <1>2, <1>8, <1>9, CarriesKept
  <1>11. \A x \in ToSet(Out) \union ToSet(buf[k]) : x \in Nat
    BY <1>2, InToSet
  <1>12. mr \in MultiT /\ KsOK(db_msp[k], Out, mr, buf[k])
    BY <1>2, <1>7, <1>10, <1>11 DEF KsOK, Carries
  <1>13. /\ multi' = [multi EXCEPT ![k] = mr] /\ item_lost' \in BOOLEAN
         /\ buf' = [buf EXCEPT ![k] = buf[k]]
         /\ UNCHANGED <<phase, ks, range, bck, before, evbuf, merged, db_msp>>
    BY <1>2, <1>6, <1>9 DEF SetMulti, dbVars
  <1> QED
    BY <1>2, <1>6, <1>12, <1>13, SetReader
-----------------------------------------------------------------------------
LEMMA SplitOf ==
    ASSUME NEW S, NEW q \in Seq(S), NEW n \in 0..Len(q)
    PROVE  /\ SubSeq(q, 1, n) \in Seq(S) /\ SubSeq(q, n + 1, Len(q)) \in Seq(S)
           /\ q = SubSeq(q, 1, n) \o SubSeq(q, n + 1, Len(q)) /\ Len(SubSeq(q, 1, n)) = n
           /\ \A x \in ToSet(SubSeq(q, 1, n)) : \E i \in 1..n : x = q[i]
           /\ \A x \in ToSet(SubSeq(q, n + 1, Len(q))) : \E i \in (n + 1)..Len(q) : x = q[i]
  <1>1. /\ SubSeq(q, 1, n) \in Seq(S) /\ SubSeq(q, n + 1, Len(q)) \in Seq(S)
        /\ q = SubSeq(q, 1, n) \o SubSeq(q, n + 1, Len(q))
    BY SplitAt
  <1>2. ToSet(SubSeq(q, 1, n)) = {q[i] : i \in 1..n}
    BY SplitAt, ZenonT(40)
  <1>3. ToSet(SubSeq(q, n + 1, Len(q))) = {q[i] : i \in (n + 1)..Len(q)}
    BY SplitAt, ZenonT(40)
  <1>4. Len(SubSeq(q, 1, n)) = n
    OBVIOUS
  <1> QED
    BY <1>1, <1>2, <1>3, <1>4

LEMMA UptoIsPrefix ==
    ASSUME NEW S \in SUBSET Nat, NEW q \in Seq(S), Ordered(q, Le), NEW n \in Nat
    PROVE  /\ Len(Upto(q, n)) \in 0..Len(q)
           /\ \A i \in 1..Len(Upto(q, n)) : q[i] <= n
  <1>1. PICK K : K = {t \in ToSet(q) : t <= n}
    OBVIOUS
  <1>2. Upto(q, n) = Keep(q, K)
    BY <1>1 DEF Upto
  <1>3. Len(Keep(q, K)) \in Nat /\ Len(Keep(q, K)) <= Len(q) /\ Len(q) \in Nat
    BY KeepType, KeepLen
  <1>4. ASSUME NEW i \in 1..Len(Keep(q, K)), ~(q[i] <= n) PROVE FALSE
    <2>1. i \in 1..Len(q) /\ i - 1 \in 0..Len(q) /\ i - 1 \in Nat
      BY <1>3
    <2>2. PICK p : p = SubSeq(q, 1, i - 1)
      OBVIOUS
    <2>3. PICK r : r = SubSeq(q, (i - 1) + 1, Len(q))
      OBVIOUS
    <2>4. /\ p \in Seq(S) /\ r \in Seq(S) /\ q = p \o r
          /\ \A x \in ToSet(r) : \E j \in ((i - 1) + 1)..Len(q) : x = q[j]
          /\ Len(p) = i - 1
      BY <2>1, <2>2, <2>3, SplitOf
    <2>6. \A j \in ((i - 1) + 1)..Len(q) : ~(q[j] <= n)
      <3>1. ASSUME NEW j \in ((i - 1) + 1)..Len(q), q[j] <= n PROVE FALSE
        <4>1. j \in 1..Len(q) /\ (i < j \/ i = j)
          BY <1>3, <2>1
        <4>2. q[i] \in Nat /\ q[j] \in Nat
          BY <2>1, <4>1, InToSet
        <4>3. i < j => <<q[i], q[j]>> \in Le
          BY <2>1, <4>1 DEF Ordered
        <4>4. q[i] <= q[j]
          BY <4>1, <4>2, <4>3, PairFacts
        <4> QED
          BY <1>4, <3>1, <4>2, <4>4
      <3> QED
        BY <3>1
    <2>7. ToSet(r) \intersect K = {}
      BY <1>1, <2>4, <2>6
    <2>8. Keep(r, K) = <<>>
      BY <2>4, <2>7, KeepOne
    <2>9. Keep(q, K) = Keep(p, K) \o Keep(r, K)
      BY <2>4, KeepConcat
    <2>10. Keep(p, K) \in Seq(S) /\ Len(Keep(p, K)) <= Len(p)
      BY <2>4, KeepType, KeepLen
    <2>11. Keep(q, K) = Keep(p, K)
      BY <2>8, <2>9, <2>10, ConcatEmptySeq
    <2> QED
      BY <1>3, <2>1, <2>4, <2>10, <2>11
  <1> QED
    BY <1>2, <1>3, <1>4

LEMMA BeyondLess ==
    ASSUME NEW m \in MultiT, NEW h \in Nat, Beyond(m, h), NEW x \in Nat, x <= h
    PROVE  Beyond(m, x)
  <1>1. m.inps \in Seq(InpT) /\ m.ahead \in Seq(StreamT) /\ m.msps \in MspStreamT
        /\ Ts \subseteq Nat
    BY TimeAssumption DEF MultiT
  <1>2. ASSUME NEW n \in 1..Len(m.inps) PROVE InpBeyond(m.inps[n], x)
    <2>1. m.inps[n].buf \in Seq(Ts) /\ m.inps[n].s \in StreamT
      BY <1>1, InpBufs
    <2>2. m.inps[n].s.beg \in Nat /\ m.inps[n].s.msp \in Nat
      BY <2>1 DEF StreamT
    <2>3. Start(m.inps[n].s.msp) \in Nat
      BY <2>2, StartNat
    <2>4. \A y \in ToSet(m.inps[n].buf) : y \in Nat
      BY <1>1, <2>1, InToSet, ZenonT(60)
    <2>5. InpBeyond(m.inps[n], h)
      BY DEF Beyond
    <2> QED
      BY <1>1, <2>2, <2>3, <2>4, <2>5 DEF InpBeyond, StreamBeyond
  <1>3. ASSUME NEW n \in 1..Len(m.ahead) PROVE x <= Start(m.ahead[n].msp)
    <2>1. m.ahead[n] \in StreamT
      BY <1>1, InToSet
    <2>2. Start(m.ahead[n].msp) \in Nat
      BY <2>1, StartNat DEF StreamT
    <2> QED
      BY <2>2 DEF Beyond
  <1>4. NoNewMsps(m.msps, x)
    <2>1. m.msps.beg \in Int
      BY <1>1 DEF MspStreamT
    <2> QED
      BY <2>1 DEF Beyond, NoNewMsps
  <1> QED
    BY <1>2, <1>3, <1>4 DEF Beyond

LEMMA BestKsFacts ==
    ASSUME RInv, Feeding # {}
    PROVE  BestKs \in Feeding
  <1>1. Feeding \subseteq Kss /\ \A k \in Feeding : buf[k] # <<>>
    BY DEF Feeding, Kss
  <1>2. \A k \in Feeding : Head(buf[k]) \in Nat
    <2>1. \A k \in Feeding : buf[k] \in Seq(Ts) /\ buf[k] # <<>>
      BY <1>1, ReaderFacts
    <2>2. \A q \in Seq(Ts) : q # <<>> => Head(q) \in Ts
      OBVIOUS
    <2> QED
      BY <2>1, <2>2, TimeAssumption
  <1>3. \A k \in Kss : KsIndex(k) \in Nat
    <2>1. ASSUME NEW k \in Kss PROVE \E i \in 1..Len(Keyspaces) : Keyspaces[i] = k
      BY InToSet, ReaderAssumption DEF Kss
    <2> QED
      BY <2>1 DEF KsIndex
  <1>4. PICK T : T = {Head(buf[k]) : k \in Feeding}
    OBVIOUS
  <1>5. PICK t \in T : \A u \in T : t <= u
    <2>1. T \in SUBSET Nat /\ T # {}
      BY <1>2, <1>4
    <2> QED
      BY <2>1, LeastNat
  <1>6. PICK I : I = {KsIndex(k) : k \in {j \in Feeding : Head(buf[j]) = t}}
    OBVIOUS
  <1>7. PICK i \in I : \A j \in I : i <= j
    <2>1. I \in SUBSET Nat /\ I # {}
      BY <1>1, <1>3, <1>4, <1>6
    <2> QED
      BY <2>1, LeastNat
  <1>8. PICK k \in Feeding : Head(buf[k]) = t /\ KsIndex(k) = i
    BY <1>6
  <1>9. ASSUME NEW j \in Feeding
        PROVE  \/ Head(buf[k]) < Head(buf[j])
               \/ Head(buf[k]) = Head(buf[j]) /\ KsIndex(k) <= KsIndex(j)
    <2>1. t <= Head(buf[j]) /\ t \in Nat /\ Head(buf[j]) \in Nat
      BY <1>2, <1>4, <1>5, <1>8
    <2>2. Head(buf[j]) = t => KsIndex(k) <= KsIndex(j)
      BY <1>6, <1>7, <1>8
    <2> QED
      BY <1>8, <2>1, <2>2
  <1> QED
    BY <1>8, <1>9 DEF BestKs

(* LspMerge takes n events of the keyspace bk.                             *)
LEMMA DrainReader ==
    ASSUME HInv, RInv, phase = "read", MergeReady, NEW bk \in Feeding, NEW n \in 0..Len(buf[bk]),
           \A j \in Feeding : j # bk => \A i \in 1..n : buf[bk][i] <= Head(buf[j]),
           evbuf' \in Seq(Ts), merged' \in Seq(Ts), Len(evbuf') <= MergeLimit,
           Out' = Out \o SubSeq(buf[bk], 1, n),
           buf' = [buf EXCEPT ![bk] = SubSeq(@, n + 1, Len(@))],
           UNCHANGED <<phase, ks, range, bck, before, multi, history, dbVars>>
    PROVE  RInv' /\ TracksAll
  <1>1. bk \in Kss /\ buf[bk] # <<>>
    BY DEF Feeding, Kss
  <1>2. /\ buf[bk] \in Seq(Ts) /\ Out \in Seq(Ts) /\ Ts \subseteq Nat
        /\ KsOK(db_msp[bk], Out, multi[bk], buf[bk])
        /\ buf \in [Kss -> Seq(Ts)] /\ multi \in [Kss -> MultiT] /\ Ordered(Out, Le)
    BY <1>1, ReaderFacts DEF RInv, ReaderTypes, OrderInv
  <1>3. PICK b : b = buf[bk]
    OBVIOUS
  <1>4. PICK first : first = SubSeq(b, 1, n)
    OBVIOUS
  <1>5. PICK rest : rest = SubSeq(b, n + 1, Len(b))
    OBVIOUS
  <1>6. /\ first \in Seq(Ts) /\ rest \in Seq(Ts) /\ b = first \o rest
        /\ \A x \in ToSet(first) : \E i \in 1..n : x = b[i]
    <2>1. b \in Seq(Ts) /\ n \in 0..Len(b)
      BY <1>2, <1>3
    <2> QED
      BY <1>4, <1>5, <2>1, SplitOf
  <1>7. /\ ToSet(b) = ToSet(first) \union ToSet(rest)
        /\ Ordered(first, Le) /\ Ordered(rest, Le)
        /\ \A x \in ToSet(first), y \in ToSet(rest) : <<x, y>> \in Le
    <2>1. Ordered(b, Le)
      BY <1>2, <1>3 DEF KsOK
    <2> QED
      BY <1>6, <2>1, ToSetConcat, OrderedConcat
  <1>8. \A x \in ToSet(Out) \union ToSet(b) : x \in Ts /\ x \in Nat
    BY <1>2, <1>3, InToSet
  <1>9. \A x \in ToSet(first), y \in ToSet(rest) : x <= y
    BY <1>7, <1>8, PairFacts
  <1>10. Out' = Out \o first /\ Out' \in Seq(Ts) /\ ToSet(Out') = ToSet(Out) \union ToSet(first)
    <2>1. Out' = Out \o first
      BY <1>3, <1>4
    <2>2. Out \o first \in Seq(Ts) /\ ToSet(Out \o first) = ToSet(Out) \union ToSet(first)
      BY <1>2, <1>6, ToSetConcat, ConcatOf
    <2> QED
      BY <2>1, <2>2
  <1>11. /\ buf' \in [Kss -> Seq(Ts)] /\ buf'[bk] = rest
         /\ \A k \in Kss : k # bk => buf'[k] = buf[k]
    <2>1. buf' = [buf EXCEPT ![bk] = rest]
      BY <1>3, <1>5
    <2> QED
      BY <1>1, <1>2, <1>6, <2>1
  <1>12. Ordered(Out, Le)' /\ \A x \in ToSet(Out), y \in ToSet(first) : <<x, y>> \in Le
    <2>1. \A x \in ToSet(Out), y \in ToSet(first) : x <= y
      BY <1>2, <1>3, <1>7 DEF KsOK
    <2>2. \A x \in ToSet(Out), y \in ToSet(first) : <<x, y>> \in Le
      BY <1>7, <1>8, <2>1, PairFacts
    <2>3. Ordered(Out \o first, Le)
      BY <1>2, <1>6, <1>7, <2>2, OrderedConcat
    <2> QED
      BY <1>10, <2>2, <2>3
  <1>13. ASSUME NEW k \in Kss PROVE KsOK(db_msp[k], Out', multi[k], buf'[k])
    <2>1. /\ KsOK(db_msp[k], Out, multi[k], buf[k]) /\ multi[k] \in MultiT
          /\ buf[k] \in Seq(Ts)
      BY ReaderFacts
    <2>2. CASE k = bk
      <3>1. \A y \in ToSet(b) : Beyond(multi[k], y) /\ \A x \in ToSet(Out) : x <= y
        BY <1>3, <2>1, <2>2 DEF KsOK
      <3> QED
        BY <1>7, <1>9, <1>10, <1>11, <2>1, <2>2, <3>1 DEF KsOK
    <2>3. CASE k # bk /\ k \in Feeding
      <3>1. PICK h : h = Head(buf[k])
        OBVIOUS
      <3>2. buf[k] # <<>> /\ Ordered(buf[k], Le)
        BY <2>1, <2>3 DEF Feeding, KsOK
      <3>3. h \in ToSet(buf[k]) /\ h \in Nat /\ \A y \in ToSet(buf[k]) : h <= y /\ y \in Nat
        <4>1. \A y \in ToSet(buf[k]) : y \in Nat
          BY <1>2, <2>1, InToSet
        <4>2. h \in ToSet(buf[k]) /\ \A y \in ToSet(buf[k]) : h <= y
          BY <1>2, <2>1, <3>1, <3>2, OrderedHead
        <4> QED
          BY <4>1, <4>2
      <3>4. \A x \in ToSet(first) : x <= h /\ x \in Nat
        BY <1>3, <1>6, <1>7, <1>8, <2>3, <3>1
      <3>5. Beyond(multi[k], h)
        BY <2>1, <3>3 DEF KsOK
      <3>6. \A x \in ToSet(first) : Beyond(multi[k], x) /\ \A y \in ToSet(buf[k]) : x <= y
        <4>1. \A x \in ToSet(first) : Beyond(multi[k], x)
          BY <2>1, <3>3, <3>4, <3>5, BeyondLess
        <4>2. \A x \in ToSet(first) : \A y \in ToSet(buf[k]) : x <= y
          BY <3>3, <3>4
        <4> QED
          BY <4>1, <4>2
      <3> QED
        BY <1>10, <1>11, <2>1, <2>3, <3>6 DEF KsOK
    <2>4. CASE k # bk /\ k \notin Feeding
      <3>1. buf[k] = <<>> /\ MultiEnded(k)
        BY <2>4 DEF Feeding, MergeReady, Kss
      <3>2. ToSet(buf[k]) = {} /\ multi[k].inps = <<>> /\ multi[k].ahead = <<>>
            /\ Exhausted(multi[k].msps)
        BY <3>1 DEF MultiEnded, ToSet
      <3>3. \A x : Beyond(multi[k], x)
        BY <3>2 DEF Beyond, NoNewMsps
      <3> QED
        BY <1>11, <2>1, <2>4, <3>2, <3>3 DEF KsOK
    <2> QED
      BY <2>2, <2>3, <2>4
  <1>14. OrderInv'
    <2>1. multi' = multi /\ db_msp' = db_msp
      BY DEF dbVars
    <2> QED
      BY <1>12, <1>13, <2>1 DEF OrderInv
  <1>15. ReaderTypes'
    <2>1. /\ phase' = "read" /\ ks' = ks /\ range' = range /\ before' = before
          /\ multi' = multi /\ item_lost' = item_lost
      BY DEF history
    <2> QED
      BY <1>11, <2>1 DEF RInv, ReaderTypes, Setup
  <1>16. BckOK'
    BY DEF RInv, BckOK, Setup, dbVars
  <1>17. ASSUME NEW k \in Kss, NEW p, NEW t, Tracked(k, p, t) PROVE Tracked(k, p, t)'
    <2>1. t \in ToSet(Out) \/ t \in ToSet(buf[k]) \/ MultiHas(multi[k], p, t)
      BY <1>17 DEF Tracked
    <2>2. t \in ToSet(Out) => t \in ToSet(Out')
      BY <1>10
    <2>3. t \in ToSet(buf[k]) => t \in ToSet(Out') \/ t \in ToSet(buf'[k])
      BY <1>3, <1>7, <1>10, <1>11
    <2>4. multi' = multi
      OBVIOUS
    <2> QED
      BY <2>1, <2>2, <2>3, <2>4 DEF Tracked
  <1> QED
    BY <1>14, <1>15, <1>16, <1>17 DEF RInv, TracksAll
-----------------------------------------------------------------------------
LEMMA ConcatThree ==
    ASSUME NEW S, NEW a \in Seq(S), NEW b \in Seq(S), NEW c \in Seq(S)
    PROVE  /\ a \o b \in Seq(S) /\ b \o c \in Seq(S) /\ (a \o b) \o c \in Seq(S)
           /\ (a \o b) \o c = a \o (b \o c)
           /\ a \o <<>> = a /\ (a \o (b \o c)) \o <<>> = (a \o b) \o c
           /\ Len(b \o c) = Len(b) + Len(c)
  <1>1. /\ a \o b \in Seq(S) /\ b \o c \in Seq(S) /\ Len(b \o c) = Len(b) + Len(c)
    BY ConcatProperties
  <1>2. (a \o b) \o c \in Seq(S)
    BY <1>1, ConcatProperties
  <1>3. (a \o b) \o c = a \o (b \o c)
    BY ConcatAssociative
  <1>4. a \o <<>> = a /\ ((a \o b) \o c) \o <<>> = (a \o b) \o c
    BY <1>2, ConcatEmptySeq
  <1> QED
    BY <1>1, <1>2, <1>3, <1>4

LEMMA DrainableFacts ==
    ASSUME RInv, Feeding # {}, NEW bk \in Feeding, bk = BestKs
    PROVE  /\ Drainable \in 0..Len(buf[bk])
           /\ \A j \in Feeding : j # bk =>
                \A i \in 1..Drainable : buf[bk][i] <= Head(buf[j])
  <1>1. \A k \in Feeding : /\ k \in Kss /\ buf[k] # <<>> /\ buf[k] \in Seq(Ts)
                           /\ Ordered(buf[k], Le)
    BY ReaderFacts DEF Feeding, Kss, KsOK
  <1>2. \A k \in Feeding : Head(buf[k]) \in Nat
    <2>1. \A q \in Seq(Ts) : q # <<>> => Head(q) \in Ts
      OBVIOUS
    <2> QED
      BY <1>1, <2>1, TimeAssumption
  <1>3. PICK others : others = Feeding \ {bk}
    OBVIOUS
  <1>4. CASE others = {}
    <2>1. Drainable = Len(buf[bk])
      BY <1>3, <1>4 DEF Drainable
    <2>2. Len(buf[bk]) \in Nat
      BY <1>1
    <2> QED
      BY <1>3, <1>4, <2>1, <2>2
  <1>5. CASE others # {}
    <2>1. PICK T : T = {Head(buf[j]) : j \in others}
      OBVIOUS
    <2>2. T \in SUBSET Nat /\ T # {}
      BY <1>2, <1>3, <1>5, <2>1
    <2>3. PICK h : h = Min(T)
      OBVIOUS
    <2>4. h \in T /\ \A u \in T : h <= u
      <3>1. \E x \in T : \A u \in T : x <= u
        BY <2>2, LeastNat
      <3> QED
        BY <2>3, <3>1 DEF Min
    <2>5. Drainable = Len(Upto(buf[bk], h))
      BY <1>3, <1>5, <2>1, <2>3 DEF Drainable
    <2>6. /\ Len(Upto(buf[bk], h)) \in 0..Len(buf[bk])
          /\ \A i \in 1..Len(Upto(buf[bk], h)) : buf[bk][i] <= h
      BY <1>1, <2>2, <2>4, UptoIsPrefix, TimeAssumption
    <2>7. ASSUME NEW j \in Feeding, j # bk, NEW i \in 1..Drainable
          PROVE  buf[bk][i] <= Head(buf[j])
      <3>1. Head(buf[j]) \in T /\ h \in Nat /\ Head(buf[j]) \in Nat
        BY <1>2, <1>3, <2>1, <2>2, <2>4, <2>7
      <3>2. h <= Head(buf[j]) /\ buf[bk][i] <= h
        BY <2>4, <2>5, <2>6, <3>1
      <3>3. buf[bk][i] \in Nat
        <4>1. i \in 1..Len(buf[bk]) /\ buf[bk] \in Seq(Ts)
          BY <1>1, <2>5, <2>6
        <4> QED
          BY <4>1, InToSet, TimeAssumption
      <3> QED
        BY <3>1, <3>2, <3>3
    <2> QED
      BY <2>5, <2>6, <2>7
  <1> QED
    BY <1>4, <1>5

LEMMA MergeStepReader ==
    ASSUME HInv, RInv, MergeStep, UNCHANGED dbVars
    PROVE  RInv' /\ TracksAll
  <1>1. /\ phase = "read" /\ Feeding # {} /\ MergeReady
        /\ UNCHANGED <<phase, ks, range, bck, before, multi, history, dbVars>>
    BY DEF MergeStep
  <1>2. PICK bk \in Feeding : bk = BestKs
    BY <1>1, BestKsFacts
  <1>3. PICK b : b = buf[bk]
    OBVIOUS
  <1>4. PICK d : d = Drainable
    OBVIOUS
  <1>5. PICK n : n = Min({d, MergeLimit - Len(evbuf)})
    OBVIOUS
  <1>6. PICK e : e = evbuf \o SubSeq(b, 1, n)
    OBVIOUS
  <1>7. /\ d \in 0..Len(b)
        /\ \A j \in Feeding : j # bk => \A i \in 1..d : b[i] <= Head(buf[j])
    BY <1>1, <1>2, <1>3, <1>4, DrainableFacts
  <1>8. /\ bk \in Kss /\ b \in Seq(Ts) /\ Len(b) \in Nat /\ evbuf \in Seq(Ts)
        /\ merged \in Seq(Ts) /\ Len(evbuf) \in Nat /\ Len(evbuf) <= MergeLimit
        /\ MergeLimit \in Nat
    <2>1. bk \in Kss
      BY DEF Feeding, Kss
    <2>2. b \in Seq(Ts) /\ Len(b) \in Nat
      BY <1>3, <2>1, ReaderFacts
    <2> QED
      BY <2>1, <2>2, ReaderAssumption DEF RInv, ReaderTypes
  <1>9. n \in Nat /\ n <= d /\ n <= MergeLimit - Len(evbuf) /\ n \in 0..Len(b)
    <2>1. d \in Nat /\ MergeLimit - Len(evbuf) \in Nat
      BY <1>7, <1>8
    <2>2. n \in Nat /\ n <= d /\ n <= MergeLimit - Len(evbuf)
      BY <1>5, <2>1, MinOfTwo
    <2> QED
      BY <1>7, <1>8, <2>2
  <1>10. /\ SubSeq(b, 1, n) \in Seq(Ts) /\ Len(SubSeq(b, 1, n)) = n
    BY <1>8, <1>9, SplitOf
  <1>11. /\ merged \o evbuf \in Seq(Ts) /\ e \in Seq(Ts) /\ merged \o e \in Seq(Ts)
         /\ Out \o SubSeq(b, 1, n) = merged \o e /\ (merged \o e) \o <<>> = merged \o e
         /\ merged \o <<>> = merged /\ Len(e) = Len(evbuf) + n
    <2>1. PICK sub \in Seq(Ts) : sub = SubSeq(b, 1, n)
      BY <1>10
    <2>2. Len(sub) = n /\ e = evbuf \o sub
      BY <1>6, <1>10, <2>1
    <2>3. merged \in Seq(Ts) /\ evbuf \in Seq(Ts) /\ sub \in Seq(Ts)
      BY <1>8, <2>1
    <2>4. /\ merged \o evbuf \in Seq(Ts) /\ evbuf \o sub \in Seq(Ts)
          /\ (merged \o evbuf) \o sub \in Seq(Ts)
          /\ (merged \o evbuf) \o sub = merged \o (evbuf \o sub)
          /\ merged \o <<>> = merged
          /\ (merged \o (evbuf \o sub)) \o <<>> = (merged \o evbuf) \o sub
          /\ Len(evbuf \o sub) = Len(evbuf) + Len(sub)
      <3>1. PICK m1 \in Seq(Ts) : m1 = merged
        BY <2>3
      <3>2. PICK e1 \in Seq(Ts) : e1 = evbuf
        BY <2>3
      <3>3. /\ m1 \o e1 \in Seq(Ts) /\ e1 \o sub \in Seq(Ts)
            /\ (m1 \o e1) \o sub \in Seq(Ts)
            /\ (m1 \o e1) \o sub = m1 \o (e1 \o sub)
            /\ m1 \o <<>> = m1 /\ (m1 \o (e1 \o sub)) \o <<>> = (m1 \o e1) \o sub
            /\ Len(e1 \o sub) = Len(e1) + Len(sub)
        BY ConcatThree, SMTT(40)
      <3> QED
        BY ONLY <3>1, <3>2, <3>3
    <2>5. Out = merged \o evbuf
      BY DEF Out
    <2> QED
      BY ONLY <2>1, <2>2, <2>4, <2>5
  <1>12. \/ /\ evbuf = <<>> /\ d >= Len(b) /\ DrainTo(<<>>, b, Len(b))
         \/ DrainTo(<<>>, e, n)
         \/ DrainTo(e, <<>>, n)
    BY <1>2, <1>3, <1>4, <1>5, <1>6 DEF MergeStep
  <1>13. <<>> \in Seq(Ts) /\ Len(<<>>) = 0
    OBVIOUS
  <1>14. ASSUME NEW c \in 0..Len(b), c <= d, evbuf' \in Seq(Ts), merged' \in Seq(Ts),
                Len(evbuf') <= MergeLimit, Out' = Out \o SubSeq(b, 1, c),
                buf' = [buf EXCEPT ![bk] = SubSeq(@, c + 1, Len(@))]
         PROVE  RInv' /\ TracksAll
    <2>1. \A j \in Feeding : j # bk => \A i \in 1..c : buf[bk][i] <= Head(buf[j])
      BY <1>3, <1>7, <1>8, <1>14
    <2> QED
      BY <1>1, <1>3, <1>14, <2>1, DrainReader
  <1>15. CASE evbuf = <<>> /\ d >= Len(b) /\ DrainTo(<<>>, b, Len(b))
    <2>1. /\ evbuf' = <<>> /\ merged' = merged \o b
          /\ buf' = [buf EXCEPT ![bk] = SubSeq(@, Len(b) + 1, Len(@))]
      BY <1>2, <1>15 DEF DrainTo
    <2>2. SubSeq(b, 1, Len(b)) = b
      BY <1>8
    <2>3. merged \o b \in Seq(Ts) /\ (merged \o b) \o <<>> = merged \o b
          /\ merged \o <<>> = merged
      BY <1>8, ConcatProperties, ConcatEmptySeq
    <2>4. Out' = Out \o SubSeq(b, 1, Len(b))
      <3>1. Out = merged /\ Out' = (merged \o b) \o <<>>
        BY <1>15, <2>1, <2>3 DEF Out
      <3> QED
        BY <2>2, <2>3, <3>1
    <2>5. Len(b) \in 0..Len(b) /\ Len(b) <= d /\ Len(evbuf') <= MergeLimit
      BY <1>7, <1>8, <1>13, <1>15, <2>1
    <2> QED
      BY <1>13, <1>14, <2>1, <2>3, <2>4, <2>5
  <1>16. CASE DrainTo(<<>>, e, n)
    <2>1. /\ evbuf' = <<>> /\ merged' = merged \o e
          /\ buf' = [buf EXCEPT ![bk] = SubSeq(@, n + 1, Len(@))]
      BY <1>2, <1>16 DEF DrainTo
    <2>2. Out' = Out \o SubSeq(b, 1, n)
      BY <1>11, <2>1 DEF Out
    <2>3. Len(evbuf') <= MergeLimit
      BY <1>8, <1>13, <2>1
    <2> QED
      BY <1>9, <1>11, <1>13, <1>14, <2>1, <2>2, <2>3
  <1>17. CASE DrainTo(e, <<>>, n)
    <2>1. /\ evbuf' = e /\ merged' = merged
          /\ buf' = [buf EXCEPT ![bk] = SubSeq(@, n + 1, Len(@))]
      BY <1>2, <1>11, <1>17 DEF DrainTo
    <2>2. Out' = Out \o SubSeq(b, 1, n)
      BY <1>11, <2>1 DEF Out
    <2>3. Len(evbuf') <= MergeLimit
      BY <1>8, <1>9, <1>11, <2>1
    <2> QED
      BY <1>8, <1>9, <1>11, <1>14, <2>1, <2>2, <2>3
  <1> QED
    BY <1>12, <1>15, <1>16, <1>17

LEMMA MergeEndReader ==
    ASSUME HInv, RInv, MergeEnd, UNCHANGED dbVars
    PROVE  RInv' /\ TracksAll /\ merged' = Out
  <1>1. /\ phase = "read" /\ phase' = "done" /\ merged' = merged \o evbuf /\ evbuf' = <<>>
        /\ UNCHANGED <<ks, range, bck, before, multi, buf, history, dbVars>>
    BY DEF MergeEnd
  <1>2. evbuf \in Seq(Ts) /\ merged \in Seq(Ts) /\ MergeLimit \in Nat
    BY ReaderAssumption DEF RInv, ReaderTypes
  <1>3. merged' = Out /\ Out' = Out /\ Out \in Seq(Ts)
    <2>1. merged \o evbuf \in Seq(Ts)
      BY <1>2, ConcatProperties
    <2>2. (merged \o evbuf) \o <<>> = merged \o evbuf
      BY <2>1, ConcatEmptySeq
    <2> QED
      BY <1>1, <2>1, <2>2 DEF Out
  <1>4. ReaderTypes'
    <2>1. evbuf' \in Seq(Ts) /\ Len(evbuf') <= MergeLimit
      BY <1>1, <1>2
    <2>2. ks' = ks /\ range' = range /\ before' = before /\ multi' = multi /\ buf' = buf
          /\ item_lost' = item_lost
      BY <1>1 DEF history
    <2> QED
      BY <1>1, <1>3, <2>1, <2>2 DEF RInv, ReaderTypes, Setup
  <1>5. BckOK'
    BY <1>1 DEF RInv, BckOK, Setup
  <1>6. OrderInv'
    BY <1>1, <1>3 DEF RInv, OrderInv, dbVars
  <1>7. TracksAll
    BY <1>1, <1>3 DEF TracksAll, Tracked
  <1> QED
    BY <1>3, <1>4, <1>5, <1>6, <1>7 DEF RInv
-----------------------------------------------------------------------------
(* Setting the keyspaces up.                                               *)
LEMMA SetupFacts ==
    ASSUME NEW i \in Nat \ {0}, NEW r \in RangeT, SetupKeyspace(i, r)
    PROVE  /\ ks' = i /\ phase' \in {"bck", "read"}
           /\ phase' = "bck" => /\ i \in 1..Len(Keyspaces)
                                /\ bck'.s = MspStream(r.beg - ReadWindow[Keyspaces[i]], r.beg, FALSE)
           /\ phase' = "read" => i > Len(Keyspaces)
           /\ bck'.msps = <<>> /\ bck'.left = {} /\ bck'.s \in MspStreamT
           /\ phase' = "bck" => bck'.s.end = r.beg
  <1>1. Keyspaces \in Seq(Rts) /\ Len(Keyspaces) \in Nat
    BY ReaderAssumption
  <1>2. r.beg \in Nat
    BY DEF RangeT
  <1>3. CASE i > Len(Keyspaces)
    <2>1. /\ ks' = i /\ phase' = "read" /\ bck' = NoBck
      BY <1>3 DEF SetupKeyspace
    <2>2. bck'.msps = <<>> /\ bck'.left = {} /\ bck'.s \in MspStreamT
      BY <2>1 DEF NoBck, Bck, MspStream, MspStreamT
    <2> QED
      BY <1>3, <2>1, <2>2
  <1>4. CASE ~(i > Len(Keyspaces))
    <2>1. i \in 1..Len(Keyspaces)
      BY <1>1, <1>4
    <2>2. ReadWindow[Keyspaces[i]] \in Nat
      BY <1>1, <2>1, WindowAssumption
    <2>3. PICK b \in Int : b = r.beg - ReadWindow[Keyspaces[i]]
      BY <1>2, <2>2
    <2>4. /\ ks' = i /\ phase' = "bck" /\ bck' = Bck(<<>>, MspStream(b, r.beg, FALSE), {})
      BY <1>4, <2>3 DEF SetupKeyspace
    <2> QED
      BY <1>2, <2>1, <2>3, <2>4 DEF Bck, MspStream, MspStreamT
  <1> QED
    BY <1>3, <1>4

LEMMA MaxOfTwo ==
    ASSUME NEW a \in Int, NEW b \in Int
    PROVE  Max({a, b}) \in {a, b} /\ Max({a, b}) >= a /\ Max({a, b}) >= b
  <1>1. \E x \in {a, b} : \A y \in {a, b} : x >= y
    OBVIOUS
  <1> QED
    BY <1>1 DEF Max

LEMMA KeepLastFacts ==
    ASSUME NEW q \in Seq(Nat), Ordered(q, Lt), NEW r, r = KeepLastMsps(q)
    PROVE  /\ r \in Seq(Nat) /\ Ordered(r, Lt) /\ ToSet(r) \subseteq ToSet(q)
           /\ \A p \in ToSet(q) : \/ p \in ToSet(r)
                                  \/ \E m2, m3 \in ToSet(r) : p < m2 /\ m2 < m3
  <1>1. BckMax \in Nat /\ BckMax >= 2 /\ Len(q) \in Nat
    BY ReaderAssumption
  <1>2. PICK n : n = Max({1, Len(q) - BckMax + 1})
    OBVIOUS
  <1>3. n \in Nat /\ n >= 1 /\ (n = 1 \/ n = Len(q) - BckMax + 1)
    <2>0. Len(q) - BckMax + 1 \in Int
      BY <1>1
    <2>1. PICK b \in Int : b = Len(q) - BckMax + 1
      BY <2>0
    <2>2. PICK a \in Int : a = 1
      OBVIOUS
    <2>3. Max({a, b}) \in {a, b} /\ Max({a, b}) >= a /\ Max({a, b}) >= b
      BY MaxOfTwo
    <2>4. n = Max({a, b})
      BY ONLY <1>2, <2>1, <2>2
    <2> QED
      BY ONLY <2>0, <2>1, <2>2, <2>3, <2>4
  <1>4. r = SubSeq(q, n, Len(q))
    BY <1>2 DEF KeepLastMsps
  <1>5. n <= Len(q) + 1
    BY <1>1, <1>3
  <1>6. /\ r \in Seq(Nat) /\ Len(r) = Len(q) - n + 1 /\ Len(r) \in Nat
        /\ \A i \in 1..Len(r) : r[i] = q[n + i - 1]
    <2>1. /\ SubSeq(q, n, Len(q)) \in Seq(Nat)
          /\ Len(SubSeq(q, n, Len(q))) = IF n <= Len(q) THEN Len(q) - n + 1 ELSE 0
          /\ \A i \in 1..(Len(q) - n + 1) : SubSeq(q, n, Len(q))[i] = q[n + i - 1]
      BY <1>1, <1>3, SubSeqProperties
    <2> QED
      BY <1>1, <1>3, <1>4, <1>5, <2>1
  <1>7. \A i \in 1..Len(r) : n + i - 1 \in 1..Len(q)
    BY <1>1, <1>3, <1>6, SMTT(40)
  <1>8. Ordered(r, Lt)
    <2>1. ASSUME NEW i \in 1..Len(r), NEW j \in 1..Len(r), i < j
          PROVE  <<r[i], r[j]>> \in Lt
      <3>1. PICK a \in 1..Len(q), b \in 1..Len(q) : a = n + i - 1 /\ b = n + j - 1
        BY <1>7
      <3>2. a < b /\ r[i] = q[a] /\ r[j] = q[b]
        BY <1>3, <1>6, <2>1, <3>1
      <3> QED
        BY <3>1, <3>2 DEF Ordered
    <2> QED
      BY <2>1 DEF Ordered
  <1>9. ToSet(r) \subseteq ToSet(q)
    <2>1. ASSUME NEW x \in ToSet(r) PROVE x \in ToSet(q)
      <3>1. PICK i \in 1..Len(r) : x = r[i]
        BY <1>6, InToSet
      <3>2. PICK a \in 1..Len(q) : a = n + i - 1
        BY <1>7
      <3>3. x = q[a]
        BY <1>6, <3>1, <3>2
      <3> QED
        BY <3>3, InToSet
    <2> QED
      BY <2>1
  <1>10. ASSUME NEW p \in ToSet(q), p \notin ToSet(r)
         PROVE  \E m2, m3 \in ToSet(r) : p < m2 /\ m2 < m3
    <2>1. PICK i \in 1..Len(q) : p = q[i]
      BY InToSet
    <2>2. i < n
      <3>1. ASSUME n <= i PROVE FALSE
        <4>1. i - n + 1 \in 1..Len(r) /\ n + (i - n + 1) - 1 = i
          BY <1>1, <1>3, <1>6, <3>1
        <4>2. PICK j \in 1..Len(r) : j = i - n + 1
          BY <4>1
        <4>3. r[j] = q[i]
          BY <1>6, <4>1, <4>2
        <4> QED
          BY <1>6, <1>10, <2>1, <4>3, InToSet
      <3> QED
        BY <1>3, <3>1
    <2>3. n = Len(q) - BckMax + 1 /\ 1 \in 1..Len(r) /\ 2 \in 1..Len(r)
      BY <1>1, <1>3, <1>6, <2>2
    <2>4. PICK a \in 1..Len(q), b \in 1..Len(q) : a = n + 1 - 1 /\ b = n + 2 - 1
      BY <1>7, <2>3
    <2>5. i < a /\ a < b /\ r[1] = q[a] /\ r[2] = q[b]
      <3>1. i < a /\ a < b
        BY <1>3, <2>2, <2>4
      <3>2. r[1] = q[n + 1 - 1] /\ r[2] = q[n + 2 - 1]
        BY <1>6, <2>3
      <3> QED
        BY <2>4, <3>1, <3>2
    <2>6. /\ q[i] \in Nat /\ q[a] \in Nat /\ q[b] \in Nat /\ r[1] \in ToSet(r) /\ r[2] \in ToSet(r)
      BY <1>6, <2>3, InToSet
    <2>7. <<q[i], q[a]>> \in Lt /\ <<q[a], q[b]>> \in Lt
      BY <2>5 DEF Ordered
    <2> QED
      BY <2>1, <2>5, <2>6, <2>7, PairFacts
  <1> QED
    BY <1>6, <1>8, <1>9, <1>10

LEMMA NewMultiFacts ==
    ASSUME NEW M \in SUBSET Nat, NEW q \in Seq(Nat), Ordered(q, Lt), ToSet(q) \subseteq M,
           NEW beg \in Nat, range.end \in Nat, NEW m, m = NewMulti(q, beg)
    PROVE  /\ m \in MultiT /\ MultiOK(M, m)
           /\ \A p \in ToSet(q) : \A t : beg <= t => MultiHas(m, p, t)
           /\ \A p \in Nat : \A t :
                 /\ \A x \in ToSet(q) : x < p
                 /\ Ms(beg) <= p /\ p < Ms(range.end) /\ beg <= t
                 => MultiHas(m, p, t)
  <1>0. PICK end \in Nat : end = range.end
    OBVIOUS
  <1>1. PICK s : s = IF q = <<>> THEN MspStream(beg, range.end, FALSE)
                     ELSE MspStream(Start(Last(q)), range.end, TRUE)
    OBVIOUS
  <1>2. PICK a : a = [i \in 1..Len(q) |-> Single(q[i], beg)]
    OBVIOUS
  <1>3. m = [beg |-> beg, msps |-> s, ahead |-> a, inps |-> <<>>]
    BY <1>1, <1>2 DEF NewMulti, Multi
  <1>4. Len(q) \in Nat /\ \A i \in 1..Len(q) : q[i] \in Nat /\ q[i] \in ToSet(q) /\ q[i] \in M
    BY InToSet
  <1>5. \A i \in 1..Len(q) :
          /\ Single(q[i], beg) \in StreamT /\ StreamOK(M, Single(q[i], beg))
          /\ Single(q[i], beg).msp = q[i]
          /\ \A t : beg <= t => StreamHas(Single(q[i], beg), t)
    BY <1>4, SingleFacts
  <1>6. a \in Seq(StreamT) /\ Len(a) = Len(q) /\ \A i \in 1..Len(q) : a[i] = Single(q[i], beg)
    BY <1>2, <1>4, <1>5
  <1>7. q # <<>> => /\ Last(q) \in ToSet(q) /\ Last(q) \in Nat /\ Start(Last(q)) \in Nat
                    /\ \A x \in ToSet(q) : x <= Last(q) /\ Start(x) <= Start(Last(q))
                    /\ Ms(Start(Last(q))) = Last(q)
    <2>1. ASSUME q # <<>> PROVE /\ Last(q) \in ToSet(q) /\ Last(q) \in Nat
                                /\ \A x \in ToSet(q) : x <= Last(q) /\ x \in Nat
      BY <2>1, LastOf, InToSet
    <2> QED
      BY <2>1, StartMono, StartNat, SMTT(40)
  <1>8. s \in MspStreamT /\ s.end = end /\ (q = <<>> => s.beg = beg /\ ~s.excl)
        /\ (q # <<>> => s.beg = Start(Last(q)) /\ s.excl)
    BY <1>0, <1>1, <1>7 DEF MspStream, MspStreamT
  <1>9. m \in MultiT /\ m.inps = <<>> /\ m.ahead = a /\ m.msps = s /\ m.beg = beg
    BY <1>3, <1>6, <1>8 DEF MultiT
  <1>10. MultiOK(M, m)
    <2>1. \A n \in 1..Len(a) : StreamOK(M, a[n]) /\ a[n].msp = q[n]
      BY <1>5, <1>6
    <2>2. \A n \in 1..Len(a) : NoNewMsps(s, Start(a[n].msp))
      <3>1. ASSUME NEW n \in 1..Len(a) PROVE NoNewMsps(s, Start(a[n].msp))
        <4>1. q[n] \in ToSet(q) /\ q # <<>>
          BY <1>4, <1>6
        <4> QED
          BY <1>7, <1>8, <2>1, <4>1 DEF NoNewMsps
      <3> QED
        BY <3>1
    <2>3. ASSUME NEW n \in 1..Len(a), NEW o \in 1..Len(a), n < o
          PROVE  a[n].msp <= a[o].msp
      <3>1. <<q[n], q[o]>> \in Lt /\ q[n] \in Nat /\ q[o] \in Nat
        BY <1>4, <1>6, <2>3 DEF Ordered
      <3> QED
        BY <2>1, <3>1, PairFacts
    <2> QED
      BY <1>9, <2>1, <2>2, <2>3 DEF MultiOK
  <1>11. ASSUME NEW p \in ToSet(q), NEW t, beg <= t PROVE MultiHas(m, p, t)
    <2>1. PICK i \in 1..Len(q) : p = q[i]
      BY InToSet
    <2>2. i \in 1..Len(a) /\ a[i].msp = p /\ StreamHas(a[i], t)
      BY <1>5, <1>6, <1>11, <2>1
    <2> QED
      BY <1>9, <2>2 DEF MultiHas
  <1>12. ASSUME NEW p \in Nat, NEW t, \A x \in ToSet(q) : x < p, Ms(beg) <= p,
                p < Ms(range.end), beg <= t
         PROVE  MultiHas(m, p, t)
    <2>1. p < Ms(end) /\ Start(p) < end /\ Start(p) \in Nat /\ Ms(beg) \in Nat
      <3>1. p \in Int /\ end \in Int /\ beg \in Int
        OBVIOUS
      <3>2. p < Ms(end) => Start(p) < end
        BY <3>1, MsFacts
      <3>3. Start(p) \in Nat /\ Ms(beg) \in Nat
        BY <3>1, MsFacts
      <3> QED
        BY <1>0, <1>12, <3>2, <3>3
    <2>2. CASE q = <<>>
      <3>1. beg < end
        <4>1. p + 1 <= Ms(end) <=> Start(p + 1) <= end
          BY MsFacts
        <4>2. p + 1 <= Ms(beg) <=> Start(p + 1) <= beg
          BY MsFacts
        <4>3. p + 1 <= Ms(end) /\ ~(p + 1 <= Ms(beg)) /\ Start(p + 1) \in Int
          <5>0. p + 1 \in Int /\ end \in Int
            OBVIOUS
          <5>1. Ms(end) \in Int /\ Start(p + 1) \in Int
            BY <5>0, MsFacts
          <5> QED
            BY <1>12, <2>1, <5>1
        <4> QED
          BY <4>1, <4>2, <4>3
      <3>2. WillFind(s, p)
        BY <1>8, <1>12, <2>1, <2>2, <3>1 DEF WillFind, Exhausted, MspsFrom
      <3> QED
        BY <1>9, <1>12, <3>2 DEF MultiHas
    <2>3. CASE q # <<>>
      <3>1. Last(q) < p /\ Start(Last(q)) < Start(p)
        BY <1>7, <1>12, <2>3, StartMono
      <3>2. Start(Last(q)) < end /\ Last(q) + 1 <= p
        BY <1>7, <2>1, <2>3, <3>1
      <3>3. WillFind(s, p)
        BY <1>7, <1>8, <2>1, <2>3, <3>2 DEF WillFind, Exhausted, MspsFrom
      <3> QED
        BY <1>9, <1>12, <3>3 DEF MultiHas
    <2> QED
      BY <2>2, <2>3
  <1> QED
    BY <1>9, <1>10, <1>11, <1>12
-----------------------------------------------------------------------------
(* While keyspaces are set up nothing has been handed on.                  *)
LEMMA SetupReader ==
    ASSUME RInv, Setup
    PROVE  /\ Out = <<>> /\ \A k \in Kss : buf[k] = <<>>
           /\ ks \in 1..Len(Keyspaces) /\ Keyspaces[ks] \in Kss /\ Keyspaces[ks] \in Rts
           /\ range \in RangeT /\ range.beg \in Nat /\ range.end \in Nat
           /\ bck.msps \in Seq(Nat) /\ bck.s \in MspStreamT /\ Ordered(bck.msps, Lt)
           /\ bck.left \subseteq ToSet(bck.msps)
           /\ ToSet(bck.msps) \subseteq db_msp[Keyspaces[ks]] /\ bck.s.end = range.beg
           /\ \A p \in ToSet(bck.msps) : p < Ms(range.beg) /\ NoNewMsps(bck.s, Start(p))
  <1>1. ReaderTypes /\ BckOK
    BY DEF RInv
  <1>2. /\ Out = <<>> /\ \A k \in Kss : buf[k] = <<>>
    BY <1>1 DEF ReaderTypes, Setup
  <1>3. ks \in 1..Len(Keyspaces) /\ range \in RangeT
    BY <1>1 DEF ReaderTypes
  <1>4. Keyspaces[ks] \in Kss /\ Keyspaces[ks] \in Rts
    BY <1>3, KssFacts
  <1>5. range.beg \in Nat /\ range.end \in Nat
    BY <1>3 DEF RangeT
  <1> QED
    BY <1>1, <1>2, <1>3, <1>4, <1>5 DEF BckOK

(* The invariant after a step of the setup.                                *)
LEMMA SetupSame ==
    ASSUME ReaderTypes, OrderInv, UNCHANGED <<range, multi, buf, evbuf, merged, item_lost, db_msp>>,
           phase \in {"idle", "bck", "lst"}, phase' \in {"bck", "lst"},
           ks' \in 1..Len(Keyspaces), before' \in Nat
    PROVE  ReaderTypes' /\ OrderInv'
  <1>1. Out' = Out
    BY DEF Out
  <1>2. ks' \in Nat
    BY ReaderAssumption
  <1>3. ReaderTypes'
    BY <1>1, <1>2 DEF ReaderTypes, Setup
  <1> QED
    BY <1>1, <1>3 DEF OrderInv

LEMMA OpenMultiReader ==
    ASSUME HInv, RInv, Setup, NEW q \in Seq(Nat), Ordered(q, Lt),
           ToSet(q) \subseteq db_msp[Keyspaces[ks]], NEW beg \in Nat, OpenMulti(q, beg),
           before' = 0, UNCHANGED <<range, buf, evbuf, merged, history, dbVars>>
    PROVE  /\ RInv' /\ Out' = <<>>
           /\ multi'[Keyspaces[ks]] = NewMulti(q, beg)
           /\ \A k \in Kss : k # Keyspaces[ks] => multi'[k] = multi[k]
           /\ ks' = ks + 1 /\ phase' \in {"bck", "read"}
           /\ phase' = "read" => ks + 1 > Len(Keyspaces)
           /\ phase' = "bck" => /\ ks + 1 \in 1..Len(Keyspaces) /\ bck'.msps = <<>>
                                /\ bck'.s = MspStream(range.beg - ReadWindow[Keyspaces[ks + 1]],
                                                      range.beg, FALSE)
  <1>1. /\ Out = <<>> /\ (\A k \in Kss : buf[k] = <<>>)
        /\ ks \in 1..Len(Keyspaces) /\ Keyspaces[ks] \in Kss /\ Keyspaces[ks] \in Rts
        /\ range \in RangeT /\ range.beg \in Nat /\ range.end \in Nat
    BY SetupReader
  <1>2. PICK k \in Kss : k = Keyspaces[ks]
    BY <1>1
  <1>3. k \in Rts /\ db_msp[k] \in SUBSET Nat
    BY <1>1, <1>2, TableFacts
  <1>4. PICK m : m = NewMulti(q, beg)
    OBVIOUS
  <1>5. m \in MultiT /\ MultiOK(db_msp[k], m)
    BY <1>1, <1>2, <1>3, <1>4, NewMultiFacts
  <1>6. multi' = [multi EXCEPT ![k] = m] /\ SetupKeyspace(ks + 1, range)
    BY <1>2, <1>4 DEF OpenMulti
  <1>7. multi \in [Kss -> MultiT] /\ ReaderTypes
    BY DEF RInv, ReaderTypes
  <1>8. /\ multi' \in [Kss -> MultiT] /\ multi'[k] = m
        /\ \A j \in Kss : j # k => multi'[j] = multi[j]
    BY <1>5, <1>6, <1>7
  <1>9. ks + 1 \in Nat \ {0}
    BY <1>1, ReaderAssumption
  <1>10. PICK i \in Nat \ {0} : i = ks + 1
    BY <1>9
  <1>11. PICK r \in RangeT : r = range
    BY <1>1
  <1>12. SetupKeyspace(i, r)
    BY <1>6, <1>10, <1>11
  <1>13. /\ ks' = i /\ phase' \in {"bck", "read"}
         /\ phase' = "bck" => /\ i \in 1..Len(Keyspaces)
                              /\ bck'.s = MspStream(r.beg - ReadWindow[Keyspaces[i]], r.beg, FALSE)
         /\ phase' = "read" => i > Len(Keyspaces)
         /\ bck'.msps = <<>> /\ bck'.left = {} /\ bck'.s \in MspStreamT
         /\ phase' = "bck" => bck'.s.end = r.beg
    BY <1>12, SetupFacts
  <1>14. Out' = Out /\ buf' = buf /\ evbuf' = evbuf /\ merged' = merged /\ item_lost' = item_lost
         /\ range' = range /\ db_msp' = db_msp
    BY DEF Out, history, dbVars
  <1>15. ReaderTypes'
    <2>1. Setup' => ks' \in 1..Len(Keyspaces)
      BY <1>13 DEF Setup
    <2>2. phase' \notin {"idle", "lst", "done"} /\ phase' \in {"idle", "bck", "lst", "read", "done"}
      BY <1>13
    <2>3. Out' = <<>> /\ \A j \in Kss : buf'[j] = <<>>
      BY <1>1, <1>14
    <2> QED
      BY <1>7, <1>8, <1>13, <1>14, <2>1, <2>2, <2>3 DEF ReaderTypes
  <1>16. BckOK'
    <2>1. ToSet(<<>>) = {} /\ Ordered(<<>>, Lt) /\ <<>> \in Seq(Nat)
      BY DEF ToSet, Ordered
    <2>2. Setup' => phase' = "bck"
      BY <1>13 DEF Setup
    <2> QED
      BY <1>11, <1>13, <1>14, <2>1, <2>2 DEF BckOK
  <1>17. OrderInv'
    <2>1. ToSet(<<>>) = {} /\ Ordered(<<>>, Le)
      BY DEF ToSet, Ordered
    <2>2. \A j \in Kss : MultiOK(db_msp[j], multi[j])
      BY DEF RInv, OrderInv, KsOK
    <2>3. \A j \in Kss : MultiOK(db_msp[j], multi'[j])
      BY <1>5, <1>8, <2>2
    <2>4. \A j \in Kss : KsOK(db_msp[j], <<>>, multi'[j], <<>>)
      BY <2>1, <2>3 DEF KsOK
    <2> QED
      BY <1>1, <1>14, <2>1, <2>4 DEF OrderInv
  <1>18. RInv'
    BY <1>15, <1>16, <1>17 DEF RInv
  <1>19. /\ phase' = "read" => ks + 1 > Len(Keyspaces)
         /\ phase' = "bck" => /\ ks + 1 \in 1..Len(Keyspaces)
                              /\ bck'.s = MspStream(range.beg - ReadWindow[Keyspaces[ks + 1]],
                                                      range.beg, FALSE)
    BY <1>10, <1>11, <1>13
  <1> QED
    BY <1>1, <1>2, <1>4, <1>8, <1>10, <1>13, <1>14, <1>18, <1>19

LEMMA BckPageReader ==
    ASSUME HInv, RInv, BckPage, UNCHANGED dbVars
    PROVE  /\ RInv'
           /\ \A p \in db_msp[Keyspaces[ks]] : p \in ToSet(bck.msps) \/ WillFind(bck.s, p) =>
                p \in ToSet(bck'.msps) \/ WillFind(bck'.s, p)
  <1>1. phase = "bck" /\ Setup /\ BckLimit \in Nat \ {0} /\ ~Exhausted(bck.s)
    BY ReaderAssumption DEF BckPage, Setup
  <1>2. /\ ks \in 1..Len(Keyspaces) /\ Keyspaces[ks] \in Rts
        /\ range.beg \in Nat
        /\ bck.msps \in Seq(Nat) /\ bck.s \in MspStreamT /\ Ordered(bck.msps, Lt)
        /\ bck.left \subseteq ToSet(bck.msps)
        /\ ToSet(bck.msps) \subseteq db_msp[Keyspaces[ks]] /\ bck.s.end = range.beg
        /\ \A p \in ToSet(bck.msps) : p < Ms(range.beg) /\ NoNewMsps(bck.s, Start(p))
    BY <1>1, SetupReader
  <1>3. PICK k \in Rts : k = Keyspaces[ks]
    BY <1>2
  <1>4. PICK s \in MspStreamT : s = bck.s
    BY <1>2
  <1>5. PICK lim \in Nat \ {0} : lim = BckLimit
    BY <1>1
  <1>21. PICK page : page = MspQuery(k, s.beg, s.end, s.excl, lim)
    OBVIOUS
  <1>6. PICK r : r = NextStream(s, page, lim)
    OBVIOUS
  <1>7. PICK q \in Seq(Nat) : q = bck.msps
    BY <1>2
  <1>8. bck' = Bck(q \o page, r, {})
    BY <1>3, <1>4, <1>5, <1>6, <1>7, <1>21 DEF BckPage
  <1>9. /\ page \in Seq(Nat) /\ Ordered(page, Lt)
        /\ \A p \in ToSet(page) : /\ p \in db_msp[k] /\ p \in Nat /\ p < Ms(s.end)
                                  /\ s.excl => s.beg < Start(p)
    <2>1. /\ page \in Seq(db_msp[k]) /\ page \in Seq(Nat) /\ Ordered(page, Lt)
          /\ Len(page) <= lim
          /\ \A p \in ToSet(page) : /\ p \in db_msp[k] /\ p \in Nat
                                    /\ MspsFrom(s) <= p /\ p < Ms(s.end)
                                    /\ s.excl => s.beg < Start(p)
          /\ \A p \in db_msp[k] : MspsFrom(s) <= p /\ p < Ms(s.end) =>
                p \in ToSet(page) \/ (Len(page) = lim /\ page # <<>> /\ Last(page) < p)
      BY <1>21, MspPageFacts
    <2> QED
      BY ONLY <2>1
  <1>10. /\ r \in MspStreamT /\ r.end = s.end
         /\ \A p \in db_msp[k] : WillFind(s, p) => p \in ToSet(page) \/ WillFind(r, p)
         /\ \A p \in ToSet(page) : NoNewMsps(r, Start(p))
         /\ \A x \in Nat : NoNewMsps(s, x) /\ ~Exhausted(s) =>
                /\ \A p \in ToSet(page) : x <= Start(p)
                /\ NoNewMsps(r, x)
    BY <1>6, <1>21, NextStreamFacts
  <1>11. PICK all : all = q \o page
    OBVIOUS
  <1>12. all \in Seq(Nat) /\ ToSet(all) = ToSet(q) \union ToSet(page)
    BY <1>9, <1>11, ConcatOf, ToSetConcat
  <1>13. ASSUME NEW p \in ToSet(q)
         PROVE  /\ NoNewMsps(r, Start(p)) /\ p \in Nat
                /\ \A x \in ToSet(page) : p <= x
    <2>1. p \in Nat
      BY InToSet
    <2>2. Start(p) \in Nat /\ NoNewMsps(s, Start(p)) /\ ~Exhausted(s)
      BY <1>1, <1>2, <1>4, <1>7, <2>1, StartNat
    <2>3. NoNewMsps(r, Start(p)) /\ \A x \in ToSet(page) : Start(p) <= Start(x)
      BY <1>10, <2>2
    <2> QED
      BY <1>9, <2>1, <2>3, StartMono
  <1>14. \A p \in ToSet(q), x \in ToSet(page) : p < x
    <2>1. ASSUME NEW p \in ToSet(q), NEW x \in ToSet(page) PROVE p < x
      <3>1. p \in Nat /\ x \in Nat
        BY <1>9, <1>13
      <3>2. s.excl /\ Start(p) <= s.beg
        BY <1>1, <1>2, <1>4, <1>7 DEF NoNewMsps
      <3>3. s.beg < Start(x)
        BY <1>9, <3>2
      <3>4. s.beg \in Int /\ Start(p) \in Int /\ Start(x) \in Int
        BY <3>1, StartMono DEF MspStreamT
      <3> QED
        BY <3>1, <3>2, <3>3, <3>4, StartMono, SMTT(40)
    <2> QED
      BY <2>1
  <1>15. Ordered(all, Lt)
    <2>1. \A p \in ToSet(q), x \in ToSet(page) : <<p, x>> \in Lt
      BY <1>9, <1>13, <1>14, PairFacts
    <2>2. Ordered(q, Lt)
      BY <1>2, <1>7
    <2> QED
      BY <1>9, <1>11, <2>1, <2>2, OrderedConcat
  <1>16. bck'.msps = all /\ bck'.s = r /\ bck'.left = {}
    BY <1>8, <1>11 DEF Bck
  <1>17. UNCHANGED <<phase, ks, range, before, multi, buf, evbuf, merged, item_lost, db_msp>>
    BY DEF BckPage, history, dbVars
  <1>18. BckOK'
    <2>1. ToSet(all) \subseteq db_msp[k]
      BY <1>2, <1>3, <1>7, <1>9, <1>12
    <2>2. \A p \in ToSet(all) : p < Ms(range.beg) /\ NoNewMsps(r, Start(p))
      BY <1>2, <1>4, <1>7, <1>9, <1>10, <1>12, <1>13
    <2> QED
      BY <1>2, <1>3, <1>4, <1>10, <1>12, <1>15, <1>16, <1>17, <2>1, <2>2 DEF BckOK
  <1>19. ReaderTypes' /\ OrderInv'
    <2>1. ReaderTypes /\ OrderInv /\ before \in Nat
      BY DEF RInv, ReaderTypes
    <2> QED
      BY <1>1, <1>2, <1>17, <2>1, SetupSame
  <1>20. \A p \in db_msp[k] : p \in ToSet(bck.msps) \/ WillFind(bck.s, p) =>
                p \in ToSet(bck'.msps) \/ WillFind(bck'.s, p)
    BY <1>4, <1>7, <1>10, <1>12, <1>16
  <1> QED
    BY <1>3, <1>18, <1>19, <1>20 DEF RInv
-----------------------------------------------------------------------------
LEMMA BckEndReader ==
    ASSUME HInv, RInv, BckEnd, UNCHANGED dbVars
    PROVE  RInv'
  <1>1. phase = "bck" /\ Setup /\ before' = 0
        /\ UNCHANGED <<range, buf, evbuf, merged, history, dbVars>>
    BY DEF BckEnd, Setup
  <1>2. /\ ks \in 1..Len(Keyspaces) /\ range \in RangeT /\ range.beg \in Nat
        /\ bck.msps \in Seq(Nat) /\ bck.s \in MspStreamT /\ Ordered(bck.msps, Lt)
        /\ ToSet(bck.msps) \subseteq db_msp[Keyspaces[ks]] /\ bck.s.end = range.beg
        /\ \A p \in ToSet(bck.msps) : p < Ms(range.beg) /\ NoNewMsps(bck.s, Start(p))
    BY <1>1, SetupReader
  <1>3. PICK q : q = KeepLastMsps(bck.msps)
    OBVIOUS
  <1>4. q \in Seq(Nat) /\ Ordered(q, Lt) /\ ToSet(q) \subseteq ToSet(bck.msps)
    BY <1>2, <1>3, KeepLastFacts
  <1>5. CASE range.one
    <2>1. /\ phase' = "lst" /\ bck' = Bck(q, bck.s, ToSet(q)) /\ UNCHANGED <<ks, multi>>
      BY <1>3, <1>5 DEF BckEnd
    <2>2. bck'.msps = q /\ bck'.s = bck.s /\ bck'.left = ToSet(q)
      BY <2>1 DEF Bck
    <2>3. range' = range /\ db_msp' = db_msp /\ item_lost' = item_lost /\ ks' = ks
      BY <1>1, <2>1 DEF history, dbVars
    <2>4. ToSet(q) \subseteq db_msp[Keyspaces[ks]]
          /\ \A p \in ToSet(q) : p < Ms(range.beg) /\ NoNewMsps(bck.s, Start(p))
      BY <1>2, <1>4
    <2>5. BckOK'
      BY <1>2, <1>4, <2>2, <2>3, <2>4 DEF BckOK
    <2>6. ReaderTypes /\ OrderInv
      BY DEF RInv
    <2>7. ReaderTypes' /\ OrderInv'
      BY <1>1, <1>2, <2>1, <2>3, <2>6, SetupSame
    <2> QED
      BY <2>5, <2>7 DEF RInv
  <1>6. CASE ~range.one
    <2>1. OpenMulti(q, range.beg)
      BY <1>3, <1>6 DEF BckEnd
    <2> QED
      BY <1>1, <1>2, <1>4, <2>1, OpenMultiReader
  <1> QED
    BY <1>5, <1>6

LEMMA GreatestNat ==
    ASSUME NEW T \in SUBSET Nat, T # {}, NEW n \in Nat, \A x \in T : x <= n
    PROVE  \E y \in T : \A z \in T : y >= z
  <1>1. PICK D : D = {d \in Nat : \A z \in T : z <= d}
    OBVIOUS
  <1>2. D \in SUBSET Nat /\ n \in D
    BY <1>1
  <1>3. PICK d \in D : \A e \in D : d <= e
    BY <1>2, LeastNat
  <1>4. d \in Nat /\ \A z \in T : z <= d /\ z \in Nat
    BY <1>1
  <1>5. d \in T
    <2>1. ASSUME d \notin T PROVE FALSE
      <3>1. \A z \in T : z <= d /\ z # d /\ z \in Nat
        BY <1>4, <2>1
      <3>2. PICK y \in T : TRUE
        OBVIOUS
      <3>3. d - 1 \in Nat /\ \A z \in T : z <= d - 1
        BY <1>4, <3>1, <3>2
      <3> QED
        BY <1>1, <1>3, <1>4, <3>3
    <2> QED
      BY <2>1
  <1> QED
    BY <1>4, <1>5

(* The latest event of a partition before the range, or 0.                 *)
LEMMA LspLastFacts ==
    ASSUME HInv, NEW k \in Rts, NEW p, NEW end \in Nat, NEW x, x = LspLast(k, p, end)
    PROVE  /\ x \in Nat /\ (x = 0 \/ (<<p, x>> \in db_ev[k] /\ x < end))
           /\ \A t : <<p, t>> \in db_ev[k] /\ t < end => t <= x
  <1>1. PICK E : E = {e \in db_ev[k] : e[1] = p /\ e[2] < end}
    OBVIOUS
  <1>2. IsFiniteSet(E) /\ E \in SUBSET db_ev[k]
    BY <1>1, TableFacts, FS_Subset
  <1>3. \A e \in E : e = <<p, e[2]>> /\ e[2] \in Nat /\ e[2] < end /\ e \in db_ev[k]
    <2>1. \A e \in db_ev[k] : e \in Msps \X Ts /\ e[2] \in Ts
      BY TableFacts
    <2>2. \A e \in Msps \X Ts : e = <<e[1], e[2]>>
      OBVIOUS
    <2> QED
      BY <1>1, <2>1, <2>2, TimeAssumption
  <1>4. PICK T : T = {0} \union {e[2] : e \in E}
    OBVIOUS
  <1>5. x = Max(T)
    BY <1>1, <1>4 DEF LspLast
  <1>6. \A y \in T : y \in Nat /\ (y = 0 \/ (<<p, y>> \in db_ev[k] /\ y < end))
    BY <1>3, <1>4
  <1>7. \A y \in T : y <= end
    <2>1. ASSUME NEW y \in T PROVE y <= end
      <3>1. y \in Nat /\ (y = 0 \/ y < end)
        BY <1>6
      <3> QED
        BY <3>1
    <2> QED
      BY <2>1
  <1>8. \E y \in T : \A z \in T : y >= z
    <2>1. T \in SUBSET Nat /\ T # {}
      BY <1>4, <1>6
    <2> QED
      BY <1>7, <2>1, GreatestNat
  <1>9. x \in T /\ \A z \in T : x >= z
    BY <1>5, <1>8 DEF Max
  <1>10. ASSUME NEW t, <<p, t>> \in db_ev[k], t < end PROVE t <= x
    <2>1. <<p, t>> \in E
      BY <1>1, <1>10
    <2>2. t \in T
      BY <1>4, <2>1
    <2> QED
      BY <1>6, <1>9, <2>2
  <1> QED
    BY <1>6, <1>9, <1>10

LEMMA LspLstReader ==
    ASSUME HInv, RInv, LspLst, UNCHANGED dbVars
    PROVE  /\ RInv' /\ bck'.msps = bck.msps
           /\ \E p \in bck.left : /\ bck'.left = bck.left \ {p}
                                  /\ before' = Max({before, LspLast(Keyspaces[ks], p, range.beg)})
                                  /\ before \in Nat
                                  /\ LspLast(Keyspaces[ks], p, range.beg) \in Nat
  <1>1. phase = "lst" /\ Setup
        /\ UNCHANGED <<phase, ks, range, multi, buf, evbuf, merged, item_lost, db_msp>>
    BY DEF LspLst, Setup, history, dbVars
  <1>2. PICK p \in bck.left :
           /\ bck' = [bck EXCEPT !.left = @ \ {p}]
           /\ before' = Max({before, LspLast(Keyspaces[ks], p, range.beg)})
    BY DEF LspLst
  <1>3. /\ ks \in 1..Len(Keyspaces) /\ Keyspaces[ks] \in Rts /\ range.beg \in Nat
        /\ bck.left \subseteq ToSet(bck.msps)
    BY <1>1, SetupReader
  <1>4. ReaderTypes /\ OrderInv /\ BckOK /\ before \in Nat
    BY DEF RInv, ReaderTypes
  <1>5. LspLast(Keyspaces[ks], p, range.beg) \in Nat
    <2>1. PICK k \in Rts : k = Keyspaces[ks]
      BY <1>3
    <2>2. PICK end \in Nat : end = range.beg
      BY <1>3
    <2>3. PICK x : x = LspLast(k, p, end)
      OBVIOUS
    <2>4. x \in Nat
      BY <2>3, LspLastFacts
    <2> QED
      BY <2>1, <2>2, <2>3, <2>4
  <1>6. before' \in Nat
    <2>1. PICK x \in Int : x = LspLast(Keyspaces[ks], p, range.beg) /\ x \in Nat
      BY <1>5
    <2>2. PICK b \in Int : b = before /\ b \in Nat
      BY <1>4
    <2>3. Max({b, x}) \in {b, x}
      BY MaxOfTwo
    <2> QED
      BY <1>2, <2>1, <2>2, <2>3
  <1>7. bck'.left = bck.left \ {p} /\ bck'.msps = bck.msps /\ bck'.s = bck.s
    BY <1>2, <1>4 DEF BckOK
  <1>8. BckOK'
    BY <1>1, <1>3, <1>4, <1>7 DEF BckOK, Setup
  <1>9. ReaderTypes' /\ OrderInv'
    BY <1>1, <1>3, <1>4, <1>6, SetupSame
  <1> QED
    BY <1>2, <1>4, <1>5, <1>7, <1>8, <1>9 DEF RInv

LEMMA LspLstEndReader ==
    ASSUME HInv, RInv, LspLstEnd, UNCHANGED dbVars
    PROVE  RInv'
  <1>1. phase = "lst" /\ Setup /\ before' = 0 /\ OpenMulti(bck.msps, ScanBeg)
        /\ UNCHANGED <<range, buf, evbuf, merged, history, dbVars>>
    BY DEF LspLstEnd, Setup
  <1>2. /\ range.beg \in Nat /\ bck.msps \in Seq(Nat) /\ Ordered(bck.msps, Lt)
        /\ ToSet(bck.msps) \subseteq db_msp[Keyspaces[ks]]
    BY <1>1, SetupReader
  <1>3. ScanBeg \in Nat
    BY <1>2 DEF RInv, ReaderTypes, ScanBeg
  <1> QED
    BY <1>1, <1>2, <1>3, OpenMultiReader

LEMMA StartReadReader ==
    ASSUME HInv, RInv, StartRead, UNCHANGED dbVars
    PROVE  /\ RInv' /\ phase' \in {"bck", "read"} /\ ks' = 1
           /\ phase' = "read" => 1 > Len(Keyspaces)
           /\ phase' = "bck" => bck'.s = MspStream(range'.beg - ReadWindow[Keyspaces[1]],
                                                      range'.beg, FALSE)
  <1>1. PICK q \in Ranges : /\ range' = [beg |-> q[1], end |-> q[2], one |-> q[3]]
                            /\ SetupKeyspace(1, [beg |-> q[1], end |-> q[2], one |-> q[3]])
    BY DEF StartRead
  <1>2. phase = "idle" /\ UNCHANGED <<before, multi, buf, evbuf, merged, item_lost, db_msp>>
    BY DEF StartRead, dbVars
  <1>3. q[1] \in Nat /\ q[2] \in Nat /\ q[3] \in BOOLEAN /\ q[1] <= q[2]
    BY ReaderAssumption
  <1>4. PICK r \in RangeT : r = [beg |-> q[1], end |-> q[2], one |-> q[3]]
    BY <1>3 DEF RangeT
  <1>5. r.beg <= r.end
    BY <1>3, <1>4
  <1>6. PICK i \in Nat \ {0} : i = 1
    OBVIOUS
  <1>7. SetupKeyspace(i, r) /\ range' = r
    BY <1>1, <1>4, <1>6
  <1>8. /\ ks' = i /\ phase' \in {"bck", "read"}
        /\ phase' = "bck" => /\ i \in 1..Len(Keyspaces)
                              /\ bck'.s = MspStream(r.beg - ReadWindow[Keyspaces[i]], r.beg, FALSE)
        /\ phase' = "read" => i > Len(Keyspaces)
        /\ bck'.msps = <<>> /\ bck'.left = {} /\ bck'.s \in MspStreamT
        /\ phase' = "bck" => bck'.s.end = r.beg
    BY <1>7, SetupFacts
  <1>9. ReaderTypes /\ OrderInv
    BY DEF RInv
  <1>10. Out' = Out
    BY <1>2 DEF Out
  <1>11. ReaderTypes'
    <2>1. Setup' => ks' \in 1..Len(Keyspaces)
      BY <1>8 DEF Setup
    <2>2. phase' \notin {"idle", "lst", "done"} /\ phase' \in {"idle", "bck", "lst", "read", "done"}
      BY <1>8
    <2>3. Out' = <<>> /\ \A j \in Kss : buf'[j] = <<>>
      BY <1>2, <1>9, <1>10 DEF ReaderTypes
    <2>4. range' \in RangeT /\ range'.beg <= range'.end /\ ks' \in Nat
      BY <1>5, <1>7, <1>8
    <2> QED
      BY <1>2, <1>9, <2>1, <2>2, <2>3, <2>4 DEF ReaderTypes
  <1>12. BckOK'
    <2>1. ToSet(<<>>) = {} /\ Ordered(<<>>, Lt) /\ <<>> \in Seq(Nat)
      BY DEF ToSet, Ordered
    <2>2. Setup' => phase' = "bck"
      BY <1>8 DEF Setup
    <2> QED
      BY <1>7, <1>8, <2>1, <2>2 DEF BckOK
  <1>13. OrderInv'
    BY <1>2, <1>9, <1>10 DEF OrderInv
  <1>14. RInv'
    BY <1>11, <1>12, <1>13 DEF RInv
  <1> QED
    BY <1>6, <1>7, <1>8, <1>14
-----------------------------------------------------------------------------
(* The tables only grow.                                                   *)
Grow == \A k \in Rts : db_msp[k] \subseteq db_msp'[k] /\ db_ev[k] \subseteq db_ev'[k]

LEMMA WrittenGrows == ASSUME NEW rows, Written(rows) PROVE Grow
  <1>1. ASSUME NEW k \in Rts
        PROVE  db_msp[k] \subseteq db_msp'[k] /\ db_ev[k] \subseteq db_ev'[k]
    <2>1. /\ db_msp'[k] = db_msp[k] \union
               {r.msp : r \in {q \in rows : q.k = "Msp" /\ q.ks = k}}
          /\ db_ev'[k] = db_ev[k] \union
               {<<r.msp, r.ts>> : r \in {q \in rows : q.k = "Insert" /\ q.ks = k}}
      BY DEF Written, Stores
    <2> QED
      BY <2>1
  <1> QED
    BY <1>1 DEF Grow

LEMMA InsertGrows == ASSUME NEW rows, Insert(rows) PROVE Grow
  <1>1. PICK l, f : Written(rows \ (l \union f))
    BY DEF Insert
  <1>2. PICK some : some = rows \ (l \union f)
    OBVIOUS
  <1> QED
    BY <1>1, <1>2, WrittenGrows

LEMMA TablesGrow == ASSUME WriterNext PROVE Grow
  <1>1. ASSUME UNCHANGED dbVars PROVE Grow
    BY <1>1 DEF Grow, dbVars
  <1>2. ASSUME NEW rts, NEW ts, NEW t, WriteTo(rts, ts, t) PROVE Grow
    <2>1. PICK rows : rows = UNION {SeriesRows(rt, writer[rt], ts) : rt \in rts}
      OBVIOUS
    <2>2. Insert(rows)
      BY <1>2, <2>1 DEF WriteTo
    <2> QED
      BY <2>2, InsertGrows
  <1>3. ASSUME NEW ts, Write(ts) PROVE Grow
    <2>1. \E rts : WriteTo(rts, ts, ts)
      BY <1>3 DEF Write
    <2> QED
      BY <1>2, <2>1
  <1>4. ASSUME NEW ts, Tick(ts) PROVE Grow
    <2>1. WriteTo(ReputTo(ts), Newest, ts)
      BY <1>4 DEF Tick
    <2>2. PICK rts, n : rts = ReputTo(ts) /\ n = Newest
      OBVIOUS
    <2> QED
      BY <1>2, <2>1, <2>2
  <1>5. CASE NewWriter
    BY <1>1, <1>5 DEF NewWriter
  <1>6. CASE DropWriter
    BY <1>1, <1>6 DEF DropWriter
  <1>7. CASE Housekeeping
    <2>1. PICK rows : rows = {MspRow(ReputKs(rt), writer[rt].msp) : rt \in ReputDue}
      OBVIOUS
    <2>2. Insert(rows)
      BY <1>7, <2>1 DEF Housekeeping
    <2> QED
      BY <2>2, InsertGrows
  <1>8. CASE Close
    <2>1. PICK rows : rows = CloseRows
      OBVIOUS
    <2>2. Insert(rows)
      BY <1>8, <2>1 DEF Close
    <2> QED
      BY <2>2, InsertGrows
  <1>9. CASE LateInsert
    <2>1. PICK r \in late : Written({r})
      BY <1>9 DEF LateInsert
    <2>2. PICK rows : rows = {r}
      OBVIOUS
    <2> QED
      BY <2>1, <2>2, WrittenGrows
  <1> QED
    BY <1>3, <1>4, <1>5, <1>6, <1>7, <1>8, <1>9 DEF WriterNext

LEMMA NextReader == ASSUME HInv, RInv, [Next]_vars PROVE RInv'
  <1>1. CASE WriterNext /\ UNCHANGED readerVars
    <2>1. \A k \in Rts : db_msp[k] \subseteq db_msp'[k]
      BY <1>1, TablesGrow DEF Grow
    <2> QED
      BY <1>1, <2>1, GrowsReader
  <1>2. CASE StartRead /\ UNCHANGED dbVars
    BY <1>2, StartReadReader
  <1>3. CASE ReaderStep /\ UNCHANGED dbVars
    <2>1. CASE BckPage
      BY <1>3, <2>1, BckPageReader
    <2>2. CASE BckEnd
      BY <1>3, <2>2, BckEndReader
    <2>3. CASE LspLst
      BY <1>3, <2>3, LspLstReader
    <2>4. CASE LspLstEnd
      BY <1>3, <2>4, LspLstEndReader
    <2>5. ASSUME NEW k \in Kss,
                 \/ MspPage(k) \/ PreopenPage(k) \/ InputPage(k) \/ OpenNextMsp(k)
                 \/ MultiItem(k) \/ ItemDropped(k)
          PROVE  RInv'
      BY <1>3, <2>5, MspPageReader, PreopenPageReader, InputPageReader, OpenNextMspReader,
         MultiItemReader, ItemDroppedReader
    <2>6. CASE MergeStep
      BY <1>3, <2>6, MergeStepReader
    <2>7. CASE MergeEnd
      BY <1>3, <2>7, MergeEndReader
    <2> QED
      BY <1>3, <2>1, <2>2, <2>3, <2>4, <2>5, <2>6, <2>7 DEF ReaderStep, Kss
  <1>4. CASE UNCHANGED vars
    <2>1. UNCHANGED readerVars /\ \A k \in Rts : db_msp[k] \subseteq db_msp'[k]
      BY <1>4 DEF vars, dbVars
    <2> QED
      BY <2>1, GrowsReader
  <1> QED
    BY <1>1, <1>2, <1>3, <1>4 DEF Next

LEMMA InitReader == ASSUME Init PROVE RInv
  <1>1. /\ phase = "idle" /\ ks = 0 /\ range = NoRange /\ bck = NoBck /\ before = 0
        /\ multi = [k \in Kss |-> NoMulti] /\ buf = [k \in Kss |-> <<>>]
        /\ evbuf = <<>> /\ merged = <<>> /\ item_lost = FALSE
    BY DEF Init, ReaderInit, Kss
  <1>2. ToSet(<<>>) = {} /\ (\A R : Ordered(<<>>, R)) /\ \A S : <<>> \in Seq(S)
    BY DEF ToSet, Ordered
  <1>3. Out = <<>>
    <2>1. <<>> \in Seq(Ts)
      OBVIOUS
    <2>2. <<>> \o <<>> = <<>>
      BY <2>1, ConcatEmptySeq
    <2> QED
      BY <1>1, <2>2 DEF Out
  <1>4. NoMulti \in MultiT /\ NoMulti.inps = <<>> /\ NoMulti.ahead = <<>>
    BY <1>2 DEF NoMulti, Multi, MspStream, MultiT, MspStreamT
  <1>5. ReaderTypes
    <2>1. range \in RangeT /\ range.beg <= range.end
      BY <1>1 DEF NoRange, RangeT
    <2>2. multi \in [Kss -> MultiT] /\ buf \in [Kss -> Seq(Ts)] /\ \A k \in Kss : buf[k] = <<>>
      BY <1>1, <1>2, <1>4
    <2>3. evbuf \in Seq(Ts) /\ merged \in Seq(Ts) /\ Len(evbuf) <= MergeLimit
      BY <1>1, <1>2, ReaderAssumption
    <2> QED
      BY <1>1, <1>3, <2>1, <2>2, <2>3 DEF ReaderTypes, Setup
  <1>6. BckOK
    <2>1. bck.msps = <<>> /\ bck.s \in MspStreamT /\ bck.left = {}
      BY <1>1 DEF NoBck, Bck, MspStream, MspStreamT
    <2> QED
      BY <1>1, <1>2, <2>1 DEF BckOK, Setup
  <1>7. OrderInv
    <2>1. \A k \in Kss : MultiOK(db_msp[k], multi[k])
      BY <1>1, <1>4 DEF MultiOK
    <2>2. \A k \in Kss : multi[k] = NoMulti /\ buf[k] = <<>>
      BY <1>1
    <2> QED
      BY <1>2, <1>3, <2>1, <2>2 DEF OrderInv, KsOK
  <1> QED
    BY <1>5, <1>6, <1>7 DEF RInv

LEMMA SpecReader == Spec => [](IInv /\ HInv /\ RInv)
  <1>1. Init => IInv /\ HInv /\ RInv
    BY InitInv, InitHist, InitReader
  <1>2. IInv /\ HInv /\ RInv /\ [Next]_vars => (IInv /\ HInv /\ RInv)'
    BY NextInv, NextHist, NextReader
  <1> QED
    BY <1>1, <1>2, PTL DEF Spec

(* Every variable of the writers, the tables and the reader keeps to its   *)
(* values, and a stream reads only partitions whose msp is in the table.   *)
THEOREM StoreTypes == Spec => []TypeOK
  <1>1. HInv /\ RInv => TypeOK
    <2> SUFFICES ASSUME HInv, RInv PROVE TypeOK
      OBVIOUS
    <2>1. ASSUME NEW rt \in Rts
          PROVE  /\ \A m \in db_msp[rt] \union settled[rt] : IsMsp(m)
                 /\ \A e \in db_ev[rt] : IsMsp(e[1]) /\ e[2] \in Ts
                 /\ writer[rt].ts \in Ts \union {0} /\ writer[rt].count \in 0..CountMax
                 /\ writer[rt].put <= writer[rt].ts
      <3>1. StoreOK(rt)
        BY DEF HInv
      <3>2. settled[rt] \subseteq Msps /\ WState(rt, MspsOf(rt), writer[rt])
        BY <3>1 DEF StoreOK
      <3>3. db_msp[rt] \subseteq Msps /\ \A e \in db_ev[rt] : e[1] \in Msps /\ e[2] \in Ts
        BY TableFacts
      <3>4. \A m \in Msps : IsMsp(m)
        BY DEF Msps, IsMsp
      <3>5. writer[rt].ts \in Ts \union {0} /\ writer[rt].count \in 0..CountMax
            /\ writer[rt].put <= writer[rt].ts
        BY <3>2 DEF WState
      <3> QED
        BY <3>2, <3>3, <3>4, <3>5
    <2>2. now \in Ts /\ last_insert_ts \in Ts \union {0} /\ open \in BOOLEAN
      BY DEF HInv
    <2>3. /\ phase \in {"idle", "bck", "lst", "read", "done"}
          /\ merged \in Seq(Ts) /\ item_lost \in BOOLEAN
      BY DEF RInv, ReaderTypes
    <2>4. ToSet(merged) \subseteq Ts
      BY <2>3, InToSet
    <2>5. ASSUME NEW k \in Kss, NEW i \in 1..Len(multi[k].inps)
          PROVE  multi[k].inps[i].s.msp \in db_msp[k]
      BY ReaderFacts DEF MultiOK, InpOK, StreamOK
    <2> QED
      BY <2>1, <2>2, <2>3, <2>4, <2>5 DEF TypeOK, Kss
  <1> QED
    BY <1>1, SpecReader, PTL

(* What LspMerge hands on is in order, whatever the partitions and the     *)
(* keyspaces hold and however the tables grow during the read.             *)
THEOREM MergedIsSorted == Spec => []MergedSorted
  <1>1. RInv => MergedSorted
    <2> SUFFICES ASSUME RInv PROVE MergedSorted
      OBVIOUS
    <2>1. merged \in Seq(Ts) /\ evbuf \in Seq(Ts) /\ Ordered(Out, Le)
      BY DEF RInv, ReaderTypes, OrderInv
    <2>2. PICK m \in Seq(Ts) : m = merged
      BY <2>1
    <2>3. PICK e \in Seq(Ts) : e = evbuf
      BY <2>1
    <2>4. Ordered(m \o e, Le)
      BY <2>1, <2>2, <2>3 DEF Out
    <2>5. Ordered(m, Le)
      BY <2>4, OrderedConcat
    <2>6. \A i \in 1..Len(m) : m[i] \in Nat
      BY InToSet, TimeAssumption
    <2>7. ASSUME NEW i \in 1..Len(m), NEW j \in 1..Len(m), i < j PROVE m[i] <= m[j]
      BY <2>5, <2>6, <2>7, PairFacts DEF Ordered
    <2> QED
      BY <2>2, <2>7 DEF MergedSorted
  <1> QED
    BY <1>1, SpecReader, PTL
-----------------------------------------------------------------------------
(* Dedup drops nothing but repetitions from events that are in order.      *)
IsDedup(q, F) ==
    F = [i \in 0..Len(q) |-> IF i = 0 THEN <<>> ELSE WithLater(F[i - 1], q[i])]

LEMMA DedupExists ==
    ASSUME NEW S
    PROVE  \A n \in Nat : \A q \in Seq(S) : Len(q) = n => \E F : IsDedup(q, F)
  <1> DEFINE T == {n \in Nat : \A q \in Seq(S) : Len(q) = n => \E F : IsDedup(q, F)}
  <1>1. 0 \in T
    <2>1. ASSUME NEW q \in Seq(S), Len(q) = 0 PROVE \E F : IsDedup(q, F)
      <3>1. IsDedup(q, [i \in 0..0 |-> <<>>])
        BY <2>1 DEF IsDedup
      <3> QED
        BY <3>1
    <2> QED
      BY <2>1
  <1>2. ASSUME NEW n \in Nat, n \in T PROVE n + 1 \in T
    <2>1. ASSUME NEW q \in Seq(S), Len(q) = n + 1 PROVE \E F : IsDedup(q, F)
      <3> DEFINE p == SubSeq(q, 1, n)
      <3>1. p \in Seq(S) /\ Len(p) = n /\ \A i \in 1..n : p[i] = q[i]
        BY <2>1
      <3> HIDE DEF p
      <3>2. PICK F : IsDedup(p, F)
        BY <1>2, <3>1
      <3> DEFINE G == [i \in 0..(n + 1) |-> IF i <= n THEN F[i] ELSE WithLater(F[n], q[i])]
      <3>3. \A i \in 0..n : F[i] = IF i = 0 THEN <<>> ELSE WithLater(F[i - 1], q[i])
        <4> DEFINE H(i) == IF i = 0 THEN <<>> ELSE WithLater(F[i - 1], p[i])
        <4>1. F = [i \in 0..n |-> H(i)]
          BY <3>1, <3>2 DEF IsDedup
        <4>2. \A i \in 0..n : F[i] = H(i)
          <5> HIDE DEF H
          <5> QED
            BY <4>1
        <4> QED
          BY <3>1, <4>2
      <3>4. \A i \in 0..(n + 1) : i - 1 \in 0..n \/ i = 0
        OBVIOUS
      <3>5. ASSUME NEW i \in 0..(n + 1)
            PROVE  G[i] = IF i = 0 THEN <<>> ELSE WithLater(G[i - 1], q[i])
        <4>1. CASE i <= n
          BY <3>3, <3>4, <4>1
        <4>2. CASE i = n + 1
          BY <4>2
        <4> QED
          BY <4>1, <4>2
      <3>6. IsDedup(q, G)
        <4>1. G = [i \in 0..(n + 1) |-> G[i]]
          OBVIOUS
        <4> HIDE DEF G
        <4> QED
          BY <2>1, <3>5, <4>1 DEF IsDedup
      <3> QED
        BY <3>6
    <2> QED
      BY <2>1
  <1> HIDE DEF T
  <1>3. \A n \in Nat : n \in T
    BY <1>1, <1>2, NatSetInduction
  <1> QED
    BY <1>3 DEF T

LEMMA DedupRec ==
    ASSUME NEW S, NEW q \in Seq(S)
    PROVE  /\ Len(q) \in Nat /\ DedupUpTo(q)[0] = <<>>
           /\ \A i \in Nat : i + 1 \in 1..Len(q) =>
                DedupUpTo(q)[i + 1] = WithLater(DedupUpTo(q)[i], q[i + 1])
  <1>1. \E F : IsDedup(q, F)
    <2>1. \A n \in Nat : \A r \in Seq(S) : Len(r) = n => \E F : IsDedup(r, F)
      BY DedupExists
    <2> QED
      BY <2>1
  <1>2. DedupUpTo(q) = CHOOSE F : IsDedup(q, F)
    BY DEF DedupUpTo, IsDedup
  <1>3. IsDedup(q, DedupUpTo(q))
    BY <1>1, <1>2
  <1> DEFINE F == DedupUpTo(q)
             H(j) == IF j = 0 THEN <<>> ELSE WithLater(F[j - 1], q[j])
  <1>4. F = [j \in 0..Len(q) |-> H(j)]
    BY <1>3 DEF IsDedup
  <1> HIDE DEF F, H
  <1>5. \A i \in 0..Len(q) : F[i] = H(i)
    BY <1>4
  <1>6. F[0] = <<>>
    BY <1>5 DEF H
  <1>7. ASSUME NEW i \in Nat, i + 1 \in 1..Len(q)
        PROVE  F[i + 1] = WithLater(F[i], q[i + 1])
    <2>1. F[i + 1] = H(i + 1)
      BY <1>5, <1>7
    <2>2. i + 1 # 0 /\ (i + 1) - 1 = i
      OBVIOUS
    <2> QED
      BY <2>1, <2>2 DEF H
  <1> QED
    BY <1>6, <1>7 DEF F

LastOrZero(q) == IF q = <<>> THEN 0 ELSE Last(q)

LEMMA WithLaterFacts ==
    ASSUME NEW S \in SUBSET Nat, NEW a \in Seq(S), NEW x \in S, LastOrZero(a) <= x
    PROVE  /\ WithLater(a, x) \in Seq(S) /\ LastOrZero(WithLater(a, x)) = x
           /\ x >= 1 => x \in ToSet(WithLater(a, x))
           /\ \A y \in ToSet(a) : y \in ToSet(WithLater(a, x))
  <1>1. /\ Append(a, x) \in Seq(S) /\ Len(a) \in Nat /\ Len(Append(a, x)) = Len(a) + 1
        /\ Append(a, x)[Len(a) + 1] = x
        /\ \A i \in 1..Len(a) : Append(a, x)[i] = a[i] /\ i \in 1..Len(Append(a, x))
    BY AppendProperties
  <1>2. a # <<>> => Len(a) \in 1..Len(a) /\ Last(a) = a[Len(a)] /\ Last(a) \in Nat
    <2>1. ASSUME a # <<>>
          PROVE  Len(a) \in 1..Len(a) /\ Last(a) = a[Len(a)] /\ Last(a) \in Nat
      <3>1. Len(a) \in 1..Len(a) /\ Last(a) = a[Len(a)]
        BY <2>1 DEF Last
      <3> QED
        BY <3>1, InToSet, ZenonT(60)
    <2> QED
      BY <2>1
  <1>3. CASE x > LastOrZero(a)
    <2>1. WithLater(a, x) = Append(a, x)
      BY <1>3 DEF WithLater, LastOrZero
    <2>2. PICK b \in Seq(S) : b = Append(a, x)
      BY <1>1
    <2>3. Last(b) = x /\ b # <<>> /\ x \in ToSet(b)
      <3>1. Len(b) = Len(a) + 1 /\ b[Len(b)] = x /\ Len(b) \in 1..Len(b) /\ b # <<>>
        BY <1>1, <2>2
      <3> QED
        BY <3>1, InToSet DEF Last
    <2>4. \A y \in ToSet(a) : y \in ToSet(b)
      <3>1. ASSUME NEW y \in ToSet(a) PROVE y \in ToSet(b)
        <4>1. PICK i \in 1..Len(a) : y = a[i]
          BY InToSet
        <4>2. i \in 1..Len(b) /\ b[i] = y
          BY <1>1, <2>2, <4>1
        <4> QED
          BY <4>2, InToSet
      <3> QED
        BY <3>1
    <2> QED
      BY <2>1, <2>2, <2>3, <2>4 DEF LastOrZero
  <1>4. CASE ~(x > LastOrZero(a))
    <2>1. WithLater(a, x) = a
      BY <1>4 DEF WithLater, LastOrZero
    <2>2. LastOrZero(a) = x
      BY <1>2, <1>4 DEF LastOrZero
    <2>3. x >= 1 => a # <<>> /\ x = a[Len(a)]
      BY <1>2, <2>2 DEF LastOrZero
    <2>4. x >= 1 => x \in ToSet(a)
      BY <1>2, <2>3, InToSet
    <2> QED
      BY <2>1, <2>2, <2>4
  <1> QED
    BY <1>3, <1>4

LEMMA DedupFacts ==
    ASSUME NEW S \in SUBSET Nat, NEW q \in Seq(S), Ordered(q, Le)
    PROVE  \A x \in ToSet(q) : x >= 1 => x \in ToSet(Dedup(q))
  <1> DEFINE F == DedupUpTo(q)
             P(i) == /\ F[i] \in Seq(S)
                     /\ LastOrZero(F[i]) = IF i = 0 THEN 0 ELSE q[i]
                     /\ \A j \in 1..i : q[j] >= 1 => q[j] \in ToSet(F[i])
             T == {i \in Nat : i \in 0..Len(q) => P(i)}
  <1>1. /\ Len(q) \in Nat /\ F[0] = <<>>
        /\ \A i \in Nat : i + 1 \in 1..Len(q) => F[i + 1] = WithLater(F[i], q[i + 1])
    BY DedupRec
  <1> HIDE DEF F
  <1>2. 0 \in T
    <2>1. F[0] \in Seq(S) /\ LastOrZero(F[0]) = 0
      BY <1>1 DEF LastOrZero
    <2> QED
      BY <2>1
  <1>3. ASSUME NEW i \in Nat, i \in T PROVE i + 1 \in T
    <2>1. SUFFICES ASSUME i + 1 \in 0..Len(q) PROVE P(i + 1)
      OBVIOUS
    <2>2. i + 1 \in 1..Len(q) /\ P(i) /\ i \in 0..Len(q)
      BY <1>1, <1>3, <2>1
    <2>3. PICK a \in Seq(S) : a = F[i]
      BY <2>2
    <2>4. PICK x \in S : x = q[i + 1]
      BY <2>2, InToSet
    <2>5. LastOrZero(a) <= x
      <3>1. CASE i = 0
        BY <2>2, <2>3, <3>1
      <3>2. CASE i # 0
        <4>1. i \in 1..Len(q) /\ i < i + 1
          BY <1>1, <2>2, <3>2
        <4>2. <<q[i], q[i + 1]>> \in Le /\ q[i] \in S
          BY <2>2, <4>1 DEF Ordered
        <4>3. q[i] <= x
          BY <2>4, <4>2, PairFacts
        <4> QED
          BY <2>2, <2>3, <3>2, <4>3
      <3> QED
        BY <3>1, <3>2
    <2>6. /\ WithLater(a, x) \in Seq(S) /\ LastOrZero(WithLater(a, x)) = x
          /\ x >= 1 => x \in ToSet(WithLater(a, x))
          /\ \A y \in ToSet(a) : y \in ToSet(WithLater(a, x))
      BY <2>5, WithLaterFacts
    <2>7. F[i + 1] = WithLater(a, x)
      BY <1>1, <2>2, <2>3, <2>4
    <2>8. \A j \in 1..(i + 1) : j \in 1..i \/ j = i + 1
      OBVIOUS
    <2>9. \A j \in 1..(i + 1) : q[j] >= 1 => q[j] \in ToSet(F[i + 1])
      BY <2>2, <2>3, <2>4, <2>6, <2>7, <2>8
    <2> QED
      BY <2>4, <2>6, <2>7, <2>9
  <1> HIDE DEF T
  <1>4. \A i \in Nat : i \in T
    BY <1>2, <1>3, NatSetInduction
  <1>5. P(Len(q))
    BY <1>1, <1>4 DEF T
  <1>6. Dedup(q) = F[Len(q)]
    BY DEF Dedup, F
  <1>7. ASSUME NEW x \in ToSet(q), x >= 1 PROVE x \in ToSet(Dedup(q))
    <2>1. PICK j \in 1..Len(q) : x = q[j]
      BY InToSet
    <2> QED
      BY <1>5, <1>6, <1>7, <2>1
  <1> QED
    BY <1>7
-----------------------------------------------------------------------------
(* What a read has to find is found.                                       *)
Opened(k) == phase = "read" \/ (Setup /\ \E i \in 1..(ks - 1) : Keyspaces[i] = k)
Current(k) == Setup /\ Keyspaces[ks] = k
BckHas(p) == p \in ToSet(bck.msps) \/ WillFind(bck.s, p)

(* The event of time t, in partition p of keyspace k, is on its way.       *)
DueAt(k, p, t) ==
    /\ Known(k, p, t) /\ range.beg <= t /\ p < Ms(range.end)
    /\ Opened(k) => Tracked(k, p, t)
    /\ Current(k) /\ p < Ms(range.beg) => /\ phase = "bck" => BckHas(p)
                                          /\ phase = "lst" => p \in ToSet(bck.msps)

(* The event before the range that was found is in one of the partitions.  *)
BeforeInv ==
    \/ before = 0
    \/ /\ phase = "lst" /\ before < range.beg
       /\ \E p \in ToSet(bck.msps) : <<p, before>> \in db_ev[Keyspaces[ks]]

DueInv ==
    /\ phase \in {"bck", "lst", "read"} /\ ~item_lost =>
         \A t \in due : \E k \in Kss : \E p : DueAt(k, p, t)
    /\ phase = "done" /\ ~item_lost => \A t \in due : t \in ToSet(merged) /\ t >= 1
    /\ BeforeInv

LEMMA KnownFacts ==
    ASSUME HInv, NEW k \in Rts, NEW p, NEW t, <<p, t>> \in db_ev[k]
    PROVE  /\ p \in Nat /\ t \in Nat /\ t >= 1 /\ p \in Msps /\ t \in Ts
           /\ Start(p) <= t /\ t < Start(p) + GridLen + RolloverIvl[k]
  <1>1. PICK e : e = <<p, t>>
    OBVIOUS
  <1>2. e \in db_ev[k]
    BY <1>1
  <1>3. e \in Msps \X Ts /\ e[1] \in Nat /\ e[2] \in Ts /\ EventOK(k, e)
    BY <1>2, TableFacts
  <1>4. e[1] = p /\ e[2] = t
    BY <1>1
  <1> QED
    BY <1>1, <1>3, <1>4, TimeAssumption DEF EventOK

(* The look back of msp_bck reaches the partition of an event in range.    *)
LEMMA InWindow ==
    ASSUME HInv, NEW k \in Rts, NEW p, NEW t, <<p, t>> \in db_ev[k], NEW beg \in Nat,
           beg <= t, p < Ms(beg), NEW s, s = MspStream(beg - ReadWindow[k], beg, FALSE)
    PROVE  WillFind(s, p)
  <1>1. /\ p \in Nat /\ t \in Nat /\ t < Start(p) + GridLen + RolloverIvl[k]
    BY KnownFacts
  <1>2. /\ RolloverIvl[k] \in Nat /\ ReadWindow[k] \in Nat
        /\ ReadWindow[k] >= RolloverIvl[k] + GridLen /\ GridLen \in Nat \ {0}
    BY WindowAssumption, TimeAssumption
  <1>3. Start(p) \in Nat
    BY <1>1, StartNat
  <1>4. PICK w \in Nat : w = ReadWindow[k]
    BY <1>2
  <1>5. w >= 1 /\ t < Start(p) + w
    BY <1>1, <1>2, <1>3, <1>4
  <1>6. PICK b \in Int : b = beg - w
    OBVIOUS
  <1>7. b < beg /\ b < Start(p)
    BY <1>1, <1>3, <1>5, <1>6
  <1>8. Ms(b) <= p
    <2>1. p \in Int /\ (p < Ms(b) => Start(p) < b) /\ Ms(b) \in Int
      BY <1>1, MsFacts
    <2> QED
      BY <1>3, <1>7, <2>1
  <1>9. s.beg = b /\ s.end = beg /\ s.excl = FALSE
    BY <1>4, <1>6 DEF MspStream
  <1>10. ~Exhausted(s) /\ MspsFrom(s) = Ms(b) /\ Ms(s.end) = Ms(beg)
    <2>1. ~s.excl /\ s.end = beg /\ s.beg = b
      BY <1>9
    <2>2. ~(b >= beg)
      BY <1>7
    <2>3. ~Exhausted(s)
      BY ONLY <2>1, <2>2 DEF Exhausted
    <2>4. MspsFrom(s) = Ms(b)
      BY ONLY <2>1, Zenon DEF MspsFrom
    <2> QED
      BY ONLY <2>1, <2>3, <2>4
  <1> QED
    BY <1>8, <1>10 DEF WillFind

(* An event of a partition that two others follow before the range is not  *)
(* in the range.                                                           *)
LEMMA CutMsp ==
    ASSUME HInv, NEW k \in Rts, NEW p, NEW t, <<p, t>> \in db_ev[k], NEW beg \in Nat,
           NEW m2 \in db_msp[k], NEW m3 \in db_msp[k], p < m2, m2 < m3, m3 < Ms(beg)
    PROVE  t < beg
  <1>1. p \in Nat /\ t \in Nat
    BY KnownFacts
  <1>2. m2 \in Msps /\ m3 \in Msps /\ m2 \in Nat /\ m3 \in Nat
    BY TableFacts
  <1>3. GridMsp(t) <= m2
    <2>1. Hist(k, MspsOf(k), EventsOf(k))
      BY DEF HInv, StoreOK, StoreHist
    <2>2. PICK e : e = <<p, t>>
      OBVIOUS
    <2>3. e \in EventsOf(k) /\ m2 \in MspsOf(k) /\ e[1] = p /\ e[2] = t
      BY <2>2 DEF EventsOf, MspsOf
    <2>4. GridMsp(e[2]) <= m2
      BY <2>1, <2>3 DEF Hist
    <2> QED
      BY <2>3, <2>4
  <1>4. GridMsp(t) \in Nat /\ t < Start(GridMsp(t)) + GridLen
    BY <1>1, GridFacts
  <1>5. Start(GridMsp(t)) <= Start(m2) /\ Start(m2) \in Int /\ Start(GridMsp(t)) \in Int
    BY <1>2, <1>3, <1>4, StartMono
  <1>6. Start(m2) + GridLen <= Start(m3)
    BY <1>2, MspFacts
  <1>7. Start(m3) < beg /\ Start(m3) \in Int
    <2>1. m3 \in Int /\ beg \in Int
      BY <1>2
    <2>2. (m3 < Ms(beg) => Start(m3) < beg) /\ Start(m3) \in Int
      BY <2>1, MsFacts
    <2> QED
      BY <2>2
  <1> QED
    BY <1>1, <1>4, <1>5, <1>6, <1>7, TimeAssumption

LEMMA MsMono ==
    ASSUME NEW a \in Int, NEW b \in Int, a <= b
    PROVE  Ms(a) \in Int /\ Ms(b) \in Int /\ Ms(a) <= Ms(b)
  <1>1. PICK n \in Int : n = Ms(a)
    BY MsFacts
  <1>2. Start(Ms(a)) <= a
    BY MsFacts
  <1>3. Ms(b) \in Int /\ Start(n) \in Int
    BY MsFacts
  <1>4. Start(n) <= b
    BY <1>1, <1>2, <1>3
  <1>5. n <= Ms(b)
    BY <1>4, MsFacts
  <1> QED
    BY <1>1, <1>3, <1>5

(* A keyspace is opened: what was found of it will be handed on.           *)
LEMMA OpenMultiTracks ==
    ASSUME HInv, RInv, Setup, NEW q \in Seq(Nat), Ordered(q, Lt),
           ToSet(q) \subseteq db_msp[Keyspaces[ks]], \A x \in ToSet(q) : x < Ms(range.beg),
           NEW beg \in Nat, beg <= range.beg, OpenMulti(q, beg),
           before' = 0, UNCHANGED <<range, buf, evbuf, merged, history, dbVars>>,
           NEW k \in Kss, NEW p \in Nat, NEW t \in Nat,
           Opened(k) /\ ~Current(k) => Tracked(k, p, t),
           k = Keyspaces[ks] => /\ beg <= t
                                /\ p \in ToSet(q) \/ (Ms(range.beg) <= p /\ p < Ms(range.end))
    PROVE  /\ Opened(k)' => Tracked(k, p, t)'
           /\ Current(k)' => /\ phase' = "bck"
                             /\ bck'.s = MspStream(range.beg - ReadWindow[k], range.beg, FALSE)
  <1>1. /\ ks \in 1..Len(Keyspaces) /\ Keyspaces[ks] \in Kss /\ Keyspaces[ks] \in Rts
        /\ range.beg \in Nat /\ range.end \in Nat /\ Out = <<>>
    BY SetupReader
  <1>2. /\ RInv' /\ Out' = <<>>
        /\ multi'[Keyspaces[ks]] = NewMulti(q, beg)
        /\ \A j \in Kss : j # Keyspaces[ks] => multi'[j] = multi[j]
        /\ ks' = ks + 1 /\ phase' \in {"bck", "read"}
        /\ phase' = "read" => ks + 1 > Len(Keyspaces)
        /\ phase' = "bck" => /\ ks + 1 \in 1..Len(Keyspaces) /\ bck'.msps = <<>>
                             /\ bck'.s = MspStream(range.beg - ReadWindow[Keyspaces[ks + 1]],
                                                      range.beg, FALSE)
    BY OpenMultiReader
  <1>3. Current(k)' => /\ phase' = "bck"
                       /\ bck'.s = MspStream(range.beg - ReadWindow[k], range.beg, FALSE)
    BY <1>2 DEF Current, Setup
  <1>4. CASE k = Keyspaces[ks]
    <2>1. PICK m : m = NewMulti(q, beg)
      OBVIOUS
    <2>2. db_msp[k] \in SUBSET Nat /\ ToSet(q) \subseteq db_msp[k]
      BY <1>1, <1>4, TableFacts
    <2>3. /\ \A x \in ToSet(q) : \A u : beg <= u => MultiHas(m, x, u)
          /\ \A x \in Nat : \A u : /\ \A y \in ToSet(q) : y < x
                                   /\ Ms(beg) <= x /\ x < Ms(range.end) /\ beg <= u
                                   => MultiHas(m, x, u)
      BY <1>1, <2>1, <2>2, NewMultiFacts
    <2>4. CASE p \in ToSet(q)
      BY <1>2, <1>4, <2>1, <2>3, <2>4, <1>3 DEF Tracked
    <2>5. CASE Ms(range.beg) <= p /\ p < Ms(range.end)
      <3>1. PICK r \in Int : r = range.beg
        BY <1>1
      <3>2. Ms(beg) \in Int /\ Ms(r) \in Int /\ Ms(beg) <= Ms(r)
        BY <3>1, MsMono, SMTT(40)
      <3>3. Ms(beg) <= p /\ \A y \in ToSet(q) : y < p
        <4>1. \A y \in ToSet(q) : y \in Nat
          BY <2>2
        <4> QED
          BY <2>5, <3>1, <3>2, <4>1
      <3>4. MultiHas(m, p, t)
        BY <1>4, <2>3, <2>5, <3>3
      <3> QED
        BY <1>2, <1>3, <1>4, <2>1, <3>4 DEF Tracked
    <2> QED
      BY <1>4, <2>4, <2>5
  <1>5. CASE k # Keyspaces[ks]
    <2>1. ASSUME Opened(k)' PROVE \E i \in 1..(ks - 1) : Keyspaces[i] = k
      <3>1. \E i \in 1..Len(Keyspaces) : Keyspaces[i] = k
        BY KssFacts
      <3>2. \E i \in 1..ks : Keyspaces[i] = k
        <4>1. CASE phase' = "read"
          BY <1>1, <1>2, <3>1, <4>1
        <4>2. CASE phase' # "read"
          <5>1. (ks + 1) - 1 = ks
            BY <1>1
          <5> QED
            BY <1>2, <2>1, <4>2, <5>1 DEF Opened
        <4> QED
          BY <4>1, <4>2
      <3> QED
        BY <1>1, <1>5, <3>2
    <2>2. Opened(k)' => Tracked(k, p, t)'
      BY <1>1, <1>2, <1>5, <2>1 DEF Tracked, Opened, Current
    <2> QED
      BY <1>3, <2>2
  <1> QED
    BY <1>4, <1>5

LEMMA DueOpened ==
    ASSUME HInv, RInv, Setup, NEW q \in Seq(Nat), Ordered(q, Lt),
           ToSet(q) \subseteq db_msp[Keyspaces[ks]], \A x \in ToSet(q) : x < Ms(range.beg),
           NEW beg \in Nat, beg <= range.beg, OpenMulti(q, beg),
           before' = 0, UNCHANGED <<range, buf, evbuf, merged, history, dbVars>>,
           NEW k \in Kss, NEW p, NEW t, DueAt(k, p, t),
           k = Keyspaces[ks] /\ p < Ms(range.beg) => p \in ToSet(q)
    PROVE  DueAt(k, p, t)'
  <1>1. /\ Known(k, p, t) /\ range.beg <= t /\ p < Ms(range.end)
        /\ Opened(k) => Tracked(k, p, t)
    BY DEF DueAt
  <1>2. k \in Rts /\ <<p, t>> \in db_ev[k] /\ p \in Nat /\ t \in Nat
    BY <1>1, KssFacts, KnownFacts DEF Known
  <1>3. PICK r \in Nat : r = range.beg
    BY SetupReader
  <1>4. beg <= t /\ (p < Ms(range.beg) \/ Ms(range.beg) <= p)
    <2>1. r \in Int /\ 0 \in Int
      OBVIOUS
    <2>2. Ms(r) \in Int
      BY ONLY <2>1, MsFacts
    <2> QED
      BY <1>1, <1>2, <1>3, <2>2
  <1>5. /\ Opened(k)' => Tracked(k, p, t)'
        /\ Current(k)' => /\ phase' = "bck"
                          /\ bck'.s = MspStream(range.beg - ReadWindow[k], range.beg, FALSE)
    BY <1>1, <1>2, <1>4, OpenMultiTracks
  <1>6. Known(k, p, t)' /\ range' = range
    BY <1>1 DEF Known, dbVars
  <1>7. ASSUME Current(k)', p < Ms(range.beg) PROVE phase' = "bck" /\ BckHas(p)'
    <2>1. PICK s : s = MspStream(r - ReadWindow[k], r, FALSE)
      OBVIOUS
    <2>2. WillFind(s, p)
      BY <1>1, <1>2, <1>3, <1>7, <2>1, InWindow
    <2> QED
      BY <1>3, <1>5, <1>7, <2>1, <2>2 DEF BckHas
  <1> QED
    BY <1>1, <1>5, <1>6, <1>7 DEF DueAt
-----------------------------------------------------------------------------
(* Nothing of the reader changes that the invariant looks at.              *)
LEMMA DueWriter ==
    ASSUME RInv, DueInv, UNCHANGED readerVars, Grow,
           \A k \in Kss : \A p, t : Tracked(k, p, t)' = Tracked(k, p, t)
    PROVE  DueInv'
  <1>1. /\ phase' = phase /\ ks' = ks /\ range' = range /\ bck' = bck /\ before' = before
        /\ merged' = merged /\ item_lost' = item_lost /\ due' = due
    BY DEF readerVars, history
  <1>2. ASSUME NEW k \in Kss, NEW p, NEW t, DueAt(k, p, t) PROVE DueAt(k, p, t)'
    <2>1. Known(k, p, t)'
      BY <1>1, <1>2, KssFacts DEF DueAt, Known, Grow
    <2>2. Opened(k)' = Opened(k) /\ Current(k)' = Current(k) /\ BckHas(p)' = BckHas(p)
      BY <1>1 DEF Opened, Current, BckHas, Setup
    <2> QED
      BY <1>1, <1>2, <2>1, <2>2 DEF DueAt
  <1> QED
    <2>1. BeforeInv'
      <3>1. BeforeInv
        BY DEF DueInv
      <3>2. CASE before = 0
        BY <1>1, <3>2 DEF BeforeInv
      <3>3. CASE before # 0
        <4>1. /\ phase = "lst" /\ before < range.beg
              /\ \E p \in ToSet(bck.msps) : <<p, before>> \in db_ev[Keyspaces[ks]]
          BY <3>1, <3>3 DEF BeforeInv
        <4>2. Keyspaces[ks] \in Rts
          BY <4>1, SetupReader DEF Setup
        <4>3. \E p \in ToSet(bck.msps) : <<p, before>> \in db_ev'[Keyspaces[ks]]
          BY <4>1, <4>2 DEF Grow
        <4> QED
          BY <1>1, <4>1, <4>3 DEF BeforeInv
      <3> QED
        BY <3>2, <3>3
    <2> QED
      BY <1>1, <1>2, <2>1 DEF DueInv

(* A step of the merge: what is known stays on its way.                    *)
LEMMA DueRead ==
    ASSUME DueInv, phase = "read", TracksAll,
           UNCHANGED <<phase, range, before, due, item_lost, dbVars>>
    PROVE  DueInv'
  <1>1. phase' = "read" /\ range' = range /\ due' = due /\ item_lost' = item_lost
    OBVIOUS
  <1>2. ASSUME NEW k \in Kss, NEW p, NEW t, DueAt(k, p, t) PROVE DueAt(k, p, t)'
    <2>1. Known(k, p, t) /\ Tracked(k, p, t)
      BY <1>2 DEF DueAt, Opened
    <2>2. Tracked(k, p, t)'
      BY <2>1 DEF TracksAll
    <2>3. Known(k, p, t)'
      BY <2>1 DEF Known, dbVars
    <2>4. ~Current(k)'
      BY <1>1 DEF Current, Setup
    <2> QED
      BY <1>1, <1>2, <2>2, <2>3, <2>4 DEF DueAt
  <1> QED
    BY <1>1, <1>2 DEF DueInv, BeforeInv

LEMMA DueStart ==
    ASSUME HInv, RInv, DueInv, StartRead, UNCHANGED dbVars
    PROVE  DueInv'
  <1>1. PICK q \in Ranges : LET r == [beg |-> q[1], end |-> q[2], one |-> q[3]] IN
           /\ range' = r
           /\ due' = UNION {Findable(k, r.beg, r.end) : k \in ToSet(Keyspaces)}
    BY DEF StartRead
  <1>2. q[1] \in Nat /\ q[2] \in Nat /\ q[3] \in BOOLEAN
    BY ReaderAssumption
  <1>3. PICK beg \in Nat : beg = q[1]
    BY <1>2
  <1>4. PICK end \in Nat : end = q[2]
    BY <1>2
  <1>5. range'.beg = beg /\ range'.end = end
    BY <1>1, <1>3, <1>4
  <1>6. due' = UNION {Findable(k, beg, end) : k \in Kss}
    BY <1>1, <1>3, <1>4 DEF Kss
  <1>7. /\ phase' \in {"bck", "read"} /\ ks' = 1
        /\ phase' = "read" => 1 > Len(Keyspaces)
        /\ phase' = "bck" => bck'.s = MspStream(range'.beg - ReadWindow[Keyspaces[1]],
                                                      range'.beg, FALSE)
    BY StartReadReader
  <1>8. ASSUME NEW t \in due' PROVE \E k \in Kss : \E p : DueAt(k, p, t)'
    <2>1. PICK k \in Kss : t \in Findable(k, beg, end)
      BY <1>6
    <2>2. k \in Rts
      BY KssFacts
    <2>3. PICK e \in db_ev[k] : /\ t = e[2] /\ e[1] \in db_msp[k] /\ e[1] < Ms(end)
                                /\ beg <= e[2] /\ e[2] < end
      BY <2>1 DEF Findable
    <2>4. e \in Msps \X Ts
      BY <2>2, TableFacts
    <2>5. PICK p : p = e[1]
      OBVIOUS
    <2>6. <<p, t>> \in db_ev[k] /\ t \in Ts
      BY <2>3, <2>4, <2>5
    <2>7. Known(k, p, t)'
      BY <1>5, <2>3, <2>5, <2>6 DEF Known, dbVars
    <2>8. ~Opened(k)'
      <3>1. ASSUME phase' = "read" PROVE FALSE
        <4>1. \E i \in 1..Len(Keyspaces) : Keyspaces[i] = k
          BY KssFacts
        <4>2. Len(Keyspaces) \in Nat
          BY ReaderAssumption
        <4> QED
          BY <1>7, <3>1, <4>1, <4>2
      <3> QED
        BY <1>7, <3>1 DEF Opened
    <2>9. ASSUME Current(k)', p < Ms(beg) PROVE phase' = "bck" /\ BckHas(p)'
      <3>1. phase' = "bck" /\ k = Keyspaces[1]
        BY <1>7, <2>9 DEF Current, Setup
      <3>2. PICK s : s = MspStream(beg - ReadWindow[k], beg, FALSE)
        OBVIOUS
      <3>3. WillFind(s, p)
        BY <2>2, <2>3, <2>6, <2>9, <3>2, InWindow
      <3> QED
        BY <1>5, <1>7, <3>1, <3>2, <3>3 DEF BckHas
    <2>10. DueAt(k, p, t)'
      BY <1>5, <2>3, <2>5, <2>7, <2>8, <2>9 DEF DueAt
    <2> QED
      BY <2>10
  <1>9. BeforeInv'
    BY DEF StartRead, DueInv, BeforeInv
  <1> QED
    BY <1>7, <1>8, <1>9 DEF DueInv

LEMMA DueBckPage ==
    ASSUME HInv, RInv, DueInv, BckPage, UNCHANGED dbVars
    PROVE  DueInv'
  <1>1. phase = "bck" /\ Setup
        /\ UNCHANGED <<phase, ks, range, before, multi, buf, evbuf, merged, item_lost, due, dbVars>>
    BY DEF BckPage, Setup, history
  <1>2. \A p \in db_msp[Keyspaces[ks]] : p \in ToSet(bck.msps) \/ WillFind(bck.s, p) =>
                p \in ToSet(bck'.msps) \/ WillFind(bck'.s, p)
    BY BckPageReader
  <1>3. ASSUME NEW k \in Kss, NEW p, NEW t, DueAt(k, p, t) PROVE DueAt(k, p, t)'
    <2>1. Known(k, p, t) /\ Known(k, p, t)' /\ p \in db_msp[k]
      BY <1>1, <1>3 DEF DueAt, Known, dbVars
    <2>2. Opened(k)' = Opened(k) /\ Tracked(k, p, t)' = Tracked(k, p, t)
          /\ Current(k)' = Current(k)
      BY <1>1 DEF Opened, Current, Tracked, Out, Setup
    <2>3. Current(k) /\ BckHas(p) => BckHas(p)'
      BY <1>2, <2>1 DEF BckHas, Current
    <2> QED
      BY <1>1, <1>3, <2>1, <2>2, <2>3 DEF DueAt
  <1>4. BeforeInv'
    BY <1>1 DEF DueInv, BeforeInv
  <1> QED
    BY <1>1, <1>3, <1>4 DEF DueInv

(* msp_bck cuts only partitions that have nothing in the range.            *)
LEMMA DueBckEnd ==
    ASSUME HInv, RInv, DueInv, BckEnd, UNCHANGED dbVars
    PROVE  DueInv'
  <1>1. phase = "bck" /\ Setup /\ before' = 0 /\ Exhausted(bck.s)
        /\ UNCHANGED <<range, buf, evbuf, merged, history, dbVars>>
        /\ item_lost' = item_lost /\ due' = due
    BY DEF BckEnd, Setup, history
  <1>2. /\ ks \in 1..Len(Keyspaces) /\ Keyspaces[ks] \in Rts /\ range.beg \in Nat
        /\ bck.msps \in Seq(Nat) /\ Ordered(bck.msps, Lt)
        /\ ToSet(bck.msps) \subseteq db_msp[Keyspaces[ks]]
        /\ \A p \in ToSet(bck.msps) : p < Ms(range.beg)
    BY <1>1, SetupReader
  <1>3. PICK q : q = KeepLastMsps(bck.msps)
    OBVIOUS
  <1>4. /\ q \in Seq(Nat) /\ Ordered(q, Lt) /\ ToSet(q) \subseteq ToSet(bck.msps)
        /\ \A p \in ToSet(bck.msps) :
              \/ p \in ToSet(q)
              \/ \E m2, m3 \in ToSet(q) : p < m2 /\ m2 < m3
    BY <1>2, <1>3, KeepLastFacts
  <1>5. ASSUME NEW k \in Kss, NEW p, NEW t, DueAt(k, p, t), k = Keyspaces[ks], p < Ms(range.beg)
        PROVE  p \in ToSet(q)
    <2>1. BckHas(p) /\ Known(k, p, t) /\ range.beg <= t
      BY <1>1, <1>5 DEF DueAt, Current
    <2>2. p \in ToSet(bck.msps)
      BY <1>1, <2>1 DEF BckHas, WillFind
    <2>3. ASSUME NEW m2 \in ToSet(bck.msps), NEW m3 \in ToSet(bck.msps), p < m2, m2 < m3
          PROVE  FALSE
      <3>1. PICK beg \in Nat : beg = range.beg
        BY <1>2
      <3>2. k \in Rts /\ m2 \in db_msp[k] /\ m3 \in db_msp[k] /\ m3 < Ms(beg)
        BY <1>2, <1>5, <3>1
      <3>3. <<p, t>> \in db_ev[k]
        BY <2>1 DEF Known
      <3>4. t < beg
        BY <2>3, <3>2, <3>3, CutMsp
      <3>5. t \in Nat
        BY <3>2, <3>3, KnownFacts
      <3> QED
        BY <2>1, <3>1, <3>4, <3>5
    <2> QED
      BY <1>4, <2>2, <2>3
  <1>6. CASE range.one
    <2>1. /\ phase' = "lst" /\ bck' = Bck(q, bck.s, ToSet(q)) /\ UNCHANGED <<ks, multi>>
      BY <1>3, <1>6 DEF BckEnd
    <2>2. bck'.msps = q
      BY <2>1 DEF Bck
    <2>3. ASSUME NEW k \in Kss, NEW p, NEW t, DueAt(k, p, t) PROVE DueAt(k, p, t)'
      <3>1. Known(k, p, t)' /\ range' = range
        BY <1>1, <2>3 DEF DueAt, Known, dbVars
      <3>2. Opened(k)' = Opened(k) /\ Tracked(k, p, t)' = Tracked(k, p, t)
            /\ Current(k)' = Current(k)
        BY <1>1, <2>1 DEF Opened, Current, Tracked, Out, Setup
      <3>3. Current(k) /\ p < Ms(range.beg) => p \in ToSet(bck'.msps)
        BY <1>5, <2>2, <2>3 DEF Current
      <3> QED
        BY <2>1, <2>3, <3>1, <3>2, <3>3 DEF DueAt
    <2> QED
      BY <1>1, <2>1, <2>3 DEF DueInv, BeforeInv
  <1>7. CASE ~range.one
    <2>1. OpenMulti(q, range.beg)
      BY <1>3, <1>7 DEF BckEnd
    <2>2. PICK beg \in Nat : beg = range.beg
      BY <1>2
    <2>3. ToSet(q) \subseteq db_msp[Keyspaces[ks]] /\ \A x \in ToSet(q) : x < Ms(range.beg)
      BY <1>2, <1>4
    <2>4. beg <= range.beg /\ OpenMulti(q, beg)
      BY <2>1, <2>2
    <2>5. ASSUME NEW k \in Kss, NEW p, NEW t, DueAt(k, p, t) PROVE DueAt(k, p, t)'
      <3>1. k = Keyspaces[ks] /\ p < Ms(range.beg) => p \in ToSet(q)
        BY <1>5, <2>5
      <3> QED
        BY <1>1, <1>4, <2>3, <2>4, <2>5, <3>1, DueOpened
    <2>6. phase' \in {"bck", "read"}
      BY <1>1, <1>4, <2>3, <2>4, OpenMultiReader
    <2> QED
      BY <1>1, <2>5, <2>6 DEF DueInv, BeforeInv
  <1> QED
    BY <1>6, <1>7
-----------------------------------------------------------------------------
(* One more of the partitions has been asked for its latest event.         *)
LEMMA LspLstBefore ==
    ASSUME HInv, RInv, BeforeInv, LspLst, UNCHANGED dbVars
    PROVE  /\ BeforeInv' /\ before' \in Nat /\ before \in Nat /\ before <= before'
           /\ bck'.msps = bck.msps
           /\ \E p \in bck.left : /\ bck'.left = bck.left \ {p}
                                  /\ \A t : <<p, t>> \in db_ev[Keyspaces[ks]] /\ t < range.beg
                                        => t <= before'
  <1>1. phase = "lst" /\ Setup /\ UNCHANGED <<phase, ks, range, dbVars>>
    BY DEF LspLst, Setup
  <1>2. PICK p \in bck.left :
           /\ bck'.left = bck.left \ {p}
           /\ before' = Max({before, LspLast(Keyspaces[ks], p, range.beg)})
           /\ before \in Nat
    BY LspLstReader
  <1>3. bck'.msps = bck.msps
    BY LspLstReader
  <1>4. Keyspaces[ks] \in Rts /\ range.beg \in Nat /\ p \in ToSet(bck.msps)
    BY <1>1, SetupReader
  <1>5. PICK k \in Rts : k = Keyspaces[ks]
    BY <1>4
  <1>6. PICK beg \in Nat : beg = range.beg
    BY <1>4
  <1>7. PICK x : x = LspLast(k, p, beg)
    OBVIOUS
  <1>8. /\ x \in Nat /\ (x = 0 \/ (<<p, x>> \in db_ev[k] /\ x < beg))
        /\ \A t : <<p, t>> \in db_ev[k] /\ t < beg => t <= x
    BY <1>7, LspLastFacts
  <1>9. before' \in {before, x} /\ before' >= before /\ before' >= x
    <2>1. PICK b \in Int : b = before
      BY <1>2
    <2>2. x \in Int
      BY <1>8
    <2>3. Max({b, x}) \in {b, x} /\ Max({b, x}) >= b /\ Max({b, x}) >= x
      BY <2>2, MaxOfTwo
    <2> QED
      BY <1>2, <1>5, <1>6, <1>7, <2>1, <2>3
  <1>10. BeforeInv'
    <2>1. CASE before' = before
      BY <1>1, <1>3, <2>1 DEF BeforeInv, dbVars
    <2>2. CASE before' = x
      <3>1. CASE x = 0
        BY <2>2, <3>1 DEF BeforeInv
      <3>2. CASE x # 0
        <4>1. <<p, before'>> \in db_ev'[Keyspaces[ks]] /\ before' < range.beg
          BY <1>1, <1>5, <1>6, <1>8, <2>2, <3>2 DEF dbVars
        <4> QED
          BY <1>1, <1>3, <1>4, <4>1 DEF BeforeInv
      <3> QED
        BY <3>1, <3>2
    <2> QED
      BY <1>9, <2>1, <2>2
  <1>11. ASSUME NEW t, <<p, t>> \in db_ev[k], t < beg PROVE t <= before'
    <2>1. t <= x /\ t \in Nat
      BY <1>8, <1>11, KnownFacts
    <2> QED
      BY <1>2, <1>8, <1>9, <2>1
  <1>12. before' \in Nat /\ before \in Nat /\ before <= before'
    BY <1>2, <1>8, <1>9
  <1>13. \A t : <<p, t>> \in db_ev[Keyspaces[ks]] /\ t < range.beg => t <= before'
    BY ONLY <1>5, <1>6, <1>11
  <1> QED
    BY <1>2, <1>3, <1>10, <1>12, <1>13

LEMMA DueLspLst ==
    ASSUME HInv, RInv, DueInv, LspLst, UNCHANGED dbVars
    PROVE  DueInv'
  <1>1. phase = "lst" /\ UNCHANGED <<phase, ks, range, multi, buf, evbuf, merged, item_lost,
                                     due, dbVars>>
    BY DEF LspLst, history
  <1>2. BeforeInv' /\ bck'.msps = bck.msps
    BY LspLstBefore DEF DueInv
  <1>3. ASSUME NEW k \in Kss, NEW p, NEW t, DueAt(k, p, t) PROVE DueAt(k, p, t)'
    <2>1. Known(k, p, t)'
      BY <1>1, <1>3 DEF DueAt, Known, dbVars
    <2>2. Opened(k)' = Opened(k) /\ Tracked(k, p, t)' = Tracked(k, p, t)
          /\ Current(k)' = Current(k)
      BY <1>1 DEF Opened, Current, Tracked, Out, Setup
    <2> QED
      BY <1>1, <1>2, <1>3, <2>1, <2>2 DEF DueAt
  <1> QED
    BY <1>1, <1>2, <1>3 DEF DueInv

LEMMA ScanBegFacts ==
    ASSUME RInv, BeforeInv, Setup
    PROVE  ScanBeg \in Nat /\ ScanBeg <= range.beg
  <1>1. range.beg \in Nat /\ before \in Nat
    BY SetupReader DEF RInv, ReaderTypes
  <1> QED
    BY <1>1 DEF ScanBeg, BeforeInv

LEMMA DueLspLstEnd ==
    ASSUME HInv, RInv, DueInv, LspLstEnd, UNCHANGED dbVars
    PROVE  DueInv'
  <1>1. phase = "lst" /\ Setup /\ before' = 0 /\ OpenMulti(bck.msps, ScanBeg)
        /\ UNCHANGED <<range, buf, evbuf, merged, history, dbVars>>
        /\ item_lost' = item_lost /\ due' = due
    BY DEF LspLstEnd, Setup, history
  <1>2. /\ range.beg \in Nat /\ bck.msps \in Seq(Nat) /\ Ordered(bck.msps, Lt)
        /\ ToSet(bck.msps) \subseteq db_msp[Keyspaces[ks]]
        /\ \A x \in ToSet(bck.msps) : x < Ms(range.beg)
    BY <1>1, SetupReader
  <1>3. PICK beg \in Nat : beg = ScanBeg /\ beg <= range.beg
    BY <1>1, ScanBegFacts DEF DueInv
  <1>4. PICK q \in Seq(Nat) : q = bck.msps
    BY <1>2
  <1>5. /\ Ordered(q, Lt) /\ ToSet(q) \subseteq db_msp[Keyspaces[ks]]
        /\ \A x \in ToSet(q) : x < Ms(range.beg)
        /\ OpenMulti(q, beg) /\ beg <= range.beg
    BY <1>1, <1>2, <1>3, <1>4
  <1>6. ASSUME NEW k \in Kss, NEW p, NEW t, DueAt(k, p, t) PROVE DueAt(k, p, t)'
    <2>1. k = Keyspaces[ks] /\ p < Ms(range.beg) => p \in ToSet(q)
      BY <1>1, <1>4, <1>6 DEF DueAt, Current
    <2> QED
      BY <1>1, <1>5, <1>6, <2>1, DueOpened
  <1>7. phase' \in {"bck", "read"}
    BY <1>1, <1>5, OpenMultiReader
  <1> QED
    BY <1>1, <1>6, <1>7 DEF DueInv, BeforeInv

(* The merge ends when every stream has handed on all it had.              *)
LEMMA EndTracked ==
    ASSUME RInv, MergeEnd, NEW k \in Kss, NEW p, NEW t, Tracked(k, p, t)
    PROVE  t \in ToSet(Out)
  <1>1. buf[k] = <<>> /\ MultiEnded(k)
    BY DEF MergeEnd, Feeding, MergeReady, Kss
  <1>2. ToSet(<<>>) = {}
    BY DEF ToSet
  <1>3. ~MultiHas(multi[k], p, t)
    BY <1>1 DEF MultiEnded, MultiHas, WillFind
  <1> QED
    BY <1>1, <1>2, <1>3 DEF Tracked

LEMMA DueMergeEnd ==
    ASSUME HInv, RInv, DueInv, MergeEnd, UNCHANGED dbVars
    PROVE  DueInv'
  <1>1. phase = "read" /\ phase' = "done" /\ before' = before /\ item_lost' = item_lost
        /\ due' = due
    BY DEF MergeEnd, history
  <1>2. merged' = Out
    BY MergeEndReader
  <1>3. ASSUME ~item_lost, NEW t \in due PROVE t \in ToSet(merged') /\ t >= 1
    <2>0. PICK k \in Kss : \E p : DueAt(k, p, t)
      BY <1>1, <1>3 DEF DueInv
    <2>1. PICK p : DueAt(k, p, t)
      BY <2>0
    <2>2. Known(k, p, t) /\ Tracked(k, p, t)
      BY <1>1, <2>1 DEF DueAt, Opened
    <2>3. t >= 1
      BY <2>2, KssFacts, KnownFacts DEF Known
    <2> QED
      BY <1>2, <2>2, <2>3, EndTracked
  <1> QED
    BY <1>1, <1>3 DEF DueInv, BeforeInv

LEMMA NextDue == ASSUME HInv, RInv, DueInv, [Next]_vars PROVE DueInv'
  <1>1. CASE WriterNext /\ UNCHANGED readerVars
    <2>1. Grow
      BY <1>1, TablesGrow
    <2>2. \A k \in Rts : db_msp[k] \subseteq db_msp'[k]
      BY <2>1 DEF Grow
    <2>3. \A k \in Kss : \A p, t : Tracked(k, p, t)' = Tracked(k, p, t)
      BY <1>1, <2>2, GrowsReader
    <2> QED
      BY <1>1, <2>1, <2>3, DueWriter
  <1>2. CASE StartRead /\ UNCHANGED dbVars
    BY <1>2, DueStart
  <1>3. CASE ReaderStep /\ UNCHANGED dbVars
    <2>1. CASE BckPage
      BY <1>3, <2>1, DueBckPage
    <2>2. CASE BckEnd
      BY <1>3, <2>2, DueBckEnd
    <2>3. CASE LspLst
      BY <1>3, <2>3, DueLspLst
    <2>4. CASE LspLstEnd
      BY <1>3, <2>4, DueLspLstEnd
    <2>5. ASSUME NEW k \in Kss,
                 \/ MspPage(k) \/ PreopenPage(k) \/ InputPage(k) \/ OpenNextMsp(k)
                 \/ MultiItem(k)
          PROVE  DueInv'
      <3>1. TracksAll
        BY <1>3, <2>5, MspPageReader, PreopenPageReader, InputPageReader, OpenNextMspReader,
           MultiItemReader
      <3>2. phase = "read" /\ UNCHANGED <<phase, range, before, due, item_lost>>
        BY <2>5 DEF MspPage, PreopenPage, InputPage, OpenNextMsp, MultiItem, SetMulti
      <3> QED
        BY <1>3, <3>1, <3>2, DueRead
    <2>6. ASSUME NEW k \in Kss, ItemDropped(k) PROVE DueInv'
      <3>1. item_lost' = TRUE /\ before' = before /\ phase = "read" /\ phase' = phase
        BY <2>6 DEF ItemDropped, SetMulti
      <3> QED
        BY <3>1 DEF DueInv, BeforeInv
    <2>7. CASE MergeStep
      <3>1. TracksAll
        BY <1>3, <2>7, MergeStepReader
      <3>2. phase = "read" /\ UNCHANGED <<phase, range, before, due, item_lost>>
        BY <2>7 DEF MergeStep, history
      <3> QED
        BY <1>3, <3>1, <3>2, DueRead
    <2>8. CASE MergeEnd
      BY <1>3, <2>8, DueMergeEnd
    <2> QED
      BY <1>3, <2>1, <2>2, <2>3, <2>4, <2>5, <2>6, <2>7, <2>8 DEF ReaderStep, Kss
  <1>4. CASE UNCHANGED vars
    <2>1. UNCHANGED readerVars /\ Grow
      BY <1>4 DEF vars, dbVars, Grow
    <2>2. \A k \in Rts : db_msp[k] \subseteq db_msp'[k]
      BY <2>1 DEF Grow
    <2>3. \A k \in Kss : \A p, t : Tracked(k, p, t)' = Tracked(k, p, t)
      BY <2>1, <2>2, GrowsReader
    <2> QED
      BY <2>1, <2>3, DueWriter
  <1> QED
    BY <1>1, <1>2, <1>3, <1>4 DEF Next

LEMMA InitDue == ASSUME Init PROVE DueInv
  <1>1. phase = "idle" /\ before = 0
    BY DEF Init, ReaderInit
  <1> QED
    BY <1>1 DEF DueInv, BeforeInv

LEMMA SpecDue == Spec => [](IInv /\ HInv /\ RInv /\ DueInv)
  <1>1. Init => IInv /\ HInv /\ RInv /\ DueInv
    BY InitInv, InitHist, InitReader, InitDue
  <1>2. IInv /\ HInv /\ RInv /\ DueInv /\ [Next]_vars => (IInv /\ HInv /\ RInv /\ DueInv)'
    BY NextInv, NextHist, NextReader, NextDue
  <1> QED
    BY <1>1, <1>2, PTL DEF Spec

(* A read that dropped no item hands on, after Dedup, every event that     *)
(* could be found when it began, for every layout of partitions, page size *)
(* and retention time, and whatever is written meanwhile.                  *)
THEOREM ReadIsComplete == Spec => []ReadComplete
  <1>1. RInv /\ DueInv => ReadComplete
    <2> SUFFICES ASSUME RInv, DueInv, phase = "done", ~item_lost, NEW t \in due
                 PROVE  t \in ToSet(Dedup(merged))
      BY DEF ReadComplete
    <2>1. t \in ToSet(merged) /\ t >= 1
      BY DEF DueInv
    <2>2. merged \in Seq(Ts) /\ evbuf \in Seq(Ts) /\ Ordered(Out, Le)
      BY DEF RInv, ReaderTypes, OrderInv
    <2>3. PICK m \in Seq(Ts) : m = merged
      BY <2>2
    <2>4. PICK e \in Seq(Ts) : e = evbuf
      BY <2>2
    <2>5. Ordered(m \o e, Le)
      BY <2>2, <2>3, <2>4 DEF Out
    <2>6. Ordered(m, Le) /\ Ts \in SUBSET Nat
      BY <2>5, OrderedConcat, TimeAssumption
    <2>7. \A x \in ToSet(m) : x >= 1 => x \in ToSet(Dedup(m))
      BY <2>6, DedupFacts
    <2> QED
      BY <2>1, <2>3, <2>7
  <1> QED
    BY <1>1, SpecDue, PTL
-----------------------------------------------------------------------------
(* The event before the range.  A read meets no fault: either the bound on *)
(* faults during reads is 0, or no row is ever late or lost.               *)
FaultFree == MaxReadFaults = 0 \/ (MaxLost = 0 /\ MaxLate = 0)
TablesWhole == nlost = 0 /\ late = {}

(* The partitions before the range are within the look back.               *)
BckFrom ==
    Setup => LET first == Ms(range.beg - ReadWindow[Keyspaces[ks]]) IN
             /\ \A p \in ToSet(bck.msps) : first <= p
             /\ Exhausted(bck.s) \/ first <= MspsFrom(bck.s)

(* An event before the range, not earlier than the one to be found, is on  *)
(* its way.                                                                *)
OneAt(k, p, t) ==
    /\ p \in db_msp[k] /\ <<p, t>> \in db_ev[k] /\ due_before <= t /\ t < range.beg
    /\ p < Ms(range.beg) /\ Ms(range.beg - ReadWindow[k]) <= p
    /\ Opened(k) /\ ~Current(k) => Tracked(k, p, t)
    /\ Current(k) => /\ phase = "bck" => BckHas(p)
                     /\ phase = "lst" => p \in ToSet(bck.msps) /\ (p \in bck.left \/ t <= before)

WholeInv == phase # "idle" \/ (MaxLost = 0 /\ MaxLate = 0) => TablesWhole

OneInv ==
    /\ WholeInv /\ due_before \in Nat
    /\ BckFrom
    /\ phase \in {"bck", "lst", "read"} /\ ~item_lost /\ range.one /\ due_before # 0 =>
         \E k \in Kss : \E p, t : OneAt(k, p, t)
    /\ phase = "done" /\ ~item_lost /\ range.one /\ due_before # 0 =>
         \E t \in ToSet(merged) : t >= 1 /\ due_before <= t /\ t < range.beg

LEMMA NoFaults ==
    ASSUME NEW lt, IsFiniteSet(lt), NEW n \in Nat, NEW w \in Nat,
           w = 0 => n = 0 /\ lt = {}, n + Cardinality(lt) + w - 1 <= 0
    PROVE  n = 0 /\ lt = {}
  <1>1. Cardinality(lt) \in Nat /\ (Cardinality(lt) = 0 <=> lt = {})
    BY FS_CardinalityType, FS_EmptySet
  <1>2. w = 0 \/ w >= 1
    OBVIOUS
  <1>3. w >= 1 => n = 0 /\ Cardinality(lt) = 0
    BY <1>1
  <1> QED
    BY <1>1, <1>2, <1>3

(* Without late and lost rows what is sent is written.                     *)
LEMMA WholeInsert ==
    ASSUME MaxLost = 0, MaxLate = 0, TablesWhole, Finite', NEW rows, Insert(rows)
    PROVE  TablesWhole'
  <1>1. PICK l \in UpTo(rows, MaxLate - Cardinality(late)) :
          \E f \in UpTo(rows \ l, MaxLost - nlost) :
            /\ late' = late \union l
            /\ nlost' = nlost + Cardinality(f)
    BY DEF Insert
  <1>2. PICK f \in UpTo(rows \ l, MaxLost - nlost) :
            /\ late' = late \union l
            /\ nlost' = nlost + Cardinality(f)
    BY <1>1
  <1>3. Cardinality({}) = 0
    BY FS_EmptySet
  <1>4. MaxLate - Cardinality(late) = 0 /\ MaxLost - nlost = 0 /\ nlost = 0 /\ late = {}
    BY <1>3 DEF TablesWhole
  <1>5. ASSUME NEW S, NEW x \in UpTo(S, 0) PROVE Cardinality(x) = 0
    BY <1>5 DEF UpTo, kSubset
  <1>6. Cardinality(l) = 0 /\ Cardinality(f) = 0
    BY <1>4, <1>5
  <1>7. late' = l /\ nlost' = 0
    BY <1>2, <1>4, <1>6
  <1>8. IsFiniteSet(l)
    BY <1>7 DEF Finite
  <1> QED
    BY <1>6, <1>7, <1>8, FS_EmptySet DEF TablesWhole

LEMMA WholeNext ==
    ASSUME MaxLost = 0, MaxLate = 0, TablesWhole, Finite', WriterNext
    PROVE  TablesWhole'
  <1>1. ASSUME UNCHANGED dbVars PROVE TablesWhole'
    BY <1>1 DEF TablesWhole, dbVars
  <1>2. ASSUME NEW rts, NEW ts, NEW t, WriteTo(rts, ts, t) PROVE TablesWhole'
    <2>1. PICK rows : rows = UNION {SeriesRows(rt, writer[rt], ts) : rt \in rts}
      OBVIOUS
    <2>2. Insert(rows)
      BY <1>2, <2>1 DEF WriteTo
    <2> QED
      BY <2>2, WholeInsert
  <1>3. ASSUME NEW ts, Write(ts) PROVE TablesWhole'
    <2>1. \E rts : WriteTo(rts, ts, ts)
      BY <1>3 DEF Write
    <2> QED
      BY <1>2, <2>1
  <1>4. ASSUME NEW ts, Tick(ts) PROVE TablesWhole'
    <2>1. WriteTo(ReputTo(ts), Newest, ts)
      BY <1>4 DEF Tick
    <2>2. PICK rts, n : rts = ReputTo(ts) /\ n = Newest
      OBVIOUS
    <2> QED
      BY <1>2, <2>1, <2>2
  <1>5. CASE NewWriter
    BY <1>1, <1>5 DEF NewWriter
  <1>6. CASE DropWriter
    BY <1>1, <1>6 DEF DropWriter
  <1>7. CASE Housekeeping
    <2>1. PICK rows : rows = {MspRow(ReputKs(rt), writer[rt].msp) : rt \in ReputDue}
      OBVIOUS
    <2>2. Insert(rows)
      BY <1>7, <2>1 DEF Housekeeping
    <2> QED
      BY <2>2, WholeInsert
  <1>8. CASE Close
    <2>1. PICK rows : rows = CloseRows
      OBVIOUS
    <2>2. Insert(rows)
      BY <1>8, <2>1 DEF Close
    <2> QED
      BY <2>2, WholeInsert
  <1>9. CASE LateInsert
    BY <1>9 DEF LateInsert, TablesWhole
  <1> QED
    BY <1>3, <1>4, <1>5, <1>6, <1>7, <1>8, <1>9 DEF WriterNext
-----------------------------------------------------------------------------
LEMMA WholeWriter ==
    ASSUME FaultFree, IInv', HInv', WholeInv, WriterNext, WriterBound, UNCHANGED readerVars
    PROVE  WholeInv'
  <1>1. phase' = phase
    BY DEF readerVars
  <1>2. CASE MaxLost = 0 /\ MaxLate = 0
    <2>1. TablesWhole /\ Finite'
      BY <1>2 DEF WholeInv, HInv
    <2> QED
      BY <1>2, <2>1, WholeNext DEF WholeInv
  <1>3. CASE ~(MaxLost = 0 /\ MaxLate = 0) /\ phase = "idle"
    BY <1>1, <1>3 DEF WholeInv
  <1>4. CASE ~(MaxLost = 0 /\ MaxLate = 0) /\ phase # "idle"
    <2>1. MaxReadFaults = 0 /\ Faults' <= MaxReadFaults
      BY <1>4 DEF FaultFree, WriterBound
    <2>2. IsFiniteSet(late') /\ nlost' \in Nat /\ nwriters' \in Nat
          /\ (nwriters' = 0 => nlost' = 0 /\ late' = {})
      BY DEF HInv, Finite, Counted, IInv, WriterTypes
    <2>3. PICK lt : lt = late'
      OBVIOUS
    <2>4. PICK n \in Nat : n = nlost'
      BY <2>2
    <2>5. PICK w \in Nat : w = nwriters'
      BY <2>2
    <2>6. IsFiniteSet(lt) /\ (w = 0 => n = 0 /\ lt = {}) /\ n + Cardinality(lt) + w - 1 <= 0
      BY <2>1, <2>2, <2>3, <2>4, <2>5 DEF Faults
    <2>7. n = 0 /\ lt = {}
      BY <2>6, NoFaults
    <2> QED
      BY <2>3, <2>4, <2>7 DEF WholeInv, TablesWhole
  <1> QED
    BY <1>2, <1>3, <1>4

LEMMA WholeStart ==
    ASSUME FaultFree, IInv, HInv, WholeInv, StartRead, Faults <= MaxReadFaults, UNCHANGED dbVars
    PROVE  WholeInv'
  <1>1. nlost' = nlost /\ late' = late
    BY DEF dbVars
  <1>2. CASE MaxLost = 0 /\ MaxLate = 0
    BY <1>1, <1>2 DEF WholeInv, TablesWhole
  <1>3. CASE MaxReadFaults = 0
    <2>1. IsFiniteSet(late) /\ nlost \in Nat /\ nwriters \in Nat
          /\ (nwriters = 0 => nlost = 0 /\ late = {})
      BY DEF HInv, Finite, Counted, IInv, WriterTypes
    <2>2. nlost + Cardinality(late) + nwriters - 1 <= 0
      BY <1>3 DEF Faults
    <2>3. PICK lt : lt = late
      OBVIOUS
    <2>4. PICK n \in Nat : n = nlost
      BY <2>1
    <2>5. PICK w \in Nat : w = nwriters
      BY <2>1
    <2>6. IsFiniteSet(lt) /\ (w = 0 => n = 0 /\ lt = {}) /\ n + Cardinality(lt) + w - 1 <= 0
      BY <2>1, <2>2, <2>3, <2>4, <2>5
    <2>7. n = 0 /\ lt = {}
      BY <2>6, NoFaults
    <2> QED
      BY <1>1, <2>3, <2>4, <2>7 DEF WholeInv, TablesWhole
  <1> QED
    BY <1>2, <1>3 DEF FaultFree

(* The look back begins at the window, for every keyspace.                 *)
LEMMA WindowStream ==
    ASSUME NEW k \in Rts, NEW beg \in Nat, NEW s, s = MspStream(beg - ReadWindow[k], beg, FALSE)
    PROVE  /\ ~Exhausted(s) /\ MspsFrom(s) = Ms(beg - ReadWindow[k])
           /\ \A p \in Nat : Ms(beg - ReadWindow[k]) <= p /\ p < Ms(beg) => WillFind(s, p)
  <1>1. ReadWindow[k] \in Nat \ {0}
    <2>1. /\ RolloverIvl[k] \in Nat /\ ReadWindow[k] \in Nat
          /\ ReadWindow[k] >= RolloverIvl[k] + GridLen /\ GridLen \in Nat \ {0}
      BY WindowAssumption, TimeAssumption
    <2> QED
      BY <2>1
  <1>2. PICK b \in Int : b = beg - ReadWindow[k]
    BY <1>1
  <1>3. b < beg
    BY <1>1, <1>2
  <1>4. ~s.excl /\ s.end = beg /\ s.beg = b
    BY <1>2 DEF MspStream
  <1>5. ~(b >= beg)
    BY <1>3
  <1>6. ~Exhausted(s)
    BY ONLY <1>4, <1>5 DEF Exhausted
  <1>7. MspsFrom(s) = Ms(b) /\ Ms(s.end) = Ms(beg)
    BY ONLY <1>4, Zenon DEF MspsFrom
  <1> QED
    BY <1>2, <1>6, <1>7 DEF WillFind

(* The partitions before the range that a page adds are within the look    *)
(* back.                                                                   *)
LEMMA FromBckPage ==
    ASSUME HInv, RInv, BckFrom, BckPage, UNCHANGED dbVars
    PROVE  BckFrom'
  <1>1. phase = "bck" /\ Setup /\ BckLimit \in Nat \ {0} /\ ~Exhausted(bck.s)
        /\ UNCHANGED <<phase, ks, range>>
    BY ReaderAssumption DEF BckPage, Setup
  <1>2. /\ Keyspaces[ks] \in Rts /\ range.beg \in Nat
        /\ bck.msps \in Seq(Nat) /\ bck.s \in MspStreamT
    BY <1>1, SetupReader
  <1>3. PICK k \in Rts : k = Keyspaces[ks]
    BY <1>2
  <1>4. PICK s \in MspStreamT : s = bck.s
    BY <1>2
  <1>5. PICK lim \in Nat \ {0} : lim = BckLimit
    BY <1>1
  <1>6. PICK page : page = MspQuery(k, s.beg, s.end, s.excl, lim)
    OBVIOUS
  <1>7. PICK r : r = NextStream(s, page, lim)
    OBVIOUS
  <1>8. PICK q \in Seq(Nat) : q = bck.msps
    BY <1>2
  <1>9. bck' = Bck(q \o page, r, {})
    BY <1>3, <1>4, <1>5, <1>6, <1>7, <1>8 DEF BckPage
  <1>10. /\ page \in Seq(db_msp[k]) /\ page \in Seq(Nat) /\ Ordered(page, Lt)
         /\ Len(page) <= lim
         /\ \A p \in ToSet(page) : /\ p \in db_msp[k] /\ p \in Nat
                                   /\ MspsFrom(s) <= p /\ p < Ms(s.end)
                                   /\ s.excl => s.beg < Start(p)
         /\ \A p \in db_msp[k] : MspsFrom(s) <= p /\ p < Ms(s.end) =>
               p \in ToSet(page) \/ (Len(page) = lim /\ page # <<>> /\ Last(page) < p)
    BY <1>6, MspPageFacts
  <1>11. page \in Seq(Nat) /\ Ordered(page, Lt) /\ \A p \in ToSet(page) : p \in Nat /\ MspsFrom(s) <= p
    BY ONLY <1>10
  <1>12. PICK first \in Int : first = Ms(range.beg - ReadWindow[k])
    <2>1. ReadWindow[k] \in Nat
      BY WindowAssumption
    <2>2. range.beg - ReadWindow[k] \in Int
      BY <1>2, <2>1
    <2> QED
      BY <2>2, MsFacts
  <1>13. (\A p \in ToSet(q) : first <= p) /\ first <= MspsFrom(s)
    BY <1>1, <1>3, <1>4, <1>8, <1>12 DEF BckFrom
  <1>14. MspsFrom(s) \in Int
    <2>1. s.beg \in Int
      BY DEF MspStreamT
    <2>2. Ms(s.beg) \in Int
      BY <2>1, MsFacts
    <2> QED
      BY <2>2 DEF MspsFrom
  <1>15. \A p \in ToSet(page) : first <= p
    BY <1>11, <1>13, <1>14
  <1>16. ToSet(q \o page) = ToSet(q) \union ToSet(page)
    BY <1>11, ToSetConcat
  <1>17. Exhausted(r) \/ first <= MspsFrom(r)
    <2>1. CASE Len(page) < lim
      <3>1. r.beg = s.end /\ r.end = s.end /\ s.end \in Int
        BY <1>7, <2>1 DEF NextStream, MspStreamT
      <3> QED
        BY <3>1 DEF Exhausted
    <2>2. CASE ~(Len(page) < lim)
      <3>1. page # <<>>
        BY <2>2
      <3>2. PICK l \in Nat : l = Last(page) /\ l \in ToSet(page)
        BY <1>11, <3>1, LastOf
      <3>3. r.beg = Start(l) /\ r.excl
        BY <1>7, <2>2, <3>2 DEF NextStream, MspStream
      <3>4. Ms(Start(l)) = l
        <4>1. l \in Int
          OBVIOUS
        <4> QED
          BY <4>1, StartMono
      <3>5. MspsFrom(r) = l + 1
        BY ONLY <3>3, <3>4, Zenon DEF MspsFrom
      <3>6. first <= l
        BY <1>15, <3>2
      <3> QED
        BY <3>5, <3>6
    <2> QED
      BY <2>1, <2>2
  <1>18. bck'.msps = q \o page /\ bck'.s = r
    BY <1>9 DEF Bck
  <1>19. \A p \in ToSet(q \o page) : first <= p
    BY <1>13, <1>15, <1>16
  <1>20. first = Ms(range.beg - ReadWindow[Keyspaces[ks]])
    BY <1>3, <1>12
  <1> QED
    BY <1>1, <1>17, <1>18, <1>19, <1>20 DEF BckFrom
-----------------------------------------------------------------------------
(* Nothing of the reader changes that the invariant looks at.              *)
LEMMA OneWriter ==
    ASSUME RInv, OneInv, UNCHANGED readerVars, Grow, WholeInv',
           \A k \in Kss : \A p, t : Tracked(k, p, t)' = Tracked(k, p, t)
    PROVE  OneInv'
  <1>1. /\ phase' = phase /\ ks' = ks /\ range' = range /\ bck' = bck /\ before' = before
        /\ merged' = merged /\ item_lost' = item_lost /\ due_before' = due_before
    BY DEF readerVars, history
  <1>2. ASSUME NEW k \in Kss, NEW p, NEW t, OneAt(k, p, t) PROVE OneAt(k, p, t)'
    <2>1. p \in db_msp'[k] /\ <<p, t>> \in db_ev'[k]
      BY <1>2, KssFacts DEF OneAt, Grow
    <2>2. Opened(k)' = Opened(k) /\ Current(k)' = Current(k) /\ BckHas(p)' = BckHas(p)
      BY <1>1 DEF Opened, Current, BckHas, Setup
    <2> QED
      BY <1>1, <1>2, <2>1, <2>2 DEF OneAt
  <1>3. BckFrom'
    BY <1>1 DEF OneInv, BckFrom, Setup
  <1> QED
    BY <1>1, <1>2, <1>3 DEF OneInv

LEMMA OneRead ==
    ASSUME HInv, OneInv, RInv, phase = "read", TracksAll,
           UNCHANGED <<phase, range, due_before, item_lost, dbVars>>
    PROVE  OneInv'
  <1>1. phase' = "read" /\ range' = range /\ due_before' = due_before /\ item_lost' = item_lost
        /\ UNCHANGED dbVars
    OBVIOUS
  <1>2. range.beg \in Nat /\ range.end \in Nat /\ range.beg <= range.end
    BY DEF RInv, ReaderTypes, RangeT
  <1>3. ASSUME NEW k \in Kss, NEW p, NEW t, OneAt(k, p, t) PROVE OneAt(k, p, t)'
    <2>1. k \in Rts
      BY KssFacts
    <2>2. p \in db_msp[k] /\ <<p, t>> \in db_ev[k] /\ t < range.beg /\ t \in Nat /\ t \in Ts
      BY <1>3, <2>1, KnownFacts DEF OneAt
    <2>3. Known(k, p, t)
      BY <1>2, <2>2 DEF Known
    <2>4. Tracked(k, p, t)
      BY <1>3 DEF OneAt, Opened, Current, Setup
    <2>5. Tracked(k, p, t)'
      BY <2>3, <2>4 DEF TracksAll
    <2>6. ~Current(k)'
      BY <1>1 DEF Current, Setup
    <2> QED
      BY <1>1, <1>3, <2>5, <2>6 DEF OneAt, dbVars
  <1>4. BckFrom' /\ WholeInv'
    BY <1>1 DEF OneInv, BckFrom, Setup, WholeInv, TablesWhole, dbVars
  <1> QED
    BY <1>1, <1>3, <1>4 DEF OneInv

LEMMA OneStart ==
    ASSUME HInv, RInv, StartRead, WholeInv', UNCHANGED dbVars
    PROVE  OneInv'
  <1>1. PICK q \in Ranges : LET r == [beg |-> q[1], end |-> q[2], one |-> q[3]] IN
           /\ range' = r /\ SetupKeyspace(1, r)
           /\ due_before' = Max({0} \union
                UNION {FindableBefore(k, r.beg) : k \in ToSet(Keyspaces)})
    BY DEF StartRead
  <1>2. q[1] \in Nat /\ q[2] \in Nat /\ q[3] \in BOOLEAN
    BY ReaderAssumption
  <1>3. PICK beg \in Nat : beg = q[1]
    BY <1>2
  <1>4. PICK T : T = {0} \union UNION {FindableBefore(k, beg) : k \in Kss}
    OBVIOUS
  <1>5. range'.beg = beg /\ due_before' = Max(T)
    BY <1>1, <1>3, <1>4 DEF Kss
  <1>6. /\ phase' \in {"bck", "read"} /\ ks' = 1
        /\ phase' = "read" => 1 > Len(Keyspaces)
        /\ phase' = "bck" => bck'.s = MspStream(range'.beg - ReadWindow[Keyspaces[1]],
                                                      range'.beg, FALSE)
    BY StartReadReader
  <1>7. ASSUME NEW t \in T, t # 0
        PROVE  \E k \in Kss : \E p : /\ p \in db_msp[k] /\ <<p, t>> \in db_ev[k] /\ t < beg
                                     /\ Ms(beg - ReadWindow[k]) <= p /\ p < Ms(beg)
                                     /\ t \in Nat /\ p \in Nat
    <2>1. PICK k \in Kss : t \in FindableBefore(k, beg)
      BY <1>4, <1>7
    <2>2. k \in Rts
      BY KssFacts
    <2>3. PICK e \in db_ev[k] : /\ t = e[2] /\ e[1] \in db_msp[k] /\ e[2] < beg
                                /\ Ms(beg - ReadWindow[k]) <= e[1] /\ e[1] < Ms(beg)
      BY <2>1 DEF FindableBefore
    <2>4. e \in Msps \X Ts
      BY <2>2, TableFacts
    <2>5. PICK p : p = e[1]
      OBVIOUS
    <2>6. <<p, t>> \in db_ev[k]
      BY <2>3, <2>4, <2>5
    <2>7. t \in Nat /\ p \in Nat
      BY <2>2, <2>6, KnownFacts
    <2> QED
      BY <2>3, <2>5, <2>6, <2>7
  <1>8. Max(T) \in T /\ Max(T) \in Nat
    <2>1. T \in SUBSET Nat /\ \A x \in T : x <= beg
      <3>1. ASSUME NEW x \in T PROVE x \in Nat /\ x <= beg
        <4>1. CASE x = 0
          BY <4>1
        <4>2. CASE x # 0
          <5>1. x \in Nat /\ x < beg
            BY <1>7, <4>2
          <5> QED
            BY <5>1
        <4> QED
          BY <4>1, <4>2
      <3> QED
        BY <3>1
    <2>2. T # {}
      BY <1>4
    <2>3. \E y \in T : \A z \in T : y >= z
      BY <2>1, <2>2, GreatestNat
    <2> QED
      BY <2>1, <2>3 DEF Max
  <1>9. Len(Keyspaces) \in Nat /\ Keyspaces \in Seq(Rts)
    BY ReaderAssumption
  <1>10. ASSUME due_before' # 0 PROVE \E k \in Kss : \E p, t : OneAt(k, p, t)'
    <2>1. PICK t \in T : t = due_before' /\ t # 0
      BY <1>5, <1>8, <1>10
    <2>2. PICK k \in Kss : \E p : /\ p \in db_msp[k] /\ <<p, t>> \in db_ev[k] /\ t < beg
                                  /\ Ms(beg - ReadWindow[k]) <= p /\ p < Ms(beg)
                                  /\ t \in Nat /\ p \in Nat
      BY <1>7, <2>1
    <2>3. PICK p : /\ p \in db_msp[k] /\ <<p, t>> \in db_ev[k] /\ t < beg
                   /\ Ms(beg - ReadWindow[k]) <= p /\ p < Ms(beg)
                   /\ t \in Nat /\ p \in Nat
      BY <2>2
    <2>4. k \in Rts /\ \E i \in 1..Len(Keyspaces) : Keyspaces[i] = k
      BY KssFacts
    <2>5. phase' = "bck"
      BY <1>6, <1>9, <2>4
    <2>6. ~Opened(k)'
      BY <1>6, <2>5 DEF Opened
    <2>7. ASSUME Current(k)' PROVE BckHas(p)'
      <3>1. k = Keyspaces[1]
        BY <1>6, <2>7 DEF Current
      <3>2. PICK s : s = MspStream(beg - ReadWindow[k], beg, FALSE)
        OBVIOUS
      <3>3. WillFind(s, p)
        BY <2>3, <2>4, <3>2, WindowStream
      <3> QED
        BY <1>5, <1>6, <2>5, <3>1, <3>2, <3>3 DEF BckHas
    <2>8. due_before' <= t
      BY <2>1, <2>3
    <2>9. OneAt(k, p, t)'
      BY <1>5, <2>3, <2>5, <2>6, <2>7, <2>8 DEF OneAt, dbVars
    <2> QED
      BY <2>9
  <1>11. BckFrom'
    <2>1. CASE phase' = "bck"
      <3>1. 1 \in 1..Len(Keyspaces) /\ bck'.msps = <<>>
        <4>1. PICK r : SetupKeyspace(1, r)
          BY <1>1
        <4>2. ~(1 > Len(Keyspaces))
          BY <2>1, <4>1 DEF SetupKeyspace
        <4>3. bck'.msps = <<>>
          BY <4>1, <4>2 DEF SetupKeyspace, Bck
        <4> QED
          BY <1>9, <4>2, <4>3
      <3>2. PICK k \in Rts : k = Keyspaces[1]
        BY <1>9, <3>1
      <3>3. PICK s : s = MspStream(beg - ReadWindow[k], beg, FALSE)
        OBVIOUS
      <3>4. MspsFrom(s) = Ms(beg - ReadWindow[k])
        BY <3>3, WindowStream
      <3>5. bck'.s = s
        BY <1>5, <1>6, <2>1, <3>2, <3>3
      <3>6. Ms(beg - ReadWindow[k]) \in Int
        <4>1. beg - ReadWindow[k] \in Int
          BY WindowAssumption
        <4> QED
          BY <4>1, MsFacts
      <3>7. ToSet(<<>>) = {}
        BY DEF ToSet
      <3> QED
        BY <1>5, <1>6, <3>1, <3>2, <3>4, <3>5, <3>6, <3>7 DEF BckFrom
    <2>2. CASE phase' = "read"
      BY <2>2 DEF BckFrom, Setup
    <2> QED
      BY <1>6, <2>1, <2>2
  <1> QED
    BY <1>5, <1>6, <1>8, <1>10, <1>11 DEF OneInv

LEMMA OneBckPage ==
    ASSUME HInv, RInv, OneInv, BckPage, UNCHANGED dbVars
    PROVE  OneInv'
  <1>1. phase = "bck" /\ Setup
        /\ UNCHANGED <<phase, ks, range, before, multi, buf, evbuf, merged, item_lost,
                       due_before, dbVars>>
    BY DEF BckPage, Setup, history
  <1>2. \A p \in db_msp[Keyspaces[ks]] : p \in ToSet(bck.msps) \/ WillFind(bck.s, p) =>
                p \in ToSet(bck'.msps) \/ WillFind(bck'.s, p)
    BY BckPageReader
  <1>3. ASSUME NEW k \in Kss, NEW p, NEW t, OneAt(k, p, t) PROVE OneAt(k, p, t)'
    <2>1. p \in db_msp[k]
      BY <1>3 DEF OneAt
    <2>2. Opened(k)' = Opened(k) /\ Tracked(k, p, t)' = Tracked(k, p, t)
          /\ Current(k)' = Current(k)
      BY <1>1 DEF Opened, Current, Tracked, Out, Setup
    <2>3. Current(k) /\ BckHas(p) => BckHas(p)'
      BY <1>2, <2>1 DEF BckHas, Current
    <2> QED
      BY <1>1, <1>3, <2>2, <2>3 DEF OneAt, dbVars
  <1>4. BckFrom' /\ WholeInv'
    BY <1>1, FromBckPage DEF OneInv, WholeInv, TablesWhole, dbVars
  <1> QED
    BY <1>1, <1>3, <1>4 DEF OneInv
-----------------------------------------------------------------------------
(* A partition that is cut leaves a later one with a later event, before   *)
(* the range.                                                              *)
LEMMA LaterEvent ==
    ASSUME HInv, TablesWhole, NEW k \in Rts, NEW p, NEW t, <<p, t>> \in db_ev[k],
           NEW beg \in Nat, NEW m2 \in db_msp[k], NEW m3 \in db_msp[k],
           p < m2, m2 < m3, m3 < Ms(beg)
    PROVE  \E t2 : <<m2, t2>> \in db_ev[k] /\ t <= t2 /\ t2 < beg
  <1>1. EventsOf(k) = db_ev[k] /\ m2 \in MspsOf(k)
    BY DEF EventsOf, MspsOf, RowEvents, TablesWhole
  <1>2. Hist(k, MspsOf(k), db_ev[k]) /\ Begun(MspsOf(k), db_ev[k])
    BY <1>1 DEF HInv, StoreOK, StoreHist, TablesWhole
  <1>3. PICK e \in db_ev[k] : e[1] = m2 /\ GridMsp(e[2]) = m2
    BY <1>1, <1>2 DEF Begun
  <1>4. e \in Msps \X Ts
    BY TableFacts
  <1>5. PICK t2 : t2 = e[2]
    OBVIOUS
  <1>6. <<m2, t2>> \in db_ev[k] /\ GridMsp(t2) = m2
    BY <1>3, <1>4, <1>5
  <1>7. t2 \in Nat /\ t \in Nat
    BY <1>6, KnownFacts
  <1>8. t <= t2
    <2>1. PICK f : f = <<p, t>>
      OBVIOUS
    <2>2. f \in db_ev[k] /\ f[1] = p /\ f[2] = t
      BY <2>1
    <2>3. f[2] <= e[2]
      BY <1>2, <1>3, <2>2 DEF Hist
    <2> QED
      BY <1>5, <2>2, <2>3
  <1>9. m2 \in Msps /\ m3 \in Msps /\ m2 \in Nat /\ m3 \in Nat
    BY TableFacts
  <1>10. t2 < Start(m2) + GridLen
    BY <1>6, <1>7, GridFacts
  <1>11. Start(m2) + GridLen <= Start(m3)
    BY <1>9, MspFacts
  <1>12. Start(m3) < beg /\ Start(m3) \in Int
    <2>1. m3 \in Int /\ beg \in Int
      BY <1>9
    <2>2. (m3 < Ms(beg) => Start(m3) < beg) /\ Start(m3) \in Int
      BY <2>1, MsFacts
    <2> QED
      BY <2>2
  <1>13. Start(m2) \in Int /\ GridLen \in Nat
    BY <1>9, StartMono, TimeAssumption
  <1>14. t2 < beg
    BY <1>7, <1>10, <1>11, <1>12, <1>13
  <1> QED
    BY <1>6, <1>8, <1>14

LEMMA FromOpened ==
    ASSUME RInv, Setup, NEW q, NEW b, OpenMulti(q, b), range' = range
    PROVE  BckFrom' /\ phase' \in {"bck", "read"}
  <1>1. ks \in 1..Len(Keyspaces) /\ range.beg \in Nat
    BY SetupReader
  <1>2. SetupKeyspace(ks + 1, range)
    BY DEF OpenMulti
  <1>3. Len(Keyspaces) \in Nat /\ Keyspaces \in Seq(Rts)
    BY ReaderAssumption
  <1>4. CASE ks + 1 > Len(Keyspaces)
    BY <1>2, <1>4 DEF SetupKeyspace, BckFrom, Setup
  <1>5. CASE ~(ks + 1 > Len(Keyspaces))
    <2>1. PICK k \in Rts : k = Keyspaces[ks + 1]
      BY <1>1, <1>3, <1>5
    <2>2. PICK beg \in Nat : beg = range.beg
      BY <1>1
    <2>3. PICK s : s = MspStream(beg - ReadWindow[k], beg, FALSE)
      OBVIOUS
    <2>4. MspsFrom(s) = Ms(beg - ReadWindow[k])
      BY <2>3, WindowStream
    <2>5. ks' = ks + 1 /\ phase' = "bck" /\ bck' = Bck(<<>>, s, {})
      BY <1>2, <1>5, <2>1, <2>2, <2>3 DEF SetupKeyspace
    <2>6. bck'.msps = <<>> /\ bck'.s = s
      BY <2>5 DEF Bck
    <2>7. Ms(beg - ReadWindow[k]) \in Int
      <3>1. beg - ReadWindow[k] \in Int
        BY WindowAssumption
      <3> QED
        BY <3>1, MsFacts
    <2>8. ToSet(<<>>) = {}
      BY DEF ToSet
    <2> QED
      BY <2>1, <2>2, <2>4, <2>5, <2>6, <2>7, <2>8 DEF BckFrom
  <1> QED
    BY <1>4, <1>5

LEMMA OneBckEnd ==
    ASSUME HInv, RInv, OneInv, BckEnd, UNCHANGED dbVars
    PROVE  OneInv'
  <1>1. phase = "bck" /\ Setup /\ before' = 0 /\ Exhausted(bck.s)
        /\ UNCHANGED <<range, buf, evbuf, merged, history, dbVars>>
        /\ item_lost' = item_lost /\ due_before' = due_before /\ range' = range
    BY DEF BckEnd, Setup, history
  <1>2. /\ ks \in 1..Len(Keyspaces) /\ Keyspaces[ks] \in Rts /\ range.beg \in Nat
        /\ bck.msps \in Seq(Nat) /\ Ordered(bck.msps, Lt)
        /\ ToSet(bck.msps) \subseteq db_msp[Keyspaces[ks]]
        /\ \A p \in ToSet(bck.msps) : p < Ms(range.beg)
    BY <1>1, SetupReader
  <1>3. PICK q : q = KeepLastMsps(bck.msps)
    OBVIOUS
  <1>4. /\ q \in Seq(Nat) /\ Ordered(q, Lt) /\ ToSet(q) \subseteq ToSet(bck.msps)
        /\ \A p \in ToSet(bck.msps) :
              \/ p \in ToSet(q)
              \/ \E m2, m3 \in ToSet(q) : p < m2 /\ m2 < m3
    BY <1>2, <1>3, KeepLastFacts
  <1>5. WholeInv' /\ TablesWhole
    BY <1>1 DEF OneInv, WholeInv, TablesWhole, dbVars
  <1>6. CASE range.one
    <2>1. /\ phase' = "lst" /\ bck' = Bck(q, bck.s, ToSet(q)) /\ UNCHANGED <<ks, multi>>
      BY <1>3, <1>6 DEF BckEnd
    <2>2. bck'.msps = q /\ bck'.left = ToSet(q) /\ bck'.s = bck.s
      BY <2>1 DEF Bck
    <2>3. BckFrom'
      BY <1>1, <1>4, <2>1, <2>2 DEF OneInv, BckFrom, Setup
    <2>4. \A k : Opened(k)' = Opened(k) /\ Current(k)' = Current(k)
      BY <1>1, <2>1 DEF Opened, Current, Setup
    <2>5. \A k, p, t : Tracked(k, p, t)' = Tracked(k, p, t)
      BY <1>1, <2>1 DEF Tracked, Out
    <2>6. ASSUME NEW k \in Kss, NEW p, NEW t, OneAt(k, p, t)
          PROVE  \E p2, t2 : OneAt(k, p2, t2)'
      <3>1. CASE ~Current(k) \/ p \in ToSet(q)
        <4>1. OneAt(k, p, t)'
          BY <1>1, <2>1, <2>2, <2>4, <2>5, <2>6, <3>1 DEF OneAt, dbVars
        <4> QED
          BY <4>1
      <3>2. CASE Current(k) /\ p \notin ToSet(q)
        <4>1. k = Keyspaces[ks] /\ k \in Rts
          BY <1>2, <3>2 DEF Current
        <4>2. BckHas(p) /\ <<p, t>> \in db_ev[k] /\ due_before <= t
          BY <1>1, <2>6, <3>2 DEF OneAt
        <4>3. p \in ToSet(bck.msps)
          BY <1>1, <4>2 DEF BckHas, WillFind
        <4>4. PICK m2, m3 \in ToSet(q) : p < m2 /\ m2 < m3
          BY <1>4, <3>2, <4>3
        <4>5. PICK beg \in Nat : beg = range.beg
          BY <1>2
        <4>6. m2 \in db_msp[k] /\ m3 \in db_msp[k] /\ m2 < Ms(beg) /\ m3 < Ms(beg)
          BY <1>2, <1>4, <4>1, <4>4, <4>5
        <4>7. PICK t2 : <<m2, t2>> \in db_ev[k] /\ t <= t2 /\ t2 < beg
          BY <1>5, <4>1, <4>2, <4>4, <4>6, LaterEvent
        <4>8. due_before <= t2
          <5>1. t \in Nat /\ t2 \in Nat
            BY <4>1, <4>2, <4>7, KnownFacts
          <5>2. due_before \in Nat
            BY DEF OneInv
          <5> QED
            BY <4>2, <4>7, <5>1, <5>2
        <4>9. Ms(range.beg - ReadWindow[k]) <= m2
          BY <1>1, <1>4, <4>1, <4>4 DEF OneInv, BckFrom
        <4>10. OneAt(k, m2, t2)'
          BY <1>1, <2>1, <2>2, <2>4, <3>2, <4>4, <4>5, <4>6, <4>7, <4>8, <4>9 DEF OneAt, dbVars
        <4> QED
          BY <4>10
      <3> QED
        BY <3>1, <3>2
    <2> QED
      BY <1>1, <1>5, <2>1, <2>3, <2>6 DEF OneInv
  <1>7. CASE ~range.one
    <2>1. OpenMulti(q, range.beg)
      BY <1>3, <1>7 DEF BckEnd
    <2>2. PICK b : b = range.beg
      OBVIOUS
    <2>3. BckFrom' /\ phase' \in {"bck", "read"}
      BY <1>1, <2>1, <2>2, FromOpened
    <2> QED
      BY <1>1, <1>5, <1>7, <2>3 DEF OneInv
  <1> QED
    BY <1>6, <1>7
-----------------------------------------------------------------------------
LEMMA OneLspLst ==
    ASSUME HInv, RInv, BeforeInv, OneInv, LspLst, UNCHANGED dbVars
    PROVE  OneInv'
  <1>1. phase = "lst" /\ Setup /\ phase' = "lst" /\ range' = range /\ ks' = ks
        /\ item_lost' = item_lost /\ due_before' = due_before
        /\ UNCHANGED <<phase, ks, range, multi, buf, evbuf, merged, dbVars>>
    BY DEF LspLst, history, Setup
  <1>2. before' \in Nat /\ before \in Nat /\ before <= before' /\ bck'.msps = bck.msps
    BY LspLstBefore
  <1>3. PICK m \in bck.left :
           /\ bck'.left = bck.left \ {m}
           /\ \A t : <<m, t>> \in db_ev[Keyspaces[ks]] /\ t < range.beg => t <= before'
    BY LspLstBefore
  <1>4. bck'.s = bck.s
    <2>1. \E p \in bck.left : bck' = [bck EXCEPT !.left = @ \ {p}]
      BY DEF LspLst
    <2> QED
      BY <2>1
  <1>5. ASSUME NEW k \in Kss, NEW p, NEW t, OneAt(k, p, t) PROVE OneAt(k, p, t)'
    <2>1. Opened(k)' = Opened(k) /\ Tracked(k, p, t)' = Tracked(k, p, t)
          /\ Current(k)' = Current(k)
      BY <1>1 DEF Opened, Current, Tracked, Out, Setup
    <2>2. <<p, t>> \in db_ev[k] /\ t < range.beg /\ t \in Nat
      BY <1>5, KssFacts, KnownFacts DEF OneAt
    <2>3. ASSUME Current(k)
          PROVE  p \in ToSet(bck'.msps) /\ (p \in bck'.left \/ t <= before')
      <3>1. p \in ToSet(bck.msps) /\ (p \in bck.left \/ t <= before)
        BY <1>1, <1>5, <2>3 DEF OneAt
      <3>2. CASE p = m
        BY <1>2, <1>3, <2>2, <2>3, <3>1, <3>2 DEF Current
      <3>3. CASE p # m
        BY <1>2, <1>3, <2>2, <3>1, <3>3
      <3> QED
        BY <3>2, <3>3
    <2> QED
      BY <1>1, <1>5, <2>1, <2>3 DEF OneAt, dbVars
  <1>6. BckFrom' /\ WholeInv'
    BY <1>1, <1>2, <1>4 DEF OneInv, BckFrom, Setup, WholeInv, TablesWhole, dbVars
  <1> QED
    BY <1>1, <1>5, <1>6 DEF OneInv

(* The streams of a keyspace begin with the latest event before the range. *)
LEMMA OneLspLstEnd ==
    ASSUME HInv, RInv, BeforeInv, OneInv, LspLstEnd, UNCHANGED dbVars
    PROVE  OneInv'
  <1>1. phase = "lst" /\ Setup /\ before' = 0 /\ OpenMulti(bck.msps, ScanBeg) /\ bck.left = {}
        /\ UNCHANGED <<range, buf, evbuf, merged, history, dbVars>>
        /\ item_lost' = item_lost /\ due_before' = due_before /\ range' = range
    BY DEF LspLstEnd, Setup, history
  <1>2. /\ range.beg \in Nat /\ bck.msps \in Seq(Nat) /\ Ordered(bck.msps, Lt)
        /\ ToSet(bck.msps) \subseteq db_msp[Keyspaces[ks]]
        /\ (\A x \in ToSet(bck.msps) : x < Ms(range.beg)) /\ Keyspaces[ks] \in Rts
    BY <1>1, SetupReader
  <1>3. PICK beg \in Nat : beg = ScanBeg /\ beg <= range.beg
    BY <1>1, ScanBegFacts
  <1>4. PICK q \in Seq(Nat) : q = bck.msps
    BY <1>2
  <1>5. /\ Ordered(q, Lt) /\ ToSet(q) \subseteq db_msp[Keyspaces[ks]]
        /\ \A x \in ToSet(q) : x < Ms(range.beg)
        /\ OpenMulti(q, beg) /\ beg <= range.beg
    BY <1>1, <1>2, <1>3, <1>4
  <1>6. BckFrom' /\ phase' \in {"bck", "read"}
    BY <1>1, <1>5, FromOpened
  <1>7. WholeInv'
    BY <1>1, <1>6 DEF OneInv, WholeInv, TablesWhole, dbVars
  <1>8. before \in Nat /\ due_before \in Nat
    BY DEF OneInv, RInv, ReaderTypes
  <1>9. ASSUME NEW k \in Kss, NEW p, NEW t,
               /\ p \in db_msp[k] /\ <<p, t>> \in db_ev[k] /\ due_before <= t /\ t < range.beg
               /\ p < Ms(range.beg) /\ Ms(range.beg - ReadWindow[k]) <= p,
               Opened(k) /\ ~Current(k) => Tracked(k, p, t),
               k = Keyspaces[ks] => beg <= t /\ p \in ToSet(q)
        PROVE  OneAt(k, p, t)'
    <2>1. k \in Rts /\ p \in Nat /\ t \in Nat
      BY <1>9, KssFacts, KnownFacts
    <2>2. k = Keyspaces[ks] => /\ beg <= t
                               /\ p \in ToSet(q) \/ (Ms(range.beg) <= p /\ p < Ms(range.end))
      BY <1>9
    <2>3. /\ Opened(k)' => Tracked(k, p, t)'
          /\ Current(k)' => /\ phase' = "bck"
                            /\ bck'.s = MspStream(range.beg - ReadWindow[k], range.beg, FALSE)
      BY <1>1, <1>5, <1>9, <2>1, <2>2, OpenMultiTracks
    <2>4. ASSUME Current(k)' PROVE phase' = "bck" /\ BckHas(p)'
      <3>1. PICK r \in Nat : r = range.beg
        BY <1>2
      <3>2. PICK s : s = MspStream(r - ReadWindow[k], r, FALSE)
        OBVIOUS
      <3>3. WillFind(s, p)
        BY <1>9, <2>1, <3>1, <3>2, WindowStream
      <3> QED
        BY <2>3, <2>4, <3>1, <3>2, <3>3 DEF BckHas
    <2> QED
      BY <1>1, <1>9, <2>3, <2>4 DEF OneAt, dbVars
  <1>10. ASSUME NEW k \in Kss, NEW p, NEW t, OneAt(k, p, t)
         PROVE  \E p2, t2 : OneAt(k, p2, t2)'
    <2>1. /\ p \in db_msp[k] /\ <<p, t>> \in db_ev[k] /\ due_before <= t /\ t < range.beg
          /\ p < Ms(range.beg) /\ Ms(range.beg - ReadWindow[k]) <= p
      BY <1>10 DEF OneAt
    <2>2. Opened(k) /\ ~Current(k) => Tracked(k, p, t)
      BY <1>10 DEF OneAt
    <2>3. CASE k # Keyspaces[ks]
      <3>1. OneAt(k, p, t)'
        BY <1>9, <2>1, <2>2, <2>3
      <3> QED
        BY <3>1
    <2>4. CASE k = Keyspaces[ks]
      <3>1. Current(k)
        BY <1>1, <2>4 DEF Current
      <3>2. t <= before /\ t \in Nat /\ t >= 1
        BY <1>1, <1>2, <1>10, <2>1, <2>4, <3>1, KnownFacts DEF OneAt
      <3>3. before # 0 /\ due_before <= before
        BY <1>8, <2>1, <3>2
      <3>4. beg = before /\ before < range.beg
        BY <1>3, <3>3 DEF ScanBeg, BeforeInv
      <3>5. PICK p2 \in ToSet(bck.msps) : <<p2, before>> \in db_ev[k]
        BY <2>4, <3>3 DEF BeforeInv
      <3>6. p2 \in db_msp[k] /\ p2 < Ms(range.beg) /\ p2 \in ToSet(q)
        BY <1>2, <1>4, <2>4, <3>5
      <3>7. Ms(range.beg - ReadWindow[k]) <= p2
        BY <1>1, <2>4, <3>5 DEF OneInv, BckFrom
      <3>8. beg <= before
        BY <3>4
      <3>9. PICK t2 : t2 = before
        OBVIOUS
      <3>10. OneAt(k, p2, t2)'
        BY <1>9, <3>1, <3>3, <3>4, <3>5, <3>6, <3>7, <3>8, <3>9
      <3> QED
        BY <3>10
    <2> QED
      BY <2>3, <2>4
  <1> QED
    BY <1>1, <1>6, <1>7, <1>10 DEF OneInv

LEMMA OneMergeEnd ==
    ASSUME HInv, RInv, OneInv, MergeEnd, UNCHANGED dbVars
    PROVE  OneInv'
  <1>1. phase = "read" /\ phase' = "done" /\ range' = range /\ item_lost' = item_lost
        /\ due_before' = due_before
    BY DEF MergeEnd, history
  <1>2. merged' = Out
    BY MergeEndReader
  <1>3. ASSUME ~item_lost, range.one, due_before # 0
        PROVE  \E t \in ToSet(merged') : t >= 1 /\ due_before <= t /\ t < range.beg
    <2>1. PICK k \in Kss : \E p, t : OneAt(k, p, t)
      BY <1>1, <1>3 DEF OneInv
    <2>2. PICK p, t : OneAt(k, p, t)
      BY <2>1
    <2>3. Tracked(k, p, t) /\ <<p, t>> \in db_ev[k] /\ due_before <= t /\ t < range.beg
      BY <1>1, <2>2 DEF OneAt, Opened, Current, Setup
    <2>4. t >= 1
      BY <2>3, KssFacts, KnownFacts
    <2>5. t \in ToSet(Out)
      BY <2>3, EndTracked
    <2> QED
      BY <1>2, <2>3, <2>4, <2>5
  <1>4. BckFrom' /\ WholeInv'
    BY <1>1 DEF OneInv, BckFrom, Setup, WholeInv, TablesWhole, dbVars
  <1> QED
    BY <1>1, <1>3, <1>4 DEF OneInv
-----------------------------------------------------------------------------
LEMMA NextOne ==
    ASSUME FaultFree, IInv, HInv, RInv, DueInv, OneInv, [Next]_vars, IInv', HInv'
    PROVE  OneInv'
  <1>1. BeforeInv /\ WholeInv
    BY DEF DueInv, OneInv
  <1>2. CASE WriterNext /\ WriterBound /\ UNCHANGED readerVars
    <2>1. Grow
      BY <1>2, TablesGrow
    <2>2. \A k \in Rts : db_msp[k] \subseteq db_msp'[k]
      BY <2>1 DEF Grow
    <2>3. \A k \in Kss : \A p, t : Tracked(k, p, t)' = Tracked(k, p, t)
      BY <1>2, <2>2, GrowsReader
    <2>4. WholeInv'
      BY <1>1, <1>2, WholeWriter
    <2> QED
      BY <1>2, <2>1, <2>3, <2>4, OneWriter
  <1>3. CASE StartRead /\ Faults <= MaxReadFaults /\ UNCHANGED dbVars
    BY <1>1, <1>3, WholeStart, OneStart
  <1>4. CASE ReaderStep /\ UNCHANGED dbVars
    <2>1. CASE BckPage
      BY <1>4, <2>1, OneBckPage
    <2>2. CASE BckEnd
      BY <1>4, <2>2, OneBckEnd
    <2>3. CASE LspLst
      BY <1>1, <1>4, <2>3, OneLspLst
    <2>4. CASE LspLstEnd
      BY <1>1, <1>4, <2>4, OneLspLstEnd
    <2>5. ASSUME NEW k \in Kss,
                 \/ MspPage(k) \/ PreopenPage(k) \/ InputPage(k) \/ OpenNextMsp(k)
                 \/ MultiItem(k)
          PROVE  OneInv'
      <3>1. TracksAll
        BY <1>4, <2>5, MspPageReader, PreopenPageReader, InputPageReader, OpenNextMspReader,
           MultiItemReader
      <3>2. phase = "read" /\ UNCHANGED <<phase, range, due_before, item_lost>>
        BY <2>5 DEF MspPage, PreopenPage, InputPage, OpenNextMsp, MultiItem, SetMulti
      <3> QED
        BY <1>4, <3>1, <3>2, OneRead
    <2>6. ASSUME NEW k \in Kss, ItemDropped(k) PROVE OneInv'
      <3>1. item_lost' = TRUE /\ phase = "read" /\ phase' = phase /\ due_before' = due_before
        BY <2>6 DEF ItemDropped, SetMulti
      <3>2. BckFrom' /\ WholeInv'
        BY <1>1, <1>4, <3>1 DEF BckFrom, Setup, WholeInv, TablesWhole, dbVars
      <3> QED
        BY <3>1, <3>2 DEF OneInv
    <2>7. CASE MergeStep
      <3>1. TracksAll
        BY <1>4, <2>7, MergeStepReader
      <3>2. phase = "read" /\ UNCHANGED <<phase, range, due_before, item_lost>>
        BY <2>7 DEF MergeStep, history
      <3> QED
        BY <1>4, <3>1, <3>2, OneRead
    <2>8. CASE MergeEnd
      BY <1>4, <2>8, OneMergeEnd
    <2> QED
      BY <1>4, <2>1, <2>2, <2>3, <2>4, <2>5, <2>6, <2>7, <2>8 DEF ReaderStep, Kss
  <1>5. CASE UNCHANGED vars
    <2>1. UNCHANGED readerVars /\ Grow /\ UNCHANGED dbVars /\ phase' = phase
      BY <1>5 DEF vars, dbVars, readerVars, Grow
    <2>2. \A k \in Rts : db_msp[k] \subseteq db_msp'[k]
      BY <2>1 DEF Grow
    <2>3. \A k \in Kss : \A p, t : Tracked(k, p, t)' = Tracked(k, p, t)
      BY <2>1, <2>2, GrowsReader
    <2>4. WholeInv'
      BY <1>1, <2>1 DEF WholeInv, TablesWhole, dbVars
    <2> QED
      BY <2>1, <2>3, <2>4, OneWriter
  <1> QED
    BY <1>2, <1>3, <1>4, <1>5 DEF Next

LEMMA InitOne == ASSUME Init PROVE OneInv
  <1>1. phase = "idle" /\ due_before = 0 /\ nlost = 0 /\ late = {}
    BY DEF Init, ReaderInit, DbInit
  <1> QED
    BY <1>1 DEF OneInv, WholeInv, TablesWhole, BckFrom, Setup

(* When no row is late or lost during a read, a read that asks for the     *)
(* event before the range and dropped no item hands on, after Dedup, the   *)
(* latest one that was there when it began, or a later one before the      *)
(* range.                                                                  *)
THEOREM OneBeforeIsFound == ASSUME FaultFree PROVE Spec => []OneBeforeFound
  <1>1. Init => IInv /\ HInv /\ RInv /\ DueInv /\ OneInv
    BY InitInv, InitHist, InitReader, InitDue, InitOne
  <1>2. IInv /\ HInv /\ RInv /\ DueInv /\ OneInv /\ [Next]_vars
           => (IInv /\ HInv /\ RInv /\ DueInv /\ OneInv)'
    <2>1. IInv /\ HInv /\ RInv /\ DueInv /\ [Next]_vars => (IInv /\ HInv /\ RInv /\ DueInv)'
      BY NextInv, NextHist, NextReader, NextDue
    <2> QED
      BY <2>1, NextOne
  <1>3. RInv /\ OneInv => OneBeforeFound
    <2> SUFFICES ASSUME RInv, OneInv, phase = "done", ~item_lost, range.one, due_before # 0
                 PROVE  \E ts \in ToSet(Dedup(merged)) : due_before <= ts /\ ts < range.beg
      BY DEF OneBeforeFound
    <2>1. PICK t \in ToSet(merged) : t >= 1 /\ due_before <= t /\ t < range.beg
      BY DEF OneInv
    <2>2. merged \in Seq(Ts) /\ evbuf \in Seq(Ts) /\ Ordered(Out, Le)
      BY DEF RInv, ReaderTypes, OrderInv
    <2>3. PICK m \in Seq(Ts) : m = merged
      BY <2>2
    <2>4. PICK e \in Seq(Ts) : e = evbuf
      BY <2>2
    <2>5. Ordered(m \o e, Le)
      BY <2>2, <2>3, <2>4 DEF Out
    <2>6. Ordered(m, Le) /\ Ts \in SUBSET Nat
      BY <2>5, OrderedConcat, TimeAssumption
    <2>7. \A x \in ToSet(m) : x >= 1 => x \in ToSet(Dedup(m))
      BY <2>6, DedupFacts
    <2> QED
      BY <2>1, <2>3, <2>7
  <1> QED
    BY <1>1, <1>2, <1>3, PTL DEF Spec
==============================================================================
