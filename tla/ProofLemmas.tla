----------------------------- MODULE ProofLemmas -----------------------------
(***************************************************************************)
(* Facts about numbers, finite sets and sequences that the proofs of the   *)
(* components share.  Induction is stated with a set where the library     *)
(* takes an operator: the set of the numbers that have the property.       *)
(***************************************************************************)
EXTENDS Integers, Sequences, SequencesExt, FiniteSets, Filter, FiniteSetTheorems,
        SequenceTheorems, TLAPS

(* A set of numbers that is not empty has a least element.                 *)
LEMMA LeastNat ==
    ASSUME NEW T \in SUBSET Nat, T # {}
    PROVE  \E n \in T : \A m \in T : n <= m
  <1> DEFINE U == {0..n : n \in T}
  <1>1. IsWellFoundedOn(StrictSubsetOrdering(Nat), FiniteSubsetsOf(Nat))
    BY FS_StrictSubsetOrderingWellFounded
  <1>2. U \subseteq FiniteSubsetsOf(Nat) /\ U # {}
    <2>1. ASSUME NEW n \in T PROVE 0..n \in FiniteSubsetsOf(Nat)
      <3>1. n \in Int /\ 0 \in Int /\ 0..n \subseteq Nat
        OBVIOUS
      <3>2. IsFiniteSet(0..n)
        BY <3>1, FS_Interval
      <3> QED
        BY <3>1, <3>2 DEF FiniteSubsetsOf
    <2> QED
      BY <2>1
  <1>3. \E x \in U : \A y \in U : <<y, x>> \notin StrictSubsetOrdering(Nat)
    <2> HIDE DEF U
    <2> QED
      BY <1>1, <1>2, WFMin
  <1>4. PICK n \in T :
          \A m \in T : <<0..m, 0..n>> \notin StrictSubsetOrdering(Nat)
    BY <1>3
  <1>5. ASSUME NEW m \in T, m < n PROVE FALSE
    <2>1. /\ 0..m \subseteq 0..n /\ 0..m # 0..n
          /\ 0..m \subseteq Nat /\ 0..n \subseteq Nat
      BY <1>5
    <2> QED
      BY <2>1, <1>4, <1>5 DEF StrictSubsetOrdering
  <1> QED
    BY <1>4, <1>5

(* Induction: a set that has 0, and with each number the next, has all.    *)
LEMMA NatSetInduction ==
    ASSUME NEW S, 0 \in S, \A n \in Nat : n \in S => n + 1 \in S
    PROVE  \A n \in Nat : n \in S
  <1> DEFINE T == Nat \ S
  <1>1. SUFFICES ASSUME T # {} PROVE FALSE
    OBVIOUS
  <1>2. PICK n \in T : \A m \in T : n <= m
    BY <1>1, LeastNat
  <1>3. n # 0 /\ n - 1 \in Nat /\ n - 1 \in S
    BY <1>2
  <1> QED
    BY <1>2, <1>3

(* What is in a sequence of two parts is in one of them.                   *)
LEMMA ToSetConcat ==
    ASSUME NEW S, NEW s \in Seq(S), NEW t \in Seq(S)
    PROVE  ToSet(s \o t) = ToSet(s) \union ToSet(t)
  <1>1. ASSUME NEW j \in 1..Len(t)
        PROVE  Len(s) + j \in 1..Len(s \o t) /\ (s \o t)[Len(s) + j] = t[j]
    BY ConcatProperties
  <1>2. ASSUME NEW i \in 1..Len(s)
        PROVE  i \in 1..Len(s \o t) /\ (s \o t)[i] = s[i]
    BY ConcatProperties
  <1>3. ASSUME NEW i \in 1..Len(s \o t)
        PROVE  (s \o t)[i] \in ToSet(s) \union ToSet(t)
    <2>1. CASE i \in 1..Len(s)
      BY <1>2, <2>1 DEF ToSet
    <2>2. CASE i \notin 1..Len(s)
      <3> DEFINE j == i - Len(s)
      <3>1. j \in 1..Len(t) /\ i = Len(s) + j
        BY <1>3, <2>2, ConcatProperties
      <3> QED
        BY <1>1, <3>1 DEF ToSet
    <2> QED
      BY <2>1, <2>2
  <1>4. /\ DOMAIN s = 1..Len(s) /\ DOMAIN t = 1..Len(t)
        /\ DOMAIN (s \o t) = 1..Len(s \o t)
    BY ConcatProperties, LenProperties
  <1>5. ToSet(s \o t) \subseteq ToSet(s) \union ToSet(t)
    BY <1>3, <1>4 DEF ToSet
  <1>6. ToSet(s) \subseteq ToSet(s \o t)
    BY <1>2, <1>4 DEF ToSet
  <1>7. ToSet(t) \subseteq ToSet(s \o t)
    BY <1>1, <1>4 DEF ToSet
  <1> QED
    BY <1>5, <1>6, <1>7

(* What is in a sequence with one more element.                            *)
LEMMA ToSetOne == \A x : ToSet(<<x>>) = {x}
  BY DEF ToSet

LEMMA ToSetType ==
    ASSUME NEW S, NEW s \in Seq(S)
    PROVE  ToSet(s) \subseteq S
  BY DEF ToSet

(* Two elements one after the other.                                       *)
LEMMA SmallConcat ==
    ASSUME NEW S, NEW x \in S, NEW y \in S
    PROVE  <<x>> \o <<y>> = <<x, y>> /\ <<>> \o <<y>> = <<y>>
  <1>1. <<x>> \in Seq(S) /\ <<y>> \in Seq(S) /\ Len(<<x>>) = 1 /\ Len(<<y>>) = 1
    OBVIOUS
  <1>2. PICK u, v, w : u = <<x>> \o <<y>> /\ v = <<x, y>> /\ w = <<y>>
    OBVIOUS
  <1>3. u \in Seq(S) /\ Len(u) = 2 /\ u[1] = x /\ u[2] = y
    BY <1>1, <1>2, ConcatProperties
  <1>4. v \in Seq(S) /\ Len(v) = 2 /\ v[1] = x /\ v[2] = y
    BY <1>2
  <1>5. \A i \in 1..Len(u) : u[i] = v[i]
    BY <1>3, <1>4
  <1>6. u = v
    BY <1>3, <1>4, <1>5, SeqEqual
  <1>7. w \in Seq(S) /\ <<>> \o w = w
    BY <1>1, <1>2
  <1> QED
    BY <1>2, <1>6, <1>7

(* The first of one or two elements, and the rest.                         *)
LEMMA FirstAndRest ==
    ASSUME NEW S, NEW h \in S, NEW r \in Seq(S)
    PROVE  /\ <<h>> \o r # <<>>
           /\ \A x : <<h>> \o r = <<x>> => h = x /\ r = <<>>
           /\ \A x, y : <<h>> \o r = <<x, y>> => h = x /\ r = <<y>>
  <1>1. PICK u : u = <<h>> \o r
    OBVIOUS
  <1>2. /\ u \in Seq(S) /\ Len(u) = Len(r) + 1 /\ u[1] = h /\ Len(r) \in Nat
        /\ \A i \in 1..Len(r) : u[i + 1] = r[i]
    <2>1. <<h>> \in Seq(S) /\ Len(<<h>>) = 1 /\ <<h>>[1] = h /\ Len(r) \in Nat
      OBVIOUS
    <2>2. /\ u \in Seq(S) /\ Len(u) = Len(<<h>>) + Len(r)
          /\ \A i \in 1..(Len(<<h>>) + Len(r)) :
               u[i] = IF i <= Len(<<h>>) THEN <<h>>[i] ELSE r[i - Len(<<h>>)]
      BY <1>1, <2>1, ConcatProperties
    <2>3. ASSUME NEW i \in 1..Len(r) PROVE u[i + 1] = r[i]
      <3>1. i + 1 \in 1..(1 + Len(r)) /\ ~(i + 1 <= 1) /\ (i + 1) - 1 = i
        BY <2>1
      <3> QED
        BY <2>1, <2>2, <3>1
    <2> QED
      BY <2>1, <2>2, <2>3
  <1>3. u # <<>>
    BY <1>2
  <1>4. ASSUME NEW x, u = <<x>> PROVE h = x /\ r = <<>>
    <2>1. Len(u) = 1 /\ u[1] = x
      BY <1>4
    <2> QED
      BY <1>2, <2>1
  <1>5. ASSUME NEW x, NEW y, u = <<x, y>> PROVE h = x /\ r = <<y>>
    <2>1. Len(u) = 2 /\ u[1] = x /\ u[2] = y
      BY <1>5
    <2>2. Len(r) = 1 /\ r[1] = y
      <3>1. PICK n \in Nat : n = Len(r) /\ Len(u) = n + 1
        BY <1>2
      <3>2. n = 1
        <4>1. n + 1 = 2
          BY <2>1, <3>1
        <4> QED
          BY <4>1
      <3>3. u[1 + 1] = r[1]
        BY <1>2, <3>1, <3>2
      <3> QED
        BY <2>1, <3>1, <3>2, <3>3
    <2>3. r = <<y>>
      BY <2>2
    <2> QED
      BY <1>2, <2>1, <2>3
  <1> QED
    BY <1>1, <1>3, <1>4, <1>5

(* A listing of a finite set without repetition has all its elements.      *)
LEMMA ListingCovers ==
    ASSUME NEW S, IsFiniteSet(S), NEW s \in SetToSeqs(S)
    PROVE  /\ s \in Seq(S) /\ Len(s) = Cardinality(S)
           /\ ToSet(s) = S
  <1> DEFINE D == 1..Cardinality(S)
  <1>1. Cardinality(S) \in Nat
    BY FS_CardinalityType
  <1>2. s \in [D -> S] /\ \A i, j \in D : i # j => s[i] # s[j]
    BY DEF SetToSeqs
  <1>3. s \in Seq(S) /\ Len(s) = Cardinality(S) /\ DOMAIN s = D
    BY <1>1, <1>2
  <1>4. s \in Injection(D, S)
    BY <1>2 DEF Injection, IsInjective
  <1>5. IsFiniteSet(D) /\ Cardinality(D) = Cardinality(S)
    BY <1>1, FS_Interval
  <1>6. s \in Surjection(D, S)
    BY <1>4, <1>5, FS_Injection
  <1>7. \A x \in S : \E i \in D : s[i] = x
    BY <1>6 DEF Surjection
  <1> QED
    BY <1>2, <1>3, <1>7 DEF ToSet
-----------------------------------------------------------------------------
(* Keep.                                                                   *)
IsKeep(q, K, F) ==
    F = [i \in 0..Len(q) |->
           IF i = 0 THEN <<>>
           ELSE IF q[i] \in K THEN Append(F[i - 1], q[i])
           ELSE F[i - 1]]

(* The recursive function of Keep exists.                                  *)
LEMMA KeepExists ==
    ASSUME NEW S, NEW K
    PROVE  \A n \in Nat : \A q \in Seq(S) : Len(q) = n => \E F : IsKeep(q, K, F)
  <1> DEFINE T == {n \in Nat : \A q \in Seq(S) : Len(q) = n => \E F : IsKeep(q, K, F)}
  <1>1. 0 \in T
    <2>1. ASSUME NEW q \in Seq(S), Len(q) = 0 PROVE \E F : IsKeep(q, K, F)
      <3>1. IsKeep(q, K, [i \in 0..0 |-> <<>>])
        BY <2>1 DEF IsKeep
      <3> QED
        BY <3>1
    <2> QED
      BY <2>1
  <1>2. ASSUME NEW n \in Nat, n \in T PROVE n + 1 \in T
    <2>1. ASSUME NEW q \in Seq(S), Len(q) = n + 1 PROVE \E F : IsKeep(q, K, F)
      <3> DEFINE p == SubSeq(q, 1, n)
      <3>1. p \in Seq(S) /\ Len(p) = n /\ \A i \in 1..n : p[i] = q[i]
        BY <2>1
      <3> HIDE DEF p
      <3>2. PICK F : IsKeep(p, K, F)
        BY <1>2, <3>1
      <3> DEFINE G == [i \in 0..(n + 1) |->
                         IF i <= n THEN F[i]
                         ELSE IF q[i] \in K THEN Append(F[n], q[i])
                         ELSE F[n]]
      <3>3. \A i \in 0..n : F[i] = IF i = 0 THEN <<>>
                                   ELSE IF q[i] \in K THEN Append(F[i - 1], q[i])
                                   ELSE F[i - 1]
        <4> DEFINE H(i) == IF i = 0 THEN <<>>
                           ELSE IF p[i] \in K THEN Append(F[i - 1], p[i])
                           ELSE F[i - 1]
        <4>1. F = [i \in 0..n |-> H(i)]
          BY <3>1, <3>2 DEF IsKeep
        <4>2. \A i \in 0..n : F[i] = H(i)
          <5> HIDE DEF H
          <5> QED
            BY <4>1
        <4> QED
          BY <3>1, <4>2
      <3>4. \A i \in 0..(n + 1) : i - 1 \in 0..n \/ i = 0
        OBVIOUS
      <3>5. ASSUME NEW i \in 0..(n + 1)
            PROVE  G[i] = IF i = 0 THEN <<>>
                          ELSE IF q[i] \in K THEN Append(G[i - 1], q[i])
                          ELSE G[i - 1]
        <4>1. CASE i <= n
          BY <3>3, <3>4, <4>1
        <4>2. CASE i = n + 1
          BY <4>2
        <4> QED
          BY <4>1, <4>2
      <3>6. IsKeep(q, K, G)
        <4>1. G = [i \in 0..(n + 1) |-> G[i]]
          OBVIOUS
        <4> HIDE DEF G
        <4> QED
          BY <2>1, <3>5, <4>1 DEF IsKeep
      <3> QED
        BY <3>6
    <2> QED
      BY <2>1
  <1> HIDE DEF T
  <1>3. \A n \in Nat : n \in T
    BY <1>1, <1>2, NatSetInduction
  <1> QED
    BY <1>3 DEF T

(* What it is at the start, and one element later.                         *)
LEMMA KeepRec ==
    ASSUME NEW S, NEW K, NEW q \in Seq(S)
    PROVE  /\ Len(q) \in Nat /\ KeepUpTo(q, K)[0] = <<>>
           /\ \A i \in Nat : i + 1 \in 1..Len(q) =>
                KeepUpTo(q, K)[i + 1] =
                  IF q[i + 1] \in K THEN Append(KeepUpTo(q, K)[i], q[i + 1])
                  ELSE KeepUpTo(q, K)[i]
  <1>1. \E F : IsKeep(q, K, F)
    <2>1. \A n \in Nat : \A r \in Seq(S) : Len(r) = n => \E F : IsKeep(r, K, F)
      BY KeepExists
    <2> QED
      BY <2>1
  <1>2. KeepUpTo(q, K) = CHOOSE F : IsKeep(q, K, F)
    BY DEF KeepUpTo, IsKeep
  <1>3. IsKeep(q, K, KeepUpTo(q, K))
    BY <1>1, <1>2
  <1> DEFINE F == KeepUpTo(q, K)
             H(j) == IF j = 0 THEN <<>>
                     ELSE IF q[j] \in K THEN Append(F[j - 1], q[j])
                     ELSE F[j - 1]
  <1>4. F = [j \in 0..Len(q) |-> H(j)]
    BY <1>3 DEF IsKeep
  <1> HIDE DEF F, H
  <1>5. \A i \in 0..Len(q) : F[i] = H(i)
    BY <1>4
  <1>6. F[0] = <<>>
    BY <1>5 DEF H
  <1>7. ASSUME NEW i \in Nat, i + 1 \in 1..Len(q)
        PROVE  F[i + 1] = IF q[i + 1] \in K THEN Append(F[i], q[i + 1])
                          ELSE F[i]
    <2>1. F[i + 1] = H(i + 1)
      BY <1>5, <1>7
    <2>2. i + 1 # 0 /\ (i + 1) - 1 = i
      OBVIOUS
    <2> QED
      BY <2>1, <2>2 DEF H
  <1> QED
    BY <1>6, <1>7 DEF F

LEMMA KeepUpToType ==
    ASSUME NEW S, NEW K, NEW q \in Seq(S)
    PROVE  \A i \in 0..Len(q) : KeepUpTo(q, K)[i] \in Seq(S)
  <1> DEFINE T == {i \in Nat : i \in 0..Len(q) => KeepUpTo(q, K)[i] \in Seq(S)}
  <1>1. 0 \in T
    <2>1. KeepUpTo(q, K)[0] = <<>> /\ <<>> \in Seq(S)
      BY KeepRec
    <2> QED
      BY <2>1
  <1>2. ASSUME NEW i \in Nat, i \in T PROVE i + 1 \in T
    <2>1. SUFFICES ASSUME i + 1 \in 0..Len(q) PROVE KeepUpTo(q, K)[i + 1] \in Seq(S)
      OBVIOUS
    <2>2. i + 1 \in 1..Len(q) /\ q[i + 1] \in S /\ KeepUpTo(q, K)[i] \in Seq(S)
      BY <1>2, <2>1
    <2>3. KeepUpTo(q, K)[i + 1] =
          IF q[i + 1] \in K THEN Append(KeepUpTo(q, K)[i], q[i + 1])
          ELSE KeepUpTo(q, K)[i]
      BY <2>2, KeepRec
    <2> QED
      BY <2>2, <2>3
  <1> HIDE DEF T
  <1>3. \A i \in Nat : i \in T
    BY <1>1, <1>2, NatSetInduction
  <1> QED
    BY <1>3 DEF T

LEMMA KeepType ==
    ASSUME NEW S, NEW K, NEW q \in Seq(S)
    PROVE  Keep(q, K) \in Seq(S)
  BY KeepUpToType DEF Keep

(* What is kept of two parts is what is kept of each.                      *)
LEMMA KeepPrefix ==
    ASSUME NEW S, NEW K, NEW p \in Seq(S), NEW q \in Seq(S)
    PROVE  \A i \in 0..Len(p) : KeepUpTo(p \o q, K)[i] = KeepUpTo(p, K)[i]
  <1> DEFINE pq == p \o q
             T == {i \in Nat : i \in 0..Len(p) => KeepUpTo(pq, K)[i] = KeepUpTo(p, K)[i]}
  <1>0. /\ pq \in Seq(S) /\ Len(pq) = Len(p) + Len(q) /\ Len(p) \in Nat /\ Len(q) \in Nat
        /\ \A i \in 1..Len(p) : pq[i] = p[i]
    BY ConcatProperties
  <1> HIDE DEF pq
  <1>1. 0 \in T
    <2>1. 0 \in 0..Len(pq) /\ 0 \in 0..Len(p)
      BY <1>0
    <2> QED
      BY <1>0, <2>1, KeepRec
  <1>2. ASSUME NEW i \in Nat, i \in T PROVE i + 1 \in T
    <2>1. SUFFICES ASSUME i + 1 \in 0..Len(p) PROVE KeepUpTo(pq, K)[i + 1] = KeepUpTo(p, K)[i + 1]
      OBVIOUS
    <2>2. /\ i + 1 \in 1..Len(p) /\ i + 1 \in 1..Len(pq) /\ i \in 0..Len(p)
          /\ KeepUpTo(pq, K)[i] = KeepUpTo(p, K)[i] /\ pq[i + 1] = p[i + 1]
      BY <1>0, <1>2, <2>1
    <2>3. KeepUpTo(pq, K)[i + 1] =
          IF pq[i + 1] \in K THEN Append(KeepUpTo(pq, K)[i], pq[i + 1])
          ELSE KeepUpTo(pq, K)[i]
      BY <1>0, <2>2, KeepRec
    <2>4. KeepUpTo(p, K)[i + 1] =
          IF p[i + 1] \in K THEN Append(KeepUpTo(p, K)[i], p[i + 1])
          ELSE KeepUpTo(p, K)[i]
      BY <2>2, KeepRec
    <2> QED
      BY <2>2, <2>3, <2>4
  <1> HIDE DEF T
  <1>3. \A i \in Nat : i \in T
    BY <1>1, <1>2, NatSetInduction
  <1> QED
    BY <1>3 DEF T, pq

LEMMA KeepConcat ==
    ASSUME NEW S, NEW K, NEW p \in Seq(S), NEW q \in Seq(S)
    PROVE  Keep(p \o q, K) = Keep(p, K) \o Keep(q, K)
  <1> DEFINE pq == p \o q
             n == Len(p)
             T == {i \in Nat : i \in 0..Len(q) =>
                     KeepUpTo(pq, K)[n + i] = Keep(p, K) \o KeepUpTo(q, K)[i]}
  <1>0. /\ pq \in Seq(S) /\ Len(pq) = n + Len(q) /\ n \in Nat /\ Len(q) \in Nat
        /\ \A i \in 1..Len(q) : pq[n + i] = q[i]
    BY ConcatProperties
  <1>1. /\ KeepUpTo(pq, K)[n] = Keep(p, K) /\ Keep(p, K) \in Seq(S)
    BY <1>0, KeepPrefix, KeepType DEF Keep
  <1> HIDE DEF pq, n
  <1>2. 0 \in T
    <2>1. KeepUpTo(q, K)[0] = <<>>
      BY <1>0, KeepRec
    <2>2. Keep(p, K) \o <<>> = Keep(p, K)
      BY <1>1
    <2> QED
      BY <1>0, <1>1, <2>1, <2>2
  <1>3. ASSUME NEW i \in Nat, i \in T PROVE i + 1 \in T
    <2>1. SUFFICES ASSUME i + 1 \in 0..Len(q)
                   PROVE  KeepUpTo(pq, K)[n + (i + 1)] = Keep(p, K) \o KeepUpTo(q, K)[i + 1]
      OBVIOUS
    <2>2. i + 1 \in 1..Len(q) /\ i \in 0..Len(q) /\ q[i + 1] \in S
      BY <1>0, <2>1
    <2>3. KeepUpTo(pq, K)[n + i] = Keep(p, K) \o KeepUpTo(q, K)[i]
      BY <1>3, <2>2
    <2>4. pq[n + (i + 1)] = q[i + 1]
      BY <1>0, <2>2
    <2>5. n + i \in Nat /\ (n + i) + 1 \in 1..Len(pq) /\ (n + i) + 1 = n + (i + 1)
      BY <1>0, <2>2
    <2>6. KeepUpTo(pq, K)[n + (i + 1)] =
          IF q[i + 1] \in K THEN Append(KeepUpTo(pq, K)[n + i], q[i + 1])
          ELSE KeepUpTo(pq, K)[n + i]
      <3>1. PICK m \in Nat : m = n + i
        BY <2>5
      <3>2. m + 1 \in 1..Len(pq) /\ m + 1 = n + (i + 1)
        BY <2>5, <3>1
      <3>3. KeepUpTo(pq, K)[m + 1] =
              IF pq[m + 1] \in K THEN Append(KeepUpTo(pq, K)[m], pq[m + 1])
              ELSE KeepUpTo(pq, K)[m]
        BY <1>0, <3>2, KeepRec
      <3> QED
        BY <2>4, <3>1, <3>2, <3>3
    <2>7. KeepUpTo(q, K)[i + 1] =
          IF q[i + 1] \in K THEN Append(KeepUpTo(q, K)[i], q[i + 1])
          ELSE KeepUpTo(q, K)[i]
      BY <2>2, KeepRec
    <2>8. KeepUpTo(q, K)[i] \in Seq(S)
      BY <2>2, KeepUpToType
    <2>9. PICK a \in Seq(S), b \in Seq(S), e \in S :
            a = Keep(p, K) /\ b = KeepUpTo(q, K)[i] /\ e = q[i + 1]
      BY <1>1, <2>2, <2>8
    <2>10. Append(a \o b, e) = a \o Append(b, e)
      <3>1. Append(a \o b, e) = (a \o b) \o <<e>>
        BY AppendIsConcat, ConcatProperties
      <3>2. Append(b, e) = b \o <<e>>
        BY AppendIsConcat
      <3>3. (a \o b) \o <<e>> = a \o (b \o <<e>>)
        BY ConcatAssociative
      <3> QED
        BY <3>1, <3>2, <3>3
    <2> QED
      BY <2>3, <2>6, <2>7, <2>9, <2>10
  <1>4. Len(q) \in T
    <2> HIDE DEF T
    <2>1. \A i \in Nat : i \in T
      BY <1>2, <1>3, NatSetInduction
    <2> QED
      BY <1>0, <2>1
  <1>5. KeepUpTo(pq, K)[n + Len(q)] = Keep(p, K) \o KeepUpTo(q, K)[Len(q)]
    BY <1>0, <1>4
  <1> QED
    BY <1>0, <1>5 DEF Keep, pq

LEMMA KeepSmall ==
    ASSUME NEW K
    PROVE  /\ Keep(<<>>, K) = <<>>
           /\ \A e : Keep(<<e>>, K) = IF e \in K THEN <<e>> ELSE <<>>
  <1>1. Keep(<<>>, K) = <<>>
    <2>1. <<>> \in Seq({}) /\ Len(<<>>) = 0
      BY EmptySeq
    <2> QED
      BY <2>1, KeepRec DEF Keep
  <1>2. ASSUME NEW e
        PROVE  Keep(<<e>>, K) = IF e \in K THEN <<e>> ELSE <<>>
    <2>1. <<e>> \in Seq({e}) /\ Len(<<e>>) = 1 /\ <<e>>[1] = e
      OBVIOUS
    <2>2. PICK q : q = <<e>>
      OBVIOUS
    <2>3. q \in Seq({e}) /\ Len(q) = 1 /\ 0 \in Nat /\ 0 + 1 \in 1..Len(q) /\ q[0 + 1] = e
      BY <2>1, <2>2
    <2>4. KeepUpTo(q, K)[0] = <<>>
      BY <2>3, KeepRec
    <2>5. KeepUpTo(q, K)[0 + 1] = IF q[0 + 1] \in K
                                  THEN Append(KeepUpTo(q, K)[0], q[0 + 1])
                                  ELSE KeepUpTo(q, K)[0]
      BY <2>3, KeepRec
    <2>6. Append(<<>>, e) = <<e>> /\ 0 + 1 = 1
      OBVIOUS
    <2>7. Keep(q, K) = KeepUpTo(q, K)[1]
      BY <2>3 DEF Keep
    <2> QED
      BY <2>2, <2>3, <2>4, <2>5, <2>6, <2>7
  <1> QED
    BY <1>1, <1>2

(* Nothing is left out if everything is in the set.                        *)
LEMMA KeepAll ==
    ASSUME NEW S, NEW K, NEW q \in Seq(S), S \subseteq K
    PROVE  Keep(q, K) = q
  <1> DEFINE T == {i \in Nat : i \in 0..Len(q) => KeepUpTo(q, K)[i] = SubSeq(q, 1, i)}
  <1>1. 0 \in T
    <2>1. KeepUpTo(q, K)[0] = <<>> /\ SubSeq(q, 1, 0) = <<>>
      BY KeepRec
    <2> QED
      BY <2>1
  <1>2. ASSUME NEW i \in Nat, i \in T PROVE i + 1 \in T
    <2>1. SUFFICES ASSUME i + 1 \in 0..Len(q)
                   PROVE  KeepUpTo(q, K)[i + 1] = SubSeq(q, 1, i + 1)
      OBVIOUS
    <2>2. i + 1 \in 1..Len(q) /\ q[i + 1] \in S /\ KeepUpTo(q, K)[i] = SubSeq(q, 1, i)
      BY <1>2, <2>1
    <2>3. KeepUpTo(q, K)[i + 1] = Append(KeepUpTo(q, K)[i], q[i + 1])
      BY <2>2, KeepRec
    <2>4. SubSeq(q, 1, i + 1) = Append(SubSeq(q, 1, i), q[i + 1])
      BY <2>2
    <2> QED
      BY <2>2, <2>3, <2>4
  <1>3. Len(q) \in T
    <2> HIDE DEF T
    <2>1. \A i \in Nat : i \in T
      BY <1>1, <1>2, NatSetInduction
    <2> QED
      BY <2>1
  <1>4. SubSeq(q, 1, Len(q)) = q
    OBVIOUS
  <1> QED
    BY <1>3, <1>4 DEF Keep

(* What is kept: the elements that are in the set.                         *)
LEMMA KeepUpToSet ==
    ASSUME NEW S, NEW K, NEW q \in Seq(S)
    PROVE  \A i \in 0..Len(q) :
             ToSet(KeepUpTo(q, K)[i]) = {q[j] : j \in 1..i} \intersect K
  <1> DEFINE F(i) == KeepUpTo(q, K)[i]
             T == {i \in Nat : i \in 0..Len(q) =>
                     ToSet(F(i)) = {q[j] : j \in 1..i} \intersect K}
  <1>1. 0 \in T
    <2>1. F(0) = <<>> /\ ToSet(<<>>) = {}
      BY KeepRec DEF ToSet
    <2> QED
      BY <2>1
  <1>2. ASSUME NEW i \in Nat, i \in T PROVE i + 1 \in T
    <2>1. SUFFICES ASSUME i + 1 \in 0..Len(q)
                   PROVE  ToSet(F(i + 1)) = {q[j] : j \in 1..(i + 1)} \intersect K
      OBVIOUS
    <2>2. /\ i + 1 \in 1..Len(q) /\ i \in 0..Len(q) /\ q[i + 1] \in S /\ F(i) \in Seq(S)
          /\ ToSet(F(i)) = {q[j] : j \in 1..i} \intersect K
      BY <1>2, <2>1, KeepUpToType
    <2>3. F(i + 1) = IF q[i + 1] \in K THEN Append(F(i), q[i + 1]) ELSE F(i)
      BY <2>2, KeepRec
    <2>4. {q[j] : j \in 1..(i + 1)} = {q[j] : j \in 1..i} \union {q[i + 1]}
      <3>1. 1..(i + 1) = (1..i) \union {i + 1}
        OBVIOUS
      <3> QED
        BY <3>1
    <2>5. ToSet(Append(F(i), q[i + 1])) = ToSet(F(i)) \union {q[i + 1]}
      <3>1. PICK r \in Seq(S), x \in S : r = F(i) /\ x = q[i + 1]
        BY <2>2
      <3>2. Append(r, x) = r \o <<x>> /\ <<x>> \in Seq(S)
        BY AppendIsConcat
      <3>3. ToSet(r \o <<x>>) = ToSet(r) \union ToSet(<<x>>)
        BY <3>2, ToSetConcat
      <3> QED
        BY <3>1, <3>2, <3>3, ToSetOne
    <2> HIDE DEF F
    <2> QED
      BY <2>2, <2>3, <2>4, <2>5
  <1> HIDE DEF T
  <1>3. \A i \in Nat : i \in T
    BY <1>1, <1>2, NatSetInduction
  <1> QED
    BY <1>3 DEF T

LEMMA KeepSet ==
    ASSUME NEW S, NEW K, NEW q \in Seq(S)
    PROVE  ToSet(Keep(q, K)) = ToSet(q) \intersect K
  <1>1. ToSet(KeepUpTo(q, K)[Len(q)]) = {q[j] : j \in 1..Len(q)} \intersect K
    <2>1. PICK n \in 0..Len(q) : n = Len(q)
      BY LenProperties
    <2>2. \A i \in 0..Len(q) :
             ToSet(KeepUpTo(q, K)[i]) = {q[j] : j \in 1..i} \intersect K
      BY KeepUpToSet
    <2>3. ToSet(KeepUpTo(q, K)[n]) = {q[j] : j \in 1..n} \intersect K
      BY <2>2
    <2> QED
      BY <2>1, <2>3
  <1>2. ToSet(q) = {q[j] : j \in 1..Len(q)}
    BY DEF ToSet
  <1> QED
    BY <1>1, <1>2 DEF Keep

(* Nothing is kept twice.                                                  *)
Distinct(q) == \A i, j \in 1..Len(q) : q[i] = q[j] => i = j

LEMMA DistinctAppend ==
    ASSUME NEW S, NEW q \in Seq(S), NEW x \in S, Distinct(q), x \notin ToSet(q)
    PROVE  Distinct(Append(q, x))
  <1>1. \A i \in 1..Len(q) : q[i] # x
    BY DEF ToSet
  <1> QED
    BY <1>1 DEF Distinct

LEMMA DistinctConcat ==
    ASSUME NEW S, NEW p \in Seq(S), NEW q \in Seq(S), Distinct(p), Distinct(q),
           ToSet(p) \intersect ToSet(q) = {}
    PROVE  Distinct(p \o q)
  <1> DEFINE n == Len(p)
             r == p \o q
  <1>1. \A i \in 1..n, j \in 1..Len(q) : p[i] # q[j]
    BY DEF ToSet
  <1>2. /\ n \in Nat /\ Len(q) \in Nat /\ Len(r) = n + Len(q)
        /\ \A i \in 1..(n + Len(q)) : r[i] = IF i <= n THEN p[i] ELSE q[i - n]
    BY ConcatProperties
  <1> SUFFICES ASSUME NEW i \in 1..(n + Len(q)), NEW j \in 1..(n + Len(q)), r[i] = r[j]
               PROVE  i = j
    BY <1>2 DEF Distinct
  <1> HIDE DEF n, r
  <1>3. CASE i <= n /\ j <= n
    BY <1>2, <1>3 DEF Distinct, n
  <1>4. CASE i > n /\ j > n
    <2>1. i - n \in 1..Len(q) /\ j - n \in 1..Len(q)
      BY <1>2, <1>4
    <2>2. q[i - n] = q[j - n]
      BY <1>2, <1>4
    <2> QED
      BY <1>2, <2>1, <2>2 DEF Distinct
  <1>5. CASE i <= n /\ j > n
    <2>1. i \in 1..n /\ j - n \in 1..Len(q)
      BY <1>2, <1>5
    <2> QED
      BY <1>1, <1>2, <1>5, <2>1
  <1>6. CASE i > n /\ j <= n
    <2>1. j \in 1..n /\ i - n \in 1..Len(q)
      BY <1>2, <1>6
    <2> QED
      BY <1>1, <1>2, <1>6, <2>1
  <1> QED
    BY <1>2, <1>3, <1>4, <1>5, <1>6

LEMMA KeepDistinct ==
    ASSUME NEW S, NEW K, NEW q \in Seq(S), Distinct(q)
    PROVE  Distinct(Keep(q, K))
  <1> DEFINE F(i) == KeepUpTo(q, K)[i]
             T == {i \in Nat : i \in 0..Len(q) => Distinct(F(i))}
  <1>1. 0 \in T
    <2>1. F(0) = <<>>
      BY KeepRec
    <2> QED
      BY <2>1 DEF Distinct
  <1>2. ASSUME NEW i \in Nat, i \in T PROVE i + 1 \in T
    <2>1. SUFFICES ASSUME i + 1 \in 0..Len(q) PROVE Distinct(F(i + 1))
      OBVIOUS
    <2>2. /\ i + 1 \in 1..Len(q) /\ i \in 0..Len(q) /\ q[i + 1] \in S /\ F(i) \in Seq(S)
          /\ ToSet(F(i)) = {q[j] : j \in 1..i} \intersect K
      <3>1. i + 1 \in 1..Len(q) /\ i \in 0..Len(q) /\ q[i + 1] \in S
        BY <2>1
      <3>2. F(i) \in Seq(S)
        BY <3>1, KeepUpToType
      <3> QED
        BY <3>1, <3>2, KeepUpToSet
    <2>3. F(i + 1) = IF q[i + 1] \in K THEN Append(F(i), q[i + 1]) ELSE F(i)
      BY <2>2, KeepRec
    <2>4. q[i + 1] \notin ToSet(F(i))
      <3>1. \A j \in 1..i : j \in 1..Len(q) /\ q[j] # q[i + 1]
        BY <2>2 DEF Distinct
      <3> QED
        BY <2>2, <3>1
    <2>5. Distinct(F(i))
      BY <1>2, <2>2
    <2> HIDE DEF F
    <2> QED
      BY <2>2, <2>3, <2>4, <2>5, DistinctAppend
  <1>3. Len(q) \in T
    <2> HIDE DEF T
    <2>1. \A i \in Nat : i \in T
      BY <1>1, <1>2, NatSetInduction
    <2> QED
      BY <2>1
  <1> QED
    BY <1>3 DEF Keep

(* A sequence that holds nothing is empty, one that holds one element, and *)
(* no element twice, has just that element.                                *)
LEMMA ToSetEmpty ==
    ASSUME NEW S, NEW q \in Seq(S), ToSet(q) = {}
    PROVE  q = <<>>
  <1>1. Len(q) \in Nat /\ DOMAIN q = 1..Len(q)
    OBVIOUS
  <1>2. 1 \notin 1..Len(q)
    BY <1>1 DEF ToSet
  <1> QED
    BY <1>1, <1>2

LEMMA ToSetSingle ==
    ASSUME NEW S, NEW q \in Seq(S), Distinct(q), NEW x, ToSet(q) = {x}
    PROVE  q = <<x>>
  <1>1. Len(q) \in Nat /\ DOMAIN q = 1..Len(q)
    OBVIOUS
  <1>2. \A i \in 1..Len(q) : q[i] = x
    BY <1>1 DEF ToSet
  <1>3. Len(q) # 0
    BY <1>1 DEF ToSet
  <1>4. ~(Len(q) >= 2)
    <2>1. ASSUME Len(q) >= 2 PROVE FALSE
      <3>1. 1 \in 1..Len(q) /\ 2 \in 1..Len(q)
        BY <1>1, <2>1
      <3> QED
        BY <1>2, <3>1 DEF Distinct
    <2> QED
      BY <2>1
  <1>5. Len(q) = 1
    BY <1>1, <1>3, <1>4
  <1> QED
    BY <1>1, <1>2, <1>5

(* What is kept when one element passes, or none.                          *)
LEMMA KeepOne ==
    ASSUME NEW S, NEW K, NEW q \in Seq(S)
    PROVE  /\ ToSet(q) \intersect K = {} => Keep(q, K) = <<>>
           /\ \A x : Distinct(q) /\ ToSet(q) \intersect K = {x}
                        => Keep(q, K) = <<x>>
  <1>1. PICK r : r = Keep(q, K)
    OBVIOUS
  <1>2. r \in Seq(S) /\ ToSet(r) = ToSet(q) \intersect K
    BY <1>1, KeepType, KeepSet
  <1>3. Distinct(q) => Distinct(r)
    BY <1>1, KeepDistinct
  <1>4. ToSet(q) \intersect K = {} => r = <<>>
    BY <1>2, ToSetEmpty
  <1>5. ASSUME NEW x, Distinct(q), ToSet(q) \intersect K = {x} PROVE r = <<x>>
    BY <1>2, <1>3, <1>5, ToSetSingle
  <1> QED
    BY <1>1, <1>4, <1>5

(* What is kept when an element comes at the end, and when the first goes. *)
LEMMA KeepAppend ==
    ASSUME NEW S, NEW K, NEW q \in Seq(S), NEW x \in S
    PROVE  Keep(Append(q, x), K)
             = IF x \in K THEN Append(Keep(q, K), x) ELSE Keep(q, K)
  <1>1. Append(q, x) = q \o <<x>> /\ <<x>> \in Seq(S)
    OBVIOUS
  <1>2. PICK r : r = Keep(q, K) /\ r \in Seq(S)
    BY KeepType
  <1>3. Keep(q \o <<x>>, K) = r \o Keep(<<x>>, K)
    BY <1>1, <1>2, KeepConcat
  <1>4. Keep(<<x>>, K) = IF x \in K THEN <<x>> ELSE <<>>
    BY KeepSmall
  <1>5. r \o <<x>> = Append(r, x) /\ r \o <<>> = r
    BY <1>2
  <1> QED
    BY <1>1, <1>2, <1>3, <1>4, <1>5

LEMMA KeepTail ==
    ASSUME NEW S, NEW K, NEW q \in Seq(S), q # <<>>
    PROVE  Keep(q, K) = IF Head(q) \in K THEN <<Head(q)>> \o Keep(Tail(q), K)
                        ELSE Keep(Tail(q), K)
  <1>1. PICK h, t : h = Head(q) /\ t = Tail(q)
    OBVIOUS
  <1>2. h \in S /\ t \in Seq(S) /\ q = <<h>> \o t /\ <<h>> \in Seq(S)
    BY <1>1
  <1>3. Keep(<<h>> \o t, K) = Keep(<<h>>, K) \o Keep(t, K)
    BY <1>2, KeepConcat
  <1>4. Keep(<<h>>, K) = IF h \in K THEN <<h>> ELSE <<>>
    BY KeepSmall
  <1>5. PICK r : r = Keep(t, K) /\ r \in Seq(S)
    BY <1>2, KeepType
  <1>6. <<>> \o r = r
    BY <1>5
  <1> QED
    BY <1>1, <1>2, <1>3, <1>4, <1>5, <1>6

(* A sequence is its beginning and the rest.                               *)
LEMMA SplitAt ==
    ASSUME NEW S, NEW q \in Seq(S), NEW n \in 0..Len(q)
    PROVE  /\ SubSeq(q, 1, n) \in Seq(S) /\ SubSeq(q, n + 1, Len(q)) \in Seq(S)
           /\ q = SubSeq(q, 1, n) \o SubSeq(q, n + 1, Len(q))
           /\ ToSet(SubSeq(q, 1, n)) = {q[i] : i \in 1..n}
           /\ ToSet(SubSeq(q, n + 1, Len(q))) = {q[i] : i \in (n + 1)..Len(q)}
  <1>1. PICK p, t : p = SubSeq(q, 1, n) /\ t = SubSeq(q, n + 1, Len(q))
    OBVIOUS
  <1>2. PICK l \in Nat : l = Len(q) /\ n \in Nat /\ n <= l
    OBVIOUS
  <1>3. p \in Seq(S) /\ Len(p) = n /\ \A i \in 1..n : p[i] = q[i]
    BY <1>1, <1>2
  <1>4. t \in Seq(S) /\ Len(t) = l - n /\ \A i \in 1..(l - n) : t[i] = q[n + i]
    BY <1>1, <1>2
  <1>5. PICK u : u = p \o t
    OBVIOUS
  <1>6. /\ u \in Seq(S) /\ Len(u) = l
        /\ \A i \in 1..l : u[i] = IF i <= n THEN p[i] ELSE t[i - n]
    <2>1. /\ p \o t \in Seq(S) /\ Len(p \o t) = Len(p) + Len(t)
          /\ \A i \in 1..(Len(p) + Len(t)) :
               (p \o t)[i] = IF i <= Len(p) THEN p[i] ELSE t[i - Len(p)]
      BY <1>3, <1>4, ConcatProperties
    <2>2. Len(p) + Len(t) = l
      BY <1>2, <1>3, <1>4
    <2> QED
      BY <1>3, <1>5, <2>1, <2>2
  <1>7. ASSUME NEW i \in 1..l PROVE u[i] = q[i]
    <2>1. CASE i <= n
      BY <1>2, <1>3, <1>6, <2>1
    <2>2. CASE ~(i <= n)
      <3>1. i - n \in 1..(l - n) /\ n + (i - n) = i
        BY <1>2, <2>2
      <3>2. t[i - n] = q[i]
        BY <1>4, <3>1
      <3> QED
        BY <1>6, <2>2, <3>2
    <2> QED
      BY <2>1, <2>2
  <1>8. u = q
    BY <1>2, <1>6, <1>7, SeqEqual
  <1>9. ToSet(p) = {q[i] : i \in 1..n}
    <2>1. DOMAIN p = 1..n
      BY <1>3
    <2> QED
      BY <1>3, <2>1 DEF ToSet
  <1>10. ToSet(t) = {q[i] : i \in (n + 1)..l}
    <2>1. DOMAIN t = 1..(l - n)
      BY <1>4
    <2>2. \A i \in 1..(l - n) : n + i \in (n + 1)..l
      BY <1>2
    <2>3. \A i \in (n + 1)..l : i - n \in 1..(l - n) /\ n + (i - n) = i
      BY <1>2
    <2>4. \A x \in ToSet(t) : x \in {q[i] : i \in (n + 1)..l}
      BY <1>4, <2>1, <2>2 DEF ToSet
    <2>5. ASSUME NEW i \in (n + 1)..l PROVE q[i] \in ToSet(t)
      <3>1. t[i - n] = q[i] /\ i - n \in DOMAIN t
        BY <1>4, <2>1, <2>3
      <3> QED
        BY <3>1 DEF ToSet
    <2> QED
      BY <2>4, <2>5
  <1> QED
    BY <1>1, <1>2, <1>3, <1>4, <1>5, <1>8, <1>9, <1>10

(* What is kept of a beginning is a beginning.                             *)
LEMMA KeepSubSeq ==
    ASSUME NEW S, NEW K, NEW q \in Seq(S), NEW n \in 0..Len(q)
    PROVE  /\ SubSeq(q, 1, n) \in Seq(S)
           /\ \E r \in Seq(S) : Keep(q, K) = Keep(SubSeq(q, 1, n), K) \o r
  <1>0. /\ SubSeq(q, 1, n) \in Seq(S) /\ SubSeq(q, n + 1, Len(q)) \in Seq(S)
        /\ q = SubSeq(q, 1, n) \o SubSeq(q, n + 1, Len(q))
    BY SplitAt
  <1>1. PICK p \in Seq(S), t \in Seq(S) : p = SubSeq(q, 1, n) /\ q = p \o t
    BY <1>0, Zenon
  <1>2. Keep(p \o t, K) = Keep(p, K) \o Keep(t, K)
    BY KeepConcat
  <1>3. Keep(t, K) \in Seq(S)
    BY KeepType
  <1> QED
    BY <1>1, <1>2, <1>3
-----------------------------------------------------------------------------
(* Sequences that a relation orders.                                       *)
Ordered(q, R) == \A i, j \in 1..Len(q) : i < j => <<q[i], q[j]>> \in R

LEMMA OrderedConcat ==
    ASSUME NEW S, NEW R, NEW p \in Seq(S), NEW q \in Seq(S)
    PROVE  Ordered(p \o q, R) <=>
             /\ Ordered(p, R) /\ Ordered(q, R)
             /\ \A x \in ToSet(p), y \in ToSet(q) : <<x, y>> \in R
  <1>0. /\ Len(p) \in Nat /\ Len(q) \in Nat /\ Len(p \o q) = Len(p) + Len(q)
        /\ \A i \in 1..(Len(p) + Len(q)) :
             (p \o q)[i] = IF i <= Len(p) THEN p[i] ELSE q[i - Len(p)]
        /\ DOMAIN p = 1..Len(p) /\ DOMAIN q = 1..Len(q) /\ p \o q \in Seq(S)
    BY ConcatProperties
  <1>1. PICK n \in Nat, m \in Nat, r \in Seq(S) :
          /\ n = Len(p) /\ m = Len(q) /\ r = p \o q /\ Len(r) = n + m
          /\ \A i \in 1..(n + m) : r[i] = IF i <= n THEN p[i] ELSE q[i - n]
          /\ DOMAIN p = 1..n /\ DOMAIN q = 1..m
    BY <1>0
  <1>2. /\ \A i \in 1..n : i \in 1..(n + m) /\ r[i] = p[i]
        /\ \A j \in 1..m : n + j \in 1..(n + m) /\ r[n + j] = q[j]
    <2>1. ASSUME NEW j \in 1..m PROVE n + j \in 1..(n + m) /\ r[n + j] = q[j]
      <3>1. n + j \in 1..(n + m) /\ ~(n + j <= n) /\ (n + j) - n = j
        OBVIOUS
      <3> QED
        BY <1>1, <3>1
    <2> QED
      BY <1>1, <2>1
  <1>3. ToSet(p) = {p[i] : i \in 1..n} /\ ToSet(q) = {q[j] : j \in 1..m}
    BY <1>1 DEF ToSet
  <1>4. ASSUME Ordered(r, R)
        PROVE  /\ Ordered(p, R) /\ Ordered(q, R)
               /\ \A x \in ToSet(p), y \in ToSet(q) : <<x, y>> \in R
    <2>1. \A i, j \in 1..(n + m) : i < j => <<r[i], r[j]>> \in R
      BY <1>1, <1>4 DEF Ordered
    <2>2. Ordered(p, R)
      BY <1>1, <1>2, <2>1 DEF Ordered
    <2>3. ASSUME NEW i \in 1..m, NEW j \in 1..m, i < j PROVE <<q[i], q[j]>> \in R
      <3>1. n + i < n + j
        BY <2>3
      <3> QED
        BY <1>2, <2>1, <3>1
    <2>4. ASSUME NEW i \in 1..n, NEW j \in 1..m PROVE <<p[i], q[j]>> \in R
      <3>1. i < n + j
        OBVIOUS
      <3> QED
        BY <1>2, <2>1, <3>1
    <2> QED
      BY <1>1, <1>3, <2>2, <2>3, <2>4 DEF Ordered
  <1>5. ASSUME Ordered(p, R), Ordered(q, R),
               \A x \in ToSet(p), y \in ToSet(q) : <<x, y>> \in R
        PROVE  Ordered(r, R)
    <2> SUFFICES ASSUME NEW i \in 1..(n + m), NEW j \in 1..(n + m), i < j
                 PROVE  <<r[i], r[j]>> \in R
      BY <1>1 DEF Ordered
    <2>1. CASE j <= n
      <3>1. i \in 1..n /\ j \in 1..n
        BY <2>1
      <3> QED
        BY <1>1, <1>2, <1>5, <3>1 DEF Ordered
    <2>2. CASE ~(j <= n) /\ i <= n
      <3>1. i \in 1..n /\ j - n \in 1..m
        BY <2>2
      <3>2. r[i] = p[i] /\ r[j] = q[j - n]
        BY <1>1, <2>2
      <3> QED
        BY <1>3, <1>5, <3>1, <3>2
    <2>3. CASE ~(i <= n)
      <3>1. i - n \in 1..m /\ j - n \in 1..m /\ i - n < j - n /\ ~(j <= n)
        BY <2>3
      <3>2. r[i] = q[i - n] /\ r[j] = q[j - n]
        BY <1>1, <2>3, <3>1
      <3> QED
        BY <1>1, <1>5, <3>1, <3>2 DEF Ordered
    <2> QED
      BY <2>1, <2>2, <2>3
  <1> QED
    BY <1>1, <1>4, <1>5

(* What is kept stays in order, and is not longer.                         *)
LEMMA KeepOrdered ==
    ASSUME NEW S, NEW K, NEW R, NEW q \in Seq(S), Ordered(q, R)
    PROVE  Ordered(Keep(q, K), R)
  <1> DEFINE F(i) == KeepUpTo(q, K)[i]
             T == {i \in Nat : i \in 0..Len(q) => Ordered(F(i), R)}
  <1>1. 0 \in T
    <2>1. F(0) = <<>>
      BY KeepRec
    <2> QED
      BY <2>1 DEF Ordered
  <1>2. ASSUME NEW i \in Nat, i \in T PROVE i + 1 \in T
    <2>1. SUFFICES ASSUME i + 1 \in 0..Len(q) PROVE Ordered(F(i + 1), R)
      OBVIOUS
    <2>2. i + 1 \in 1..Len(q) /\ i \in 0..Len(q) /\ q[i + 1] \in S
      BY <2>1
    <2>3. F(i) \in Seq(S) /\ ToSet(F(i)) = {q[j] : j \in 1..i} \intersect K
      <3>1. F(i) \in Seq(S)
        BY <2>2, KeepUpToType
      <3> QED
        BY <2>2, <3>1, KeepUpToSet
    <2>4. F(i + 1) = IF q[i + 1] \in K THEN Append(F(i), q[i + 1]) ELSE F(i)
      BY <2>2, KeepRec
    <2>5. Ordered(F(i), R)
      BY <1>2, <2>2
    <2>6. Ordered(Append(F(i), q[i + 1]), R)
      <3>1. PICK r \in Seq(S), x \in S : r = F(i) /\ x = q[i + 1]
        BY <2>2, <2>3
      <3>2. Append(r, x) = r \o <<x>> /\ <<x>> \in Seq(S)
        BY AppendIsConcat
      <3>3. \A j \in 1..i : j \in 1..Len(q) /\ j < i + 1
        BY <2>2
      <3>4. \A y \in ToSet(r) : <<y, x>> \in R
        BY <2>2, <2>3, <3>1, <3>3 DEF Ordered
      <3>5. ToSet(<<x>>) = {x} /\ Ordered(<<x>>, R)
        BY ToSetOne DEF Ordered
      <3>6. Ordered(r, R)
        BY <2>5, <3>1
      <3>7. Ordered(r \o <<x>>, R)
        BY <3>2, <3>4, <3>5, <3>6, OrderedConcat
      <3> QED
        BY <3>1, <3>2, <3>7
    <2> HIDE DEF F
    <2> QED
      BY <2>4, <2>5, <2>6
  <1>3. Len(q) \in T
    <2> HIDE DEF T
    <2>1. \A i \in Nat : i \in T
      BY <1>1, <1>2, NatSetInduction
    <2> QED
      BY <2>1
  <1> QED
    BY <1>3 DEF Keep

LEMMA KeepLen ==
    ASSUME NEW S, NEW K, NEW q \in Seq(S)
    PROVE  Len(Keep(q, K)) <= Len(q)
  <1> DEFINE F(i) == KeepUpTo(q, K)[i]
             T == {i \in Nat : i \in 0..Len(q) => Len(F(i)) <= i}
  <1>1. 0 \in T
    <2>1. F(0) = <<>>
      BY KeepRec
    <2> QED
      BY <2>1
  <1>2. ASSUME NEW i \in Nat, i \in T PROVE i + 1 \in T
    <2>1. SUFFICES ASSUME i + 1 \in 0..Len(q) PROVE Len(F(i + 1)) <= i + 1
      OBVIOUS
    <2>2. i + 1 \in 1..Len(q) /\ i \in 0..Len(q) /\ q[i + 1] \in S
      BY <2>1
    <2>3. PICK r \in Seq(S) : r = F(i) /\ Len(r) <= i
      BY <1>2, <2>2, KeepUpToType
    <2>4. F(i + 1) = IF q[i + 1] \in K THEN Append(F(i), q[i + 1]) ELSE F(i)
      BY <2>2, KeepRec
    <2>5. Len(Append(r, q[i + 1])) = Len(r) + 1 /\ Len(r) \in Nat
      BY <2>2
    <2>6. \A n \in Nat : n <= i => n <= i + 1 /\ n + 1 <= i + 1
      OBVIOUS
    <2> HIDE DEF F
    <2>7. F(i + 1) = Append(r, q[i + 1]) \/ F(i + 1) = r
      BY <2>3, <2>4
    <2> QED
      BY <2>3, <2>5, <2>6, <2>7
  <1>3. Len(q) \in T
    <2> HIDE DEF T
    <2>1. \A i \in Nat : i \in T
      BY <1>1, <1>2, NatSetInduction
    <2> QED
      BY <2>1
  <1> QED
    BY <1>3 DEF Keep
=============================================================================
