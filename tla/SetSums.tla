------------------------------ MODULE SetSums ------------------------------
(***************************************************************************)
(* Sums over finite sets, as MapThenSumSet takes them, and the inductions  *)
(* on numbers that the proofs about them and about other recursive         *)
(* functions need.                                                         *)
(***************************************************************************)
EXTENDS Integers, FiniteSets, FiniteSetTheorems, WellFoundedInduction, TLAPS

(* Induction on an interval, for a property given as a set: the shortest   *)
(* interval that is not covered would not be the shortest.                 *)
LEMMA IntervalInduction ==
    ASSUME NEW n \in Nat, NEW S, 0 \in S, \A k \in 0..n : k < n /\ k \in S => k + 1 \in S
    PROVE  0..n \subseteq S
  <1>. DEFINE Bad == {T \in SUBSET (0..n) : \E k \in 0..n : k \notin S /\ T = 0..k}
  <1>1. SUFFICES ASSUME NEW k \in 0..n, k \notin S PROVE FALSE
    OBVIOUS
  <1>2. 0..k \in Bad
    BY <1>1
  <1>3. Bad \subseteq FiniteSubsetsOf(0..n)
    BY FS_Interval, FS_FiniteSubsetsOfFinite
  <1>4. PICK T \in Bad : \A U \in Bad : ~(<<U, T>> \in StrictSubsetOrdering(0..n))
    <2>. HIDE DEF Bad
    <2>. QED
      BY <1>2, <1>3, FS_StrictSubsetOrderingWellFounded, WFMin
  <1>5. PICK l \in 0..n : l \notin S /\ T = 0..l
    OBVIOUS
  <1>6. l # 0 /\ l - 1 \in 0..n /\ l - 1 < n /\ (l - 1) + 1 = l
    BY <1>5
  <1>7. l - 1 \notin S
    BY <1>5, <1>6
  <1>8. 0..(l - 1) \in Bad
    BY <1>6, <1>7
  <1>9. 0..(l - 1) \subseteq T /\ l \in T /\ l \notin 0..(l - 1)
    BY <1>5, <1>6
  <1>. QED
    BY <1>4, <1>8, <1>9 DEF StrictSubsetOrdering

(* A smallest number of a set of naturals. *)
LEMMA SmallestOf ==
    ASSUME NEW S \in SUBSET Nat, S # {}
    PROVE  \E j \in S : \A h \in S : j <= h
  <1>1. PICK n \in S : TRUE
    OBVIOUS
  <1>. DEFINE Below == {k \in Nat : \A h \in S : h >= k}
  <1>2. SUFFICES ASSUME \A j \in S : \E h \in S : ~(j <= h) PROVE FALSE
    OBVIOUS
  <1>3. 0 \in Below
    OBVIOUS
  <1>4. ASSUME NEW k \in 0..(n + 1), k < n + 1, k \in Below PROVE k + 1 \in Below
    <2>1. k \notin S
      BY <1>2, <1>4
    <2>. QED
      BY <1>4, <2>1
  <1>5. 0..(n + 1) \subseteq Below
    <2>. HIDE DEF Below
    <2>1. n + 1 \in Nat
      BY <1>1
    <2>. QED
      BY <1>3, <1>4, <2>1, IntervalInduction
  <1>6. n + 1 \in Below
    <2>1. n + 1 \in 0..(n + 1)
      BY <1>1
    <2>. QED
      BY <1>5, <2>1
  <1>. QED
    BY <1>1, <1>6

(* The largest number of a set that has a bound. *)
LEMMA LargestOf ==
    ASSUME NEW b \in Nat, NEW S \in SUBSET (0..b), S # {}
    PROVE  \E j \in S : \A h \in S : j >= h
  <1>. DEFINE Above == {k \in Nat : \A h \in S : k >= h}
  <1>1. b \in Above /\ Above \in SUBSET Nat
    OBVIOUS
  <1>2. PICK j \in Above : \A k \in Above : j <= k
    <2>. HIDE DEF Above
    <2>. QED
      BY <1>1, SmallestOf
  <1>3. j \in Nat /\ \A h \in S : j >= h
    OBVIOUS
  <1>4. CASE j \in S
    BY <1>3, <1>4
  <1>5. CASE j \notin S
    <2>1. PICK h \in S : TRUE
      OBVIOUS
    <2>2. h < j /\ h \in Nat
      BY <1>3, <1>5
    <2>3. j - 1 \in Nat /\ \A k \in S : j - 1 >= k
      BY <1>3, <1>5, <2>2
    <2>4. j - 1 \in Above
      BY <2>3
    <2>. QED
      BY <1>2, <1>3, <2>4
  <1>. QED
    BY <1>4, <1>5

-----------------------------------------------------------------------------
(* Sums                                                                    *)

PickOf(s) == CHOOSE x \in s : TRUE

(* The recursive function behind MapThenSumSet, on the subsets of S.       *)
SumsFrom(g, F, S) ==
    g = [s \in SUBSET S |->
            IF s = {} THEN 0 ELSE F[PickOf(s)] + g[s \ {PickOf(s)}]]

Sums(F, S) == CHOOSE g : SumsFrom(g, F, S)

Total(F, S) == Sums(F, S)[S]

LEMMA Smaller ==
    ASSUME NEW S, IsFiniteSet(S), NEW s \in SUBSET S
    PROVE  /\ Cardinality(s) \in Nat /\ (Cardinality(s) = 0 <=> s = {})
           /\ s # {} => PickOf(s) \in s
           /\ \A x \in s : s \ {x} \in SUBSET S /\ Cardinality(s \ {x}) = Cardinality(s) - 1
  <1>1. IsFiniteSet(s)
    BY FS_Subset
  <1>2. Cardinality(s) \in Nat /\ (Cardinality(s) = 0 <=> s = {})
    BY <1>1, FS_CardinalityType, FS_EmptySet
  <1>3. s # {} => PickOf(s) \in s
    BY DEF PickOf
  <1>. QED
    BY <1>1, <1>2, <1>3, FS_RemoveElement

(* The sums are defined, by the number of the values that are summed. *)
LEMMA SumsDefined ==
    ASSUME NEW F, NEW S, IsFiniteSet(S)
    PROVE  SumsFrom(Sums(F, S), F, S)
  <1>. DEFINE Upto(n) == {s \in SUBSET S : Cardinality(s) <= n}
              Step(g, s) == IF s = {} THEN 0
                            ELSE F[PickOf(s)] + g[s \ {PickOf(s)}]
              N == Cardinality(S)
              Ok == {n \in Nat : \E g : g = [s \in Upto(n) |-> Step(g, s)]}
  <1>1. N \in Nat
    BY FS_CardinalityType
  <1>2. 0 \in Ok
    <2>. DEFINE g == [s \in Upto(0) |-> 0]
    <2>1. \A s \in Upto(0) : s = {}
      BY Smaller
    <2>2. g = [s \in Upto(0) |-> Step(g, s)]
      BY <2>1
    <2>. QED
      BY <2>2
  <1>3. ASSUME NEW n \in 0..N, n < N, n \in Ok PROVE n + 1 \in Ok
    <2>1. PICK g : g = [s \in Upto(n) |-> Step(g, s)]
      BY <1>3
    <2>. DEFINE h == [s \in Upto(n + 1) |-> Step(g, s)]
    <2>2. ASSUME NEW s \in Upto(n + 1) PROVE h[s] = Step(h, s)
      <3>1. CASE s = {}
        BY <3>1
      <3>2. CASE s # {}
        <4>. DEFINE r == s \ {PickOf(s)}
        <4>1. r \in Upto(n) /\ r \in Upto(n + 1)
          BY <3>2, Smaller
        <4>2. h[r] = g[r]
          <5>1. g[r] = Step(g, r)
            BY <2>1, <4>1
          <5>2. h[r] = Step(g, r)
            BY <4>1
          <5>. QED
            BY <5>1, <5>2
        <4>3. h[s] = F[PickOf(s)] + g[r]
          BY <3>2
        <4>. HIDE DEF h, r
        <4>4. h[s] = F[PickOf(s)] + h[r]
          BY <4>2, <4>3
        <4>. QED
          BY <3>2, <4>4 DEF r
      <3>. QED
        BY <3>1, <3>2
    <2>3. h = [s \in Upto(n + 1) |-> h[s]]
      OBVIOUS
    <2>. HIDE DEF h
    <2>4. h = [s \in Upto(n + 1) |-> Step(h, s)]
      BY <2>2, <2>3
    <2>5. \E k : k = [s \in Upto(n + 1) |-> Step(k, s)]
      <3>. HIDE DEF Upto
      <3>. QED
        BY <2>4, Zenon
    <2>6. n + 1 \in Nat
      OBVIOUS
    <2>. QED
      BY <2>5, <2>6, Zenon
  <1>4. N \in Ok
    <2>. HIDE DEF Ok, N
    <2>. QED
      BY <1>1, <1>2, <1>3, IntervalInduction
  <1>5. Upto(N) = SUBSET S
    BY FS_Subset
  <1>6. PICK g : g = [s \in Upto(N) |-> Step(g, s)]
    BY <1>4
  <1>7. SumsFrom(g, F, S)
    BY <1>5, <1>6 DEF SumsFrom
  <1>. QED
    BY <1>7 DEF Sums

(* A sum does not depend on the order in which it is taken. *)
LEMMA SumsAnyOrder ==
    ASSUME NEW F, NEW S, IsFiniteSet(S),
           \A u \in S : F[u] \in Int
    PROVE  LET g == Sums(F, S)
           IN  /\ g[{}] = 0
               /\ \A s \in SUBSET S :
                    /\ g[s] \in Int
                    /\ \A x \in s : g[s] = F[x] + g[s \ {x}]
  <1>. DEFINE g == Sums(F, S)
              Good(s) == /\ g[s] \in Int
                         /\ \A x \in s : g[s] = F[x] + g[s \ {x}]
              N == Cardinality(S)
              Ok == {n \in Nat : \A s \in SUBSET S : Cardinality(s) <= n => Good(s)}
  <1>1. g = [s \in SUBSET S |->
                IF s = {} THEN 0 ELSE F[PickOf(s)] + g[s \ {PickOf(s)}]]
    <2>1. SumsFrom(g, F, S)
      BY SumsDefined
    <2>. HIDE DEF g
    <2>. QED
      BY <2>1 DEF SumsFrom
  <1>. HIDE DEF g
  <1>2. g[{}] = 0
    BY <1>1
  <1>3. ASSUME NEW s \in SUBSET S, s # {}
        PROVE  PickOf(s) \in s /\ g[s] = F[PickOf(s)] + g[s \ {PickOf(s)}]
    <2>1. PickOf(s) \in s
      BY <1>3, Smaller
    <2>2. g[s] = F[PickOf(s)] + g[s \ {PickOf(s)}]
      BY <1>1, <1>3
    <2>. QED
      BY <2>1, <2>2
  <1>4. N \in Nat
    BY FS_CardinalityType
  <1>5. 0 \in Ok
    <2>1. ASSUME NEW s \in SUBSET S, Cardinality(s) <= 0 PROVE Good(s)
      <3>1. s = {}
        BY <2>1, Smaller
      <3>. QED
        BY <1>2, <3>1
    <2>. QED
      BY <2>1
  <1>6. ASSUME NEW n \in 0..N, n < N, n \in Ok PROVE n + 1 \in Ok
    <2>1. ASSUME NEW s \in SUBSET S, Cardinality(s) <= n PROVE Good(s)
      BY <1>6, <2>1
    <2>2. ASSUME NEW s \in SUBSET S, Cardinality(s) <= n + 1 PROVE Good(s)
      <3>1. CASE s = {}
        BY <1>2, <3>1
      <3>2. CASE s # {}
        <4>. DEFINE y == PickOf(s)
        <4>1. y \in s /\ g[s] = F[y] + g[s \ {y}]
          BY <1>3, <3>2
        <4>. HIDE DEF y
        <4>2. ASSUME NEW x \in s
              PROVE  s \ {x} \in SUBSET S /\ Good(s \ {x}) /\ F[x] \in Int
          <5>1. s \ {x} \in SUBSET S /\ Cardinality(s \ {x}) = Cardinality(s) - 1
                /\ Cardinality(s) \in Nat
            BY Smaller
          <5>2. Cardinality(s \ {x}) <= n
            BY <2>2, <5>1
          <5>. HIDE DEF Good
          <5>. QED
            BY <2>1, <5>1, <5>2
        <4>3. g[s] \in Int
          <5>1. g[s \ {y}] \in Int /\ F[y] \in Int
            BY <4>1, <4>2
          <5>. QED
            BY <4>1, <5>1
        <4>4. ASSUME NEW x \in s PROVE g[s] = F[x] + g[s \ {x}]
          <5>1. CASE x = y
            BY <4>1, <5>1
          <5>2. CASE x # y
            <6>1. g[s \ {y}] = F[x] + g[(s \ {y}) \ {x}]
              BY <4>1, <4>2, <5>2
            <6>2. g[s \ {x}] = F[y] + g[(s \ {x}) \ {y}]
              BY <4>1, <4>2, <5>2
            <6>3. (s \ {y}) \ {x} = (s \ {x}) \ {y} /\ (s \ {x}) \ {y} \in SUBSET S
              OBVIOUS
            <6>4. g[(s \ {x}) \ {y}] \in Int
              <7>1. (s \ {x}) \ {y} \in SUBSET S
                    /\ Cardinality((s \ {x}) \ {y}) = Cardinality(s \ {x}) - 1
                    /\ Cardinality(s \ {x}) = Cardinality(s) - 1 /\ Cardinality(s) \in Nat
                <8> DEFINE r == s \ {x}
                <8>1. r \in SUBSET S /\ y \in r
                  BY <4>1, <5>2
                <8>2. Cardinality(r) = Cardinality(s) - 1 /\ Cardinality(s) \in Nat
                  BY Smaller
                <8>. HIDE DEF r
                <8>3. r \ {y} \in SUBSET S /\ Cardinality(r \ {y}) = Cardinality(r) - 1
                  BY <8>1, Smaller
                <8>. QED
                  BY <8>2, <8>3 DEF r
              <7>2. Cardinality((s \ {x}) \ {y}) <= n
                BY <2>2, <7>1
              <7>. QED
                BY <2>1, <7>1, <7>2
            <6>. DEFINE a == F[x]
                        b == F[y]
                        c == g[(s \ {x}) \ {y}]
            <6>5. a \in Int /\ b \in Int /\ c \in Int
              BY <4>1, <4>2, <6>4
            <6>6. g[s] = b + (a + c) /\ g[s \ {x}] = b + c
              BY <4>1, <6>1, <6>2, <6>3
            <6>. HIDE DEF a, b, c
            <6>7. g[s] = a + g[s \ {x}]
              BY <6>5, <6>6
            <6>. QED
              BY <6>7 DEF a
          <5>. QED
            BY <5>1, <5>2
        <4>. QED
          BY <4>3, <4>4
      <3>. QED
        BY <3>1, <3>2
    <2>3. n + 1 \in Nat
      OBVIOUS
    <2>. HIDE DEF Good
    <2>. QED
      BY <2>2, <2>3
  <1>7. N \in Ok
    <2>. HIDE DEF Ok, N
    <2>. QED
      BY <1>4, <1>5, <1>6, IntervalInduction
  <1>8. ASSUME NEW s \in SUBSET S PROVE Good(s)
    <2>1. Cardinality(s) <= N
      BY FS_Subset
    <2>. QED
      BY <1>7, <2>1
  <1>. QED
    BY <1>2, <1>8 DEF g

(* ... and only on the values that are summed. *)
LEMMA SumsAgree ==
    ASSUME NEW F, NEW S, NEW G, NEW T, IsFiniteSet(T),
           S \subseteq T, \A u \in S : F[u] = G[u]
    PROVE  Sums(F, S)[S] = Sums(G, T)[S]
  <1>. DEFINE g == Sums(F, S)
              h == Sums(G, T)
              N == Cardinality(S)
              Ok == {n \in Nat : \A s \in SUBSET S : Cardinality(s) <= n => g[s] = h[s]}
  <1>0. IsFiniteSet(S)
    BY FS_Subset
  <1>1. g = [s \in SUBSET S |->
                IF s = {} THEN 0 ELSE F[PickOf(s)] + g[s \ {PickOf(s)}]]
    <2>1. SumsFrom(g, F, S)
      BY <1>0, SumsDefined
    <2>. HIDE DEF g
    <2>. QED
      BY <2>1 DEF SumsFrom
  <1>2. h = [s \in SUBSET T |->
                IF s = {} THEN 0 ELSE G[PickOf(s)] + h[s \ {PickOf(s)}]]
    <2>1. SumsFrom(h, G, T)
      BY SumsDefined
    <2>. HIDE DEF h
    <2>. QED
      BY <2>1 DEF SumsFrom
  <1>. HIDE DEF g, h
  <1>3. g[{}] = h[{}]
    BY <1>1, <1>2
  <1>4. N \in Nat
    BY <1>0, FS_CardinalityType
  <1>5. 0 \in Ok
    <2>1. ASSUME NEW s \in SUBSET S, Cardinality(s) <= 0 PROVE s = {}
      BY <1>0, <2>1, Smaller
    <2>. QED
      BY <1>3, <2>1
  <1>6. ASSUME NEW n \in 0..N, n < N, n \in Ok PROVE n + 1 \in Ok
    <2>1. ASSUME NEW s \in SUBSET S, Cardinality(s) <= n + 1 PROVE g[s] = h[s]
      <3>1. CASE s = {}
        BY <1>3, <3>1
      <3>2. CASE s # {}
        <4>. DEFINE y == PickOf(s)
        <4>1. /\ y \in s /\ s \ {y} \in SUBSET S /\ s \in SUBSET T
              /\ Cardinality(s \ {y}) = Cardinality(s) - 1 /\ Cardinality(s) \in Nat
          BY <1>0, <3>2, Smaller
        <4>2. g[s] = F[y] + g[s \ {y}]
          BY <1>1, <3>2
        <4>3. h[s] = G[y] + h[s \ {y}]
          BY <1>2, <3>2, <4>1
        <4>. HIDE DEF y
        <4>4. Cardinality(s \ {y}) <= n
          BY <2>1, <4>1
        <4>5. g[s \ {y}] = h[s \ {y}]
          BY <1>6, <4>1, <4>4
        <4>6. F[y] = G[y]
          BY <4>1
        <4>. QED
          BY <4>2, <4>3, <4>5, <4>6
      <3>. QED
        BY <3>1, <3>2
    <2>. QED
      BY <2>1
  <1>7. N \in Ok
    <2>. HIDE DEF Ok, N
    <2>. QED
      BY <1>4, <1>5, <1>6, IntervalInduction
  <1>8. Cardinality(S) <= N
    BY <1>4
  <1>. QED
    BY <1>7, <1>8 DEF g, h

---------------------------------------------------------------------------
(* What the proofs about a sum use                                         *)

LEMMA TotalType ==
    ASSUME NEW F, NEW S, IsFiniteSet(S), \A u \in S : F[u] \in Int
    PROVE  Total(F, S) \in Int /\ Total(F, {}) = 0
  <1>1. Total(F, S) \in Int
    BY SumsAnyOrder DEF Total
  <1>2. Total(F, {}) = 0
    <2>1. IsFiniteSet({})
      BY FS_EmptySet
    <2>. QED
      BY <2>1, SumsAnyOrder DEF Total
  <1>. QED
    BY <1>1, <1>2

LEMMA TotalAgree ==
    ASSUME NEW F, NEW G, NEW S, IsFiniteSet(S), \A u \in S : F[u] = G[u]
    PROVE  Total(F, S) = Total(G, S)
  BY SumsAgree DEF Total

(* One value more. *)
OneMore(F, S, G, u) ==
    /\ IsFiniteSet(S) /\ u \notin S
    /\ \A v \in S : F[v] = G[v]
    /\ \A v \in S \cup {u} : G[v] \in Int

LEMMA TotalAdd ==
    ASSUME NEW F, NEW S, NEW G, NEW u, OneMore(F, S, G, u)
    PROVE  Total(G, S \cup {u}) = Total(F, S) + G[u]
  <1>. USE DEF OneMore
  <1>. DEFINE T == S \cup {u}
  <1>1. IsFiniteSet(T)
    BY FS_AddElement
  <1>2. Sums(F, S)[S] \in Int
    BY SumsAnyOrder
  <1>3. \A v \in T : G[v] \in Int
    OBVIOUS
  <1>4. Sums(G, T)[T] = G[u] + Sums(G, T)[T \ {u}]
    <2>1. u \in T /\ T \in SUBSET T
      OBVIOUS
    <2>. HIDE DEF T
    <2>. QED
      BY <1>1, <1>3, <2>1, SumsAnyOrder
  <1>5. T \ {u} = S
    OBVIOUS
  <1>6. Sums(F, S)[S] = Sums(G, T)[S]
    <2>1. S \subseteq T
      OBVIOUS
    <2>. HIDE DEF T
    <2>. QED
      BY <1>1, <2>1, SumsAgree
  <1>. DEFINE a == Sums(F, S)[S]
              b == G[u]
  <1>7. a \in Int /\ b \in Int /\ Sums(G, T)[T] = b + a
    BY <1>2, <1>4, <1>5, <1>6
  <1>. HIDE DEF a, b
  <1>8. Sums(G, T)[T] = a + b
    BY <1>7
  <1>. QED
    BY <1>8 DEF a, b, Total

(* ... or another one. *)
OneChanged(F, S, G, u) ==
    /\ IsFiniteSet(S) /\ u \in S
    /\ \A v \in S \ {u} : F[v] = G[v]
    /\ \A v \in S : F[v] \in Int /\ G[v] \in Int

LEMMA TotalChange ==
    ASSUME NEW F, NEW S, NEW G, NEW u, OneChanged(F, S, G, u)
    PROVE  Total(G, S) = Total(F, S) - F[u] + G[u]
  <1>. DEFINE R == S \ {u}
  <1>1. IsFiniteSet(R) /\ u \notin R /\ S = R \cup {u}
    BY FS_RemoveElement DEF OneChanged
  <1>2. \A v \in R \cup {u} : F[v] \in Int /\ G[v] \in Int
    BY DEF OneChanged
  <1>3. \A v \in R : F[v] = G[v]
    BY DEF OneChanged
  <1>. HIDE DEF R
  <1>4. Total(F, R \cup {u}) = Total(F, R) + F[u]
    <2>1. OneMore(F, R, F, u)
      BY <1>1, <1>2 DEF OneMore
    <2>. QED
      BY <2>1, TotalAdd
  <1>5. Total(G, R \cup {u}) = Total(F, R) + G[u]
    <2>1. OneMore(F, R, G, u)
      BY <1>1, <1>2, <1>3 DEF OneMore
    <2>. QED
      BY <2>1, TotalAdd
  <1>6. Total(F, R) \in Int
    BY <1>1, <1>2, TotalType
  <1>. DEFINE a == Total(F, R)
              b == F[u]
              c == G[u]
              t == Total(G, S)
              r == Total(F, S)
  <1>7. a \in Int /\ b \in Int /\ c \in Int /\ r = a + b /\ t = a + c
    BY <1>1, <1>2, <1>4, <1>5, <1>6
  <1>. HIDE DEF a, b, c, t, r
  <1>8. t = r - b + c
    BY <1>7
  <1>. QED
    BY <1>8 DEF b, c, t, r

(* No values, no total. *)
LEMMA TotalZero ==
    ASSUME NEW F, NEW S, IsFiniteSet(S), \A u \in S : F[u] = 0
    PROVE  Total(F, S) = 0
  <1>. DEFINE g == Sums(F, S)
              N == Cardinality(S)
              Ok == {n \in Nat : \A s \in SUBSET S : Cardinality(s) <= n => g[s] = 0}
  <1>1. g[{}] = 0 /\ \A s \in SUBSET S : \A x \in s : g[s] = F[x] + g[s \ {x}]
    <2>1. \A u \in S : F[u] \in Int
      OBVIOUS
    <2>. QED
      BY <2>1, SumsAnyOrder
  <1>. HIDE DEF g
  <1>2. N \in Nat
    BY FS_CardinalityType
  <1>3. 0 \in Ok
    <2>1. ASSUME NEW s \in SUBSET S, Cardinality(s) <= 0 PROVE s = {}
      BY <2>1, Smaller
    <2>. QED
      BY <1>1, <2>1
  <1>4. ASSUME NEW n \in 0..N, n < N, n \in Ok PROVE n + 1 \in Ok
    <2>1. ASSUME NEW s \in SUBSET S, Cardinality(s) <= n + 1 PROVE g[s] = 0
      <3>1. CASE s = {}
        BY <1>1, <3>1
      <3>2. CASE s # {}
        <4>1. PICK x \in s : TRUE
          BY <3>2
        <4>2. /\ s \ {x} \in SUBSET S /\ Cardinality(s \ {x}) = Cardinality(s) - 1
              /\ Cardinality(s) \in Nat
          BY Smaller
        <4>3. Cardinality(s \ {x}) <= n
          BY <2>1, <4>2
        <4>4. g[s \ {x}] = 0
          BY <1>4, <4>2, <4>3
        <4>. QED
          BY <1>1, <4>4
      <3>. QED
        BY <3>1, <3>2
    <2>. QED
      BY <2>1
  <1>5. N \in Ok
    <2>. HIDE DEF Ok, N
    <2>. QED
      BY <1>2, <1>3, <1>4, IntervalInduction
  <1>. QED
    BY <1>5, <1>2 DEF g, Total
=============================================================================
