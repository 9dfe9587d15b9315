----------------------- MODULE SerialSubmitterProofs -----------------------
(***************************************************************************)
(* Proofs about SerialSubmitter and about the prepare queue it keeps its   *)
(* operations in, for any set of origins, any number of messages and any   *)
(* number of faults.                                                       *)
(*                                                                         *)
(* The queue comes first: what the recursive functions of the binary heap  *)
(* return, what sift_up and sift_down_to_bottom make of any heap, and the  *)
(* invariant of the queue, under an order that the queue's order refines.  *)
(***************************************************************************)
EXTENDS SerialSubmitter, OpQueue, SetSums, TLAPS

-----------------------------------------------------------------------------
(* Halving, as the heap does to find a parent.                             *)
LEMMA Halves ==
    ASSUME NEW p \in Nat
    PROVE  /\ p \div 2 \in Nat /\ 2 * (p \div 2) <= p /\ p <= 2 * (p \div 2) + 1
           /\ p >= 1 => p \div 2 < p
           /\ p >= 2 => p \div 2 >= 1
           /\ (2 * p) \div 2 = p /\ (2 * p + 1) \div 2 = p
  OBVIOUS

(* The recursive function behind Ancestors. *)
PathsTo(f, n) == f = [p \in 0 .. n |-> IF p = 0 THEN {} ELSE {p} \cup f[p \div 2]]

(* Its value at each position.                                             *)
LEMMA PathsAt ==
    ASSUME NEW n \in Nat, NEW f, PathsTo(f, n)
    PROVE  \A p \in 0 .. n : f[p] = IF p = 0 THEN {} ELSE {p} \cup f[p \div 2]
  BY DEF PathsTo

(* The recursion is well founded.                                          *)
LEMMA PathsDefined ==
    ASSUME NEW n \in Nat
    PROVE  \E f : PathsTo(f, n)
  <1> DEFINE Ok == {k \in Nat : \E f : PathsTo(f, k)}
  <1>1. 0 \in Ok
    <2> DEFINE f == [p \in 0 .. 0 |-> {}]
    <2>1. \A p \in 0 .. 0 : p = 0
      OBVIOUS
    <2>2. PathsTo(f, 0)
      BY <2>1 DEF PathsTo
    <2>3. QED
      BY <2>2
  <1>2. ASSUME NEW k \in 0 .. n, k < n, k \in Ok PROVE k + 1 \in Ok
    <2>1. PICK f : PathsTo(f, k)
      BY <1>2
    <2> DEFINE g == [p \in 0 .. k + 1 |-> IF p = k + 1 THEN {p} \cup f[p \div 2] ELSE f[p]]
    <2>2. \A p \in 0 .. k + 1 : p # 0 => p \div 2 \in 0 .. k
      BY Halves
    <2>3. \A p \in 0 .. k : f[p] = IF p = 0 THEN {} ELSE {p} \cup f[p \div 2]
      BY <2>1, PathsAt
    <2>4. \A p \in 0 .. k : g[p] = f[p]
      OBVIOUS
    <2>5. ASSUME NEW p \in 0 .. k + 1
          PROVE  g[p] = IF p = 0 THEN {} ELSE {p} \cup g[p \div 2]
      <3>1. CASE p = k + 1
        BY <2>2, <2>4, <3>1
      <3>2. CASE p # k + 1
        <4>1. p \in 0 .. k /\ (p # 0 => p \div 2 \in 0 .. k)
          BY <3>2, Halves
        <4>2. g[p] = f[p] /\ (p # 0 => g[p \div 2] = f[p \div 2])
          BY <2>4, <4>1
        <4> HIDE DEF g
        <4>3. QED
          BY <2>3, <4>1, <4>2
      <3>3. QED
        BY <3>1, <3>2
    <2>6. PathsTo(g, k + 1)
      BY <2>5 DEF PathsTo
    <2>7. QED
      BY <2>6
  <1>3. 0 .. n \subseteq Ok
    <2> HIDE DEF Ok
    <2> QED
      BY <1>1, <1>2, IntervalInduction
  <1>4. QED
    BY <1>3

(* Taken further, it gives the same values.                                *)
LEMMA PathsAgree ==
    ASSUME NEW n \in Nat, NEW m \in 0 .. n, NEW f, NEW g, PathsTo(f, n), PathsTo(g, m)
    PROVE  \A p \in 0 .. m : f[p] = g[p]
  <1> DEFINE Bad == {p \in 0 .. m : f[p] # g[p]}
  <1>1. SUFFICES ASSUME Bad # {} PROVE FALSE
    OBVIOUS
  <1>2. PICK p \in Bad : \A q \in Bad : p <= q
    <2>1. Bad \in SUBSET Nat
      OBVIOUS
    <2> HIDE DEF Bad
    <2>2. QED
      BY <1>1, <2>1, SmallestOf
  <1>3. p \in 0 .. m /\ p \in 0 .. n /\ f[p] # g[p]
    BY <1>2
  <1>4. /\ f[p] = IF p = 0 THEN {} ELSE {p} \cup f[p \div 2]
        /\ g[p] = IF p = 0 THEN {} ELSE {p} \cup g[p \div 2]
    <2>1. m \in Nat
      OBVIOUS
    <2>2. \A q \in 0 .. n : f[q] = IF q = 0 THEN {} ELSE {q} \cup f[q \div 2]
      BY PathsAt
    <2>3. \A q \in 0 .. m : g[q] = IF q = 0 THEN {} ELSE {q} \cup g[q \div 2]
      BY <2>1, PathsAt
    <2>4. QED
      BY <1>3, <2>2, <2>3
  <1>5. p # 0 => p \div 2 \in 0 .. m /\ p \div 2 < p
    BY <1>3, Halves
  <1>6. p # 0 => f[p \div 2] = g[p \div 2]
    BY <1>2, <1>5
  <1>7. QED
    BY <1>3, <1>4, <1>6

(* Ancestors follows its recursion.                                        *)
LEMMA AncestorsOf ==
    ASSUME NEW i \in Nat
    PROVE  Ancestors(i) = IF i = 0 THEN {} ELSE {i} \cup Ancestors(i \div 2)
  <1> DEFINE P(n) == CHOOSE f : PathsTo(f, n)
  <1>1. \A n \in Nat : PathsTo(P(n), n)
    BY PathsDefined
  <1>2. \A n \in Nat : Ancestors(n) = P(n)[n]
    BY DEF Ancestors, PathsTo
  <1> HIDE DEF P
  <1>3. CASE i = 0
    <2>1. PathsTo(P(i), i) /\ i \in 0 .. i
      BY <1>1
    <2>2. \A q \in 0 .. i : P(i)[q] = IF q = 0 THEN {} ELSE {q} \cup P(i)[q \div 2]
      BY <2>1, PathsAt
    <2>3. QED
      BY <1>2, <1>3, <2>1, <2>2
  <1>4. CASE i # 0
    <2>1. i \div 2 \in 0 .. i /\ i \div 2 \in Nat
      BY <1>4, Halves
    <2>2. P(i)[i] = {i} \cup P(i)[i \div 2]
      <3>1. PathsTo(P(i), i) /\ i \in 0 .. i
        BY <1>1
      <3>2. \A q \in 0 .. i : P(i)[q] = IF q = 0 THEN {} ELSE {q} \cup P(i)[q \div 2]
        BY <3>1, PathsAt
      <3>3. QED
        BY <1>4, <3>1, <3>2
    <2>3. P(i)[i \div 2] = P(i \div 2)[i \div 2]
      BY <1>1, <2>1, PathsAgree
    <2>4. QED
      BY <1>2, <1>4, <2>1, <2>2, <2>3
  <1>5. QED
    BY <1>3, <1>4

(* Ancestors are a chain from i to the root. *)
Chain(A, i) ==
    /\ A \subseteq 1 .. i /\ i \in A /\ 1 \in A
    /\ \A p \in A : p # 1 => p \div 2 \in A
    /\ \A p \in A : p # i => \E c \in A : c \div 2 = p
    /\ \A p, q \in A : q < p => q <= p \div 2

(* By induction on the position.                                           *)
LEMMA AncestorsChain ==
    ASSUME NEW i \in Nat \ {0}
    PROVE  Chain(Ancestors(i), i)
  <1> DEFINE Bad == {j \in Nat \ {0} : ~Chain(Ancestors(j), j)}
  <1>1. SUFFICES ASSUME Bad # {} PROVE FALSE
    OBVIOUS
  <1>2. PICK j \in Bad : \A k \in Bad : j <= k
    <2>1. Bad \in SUBSET Nat
      OBVIOUS
    <2> HIDE DEF Bad
    <2>2. QED
      BY <1>1, <2>1, SmallestOf
  <1>3. Ancestors(j) = {j} \cup Ancestors(j \div 2)
    BY AncestorsOf
  <1>4. CASE j = 1
    <2>1. j \div 2 = 0
      BY <1>4
    <2>2. Ancestors(j) = {1}
      BY <1>3, <1>4, <2>1, AncestorsOf
    <2>3. Chain({1}, 1)
      BY DEF Chain
    <2>4. QED
      BY <1>2, <1>4, <2>2, <2>3
  <1>5. CASE j # 1
    <2> DEFINE h == j \div 2
               A == Ancestors(h)
    <2>1. h \in Nat \ {0} /\ h < j
      BY <1>5, Halves
    <2>2. Chain(A, h)
      BY <1>2, <2>1
    <2> HIDE DEF A
    <2>3. \A p \in A : p \in Nat /\ p <= h
      BY <2>1, <2>2 DEF Chain
    <2>4. Chain({j} \cup A, j)
      <3>1. {j} \cup A \subseteq 1 .. j /\ 1 \in A
        BY <2>1, <2>2 DEF Chain
      <3>2. \A p \in {j} \cup A : p # 1 => p \div 2 \in {j} \cup A
        BY <2>2 DEF Chain
      <3>3. \A p \in {j} \cup A : p # j => \E c \in {j} \cup A : c \div 2 = p
        BY <2>2 DEF Chain
      <3>4. \A p, q \in {j} \cup A : q < p => q <= p \div 2
        BY <2>1, <2>2, <2>3 DEF Chain
      <3>5. QED
        BY <3>1, <3>2, <3>3, <3>4 DEF Chain
    <2>5. QED
      BY <1>2, <1>3, <2>4 DEF A
  <1>6. QED
    BY <1>4, <1>5

(* No two positions of a chain have one parent.                            *)
LEMMA ChainTurns ==
    ASSUME NEW i \in Nat \ {0}, NEW A, Chain(A, i)
    PROVE  /\ \A p, q \in A : p \div 2 = q \div 2 => p = q
           /\ \A p \in A : p \in Nat /\ p >= 1 /\ p <= i
  <1>1. \A p \in A : p \in Nat /\ p >= 1 /\ p <= i
    BY DEF Chain
  <1>2. ASSUME NEW p \in A, NEW q \in A, p \div 2 = q \div 2, q < p PROVE FALSE
    <2>1. q <= q \div 2
      BY <1>2 DEF Chain
    <2>2. q \div 2 < q
      BY <1>1, Halves
    <2>3. q \div 2 \in Nat
      BY <1>1, Halves
    <2>4. QED
      BY <1>1, <2>1, <2>2, <2>3
  <1>3. QED
    BY <1>1, <1>2

-----------------------------------------------------------------------------
(* Where x stops on its way up, and the recursive function behind Climb.   *)
Stops(h, x, p) == p = 1 \/ ~Less(x, h[p \div 2])
ClimbTo(f, h, x, n) == f = [p \in 1 .. n |-> IF Stops(h, x, p) THEN p ELSE f[p \div 2]]

(* Its value at each position.                                             *)
LEMMA ClimbAt ==
    ASSUME NEW n \in Nat, NEW h, NEW x, NEW f, ClimbTo(f, h, x, n)
    PROVE  \A p \in 1 .. n : f[p] = IF Stops(h, x, p) THEN p ELSE f[p \div 2]
  BY DEF ClimbTo

(* The recursion is well founded.                                          *)
LEMMA ClimbDefined ==
    ASSUME NEW n \in Nat, NEW h, NEW x
    PROVE  \E f : ClimbTo(f, h, x, n)
  <1> DEFINE Ok == {k \in Nat : \E f : ClimbTo(f, h, x, k)}
  <1>1. 0 \in Ok
    <2> DEFINE f == [p \in 1 .. 0 |-> 0]
    <2>1. ClimbTo(f, h, x, 0)
      BY DEF ClimbTo
    <2>2. QED
      BY <2>1
  <1>2. ASSUME NEW k \in 0 .. n, k < n, k \in Ok PROVE k + 1 \in Ok
    <2>1. PICK f : ClimbTo(f, h, x, k)
      BY <1>2
    <2> DEFINE g == [p \in 1 .. k + 1 |-> IF p # k + 1 THEN f[p]
                                          ELSE IF Stops(h, x, p) THEN p ELSE f[p \div 2]]
    <2>2. \A p \in 1 .. k : f[p] = IF Stops(h, x, p) THEN p ELSE f[p \div 2]
      BY <2>1, ClimbAt
    <2>3. \A p \in 1 .. k : g[p] = f[p]
      OBVIOUS
    <2>4. \A p \in 1 .. k + 1 : p = 1 \/ p \div 2 \in 1 .. k
      BY Halves
    <2>5. ASSUME NEW p \in 1 .. k + 1
          PROVE  g[p] = IF Stops(h, x, p) THEN p ELSE g[p \div 2]
      <3>1. p = 1 => Stops(h, x, p)
        BY DEF Stops
      <3>2. p = 1 \/ g[p \div 2] = f[p \div 2]
        BY <2>3, <2>4
      <3>3. CASE p = k + 1
        BY <3>1, <3>2, <3>3
      <3>4. CASE p # k + 1
        <4>1. p \in 1 .. k
          BY <3>4
        <4> HIDE DEF g
        <4>2. QED
          BY <2>2, <2>3, <3>1, <3>2, <4>1
      <3>5. QED
        BY <3>3, <3>4
    <2>6. ClimbTo(g, h, x, k + 1)
      BY <2>5 DEF ClimbTo
    <2>7. QED
      BY <2>6
  <1>3. 0 .. n \subseteq Ok
    <2> HIDE DEF Ok
    <2> QED
      BY <1>1, <1>2, IntervalInduction
  <1>4. QED
    BY <1>3

(* x climbs to the first ancestor at which it stops. *)
ClimbsTo(h, x, p, top) ==
    /\ top \in Ancestors(p) /\ Stops(h, x, top)
    /\ \A q \in Ancestors(p) : q > top => Less(x, h[q \div 2])

(* Climb finds the position x climbs to.                                   *)
LEMMA ClimbStops ==
    ASSUME NEW i \in Nat \ {0}, NEW h, NEW x
    PROVE  ClimbsTo(h, x, i, Climb(h, x, i))
  <1> DEFINE f == CHOOSE f : ClimbTo(f, h, x, i)
  <1>1. ClimbTo(f, h, x, i)
    BY ClimbDefined
  <1>2. Climb(h, x, i) = f[i]
    BY DEF Climb, ClimbTo, Stops
  <1> HIDE DEF f
  <1>3. \A p \in 1 .. i : f[p] = IF Stops(h, x, p) THEN p ELSE f[p \div 2]
    BY <1>1, ClimbAt
  <1> DEFINE Bad == {p \in 1 .. i : ~ClimbsTo(h, x, p, f[p])}
  <1>4. SUFFICES ASSUME Bad # {} PROVE FALSE
    <2>1. i \in 1 .. i
      OBVIOUS
    <2>2. QED
      BY <1>2, <2>1
  <1>5. PICK p \in Bad : \A q \in Bad : p <= q
    <2>1. Bad \in SUBSET Nat
      OBVIOUS
    <2> HIDE DEF Bad
    <2>2. QED
      BY <1>4, <2>1, SmallestOf
  <1>6. p \in 1 .. i /\ ~ClimbsTo(h, x, p, f[p])
    BY <1>5
  <1>7. Ancestors(p) = {p} \cup Ancestors(p \div 2) /\ p \in Ancestors(p)
    BY <1>6, AncestorsOf
  <1>8. \A q \in Ancestors(p) : q \in Nat /\ q <= p
    BY <1>6, AncestorsChain, ChainTurns
  <1>9. CASE Stops(h, x, p)
    <2>1. f[p] = p
      BY <1>3, <1>6, <1>9
    <2>2. \A q \in Ancestors(p) : ~(q > p)
      BY <1>6, <1>8
    <2>3. QED
      BY <1>6, <1>7, <1>9, <2>1, <2>2 DEF ClimbsTo
  <1>10. CASE ~Stops(h, x, p)
    <2>1. p # 1 /\ Less(x, h[p \div 2])
      BY <1>10 DEF Stops
    <2>2. p \div 2 \in 1 .. i /\ p \div 2 < p
      BY <1>6, <2>1, Halves
    <2>3. ClimbsTo(h, x, p \div 2, f[p \div 2])
      BY <1>5, <2>2
    <2>4. f[p] = f[p \div 2]
      BY <1>3, <1>6, <1>10
    <2>5. QED
      BY <1>6, <1>7, <2>1, <2>3, <2>4 DEF ClimbsTo
  <1>11. QED
    BY <1>9, <1>10
-----------------------------------------------------------------------------
(* R is an order that the queue's order refines. *)
Orders(R) ==
    /\ \A a, b \in Op : Less(a, b) => <<a, b>> \in R
    /\ \A a, b \in Op : ~Less(a, b) => <<b, a>> \in R
    /\ \A a, b, c \in Op : <<a, b>> \in R /\ <<b, c>> \in R => <<a, c>> \in R

(* No parent in the heap comes after its child.                            *)
Ordered(R, h) == \A p \in 2 .. Len(h) : <<h[p \div 2], h[p]>> \in R

(* What sift_up does, position by position.                                *)
LEMMA SiftUpIs ==
    ASSUME NEW h \in Seq(Op), NEW x \in Op, NEW i \in 1 .. Len(h)
    PROVE  LET top == Climb(h, x, i)
               A == Ancestors(i)
               r == SiftUp(h, x, i)
           IN  /\ Chain(A, i) /\ ClimbsTo(h, x, i, top)
               /\ Len(h) \in Nat /\ \A p \in 1 .. Len(h) : h[p] \in Op
               /\ r \in Seq(Op) /\ Len(r) = Len(h)
               /\ \A p \in 1 .. Len(h) : r[p] = IF p = top THEN x
                                                ELSE IF p \in A /\ p > top THEN h[p \div 2]
                                                ELSE h[p]
  <1> DEFINE top == Climb(h, x, i)
             A == Ancestors(i)
             r == SiftUp(h, x, i)
  <1>1. Chain(A, i) /\ ClimbsTo(h, x, i, top)
    BY AncestorsChain, ClimbStops
  <1>2. Len(h) \in Nat /\ DOMAIN h = 1 .. Len(h) /\ \A p \in 1 .. Len(h) : h[p] \in Op
    OBVIOUS
  <1>3. \A p \in 1 .. Len(h) : p \in A /\ p > top => p \div 2 \in 1 .. Len(h)
    <2>1. ASSUME NEW p \in 1 .. Len(h), p \in A, p > top PROVE p \div 2 \in 1 .. Len(h)
      <3>1. top \in Nat /\ top >= 1
        BY <1>1, ChainTurns DEF ClimbsTo
      <3>2. p # 1
        BY <2>1, <3>1
      <3>3. QED
        BY <2>1, <3>2, Halves
    <2>2. QED
      BY <2>1
  <1>4. r = [p \in 1 .. Len(h) |-> IF p = top THEN x
                                   ELSE IF p \in A /\ p > top THEN h[p \div 2]
                                   ELSE h[p]]
    BY <1>2 DEF SiftUp
  <1> HIDE DEF r, top, A
  <1>5. \A p \in 1 .. Len(h) : r[p] = IF p = top THEN x
                                      ELSE IF p \in A /\ p > top THEN h[p \div 2]
                                      ELSE h[p]
    BY <1>4
  <1>6. \A p \in 1 .. Len(h) : r[p] \in Op
    BY <1>2, <1>3, <1>5
  <1>7. r \in [1 .. Len(h) -> Op]
    BY <1>4, <1>6
  <1>8. r \in Seq(Op) /\ Len(r) = Len(h)
    BY <1>2, <1>7
  <1>9. QED
    BY <1>1, <1>2, <1>5, <1>8 DEF r, top, A
(* An order that holds but at the free position i, a leaf, holds when x    *)
(* has climbed from there.                                                 *)
LEMMA SiftUpOrdered ==
    ASSUME NEW h \in Seq(Op), NEW x \in Op, NEW i \in 1 .. Len(h), NEW R, Orders(R),
           2 * i > Len(h),
           \A p \in 2 .. Len(h) : p # i => <<h[p \div 2], h[p]>> \in R
    PROVE  Ordered(R, SiftUp(h, x, i))
  <1> DEFINE top == Climb(h, x, i)
             A == Ancestors(i)
             r == SiftUp(h, x, i)
             n == Len(h)
  <1>1. /\ Chain(A, i) /\ ClimbsTo(h, x, i, top)
        /\ n \in Nat /\ \A p \in 1 .. n : h[p] \in Op
        /\ Len(r) = n
        /\ \A p \in 1 .. n : r[p] = IF p = top THEN x
                                    ELSE IF p \in A /\ p > top THEN h[p \div 2]
                                    ELSE h[p]
    BY SiftUpIs
  <1>2. /\ top \in A /\ Stops(h, x, top) /\ \A q \in A : q > top => Less(x, h[q \div 2])
        /\ i \in A
    BY <1>1 DEF ClimbsTo, Chain
  <1>3. \A p \in A : p \in Nat /\ p >= 1 /\ p <= i
    BY <1>1, ChainTurns
  <1> HIDE DEF r, top, A
  <1>4. \A p \in 2 .. n : p \div 2 \in 1 .. n /\ p \div 2 < p /\ 2 * (p \div 2) <= p
    BY <1>1, Halves
  <1>5. ASSUME NEW p \in 2 .. n PROVE <<r[p \div 2], r[p]>> \in R
    <2> DEFINE q == p \div 2
    <2>1. p \in 1 .. n /\ q \in 1 .. n /\ q < p /\ 2 * q <= n /\ q # i
      BY <1>1, <1>4
    <2>2. p \in A => q \in A
      <3>1. p # 1
        OBVIOUS
      <3>2. QED
        BY <1>1, <3>1 DEF Chain
    <2>3. q # 1 => q \in 2 .. n
      BY <2>1
    <2>4. h[q] \in Op /\ h[p] \in Op
      BY <1>1, <2>1
    <2>5. p # i => <<h[q], h[p]>> \in R
      OBVIOUS
    <2>6. q # 1 => <<h[q \div 2], h[q]>> \in R /\ h[q \div 2] \in Op
      BY <1>1, <1>4, <2>1, <2>3
    <2>8. /\ r[p] = IF p = top THEN x ELSE IF p \in A /\ p > top THEN h[q] ELSE h[p]
          /\ r[q] = IF q = top THEN x ELSE IF q \in A /\ q > top THEN h[q \div 2] ELSE h[q]
      BY <1>1, <2>1
    <2>9. top \in Nat /\ top >= 1 /\ top <= i
      BY <1>2, <1>3
    <2> HIDE DEF q
    <2>10. CASE p = top
      <3>1. r[p] = x /\ r[q] = h[q]
        BY <2>1, <2>8, <2>9, <2>10
      <3>2. ~Less(x, h[q])
        <4>1. p # 1
          OBVIOUS
        <4>2. QED
          BY <1>2, <2>10, <4>1 DEF Stops, q
      <3>3. QED
        BY <2>4, <3>1, <3>2 DEF Orders, q
    <2>11. CASE p \in A /\ p > top
      <3>1. r[p] = h[q] /\ q \in A /\ q >= top
        <4>1. top <= p \div 2
          BY <1>1, <1>2, <2>11 DEF Chain
        <4>2. QED
          BY <2>2, <2>8, <2>9, <2>11, <4>1 DEF q
      <3>2. CASE q = top
        <4>1. Less(x, h[q])
          BY <1>2, <2>11 DEF q
        <4>2. QED
          BY <2>4, <2>8, <3>1, <3>2, <4>1 DEF Orders, q
      <3>3. CASE q # top
        <4>1. q > top /\ q # 1
          BY <2>1, <2>9, <3>1, <3>3
        <4>2. r[q] = h[q \div 2]
          BY <2>8, <3>1, <3>3, <4>1
        <4>3. QED
          BY <2>6, <3>1, <4>1, <4>2 DEF q
      <3>4. QED
        BY <3>2, <3>3
    <2>12. CASE p \in A /\ p < top
      <3>1. r[p] = h[p] /\ r[q] = h[q] /\ p # i
        BY <2>1, <2>8, <2>9, <2>12
      <3>2. QED
        BY <2>5, <3>1 DEF q
    <2>13. CASE p \notin A
      <3>1. r[p] = h[p] /\ p # i
        BY <1>2, <2>8, <2>13
      <3>2. CASE q = top
        <4>1. PICK c \in A : c \div 2 = top
          BY <1>1, <1>2, <2>1, <3>2 DEF Chain
        <4>2. c > top
          BY <1>3, <4>1, <2>9, Halves
        <4>3. Less(x, h[q])
          BY <1>2, <3>2, <4>1, <4>2
        <4>4. <<x, h[q]>> \in R
          BY <2>4, <4>3 DEF Orders
        <4>5. <<x, h[p]>> \in R
          BY <2>4, <2>5, <3>1, <4>4 DEF Orders
        <4>6. QED
          BY <2>8, <3>1, <3>2, <4>5 DEF q
      <3>3. CASE q # top /\ q \in A /\ q > top
        <4>1. q # 1 /\ r[q] = h[q \div 2]
          BY <2>8, <2>9, <3>3
        <4>2. <<h[q \div 2], h[p]>> \in R
          BY <2>4, <2>5, <2>6, <3>1, <4>1 DEF Orders
        <4>3. QED
          BY <3>1, <4>1, <4>2 DEF q
      <3>4. CASE q # top /\ ~(q \in A /\ q > top)
        BY <2>5, <2>8, <3>1, <3>4 DEF q
      <3>5. QED
        BY <3>2, <3>3, <3>4
    <2>14. QED
      BY <1>3, <2>9, <2>10, <2>11, <2>12, <2>13
  <1>6. QED
    BY <1>1, <1>5 DEF Ordered, r

(* Every element of r is the element of h at a position of S, and no two   *)
(* are the element at the same one.                                        *)
Draws(r, h, S) ==
    \E g \in [1 .. Len(r) -> S] :
        /\ \A p, q \in 1 .. Len(r) : g[p] = g[q] => p = q
        /\ \A p \in 1 .. Len(r) : r[p] = h[g[p]]

(* Drawing from what was drawn.                                            *)
LEMMA DrawsFromDraws ==
    ASSUME NEW r, NEW m, NEW h, NEW S, Len(m) \in Nat,
           Draws(r, m, 1 .. Len(m)), Draws(m, h, S)
    PROVE  Draws(r, h, S)
  <1>1. PICK f \in [1 .. Len(r) -> 1 .. Len(m)] :
            /\ \A p, q \in 1 .. Len(r) : f[p] = f[q] => p = q
            /\ \A p \in 1 .. Len(r) : r[p] = m[f[p]]
    BY DEF Draws
  <1>2. PICK g \in [1 .. Len(m) -> S] :
            /\ \A p, q \in 1 .. Len(m) : g[p] = g[q] => p = q
            /\ \A p \in 1 .. Len(m) : m[p] = h[g[p]]
    BY DEF Draws
  <1> DEFINE k == [p \in 1 .. Len(r) |-> g[f[p]]]
  <1>3. \A p \in 1 .. Len(r) : f[p] \in 1 .. Len(m)
    BY <1>1
  <1>4. k \in [1 .. Len(r) -> S] /\ \A p \in 1 .. Len(r) : k[p] = g[f[p]]
    BY <1>2, <1>3
  <1> HIDE DEF k
  <1>5. \A p, q \in 1 .. Len(r) : k[p] = k[q] => p = q
    BY <1>1, <1>2, <1>3, <1>4
  <1>6. \A p \in 1 .. Len(r) : r[p] = h[k[p]]
    BY <1>1, <1>2, <1>3, <1>4
  <1>7. QED
    BY <1>4, <1>5, <1>6 DEF Draws

(* Sifting up moves the elements, with x in place of the one at i. *)
LEMMA SiftUpHolds ==
    ASSUME NEW h \in Seq(Op), NEW x \in Op, NEW i \in 1 .. Len(h)
    PROVE  Draws(SiftUp(h, x, i), [h EXCEPT ![i] = x], 1 .. Len(h))
  <1> DEFINE top == Climb(h, x, i)
             A == Ancestors(i)
             r == SiftUp(h, x, i)
             n == Len(h)
             m == [h EXCEPT ![i] = x]
  <1>1. /\ Chain(A, i) /\ ClimbsTo(h, x, i, top)
        /\ n \in Nat
        /\ Len(r) = n
        /\ \A p \in 1 .. n : r[p] = IF p = top THEN x
                                    ELSE IF p \in A /\ p > top THEN h[p \div 2]
                                    ELSE h[p]
    BY SiftUpIs
  <1>2. top \in A /\ i \in A
    BY <1>1 DEF ClimbsTo, Chain
  <1>3. \A p \in A : p \in Nat /\ p >= 1 /\ p <= i
    BY <1>1, ChainTurns
  <1>4. \A p, q \in A : p \div 2 = q \div 2 => p = q
    BY <1>1, ChainTurns
  <1>5. m[i] = x /\ \A p \in 1 .. n : p # i => m[p] = h[p]
    BY <1>1
  <1> HIDE DEF r, top, A, m
  <1>6. ASSUME NEW p \in A, p > top
        PROVE  p \div 2 \in A /\ p \div 2 \in 1 .. n /\ p \div 2 < p /\ p \div 2 # i /\ p \div 2 >= top
    <2>1. p # 1
      BY <1>2, <1>3, <1>6
    <2>2. p \div 2 \in A /\ top <= p \div 2
      BY <1>1, <1>2, <1>6, <2>1 DEF Chain
    <2>3. p \div 2 < p
      BY <1>3, Halves
    <2>4. QED
      BY <1>3, <2>2, <2>3
  <1> DEFINE g == [p \in 1 .. n |-> IF p = top THEN i
                                    ELSE IF p \in A /\ p > top THEN p \div 2
                                    ELSE p]
  <1>7. g \in [1 .. n -> 1 .. n]
    BY <1>6
  <1>8. \A p \in 1 .. n : g[p] = IF p = top THEN i
                                 ELSE IF p \in A /\ p > top THEN p \div 2
                                 ELSE p
    OBVIOUS
  <1> HIDE DEF g
  <1>9. ASSUME NEW p \in 1 .. n PROVE r[p] = m[g[p]]
    <2>1. CASE p = top
      BY <1>1, <1>5, <1>8, <2>1
    <2>2. CASE p \in A /\ p > top
      BY <1>1, <1>2, <1>3, <1>5, <1>6, <1>8, <2>2
    <2>3. CASE p # top /\ ~(p \in A /\ p > top)
      <3>1. p # i
        BY <1>2, <1>3, <2>3
      <3>2. QED
        BY <1>1, <1>5, <1>8, <2>3, <3>1
    <2>4. QED
      BY <1>2, <1>3, <2>1, <2>2, <2>3
  <1>10. ASSUME NEW p \in 1 .. n, NEW q \in 1 .. n, g[p] = g[q] PROVE p = q
    <2> DEFINE On(k) == k \in A /\ k > top
               Off(k) == k # top /\ ~On(k)
    <2>1. \A k \in 1 .. n : On(k) => g[k] = k \div 2 /\ g[k] \in A /\ g[k] # i /\ g[k] >= top
      BY <1>2, <1>3, <1>6, <1>8
    <2>2. \A k \in 1 .. n : Off(k) => g[k] = k /\ k # i
      BY <1>2, <1>3, <1>8
    <2>3. \A k \in 1 .. n : k = top => g[k] = i
      BY <1>8
    <2>4. \A k, l \in 1 .. n : On(k) /\ Off(l) => g[k] # g[l]
      BY <1>2, <1>3, <2>1, <2>2
    <2>5. On(p) /\ On(q) => p = q
      BY <1>4, <1>10, <2>1
    <2>6. Off(p) /\ Off(q) => p = q
      BY <1>10, <2>2
    <2>7. p = top \/ On(p) \/ Off(p)
      OBVIOUS
    <2>8. q = top \/ On(q) \/ Off(q)
      OBVIOUS
    <2> HIDE DEF On, Off
    <2>9. QED
      BY <1>10, <2>1, <2>2, <2>3, <2>4, <2>5, <2>6, <2>7, <2>8
  <1>11. Draws(r, m, 1 .. n)
    BY <1>1, <1>7, <1>9, <1>10 DEF Draws
  <1>12. QED
    BY <1>11 DEF r, m

-----------------------------------------------------------------------------
(* The smaller child is a child, and not after its sibling. *)
LEMMA SmallerChildIs ==
    ASSUME NEW h \in Seq(Op), NEW p \in 1 .. Len(h), 2 * p <= Len(h)
    PROVE  LET c == SmallerChild(h, p)
           IN  /\ c \in 2 .. Len(h) /\ c \div 2 = p /\ c > p
               /\ \A R : Orders(R) => \A k \in 2 .. Len(h) : k \div 2 = p => <<h[c], h[k]>> \in R
  <1> DEFINE c == SmallerChild(h, p)
             n == Len(h)
  <1>1. n \in Nat /\ \A k \in 1 .. n : h[k] \in Op
    OBVIOUS
  <1>2. c = 2 * p \/ (2 * p # n /\ c = 2 * p + 1)
    BY DEF SmallerChild
  <1> HIDE DEF c
  <1>3. c \in 2 .. n /\ c \div 2 = p /\ c > p
    <2>1. p \in Nat /\ p >= 1 /\ (2 * p) \div 2 = p /\ (2 * p + 1) \div 2 = p
      BY Halves
    <2>2. CASE c = 2 * p
      <3>1. c \div 2 = p
        BY <2>1, <2>2
      <3>2. QED
        BY <1>1, <2>1, <2>2, <3>1
    <2>3. CASE 2 * p # n /\ c = 2 * p + 1
      <3>1. c \div 2 = p
        BY <2>1, <2>3
      <3>2. QED
        BY <1>1, <2>1, <2>3, <3>1
    <2>4. QED
      BY <1>2, <2>2, <2>3
  <1>4. ASSUME NEW R, Orders(R), NEW k \in 2 .. n, k \div 2 = p PROVE <<h[c], h[k]>> \in R
    <2>1. h[c] \in Op /\ h[k] \in Op
      BY <1>1, <1>3
    <2>2. k = 2 * p \/ k = 2 * p + 1
      BY <1>1, <1>4, Halves
    <2>3. CASE c = k
      BY <1>4, <2>1, <2>3 DEF Orders
    <2>4. CASE c # k /\ c = 2 * p
      <3>1. k = 2 * p + 1 /\ 2 * p # n
        BY <1>1, <2>2, <2>4
      <3>2. Less(h[2 * p], h[2 * p + 1])
        <4>1. c # 2 * p + 1
          BY <2>4
        <4>2. QED
          BY <3>1, <4>1 DEF SmallerChild, c
      <3>3. QED
        BY <1>4, <2>1, <2>4, <3>1, <3>2 DEF Orders
    <2>5. CASE c # k /\ c # 2 * p
      <3>1. k = 2 * p /\ c = 2 * p + 1
        BY <1>2, <2>2, <2>5
      <3>2. ~Less(h[2 * p], h[2 * p + 1])
        BY <2>5 DEF SmallerChild, c
      <3>3. QED
        BY <1>4, <2>1, <3>1, <3>2 DEF Orders
    <2>6. QED
      BY <2>3, <2>4, <2>5
  <1>5. QED
    BY <1>3, <1>4 DEF c

(* The recursive function behind the bottom SiftDownToBottom reaches. *)
DownFrom(f, h, m) ==
    f = [p \in m .. Len(h) |-> IF 2 * p > Len(h) THEN p ELSE f[SmallerChild(h, p)]]

(* Its value at each position.                                             *)
LEMMA DownAt ==
    ASSUME NEW h, NEW m, NEW f, DownFrom(f, h, m)
    PROVE  \A p \in m .. Len(h) : f[p] = IF 2 * p > Len(h) THEN p ELSE f[SmallerChild(h, p)]
  BY DEF DownFrom

(* The recursion is well founded, from the end of the heap to the root.    *)
LEMMA DownDefined ==
    ASSUME NEW h \in Seq(Op), Len(h) >= 1
    PROVE  \E f : DownFrom(f, h, 1)
  <1> DEFINE n == Len(h)
             Ok == {k \in Nat : \E f : DownFrom(f, h, n + 1 - k)}
  <1>0. n \in Nat
    OBVIOUS
  <1>1. 0 \in Ok
    <2> DEFINE f == [p \in n + 1 .. n |-> 0]
    <2>1. DownFrom(f, h, n + 1)
      BY <1>0 DEF DownFrom
    <2>2. n + 1 - 0 = n + 1
      BY <1>0
    <2>3. QED
      BY <2>1, <2>2
  <1>2. ASSUME NEW k \in 0 .. n, k < n, k \in Ok PROVE k + 1 \in Ok
    <2> DEFINE m == n + 1 - k
    <2>1. PICK f : DownFrom(f, h, m)
      BY <1>2
    <2> DEFINE g == [p \in m - 1 .. n |->
                        IF p # m - 1 THEN f[p]
                        ELSE IF 2 * p > n THEN p ELSE f[SmallerChild(h, p)]]
    <2>2. m \in Nat /\ m - 1 \in 1 .. n
      BY <1>0, <1>2
    <2> HIDE DEF m
    <2>3. \A p \in m .. n : f[p] = IF 2 * p > n THEN p ELSE f[SmallerChild(h, p)]
      BY <2>1, DownAt
    <2>4. \A p \in m .. n : g[p] = f[p]
      BY <1>0, <2>2
    <2>5. \A p \in m - 1 .. n : 2 * p <= n => SmallerChild(h, p) \in m .. n
      <3>1. ASSUME NEW p \in m - 1 .. n, 2 * p <= n PROVE SmallerChild(h, p) \in m .. n
        <4>1. p \in 1 .. n
          BY <1>0, <2>2, <3>1
        <4>2. SmallerChild(h, p) \in 2 .. n /\ SmallerChild(h, p) > p
          BY <3>1, <4>1, SmallerChildIs
        <4>3. QED
          BY <1>0, <2>2, <4>2
      <3>2. QED
        BY <3>1
    <2>6. ASSUME NEW p \in m - 1 .. n
          PROVE  g[p] = IF 2 * p > n THEN p ELSE g[SmallerChild(h, p)]
      <3>1. 2 * p <= n => g[SmallerChild(h, p)] = f[SmallerChild(h, p)]
        BY <2>4, <2>5, <2>6
      <3>2. CASE p = m - 1
        <4>1. g[p] = IF 2 * p > n THEN p ELSE f[SmallerChild(h, p)]
          BY <3>2
        <4> HIDE DEF g
        <4>2. QED
          BY <1>0, <2>2, <3>1, <4>1
      <3>3. CASE p # m - 1
        <4>1. p \in m .. n
          BY <1>0, <2>2, <3>3
        <4>2. g[p] = f[p]
          BY <2>4, <4>1
        <4>3. f[p] = IF 2 * p > n THEN p ELSE f[SmallerChild(h, p)]
          BY <2>3, <4>1
        <4> HIDE DEF g
        <4>4. QED
          BY <1>0, <2>2, <3>1, <4>1, <4>2, <4>3
      <3>4. QED
        BY <3>2, <3>3
    <2>7. DownFrom(g, h, m - 1)
      BY <2>6 DEF DownFrom
    <2>8. m - 1 = n + 1 - (k + 1)
      BY <1>0, <1>2 DEF m
    <2>9. QED
      BY <1>2, <2>7, <2>8
  <1>3. 0 .. n \subseteq Ok
    <2> HIDE DEF Ok
    <2> QED
      BY <1>0, <1>1, <1>2, IntervalInduction
  <1>4. n \in Ok /\ n + 1 - n = 1
    BY <1>0, <1>3
  <1>5. QED
    BY <1>4

(* The hole falls from p along smaller children to a leaf. *)
FallsTo(h, p, b) ==
    /\ b \in 1 .. Len(h) /\ 2 * b > Len(h)
    /\ p \in Ancestors(b)
    /\ \A q \in Ancestors(b) : q >= p /\ q # b => SmallerChild(h, q) \in Ancestors(b)

(* The hole does fall that way.                                            *)
LEMMA DownFalls ==
    ASSUME NEW h \in Seq(Op), Len(h) >= 1, NEW f, DownFrom(f, h, 1)
    PROVE  FallsTo(h, 1, f[1])
  <1> DEFINE n == Len(h)
             Bad == {p \in 1 .. n : ~FallsTo(h, p, f[p])}
  <1>0. n \in Nat /\ 1 \in 1 .. n
    OBVIOUS
  <1>1. \A p \in 1 .. n : f[p] = IF 2 * p > n THEN p ELSE f[SmallerChild(h, p)]
    BY DownAt
  <1>2. SUFFICES ASSUME Bad # {} PROVE FALSE
    BY <1>0
  <1>3. PICK p \in Bad : \A q \in Bad : p >= q
    <2>1. Bad \in SUBSET (0 .. n)
      OBVIOUS
    <2> HIDE DEF Bad
    <2>2. QED
      BY <1>0, <1>2, <2>1, LargestOf
  <1>4. p \in 1 .. n /\ ~FallsTo(h, p, f[p])
    BY <1>3
  <1>5. CASE 2 * p > n
    <2>1. f[p] = p
      BY <1>1, <1>4, <1>5
    <2>2. p \in Ancestors(p) /\ \A q \in Ancestors(p) : q \in Nat /\ q <= p
      BY <1>4, AncestorsChain, ChainTurns DEF Chain
    <2>3. \A q \in Ancestors(p) : ~(q >= p /\ q # p)
      BY <1>4, <2>2
    <2>4. QED
      BY <1>4, <1>5, <2>1, <2>2, <2>3 DEF FallsTo
  <1>6. CASE ~(2 * p > n)
    <2> DEFINE c == SmallerChild(h, p)
               B == Ancestors(f[p])
    <2>1. c \in 2 .. n /\ c \div 2 = p /\ c > p
      BY <1>0, <1>4, <1>6, SmallerChildIs
    <2> HIDE DEF c
    <2>2. f[p] = f[c]
      BY <1>1, <1>4, <1>6 DEF c
    <2>3. FallsTo(h, c, f[p])
      BY <1>0, <1>3, <1>4, <2>1, <2>2
    <2>4. Chain(B, f[p]) /\ \A q \in B : q \in Nat
      BY <1>0, <2>3, AncestorsChain, ChainTurns DEF FallsTo
    <2>5. c \in B
      BY <2>3 DEF FallsTo
    <2>6. p \in B
      <3>1. c # 1
        BY <2>1
      <3>2. QED
        BY <2>1, <2>4, <2>5, <3>1 DEF Chain
    <2>7. ASSUME NEW q \in B, q >= p, q # f[p] PROVE SmallerChild(h, q) \in B
      <3>1. CASE q >= c
        BY <2>3, <2>7, <3>1 DEF FallsTo
      <3>2. CASE ~(q >= c)
        <4>1. q <= c \div 2
          BY <2>1, <2>4, <2>5, <3>2 DEF Chain
        <4>2. q = p
          BY <1>4, <2>1, <2>4, <2>7, <4>1
        <4>3. QED
          BY <2>5, <4>2 DEF c
      <3>3. QED
        BY <3>1, <3>2
    <2>8. QED
      BY <1>4, <2>3, <2>6, <2>7 DEF FallsTo
  <1>7. QED
    BY <1>5, <1>6

(* What sift_down_to_bottom gives back to sift_up: the smaller children on *)
(* the hole's path moved up by one.                                        *)
Moved(h, b) ==
    [p \in 1 .. Len(h) |->
        IF p \in Ancestors(b) /\ p # b THEN h[SmallerChild(h, p)] ELSE h[p]]

(* sift_down_to_bottom, in these terms.                                    *)
LEMMA SiftDownIs ==
    ASSUME NEW h \in Seq(Op), Len(h) >= 1
    PROVE  \E b : /\ FallsTo(h, 1, b)
                  /\ SiftDownToBottom(h) = SiftUp(Moved(h, b), h[1], b)
  <1> DEFINE f == CHOOSE f : DownFrom(f, h, 1)
  <1>1. DownFrom(f, h, 1)
    BY DownDefined
  <1>2. SiftDownToBottom(h) = SiftUp(Moved(h, f[1]), h[1], f[1])
    BY DEF SiftDownToBottom, Moved, DownFrom
  <1> HIDE DEF f
  <1>3. FallsTo(h, 1, f[1])
    BY <1>1, DownFalls
  <1>4. QED
    BY <1>2, <1>3

(* What moves up is on the hole's path; the rest stays.                    *)
LEMMA MovedIs ==
    ASSUME NEW h \in Seq(Op), NEW b, FallsTo(h, 1, b)
    PROVE  LET A == Ancestors(b)
               m == Moved(h, b)
           IN  /\ b \in 1 .. Len(h) /\ Chain(A, b) /\ Len(h) \in Nat
               /\ m \in Seq(Op) /\ Len(m) = Len(h)
               /\ \A p \in 1 .. Len(h) : h[p] \in Op
               /\ \A p \in 1 .. Len(h) :
                     m[p] = IF p \in A /\ p # b THEN h[SmallerChild(h, p)] ELSE h[p]
               /\ \A p \in A : p # b =>
                     /\ p \in 1 .. Len(h) /\ 2 * p <= Len(h)
                     /\ SmallerChild(h, p) \in A /\ SmallerChild(h, p) \in 2 .. Len(h)
                     /\ SmallerChild(h, p) \div 2 = p
  <1> DEFINE A == Ancestors(b)
             n == Len(h)
             m == Moved(h, b)
  <1>1. b \in 1 .. n /\ n \in Nat /\ \A p \in 1 .. n : h[p] \in Op
    BY DEF FallsTo
  <1>2. Chain(A, b) /\ \A p \in A : p \in Nat /\ p >= 1 /\ p <= b
    BY <1>1, AncestorsChain, ChainTurns
  <1>3. ASSUME NEW p \in A, p # b
        PROVE  /\ p \in 1 .. n /\ 2 * p <= n
               /\ SmallerChild(h, p) \in A /\ SmallerChild(h, p) \in 2 .. n
               /\ SmallerChild(h, p) \div 2 = p
    <2>1. PICK c \in A : c \div 2 = p
      BY <1>2, <1>3 DEF Chain
    <2>2. p \in 1 .. n /\ 2 * p <= n
      BY <1>1, <1>2, <2>1, Halves
    <2>3. SmallerChild(h, p) \in A
      BY <1>2, <1>3 DEF FallsTo
    <2>4. QED
      BY <2>2, <2>3, SmallerChildIs
  <1>4. m = [p \in 1 .. n |-> IF p \in A /\ p # b THEN h[SmallerChild(h, p)] ELSE h[p]]
    BY DEF Moved
  <1> HIDE DEF m, A
  <1>5. \A p \in 1 .. n : m[p] = IF p \in A /\ p # b THEN h[SmallerChild(h, p)] ELSE h[p]
    BY <1>4
  <1>6. \A p \in 1 .. n : m[p] \in Op
    BY <1>1, <1>3, <1>5
  <1>7. m \in [1 .. n -> Op]
    BY <1>4, <1>6
  <1>8. m \in Seq(Op) /\ Len(m) = n
    BY <1>1, <1>7
  <1>9. QED
    BY <1>1, <1>2, <1>3, <1>5, <1>8 DEF m, A

(* An order that holds below the root's children holds when the root has   *)
(* fallen to the bottom and climbed back.                                  *)
LEMMA SiftDownOrdered ==
    ASSUME NEW h \in Seq(Op), Len(h) >= 1, NEW R, Orders(R),
           \A p \in 2 .. Len(h) : p \div 2 # 1 => <<h[p \div 2], h[p]>> \in R
    PROVE  /\ Ordered(R, SiftDownToBottom(h))
           /\ SiftDownToBottom(h) \in Seq(Op) /\ Len(SiftDownToBottom(h)) = Len(h)
  <1>1. PICK b : FallsTo(h, 1, b) /\ SiftDownToBottom(h) = SiftUp(Moved(h, b), h[1], b)
    BY SiftDownIs
  <1> DEFINE A == Ancestors(b)
             n == Len(h)
             m == Moved(h, b)
             c(p) == SmallerChild(h, p)
  <1>2. /\ b \in 1 .. n /\ Chain(A, b) /\ n \in Nat
        /\ m \in Seq(Op) /\ Len(m) = n
        /\ \A p \in 1 .. n : h[p] \in Op
        /\ \A p \in 1 .. n : m[p] = IF p \in A /\ p # b THEN h[c(p)] ELSE h[p]
        /\ \A p \in A : p # b => /\ p \in 1 .. n /\ 2 * p <= n /\ c(p) \in A
                                 /\ c(p) \in 2 .. n /\ c(p) \div 2 = p
    BY <1>1, MovedIs
  <1>3. \A p, q \in A : p \div 2 = q \div 2 => p = q
    BY <1>2, ChainTurns
  <1>4. 2 * b > n /\ 1 \in A
    BY <1>1, <1>2 DEF FallsTo, Chain
  <1>5. \A p \in A : p # b => \A k \in 2 .. n : k \div 2 = p => <<h[c(p)], h[k]>> \in R
    BY <1>2, SmallerChildIs
  <1> HIDE DEF m, A, c
  <1>6. ASSUME NEW p \in 2 .. n, p # b PROVE <<m[p \div 2], m[p]>> \in R
    <2> DEFINE q == p \div 2
    <2>1. q \in 1 .. n /\ 2 * q <= p /\ p \in 1 .. n
      BY <1>2, Halves
    <2>2. q # b
      BY <1>2, <1>4, <2>1
    <2>3. p \in A => q \in A
      <3>1. p # 1
        OBVIOUS
      <3>2. QED
        BY <1>2, <3>1 DEF Chain
    <2> HIDE DEF q
    <2>4. CASE q \in A /\ p = c(q)
      <3>1. m[q] = h[p] /\ p \in A
        BY <1>2, <2>1, <2>2, <2>4
      <3>2. m[p] = h[c(p)] /\ c(p) \in 2 .. n /\ c(p) \div 2 = p
        BY <1>2, <1>6, <2>1, <3>1
      <3>3. p # 1
        OBVIOUS
      <3>4. <<h[p], h[c(p)]>> \in R
        BY <3>2, <3>3
      <3>5. QED
        BY <3>1, <3>2, <3>4 DEF q
    <2>5. CASE q \in A /\ p # c(q)
      <3>1. p \notin A
        BY <1>2, <1>3, <2>2, <2>5 DEF q
      <3>2. m[q] = h[c(q)] /\ m[p] = h[p]
        BY <1>2, <2>1, <2>2, <2>5, <3>1
      <3>3. <<h[c(q)], h[p]>> \in R
        BY <1>5, <2>2, <2>5 DEF q
      <3>4. QED
        BY <3>2, <3>3 DEF q
    <2>6. CASE q \notin A
      <3>1. p \notin A /\ q # 1
        BY <1>4, <2>3, <2>6
      <3>2. m[q] = h[q] /\ m[p] = h[p]
        BY <1>2, <2>1, <2>6, <3>1
      <3>3. QED
        BY <3>1, <3>2 DEF q
    <2>7. QED
      BY <2>4, <2>5, <2>6
  <1>7. h[1] \in Op /\ b \in 1 .. Len(m) /\ 2 * b > Len(m)
    BY <1>2, <1>4
  <1>8. \A p \in 2 .. Len(m) : p # b => <<m[p \div 2], m[p]>> \in R
    BY <1>2, <1>6
  <1>9. Ordered(R, SiftUp(m, h[1], b))
    BY <1>2, <1>7, <1>8, SiftUpOrdered
  <1>10. SiftUp(m, h[1], b) \in Seq(Op) /\ Len(SiftUp(m, h[1], b)) = Len(m)
    BY <1>2, <1>7, SiftUpIs
  <1>11. QED
    BY <1>1, <1>2, <1>9, <1>10 DEF m

(* Falling and climbing back moves the elements. *)
LEMMA SiftDownHolds ==
    ASSUME NEW h \in Seq(Op), Len(h) >= 1
    PROVE  Draws(SiftDownToBottom(h), h, 1 .. Len(h))
  <1>1. PICK b : FallsTo(h, 1, b) /\ SiftDownToBottom(h) = SiftUp(Moved(h, b), h[1], b)
    BY SiftDownIs
  <1> DEFINE A == Ancestors(b)
             n == Len(h)
             m == Moved(h, b)
             c(p) == SmallerChild(h, p)
             k == [m EXCEPT ![b] = h[1]]
  <1>2. /\ b \in 1 .. n /\ Chain(A, b) /\ n \in Nat
        /\ m \in Seq(Op) /\ Len(m) = n
        /\ \A p \in 1 .. n : h[p] \in Op
        /\ \A p \in 1 .. n : m[p] = IF p \in A /\ p # b THEN h[c(p)] ELSE h[p]
        /\ \A p \in A : p # b => /\ p \in 1 .. n /\ 2 * p <= n /\ c(p) \in A
                                 /\ c(p) \in 2 .. n /\ c(p) \div 2 = p
    BY <1>1, MovedIs
  <1>3. 1 \in A /\ b \in A
    BY <1>2 DEF Chain
  <1>4. h[1] \in Op /\ b \in 1 .. Len(m)
    BY <1>2
  <1> HIDE DEF m
  <1>5. Draws(SiftUp(m, h[1], b), k, 1 .. n)
    BY <1>2, <1>4, SiftUpHolds
  <1>6. Len(k) = n /\ k[b] = h[1] /\ \A p \in 1 .. n : p # b => k[p] = m[p]
    BY <1>2
  <1> HIDE DEF A, c, k
  <1> DEFINE g == [p \in 1 .. n |-> IF p = b THEN 1 ELSE IF p \in A THEN c(p) ELSE p]
  <1>7. g \in [1 .. n -> 1 .. n]
    BY <1>2
  <1>8. \A p \in 1 .. n : g[p] = IF p = b THEN 1 ELSE IF p \in A THEN c(p) ELSE p
    OBVIOUS
  <1> HIDE DEF g
  <1>9. \A p \in 1 .. n : k[p] = h[g[p]]
    BY <1>2, <1>6, <1>8
  <1>10. \A p, q \in 1 .. n : g[p] = g[q] => p = q
    <2>1. \A p \in 1 .. n : p # b /\ p \in A => g[p] \in A /\ g[p] # 1 /\ g[p] \div 2 = p
      BY <1>2, <1>8
    <2>2. \A p \in 1 .. n : p # b /\ p \notin A => g[p] = p /\ p # 1
      BY <1>3, <1>8
    <2>3. \A p \in 1 .. n : p = b => g[p] = 1
      BY <1>8
    <2>4. QED
      BY <2>1, <2>2, <2>3
  <1>11. Draws(k, h, 1 .. n)
    BY <1>6, <1>7, <1>9, <1>10 DEF Draws
  <1>12. QED
    BY <1>1, <1>2, <1>5, <1>6, <1>11, DrawsFromDraws DEF m

-----------------------------------------------------------------------------
(* No two positions hold the same message.                                 *)
MessagesDiffer(h) == \A p, q \in 1 .. Len(h) : h[p].message = h[q].message => p = q

(* What is drawn from distinct messages is distinct.                       *)
LEMMA DrawsDistinct ==
    ASSUME NEW r, NEW h, NEW S, S \subseteq 1 .. Len(h), Draws(r, h, S), MessagesDiffer(h)
    PROVE  MessagesDiffer(r) /\ \A p \in 1 .. Len(r) : \E q \in S : r[p] = h[q]
  <1>1. PICK g \in [1 .. Len(r) -> S] :
            /\ \A p, q \in 1 .. Len(r) : g[p] = g[q] => p = q
            /\ \A p \in 1 .. Len(r) : r[p] = h[g[p]]
    BY DEF Draws
  <1>2. \A p \in 1 .. Len(r) : g[p] \in S /\ g[p] \in 1 .. Len(h)
    BY <1>1
  <1>3. \A p \in 1 .. Len(r) : \E q \in S : r[p] = h[q]
    BY <1>1, <1>2
  <1>4. ASSUME NEW p \in 1 .. Len(r), NEW q \in 1 .. Len(r), r[p].message = r[q].message
        PROVE  p = q
    <2>1. h[g[p]].message = h[g[q]].message
      BY <1>1, <1>4
    <2>2. g[p] = g[q]
      BY <1>2, <2>1 DEF MessagesDiffer
    <2>3. QED
      BY <1>1, <2>2
  <1>5. QED
    BY <1>3, <1>4 DEF MessagesDiffer

(* Push keeps the order and adds exactly the operation pushed. *)
LEMMA PushKeeps ==
    ASSUME NEW h \in Seq(Op), NEW x \in Op, NEW R, Orders(R), Ordered(R, h), MessagesDiffer(h),
           \A p \in 1 .. Len(h) : h[p].message # x.message
    PROVE  /\ Push(h, x) \in Seq(Op) /\ Ordered(R, Push(h, x)) /\ MessagesDiffer(Push(h, x))
           /\ \A p \in 1 .. Len(Push(h, x)) :
                 Push(h, x)[p] = x \/ \E q \in 1 .. Len(h) : Push(h, x)[p] = h[q]
  <1> DEFINE a == Append(h, x)
             n == Len(h) + 1
             r == SiftUp(a, x, n)
  <1>1. /\ a \in Seq(Op) /\ Len(a) = n /\ Len(h) \in Nat /\ n \in 1 .. n
        /\ a[n] = x /\ \A p \in 1 .. Len(h) : a[p] = h[p]
    OBVIOUS
  <1>2. r = Push(h, x)
    BY DEF Push
  <1> HIDE DEF a
  <1>3. \A p \in 2 .. Len(a) : p # n => <<a[p \div 2], a[p]>> \in R
    <2>1. ASSUME NEW p \in 2 .. Len(a), p # n PROVE <<a[p \div 2], a[p]>> \in R
      <3>1. p \in 2 .. Len(h) /\ p \in 1 .. Len(h) /\ p \in Nat /\ p >= 2
        BY <1>1, <2>1
      <3>2. p \div 2 \in 1 .. Len(h)
        BY <1>1, <3>1, Halves
      <3>3. <<h[p \div 2], h[p]>> \in R
        BY <3>1 DEF Ordered
      <3>4. QED
        BY <1>1, <3>1, <3>2, <3>3
    <2>2. QED
      BY <2>1
  <1>4. n \in 1 .. Len(a) /\ 2 * n > Len(a)
    BY <1>1
  <1>5. r \in Seq(Op) /\ Len(r) = Len(a)
    <2> HIDE DEF n
    <2>1. QED
      BY <1>1, <1>4, SiftUpIs
  <1>6. Ordered(R, r)
    BY <1>1, <1>3, <1>4, SiftUpOrdered
  <1>7. Draws(r, [a EXCEPT ![n] = x], 1 .. Len(a))
    BY <1>1, <1>4, SiftUpHolds
  <1>8. Len([a EXCEPT ![n] = x]) = Len(a)
        /\ \A p \in 1 .. n : [a EXCEPT ![n] = x][p] = a[p]
    BY <1>1
  <1> DEFINE b == [a EXCEPT ![n] = x]
  <1> HIDE DEF r, b
  <1>9. MessagesDiffer(b)
    <2>1. ASSUME NEW p \in 1 .. n, NEW q \in 1 .. n, a[p].message = a[q].message PROVE p = q
      <3>1. p \in 1 .. Len(h) \/ p = n
        BY <1>1
      <3>2. q \in 1 .. Len(h) \/ q = n
        BY <1>1
      <3>3. QED
        BY <1>1, <2>1, <3>1, <3>2 DEF MessagesDiffer
    <2>2. QED
      BY <1>1, <1>8, <2>1 DEF MessagesDiffer, b
  <1>10. MessagesDiffer(r) /\ \A p \in 1 .. Len(r) : \E q \in 1 .. Len(a) : r[p] = b[q]
    <2>1. 1 .. Len(a) \subseteq 1 .. Len(b) /\ Draws(r, b, 1 .. Len(a))
      BY <1>7, <1>8 DEF b
    <2>2. QED
      BY <1>9, <2>1, DrawsDistinct
  <1>11. ASSUME NEW p \in 1 .. Len(r)
         PROVE  r[p] = x \/ \E q \in 1 .. Len(h) : r[p] = h[q]
    <2>1. PICK q \in 1 .. n : r[p] = b[q]
      BY <1>1, <1>10
    <2>2. r[p] = a[q]
      BY <1>8, <2>1 DEF b
    <2>3. q = n \/ q \in 1 .. Len(h)
      BY <1>1
    <2>4. QED
      BY <1>1, <2>2, <2>3
  <1>12. QED
    BY <1>2, <1>5, <1>6, <1>10, <1>11

(* Pop keeps the order and leaves every operation but the one at the root. *)
LEMMA PopKeeps ==
    ASSUME NEW h \in Seq(Op), h # <<>>, NEW R, Orders(R), Ordered(R, h), MessagesDiffer(h)
    PROVE  /\ Pop(h) \in Seq(Op) /\ Ordered(R, Pop(h)) /\ MessagesDiffer(Pop(h))
           /\ \A p \in 1 .. Len(Pop(h)) : \E q \in 2 .. Len(h) : Pop(h)[p] = h[q]
  <1> DEFINE n == Len(h)
             a == [p \in 1 .. n - 1 |-> IF p = 1 THEN h[n] ELSE h[p]]
  <1>1. n \in Nat /\ n >= 1 /\ \A p \in 1 .. n : h[p] \in Op
    OBVIOUS
  <1>2. CASE n = 1
    <2>1. Pop(h) = <<>>
      BY <1>2 DEF Pop
    <2>2. Len(<<>>) = 0
      OBVIOUS
    <2>3. QED
      BY <2>1, <2>2 DEF Ordered, MessagesDiffer
  <1>3. CASE n # 1
    <2>1. Pop(h) = SiftDownToBottom(a)
      BY <1>3 DEF Pop
    <2>2. a \in [1 .. n - 1 -> Op]
      BY <1>1, <1>3
    <2>3. \A p \in 1 .. n - 1 : a[p] = IF p = 1 THEN h[n] ELSE h[p]
      OBVIOUS
    <2> HIDE DEF a
    <2>0. n - 1 \in Nat /\ n - 1 >= 1
      <3>1. n # 1
        BY <1>3
      <3> HIDE DEF n
      <3>2. QED
        BY <1>1, <3>1
    <2>4. a \in Seq(Op) /\ Len(a) = n - 1 /\ n - 1 \in Nat /\ Len(a) >= 1
      <3> DEFINE k == n - 1
      <3>1. k \in Nat /\ a \in [1 .. k -> Op]
        BY <2>0, <2>2
      <3> HIDE DEF k
      <3>2. a \in Seq(Op) /\ Len(a) = k
        BY <3>1
      <3>3. QED
        BY <2>0, <3>2 DEF k
    <2>5. \A p \in 2 .. Len(a) : p \div 2 # 1 => <<a[p \div 2], a[p]>> \in R
      <3>1. ASSUME NEW p \in 2 .. Len(a), p \div 2 # 1 PROVE <<a[p \div 2], a[p]>> \in R
        <4>1. p \in 2 .. n /\ p \in Nat /\ p >= 2 /\ p \in 1 .. n - 1
          BY <1>1, <2>4
        <4>2. p \div 2 \in 1 .. n - 1 /\ p \div 2 # 1
          BY <1>1, <3>1, <4>1, Halves
        <4>3. a[p] = h[p] /\ a[p \div 2] = h[p \div 2]
          BY <2>3, <4>1, <4>2
        <4>4. <<h[p \div 2], h[p]>> \in R
          BY <4>1 DEF Ordered
        <4>5. QED
          BY <4>3, <4>4
      <3>2. QED
        BY <3>1
    <2>6. /\ Ordered(R, SiftDownToBottom(a))
          /\ SiftDownToBottom(a) \in Seq(Op) /\ Len(SiftDownToBottom(a)) = Len(a)
      BY <2>4, <2>5, SiftDownOrdered
    <2>7. Draws(SiftDownToBottom(a), a, 1 .. Len(a))
      BY <2>4, SiftDownHolds
    <2>8. Draws(a, h, 2 .. n)
      <3> DEFINE g == [p \in 1 .. n - 1 |-> IF p = 1 THEN n ELSE p]
      <3>1. g \in [1 .. n - 1 -> 2 .. n]
        BY <1>1, <1>3
      <3>2. \A p \in 1 .. n - 1 : g[p] = IF p = 1 THEN n ELSE p
        OBVIOUS
      <3> HIDE DEF g
      <3>3. \A p \in 1 .. n - 1 : a[p] = h[g[p]]
        BY <2>3, <3>2
      <3>4. \A p, q \in 1 .. n - 1 : g[p] = g[q] => p = q
        BY <1>1, <3>2
      <3>5. QED
        BY <2>4, <3>1, <3>3, <3>4 DEF Draws
    <2>9. Draws(SiftDownToBottom(a), h, 2 .. n)
      BY <2>4, <2>7, <2>8, DrawsFromDraws
    <2>10. 2 .. n \subseteq 1 .. n
      OBVIOUS
    <2>11. /\ MessagesDiffer(SiftDownToBottom(a))
           /\ \A p \in 1 .. Len(SiftDownToBottom(a)) :
                \E q \in 2 .. n : SiftDownToBottom(a)[p] = h[q]
      BY <2>9, <2>10, DrawsDistinct
    <2>12. QED
      BY <2>1, <2>6, <2>11
  <1>4. QED
    BY <1>2, <1>3

(* Nothing in the heap is before the root. *)
LEMMA RootFirst ==
    ASSUME NEW h \in Seq(Op), NEW R, Orders(R), Ordered(R, h)
    PROVE  \A p \in 1 .. Len(h) : <<h[1], h[p]>> \in R
  <1> DEFINE Bad == {p \in 1 .. Len(h) : <<h[1], h[p]>> \notin R}
  <1>1. SUFFICES ASSUME Bad # {} PROVE FALSE
    OBVIOUS
  <1>2. PICK p \in Bad : \A q \in Bad : p <= q
    <2>1. Bad \in SUBSET Nat
      OBVIOUS
    <2> HIDE DEF Bad
    <2>2. QED
      BY <1>1, <2>1, SmallestOf
  <1>3. p \in 1 .. Len(h) /\ <<h[1], h[p]>> \notin R
    BY <1>2
  <1>4. Len(h) \in Nat /\ \A q \in 1 .. Len(h) : h[q] \in Op
    OBVIOUS
  <1>5. h[1] \in Op /\ 1 \in 1 .. Len(h)
    BY <1>3, <1>4
  <1>6. p # 1
    BY <1>3, <1>5 DEF Orders
  <1>7. p \div 2 \in 1 .. Len(h) /\ p \div 2 < p /\ p \in 2 .. Len(h)
    BY <1>3, <1>4, <1>6, Halves
  <1>8. <<h[1], h[p \div 2]>> \in R
    BY <1>2, <1>7
  <1>9. <<h[p \div 2], h[p]>> \in R
    BY <1>7 DEF Ordered
  <1>10. QED
    BY <1>3, <1>4, <1>5, <1>7, <1>8, <1>9 DEF Orders

-----------------------------------------------------------------------------
(* The queue between two steps, under an order R that the heap's refines.  *)
QueueInv(R) ==
    /\ QueueTypeOK
    /\ MessagesDiffer(heap)
    /\ \A p \in 1 .. Len(heap) : heap[p].message[2] < received[heap[p].message[1]]
    /\ Ordered(R, heap)

(* The empty heap.                                                         *)
LEMMA QueueInvInit ==
    ASSUME NEW R, Init_Queue
    PROVE  QueueInv(R)
  BY OpQueueAssumption DEF QueueInv, Init_Queue, QueueTypeOK, MessagesDiffer, Ordered

(* A new operation has a nonce that its origin has not used.               *)
LEMMA PushNextStep ==
    ASSUME NEW R, Orders(R), QueueInv(R), NEW o \in QueueOrigins, PushNext(o)
    PROVE  QueueInv(R)'
  <1> DEFINE x == [message |-> <<o, received[o]>>, next |-> Nothing]
  <1>1. /\ heap \in Seq(Op) /\ received \in [QueueOrigins -> 0 .. QueueLength]
        /\ QueueLength \in Nat /\ MaxTime \in Nat /\ received[o] < QueueLength
        /\ received' = [received EXCEPT ![o] = @ + 1] /\ retried' = retried
        /\ retried \in 0 .. MaxQueueRetries /\ heap' = Push(heap, x)
    BY OpQueueAssumption DEF QueueInv, QueueTypeOK, PushNext
  <1>2. x \in Op /\ x.message[1] = o /\ x.message[2] = received[o]
    BY <1>1 DEF Op, QueuedMessage, Nothing
  <1>3. \A p \in 1 .. Len(heap) : heap[p] \in Op
    BY <1>1
  <1>4. \A p \in 1 .. Len(heap) :
            /\ heap[p].message[1] \in QueueOrigins /\ heap[p].message[2] \in Nat
            /\ heap[p].message[2] < received[heap[p].message[1]]
    BY <1>3 DEF QueueInv, Op, QueuedMessage
  <1> HIDE DEF x
  <1>5. \A p \in 1 .. Len(heap) : heap[p].message # x.message
    BY <1>1, <1>2, <1>4
  <1>6. /\ heap' \in Seq(Op) /\ Ordered(R, heap') /\ MessagesDiffer(heap')
        /\ \A p \in 1 .. Len(heap') : heap'[p] = x \/ \E q \in 1 .. Len(heap) : heap'[p] = heap[q]
    <2>1. Ordered(R, heap) /\ MessagesDiffer(heap)
      BY DEF QueueInv
    <2>2. QED
      BY <1>1, <1>2, <1>5, <2>1, PushKeeps
  <1>7. /\ received' \in [QueueOrigins -> 0 .. QueueLength]
        /\ received'[o] = received[o] + 1 /\ received[o] \in Nat
        /\ \A s \in QueueOrigins : received[s] \in Nat /\ received[s] <= received'[s]
    BY <1>1
  <1>8. ASSUME NEW p \in 1 .. Len(heap')
        PROVE  heap'[p].message[2] < received'[heap'[p].message[1]]
    <2>1. CASE heap'[p] = x
      BY <1>2, <1>7, <2>1
    <2>2. CASE \E q \in 1 .. Len(heap) : heap'[p] = heap[q]
      <3>1. PICK q \in 1 .. Len(heap) : heap'[p] = heap[q]
        BY <2>2
      <3>2. /\ heap[q].message[1] \in QueueOrigins /\ heap[q].message[2] \in Nat
            /\ heap[q].message[2] < received[heap[q].message[1]]
        BY <1>4
      <3>3. received'[heap[q].message[1]] \in Nat
        BY <1>7, <3>2
      <3>4. QED
        BY <1>7, <3>1, <3>2, <3>3
    <2>3. QED
      BY <1>6, <2>1, <2>2
  <1>9. QED
    BY <1>1, <1>6, <1>7, <1>8 DEF QueueInv, QueueTypeOK

(* What a pop leaves.                                                      *)
LEMMA PopLeaves ==
    ASSUME NEW R, Orders(R), QueueInv(R), heap # <<>>
    PROVE  /\ Pop(heap) \in Seq(Op) /\ Ordered(R, Pop(heap)) /\ MessagesDiffer(Pop(heap))
           /\ \A p \in 1 .. Len(Pop(heap)) : \E q \in 2 .. Len(heap) : Pop(heap)[p] = heap[q]
  <1>1. heap \in Seq(Op) /\ Ordered(R, heap) /\ MessagesDiffer(heap)
    BY DEF QueueInv, QueueTypeOK
  <1>2. QED
    BY <1>1, PopKeeps

(* An operation leaves the queue.                                          *)
LEMMA PopSuccessStep ==
    ASSUME NEW R, Orders(R), QueueInv(R), PopSuccess
    PROVE  QueueInv(R)'
  <1>1. heap # <<>> /\ heap' = Pop(heap) /\ received' = received /\ retried' = retried
    BY DEF PopSuccess
  <1>2. /\ heap' \in Seq(Op) /\ Ordered(R, heap') /\ MessagesDiffer(heap')
        /\ \A p \in 1 .. Len(heap') : \E q \in 2 .. Len(heap) : heap'[p] = heap[q]
    BY <1>1, PopLeaves
  <1>3. \A p \in 1 .. Len(heap') : heap'[p].message[2] < received'[heap'[p].message[1]]
    BY <1>1, <1>2 DEF QueueInv
  <1>4. QED
    BY <1>1, <1>2, <1>3 DEF QueueInv, QueueTypeOK

(* An operation returns with a retry time; its message was only at the     *)
(* root.                                                                   *)
LEMMA PopReprepareStep ==
    ASSUME NEW R, Orders(R), QueueInv(R), PopReprepare
    PROVE  QueueInv(R)'
  <1>1. PICK t \in 1 .. MaxTime :
            heap' = Push(Pop(heap), [message |-> heap[1].message, next |-> t])
    BY DEF PopReprepare
  <1> DEFINE x == [message |-> heap[1].message, next |-> t]
             rest == Pop(heap)
  <1>2. /\ heap \in Seq(Op) /\ heap # <<>> /\ MaxTime \in Nat
        /\ received' = received /\ retried' = retried + 1 /\ retried < MaxQueueRetries
        /\ retried \in 0 .. MaxQueueRetries /\ MaxQueueRetries \in Nat
    BY OpQueueAssumption DEF QueueInv, QueueTypeOK, PopReprepare
  <1>3. 1 \in 1 .. Len(heap) /\ heap[1] \in Op
    BY <1>2
  <1>4. x \in Op /\ x.message = heap[1].message
    BY <1>2, <1>3 DEF Op
  <1>5. /\ rest \in Seq(Op) /\ Ordered(R, rest) /\ MessagesDiffer(rest)
        /\ \A p \in 1 .. Len(rest) : \E q \in 2 .. Len(heap) : rest[p] = heap[q]
    BY <1>2, PopLeaves
  <1>6. heap' = Push(rest, x)
    BY <1>1
  <1> HIDE DEF x, rest
  <1>7. ASSUME NEW p \in 1 .. Len(rest) PROVE rest[p].message # x.message
    <2>1. PICK q \in 2 .. Len(heap) : rest[p] = heap[q]
      BY <1>5
    <2>2. q \in 1 .. Len(heap) /\ q # 1
      BY <1>2
    <2>3. heap[q].message # heap[1].message
      BY <1>3, <2>2 DEF QueueInv, MessagesDiffer
    <2>4. QED
      BY <1>4, <2>1, <2>3
  <1>8. /\ heap' \in Seq(Op) /\ Ordered(R, heap') /\ MessagesDiffer(heap')
        /\ \A p \in 1 .. Len(heap') : heap'[p] = x \/ \E q \in 1 .. Len(rest) : heap'[p] = rest[q]
    BY <1>4, <1>5, <1>6, <1>7, PushKeeps
  <1>9. ASSUME NEW p \in 1 .. Len(heap')
        PROVE  heap'[p].message[2] < received'[heap'[p].message[1]]
    <2>1. \E q \in 1 .. Len(heap) : heap'[p].message = heap[q].message
      <3>1. CASE heap'[p] = x
        BY <1>3, <1>4, <3>1
      <3>2. CASE \E q \in 1 .. Len(rest) : heap'[p] = rest[q]
        <4>1. PICK q \in 1 .. Len(rest) : heap'[p] = rest[q]
          BY <3>2
        <4>2. PICK k \in 2 .. Len(heap) : rest[q] = heap[k]
          BY <1>5
        <4>3. k \in 1 .. Len(heap)
          BY <1>2
        <4>4. QED
          BY <4>1, <4>2, <4>3
      <3>3. QED
        BY <1>8, <3>1, <3>2
    <2>2. QED
      BY <1>2, <2>1 DEF QueueInv
  <1>10. retried' \in 0 .. MaxQueueRetries
    BY <1>2
  <1>11. received' \in [QueueOrigins -> 0 .. QueueLength]
    BY <1>2 DEF QueueInv, QueueTypeOK
  <1>12. QED
    BY <1>8, <1>9, <1>10, <1>11 DEF QueueInv, QueueTypeOK

(* Every step of the queue keeps the invariant.                            *)
LEMMA QueueInvStep ==
    ASSUME NEW R, Orders(R), QueueInv(R), [Next_Queue]_queueVars
    PROVE  QueueInv(R)'
  <1>1. CASE \E o \in QueueOrigins : PushNext(o)
    BY <1>1, PushNextStep
  <1>2. CASE PopSuccess
    BY <1>2, PopSuccessStep
  <1>3. CASE PopReprepare
    BY <1>3, PopReprepareStep
  <1>4. CASE UNCHANGED queueVars
    BY <1>4 DEF QueueInv, QueueTypeOK, MessagesDiffer, Ordered, queueVars
  <1>5. QED
    BY <1>1, <1>2, <1>3, <1>4 DEF Next_Queue

(* The order by time: untried operations first, then by the next attempt.  *)
ByTime == {ab \in Op \X Op : ab[1].next <= ab[2].next}

(* ByTime, for a pair of operations.                                       *)
LEMMA ByTimeIs == \A a, b : <<a, b>> \in ByTime => a.next <= b.next
  BY DEF ByTime

(* For any number of origins, this is an order the queue's refines.        *)
LEMMA ByTimeOrders == Orders(ByTime)
  <1>1. \A a, b \in Op : <<a, b>> \in ByTime <=> a.next <= b.next
    BY DEF ByTime
  <1>2. \A a \in Op : a.next \in Nat
    BY OpQueueAssumption DEF Op
  <1> HIDE DEF ByTime
  <1>3. QED
    BY <1>1, <1>2 DEF Orders, Less, Untried, Nothing

(* With one origin, untried operations are also in the order of nonces.    *)
ByNonce ==
    {ab \in Op \X Op :
        \/ ab[1].next < ab[2].next
        \/ /\ ab[1].next = ab[2].next
           /\ ab[1].next = Nothing => ab[1].message[2] <= ab[2].message[2]}

(* ByNonce, for a pair of operations.                                      *)
LEMMA ByNonceIs ==
    \A a, b : <<a, b>> \in ByNonce =>
        \/ a.next < b.next
        \/ a.next = b.next /\ (a.next = Nothing => a.message[2] <= b.message[2])
  BY DEF ByNonce

(* Of one origin, this is an order the queue's refines; of two it is not,  *)
(* since operations of different origins are compared by their ids.        *)
LEMMA ByNonceOrders ==
    ASSUME \A o, p \in QueueOrigins : o = p
    PROVE  Orders(ByNonce)
  <1>1. \A a, b \in Op : <<a, b>> \in ByNonce <=>
            \/ a.next < b.next
            \/ /\ a.next = b.next
               /\ a.next = Nothing => a.message[2] <= b.message[2]
    BY DEF ByNonce
  <1>2. \A a \in Op : a.next \in Nat /\ a.message[1] \in QueueOrigins /\ a.message[2] \in Nat
    BY OpQueueAssumption DEF Op, QueuedMessage
  <1>3. \A a, b \in Op : a.message[1] = b.message[1]
    BY <1>2
  <1>4. \A a, b \in Op : Less(a, b) => <<a, b>> \in ByNonce
    BY <1>1, <1>2, <1>3 DEF Less, Untried, Nothing
  <1>5. \A a, b \in Op : ~Less(a, b) => <<b, a>> \in ByNonce
    BY <1>1, <1>2, <1>3 DEF Less, Untried, Nothing
  <1>6. \A a, b, c \in Op : <<a, b>> \in ByNonce /\ <<b, c>> \in ByNonce => <<a, c>> \in ByNonce
    BY <1>1, <1>2 DEF Nothing
  <1>7. QED
    BY <1>4, <1>5, <1>6 DEF Orders

(* For any number of origins, any ids and any length: the heap neither     *)
(* loses nor duplicates an operation, and prepare_task pops an untried one *)
(* before any that failed, and of those the one that is due first.         *)
THEOREM PopsUntriedFirst ==
    QueueSpec => [](QueueTypeOK /\ HoldsEachOnce /\ UntriedFirst)
  <1>1. QueueInv(ByTime) => QueueTypeOK /\ HoldsEachOnce /\ UntriedFirst
    <2> SUFFICES ASSUME QueueInv(ByTime) PROVE QueueTypeOK /\ HoldsEachOnce /\ UntriedFirst
      OBVIOUS
    <2>1. heap \in Seq(Op) /\ DOMAIN heap = 1 .. Len(heap) /\ \A p \in 1 .. Len(heap) : heap[p] \in Op
      BY DEF QueueInv, QueueTypeOK
    <2>2. HoldsEachOnce
      BY <2>1 DEF QueueInv, MessagesDiffer, HoldsEachOnce
    <2>3. Ordered(ByTime, heap)
      BY DEF QueueInv
    <2>4. \A p \in 1 .. Len(heap) : heap[1].next <= heap[p].next
      <3>1. \A p \in 1 .. Len(heap) : <<heap[1], heap[p]>> \in ByTime
        BY <2>1, <2>3, ByTimeOrders, RootFirst
      <3>2. QED
        BY <3>1, ByTimeIs
    <2>5. ASSUME NEW p \in DOMAIN heap, Untried(heap[p]) PROVE Untried(heap[1])
      <3>1. p \in 1 .. Len(heap) /\ 1 \in 1 .. Len(heap) /\ heap[1].next \in Nat
        BY <2>1, OpQueueAssumption DEF Op
      <3>2. heap[1].next <= heap[p].next
        BY <2>4, <3>1
      <3>3. QED
        BY <2>5, <3>1, <3>2 DEF Untried, Nothing
    <2>6. UntriedFirst
      BY <2>1, <2>4, <2>5 DEF UntriedFirst
    <2>7. QED
      BY <2>2, <2>6 DEF QueueInv
  <1>2. QueueSpec => []QueueInv(ByTime)
    <2>1. Init_Queue => QueueInv(ByTime)
      BY QueueInvInit
    <2>2. QueueInv(ByTime) /\ [Next_Queue]_queueVars => QueueInv(ByTime)'
      BY ByTimeOrders, QueueInvStep
    <2>3. QED
      BY <2>1, <2>2, PTL DEF QueueSpec
  <1>3. QED
    BY <1>1, <1>2, PTL

(* If all operations are of one origin, prepare_task also pops the untried *)
(* ones in the order of their nonces.                                      *)
THEOREM QueueOfOneOriginSound ==
    ASSUME \A o, p \in QueueOrigins : o = p
    PROVE  QueueSpec => []QueueSound
  <1>1. QueueInv(ByNonce) => NonceOrder
    <2> SUFFICES ASSUME QueueInv(ByNonce) PROVE NonceOrder
      OBVIOUS
    <2>1. heap \in Seq(Op) /\ DOMAIN heap = 1 .. Len(heap) /\ \A p \in 1 .. Len(heap) : heap[p] \in Op
      BY DEF QueueInv, QueueTypeOK
    <2>2. Ordered(ByNonce, heap)
      BY DEF QueueInv
    <2>3. \A p \in 1 .. Len(heap) : <<heap[1], heap[p]>> \in ByNonce
      BY <2>1, <2>2, ByNonceOrders, RootFirst
    <2>4. ASSUME NEW p \in 1 .. Len(heap), Untried(heap[1]), Untried(heap[p])
          PROVE  heap[1].message[2] <= heap[p].message[2]
      <3>1. <<heap[1], heap[p]>> \in ByNonce
        BY <2>3
      <3>2. heap[1].next = 0 /\ heap[p].next = 0 /\ Nothing = 0
        BY <2>4 DEF Untried, Nothing
      <3>3. ~(heap[1].next < heap[p].next)
        BY <3>2
      <3>4. QED
        BY <3>1, <3>2, <3>3, ByNonceIs
    <2>5. QED
      BY <2>1, <2>4 DEF NonceOrder
  <1>2. QueueSpec => []QueueInv(ByNonce)
    <2>1. Init_Queue => QueueInv(ByNonce)
      BY QueueInvInit
    <2>2. QueueInv(ByNonce) /\ [Next_Queue]_queueVars => QueueInv(ByNonce)'
      BY ByNonceOrders, QueueInvStep
    <2>3. QED
      BY <2>1, <2>2, PTL DEF QueueSpec
  <1>3. QueueSpec => [](QueueTypeOK /\ HoldsEachOnce /\ UntriedFirst)
    BY PopsUntriedFirst
  <1>4. QueueTypeOK /\ HoldsEachOnce /\ UntriedFirst /\ NonceOrder => QueueSound
    BY DEF QueueSound
  <1>5. QED
    BY <1>1, <1>2, <1>3, <1>4, PTL

-----------------------------------------------------------------------------
(* The submitter *)

USE ConstantsAssumption

LEMMA InitTypeOK == Init => TypeOK
BY DEF Init, TypeOK, Idle, NewPendingMessage, PendingMessage, NextAttempt,
       Inclusion, Message

(* One step per action: the type invariant is preserved. *)
LEMMA StepTypeOK == TypeOK /\ [Next]_vars => TypeOK'
<1> SUFFICES ASSUME TypeOK, [Next]_vars PROVE TypeOK'
  OBVIOUS
<1> USE DEF TypeOK
<1>1. ASSUME NEW o \in Origins, Processor(o) PROVE TypeOK'
  <2> DEFINE m == Current(o)
  <2>1. m \in Message /\ message_nonce[o] + 1 \in 0 .. NumMessages
    BY <1>1 DEF Processor, ProcessorSkip, ProcessorSend, Current, Message
  <2>2. CASE ProcessorSkip(o)
    BY <2>1, <2>2 DEF ProcessorSkip, db, chain
  <2>3. CASE ProcessorSend(o)
    <3>1. FromPersistedRetries(m) \in PendingMessage
      BY DEF FromPersistedRetries, NewPendingMessage, Backoff, PendingMessage, NextAttempt
    <3>2. rx' \in Seq(Message)
      BY <2>1, <2>3 DEF ProcessorSend
    <3>3. op' \in [Message -> PendingMessage]
      BY <2>1, <2>3, <3>1 DEF ProcessorSend
    <3>. QED BY <2>1, <2>3, <3>2, <3>3 DEF ProcessorSend, db, chain
  <2>. QED BY <1>1, <2>2, <2>3 DEF Processor
<1>2. CASE Receive
  <2>1. Head(rx) \in Message /\ Tail(rx) \in Seq(Message)
    BY <1>2 DEF Receive
  <2>. QED BY <1>2, <2>1 DEF Receive, db, chain
<1>3. CASE SubmitRecv
  <2>1. Head(rx_submit) \in Message /\ Tail(rx_submit) \in Seq(Message) /\ Len(Tail(rx_submit)) <= 1
    BY <1>3 DEF SubmitRecv
  <2>. QED BY <1>3, <2>1 DEF SubmitRecv, db, chain
<1>4. ASSUME NEW m \in Message, PrepareTask(m) PROVE TypeOK'
  <2>1. CASE PreparePop(m)
    BY <2>1 DEF PreparePop, db, chain
  <2>2. CASE PrepareDelivered(m)
    <3>1. op' \in [Message -> PendingMessage]
      <4>1. CASE Delivered(m)
        <5>1. MarkSubmitted(m)
          BY <2>2, <4>1 DEF PrepareDelivered
        <5>. QED BY <5>1 DEF MarkSubmitted, PendingMessage, NextAttempt
      <4>2. CASE ~Delivered(m)
        BY <2>2, <4>2 DEF PrepareDelivered
      <4>. QED BY <4>1, <4>2
    <3>3. inclusion' \in [Message -> Inclusion]
      BY <2>2 DEF PrepareDelivered, StartWait, Inclusion
    <3>2. preparing' \in [op : Message, pc : {"delivered", "build", "send"}]
      BY <2>2 DEF PrepareDelivered
    <3>. QED BY <2>2, <3>1, <3>2, <3>3 DEF PrepareDelivered, db
  <2>3. CASE PrepareBuild(m)
    <3>1. op' \in [Message -> PendingMessage]
      BY <2>3 DEF PrepareBuild, PendingMessage
    <3>. QED BY <2>3, <3>1 DEF PrepareBuild, db, chain
  <2>4. CASE PrepareDrop(m)
    BY <2>4 DEF PrepareDrop, db, chain
  <2>5. CASE PrepareRetry(m)
    <3>1. op' \in [Message -> PendingMessage]
      BY <2>5 DEF PrepareRetry, OnReprepare, Reprepared, SetRetries, Backoff, PendingMessage, NextAttempt
    <3>0. retries' \in [Message -> BOOLEAN]
      BY <2>5 DEF PrepareRetry, OnReprepare, Reprepared, SetRetries, Backoff, PendingMessage, NextAttempt
    <3>. QED BY <2>5, <3>0, <3>1 DEF PrepareRetry, Fault, chain
  <2>6. CASE PrepareSend(m)
    <3>1. ended' \subseteq Tasks
      BY <2>6 DEF PrepareSend, Tasks
    <3>2. rx_submit' \in Seq(Message) /\ Len(rx_submit') <= 1
      BY <2>6 DEF PrepareSend
    <3>. QED BY <2>6, <3>1, <3>2 DEF PrepareSend, db, chain
  <2>. QED BY <1>4, <2>1, <2>2, <2>3, <2>4, <2>5, <2>6 DEF PrepareTask
<1>5. ASSUME NEW m \in Message, SubmitTask(m) PROVE TypeOK'
  <2>1. CASE SubmitAlready(m)
    BY <2>1 DEF SubmitAlready, db, chain
  <2>2. CASE SubmitBroadcast(m)
    <3>1. op' \in [Message -> PendingMessage]
      BY <2>2 DEF SubmitBroadcast, PendingMessage
    <3>. QED BY <2>2, <3>1 DEF SubmitBroadcast, db, chain
  <2>3. CASE SubmitExecuted(m)
    <3>1. op' \in [Message -> PendingMessage]
      BY <2>3 DEF SubmitExecuted, MarkSubmitted, SetRetries, PendingMessage, NextAttempt
    <3>0. retries' \in [Message -> BOOLEAN]
      BY <2>3 DEF SubmitExecuted, MarkSubmitted, SetRetries, PendingMessage, NextAttempt
    <3>2. inclusion' \in [Message -> Inclusion]
      BY <2>3 DEF SubmitExecuted, Inclusion
    <3>. QED BY <2>3, <3>0, <3>1, <3>2 DEF SubmitExecuted
  <2>4. CASE SubmitRetry(m)
    <3>1. op' \in [Message -> PendingMessage]
      BY <2>4 DEF SubmitRetry, OnReprepare, Reprepared, SetRetries, Backoff, PendingMessage, NextAttempt
    <3>0. retries' \in [Message -> BOOLEAN]
      BY <2>4 DEF SubmitRetry, OnReprepare, Reprepared, SetRetries, Backoff, PendingMessage, NextAttempt
    <3>2. faults' \in 0 .. MaxFaults
      BY <2>4 DEF SubmitRetry, Fault
    <3>. QED BY <2>4, <3>0, <3>1, <3>2 DEF SubmitRetry, chain
  <2>5. CASE SubmitCritical(m)
    <3>1. inclusion' \in [Message -> Inclusion]
      BY <2>5 DEF SubmitCritical, Inclusion
    <3>2. ended' \subseteq Tasks
      BY <2>5 DEF SubmitCritical, Tasks
    <3>3. rx_submit' \in Seq(Message) /\ Len(rx_submit') <= 1
      BY <2>5 DEF SubmitCritical
    <3>. QED BY <2>5, <3>1, <3>2, <3>3 DEF SubmitCritical, Fault, db
  <2>. QED BY <1>5, <2>1, <2>2, <2>3, <2>4, <2>5 DEF SubmitTask
<1>6. ASSUME NEW m \in Message, ConfirmTask(m) PROVE TypeOK'
  <2>1. CASE ConfirmPop(m)
    BY <2>1 DEF ConfirmPop, db, chain
  <2>2. CASE ConfirmDelivered(m)
    BY <2>2 DEF ConfirmDelivered, chain
  <2>3. CASE ConfirmUndelivered(m)
    <3>1. op' \in [Message -> PendingMessage]
      BY <2>3 DEF ConfirmUndelivered, Reprepared, Backoff, PendingMessage, NextAttempt
    <3>0. retries' \in [Message -> BOOLEAN]
      BY <2>3 DEF ConfirmUndelivered, Reprepared, Backoff, PendingMessage, NextAttempt
    <3>. QED BY <2>3, <3>0, <3>1 DEF ConfirmUndelivered, chain
  <2>4. CASE ConfirmError(m)
    <3>1. op' \in [Message -> PendingMessage]
      BY <2>4 DEF ConfirmError, SetRetries, Backoff, PendingMessage, NextAttempt
    <3>0. retries' \in [Message -> BOOLEAN]
      BY <2>4 DEF ConfirmError, SetRetries, Backoff, PendingMessage, NextAttempt
    <3>. QED BY <2>4, <3>0, <3>1 DEF ConfirmError, Fault, chain
  <2>5. CASE ConfirmCritical(m)
    BY <2>5 DEF ConfirmCritical, Fault, Tasks, db, chain
  <2>. QED BY <1>6, <2>1, <2>2, <2>3, <2>4, <2>5 DEF ConfirmTask
<1>7. ASSUME NEW m \in Message, Environment(m) PROVE TypeOK'
  <2>1. CASE StoreMessage(m)
    BY <2>1 DEF StoreMessage, pipeline, chain
  <2>2. CASE Elapse(m)
    <3>1. op' \in [Message -> PendingMessage]
      BY <2>2 DEF Elapse, PendingMessage, NextAttempt
    <3>. QED BY <2>2, <3>1 DEF Elapse, db, chain
  <2>3. CASE Land(m)
    BY <2>3 DEF Land, Inclusion, db, pipeline
  <2>4. CASE Finalize(m)
    BY <2>4 DEF Finalize, Inclusion, db, pipeline
  <2>5. CASE Reorg(m)
    BY <2>5 DEF Reorg, Fault, Inclusion, db, pipeline
  <2>. QED BY <1>7, <2>1, <2>2, <2>3, <2>4, <2>5 DEF Environment
<1>8. CASE Restart
  <2>1. op' \in [Message -> PendingMessage]
    BY <1>8 DEF Restart, NewPendingMessage, PendingMessage, NextAttempt
  <2>. QED BY <1>8, <2>1 DEF Restart, Fault, db, chain
<1>9. CASE UNCHANGED vars
  BY <1>9 DEF vars, db, pipeline, chain
<1>. QED BY <1>1, <1>2, <1>3, <1>4, <1>5, <1>6, <1>7, <1>8, <1>9 DEF Next

(* The type invariant holds in every reachable state: in particular the    *)
(* channel to submit_task never holds more than one operation and no       *)
(* processor reads past the messages dispatched.                           *)
THEOREM TypeCorrect == Spec => []TypeOK
BY InitTypeOK, StepTypeOK, PTL DEF Spec

-----------------------------------------------------------------------------
(* Where the operations are                                                *)

Apart(a, b, c, d, e, f, g) ==
    /\ a \cap b = {} /\ a \cap c = {} /\ a \cap d = {} /\ a \cap e = {}
    /\ a \cap f = {} /\ a \cap g = {}
    /\ b \cap c = {} /\ b \cap d = {} /\ b \cap e = {} /\ b \cap f = {} /\ b \cap g = {}
    /\ c \cap d = {} /\ c \cap e = {} /\ c \cap f = {} /\ c \cap g = {}
    /\ d \cap e = {} /\ d \cap f = {} /\ d \cap g = {}
    /\ e \cap f = {} /\ e \cap g = {}
    /\ f \cap g = {}

Distinct(s) == \A i, j \in DOMAIN s : s[i] = s[j] => i = j

(* the pairs of stages, one by one *)
LEMMA OneOperationExpanded ==
    OneOperationPerMessage <=>
        /\ Apart(Range(rx), prepare_queue, Held(preparing.op), Range(rx_submit),
                 Held(submitting.op), confirm_queue, Held(confirming))
        /\ Distinct(rx)
<1> DEFINE a == Range(rx)  b == prepare_queue  c == Held(preparing.op)
           d == Range(rx_submit)  e == Held(submitting.op)  f == confirm_queue
           g == Held(confirming)  S == <<a, b, c, d, e, f, g>>
<1> HIDE DEF a, b, c, d, e, f, g
<1>1. (\A i, j \in DOMAIN S : i # j => S[i] \cap S[j] = {}) <=> Apart(a, b, c, d, e, f, g)
  BY DEF Apart
<1>. QED BY <1>1 DEF OneOperationPerMessage, Stages, Distinct, a, b, c, d, e, f, g

(* what Append and Tail do to the elements of a channel *)
LEMMA RangeAppend ==
    ASSUME NEW T, NEW s \in Seq(T), NEW x \in T
    PROVE  /\ Range(Append(s, x)) = Range(s) \cup {x}
           /\ Distinct(s) /\ x \notin Range(s) => Distinct(Append(s, x))
<1>1. Range(Append(s, x)) = Range(s) \cup {x}
  BY DEF Range
<1>2. Distinct(s) /\ x \notin Range(s) => Distinct(Append(s, x))
  BY DEF Range, Distinct
<1>. QED BY <1>1, <1>2

LEMMA RangeTail ==
    ASSUME NEW T, NEW s \in Seq(T), s # <<>>
    PROVE  /\ Head(s) \in Range(s)
           /\ Range(s) = Range(Tail(s)) \cup {Head(s)}
           /\ Distinct(s) => Distinct(Tail(s)) /\ Head(s) \notin Range(Tail(s))
<1>1. /\ Len(s) \in Nat /\ Len(s) >= 1 /\ DOMAIN s = 1 .. Len(s) /\ Head(s) = s[1]
      /\ DOMAIN Tail(s) = 1 .. Len(s) - 1
      /\ \A i \in DOMAIN Tail(s) : Tail(s)[i] = s[i + 1]
  OBVIOUS
<1>2. Range(s) = Range(Tail(s)) \cup {Head(s)}
  <2>1. ASSUME NEW i \in DOMAIN s PROVE s[i] \in Range(Tail(s)) \cup {Head(s)}
    <3>1. CASE i = 1
      BY <1>1, <3>1
    <3>2. CASE i # 1
      <4>1. i - 1 \in DOMAIN Tail(s) /\ Tail(s)[i - 1] = s[i]
        BY <1>1, <3>2
      <4>. QED BY <4>1 DEF Range
    <3>. QED BY <3>1, <3>2
  <2>2. ASSUME NEW i \in DOMAIN Tail(s) PROVE Tail(s)[i] \in Range(s)
    BY <1>1 DEF Range
  <2>3. Head(s) \in Range(s)
    BY <1>1 DEF Range
  <2>. QED BY <2>1, <2>2, <2>3 DEF Range
<1>3. ASSUME Distinct(s) PROVE Distinct(Tail(s)) /\ Head(s) \notin Range(Tail(s))
  <2>1. Distinct(Tail(s))
    BY <1>1, <1>3 DEF Distinct
  <2>2. ASSUME NEW i \in DOMAIN Tail(s) PROVE Tail(s)[i] # Head(s)
    BY <1>1, <1>3 DEF Distinct
  <2>. QED BY <2>1, <2>2 DEF Range
<1>. QED BY <1>2, <1>3

LEMMA RangeEmpty == Range(<<>>) = {} /\ Distinct(<<>>)
BY DEF Range, Distinct

(* The operations are apart, below the nonces of the processors, not yet   *)
(* committed, and none is missing.                                         *)
Placement ==
    /\ Apart(Range(rx), prepare_queue, Held(preparing.op), Range(rx_submit),
             Held(submitting.op), confirm_queue, Held(confirming))
    /\ Distinct(rx)
    /\ SentBelowNonce
    /\ CommittedNeverRetried
    /\ NothingLost

LEMMA InitPlacement == Init => Placement
<1> SUFFICES ASSUME Init PROVE Placement
  OBVIOUS
<1>1. /\ Range(rx) = {} /\ Distinct(rx) /\ Range(rx_submit) = {}
      /\ Held(preparing.op) = {} /\ Held(submitting.op) = {} /\ Held(confirming) = {}
  BY RangeEmpty DEF Init, Held, Idle
<1>2. InFlight = {}
  BY <1>1 DEF Init, InFlight
<1>3. NothingLost
  BY DEF Init, NothingLost, Message, Nonce, Origin
<1>. QED BY <1>1, <1>2, <1>3 DEF Init, Placement, Apart, SentBelowNonce, CommittedNeverRetried

(* A step that only moves operations from stage to stage, or drops or      *)
(* commits one, keeps the conditions that speak of the pipeline as a whole *)
LEMMA MoveKeepsPlacement ==
    ASSUME TypeOK, Placement,
           UNCHANGED message_nonce, InFlight' \subseteq InFlight,
           processed \subseteq processed', dropped \subseteq dropped',
           processed' \cap InFlight' = {},
           ended' = {} => ended = {} /\ InFlight \subseteq processed' \cup dropped' \cup InFlight'
    PROVE  SentBelowNonce' /\ CommittedNeverRetried' /\ NothingLost'
<1>1. SentBelowNonce'
  BY DEF Placement, SentBelowNonce
<1>2. CommittedNeverRetried'
  BY DEF CommittedNeverRetried
<1>3. NothingLost'
  BY DEF Placement, NothingLost
<1>. QED BY <1>1, <1>2, <1>3

LEMMA StepPlacement == TypeOK /\ Placement /\ [Next]_vars => Placement'
<1> SUFFICES ASSUME TypeOK, Placement, [Next]_vars PROVE Placement'
  OBVIOUS
<1> DEFINE a == Range(rx)  c == Held(preparing.op)  d == Range(rx_submit)
           e == Held(submitting.op)  g == Held(confirming)
<1>0. /\ Apart(a, prepare_queue, c, d, e, confirm_queue, g)
      /\ processed \cap InFlight = {} /\ Distinct(rx)
      /\ InFlight = a \cup prepare_queue \cup c \cup d \cup e \cup confirm_queue \cup g
  BY DEF Placement, CommittedNeverRetried, InFlight
<1>p. InFlight' = a' \cup prepare_queue' \cup c' \cup d' \cup e' \cup confirm_queue' \cup g'
  BY DEF InFlight
<1>q. \A m \in Message : m # NoOp /\ Held(m) = {m}
  BY DEF Held
<1>r. Held(Idle.op) = {} /\ Held(NoOp) = {}
  BY DEF Held, Idle
<1> HIDE DEF a, c, d, e, g
<1>1. ASSUME NEW o \in Origins, Processor(o) PROVE Placement'
  <2> DEFINE m == Current(o)
  <2>1. /\ m \in Message /\ Nonce(m) = message_nonce[o] /\ Origin(m) = o
        /\ message_nonce' = [message_nonce EXCEPT ![o] = @ + 1]
        /\ message_nonce[o] \in Nat
    BY <1>1 DEF Processor, ProcessorSkip, ProcessorSend, Current, Message, TypeOK, Nonce, Origin
  <2>2. \A k \in Message : Nonce(k) < message_nonce'[Origin(k)] =>
            k = m \/ Nonce(k) < message_nonce[Origin(k)]
    BY <2>1 DEF Message, Nonce, Origin, TypeOK, Current
  <2>3. \A k \in Message : Nonce(k) < message_nonce[Origin(k)] => Nonce(k) < message_nonce'[Origin(k)]
    BY <2>1 DEF Message, Nonce, Origin, TypeOK
  <2>4. m \notin InFlight
    BY <2>1 DEF Placement, SentBelowNonce
  <2>5. InFlight \subseteq Message
    BY DEF TypeOK, InFlight, Range, Held, Idle
  <2>6. UNCHANGED <<prepare_queue, preparing, rx_submit, submitting, confirm_queue, confirming,
                    processed, dropped, ended>>
    BY <1>1 DEF Processor, ProcessorSkip, ProcessorSend, db
  <2>7. c' = c /\ d' = d /\ e' = e /\ g' = g
    BY <2>6 DEF c, d, e, g
  <2>8. CASE ProcessorSkip(o)
    <3>1. UNCHANGED rx /\ (m \in processed \/ m \in Filtered)
      BY <2>8 DEF ProcessorSkip
    <3>2. a' = a /\ InFlight' = InFlight
      BY <3>1, <2>6, <2>7, <1>0, <1>p DEF a
    <3>3. SentBelowNonce'
      BY <2>3, <2>5, <3>2 DEF Placement, SentBelowNonce
    <3>4. NothingLost'
      BY <2>2, <2>6, <3>1, <3>2 DEF Placement, NothingLost
    <3>. QED BY <1>0, <2>6, <2>7, <3>1, <3>2, <3>3, <3>4
             DEF Placement, CommittedNeverRetried, a, c, d, e, g
  <2>9. CASE ProcessorSend(o)
    <3>1. rx' = Append(rx, m) /\ m \notin processed
      BY <2>9 DEF ProcessorSend
    <3>2. a' = a \cup {m} /\ Distinct(rx')
      BY <3>1, <1>0, <2>1, <2>4, RangeAppend DEF TypeOK, a
    <3>3. InFlight' = InFlight \cup {m}
      BY <3>2, <2>6, <2>7, <1>0, <1>p
    <3>4. SentBelowNonce'
      <4>1. Nonce(m) < message_nonce'[Origin(m)]
        BY <2>1 DEF TypeOK
      <4>. QED BY <2>3, <2>5, <3>3, <4>1 DEF Placement, SentBelowNonce
    <3>5. NothingLost'
      BY <2>2, <2>6, <3>3 DEF Placement, NothingLost
    <3>6. CommittedNeverRetried'
      BY <3>1, <3>3, <2>6, <1>0 DEF CommittedNeverRetried
    <3>7. Apart(a', prepare_queue', c', d', e', confirm_queue', g')
      BY <1>0, <2>4, <2>6, <2>7, <3>2 DEF Apart
    <3>. QED BY <3>2, <3>4, <3>5, <3>6, <3>7 DEF Placement, a, c, d, e, g
  <2>. QED BY <1>1, <2>8, <2>9 DEF Processor
<1>2. ASSUME UNCHANGED <<message_nonce, processed, dropped>>, InFlight' = InFlight,
             ended \subseteq ended',
             Apart(a', prepare_queue', c', d', e', confirm_queue', g'), Distinct(rx')
      PROVE  Placement'
  <2>1. SentBelowNonce' /\ CommittedNeverRetried' /\ NothingLost'
    BY <1>0, <1>2, MoveKeepsPlacement
  <2>. QED BY <1>2, <2>1 DEF Placement, a, c, d, e, g
<1>3. CASE Receive
  <2> DEFINE m == Head(rx)
  <2>1. /\ rx' = Tail(rx) /\ rx # <<>> /\ prepare_queue' = prepare_queue \cup {m}
        /\ UNCHANGED <<message_nonce, processed, dropped, ended, preparing, rx_submit, submitting,
                       confirm_queue, confirming>>
    BY <1>3 DEF Receive, db
  <2>2. Range(rx) = Range(Tail(rx)) \cup {m} /\ m \notin Range(Tail(rx)) /\ Distinct(Tail(rx))
    BY <2>1, <1>0, RangeTail DEF TypeOK
  <2>3. c' = c /\ d' = d /\ e' = e /\ g' = g /\ a = a' \cup {m} /\ m \notin a'
    BY <2>1, <2>2 DEF a, c, d, e, g
  <2> HIDE DEF m
  <2>4. InFlight' = InFlight
    BY <1>0, <1>p, <2>1, <2>3
  <2>5. Apart(a', prepare_queue', c', d', e', confirm_queue', g')
    BY <1>0, <2>1, <2>3 DEF Apart
  <2>. QED BY <1>2, <2>1, <2>2, <2>4, <2>5
<1>4. CASE SubmitRecv
  <2> DEFINE m == Head(rx_submit)
  <2>1. /\ rx_submit' = Tail(rx_submit) /\ rx_submit # <<>> /\ submitting = Idle
        /\ submitting'.op = m /\ m \in Message
        /\ UNCHANGED <<message_nonce, processed, dropped, ended, rx, prepare_queue, preparing,
                       confirm_queue, confirming>>
    BY <1>4 DEF SubmitRecv, db, TypeOK
  <2>2. Tail(rx_submit) = <<>> /\ Range(rx_submit) = {m}
    BY <2>1 DEF TypeOK, Range
  <2>3. a' = a /\ c' = c /\ g' = g /\ d = {m} /\ d' = {} /\ e = {} /\ e' = {m}
    BY <2>1, <2>2, <1>q, <1>r, RangeEmpty DEF a, c, d, e, g
  <2> HIDE DEF m
  <2>4. InFlight' = InFlight
    BY <1>0, <1>p, <2>1, <2>3
  <2>5. Apart(a', prepare_queue', c', d', e', confirm_queue', g')
    BY <1>0, <2>1, <2>3 DEF Apart
  <2>. QED BY <1>0, <1>2, <2>1, <2>4, <2>5
<1>5. ASSUME NEW m \in Message, PrepareTask(m) PROVE Placement'
  <2>0. UNCHANGED <<message_nonce, processed, rx, submitting, confirm_queue, confirming>>
    BY <1>5 DEF PrepareTask, PreparePop, PrepareDelivered, PrepareBuild, PrepareDrop,
                PrepareRetry, PrepareSend, db
  <2>1. a' = a /\ e' = e /\ g' = g /\ Distinct(rx')
    BY <1>0, <2>0 DEF a, e, g
  <2>2. CASE PreparePop(m)
    <3>1. /\ m \in prepare_queue /\ prepare_queue' = prepare_queue \ {m}
          /\ preparing = Idle /\ preparing'.op = m
          /\ UNCHANGED <<dropped, ended, rx_submit>>
      BY <2>2 DEF PreparePop, CanPop
    <3>2. c = {} /\ c' = {m} /\ d' = d
      BY <3>1, <1>q, <1>r DEF c, d
    <3>. QED BY <1>0, <1>2, <1>p, <2>0, <2>1, <3>1, <3>2 DEF Apart
  <2>3. CASE PrepareDelivered(m) \/ PrepareBuild(m)
    <3>1. /\ preparing.op = m /\ preparing'.op = m
          /\ UNCHANGED <<dropped, ended, rx_submit, prepare_queue>>
      BY <2>3 DEF PrepareDelivered, PrepareBuild
    <3>2. c' = c /\ d' = d
      BY <3>1 DEF c, d
    <3>. QED BY <1>0, <1>2, <1>p, <2>0, <2>1, <3>1, <3>2
  <2>4. CASE PrepareDrop(m)
    <3>1. /\ preparing.op = m /\ preparing' = Idle /\ dropped' = dropped \cup {m}
          /\ UNCHANGED <<ended, rx_submit, prepare_queue>>
      BY <2>4 DEF PrepareDrop
    <3>2. c = {m} /\ c' = {} /\ d' = d
      BY <3>1, <1>q, <1>r DEF c, d
    <3>3. InFlight' \subseteq InFlight /\ InFlight \subseteq InFlight' \cup {m}
      BY <1>0, <1>p, <2>0, <2>1, <3>1, <3>2
    <3>4. SentBelowNonce' /\ CommittedNeverRetried' /\ NothingLost'
      BY <1>0, <2>0, <3>1, <3>3, MoveKeepsPlacement
    <3>5. Apart(a', prepare_queue', c', d', e', confirm_queue', g')
      BY <1>0, <2>0, <2>1, <3>1, <3>2 DEF Apart
    <3>. QED BY <2>1, <3>4, <3>5 DEF Placement, a, c, d, e, g
  <2>5. CASE PrepareRetry(m)
    <3>1. /\ preparing.op = m /\ preparing' = Idle /\ prepare_queue' = prepare_queue \cup {m}
          /\ UNCHANGED <<dropped, ended, rx_submit>>
      BY <2>5 DEF PrepareRetry
    <3>2. c = {m} /\ c' = {} /\ d' = d
      BY <3>1, <1>q, <1>r DEF c, d
    <3>. QED BY <1>0, <1>2, <1>p, <2>0, <2>1, <3>1, <3>2 DEF Apart
  <2>6. CASE PrepareSend(m)
    <3>1. /\ preparing.op = m /\ preparing' = Idle /\ ended \subseteq ended'
          /\ UNCHANGED <<dropped, prepare_queue>>
      BY <2>6 DEF PrepareSend
    <3>2. c = {m} /\ c' = {}
      BY <3>1, <1>q, <1>r DEF c
    <3>3. CASE "submit" \in ended
      <4>1. UNCHANGED rx_submit /\ ended' # {}
        BY <2>6, <3>3 DEF PrepareSend
      <4>2. d' = d
        BY <4>1 DEF d
      <4>3. InFlight' \subseteq InFlight
        BY <1>0, <1>p, <2>0, <2>1, <3>1, <3>2, <4>2
      <4>4. SentBelowNonce' /\ CommittedNeverRetried' /\ NothingLost'
        BY <1>0, <2>0, <3>1, <4>1, <4>3, MoveKeepsPlacement
      <4>5. Apart(a', prepare_queue', c', d', e', confirm_queue', g')
        BY <1>0, <2>0, <2>1, <3>1, <3>2, <4>2 DEF Apart
      <4>. QED BY <2>1, <4>4, <4>5 DEF Placement, a, c, d, e, g
    <3>4. CASE "submit" \notin ended
      <4>1. rx_submit' = Append(rx_submit, m) /\ UNCHANGED ended
        BY <2>6, <3>4 DEF PrepareSend
      <4>2. d' = d \cup {m}
        BY <4>1, RangeAppend DEF d, TypeOK
      <4>3. InFlight' = InFlight
        BY <1>0, <1>p, <2>0, <2>1, <3>1, <3>2, <4>2
      <4>4. Apart(a', prepare_queue', c', d', e', confirm_queue', g')
        BY <1>0, <2>0, <2>1, <3>1, <3>2, <4>2 DEF Apart
      <4>. QED BY <1>2, <2>0, <2>1, <3>1, <4>1, <4>3, <4>4
    <3>. QED BY <3>3, <3>4
  <2>. QED BY <1>5, <2>2, <2>3, <2>4, <2>5, <2>6 DEF PrepareTask
<1>6. ASSUME NEW m \in Message, SubmitTask(m) PROVE Placement'
  <2>0. UNCHANGED <<message_nonce, processed, dropped, rx, preparing, confirming>>
    BY <1>6 DEF SubmitTask, SubmitAlready, SubmitBroadcast, SubmitExecuted, SubmitRetry,
                SubmitCritical, db
  <2>6. submitting.op = m
    <3>1. \E pc \in {"submit", "receipt"} : submitting = [op |-> m, pc |-> pc]
      BY <1>6 DEF SubmitTask, SubmitAlready, SubmitBroadcast, SubmitExecuted, SubmitRetry,
                  SubmitCritical
    <3>. QED BY <3>1
  <2>1. a' = a /\ c' = c /\ g' = g /\ Distinct(rx') /\ e = {m}
    BY <1>0, <1>q, <2>0, <2>6 DEF a, c, e, g
  <2>2. CASE SubmitAlready(m) \/ SubmitExecuted(m)
    <3>1. /\ submitting' = Idle /\ confirm_queue' = confirm_queue \cup {m}
          /\ UNCHANGED <<ended, rx_submit, prepare_queue>>
      BY <2>2 DEF SubmitAlready, SubmitExecuted
    <3>2. e' = {} /\ d' = d
      BY <3>1, <1>r DEF d, e
    <3>. QED BY <1>0, <1>2, <1>p, <2>0, <2>1, <3>1, <3>2 DEF Apart
  <2>3. CASE SubmitBroadcast(m)
    <3>1. submitting'.op = m /\ UNCHANGED <<ended, rx_submit, prepare_queue, confirm_queue>>
      BY <2>3 DEF SubmitBroadcast
    <3>2. e' = e /\ d' = d
      BY <2>6, <3>1 DEF d, e
    <3>. QED BY <1>0, <1>2, <1>p, <2>0, <2>1, <3>1, <3>2
  <2>4. CASE SubmitRetry(m)
    <3>1. /\ submitting' = Idle /\ prepare_queue' = prepare_queue \cup {m}
          /\ UNCHANGED <<ended, rx_submit, confirm_queue>>
      BY <2>4 DEF SubmitRetry
    <3>2. e' = {} /\ d' = d
      BY <3>1, <1>r DEF d, e
    <3>. QED BY <1>0, <1>2, <1>p, <2>0, <2>1, <3>1, <3>2 DEF Apart
  <2>5. CASE SubmitCritical(m)
    <3>1. /\ submitting' = Idle /\ rx_submit' = <<>> /\ ended' # {}
          /\ UNCHANGED <<prepare_queue, confirm_queue>>
      BY <2>5 DEF SubmitCritical
    <3>2. e' = {} /\ d' = {}
      BY <3>1, <1>r, RangeEmpty DEF d, e
    <3>3. InFlight' \subseteq InFlight
      BY <1>0, <1>p, <2>0, <2>1, <3>1, <3>2
    <3>4. SentBelowNonce' /\ CommittedNeverRetried' /\ NothingLost'
      BY <1>0, <2>0, <3>1, <3>3, MoveKeepsPlacement
    <3>5. Apart(a', prepare_queue', c', d', e', confirm_queue', g')
      BY <1>0, <2>0, <2>1, <3>1, <3>2 DEF Apart
    <3>. QED BY <2>1, <3>4, <3>5 DEF Placement, a, c, d, e, g
  <2>. QED BY <1>6, <2>2, <2>3, <2>4, <2>5 DEF SubmitTask
<1>7. ASSUME NEW m \in Message, ConfirmTask(m) PROVE Placement'
  <2>0. UNCHANGED <<message_nonce, dropped, rx, preparing, rx_submit, submitting>>
    BY <1>7 DEF ConfirmTask, ConfirmPop, ConfirmDelivered, ConfirmUndelivered, ConfirmError,
                ConfirmCritical
  <2>1. a' = a /\ c' = c /\ d' = d /\ e' = e /\ Distinct(rx')
    BY <1>0, <2>0 DEF a, c, d, e
  <2>2. CASE ConfirmPop(m)
    <3>1. /\ m \in confirm_queue /\ confirm_queue' = confirm_queue \ {m}
          /\ confirming = NoOp /\ confirming' = m
          /\ UNCHANGED <<processed, ended, prepare_queue>>
      BY <2>2 DEF ConfirmPop, CanPop, db
    <3>2. g = {} /\ g' = {m}
      BY <3>1, <1>q, <1>r DEF g
    <3>. QED BY <1>0, <1>2, <1>p, <2>0, <2>1, <3>1, <3>2 DEF Apart
  <2>3. CASE ConfirmDelivered(m)
    <3>1. /\ processed' = processed \cup {m} /\ confirming = m /\ confirming' = NoOp
          /\ UNCHANGED <<ended, prepare_queue, confirm_queue>>
      BY <2>3 DEF ConfirmDelivered
    <3>2. g = {m} /\ g' = {}
      BY <3>1, <1>q, <1>r DEF g
    <3>3. /\ InFlight' \subseteq InFlight /\ m \notin InFlight' /\ InFlight \subseteq InFlight' \cup {m}
      BY <1>0, <1>p, <2>0, <2>1, <3>1, <3>2 DEF Apart
    <3>4. SentBelowNonce' /\ CommittedNeverRetried' /\ NothingLost'
      BY <1>0, <2>0, <3>1, <3>3, MoveKeepsPlacement
    <3>5. Apart(a', prepare_queue', c', d', e', confirm_queue', g')
      BY <1>0, <2>0, <2>1, <3>1, <3>2 DEF Apart
    <3>. QED BY <2>1, <3>4, <3>5 DEF Placement, a, c, d, e, g
  <2>4. CASE ConfirmUndelivered(m)
    <3>1. /\ confirming = m /\ confirming' = NoOp /\ prepare_queue' = prepare_queue \cup {m}
          /\ UNCHANGED <<processed, ended, confirm_queue>>
      BY <2>4 DEF ConfirmUndelivered
    <3>2. g = {m} /\ g' = {}
      BY <3>1, <1>q, <1>r DEF g
    <3>. QED BY <1>0, <1>2, <1>p, <2>0, <2>1, <3>1, <3>2 DEF Apart
  <2>5. CASE ConfirmError(m)
    <3>1. /\ confirming = m /\ confirming' = NoOp /\ confirm_queue' = confirm_queue \cup {m}
          /\ UNCHANGED <<processed, ended, prepare_queue>>
      BY <2>5 DEF ConfirmError
    <3>2. g = {m} /\ g' = {}
      BY <3>1, <1>q, <1>r DEF g
    <3>. QED BY <1>0, <1>2, <1>p, <2>0, <2>1, <3>1, <3>2 DEF Apart
  <2>6. CASE ConfirmCritical(m)
    <3>1. /\ confirming = m /\ confirming' = NoOp /\ ended' # {}
          /\ UNCHANGED <<processed, prepare_queue, confirm_queue>>
      BY <2>6 DEF ConfirmCritical, db
    <3>2. g = {m} /\ g' = {}
      BY <3>1, <1>q, <1>r DEF g
    <3>3. InFlight' \subseteq InFlight
      BY <1>0, <1>p, <2>0, <2>1, <3>1, <3>2
    <3>4. SentBelowNonce' /\ CommittedNeverRetried' /\ NothingLost'
      BY <1>0, <2>0, <3>1, <3>3, MoveKeepsPlacement
    <3>5. Apart(a', prepare_queue', c', d', e', confirm_queue', g')
      BY <1>0, <2>0, <2>1, <3>1, <3>2 DEF Apart
    <3>. QED BY <2>1, <3>4, <3>5 DEF Placement, a, c, d, e, g
  <2>. QED BY <1>7, <2>2, <2>3, <2>4, <2>5, <2>6 DEF ConfirmTask
<1>8. CASE (\E m \in Message : Environment(m)) \/ UNCHANGED vars
  <2>1. UNCHANGED <<message_nonce, processed, rx, prepare_queue, preparing, rx_submit,
                    submitting, confirm_queue, confirming, dropped, ended>>
    BY <1>8 DEF Environment, StoreMessage, Elapse, Land, Finalize, Reorg, vars, db, pipeline
  <2>2. a' = a /\ c' = c /\ d' = d /\ e' = e /\ g' = g
    BY <2>1 DEF a, c, d, e, g
  <2>. QED BY <1>0, <1>2, <1>p, <2>1, <2>2
<1>9. CASE Restart
  <2>1. /\ rx' = <<>> /\ rx_submit' = <<>> /\ preparing' = Idle /\ submitting' = Idle
        /\ confirming' = NoOp /\ prepare_queue' = {} /\ confirm_queue' = {}
        /\ message_nonce' = [o \in Origins |-> 0]
    BY <1>9 DEF Restart
  <2>2. a' = {} /\ c' = {} /\ d' = {} /\ e' = {} /\ g' = {} /\ Distinct(rx') /\ InFlight' = {}
    BY <1>p, <1>r, <2>1, RangeEmpty DEF a, c, d, e, g
  <2>3. NothingLost'
    BY <2>1 DEF NothingLost, Message, Nonce, Origin
  <2>4. SentBelowNonce' /\ CommittedNeverRetried'
    BY <2>2 DEF SentBelowNonce, CommittedNeverRetried
  <2>5. Apart(a', prepare_queue', c', d', e', confirm_queue', g')
    BY <2>1, <2>2 DEF Apart
  <2>. QED BY <2>2, <2>3, <2>4, <2>5 DEF Placement, a, c, d, e, g
<1>. QED BY <1>1, <1>3, <1>4, <1>5, <1>6, <1>7, <1>8, <1>9 DEF Next

LEMMA PlacementInvariant == Spec => []Placement
<1>1. Init => TypeOK /\ Placement
  BY InitTypeOK, InitPlacement
<1>2. TypeOK /\ Placement /\ [Next]_vars => (TypeOK /\ Placement)'
  BY StepTypeOK, StepPlacement
<1>. QED BY <1>1, <1>2, PTL DEF Spec

(* No message ever has two operations in the pipeline. *)
THEOREM NoDuplicateOperation == Spec => []OneOperationPerMessage
<1>1. Placement => OneOperationPerMessage
  BY OneOperationExpanded DEF Placement
<1>. QED BY <1>1, PlacementInvariant, PTL

(* As long as no task has ended, no message the processors have passed is  *)
(* lost, whatever errors, reorgs and restarts there were.                  *)
THEOREM NothingIsLost == Spec => []NothingLost
<1>1. Placement => NothingLost
  BY DEF Placement
<1>. QED BY <1>1, PlacementInvariant, PTL

(* A message recorded as processed is never in the pipeline again, also    *)
(* after a restart.                                                        *)
THEOREM CommitIsFinal == Spec => []CommittedNeverRetried
<1>1. Placement => CommittedNeverRetried
  BY DEF Placement
<1>. QED BY <1>1, PlacementInvariant, PTL

-----------------------------------------------------------------------------
(* The flags of the operations, stage by stage                             *)

LEMMA InitStageFlags == Init => StageFlags
BY RangeEmpty DEF Init, StageFlags, Idle

LEMMA StepStageFlags ==
    TypeOK /\ Placement /\ StageFlags /\ [Next]_vars => StageFlags'
<1> SUFFICES ASSUME TypeOK, Placement, StageFlags, [Next]_vars PROVE StageFlags'
  OBVIOUS
<1> DEFINE a == Range(rx)  c == Held(preparing.op)  d == Range(rx_submit)
           e == Held(submitting.op)  g == Held(confirming)
<1>0. Apart(a, prepare_queue, c, d, e, confirm_queue, g)
  BY DEF Placement
<1>t. op \in [Message -> PendingMessage] /\ a \subseteq Message /\ d \subseteq Message
      /\ prepare_queue \subseteq Message /\ confirm_queue \subseteq Message
  BY DEF TypeOK, Range
<1>c. /\ preparing.pc # "idle" => preparing.op \in Message /\ c = {preparing.op}
      /\ submitting.pc # "idle" => submitting.op \in Message /\ e = {submitting.op}
      /\ confirming # NoOp => confirming \in Message /\ g = {confirming}
      /\ Idle.pc = "idle"
  BY DEF TypeOK, Idle, Held
<1> HIDE DEF a, c, d, e, g
<1>f. /\ \A k \in a : Fresh(op[k])
      /\ \A k \in prepare_queue : Fresh(op[k])
      /\ preparing.pc \in {"delivered", "build"} => Fresh(op[preparing.op])
      /\ preparing.pc = "send" => Prepared(op[preparing.op])
      /\ \A k \in d : Prepared(op[k])
      /\ submitting.pc = "submit" => Prepared(op[submitting.op])
      /\ submitting.pc = "receipt" => Fresh(op[submitting.op])
      /\ \A k \in confirm_queue : Submitted(op[k])
      /\ confirming # NoOp => Submitted(op[confirming]) /\ op[confirming].next # "waiting"
  BY DEF StageFlags, a, d
(* It is enough to look at the operations whose fields or whose stage the  *)
(* step changes.                                                           *)
<1>s. ASSUME NEW m \in Message,
             \A k \in Message \ {m} : op'[k] = op[k],
             a' \subseteq a \cup {m}, m \in a' => Fresh(op'[m]),
             prepare_queue' \subseteq prepare_queue \cup {m},
             m \in prepare_queue' => Fresh(op'[m]),
             \/ preparing' = preparing /\ (m \notin c \/ op' = op)
             \/ preparing'.pc = "idle"
             \/ /\ preparing'.op = m
                /\ preparing'.pc \in {"delivered", "build"} => Fresh(op'[m])
                /\ preparing'.pc = "send" => Prepared(op'[m]),
             d' \subseteq d \cup {m}, m \in d' => Prepared(op'[m]),
             \/ submitting' = submitting /\ (m \notin e \/ op' = op)
             \/ submitting'.pc = "idle"
             \/ /\ submitting'.op = m
                /\ submitting'.pc = "submit" => Prepared(op'[m])
                /\ submitting'.pc = "receipt" => Fresh(op'[m]),
             confirm_queue' \subseteq confirm_queue \cup {m},
             m \in confirm_queue' => Submitted(op'[m]),
             \/ confirming' = confirming /\ (m \notin g \/ op' = op)
             \/ confirming' = NoOp
             \/ confirming' = m /\ Submitted(op'[m]) /\ op'[m].next # "waiting"
      PROVE  StageFlags'
  <2>1. \A k \in Message \ {m} : /\ Fresh(op[k]) => Fresh(op'[k])
                                 /\ Prepared(op[k]) => Prepared(op'[k])
                                 /\ Submitted(op[k]) => Submitted(op'[k])
    BY <1>s DEF Fresh, Prepared, Submitted
  <2>2. (\A k \in a : Fresh(op[k]))' /\ (\A k \in prepare_queue : Fresh(op[k]))'
    BY <1>f, <1>s, <1>t, <2>1
  <2>3. (preparing.pc \in {"delivered", "build"} => Fresh(op[preparing.op]))'
        /\ (preparing.pc = "send" => Prepared(op[preparing.op]))'
    BY <1>c, <1>f, <1>s, <2>1
  <2>4. (\A k \in d : Prepared(op[k]))' /\ (\A k \in confirm_queue : Submitted(op[k]))'
    BY <1>f, <1>s, <1>t, <2>1
  <2>5. (submitting.pc = "submit" => Prepared(op[submitting.op]))'
        /\ (submitting.pc = "receipt" => Fresh(op[submitting.op]))'
    BY <1>c, <1>f, <1>s, <2>1
  <2>6. (confirming # NoOp => Submitted(op[confirming]) /\ op[confirming].next # "waiting")'
    BY <1>c, <1>f, <1>s, <2>1
  <2>. QED BY <2>2, <2>3, <2>4, <2>5, <2>6 DEF StageFlags, a, d
<1>1. ASSUME NEW o \in Origins, Processor(o) PROVE StageFlags'
  <2> DEFINE m == Current(o)
  <2>1. m \in Message /\ m \notin InFlight
    BY <1>1 DEF Processor, ProcessorSkip, ProcessorSend, Current, Message, TypeOK, Placement,
                SentBelowNonce, Nonce, Origin
  <2>2. m \notin c /\ m \notin e /\ m \notin g /\ m \notin prepare_queue /\ m \notin d
        /\ m \notin confirm_queue
    BY <2>1 DEF InFlight, c, d, e, g
  <2>3. UNCHANGED <<prepare_queue, preparing, rx_submit, submitting, confirm_queue, confirming>>
    BY <1>1 DEF Processor, ProcessorSkip, ProcessorSend
  <2>4. d' = d
    BY <2>3 DEF d
  <2>5. CASE ProcessorSkip(o)
    <3>1. a' = a /\ op' = op
      BY <2>5 DEF ProcessorSkip, a
    <3>. QED BY <1>s, <1>f, <2>1, <2>2, <2>3, <2>4, <3>1 DEF Fresh
  <2>6. CASE ProcessorSend(o)
    <3>1. a' = a \cup {m} /\ op' = [op EXCEPT ![m] = FromPersistedRetries(m)]
      BY <2>1, <2>6, RangeAppend DEF ProcessorSend, TypeOK, a
    <3>2. Fresh(op'[m])
      BY <1>t, <2>1, <3>1 DEF Fresh, FromPersistedRetries, NewPendingMessage
    <3>3. \A k \in Message \ {m} : op'[k] = op[k]
      BY <1>t, <3>1
    <3> HIDE DEF m
    <3>. QED BY <1>s, <2>1, <2>2, <2>3, <2>4, <3>1, <3>2, <3>3
  <2>. QED BY <1>1, <2>5, <2>6 DEF Processor
<1>2. CASE Receive
  <2> DEFINE m == Head(rx)
  <2>1. /\ rx' = Tail(rx) /\ rx # <<>> /\ prepare_queue' = prepare_queue \cup {m}
        /\ UNCHANGED <<op, preparing, rx_submit, submitting, confirm_queue, confirming>>
    BY <1>2 DEF Receive
  <2>2. m \in a /\ a' \subseteq a /\ d' = d
    BY <2>1, RangeTail DEF TypeOK, a, d
  <2>3. m \in Message /\ Fresh(op[m]) /\ Fresh(op'[m])
    BY <1>f, <1>t, <2>1, <2>2 DEF Fresh
  <2>4. m \notin d /\ m \notin confirm_queue
    BY <1>0, <2>2 DEF Apart
  <2> HIDE DEF m
  <2>. QED BY <1>s, <2>1, <2>2, <2>3, <2>4
<1>3. CASE SubmitRecv
  <2> DEFINE m == Head(rx_submit)
  <2>1. /\ rx_submit' = Tail(rx_submit) /\ rx_submit # <<>>
        /\ submitting' = [op |-> m, pc |-> "submit"]
        /\ UNCHANGED <<op, rx, prepare_queue, preparing, confirm_queue, confirming>>
    BY <1>3 DEF SubmitRecv
  <2>2. m \in d /\ d' \subseteq d /\ a' = a
    BY <2>1, RangeTail DEF TypeOK, a, d
  <2>3. m \in Message /\ Prepared(op'[m])
    BY <1>f, <1>t, <2>1, <2>2 DEF Prepared
  <2>4. m \notin a /\ m \notin prepare_queue /\ m \notin confirm_queue
    BY <1>0, <2>2 DEF Apart
  <2> HIDE DEF m
  <2>5. submitting'.op = m /\ submitting'.pc = "submit"
    BY <2>1
  <2>. QED BY <1>s, <2>1, <2>2, <2>3, <2>4, <2>5
<1>4. ASSUME NEW m \in Message, PrepareTask(m) PROVE StageFlags'
  <2>0. UNCHANGED <<rx, submitting, confirm_queue, confirming>>
    BY <1>4 DEF PrepareTask, PreparePop, PrepareDelivered, PrepareBuild, PrepareDrop,
                PrepareRetry, PrepareSend
  <2>1. a' = a
    BY <2>0 DEF a
  <2>2. CASE PreparePop(m)
    <3>1. /\ m \in prepare_queue /\ prepare_queue' = prepare_queue \ {m}
          /\ preparing'.op = m /\ preparing'.pc = "delivered" /\ UNCHANGED <<op, rx_submit>>
      BY <2>2 DEF PreparePop, CanPop
    <3>2. d' = d /\ m \notin a /\ m \notin d /\ m \notin confirm_queue
      BY <1>0, <3>1 DEF Apart, d
    <3>3. Fresh(op'[m])
      BY <1>f, <3>1 DEF Fresh
    <3>. QED BY <1>s, <2>0, <2>1, <3>1, <3>2, <3>3
  <2>a. CASE ~PreparePop(m)
    <3>1. preparing.op = m /\ preparing.pc # "idle"
      <4>1. \/ \E pc \in {"delivered", "build", "send"} : preparing = [op |-> m, pc |-> pc]
            \/ preparing.op = m /\ preparing.pc \in {"delivered", "build"}
        BY <1>4, <2>a DEF PrepareTask, PrepareDelivered, PrepareBuild, PrepareDrop, PrepareRetry,
                          PrepareSend
      <4>. QED BY <4>1
    <3>2. c = {m}
      BY <1>c, <3>1
    <3>3. m \notin a /\ m \notin prepare_queue /\ m \notin d /\ m \notin e
          /\ m \notin confirm_queue /\ m \notin g
      BY <1>0, <3>2 DEF Apart
    <3>4. CASE PrepareDelivered(m)
      <4>1. preparing.pc = "delivered" /\ preparing'.op = m /\ UNCHANGED <<prepare_queue, rx_submit>>
        BY <3>4 DEF PrepareDelivered
      <4>2. d' = d
        BY <4>1 DEF d
      <4>3. CASE Delivered(m)
        <5>1. MarkSubmitted(m) /\ preparing'.pc = "send"
          BY <3>4, <4>3 DEF PrepareDelivered
        <5>2. Prepared(op'[m]) /\ \A k \in Message \ {m} : op'[k] = op[k]
          BY <1>t, <5>1 DEF MarkSubmitted, Prepared
        <5>. QED BY <1>s, <2>0, <2>1, <3>3, <4>1, <4>2, <5>1, <5>2
      <4>4. CASE ~Delivered(m)
        <5>1. op' = op /\ preparing'.pc = "build"
          BY <3>4, <4>4 DEF PrepareDelivered
        <5>2. Fresh(op'[m])
          BY <1>f, <3>1, <4>1, <5>1 DEF Fresh
        <5>. QED BY <1>s, <2>0, <2>1, <3>3, <4>1, <4>2, <5>1, <5>2
      <4>. QED BY <4>3, <4>4
    <3>5. CASE PrepareBuild(m)
      <4>1. /\ preparing.pc = "build" /\ preparing'.op = m /\ preparing'.pc = "send"
            /\ UNCHANGED <<prepare_queue, rx_submit>> /\ op' = [op EXCEPT ![m].data = TRUE]
        BY <3>5 DEF PrepareBuild
      <4>2. d' = d
        BY <4>1 DEF d
      <4>3. Prepared(op'[m]) /\ \A k \in Message \ {m} : op'[k] = op[k]
        BY <1>f, <1>t, <3>1, <4>1 DEF Prepared, Fresh, PendingMessage
      <4>. QED BY <1>s, <2>0, <2>1, <3>3, <4>1, <4>2, <4>3
    <3>6. CASE PrepareDrop(m)
      <4>1. preparing'.pc = "idle" /\ UNCHANGED <<op, prepare_queue, rx_submit>>
        BY <3>6, <1>c DEF PrepareDrop
      <4>2. d' = d
        BY <4>1 DEF d
      <4>. QED BY <1>s, <2>0, <2>1, <3>3, <4>1, <4>2
    <3>7. CASE PrepareRetry(m)
      <4>1. /\ preparing'.pc = "idle" /\ prepare_queue' = prepare_queue \cup {m}
            /\ UNCHANGED rx_submit /\ OnReprepare(m) /\ preparing.pc \in {"delivered", "build"}
        BY <3>7, <1>c DEF PrepareRetry
      <4>2. d' = d
        BY <4>1 DEF d
      <4>3. Fresh(op'[m]) /\ \A k \in Message \ {m} : op'[k] = op[k]
        BY <1>f, <1>t, <3>1, <4>1 DEF Fresh, OnReprepare, Reprepared
      <4>. QED BY <1>s, <2>0, <2>1, <3>3, <4>1, <4>2, <4>3
    <3>8. CASE PrepareSend(m)
      <4>1. preparing'.pc = "idle" /\ UNCHANGED <<op, prepare_queue>> /\ preparing.pc = "send"
        BY <3>8, <1>c DEF PrepareSend
      <4>2. d' \subseteq d \cup {m}
        <5>1. rx_submit' = rx_submit \/ rx_submit' = Append(rx_submit, m)
          BY <3>8 DEF PrepareSend
        <5>2. Range(Append(rx_submit, m)) = Range(rx_submit) \cup {m}
          BY RangeAppend DEF TypeOK
        <5>. QED BY <5>1, <5>2 DEF d
      <4>3. Prepared(op'[m])
        BY <1>f, <3>1, <4>1 DEF Prepared
      <4>. QED BY <1>s, <2>0, <2>1, <3>3, <4>1, <4>2, <4>3
    <3>. QED BY <1>4, <2>a, <3>4, <3>5, <3>6, <3>7, <3>8 DEF PrepareTask
  <2>. QED BY <2>2, <2>a
<1>5. ASSUME NEW m \in Message, SubmitTask(m) PROVE StageFlags'
  <2>0. UNCHANGED <<rx, preparing, confirming>>
    BY <1>5 DEF SubmitTask, SubmitAlready, SubmitBroadcast, SubmitExecuted, SubmitRetry,
                SubmitCritical
  <2>1. submitting.op = m /\ submitting.pc # "idle"
    <3>1. \E pc \in {"submit", "receipt"} : submitting = [op |-> m, pc |-> pc]
      BY <1>5 DEF SubmitTask, SubmitAlready, SubmitBroadcast, SubmitExecuted, SubmitRetry,
                  SubmitCritical
    <3>. QED BY <3>1
  <2>2. a' = a /\ m \notin a /\ m \notin prepare_queue /\ m \notin c /\ m \notin d
        /\ m \notin confirm_queue /\ m \notin g
    BY <1>0, <1>c, <2>0, <2>1 DEF Apart, a
  <2>3. CASE SubmitAlready(m)
    <3>1. /\ submitting'.pc = "idle" /\ confirm_queue' = confirm_queue \cup {m}
          /\ UNCHANGED <<op, prepare_queue, rx_submit>>
          /\ submitting.pc = "submit" /\ op[m].submitted
      BY <2>3, <1>c DEF SubmitAlready
    <3>2. d' = d
      BY <3>1 DEF d
    <3>3. Submitted(op'[m])
      BY <1>f, <1>t, <2>1, <3>1 DEF Submitted, Prepared, PendingMessage
    <3>. QED BY <1>s, <2>0, <2>2, <3>1, <3>2, <3>3
  <2>4. CASE SubmitBroadcast(m)
    <3>1. /\ submitting'.op = m /\ submitting'.pc = "receipt"
          /\ UNCHANGED <<prepare_queue, rx_submit, confirm_queue>>
          /\ op' = [op EXCEPT ![m].data = FALSE] /\ ~op[m].submitted
      BY <2>4 DEF SubmitBroadcast
    <3>2. d' = d
      BY <3>1 DEF d
    <3>3. Fresh(op'[m]) /\ \A k \in Message \ {m} : op'[k] = op[k]
      BY <1>t, <3>1 DEF Fresh, PendingMessage
    <3>. QED BY <1>s, <2>0, <2>2, <3>1, <3>2, <3>3
  <2>5. CASE SubmitExecuted(m)
    <3>1. /\ submitting'.pc = "idle" /\ confirm_queue' = confirm_queue \cup {m}
          /\ UNCHANGED <<prepare_queue, rx_submit>> /\ MarkSubmitted(m)
      BY <2>5, <1>c DEF SubmitExecuted
    <3>2. d' = d
      BY <3>1 DEF d
    <3>3. Submitted(op'[m]) /\ \A k \in Message \ {m} : op'[k] = op[k]
      BY <1>t, <3>1 DEF Submitted, MarkSubmitted
    <3>. QED BY <1>s, <2>0, <2>2, <3>1, <3>2, <3>3
  <2>6. CASE SubmitRetry(m)
    <3>1. /\ submitting'.pc = "idle" /\ prepare_queue' = prepare_queue \cup {m}
          /\ UNCHANGED <<rx_submit, confirm_queue>> /\ OnReprepare(m)
          /\ submitting.pc = "receipt"
      BY <2>6, <1>c DEF SubmitRetry
    <3>2. d' = d
      BY <3>1 DEF d
    <3>3. Fresh(op'[m]) /\ \A k \in Message \ {m} : op'[k] = op[k]
      BY <1>f, <1>t, <2>1, <3>1 DEF Fresh, OnReprepare, Reprepared
    <3>. QED BY <1>s, <2>0, <2>2, <3>1, <3>2, <3>3
  <2>7. CASE SubmitCritical(m)
    <3>1. /\ submitting'.pc = "idle" /\ rx_submit' = <<>>
          /\ UNCHANGED <<op, prepare_queue, confirm_queue>>
      BY <2>7, <1>c DEF SubmitCritical
    <3>2. d' = {}
      BY <3>1, RangeEmpty DEF d
    <3>. QED BY <1>s, <2>0, <2>2, <3>1, <3>2
  <2>. QED BY <1>5, <2>3, <2>4, <2>5, <2>6, <2>7 DEF SubmitTask
<1>6. ASSUME NEW m \in Message, ConfirmTask(m) PROVE StageFlags'
  <2>0. UNCHANGED <<rx, preparing, rx_submit, submitting>>
    BY <1>6 DEF ConfirmTask, ConfirmPop, ConfirmDelivered, ConfirmUndelivered, ConfirmError,
                ConfirmCritical
  <2>1. a' = a /\ d' = d
    BY <2>0 DEF a, d
  <2>2. CASE ConfirmPop(m)
    <3>1. /\ m \in confirm_queue /\ confirm_queue' = confirm_queue \ {m} /\ confirming' = m
          /\ op[m].next # "waiting" /\ UNCHANGED <<op, prepare_queue>>
      BY <2>2 DEF ConfirmPop, CanPop, IsReady
    <3>2. m \notin a /\ m \notin prepare_queue /\ m \notin d
      BY <1>0, <3>1 DEF Apart
    <3>3. Submitted(op'[m])
      BY <1>f, <3>1 DEF Submitted
    <3>. QED BY <1>s, <2>0, <2>1, <3>1, <3>2, <3>3
  <2>a. CASE confirming = m
    <3>1. m \notin a /\ m \notin prepare_queue /\ m \notin c /\ m \notin d /\ m \notin e
          /\ m \notin confirm_queue /\ Submitted(op[m])
      BY <1>0, <1>c, <1>f, <2>a DEF Apart
    <3>2. CASE ConfirmDelivered(m) \/ ConfirmCritical(m)
      <4>1. confirming' = NoOp /\ UNCHANGED <<op, prepare_queue, confirm_queue>>
        BY <3>2 DEF ConfirmDelivered, ConfirmCritical
      <4>. QED BY <1>s, <2>0, <2>1, <3>1, <4>1
    <3>3. CASE ConfirmUndelivered(m)
      <4>1. /\ confirming' = NoOp /\ prepare_queue' = prepare_queue \cup {m}
            /\ UNCHANGED confirm_queue /\ op' = [op EXCEPT ![m] = Reprepared(m)]
        BY <3>3 DEF ConfirmUndelivered
      <4>2. Fresh(op'[m]) /\ \A k \in Message \ {m} : op'[k] = op[k]
        BY <1>t, <3>1, <4>1 DEF Fresh, Submitted, Reprepared
      <4>. QED BY <1>s, <2>0, <2>1, <3>1, <4>1, <4>2
    <3>4. CASE ConfirmError(m)
      <4>1. /\ confirming' = NoOp /\ confirm_queue' = confirm_queue \cup {m}
            /\ UNCHANGED prepare_queue /\ op' = [op EXCEPT ![m].next = Backoff(TRUE)]
        BY <3>4 DEF ConfirmError
      <4>2. Submitted(op'[m]) /\ \A k \in Message \ {m} : op'[k] = op[k]
        BY <1>t, <3>1, <4>1 DEF Submitted, PendingMessage
      <4>. QED BY <1>s, <2>0, <2>1, <3>1, <4>1, <4>2
    <3>5. ~ConfirmPop(m)
      BY <2>a DEF ConfirmPop
    <3>. QED BY <1>6, <3>2, <3>3, <3>4, <3>5 DEF ConfirmTask
  <2>. QED BY <1>6, <2>2, <2>a DEF ConfirmTask, ConfirmDelivered, ConfirmUndelivered,
                                   ConfirmError, ConfirmCritical
<1>7. ASSUME NEW m \in Message, Elapse(m) PROVE StageFlags'
  <2>1. /\ op' = [op EXCEPT ![m].next = "due"]
        /\ UNCHANGED <<rx, prepare_queue, preparing, rx_submit, submitting, confirm_queue,
                       confirming>>
    BY <1>7 DEF Elapse
  <2>2. \A k \in Message :
            /\ op'[k].submitted = op[k].submitted
            /\ op'[k].data = op[k].data
            /\ op[k].next # "waiting" => op'[k].next # "waiting"
    BY <1>t, <2>1 DEF PendingMessage
  <2>3. \A k \in Message :
            /\ Fresh(op[k]) => Fresh(op'[k])
            /\ Prepared(op[k]) => Prepared(op'[k])
            /\ Submitted(op[k]) => Submitted(op'[k])
    <3>1. TAKE k \in Message
    <3>2. op'[k].submitted = op[k].submitted /\ op'[k].data = op[k].data
      BY <2>2
    <3>. QED BY <3>2, Zenon DEF Fresh, Prepared, Submitted
  <2>4. a' = a /\ d' = d
    BY <2>1 DEF a, d
  <2>5. /\ \A k \in a' : Fresh(op'[k])
        /\ \A k \in prepare_queue' : Fresh(op'[k])
        /\ preparing'.pc \in {"delivered", "build"} => Fresh(op'[preparing'.op])
        /\ preparing'.pc = "send" => Prepared(op'[preparing'.op])
        /\ \A k \in d' : Prepared(op'[k])
    BY <1>c, <1>f, <1>t, <2>1, <2>3, <2>4
  <2>6. /\ submitting'.pc = "submit" => Prepared(op'[submitting'.op])
        /\ submitting'.pc = "receipt" => Fresh(op'[submitting'.op])
        /\ \A k \in confirm_queue' : Submitted(op'[k])
        /\ confirming' # NoOp => Submitted(op'[confirming']) /\ op'[confirming'].next # "waiting"
    BY <1>c, <1>f, <1>t, <2>1, <2>2, <2>3, <2>4
  <2>. QED BY <2>5, <2>6 DEF StageFlags, a, d
<1>8. CASE UNCHANGED vars \/ \E m \in Message : StoreMessage(m) \/ Land(m) \/ Finalize(m) \/ Reorg(m)
  <2>1. UNCHANGED pipeline
    BY <1>8 DEF StoreMessage, Land, Finalize, Reorg, vars
  <2>. QED BY <2>1 DEF pipeline, StageFlags, Fresh, Prepared, Submitted, Range
<1>9. CASE Restart
  <2>1. /\ rx' = <<>> /\ rx_submit' = <<>> /\ preparing'.pc = "idle" /\ submitting'.pc = "idle"
        /\ confirming' = NoOp /\ prepare_queue' = {} /\ confirm_queue' = {}
    BY <1>9 DEF Restart, Idle
  <2>. QED BY <2>1, RangeEmpty DEF StageFlags
<1>. QED BY <1>1, <1>2, <1>3, <1>4, <1>5, <1>6, <1>7, <1>8, <1>9 DEF Next, Environment
(* Every operation that reaches submit() is submitted already or prepared, *)
(* so its expect() cannot fail, and prepare() never starts with data left  *)
(* from an earlier attempt.                                                *)
LEMMA FlagsImplyDataFresh ==
    TypeOK /\ Placement /\ StageFlags => SubmissionDataFresh /\ SubmittedOnlyAfterPrepare
<1> SUFFICES ASSUME TypeOK, Placement, StageFlags
             PROVE  SubmissionDataFresh /\ SubmittedOnlyAfterPrepare
  OBVIOUS
<1> DEFINE a == Range(rx)  c == Held(preparing.op)  d == Range(rx_submit)
           e == Held(submitting.op)  g == Held(confirming)
<1>1. SubmittedOnlyAfterPrepare
  BY DEF SubmittedOnlyAfterPrepare, StageFlags, Held, Fresh, Submitted
<1>2. ASSUME NEW m \in InFlight
      PROVE  op[m].data <=> /\ \/ preparing = [op |-> m, pc |-> "send"]
                               \/ m \in d
                               \/ submitting = [op |-> m, pc |-> "submit"]
                            /\ ~op[m].submitted
  <2>0. /\ Apart(a, prepare_queue, c, d, e, confirm_queue, g)
        /\ m \in a \cup prepare_queue \cup c \cup d \cup e \cup confirm_queue \cup g
    BY <1>2 DEF Placement, InFlight
  <2>1. /\ preparing = [op |-> m, pc |-> "send"] => m \in c /\ preparing.pc = "send"
        /\ submitting = [op |-> m, pc |-> "submit"] => m \in e /\ submitting.pc = "submit"
        /\ m \in c => preparing.op = m /\ preparing.pc \in {"delivered", "build", "send"}
        /\ m \in c /\ preparing.pc = "send" => preparing = [op |-> m, pc |-> "send"]
        /\ m \in e => submitting.op = m /\ submitting.pc \in {"submit", "receipt"}
        /\ m \in e /\ submitting.pc = "submit" => submitting = [op |-> m, pc |-> "submit"]
        /\ m \in g => confirming = m /\ confirming # NoOp
    <3>1. m # NoOp
      BY <2>0 DEF TypeOK, Range, Held
    <3>. QED BY <3>1 DEF TypeOK, Held, Idle
  <2>2. CASE m \in a \cup prepare_queue \cup confirm_queue \cup g
    <3>1. ~op[m].data
      BY <2>1, <2>2 DEF StageFlags, Fresh, Submitted
    <3>2. m \notin c /\ m \notin d /\ m \notin e
      BY <2>0, <2>2 DEF Apart
    <3> HIDE DEF a, c, d, e, g
    <3>. QED BY <2>1, <3>1, <3>2
  <2>3. CASE m \in d
    BY <2>3 DEF StageFlags, Prepared
  <2>4. CASE m \in c
    <3>1. m \notin d /\ m \notin e
      BY <2>0, <2>4 DEF Apart
    <3> HIDE DEF a, c, d, e, g
    <3>. QED BY <2>1, <2>4, <3>1 DEF StageFlags, Prepared, Fresh
  <2>5. CASE m \in e
    <3>1. m \notin d /\ m \notin c
      BY <2>0, <2>5 DEF Apart
    <3> HIDE DEF a, c, d, e, g
    <3>. QED BY <2>1, <2>5, <3>1 DEF StageFlags, Prepared, Fresh
  <2>. QED BY <2>0, <2>2, <2>3, <2>4, <2>5
<1>. QED BY <1>1, <1>2 DEF SubmissionDataFresh

LEMMA FlagsInvariant == Spec => [](TypeOK /\ Placement /\ StageFlags)
<1>1. Init => TypeOK /\ Placement /\ StageFlags
  BY InitTypeOK, InitPlacement, InitStageFlags
<1>2. TypeOK /\ Placement /\ StageFlags /\ [Next]_vars => (TypeOK /\ Placement /\ StageFlags)'
  BY StepTypeOK, StepPlacement, StepStageFlags
<1>. QED BY <1>1, <1>2, PTL DEF Spec

(* The expect() of submit() cannot fail, and submission data of an earlier *)
(* attempt is never used again.                                            *)
THEOREM SubmitAlwaysPrepared == Spec => []SubmissionDataFresh
BY FlagsInvariant, FlagsImplyDataFresh, PTL

(* The debug_assert of confirm() cannot fail. *)
THEOREM ConfirmAlwaysSubmitted == Spec => []SubmittedOnlyAfterPrepare
BY FlagsInvariant, FlagsImplyDataFresh, PTL

-----------------------------------------------------------------------------
(* The delay before confirmation                                           *)

LEMMA StepCoveredByDelay ==
    TypeOK /\ StageFlags /\ CoveredByDelay /\ [Next]_vars => CoveredByDelay'
<1> DEFINE Covered(k, op_k, inc_k, prc) ==
              /\ inc_k # "late"
              /\ op_k.submitted /\ op_k.next # "waiting" => inc_k # "recent"
              /\ k \in prc => inc_k = "final"
<1> SUFFICES ASSUME TypeOK, StageFlags, CoveredByDelay, [Next]_vars, ~LateInclusion,
                    NEW k \in Message
             PROVE  Covered(k, op'[k], inclusion'[k], processed')
  BY DEF CoveredByDelay
<1>0. Covered(k, op[k], inclusion[k], processed)
  BY DEF CoveredByDelay
<1>t. /\ op \in [Message -> PendingMessage] /\ inclusion \in [Message -> Inclusion]
      /\ confirming # NoOp => confirming \in Message
  BY DEF TypeOK
(* a step that leaves the chain and the database alone, and makes no wait  *)
(* of a submitted operation elapse                                         *)
<1>1. ASSUME inclusion' = inclusion, processed' = processed,
             \/ op'[k] = op[k]
             \/ op'[k].submitted = op[k].submitted /\ op'[k].next = op[k].next
             \/ ~op'[k].submitted
             \/ op'[k].next = "waiting"
      PROVE  Covered(k, op'[k], inclusion'[k], processed')
  BY <1>0, <1>1
<1>2. ASSUME NEW o \in Origins, Processor(o)
      PROVE  Covered(k, op'[k], inclusion'[k], processed')
  <2>1. inclusion' = inclusion /\ processed' = processed
    BY <1>2 DEF Processor, ProcessorSkip, ProcessorSend, db, chain
  <2>2. op'[k] = op[k] \/ ~op'[k].submitted
    BY <1>2, <1>t DEF Processor, ProcessorSkip, ProcessorSend, FromPersistedRetries, NewPendingMessage
  <2>. QED BY <1>1, <2>1, <2>2
<1>3. CASE Receive \/ SubmitRecv \/ UNCHANGED vars
  <2>1. inclusion' = inclusion /\ processed' = processed /\ op' = op
    BY <1>3 DEF Receive, SubmitRecv, vars, db, chain, pipeline
  <2>. QED BY <1>1, <2>1
<1>4. ASSUME NEW m \in Message, PrepareTask(m)
      PROVE  Covered(k, op'[k], inclusion'[k], processed')
  <2>1. CASE PrepareDelivered(m)
    <3>1. CASE Delivered(m)
      <4>1. MarkSubmitted(m) /\ StartWait(m) /\ processed' = processed
        BY <2>1, <3>1 DEF PrepareDelivered, db
      <4>2. inclusion'[k] = inclusion[k]
        BY <1>0, <1>t, <4>1 DEF StartWait
      <4>3. op'[k] = op[k] \/ op'[k].next = "waiting"
        BY <1>t, <4>1 DEF MarkSubmitted
      <4>. QED BY <1>0, <4>1, <4>2, <4>3
    <3>2. CASE ~Delivered(m)
      <4>1. inclusion' = inclusion /\ processed' = processed /\ op' = op
        BY <2>1, <3>2 DEF PrepareDelivered, db
      <4>. QED BY <1>1, <4>1
    <3>. QED BY <3>1, <3>2
  <2>2. CASE PrepareBuild(m)
    <3>1. inclusion' = inclusion /\ processed' = processed
      BY <2>2 DEF PrepareBuild, db, chain
    <3>2. op'[k].submitted = op[k].submitted /\ op'[k].next = op[k].next
      BY <2>2, <1>t DEF PrepareBuild, PendingMessage
    <3>. QED BY <1>1, <3>1, <3>2
  <2>3. CASE PrepareRetry(m)
    <3>1. inclusion' = inclusion /\ processed' = processed
      BY <2>3 DEF PrepareRetry, chain
    <3>2. op'[k] = op[k] \/ ~op'[k].submitted
      BY <2>3, <1>t DEF PrepareRetry, OnReprepare, Reprepared
    <3>. QED BY <1>1, <3>1, <3>2
  <2>4. CASE PreparePop(m) \/ PrepareDrop(m) \/ PrepareSend(m)
    <3>1. inclusion' = inclusion /\ processed' = processed /\ op' = op
      BY <2>4 DEF PreparePop, PrepareDrop, PrepareSend, db, chain
    <3>. QED BY <1>1, <3>1
  <2>. QED BY <1>4, <2>1, <2>2, <2>3, <2>4 DEF PrepareTask
<1>5. ASSUME NEW m \in Message, SubmitTask(m)
      PROVE  Covered(k, op'[k], inclusion'[k], processed')
  <2>1. CASE SubmitAlready(m)
    <3>1. inclusion' = inclusion /\ processed' = processed /\ op' = op
      BY <2>1 DEF SubmitAlready, db, chain
    <3>. QED BY <1>1, <3>1
  <2>2. CASE SubmitBroadcast(m)
    <3>1. inclusion' = inclusion /\ processed' = processed
      BY <2>2 DEF SubmitBroadcast, db, chain
    <3>2. op'[k].submitted = op[k].submitted /\ op'[k].next = op[k].next
      BY <2>2, <1>t DEF SubmitBroadcast, PendingMessage
    <3>. QED BY <1>1, <3>1, <3>2
  <2>3. CASE SubmitExecuted(m)
    <3>1. /\ processed' = processed /\ inclusion[m] = "none"
          /\ inclusion' = [inclusion EXCEPT ![m] = "recent"] /\ MarkSubmitted(m)
      BY <2>3 DEF SubmitExecuted, Delivered
    <3>2. CASE k = m
      <4>1. op'[k].next = "waiting" /\ inclusion'[k] = "recent"
        BY <1>t, <3>1, <3>2 DEF MarkSubmitted
      <4>2. k \notin processed
        BY <1>0, <3>1, <3>2
      <4>. QED BY <3>1, <4>1, <4>2
    <3>3. CASE k # m
      <4>1. op'[k] = op[k] /\ inclusion'[k] = inclusion[k]
        BY <1>t, <3>1, <3>3 DEF MarkSubmitted
      <4>. QED BY <1>0, <3>1, <4>1
    <3>. QED BY <3>2, <3>3
  <2>4. CASE SubmitRetry(m)
    <3>1. inclusion' = inclusion /\ processed' = processed
      BY <2>4 DEF SubmitRetry, chain
    <3>2. op'[k] = op[k] \/ ~op'[k].submitted
      BY <2>4, <1>t DEF SubmitRetry, OnReprepare, Reprepared
    <3>. QED BY <1>1, <3>1, <3>2
  <2>5. CASE SubmitCritical(m)
    <3>1. /\ processed' = processed /\ op' = op
          /\ \/ inclusion[m] = "none" /\ inclusion' = [inclusion EXCEPT ![m] = "recent"]
             \/ inclusion' = inclusion
      BY <2>5 DEF SubmitCritical, Delivered, db
    <3>2. submitting = [op |-> m, pc |-> "receipt"]
      BY <2>5 DEF SubmitCritical
    <3>3. ~op[m].submitted
      BY <3>2 DEF StageFlags, Fresh
    <3>. QED BY <1>0, <1>t, <3>1, <3>3
  <2>. QED BY <1>5, <2>1, <2>2, <2>3, <2>4, <2>5 DEF SubmitTask
<1>6. ASSUME NEW m \in Message, ConfirmTask(m)
      PROVE  Covered(k, op'[k], inclusion'[k], processed')
  <2>1. CASE ConfirmPop(m) \/ ConfirmCritical(m)
    <3>1. inclusion' = inclusion /\ processed' = processed /\ op' = op
      BY <2>1 DEF ConfirmPop, ConfirmCritical, db, chain
    <3>. QED BY <1>1, <3>1
  <2>2. CASE ConfirmDelivered(m)
    <3>1. /\ inclusion' = inclusion /\ op' = op /\ processed' = processed \cup {m}
          /\ confirming = m /\ inclusion[m] # "none"
      BY <2>2 DEF ConfirmDelivered, Delivered, chain
    <3>2. op[m].submitted /\ op[m].next # "waiting"
      BY <3>1 DEF StageFlags, Submitted
    <3>3. inclusion[m] \in Inclusion /\ (k = m => inclusion[m] # "late" /\ inclusion[m] # "recent")
      BY <1>0, <1>t, <3>2
    <3>. QED BY <1>0, <3>1, <3>3 DEF Inclusion
  <2>3. CASE ConfirmUndelivered(m) \/ ConfirmError(m)
    <3>1. inclusion' = inclusion /\ processed' = processed
      BY <2>3 DEF ConfirmUndelivered, ConfirmError, chain
    <3>2. op'[k] = op[k] \/ op'[k].next = "waiting"
      <4>1. CASE ConfirmUndelivered(m)
        BY <4>1, <1>t DEF ConfirmUndelivered, Reprepared, Backoff
      <4>2. CASE ConfirmError(m)
        <5>1. op' = [op EXCEPT ![m].next = "waiting"]
          BY <4>2 DEF ConfirmError, Backoff
        <5>. QED BY <5>1, <1>t DEF PendingMessage
      <4>. QED BY <2>3, <4>1, <4>2
    <3>. QED BY <1>1, <3>1, <3>2
  <2>. QED BY <1>6, <2>1, <2>2, <2>3 DEF ConfirmTask
<1>7. ASSUME NEW m \in Message, Environment(m)
      PROVE  Covered(k, op'[k], inclusion'[k], processed')
  <2>1. CASE StoreMessage(m)
    <3>1. inclusion' = inclusion /\ processed' = processed /\ op' = op
      BY <2>1 DEF StoreMessage, pipeline, chain
    <3>. QED BY <1>1, <3>1
  <2>2. CASE Elapse(m)
    <3>1. /\ inclusion' = inclusion /\ processed' = processed
          /\ ~(op[m].submitted /\ inclusion[m] = "recent")
          /\ op' = [op EXCEPT ![m].next = "due"]
      BY <2>2 DEF Elapse, db, chain
    <3>2. op'[k] = op[k] \/ k = m
      BY <1>t, <3>1
    <3>3. op'[k].submitted = op[k].submitted
      BY <1>t, <3>1 DEF PendingMessage
    <3>. QED BY <1>0, <3>1, <3>2, <3>3
  <2>3. CASE Land(m)
    <3>1. /\ processed' = processed /\ op' = op /\ inclusion[m] = "none" /\ ~op[m].submitted
          /\ inclusion' = [inclusion EXCEPT ![m] = "recent"]
      BY <2>3 DEF Land, Delivered, db, pipeline
    <3>. QED BY <1>0, <1>t, <3>1
  <2>4. CASE Finalize(m)
    <3>1. processed' = processed /\ op' = op /\ inclusion' = [inclusion EXCEPT ![m] = "final"]
      BY <2>4 DEF Finalize, db, pipeline
    <3>. QED BY <1>0, <1>t, <3>1
  <2>5. CASE Reorg(m)
    <3>1. /\ processed' = processed /\ op' = op /\ inclusion' = [inclusion EXCEPT ![m] = "none"]
          /\ inclusion[m] \in {"recent", "late"}
      BY <2>5 DEF Reorg, db, pipeline
    <3>. QED BY <1>0, <1>t, <3>1
  <2>. QED BY <1>7, <2>1, <2>2, <2>3, <2>4, <2>5 DEF Environment
<1>8. CASE Restart
  <2>1. inclusion' = inclusion /\ processed' = processed /\ ~op'[k].submitted
    BY <1>8 DEF Restart, NewPendingMessage, db, chain
  <2>. QED BY <1>1, <2>1
<1>. QED BY <1>2, <1>3, <1>4, <1>5, <1>6, <1>7, <1>8 DEF Next

(* If no message lands on chain while its operation awaits confirmation,   *)
(* then what is recorded as processed is final on chain, however the chain *)
(* reorganises: CONFIRM_DELAY and the second delivered() check suffice.    *)
THEOREM ReorgSafety ==
    Spec => [](~LateInclusion => CommittedStaysDelivered)
<1>1. Init => CoveredByDelay
  BY DEF Init, CoveredByDelay, NewPendingMessage
<1>2. TypeOK /\ CoveredByDelay => (~LateInclusion => CommittedStaysDelivered)
  BY DEF CoveredByDelay, CommittedStaysDelivered, Delivered, TypeOK
<1>. QED BY <1>1, <1>2, FlagsInvariant, StepCoveredByDelay, PTL DEF Spec

-----------------------------------------------------------------------------
(* The order of first attempts                                             *)

(* Operations that receive_task has taken out of the channel. *)
Received ==
    prepare_queue \cup Held(preparing.op) \cup Range(rx_submit)
        \cup Held(submitting.op) \cup confirm_queue \cup Held(confirming)

(* The channel has the messages of an origin in the order of their nonces, *)
(* all of them after those that were received, retries included.           *)
ChannelInOrder ==
    /\ \A i, j \in DOMAIN rx :
          i < j /\ Origin(rx[i]) = Origin(rx[j]) => Nonce(rx[i]) < Nonce(rx[j])
    /\ \A m \in Received : \A k \in Range(rx) :
          Origin(m) = Origin(k) => Nonce(m) < Nonce(k)

LEMMA SendKeepsOrder ==
    ASSUME TypeOK, Placement, ChannelInOrder, NEW o \in Origins, ProcessorSend(o)
    PROVE  ChannelInOrder'
<1> DEFINE m == Current(o)
<1>1. /\ m \in Message /\ Nonce(m) = message_nonce[o] /\ Origin(m) = o
      /\ rx' = Append(rx, m) /\ rx \in Seq(Message)
  BY DEF ProcessorSend, Current, Message, TypeOK, Nonce, Origin
<1>2. Received' = Received
  BY DEF ProcessorSend, Received, Held, Range
<1>3. \A k \in Received \cup Range(rx) : Origin(k) = o => Nonce(k) < Nonce(m)
  BY <1>1 DEF Placement, SentBelowNonce, InFlight, Received
<1> HIDE DEF m
<1>4. /\ Len(rx) \in Nat /\ DOMAIN rx = 1 .. Len(rx) /\ DOMAIN rx' = 1 .. Len(rx) + 1
      /\ \A i \in 1 .. Len(rx) : rx'[i] = rx[i]
      /\ rx'[Len(rx) + 1] = m
  BY <1>1
<1>5. Range(rx') = Range(rx) \cup {m}
  BY <1>1, RangeAppend
<1>6. ASSUME NEW i \in DOMAIN rx', NEW j \in DOMAIN rx', i < j, Origin(rx'[i]) = Origin(rx'[j])
      PROVE  Nonce(rx'[i]) < Nonce(rx'[j])
  <2>1. i \in DOMAIN rx /\ rx'[i] = rx[i] /\ rx[i] \in Range(rx)
    BY <1>4, <1>6 DEF Range
  <2>2. CASE j = Len(rx) + 1
    BY <1>1, <1>3, <1>4, <1>6, <2>1, <2>2
  <2>3. CASE j # Len(rx) + 1
    <3>1. j \in DOMAIN rx /\ rx'[j] = rx[j]
      BY <1>4, <2>3
    <3>. QED BY <1>6, <2>1, <3>1 DEF ChannelInOrder
  <2>. QED BY <2>2, <2>3
<1>7. ASSUME NEW k \in Received, NEW n \in Range(rx'), Origin(k) = Origin(n)
      PROVE  Nonce(k) < Nonce(n)
  BY <1>1, <1>3, <1>5, <1>7 DEF ChannelInOrder
<1>. QED BY <1>2, <1>6, <1>7 DEF ChannelInOrder

LEMMA ReceiveKeepsOrder ==
    ASSUME TypeOK, ChannelInOrder, Receive
    PROVE  ChannelInOrder'
<1>1. /\ rx \in Seq(Message) /\ rx # <<>> /\ rx' = Tail(rx)
      /\ Received' = Received \cup {Head(rx)}
  BY DEF Receive, TypeOK, Received, Held, Range
<1>2. /\ Len(rx) \in Nat /\ Len(rx) >= 1 /\ DOMAIN rx = 1 .. Len(rx) /\ Head(rx) = rx[1]
      /\ DOMAIN rx' = 1 .. Len(rx) - 1 /\ \A i \in DOMAIN rx' : rx'[i] = rx[i + 1]
  BY <1>1
<1>3. ASSUME NEW i \in DOMAIN rx'
      PROVE  i \in Int /\ i + 1 \in DOMAIN rx /\ rx'[i] = rx[i + 1] /\ rx[i + 1] \in Range(rx)
  BY <1>2 DEF Range
<1>4. ASSUME NEW i \in DOMAIN rx', NEW j \in DOMAIN rx', i < j, Origin(rx'[i]) = Origin(rx'[j])
      PROVE  Nonce(rx'[i]) < Nonce(rx'[j])
  <2>1. i + 1 < j + 1
    BY <1>3, <1>4
  <2>. QED BY <1>3, <1>4, <2>1 DEF ChannelInOrder
<1>5. ASSUME NEW k \in Received', NEW i \in DOMAIN rx', Origin(k) = Origin(rx'[i])
      PROVE  Nonce(k) < Nonce(rx'[i])
  <2>1. CASE k \in Received
    BY <1>3, <1>5, <2>1 DEF ChannelInOrder
  <2>2. CASE k = rx[1]
    <3>1. 1 \in DOMAIN rx /\ i + 1 \in DOMAIN rx /\ 1 < i + 1
      BY <1>2, <1>3
    <3>. QED BY <1>3, <1>5, <2>2, <3>1 DEF ChannelInOrder
  <2>. QED BY <1>1, <1>2, <2>1, <2>2
<1>. QED BY <1>4, <1>5 DEF ChannelInOrder, Range

(* Nothing else adds to what was received or reorders the channel. *)
LEMMA OthersKeepOrder ==
    ASSUME ChannelInOrder, UNCHANGED rx, Received' \subseteq Received
    PROVE  ChannelInOrder'
BY DEF ChannelInOrder

LEMMA StepChannelInOrder ==
    TypeOK /\ Placement /\ ChannelInOrder /\ [Next]_vars => ChannelInOrder'
<1> SUFFICES ASSUME TypeOK, Placement, ChannelInOrder, [Next]_vars PROVE ChannelInOrder'
  OBVIOUS
<1>q. \A m \in Message : m # NoOp /\ Held(m) = {m}
  BY DEF Held
<1>r. Held(Idle.op) = {} /\ Held(NoOp) = {}
  BY DEF Held, Idle
<1>1. ASSUME NEW o \in Origins, Processor(o) PROVE ChannelInOrder'
  <2>1. CASE ProcessorSkip(o)
    BY <2>1, OthersKeepOrder DEF ProcessorSkip, Received, Held, Range
  <2>. QED BY <1>1, <2>1, SendKeepsOrder DEF Processor
<1>2. CASE Receive
  BY <1>2, ReceiveKeepsOrder
<1>3. CASE SubmitRecv
  <2>1. /\ Head(rx_submit) \in Message /\ Held(submitting'.op) = {Head(rx_submit)}
        /\ Head(rx_submit) \in Range(rx_submit) /\ Range(rx_submit') \subseteq Range(rx_submit)
    BY <1>3, <1>q, RangeTail DEF SubmitRecv, TypeOK
  <2>2. /\ UNCHANGED <<rx, prepare_queue, confirm_queue>>
        /\ Held(preparing'.op) = Held(preparing.op) /\ Held(confirming') = Held(confirming)
    BY <1>3 DEF SubmitRecv
  <2>3. Received' \subseteq Received
    BY <2>1, <2>2 DEF Received
  <2>. QED BY <2>2, <2>3, OthersKeepOrder
<1>4. ASSUME NEW m \in Message, PrepareTask(m) PROVE ChannelInOrder'
  <2>1. /\ UNCHANGED <<rx, confirm_queue>> /\ Held(confirming') = Held(confirming)
        /\ Held(submitting'.op) = Held(submitting.op)
    BY <1>4 DEF PrepareTask, PreparePop, PrepareDelivered, PrepareBuild, PrepareDrop,
                PrepareRetry, PrepareSend
  <2>2. m \in prepare_queue \cup Held(preparing.op)
    BY <1>4, <1>q DEF PrepareTask, PreparePop, CanPop, PrepareDelivered, PrepareBuild,
                      PrepareDrop, PrepareRetry, PrepareSend
  <2>3. prepare_queue' \subseteq prepare_queue \cup {m}
    BY <1>4 DEF PrepareTask, PreparePop, PrepareDelivered, PrepareBuild, PrepareDrop,
                PrepareRetry, PrepareSend
  <2>4. Held(preparing'.op) \subseteq {m}
    BY <1>4, <1>q, <1>r DEF PrepareTask, PreparePop, PrepareDelivered, PrepareBuild,
                            PrepareDrop, PrepareRetry, PrepareSend
  <2>5. Range(rx_submit') \subseteq Range(rx_submit) \cup {m}
    <3>1. rx_submit' = rx_submit \/ rx_submit' = Append(rx_submit, m)
      BY <1>4 DEF PrepareTask, PreparePop, PrepareDelivered, PrepareBuild, PrepareDrop,
                  PrepareRetry, PrepareSend
    <3>2. Range(Append(rx_submit, m)) = Range(rx_submit) \cup {m}
      BY RangeAppend DEF TypeOK
    <3>3. CASE rx_submit' = rx_submit
      BY <3>3
    <3>4. CASE rx_submit' = Append(rx_submit, m)
      BY <3>2, <3>4
    <3>. QED BY <3>1, <3>3, <3>4
  <2>6. Received' \subseteq Received
    BY <2>1, <2>2, <2>3, <2>4, <2>5 DEF Received
  <2>. QED BY <2>1, <2>6, OthersKeepOrder
<1>5. ASSUME NEW m \in Message, SubmitTask(m) PROVE ChannelInOrder'
  <2>1. /\ UNCHANGED rx /\ Held(preparing'.op) = Held(preparing.op)
        /\ Held(confirming') = Held(confirming)
    BY <1>5 DEF SubmitTask, SubmitAlready, SubmitBroadcast, SubmitExecuted, SubmitRetry,
                SubmitCritical
  <2>2. m \in Held(submitting.op)
    <3>1. \/ submitting = [op |-> m, pc |-> "submit"]
          \/ submitting = [op |-> m, pc |-> "receipt"]
      BY <1>5, Zenon DEF SubmitTask, SubmitAlready, SubmitBroadcast, SubmitExecuted,
                         SubmitRetry, SubmitCritical
    <3>2. submitting.op = m
      BY <3>1
    <3>. QED BY <1>q, <3>2
  <2>3. /\ prepare_queue' \subseteq prepare_queue \cup {m}
        /\ confirm_queue' \subseteq confirm_queue \cup {m}
    BY <1>5 DEF SubmitTask, SubmitAlready, SubmitBroadcast, SubmitExecuted, SubmitRetry,
                SubmitCritical
  <2>4. Held(submitting'.op) \subseteq {m}
    <3>1. submitting' = Idle \/ submitting' = [op |-> m, pc |-> "receipt"]
      BY <1>5, Zenon DEF SubmitTask, SubmitAlready, SubmitBroadcast, SubmitExecuted,
                         SubmitRetry, SubmitCritical
    <3>2. submitting' = Idle \/ submitting'.op = m
      BY <3>1
    <3>. QED BY <1>q, <1>r, <3>2
  <2>5. Range(rx_submit') \subseteq Range(rx_submit)
    <3>1. rx_submit' = rx_submit \/ rx_submit' = <<>>
      BY <1>5 DEF SubmitTask, SubmitAlready, SubmitBroadcast, SubmitExecuted, SubmitRetry,
                  SubmitCritical
    <3>. QED BY <3>1, RangeEmpty
  <2>6. Received' \subseteq Received
    BY <2>1, <2>2, <2>3, <2>4, <2>5 DEF Received
  <2>. QED BY <2>1, <2>6, OthersKeepOrder
<1>6. ASSUME NEW m \in Message, ConfirmTask(m) PROVE ChannelInOrder'
  <2>1. /\ UNCHANGED <<rx, rx_submit>> /\ Held(preparing'.op) = Held(preparing.op)
        /\ Held(submitting'.op) = Held(submitting.op)
    BY <1>6 DEF ConfirmTask, ConfirmPop, ConfirmDelivered, ConfirmUndelivered,
                ConfirmError, ConfirmCritical
  <2>2. m \in confirm_queue \cup Held(confirming)
    BY <1>6, <1>q DEF ConfirmTask, ConfirmPop, CanPop, ConfirmDelivered,
                      ConfirmUndelivered, ConfirmError, ConfirmCritical
  <2>3. /\ prepare_queue' \subseteq prepare_queue \cup {m}
        /\ confirm_queue' \subseteq confirm_queue \cup {m}
    BY <1>6 DEF ConfirmTask, ConfirmPop, ConfirmDelivered, ConfirmUndelivered,
                ConfirmError, ConfirmCritical
  <2>4. Held(confirming') \subseteq {m}
    BY <1>6, <1>q, <1>r DEF ConfirmTask, ConfirmPop, ConfirmDelivered,
                            ConfirmUndelivered, ConfirmError, ConfirmCritical
  <2>6. Received' \subseteq Received
    BY <2>1, <2>2, <2>3, <2>4 DEF Received, Range
  <2>. QED BY <2>1, <2>6, OthersKeepOrder
<1>7. ASSUME NEW m \in Message, Environment(m) PROVE ChannelInOrder'
  <2>1. UNCHANGED <<rx, prepare_queue, preparing, rx_submit, submitting, confirm_queue, confirming>>
    BY <1>7 DEF Environment, StoreMessage, Elapse, Land, Finalize, Reorg, pipeline
  <2>. QED BY <2>1, OthersKeepOrder DEF Received, Range, Held
<1>8. CASE Restart
  BY <1>8, RangeEmpty DEF Restart, ChannelInOrder
<1>9. CASE UNCHANGED vars
  <2>1. UNCHANGED <<rx, prepare_queue, preparing, rx_submit, submitting, confirm_queue, confirming>>
    BY <1>9 DEF vars, pipeline
  <2>. QED BY <2>1, OthersKeepOrder DEF Received, Range, Held
<1>. QED BY <1>1, <1>2, <1>3, <1>4, <1>5, <1>6, <1>7, <1>8, <1>9 DEF Next

(* With one origin, first attempts are made in the order of the nonces:    *)
(* an untried operation that prepare_task pops comes before every untried  *)
(* one that is queued or still in the channel, after any retries, reorgs   *)
(* and restarts.                                                           *)
THEOREM AttemptsInOrder == Spec => FirstAttemptsInOrder
<1>1. Init => ChannelInOrder
  <2>1. Init => Range(rx) = {} /\ DOMAIN rx = {}
    BY RangeEmpty DEF Init
  <2>. QED BY <2>1 DEF ChannelInOrder
<1>2. ASSUME TypeOK, ChannelInOrder, [Next]_vars
      PROVE  [\A m, k \in Message :
                /\ SingleOrigin /\ PreparePop(m) /\ op[m].next = "none"
                /\ k \in prepare_queue \cup Range(rx) /\ op[k].next = "none"
                => Nonce(m) <= Nonce(k)]_vars
  <2> SUFFICES ASSUME NEW m \in Message, NEW k \in Message, SingleOrigin, PreparePop(m),
                      op[m].next = "none", k \in prepare_queue \cup Range(rx),
                      op[k].next = "none"
               PROVE  Nonce(m) <= Nonce(k)
    OBVIOUS
  <2>1. CanPop(prepare_queue, m)
    BY DEF PreparePop
  <2>2. CASE k \in prepare_queue
    <3>1. Rank(m) = 0 /\ Rank(k) = 0
      BY DEF Rank
    <3>. QED BY <2>1, <2>2, <3>1 DEF CanPop
  <2>3. CASE k \in Range(rx)
    <3>1. m \in Received
      BY <2>1 DEF CanPop, Received
    <3>2. Origin(m) = Origin(k)
      BY DEF SingleOrigin, Origin, Message
    <3>3. Nonce(m) \in Int /\ Nonce(k) \in Int
      BY DEF Nonce, Message
    <3>4. \A n \in Received : \A l \in Range(rx) : Origin(n) = Origin(l) => Nonce(n) < Nonce(l)
      BY <1>2 DEF ChannelInOrder
    <3>. QED BY <2>3, <3>1, <3>2, <3>3, <3>4
  <2>. QED BY <2>2, <2>3
<1>. QED
  BY <1>1, <1>2, FlagsInvariant, StepChannelInOrder, PTL DEF Spec, FirstAttemptsInOrder

=============================================================================
