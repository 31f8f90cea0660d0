--------------------------- MODULE SequenceLemmas --------------------------
(***************************************************************************)
(* Lemmas that the proofs about several components rest on: the induction  *)
(* principle they use, what the insertion of PrioOps does to any queue,    *)
(* what removing an element leaves, remainders, and the values of a fold   *)
(* over a sequence and of a sum.                                           *)
(*                                                                         *)
(* Induction is by a least counterexample: the induction theorems of the   *)
(* library take the property as an operator, which the provers cannot      *)
(* instantiate.  The same way shows that a recursive function exists, and  *)
(* so that it satisfies its defining equation.                             *)
(***************************************************************************)
EXTENDS PrioOps, SequencesExt, WellFoundedInduction, FiniteSetTheorems, TLAPS

\* A set of natural numbers that is not empty has a least one: the induction
\* principle of these proofs.
LEMMA LeastNumber ==
    ASSUME NEW T \in SUBSET Nat, T # {}
    PROVE  \E n \in T : \A m \in T : n <= m
<1>1. PICK n \in T : \A m \in T : ~(<<m, n>> \in OpToRel(<, Nat))
  BY NatLessThanWellFounded, WFMin, Zenon
<1>2. \A m \in T : ~(m < n)
  BY <1>1, Zenon DEF OpToRel
<1> QED
  BY <1>2

\* The rank of a packet is where the first less urgent packet is, or the end.
LEMMA RankExists ==
    ASSUME NEW prios \in Seq(Nat), NEW x \in Nat
    PROVE  /\ Rank(prios, x) \in 0 .. Len(prios)
           /\ \A i \in 1 .. Rank(prios, x) : prios[i] <= x
           /\ Rank(prios, x) = Len(prios) \/ prios[Rank(prios, x) + 1] > x
<1> DEFINE Stop == {n \in 0 .. Len(prios) : n = Len(prios) \/ prios[n + 1] > x}
           IsRank(k) == /\ \A i \in 1 .. k : prios[i] <= x
                        /\ k = Len(prios) \/ prios[k + 1] > x
<1>1. PICK k \in Stop : \A m \in Stop : k <= m
  <2>1. Len(prios) \in Stop /\ Stop \in SUBSET Nat
    OBVIOUS
  <2> QED
    BY <2>1, LeastNumber, Zenon
<1>2. \A i \in 1 .. k : prios[i] <= x
  <2> SUFFICES ASSUME NEW i \in 1 .. k PROVE prios[i] <= x
    OBVIOUS
  <2>1. k \in 0 .. Len(prios)
    BY <1>1
  <2>2. i - 1 \in 0 .. Len(prios) /\ i - 1 < k /\ prios[i] \in Nat
    BY <2>1
  <2>3. i - 1 \notin Stop
    <3> HIDE DEF Stop
    <3> QED
      BY <1>1, <2>1, <2>2
  <2> QED
    BY <2>1, <2>2, <2>3
<1>3. \E n \in 0 .. Len(prios) : IsRank(n)
  BY <1>1, <1>2
<1>4. Rank(prios, x) = CHOOSE n \in 0 .. Len(prios) : IsRank(n)
  BY DEF Rank
<1> HIDE DEF IsRank
<1>5. Rank(prios, x) \in 0 .. Len(prios) /\ IsRank(Rank(prios, x))
  BY <1>3, <1>4, Zenon
<1> QED
  BY <1>5 DEF IsRank

\* What PutBehind does, element by element.
LEMMA PutBehindAt ==
    ASSUME NEW S, NEW q \in Seq(S), NEW p \in S, NEW k \in 0 .. Len(q)
    PROVE  /\ PutBehind(q, p, k) \in Seq(S)
           /\ Len(PutBehind(q, p, k)) = Len(q) + 1
           /\ \A i \in 1 .. Len(q) + 1 :
                PutBehind(q, p, k)[i] = IF i <= k THEN q[i] ELSE IF i = k + 1 THEN p ELSE q[i - 1]
<1> DEFINE a == SubSeq(q, 1, k)
           b == SubSeq(q, k + 1, Len(q))
<1>1. /\ a \in Seq(S) /\ Len(a) = k
      /\ \A i \in 1 .. k : a[i] = q[i]
  OBVIOUS
<1>2. /\ b \in Seq(S) /\ Len(b) = Len(q) - k
      /\ \A i \in 1 .. Len(q) - k : b[i] = q[k + i]
  OBVIOUS
<1>3. PutBehind(q, p, k) = (a \o <<p>>) \o b
  BY DEF PutBehind
<1> HIDE DEF a, b
<1>4. /\ a \o <<p>> \in Seq(S) /\ Len(a \o <<p>>) = k + 1
      /\ \A i \in 1 .. k + 1 : (a \o <<p>>)[i] = IF i <= k THEN q[i] ELSE p
  BY <1>1
<1> DEFINE c == a \o <<p>>
<1> HIDE DEF c
<1>5. /\ c \o b \in Seq(S) /\ Len(c \o b) = Len(q) + 1
      /\ \A i \in 1 .. Len(q) + 1 : (c \o b)[i] = IF i <= k + 1 THEN c[i] ELSE b[i - (k + 1)]
  <2>1. c \in Seq(S) /\ b \in Seq(S) /\ Len(c) = k + 1 /\ Len(c) + Len(b) = Len(q) + 1
    <3>1. c \in Seq(S) /\ Len(c) = k + 1
      BY <1>4 DEF c
    <3>2. b \in Seq(S) /\ Len(b) = Len(q) - k
      BY <1>2
    <3> QED
      BY <3>1, <3>2
  <2>2. /\ c \o b \in Seq(S) /\ Len(c \o b) = Len(c) + Len(b)
        /\ \A i \in 1 .. Len(c) + Len(b) : (c \o b)[i] = IF i <= Len(c) THEN c[i] ELSE b[i - Len(c)]
    <3>1. c \in Seq(S) /\ b \in Seq(S)
      BY <2>1
    <3> QED
      BY <3>1
  <2> QED
    BY <2>1, <2>2
<1>6. \A i \in 1 .. Len(q) + 1 :
        (c \o b)[i] = IF i <= k THEN q[i] ELSE IF i = k + 1 THEN p ELSE q[i - 1]
  <2> SUFFICES ASSUME NEW i \in 1 .. Len(q) + 1
               PROVE  (c \o b)[i] = IF i <= k THEN q[i] ELSE IF i = k + 1 THEN p ELSE q[i - 1]
    OBVIOUS
  <2>1. CASE i <= k + 1
    <3>1. (c \o b)[i] = c[i] /\ i \in 1 .. k + 1
      BY <2>1, <1>5
    <3>2. c[i] = IF i <= k THEN q[i] ELSE p
      BY <3>1, <1>4 DEF c
    <3> QED
      BY <2>1, <3>1, <3>2
  <2>2. CASE i > k + 1
    <3>1. i - (k + 1) \in 1 .. Len(q) - k /\ k + (i - (k + 1)) = i - 1
      BY <2>2
    <3>2. b[i - (k + 1)] = q[i - 1]
      BY <3>1, <1>2
    <3>3. (c \o b)[i] = b[i - (k + 1)]
      BY <2>2, <1>5
    <3>4. ~(i <= k) /\ i # k + 1
      BY <2>2
    <3> QED
      BY <3>2, <3>3, <3>4, Zenon
  <2>3. i <= k + 1 \/ i > k + 1
    OBVIOUS
  <2> QED
    BY <2>1, <2>2, <2>3, Zenon
<1> QED
  BY <1>3, <1>5, <1>6 DEF c

\* Where Insert puts a packet: behind all that are not less urgent, before the first
\* that is; the others keep their order.
LEMMA WhereInserted ==
    ASSUME NEW S, NEW q \in Seq(S), NEW p \in S, NEW urgency \in [S -> Nat]
    PROVE  \E k \in 0 .. Len(q) :
             /\ Insert(q, p, urgency) = PutBehind(q, p, k)
             /\ \A i \in 1 .. k : urgency[q[i]] <= urgency[p]
             /\ k = Len(q) \/ urgency[q[k + 1]] > urgency[p]
<1> DEFINE prios == [i \in DOMAIN q |-> urgency[q[i]]]
           k == Rank(prios, urgency[p])
<1>1. prios \in Seq(Nat) /\ Len(prios) = Len(q) /\ urgency[p] \in Nat
  OBVIOUS
<1>2. Insert(q, p, urgency) = PutBehind(q, p, k)
  BY DEF Insert
<1> HIDE DEF k, prios
<1>3. /\ k \in 0 .. Len(prios)
      /\ \A i \in 1 .. k : prios[i] <= urgency[p]
      /\ k = Len(prios) \/ prios[k + 1] > urgency[p]
  BY <1>1, RankExists DEF k
<1>4. \A i \in 1 .. Len(q) : prios[i] = urgency[q[i]]
  BY DEF prios
<1>5. k \in 0 .. Len(q) /\ (k = Len(q) \/ urgency[q[k + 1]] > urgency[p])
  BY <1>1, <1>3, <1>4
<1>6. \A i \in 1 .. k : urgency[q[i]] <= urgency[p]
  BY <1>1, <1>3, <1>4
<1> QED
  BY <1>2, <1>5, <1>6

\* The same of InsertCell, for records with a priority.
LEMMA CellInserted ==
    ASSUME NEW S, \A c \in S : c.prio \in Nat, NEW q \in Seq(S), NEW c \in S
    PROVE  \E k \in 0 .. Len(q) :
             /\ InsertCell(q, c) = PutBehind(q, c, k)
             /\ \A i \in 1 .. k : q[i].prio <= c.prio
             /\ k = Len(q) \/ q[k + 1].prio > c.prio
<1> DEFINE prios == [i \in DOMAIN q |-> q[i].prio]
           k == Rank(prios, c.prio)
<1>1. \A i \in 1 .. Len(q) : q[i].prio \in Nat
  OBVIOUS
<1>2. prios \in Seq(Nat) /\ Len(prios) = Len(q) /\ c.prio \in Nat
  BY <1>1
<1>3. InsertCell(q, c) = PutBehind(q, c, k)
  BY DEF InsertCell
<1> HIDE DEF k, prios
<1>4. /\ k \in 0 .. Len(prios)
      /\ \A i \in 1 .. k : prios[i] <= c.prio
      /\ k = Len(prios) \/ prios[k + 1] > c.prio
  BY <1>2, RankExists DEF k
<1>5. \A i \in 1 .. Len(q) : prios[i] = q[i].prio
  BY DEF prios
<1>6. k \in 0 .. Len(q) /\ (k = Len(q) \/ q[k + 1].prio > c.prio)
  BY <1>2, <1>4, <1>5
<1>7. \A i \in 1 .. k : q[i].prio <= c.prio
  BY <1>2, <1>4, <1>5
<1> QED
  BY <1>3, <1>6, <1>7

\* What RemoveAt leaves, element by element.
LEMMA RemovedAt ==
    ASSUME NEW S, NEW s \in Seq(S), NEW m \in 1 .. Len(s)
    PROVE  /\ RemoveAt(s, m) \in Seq(S)
           /\ Len(RemoveAt(s, m)) = Len(s) - 1
           /\ \A i \in 1 .. Len(s) - 1 : RemoveAt(s, m)[i] = IF i < m THEN s[i] ELSE s[i + 1]
<1> DEFINE a == SubSeq(s, 1, m - 1)
           b == SubSeq(s, m + 1, Len(s))
<1>1. /\ a \in Seq(S) /\ Len(a) = m - 1
      /\ \A i \in 1 .. m - 1 : a[i] = s[i]
  OBVIOUS
<1>2. /\ b \in Seq(S) /\ Len(b) = Len(s) - m
      /\ \A i \in 1 .. Len(s) - m : b[i] = s[m + i]
  OBVIOUS
<1>3. RemoveAt(s, m) = a \o b
  BY DEF RemoveAt
<1> HIDE DEF a, b
<1>4. /\ a \o b \in Seq(S) /\ Len(a \o b) = Len(s) - 1
      /\ \A i \in 1 .. Len(s) - 1 : (a \o b)[i] = IF i <= m - 1 THEN a[i] ELSE b[i - (m - 1)]
  <2>1. Len(a) + Len(b) = Len(s) - 1 /\ Len(s) - 1 \in Nat
    BY <1>1, <1>2
  <2>2. /\ a \o b \in Seq(S) /\ Len(a \o b) = Len(a) + Len(b)
        /\ \A i \in 1 .. Len(a) + Len(b) : (a \o b)[i] = IF i <= Len(a) THEN a[i] ELSE b[i - Len(a)]
    <3>1. a \in Seq(S) /\ b \in Seq(S)
      BY <1>1, <1>2
    <3> QED
      BY <3>1
  <2> QED
    BY <1>1, <2>1, <2>2
<1>5. \A i \in 1 .. Len(s) - 1 : (a \o b)[i] = IF i < m THEN s[i] ELSE s[i + 1]
  <2> SUFFICES ASSUME NEW i \in 1 .. Len(s) - 1
               PROVE  (a \o b)[i] = IF i < m THEN s[i] ELSE s[i + 1]
    OBVIOUS
  <2>1. CASE i < m
    <3>1. i <= m - 1 /\ i \in 1 .. m - 1
      BY <2>1
    <3> QED
      BY <2>1, <3>1, <1>1, <1>4
  <2>2. CASE ~(i < m)
    <3>1. ~(i <= m - 1) /\ i - (m - 1) \in 1 .. Len(s) - m /\ m + (i - (m - 1)) = i + 1
      BY <2>2
    <3>2. b[i - (m - 1)] = s[i + 1]
      BY <3>1, <1>2
    <3> QED
      BY <2>2, <3>1, <3>2, <1>4
  <2> QED
    BY <2>1, <2>2
<1> QED
  BY <1>3, <1>4, <1>5

-----------------------------------------------------------------------------
(* Remainders *)

\* Numbers less than K apart are equal if their remainders are.
LEMMA Congruent ==
    ASSUME NEW K \in Nat \ {0}, NEW e \in Int, NEW m \in Int, e <= m, m - e < K, e % K = m % K
    PROVE  e = m
<1>1. e = K * (e \div K) + (e % K) /\ m = K * (m \div K) + (m % K) /\ e \div K \in Int /\ m \div K \in Int
  OBVIOUS
<1> DEFINE a == e \div K
           b == m \div K
<1> HIDE DEF a, b
<1>2. m - e = K * (b - a) /\ a \in Int /\ b \in Int
  BY <1>1 DEF a, b
<1>3. b - a <= 0
  <2>1. \A z \in Int : z >= 1 => K * z >= K
    OBVIOUS
  <2> QED
    BY <1>2, <2>1
<1>4. b - a >= 0
  <2>1. \A z \in Int : z <= -1 => K * z <= -K
    OBVIOUS
  <2> QED
    BY <1>2, <2>1
<1> QED
  BY <1>2, <1>3, <1>4

\* The remainder is the one r that is left of a multiple of K.
LEMMA RemainderIs ==
    ASSUME NEW K \in Nat \ {0}, NEW z \in Int, NEW y \in Int, NEW r \in 0 .. K - 1, z = K * y + r
    PROVE  z % K = r
<1> DEFINE q == z \div K
           o == z % K
<1>1. z = K * q + o /\ q \in Int /\ o \in 0 .. K - 1
  OBVIOUS
<1> HIDE DEF q, o
<1>2. K * (q - y) = r - o /\ q - y \in Int
  BY <1>1
<1>3. q - y < 1
  <2>1. \A x \in Int : x >= 1 => K * x >= K
    OBVIOUS
  <2> QED
    BY <1>1, <1>2, <2>1
<1>4. q - y > -1
  <2>1. \A x \in Int : x <= -1 => K * x <= -K
    OBVIOUS
  <2> QED
    BY <1>1, <1>2, <2>1
<1>5. q - y = 0
  BY <1>2, <1>3, <1>4
<1> QED
  BY <1>1, <1>2, <1>5 DEF o

-----------------------------------------------------------------------------
(* Folds *)

\* The greatest element of a set of positions.
LEMMA MaxInside ==
    ASSUME NEW n \in Nat, NEW t \in SUBSET (1 .. n), t # {}
    PROVE  /\ Max(t) \in t /\ \A x \in t : x <= Max(t)
           /\ Max(t) \in 1 .. n /\ t \ {Max(t)} \in SUBSET (1 .. Max(t) - 1)
<1> DEFINE Above == {n - x : x \in t}
<1>0. \A x \in t : x \in 1 .. n /\ n - x \in Nat
  OBVIOUS
<1>1. Above \in SUBSET Nat /\ Above # {}
  BY <1>0
<1>2. PICK d \in Above : \A e \in Above : d <= e
  <2> HIDE DEF Above
  <2> QED
    BY <1>1, LeastNumber, Zenon
<1>3. PICK x \in t : d = n - x
  BY <1>2
<1>4. ASSUME NEW y \in t PROVE x >= y
  <2>1. n - y \in Above
    OBVIOUS
  <2>2. d <= n - y
    <3> HIDE DEF Above
    <3> QED
      BY <1>2, <2>1
  <2> QED
    BY <1>0, <1>3, <2>2
<1>5. \E y \in t : \A z \in t : y >= z
  BY <1>4
<1>6. Max(t) \in t /\ \A z \in t : Max(t) >= z
  BY <1>5, Zenon DEF Max
<1>7. Max(t) \in 1 .. n /\ \A z \in t : z <= Max(t)
  BY <1>0, <1>6
<1>8. t \ {Max(t)} \in SUBSET (1 .. Max(t) - 1)
  <2> SUFFICES ASSUME NEW z \in t, z # Max(t) PROVE z \in 1 .. Max(t) - 1
    OBVIOUS
  <2> QED
    BY <1>0, <1>7
<1> QED
  BY <1>6, <1>7, <1>8

LEMMA MaxOfInterval ==
    ASSUME NEW m \in Nat \ {0}
    PROVE  Max(1 .. m) = m /\ (1 .. m) \ {m} = 1 .. m - 1
<1>1. m \in 1 .. m /\ (1 .. m) # {} /\ m \in Nat /\ 1 .. m \in SUBSET (1 .. m)
  OBVIOUS
<1>2. Max(1 .. m) \in 1 .. m /\ \A x \in 1 .. m : x <= Max(1 .. m)
  BY <1>1, MaxInside, Zenon
<1> QED
  BY <1>1, <1>2

\* What FoldLeft adds up from base, set of positions by set of positions, when
\* op(a, x) is g[<<a, x>>].
FoldStep(f, g, base, s, t) ==
    IF t = {} THEN base ELSE g[<<f[t \ {Max(t)}], s[Max(t)]>>]
IsFold(f, g, base, s, n) == f = [t \in SUBSET (1 .. n) |-> FoldStep(f, g, base, s, t)]

\* There is such a function, of the type of the partial results, and for the first m
\* elements it is one step from that for the first m - 1.
LEMMA FoldExists ==
    ASSUME NEW T, NEW S, NEW g \in [T \X S -> T], NEW base \in T, NEW s \in Seq(S)
    PROVE  \E f \in [SUBSET (1 .. Len(s)) -> T] : IsFold(f, g, base, s, Len(s))
<1> DEFINE Good(f, n) == f \in [SUBSET (1 .. n) -> T] /\ IsFold(f, g, base, s, n)
           Short == {n \in 0 .. Len(s) : ~\E f : Good(f, n)}
<1>1. SUFFICES ASSUME Short # {} PROVE FALSE
  <2>1. ASSUME Short = {} PROVE \E f : Good(f, Len(s))
    <3>1. Len(s) \in 0 .. Len(s) /\ Len(s) \notin Short
      <4>1. Len(s) \in 0 .. Len(s)
        OBVIOUS
      <4> HIDE DEF Short
      <4> QED
        BY <2>1, <4>1
    <3> HIDE DEF Good
    <3> QED
      BY <3>1
  <2> QED
    BY <2>1
<1>2. PICK n \in Short : \A m \in Short : n <= m
  <2>1. Short \in SUBSET Nat
    OBVIOUS
  <2> HIDE DEF Short
  <2> QED
    BY <1>1, <2>1, LeastNumber, Zenon
<1>3. n \in 0 .. Len(s) /\ ~\E f : Good(f, n)
  BY <1>2
<1>4. CASE n = 0
  <2> DEFINE f == [t \in SUBSET (1 .. 0) |-> base]
  <2>1. \A t \in SUBSET (1 .. 0) : t = {}
    OBVIOUS
  <2>2. \A t \in SUBSET (1 .. 0) : FoldStep(f, g, base, s, t) = base
    BY <2>1 DEF FoldStep
  <2>3. Good(f, 0)
    BY <2>2 DEF IsFold
  <2> QED
    BY <1>3, <1>4, <2>3
<1>5. CASE n # 0
  <2>1. PICK f : Good(f, n - 1)
    <3>1. n - 1 \in 0 .. Len(s) /\ n - 1 < n
      BY <1>3, <1>5
    <3>2. n - 1 \notin Short
      <4> HIDE DEF Short
      <4> QED
        BY <1>2, <1>3, <3>1
    <3> QED
      BY <3>1, <3>2
  <2>2. f \in [SUBSET (1 .. n - 1) -> T]
    BY <2>1
  <2>3. \A t \in SUBSET (1 .. n - 1) : f[t] = FoldStep(f, g, base, s, t)
    BY <2>1 DEF IsFold
  <2> HIDE DEF Good
  <2> DEFINE h == [t \in SUBSET (1 .. n) |->
                     IF n \in t THEN g[<<f[t \ {n}], s[n]>>] ELSE f[t]]
  <2>4. \A t \in SUBSET (1 .. n) : (n \notin t => t \in SUBSET (1 .. n - 1))
                                   /\ t \ {n} \in SUBSET (1 .. n - 1)
    BY <1>3
  <2>5. s[n] \in S
    BY <1>3, <1>5
  <2>6. h \in [SUBSET (1 .. n) -> T]
    <3> SUFFICES ASSUME NEW t \in SUBSET (1 .. n)
                 PROVE  (IF n \in t THEN g[<<f[t \ {n}], s[n]>>] ELSE f[t]) \in T
      OBVIOUS
    <3>1. CASE n \in t
      <4>1. f[t \ {n}] \in T
        BY <2>2, <2>4
      <4>2. <<f[t \ {n}], s[n]>> \in T \X S
        BY <2>5, <4>1
      <4>3. g[<<f[t \ {n}], s[n]>>] \in T
        BY <4>2
      <4> QED
        BY <3>1, <4>3
    <3>2. CASE n \notin t
      BY <2>2, <2>4, <3>2
    <3> QED
      BY <3>1, <3>2
  <2>7. \A t \in SUBSET (1 .. n - 1) : h[t] = f[t]
    <3> SUFFICES ASSUME NEW t \in SUBSET (1 .. n - 1) PROVE h[t] = f[t]
      OBVIOUS
    <3>1. t \in SUBSET (1 .. n) /\ n \notin t
      BY <1>3
    <3> QED
      BY <3>1
  <2>8. ASSUME NEW t \in SUBSET (1 .. n) PROVE h[t] = FoldStep(h, g, base, s, t)
    <3>1. CASE n \in t
      <4>1. Max(t) = n /\ t # {}
        <5>1. t # {} /\ n \in Nat
          BY <1>3, <3>1
        <5>2. Max(t) \in 1 .. n /\ \A x \in t : x <= Max(t)
          BY <5>1, MaxInside
        <5> QED
          BY <3>1, <5>1, <5>2
      <4>2. h[t] = g[<<f[t \ {n}], s[n]>>]
        BY <3>1
      <4>3. h[t \ {n}] = f[t \ {n}]
        BY <2>4, <2>7
      <4> HIDE DEF h
      <4> QED
        BY <4>1, <4>2, <4>3 DEF FoldStep
    <3>2. CASE n \notin t
      <4>1. h[t] = f[t] /\ t \in SUBSET (1 .. n - 1)
        BY <2>4, <3>2
      <4>2. t # {} => h[t \ {Max(t)}] = f[t \ {Max(t)}]
        <5> SUFFICES ASSUME t # {} PROVE t \ {Max(t)} \in SUBSET (1 .. n - 1)
          BY <2>7
        <5> QED
          BY <4>1
      <4>3. f[t] = FoldStep(f, g, base, s, t)
        BY <2>3, <4>1
      <4> HIDE DEF h
      <4> QED
        BY <4>1, <4>2, <4>3 DEF FoldStep
    <3> QED
      BY <3>1, <3>2
  <2>9. IsFold(h, g, base, s, n)
    <3>1. h = [t \in SUBSET (1 .. n) |-> h[t]]
      BY <2>6
    <3> HIDE DEF h
    <3> QED
      BY <2>8, <3>1 DEF IsFold
  <2>10. Good(h, n)
    BY <2>6, <2>9 DEF Good
  <2> HIDE DEF h
  <2> QED
    BY <1>3, <2>10
<1> QED
  BY <1>4, <1>5
-----------------------------------------------------------------------------
(* Sums: SumFunctionOnSet adds the values in some order                    *)

Pick(s) == CHOOSE x \in s : TRUE
SumStep(F, w, s) == IF s = {} THEN 0 ELSE w[Pick(s)] + F[s \ {Pick(s)}]
\* F is the function of the definition of SumFunctionOnSet, for the sets in D.
Adds(F, w, D) == \A s \in D : F[s] = SumStep(F, w, s)

LEMMA Smaller ==
  ASSUME NEW s, IsFiniteSet(s), NEW x \in s
  PROVE  /\ Cardinality(s) \in Nat /\ Cardinality(s) > 0
         /\ IsFiniteSet(s \ {x}) /\ Cardinality(s \ {x}) = Cardinality(s) - 1
<1>1. IsFiniteSet(s \ {x}) /\ Cardinality(s \ {x}) = Cardinality(s) - 1
  BY FS_RemoveElement
<1>2. Cardinality(s) \in Nat /\ Cardinality(s \ {x}) \in Nat
  BY <1>1, FS_CardinalityType
<1>. QED
  BY <1>1, <1>2

LEMMA PickInside == \A s : s # {} => Pick(s) \in s
  BY Zenon DEF Pick

\* There is such a function for all subsets of a finite set.
LEMMA SumExists ==
  ASSUME NEW S, IsFiniteSet(S), NEW w, \A x \in S : w[x] \in Int
  PROVE  \E F \in [SUBSET S -> Int] : Adds(F, w, SUBSET S)
<1>. DEFINE Level(n) == {s \in SUBSET S : Cardinality(s) <= n}
            Good(F, n) == F \in [Level(n) -> Int] /\ Adds(F, w, Level(n))
            Bad == {n \in Nat : ~\E F : Good(F, n)}
<1>0. \A s \in SUBSET S : IsFiniteSet(s) /\ Cardinality(s) \in Nat
  BY FS_Subset, FS_CardinalityType
<1>1. ASSUME Bad # {} PROVE FALSE
  <2>1. PICK n \in Bad : \A m \in Bad : n <= m
    <3>1. Bad \in SUBSET Nat
      OBVIOUS
    <3>. HIDE DEF Bad
    <3>. QED
      BY <1>1, <3>1, LeastNumber, Zenon
  <2>2. n \in Nat /\ ~\E F : Good(F, n)
    BY <2>1
  <2>3. CASE n = 0
    <3>. DEFINE F == [s \in Level(0) |-> 0]
    <3>1. \A s \in Level(0) : s = {}
      BY <1>0, FS_EmptySet
    <3>2. \A s \in Level(0) : SumStep(F, w, s) = 0
      BY <3>1 DEF SumStep
    <3>3. Good(F, 0)
      BY <3>2 DEF Adds
    <3>. QED
      BY <2>2, <2>3, <3>3
  <2>4. CASE n # 0
    <3>1. PICK G : Good(G, n - 1)
      <4>1. n - 1 \in Nat /\ n - 1 < n
        BY <2>2, <2>4
      <4>2. n - 1 \notin Bad
        <5>. HIDE DEF Bad
        <5>. QED
          BY <2>1, <2>2, <4>1
      <4>. HIDE DEF Good
      <4>. QED
        BY <4>1, <4>2
    <3>2. /\ G \in [Level(n - 1) -> Int]
          /\ \A s \in Level(n - 1) : G[s] = SumStep(G, w, s)
      BY <3>1 DEF Adds
    <3>3. \A s \in Level(n) : s # {} => s \ {Pick(s)} \in Level(n - 1) /\ Pick(s) \in S
      <4>. SUFFICES ASSUME NEW s \in Level(n), s # {}
                    PROVE  s \ {Pick(s)} \in Level(n - 1) /\ Pick(s) \in S
        OBVIOUS
      <4>1. Pick(s) \in s /\ s \in SUBSET S
        BY PickInside
      <4>2. Cardinality(s \ {Pick(s)}) = Cardinality(s) - 1 /\ Cardinality(s) \in Nat
        BY <1>0, <4>1, Smaller
      <4>. QED
        BY <2>2, <4>1, <4>2
    <3>4. \A s \in Level(n - 1) : s \in Level(n)
      BY <1>0, <2>2
    <3>. HIDE DEF Good, Level
    <3>. DEFINE F == [s \in Level(n) |-> SumStep(G, w, s)]
    <3>5. F \in [Level(n) -> Int]
      <4>. SUFFICES ASSUME NEW s \in Level(n) PROVE SumStep(G, w, s) \in Int
        OBVIOUS
      <4>1. s # {} => w[Pick(s)] \in Int /\ G[s \ {Pick(s)}] \in Int
        BY <3>2, <3>3
      <4>. QED
        BY <4>1 DEF SumStep
    <3>6. \A s \in Level(n - 1) : F[s] = G[s]
      BY <3>2, <3>4
    <3>7. \A s \in Level(n) : F[s] = SumStep(F, w, s)
      <4>. SUFFICES ASSUME NEW s \in Level(n) PROVE F[s] = SumStep(F, w, s)
        OBVIOUS
      <4>1. F[s] = SumStep(G, w, s)
        OBVIOUS
      <4>2. s # {} => F[s \ {Pick(s)}] = G[s \ {Pick(s)}]
        BY <3>3, <3>6
      <4>. HIDE DEF F
      <4>. QED
        BY <4>1, <4>2 DEF SumStep
    <3>8. Good(F, n)
      BY <3>5, <3>7 DEF Good, Adds
    <3>. QED
      BY <2>2, <3>8
  <2>. QED
    BY <2>3, <2>4
<1>2. Cardinality(S) \in Nat
  BY FS_CardinalityType
<1>3. PICK F : Good(F, Cardinality(S))
  <2>. HIDE DEF Good
  <2>. QED
    BY <1>1, <1>2
<1>4. Level(Cardinality(S)) = SUBSET S
  <2>1. \A s \in SUBSET S : Cardinality(s) <= Cardinality(S)
    BY FS_Subset
  <2>. QED
    BY <2>1
<1>. QED
  BY <1>3, <1>4

\* It is unique, and does not depend on values outside the set.
LEMMA SumUnique ==
  ASSUME NEW S, IsFiniteSet(S), NEW w, NEW v, \A x \in S : w[x] = v[x],
         NEW F, Adds(F, w, SUBSET S), NEW G, Adds(G, v, SUBSET S),
         NEW t \in SUBSET S
  PROVE  F[t] = G[t]
<1>. DEFINE Differ == {s \in SUBSET S : F[s] # G[s]}
            Sizes == {Cardinality(s) : s \in Differ}
<1>0. \A s \in SUBSET S : IsFiniteSet(s) /\ Cardinality(s) \in Nat
  BY FS_Subset, FS_CardinalityType
<1>1. SUFFICES ASSUME Differ # {} PROVE FALSE
  OBVIOUS
<1>2. PICK n \in Sizes : \A m \in Sizes : n <= m
  <2>1. Sizes # {} /\ Sizes \in SUBSET Nat
    BY <1>0, <1>1
  <2>. HIDE DEF Sizes
  <2>. QED
    BY <2>1, LeastNumber, Zenon
<1>3. PICK s \in Differ : n = Cardinality(s)
  BY <1>2
<1>4. s \in SUBSET S /\ F[s] # G[s] /\ \A u \in Differ : Cardinality(s) <= Cardinality(u)
  BY <1>2, <1>3
<1>5. F[s] = SumStep(F, w, s) /\ G[s] = SumStep(G, v, s)
  BY <1>4 DEF Adds
<1>6. s # {}
  BY <1>4, <1>5 DEF SumStep
<1>7. Pick(s) \in s
  BY <1>6, PickInside
<1>8. Cardinality(s \ {Pick(s)}) < Cardinality(s) /\ Cardinality(s \ {Pick(s)}) \in Nat
  BY <1>0, <1>4, <1>7, Smaller
<1>9. F[s \ {Pick(s)}] = G[s \ {Pick(s)}]
  <2>1. s \ {Pick(s)} \in SUBSET S /\ Cardinality(s) \in Nat
    BY <1>0, <1>4
  <2>2. s \ {Pick(s)} \notin Differ
    <3>. HIDE DEF Differ
    <3>. QED
      BY <1>4, <1>8, <2>1
  <2>. QED
    BY <2>1, <2>2
<1>10. w[Pick(s)] = v[Pick(s)]
  BY <1>4, <1>7
<1>. QED
  BY <1>4, <1>5, <1>6, <1>9, <1>10 DEF SumStep

\* What SumFunctionOnSet is, on the subsets of S.
LEMMA SumIs ==
  ASSUME NEW S, IsFiniteSet(S), NEW w, \A x \in S : w[x] \in Int,
         NEW F, Adds(F, w, SUBSET S), NEW t \in SUBSET S
  PROVE  SumFunctionOnSet(w, t) = F[t]
<1>0. IsFiniteSet(t) /\ \A x \in t : w[x] \in Int
  BY FS_Subset
<1>. DEFINE Iter(G) == G = [s \in SUBSET t |-> SumStep(G, w, s)]
            G == CHOOSE H : Iter(H)
<1>1. \E H : Iter(H)
  <2>1. PICK H \in [SUBSET t -> Int] : Adds(H, w, SUBSET t)
    BY <1>0, SumExists
  <2>2. H = [s \in SUBSET t |-> SumStep(H, w, s)]
    BY <2>1 DEF Adds
  <2>. QED
    BY <2>2
<1>2. SumFunctionOnSet(w, t) = G[t]
  BY Zenon DEF SumFunctionOnSet, FoldFunctionOnSet, MapThenFoldSet, SumStep, Pick
<1>3. Iter(G)
  <2>. HIDE DEF Iter
  <2>. QED
    BY <1>1, Zenon
<1>. HIDE DEF G
<1>4. Adds(G, w, SUBSET t)
  BY <1>3 DEF Adds
<1>5. Adds(F, w, SUBSET t)
  BY DEF Adds
<1>6. F[t] = G[t]
  BY <1>0, <1>4, <1>5, SumUnique
<1>. QED
  BY <1>2, <1>6

\* The order does not matter: any element may be added last.
LEMMA SumAny ==
  ASSUME NEW S, IsFiniteSet(S), NEW w, \A x \in S : w[x] \in Int,
         NEW F \in [SUBSET S -> Int], Adds(F, w, SUBSET S),
         NEW t \in SUBSET S, NEW z \in t
  PROVE  F[t] = w[z] + F[t \ {z}]
<1>. DEFINE Wrong == {s \in SUBSET S : \E x \in s : F[s] # w[x] + F[s \ {x}]}
            Sizes == {Cardinality(s) : s \in Wrong}
<1>0. \A s \in SUBSET S : IsFiniteSet(s) /\ Cardinality(s) \in Nat
  BY FS_Subset, FS_CardinalityType
<1>1. SUFFICES ASSUME Wrong # {} PROVE FALSE
  OBVIOUS
<1>2. PICK n \in Sizes : \A m \in Sizes : n <= m
  <2>1. Sizes # {} /\ Sizes \in SUBSET Nat
    BY <1>0, <1>1
  <2>. HIDE DEF Sizes
  <2>. QED
    BY <2>1, LeastNumber, Zenon
<1>3. PICK s \in Wrong : n = Cardinality(s)
  BY <1>2
<1>4. s \in SUBSET S /\ \A u \in Wrong : Cardinality(s) <= Cardinality(u)
  BY <1>2, <1>3
<1>5. PICK x \in s : F[s] # w[x] + F[s \ {x}]
  BY <1>3
<1>. DEFINE y == Pick(s)
<1>6. y \in s
  BY <1>5, PickInside
<1>. HIDE DEF y
<1>7. F[s] = w[y] + F[s \ {y}]
  BY <1>4, <1>5 DEF Adds, SumStep, y
<1>8. x # y
  BY <1>5, <1>7
<1>9. ASSUME NEW u \in s, NEW v \in s \ {u}
      PROVE  F[s \ {u}] = w[v] + F[(s \ {u}) \ {v}]
  <2>1. Cardinality(s \ {u}) < Cardinality(s) /\ Cardinality(s \ {u}) \in Nat
    BY <1>0, <1>4, Smaller
  <2>2. s \ {u} \in SUBSET S /\ Cardinality(s) \in Nat
    BY <1>0, <1>4
  <2>3. s \ {u} \notin Wrong
    <3>. HIDE DEF Wrong
    <3>. QED
      BY <1>4, <2>1, <2>2
  <2>. QED
    BY <2>2, <2>3
<1>10. F[s \ {y}] = w[x] + F[(s \ {y}) \ {x}] /\ F[s \ {x}] = w[y] + F[(s \ {x}) \ {y}]
  BY <1>5, <1>6, <1>8, <1>9
<1>11. (s \ {y}) \ {x} = (s \ {x}) \ {y} /\ (s \ {x}) \ {y} \in SUBSET S
  BY <1>4
<1>12. w[x] \in Int /\ w[y] \in Int /\ F[(s \ {x}) \ {y}] \in Int
  BY <1>4, <1>5, <1>6, <1>11
<1>13. F[s \ {y}] = w[x] + F[(s \ {x}) \ {y}]
  BY <1>10, <1>11
<1>. DEFINE rest == F[(s \ {x}) \ {y}]
<1>. HIDE DEF rest
<1>14. F[s] = w[y] + (w[x] + rest) /\ F[s \ {x}] = w[y] + rest
  BY <1>7, <1>10, <1>13 DEF rest
<1>15. w[x] \in Int /\ w[y] \in Int /\ rest \in Int
  BY <1>12 DEF rest
<1>. QED
  BY <1>5, <1>14, <1>15

\* The two facts about sums that are needed: one more element adds its value, and
\* a function with the same values on the set has the same sum.
LEMMA SumGrows ==
  ASSUME NEW S, IsFiniteSet(S), NEW w, \A x \in S : w[x] \in Int, NEW z \in S
  PROVE  /\ SumFunctionOnSet(w, S \ {z}) \in Int
         /\ SumFunctionOnSet(w, S) = SumFunctionOnSet(w, S \ {z}) + w[z]
<1>1. PICK F \in [SUBSET S -> Int] : Adds(F, w, SUBSET S)
  BY SumExists
<1>2. F[S] = w[z] + F[S \ {z}] /\ F[S \ {z}] \in Int /\ w[z] \in Int
  BY <1>1, SumAny
<1>3. SumFunctionOnSet(w, S) = F[S] /\ SumFunctionOnSet(w, S \ {z}) = F[S \ {z}]
  <2>1. S \in SUBSET S /\ S \ {z} \in SUBSET S
    OBVIOUS
  <2>. QED
    BY <1>1, <2>1, SumIs
<1>. QED
  BY <1>2, <1>3

LEMMA SumSame ==
  ASSUME NEW S, IsFiniteSet(S), NEW w, NEW v, \A x \in S : w[x] \in Int /\ v[x] = w[x]
  PROVE  SumFunctionOnSet(w, S) = SumFunctionOnSet(v, S)
<1>0. \A x \in S : v[x] \in Int
  OBVIOUS
<1>1. PICK F \in [SUBSET S -> Int] : Adds(F, w, SUBSET S)
  BY SumExists
<1>2. PICK G \in [SUBSET S -> Int] : Adds(G, v, SUBSET S)
  BY <1>0, SumExists
<1>3. S \in SUBSET S
  OBVIOUS
<1>4. F[S] = G[S]
  BY <1>1, <1>2, <1>3, SumUnique
<1>5. SumFunctionOnSet(w, S) = F[S]
  BY <1>1, <1>3, SumIs
<1>6. SumFunctionOnSet(v, S) = G[S]
  BY <1>0, <1>2, <1>3, SumIs
<1>. QED
  BY <1>4, <1>5, <1>6

\* Nothing adds up to nothing.
LEMMA SumOfNothing == \A w : SumFunctionOnSet(w, {}) = 0
<1>. TAKE w
<1>0. IsFiniteSet({}) /\ {} \in SUBSET {} /\ \A x \in {} : w[x] \in Int
  BY FS_EmptySet
<1>1. PICK F \in [SUBSET {} -> Int] : Adds(F, w, SUBSET {})
  BY <1>0, SumExists
<1>2. F[{}] = 0
  BY <1>0, <1>1 DEF Adds, SumStep
<1>3. SumFunctionOnSet(w, {}) = F[{}]
  BY <1>0, <1>1, SumIs, Zenon
<1>. QED
  BY <1>2, <1>3

\* Adding a value behind the rest or in front of it is the same.
AddsBehind(G, w, D) ==
  \A s \in D : G[s] = IF s = {} THEN 0 ELSE G[s \ {Pick(s)}] + w[Pick(s)]

LEMMA SumBehind ==
  ASSUME NEW S, IsFiniteSet(S), NEW w, \A x \in S : w[x] \in Int,
         NEW F \in [SUBSET S -> Int], Adds(F, w, SUBSET S),
         NEW G, AddsBehind(G, w, SUBSET S), NEW t \in SUBSET S
  PROVE  F[t] = G[t]
<1>. DEFINE Differ == {s \in SUBSET S : F[s] # G[s]}
            Sizes == {Cardinality(s) : s \in Differ}
<1>0. \A s \in SUBSET S : IsFiniteSet(s) /\ Cardinality(s) \in Nat
  BY FS_Subset, FS_CardinalityType
<1>1. SUFFICES ASSUME Differ # {} PROVE FALSE
  OBVIOUS
<1>2. PICK n \in Sizes : \A m \in Sizes : n <= m
  <2>1. Sizes # {} /\ Sizes \in SUBSET Nat
    BY <1>0, <1>1
  <2>. HIDE DEF Sizes
  <2>. QED
    BY <2>1, LeastNumber, Zenon
<1>3. PICK s \in Differ : n = Cardinality(s)
  BY <1>2
<1>4. s \in SUBSET S /\ F[s] # G[s] /\ \A u \in Differ : Cardinality(s) <= Cardinality(u)
  BY <1>2, <1>3
<1>5. /\ F[s] = SumStep(F, w, s)
      /\ G[s] = IF s = {} THEN 0 ELSE G[s \ {Pick(s)}] + w[Pick(s)]
  BY <1>4 DEF Adds, AddsBehind
<1>6. s # {}
  BY <1>4, <1>5 DEF SumStep
<1>. DEFINE y == Pick(s)
<1>7. y \in s
  BY <1>6, PickInside
<1>. HIDE DEF y
<1>8. Cardinality(s \ {y}) < Cardinality(s) /\ Cardinality(s \ {y}) \in Nat
  BY <1>0, <1>4, <1>7, Smaller
<1>9. F[s \ {y}] = G[s \ {y}]
  <2>1. s \ {y} \in SUBSET S /\ Cardinality(s) \in Nat
    BY <1>0, <1>4
  <2>2. s \ {y} \notin Differ
    <3>. HIDE DEF Differ
    <3>. QED
      BY <1>4, <1>8, <2>1
  <2>. QED
    BY <2>1, <2>2
<1>10. F[s] = w[y] + F[s \ {y}] /\ G[s] = G[s \ {y}] + w[y]
  BY <1>5, <1>6 DEF SumStep, y
<1>11. w[y] \in Int /\ F[s \ {y}] \in Int
  BY <1>4, <1>7
<1>. QED
  BY <1>4, <1>9, <1>10, <1>11

LEMMA SumOfFold ==
  ASSUME NEW S, IsFiniteSet(S), NEW w, \A x \in S : w[x] \in Int,
         NEW G, AddsBehind(G, w, SUBSET S)
  PROVE  G[S] = SumFunctionOnSet(w, S)
<1>1. PICK F \in [SUBSET S -> Int] : Adds(F, w, SUBSET S)
  BY SumExists
<1>2. S \in SUBSET S
  OBVIOUS
<1>3. F[S] = G[S]
  BY <1>1, <1>2, SumBehind
<1>4. SumFunctionOnSet(w, S) = F[S]
  BY <1>1, <1>2, SumIs
<1>. QED
  BY <1>3, <1>4

=============================================================================
