--------------------------- MODULE PrioFidProofs ---------------------------
(***************************************************************************)
(* Theorems about PrioFid, the interface queue as a linked list, for any   *)
(* constants.                                                              *)
(*                                                                         *)
(* The argument: there is always an order of the waiting packets, by       *)
(* urgency and then by age, along which the pointers lead from head_ to    *)
(* tail_.  Walking from head_ follows that order as long as it lasts,      *)
(* whatever the pointer of the last packet is.                             *)
(***************************************************************************)
EXTENDS PrioFid, SequenceLemmas, FiniteSetTheorems, TLAPS
-----------------------------------------------------------------------------
(* The interface queue as a linked list                                    *)

Distinct(a) == \A i, j \in 1 .. Len(a) : a[i] = a[j] => i = j

\* Packet x is served before y, when a holds the packets in the order they came.
Precedes(a, x, y) ==
    \/ prio[x] < prio[y]
    \/ prio[x] = prio[y] /\ \E i, j \in 1 .. Len(a) : i < j /\ a[i] = x /\ a[j] = y

\* q holds the packets of a in the order in which they will be served.
Arranged(q, a) ==
    /\ q \in Seq(Packets) /\ Len(q) = Len(a) /\ Distinct(q)
    /\ \A i \in 1 .. Len(a) : \E j \in 1 .. Len(q) : q[j] = a[i]
    /\ \A j \in 1 .. Len(q) : \E i \in 1 .. Len(a) : a[i] = q[j]
    /\ \A i, j \in 1 .. Len(q) : i < j => Precedes(a, q[i], q[j])

\* The pointers lead through q.
Linked(q) ==
    /\ Len(q) > 0 => head_ = q[1] /\ tail_ = q[Len(q)]
    /\ \A i \in 1 .. Len(q) - 1 : next_[q[i]] = q[i + 1]

Types ==
    /\ arrival \in Seq(Packets) /\ Distinct(arrival)
    /\ len_ = Len(arrival)
    /\ next_ \in [Packets -> Packets \cup {NULL}]
    /\ head_ \in Packets \cup {NULL} /\ tail_ \in Packets \cup {NULL}
    /\ (len_ = 0) <=> (head_ = NULL)
    /\ (len_ = 0) <=> (tail_ = NULL)

ListInv == Types /\ \E q : Arranged(q, arrival) /\ Linked(q)

-----------------------------------------------------------------------------
(* Arranged sequences *)

\* A packet that comes goes behind all that are not less urgent.
LEMMA ArrangedInsert ==
    ASSUME NEW a \in Seq(Packets), Distinct(a), NEW q, Arranged(q, a),
           NEW p \in Packets, \A i \in 1 .. Len(a) : a[i] # p
    PROVE  /\ Arranged(Insert(q, p, prio), Append(a, p))
           /\ Append(a, p) \in Seq(Packets) /\ Distinct(Append(a, p))
<1> DEFINE b == Append(a, p)
           r == Insert(q, p, prio)
<1>1. /\ q \in Seq(Packets) /\ Len(q) = Len(a) /\ Distinct(q) /\ prio \in [Packets -> Nat]
      /\ \A i \in 1 .. Len(a) : \E j \in 1 .. Len(q) : q[j] = a[i]
      /\ \A j \in 1 .. Len(q) : \E i \in 1 .. Len(a) : a[i] = q[j]
      /\ \A i, j \in 1 .. Len(q) : i < j => Precedes(a, q[i], q[j])
  BY QueueAssumption DEF Arranged
<1>2. PICK k \in 0 .. Len(q) : /\ r = PutBehind(q, p, k)
                               /\ \A i \in 1 .. k : prio[q[i]] <= prio[p]
                               /\ k = Len(q) \/ prio[q[k + 1]] > prio[p]
  BY <1>1, WhereInserted
<1> HIDE DEF r
<1>3. /\ r \in Seq(Packets) /\ Len(r) = Len(q) + 1
      /\ \A i \in 1 .. Len(q) + 1 :
           r[i] = IF i <= k THEN q[i] ELSE IF i = k + 1 THEN p ELSE q[i - 1]
  <2>1. q \in Seq(Packets)
    BY <1>1
  <2> QED
    <3>1. k \in 0 .. Len(q)
      OBVIOUS
    <3>2. /\ PutBehind(q, p, k) \in Seq(Packets)
          /\ Len(PutBehind(q, p, k)) = Len(q) + 1
          /\ \A i \in 1 .. Len(q) + 1 : PutBehind(q, p, k)[i] = IF i <= k THEN q[i] ELSE IF i = k + 1 THEN p ELSE q[i - 1]
      BY <2>1, <3>1, PutBehindAt
    <3> QED
      BY <1>2, <3>2
<1>4. /\ b \in Seq(Packets) /\ Len(b) = Len(a) + 1 /\ b[Len(a) + 1] = p
      /\ \A i \in 1 .. Len(a) : b[i] = a[i]
  OBVIOUS
<1> HIDE DEF b
<1>0. prio[p] \in Nat /\ \A j \in 1 .. Len(q) : q[j] \in Packets /\ prio[q[j]] \in Nat
  <2>1. \A j \in 1 .. Len(q) : q[j] \in Packets
    BY <1>1
  <2> QED
    BY <1>1, <2>1
<1>5. Distinct(b)
  BY <1>4 DEF Distinct
<1>6. \A j \in 1 .. Len(q) : q[j] # p
  BY <1>1
\* Where the packets of r are in q.
<1> DEFINE From(i) == IF i <= k THEN i ELSE i - 1
<1>7. \A i \in 1 .. Len(r) : i # k + 1 => From(i) \in 1 .. Len(q) /\ r[i] = q[From(i)]
  <2> SUFFICES ASSUME NEW i \in 1 .. Len(r), i # k + 1
               PROVE  From(i) \in 1 .. Len(q) /\ r[i] = q[From(i)]
    OBVIOUS
  <2>1. CASE i <= k
    BY <2>1, <1>3
  <2>2. CASE i > k
    <3>1. i - 1 \in 1 .. Len(q) /\ ~(i <= k) /\ i \in 1 .. Len(q) + 1
      BY <2>2, <1>3
    <3>2. r[i] = q[i - 1]
      BY <3>1, <1>3
    <3> QED
      BY <3>1, <3>2
  <2> QED
    BY <2>1, <2>2
<1>8. r[k + 1] = p /\ k + 1 \in 1 .. Len(r)
  <2>1. k + 1 \in 1 .. Len(q) + 1 /\ ~(k + 1 <= k)
    OBVIOUS
  <2> QED
    BY <2>1, <1>3
<1>9. Distinct(r)
  <2> SUFFICES ASSUME NEW i \in 1 .. Len(r), NEW j \in 1 .. Len(r), r[i] = r[j] PROVE i = j
    BY DEF Distinct
  <2>1. CASE i # k + 1 /\ j # k + 1
    <3>1. From(i) = From(j)
      <4> HIDE DEF From
      <4>1. From(i) \in 1 .. Len(q) /\ From(j) \in 1 .. Len(q) /\ q[From(i)] = q[From(j)]
        BY <1>7, <2>1
      <4> QED
        BY <1>1, <4>1 DEF Distinct
    <3> QED
      BY <2>1, <3>1
  <2>2. CASE i = k + 1 \/ j = k + 1
    BY <1>6, <1>7, <1>8, <2>2
  <2> QED
    BY <2>1, <2>2
<1>10. \A i \in 1 .. Len(b) : \E j \in 1 .. Len(r) : r[j] = b[i]
  <2> SUFFICES ASSUME NEW i \in 1 .. Len(b) PROVE \E j \in 1 .. Len(r) : r[j] = b[i]
    OBVIOUS
  <2>1. CASE i = Len(a) + 1
    BY <2>1, <1>4, <1>8
  <2>2. CASE i # Len(a) + 1
    <3>1. i \in 1 .. Len(a) /\ b[i] = a[i]
      BY <2>2, <1>4, <1>1
    <3>2. PICK m \in 1 .. Len(q) : q[m] = a[i]
      BY <3>1, <1>1
    <3>3. CASE m <= k
      BY <3>1, <3>2, <3>3, <1>3
    <3>4. CASE m > k
      <4>1. m + 1 \in 1 .. Len(q) + 1 /\ ~(m + 1 <= k) /\ m + 1 # k + 1 /\ (m + 1) - 1 = m
        BY <3>4
      <4>2. r[m + 1] = q[m]
        BY <4>1, <1>3
      <4> QED
        BY <3>1, <3>2, <4>1, <4>2, <1>3
    <3> QED
      BY <3>3, <3>4
  <2> QED
    BY <2>1, <2>2
<1>11. \A j \in 1 .. Len(r) : \E i \in 1 .. Len(b) : b[i] = r[j]
  <2> SUFFICES ASSUME NEW j \in 1 .. Len(r) PROVE \E i \in 1 .. Len(b) : b[i] = r[j]
    OBVIOUS
  <2>1. CASE j = k + 1
    BY <2>1, <1>4, <1>8
  <2>2. CASE j # k + 1
    <3>1. PICK i \in 1 .. Len(a) : a[i] = r[j]
      BY <2>2, <1>7, <1>1, ZenonT(40)
    <3> QED
      BY <3>1, <1>4
  <2> QED
    BY <2>1, <2>2
\* The packets of q keep their order, p is the youngest.
<1>12. ASSUME NEW x, NEW y, Precedes(a, x, y) PROVE Precedes(b, x, y)
  BY <1>4, <1>12 DEF Precedes
<1>13. ASSUME NEW i \in 1 .. k PROVE Precedes(b, q[i], p)
  <2>1. prio[q[i]] <= prio[p] /\ prio[q[i]] \in Nat /\ prio[p] \in Nat /\ i \in 1 .. Len(q)
    BY <1>0, <1>2
  <2>2. PICK m \in 1 .. Len(a) : a[m] = q[i]
    BY <2>1, <1>1
  <2>3. m \in 1 .. Len(b) /\ Len(a) + 1 \in 1 .. Len(b) /\ m < Len(a) + 1 /\ b[m] = q[i]
    BY <2>2, <1>4
  <2> QED
    BY <2>1, <2>3, <1>4 DEF Precedes
<1>14. ASSUME NEW j \in k + 1 .. Len(q) PROVE Precedes(b, p, q[j])
  <2>1. prio[q[k + 1]] > prio[p] /\ k + 1 \in 1 .. Len(q) /\ j \in 1 .. Len(q)
    <3>1. k # Len(q) /\ k + 1 \in 1 .. Len(q) /\ j \in 1 .. Len(q)
      OBVIOUS
    <3> QED
      BY <3>1, <1>2
  <2>2. prio[q[k + 1]] <= prio[q[j]]
    <3>1. CASE j = k + 1
      BY <3>1, <2>1, <1>0
    <3>2. CASE j > k + 1
      <4>1. Precedes(a, q[k + 1], q[j])
        BY <3>2, <2>1, <1>1
      <4> QED
        BY <4>1, <2>1, <1>0 DEF Precedes
    <3> QED
      BY <3>1, <3>2
  <2> QED
    BY <2>1, <2>2, <1>0 DEF Precedes
<1>15. \A i, j \in 1 .. Len(r) : i < j => Precedes(b, r[i], r[j])
  <2> SUFFICES ASSUME NEW i \in 1 .. Len(r), NEW j \in 1 .. Len(r), i < j
               PROVE  Precedes(b, r[i], r[j])
    OBVIOUS
  <2>1. CASE i # k + 1 /\ j # k + 1
    <3>1. From(i) < From(j)
      BY <2>1, <1>1
    <3>2. Precedes(a, q[From(i)], q[From(j)])
      BY <2>1, <3>1, <1>1, <1>7
    <3> QED
      BY <2>1, <3>2, <1>7, <1>12
  <2>2. CASE j = k + 1
    <3>1. i \in 1 .. k /\ r[i] = q[i]
      BY <2>2, <1>3, <1>1
    <3> QED
      BY <2>2, <3>1, <1>8, <1>13
  <2>3. CASE i = k + 1
    <3>1. j - 1 \in k + 1 .. Len(q) /\ r[j] = q[j - 1]
      BY <2>3, <1>3, <1>1
    <3> QED
      BY <2>3, <3>1, <1>8, <1>14
  <2> QED
    BY <2>1, <2>2, <2>3
<1> QED
  BY <1>1, <1>3, <1>4, <1>5, <1>9, <1>10, <1>11, <1>15 DEF Arranged, b, r

\* A packet that goes leaves the others in their order.
LEMMA ArrangedRemove ==
    ASSUME NEW a \in Seq(Packets), Distinct(a), NEW q, Arranged(q, a),
           NEW m \in 1 .. Len(a), NEW n \in 1 .. Len(q), q[n] = a[m]
    PROVE  /\ Arranged(RemoveAt(q, n), RemoveAt(a, m))
           /\ RemoveAt(a, m) \in Seq(Packets) /\ Distinct(RemoveAt(a, m))
           /\ \A i \in 1 .. Len(RemoveAt(a, m)) : RemoveAt(a, m)[i] # a[m]
<1> DEFINE b == RemoveAt(a, m)
           r == RemoveAt(q, n)
           Skip(i, h) == IF i < h THEN i ELSE i + 1
           Back(i, h) == IF i < h THEN i ELSE i - 1
<1>1. /\ q \in Seq(Packets) /\ Len(q) = Len(a) /\ Distinct(q)
      /\ \A i \in 1 .. Len(a) : \E j \in 1 .. Len(q) : q[j] = a[i]
      /\ \A j \in 1 .. Len(q) : \E i \in 1 .. Len(a) : a[i] = q[j]
      /\ \A i, j \in 1 .. Len(q) : i < j => Precedes(a, q[i], q[j])
  BY DEF Arranged
<1>2. /\ b \in Seq(Packets) /\ Len(b) = Len(a) - 1
      /\ \A i \in 1 .. Len(a) - 1 : b[i] = IF i < m THEN a[i] ELSE a[i + 1]
  BY RemovedAt
<1>3. /\ r \in Seq(Packets) /\ Len(r) = Len(a) - 1
      /\ \A i \in 1 .. Len(a) - 1 : r[i] = IF i < n THEN q[i] ELSE q[i + 1]
  <2>1. q \in Seq(Packets)
    BY <1>1
  <2>2. /\ RemoveAt(q, n) \in Seq(Packets) /\ Len(RemoveAt(q, n)) = Len(q) - 1
        /\ \A i \in 1 .. Len(q) - 1 : RemoveAt(q, n)[i] = IF i < n THEN q[i] ELSE q[i + 1]
    BY <2>1, RemovedAt
  <2> QED
    BY <2>2, <1>1
<1> HIDE DEF b, r
<1>4. ASSUME NEW h \in 1 .. Len(a), NEW i \in 1 .. Len(a) - 1
      PROVE  Skip(i, h) \in 1 .. Len(a) /\ Skip(i, h) # h
  OBVIOUS
<1>5. ASSUME NEW h \in 1 .. Len(a), NEW i \in 1 .. Len(a), i # h
      PROVE  /\ Back(i, h) \in 1 .. Len(a) - 1 /\ Skip(Back(i, h), h) = i
  BY <1>5
<1>6. ASSUME NEW h \in 1 .. Len(a), NEW i \in 1 .. Len(a) - 1, NEW j \in 1 .. Len(a) - 1
      PROVE  /\ Skip(i, h) = Skip(j, h) => i = j
             /\ i < j => Skip(i, h) < Skip(j, h)
  OBVIOUS
<1>7. ASSUME NEW h \in 1 .. Len(a), NEW i \in 1 .. Len(a), NEW j \in 1 .. Len(a), i # h, j # h, i < j
      PROVE  Back(i, h) < Back(j, h)
  BY <1>7
<1>8. \A i \in 1 .. Len(a) - 1 : b[i] = a[Skip(i, m)] /\ r[i] = q[Skip(i, n)]
  BY <1>2, <1>3
<1> HIDE DEF Skip, Back
<1>9. Distinct(b) /\ Distinct(r)
  <2>1. ASSUME NEW i \in 1 .. Len(a) - 1, NEW j \in 1 .. Len(a) - 1, b[i] = b[j] PROVE i = j
    <3>1. Skip(i, m) \in 1 .. Len(a) /\ Skip(j, m) \in 1 .. Len(a)
      BY <1>4
    <3>2. a[Skip(i, m)] = a[Skip(j, m)]
      BY <2>1, <1>8
    <3>3. Skip(i, m) = Skip(j, m)
      BY <3>1, <3>2 DEF Distinct
    <3> QED
      BY <3>3, <1>6
  <2>2. ASSUME NEW i \in 1 .. Len(a) - 1, NEW j \in 1 .. Len(a) - 1, r[i] = r[j] PROVE i = j
    <3>1. n \in 1 .. Len(a)
      BY <1>1
    <3>2. Skip(i, n) \in 1 .. Len(q) /\ Skip(j, n) \in 1 .. Len(q)
      BY <3>1, <1>1, <1>4
    <3>3. q[Skip(i, n)] = q[Skip(j, n)]
      BY <2>2, <1>8
    <3>4. Skip(i, n) = Skip(j, n)
      BY <3>2, <3>3, <1>1 DEF Distinct
    <3> QED
      BY <3>1, <3>4, <1>6
  <2> QED
    BY <2>1, <2>2, <1>2, <1>3 DEF Distinct
<1>10. ASSUME NEW i \in 1 .. Len(a) - 1 PROVE b[i] # a[m] /\ r[i] # q[n]
  <2>1. n \in 1 .. Len(a)
    BY <1>1
  <2>2. Skip(i, m) \in 1 .. Len(a) /\ Skip(i, m) # m /\ Skip(i, n) \in 1 .. Len(a) /\ Skip(i, n) # n
    BY <2>1, <1>4
  <2>3. a[Skip(i, m)] # a[m]
    BY <2>2 DEF Distinct
  <2>4. q[Skip(i, n)] # q[n]
    BY <2>1, <2>2, <1>1 DEF Distinct
  <2> QED
    BY <2>3, <2>4, <1>8
<1>11. ASSUME NEW i \in 1 .. Len(a) - 1 PROVE \E j \in 1 .. Len(r) : r[j] = b[i]
  <2>1. PICK k \in 1 .. Len(q) : q[k] = b[i]
    <3>1. Skip(i, m) \in 1 .. Len(a) /\ b[i] = a[Skip(i, m)]
      BY <1>4, <1>8
    <3> QED
      BY <3>1, <1>1
  <2>2. k # n
    BY <2>1, <1>10
  <2>3. Back(k, n) \in 1 .. Len(a) - 1 /\ Skip(Back(k, n), n) = k
    BY <2>2, <1>1, <1>5
  <2> QED
    BY <2>1, <2>3, <1>3, <1>8
<1>12. ASSUME NEW j \in 1 .. Len(a) - 1 PROVE \E i \in 1 .. Len(b) : b[i] = r[j]
  <2>1. PICK k \in 1 .. Len(a) : a[k] = r[j]
    <3>1. n \in 1 .. Len(a)
      BY <1>1
    <3>2. Skip(j, n) \in 1 .. Len(q) /\ r[j] = q[Skip(j, n)]
      BY <3>1, <1>1, <1>4, <1>8
    <3> QED
      BY <3>2, <1>1
  <2>2. k # m
    BY <2>1, <1>10
  <2>3. Back(k, m) \in 1 .. Len(a) - 1 /\ Skip(Back(k, m), m) = k
    BY <2>2, <1>5
  <2> QED
    BY <2>1, <2>3, <1>2, <1>8, ZenonT(40)
<1>13. ASSUME NEW i \in 1 .. Len(a) - 1, NEW j \in 1 .. Len(a) - 1, i < j
       PROVE  Precedes(b, r[i], r[j])
  <2>1. Precedes(a, r[i], r[j])
    <3>1. Skip(i, n) < Skip(j, n) /\ Skip(i, n) \in 1 .. Len(q) /\ Skip(j, n) \in 1 .. Len(q)
      BY <1>1, <1>4, <1>6, <1>13
    <3> QED
      BY <3>1, <1>1, <1>8
  <2>2. CASE prio[r[i]] < prio[r[j]]
    BY <2>2 DEF Precedes
  <2>3. CASE /\ prio[r[i]] = prio[r[j]]
             /\ \E k, l \in 1 .. Len(a) : k < l /\ a[k] = r[i] /\ a[l] = r[j]
    <3>1. PICK k \in 1 .. Len(a), l \in 1 .. Len(a) : k < l /\ a[k] = r[i] /\ a[l] = r[j]
      BY <2>3
    <3>2. k # m /\ l # m
      BY <3>1, <1>10
    <3>3. /\ Back(k, m) \in 1 .. Len(b) /\ Back(l, m) \in 1 .. Len(b)
          /\ b[Back(k, m)] = a[k] /\ b[Back(l, m)] = a[l]
      BY <3>2, <1>2, <1>5, <1>8
    <3>4. Back(k, m) < Back(l, m)
      BY <3>1, <3>2, <1>7
    <3> QED
      BY <2>3, <3>1, <3>3, <3>4 DEF Precedes
  <2> QED
    BY <2>1, <2>2, <2>3 DEF Precedes
<1>14. Arranged(r, b)
  BY <1>2, <1>3, <1>9, <1>11, <1>12, <1>13 DEF Arranged
<1> QED
  BY <1>2, <1>9, <1>10, <1>14 DEF b, r

-----------------------------------------------------------------------------
(* Walking along the pointers *)

\* f walks from h along the pointers nx, as Walk does from head_ along next_.
Step(f, h, nx, n) == IF n = 0 THEN h ELSE IF f[n - 1] = NULL THEN NULL ELSE nx[f[n - 1]]
IsWalk(f, h, nx, N) == f = [n \in 0 .. N |-> Step(f, h, nx, n)]

\* There is such a walk from everywhere, of any length.
LEMMA WalkExists ==
    ASSUME NEW h, NEW nx, NEW N \in Nat
    PROVE  \E f : IsWalk(f, h, nx, N)
<1> DEFINE Short == {n \in Nat : ~\E f : IsWalk(f, h, nx, n)}
<1>1. SUFFICES ASSUME Short # {} PROVE FALSE
  OBVIOUS
<1>2. PICK n \in Short : \A m \in Short : n <= m
  <2>1. Short \in SUBSET Nat
    OBVIOUS
  <2> HIDE DEF Short
  <2> QED
    BY <1>1, <2>1, LeastNumber, Zenon
<1>3. CASE n = 0
  <2>1. IsWalk([k \in 0 .. 0 |-> h], h, nx, 0)
    BY DEF IsWalk, Step
  <2> QED
    BY <1>2, <1>3, <2>1
<1>4. CASE n # 0
  <2>1. n - 1 \in Nat /\ n - 1 \notin Short
    <3>1. n \in Nat /\ n - 1 \in Nat /\ n - 1 < n
      BY <1>4
    <3> HIDE DEF Short
    <3> QED
      BY <1>2, <3>1
  <2>2. PICK f : IsWalk(f, h, nx, n - 1)
    BY <2>1
  <2> DEFINE g == [k \in 0 .. n |-> Step(f, h, nx, k)]
  <2>3. \A k \in 0 .. n - 1 : g[k] = f[k]
    BY <2>2 DEF IsWalk
  <2>4. \A k \in 0 .. n : g[k] = Step(g, h, nx, k)
    <3> SUFFICES ASSUME NEW k \in 0 .. n PROVE g[k] = Step(g, h, nx, k)
      OBVIOUS
    <3>1. g[k] = Step(f, h, nx, k)
      OBVIOUS
    <3>2. k # 0 => g[k - 1] = f[k - 1]
      BY <2>3
    <3> HIDE DEF g
    <3> QED
      BY <3>1, <3>2 DEF Step
  <2>5. g = [k \in 0 .. n |-> Step(g, h, nx, k)]
    <3>1. g = [k \in 0 .. n |-> g[k]]
      OBVIOUS
    <3> HIDE DEF g
    <3> QED
      BY <2>4, <3>1
  <2>6. IsWalk(g, h, nx, n)
    <3> HIDE DEF g
    <3> QED
      BY <2>5 DEF IsWalk
  <2> HIDE DEF g
  <2> QED
    BY <2>6
<1> QED
  BY <1>3, <1>4

\* Walk is that walk, before and after a step.
LEMMA WalkIsWalk ==
    /\ IsWalk(Walk, head_, next_, Cardinality(Packets))
    /\ IsWalk(Walk', head_', next_', Cardinality(Packets))
<1> DEFINE N == Cardinality(Packets)
<1>1. N \in Nat
  BY QueueAssumption, FS_CardinalityType
<1> HIDE DEF N
<1>2. Walk = CHOOSE f : IsWalk(f, head_, next_, N)
  BY DEF Walk, IsWalk, Step, N
<1>3. Walk' = CHOOSE f : IsWalk(f, head_', next_', N)
  BY DEF Walk, IsWalk, Step, N
<1>4. \A h, nx : IsWalk(CHOOSE f : IsWalk(f, h, nx, N), h, nx, N)
  <2> SUFFICES ASSUME NEW h, NEW nx PROVE IsWalk(CHOOSE f : IsWalk(f, h, nx, N), h, nx, N)
    OBVIOUS
  <2>1. \E f : IsWalk(f, h, nx, N)
    BY <1>1, WalkExists
  <2> QED
    BY <2>1, Zenon
<1> QED
  BY <1>2, <1>3, <1>4 DEF N

\* A walk follows the packets the pointers lead through, while it is long enough.
LEMMA WalkFollows ==
    ASSUME NEW f, NEW h, NEW nx, NEW N \in Nat, IsWalk(f, h, nx, N),
           NEW q \in Seq(Packets), Len(q) <= N + 1,
           Len(q) > 0 => h = q[1],
           \A i \in 1 .. Len(q) - 1 : nx[q[i]] = q[i + 1]
    PROVE  \A n \in 1 .. Len(q) : f[n - 1] = q[n]
<1> DEFINE Off == {n \in 1 .. Len(q) : f[n - 1] # q[n]}
<1>1. SUFFICES ASSUME Off # {} PROVE FALSE
  OBVIOUS
<1>2. PICK n \in Off : \A m \in Off : n <= m
  <2>1. Off \in SUBSET Nat
    OBVIOUS
  <2> HIDE DEF Off
  <2> QED
    BY <1>1, <2>1, LeastNumber, Zenon
<1>3. n \in 1 .. Len(q) /\ f[n - 1] # q[n] /\ n - 1 \in 0 .. N
  BY <1>2
<1>4. f[n - 1] = Step(f, h, nx, n - 1)
  BY <1>3 DEF IsWalk
<1>5. n # 1
  BY <1>3, <1>4 DEF Step
<1>6. n - 1 \in 1 .. Len(q) /\ n - 1 \notin Off
  <2>1. n - 1 \in 1 .. Len(q) /\ n - 1 < n /\ n \in Nat
    BY <1>3, <1>5
  <2> HIDE DEF Off
  <2> QED
    BY <1>2, <2>1
<1>7. f[(n - 1) - 1] = q[n - 1] /\ q[n - 1] # NULL
  <2>1. q[n - 1] \in Packets
    BY <1>6
  <2> QED
    BY <1>6, <2>1, QueueAssumption DEF NULL
<1>8. nx[q[n - 1]] = q[n]
  <2>1. n - 1 \in 1 .. Len(q) - 1 /\ (n - 1) + 1 = n
    BY <1>3, <1>6
  <2> QED
    BY <2>1
<1> QED
  BY <1>3, <1>4, <1>5, <1>7, <1>8 DEF Step

\* Different packets are no more than there are.
LEMMA NoMoreThanPackets ==
    ASSUME NEW q \in Seq(Packets), Distinct(q)
    PROVE  Len(q) <= Cardinality(Packets)
<1>1. q \in Injection(1 .. Len(q), Packets)
  BY DEF Distinct, Injection, IsInjective
<1>2. Cardinality(1 .. Len(q)) <= Cardinality(Packets)
  BY <1>1, FS_Injection, QueueAssumption
<1>3. Len(q) \in Nat
  OBVIOUS
<1>4. Cardinality(1 .. Len(q)) = IF 1 > Len(q) THEN 0 ELSE Len(q) - 1 + 1
  BY <1>3, FS_Interval
<1>5. Cardinality(1 .. Len(q)) = Len(q)
  BY <1>3, <1>4
<1> QED
  BY <1>2, <1>5

-----------------------------------------------------------------------------
(* The list, and the steps *)

\* The list is the sequence through which the pointers lead.
LEMMA ListIs ==
    ASSUME Types, NEW q, Arranged(q, arrival), Linked(q)
    PROVE  List = q /\ len_ <= Cardinality(Packets)
<1>1. q \in Seq(Packets) /\ Len(q) = len_ /\ Distinct(q)
  BY DEF Types, Arranged
<1>2. Len(q) <= Cardinality(Packets) /\ Cardinality(Packets) \in Nat
  BY <1>1, NoMoreThanPackets, QueueAssumption, FS_CardinalityType
<1>3. \A n \in 1 .. Len(q) : Walk[n - 1] = q[n]
  <2>1. /\ Len(q) > 0 => head_ = q[1]
        /\ \A i \in 1 .. Len(q) - 1 : next_[q[i]] = q[i + 1]
    BY DEF Linked
  <2> QED
    BY <1>1, <1>2, <2>1, WalkIsWalk, WalkFollows
<1> QED
  BY <1>1, <1>2, <1>3 DEF List

LEMMA ListIsNext ==
    ASSUME Types', NEW q, Arranged(q, arrival'), Linked(q)'
    PROVE  List' = q
<1>1. q \in Seq(Packets) /\ Len(q) = len_' /\ Distinct(q)
  BY DEF Types, Arranged
<1>2. Len(q) <= Cardinality(Packets) /\ Cardinality(Packets) \in Nat
  BY <1>1, NoMoreThanPackets, QueueAssumption, FS_CardinalityType
<1>3. \A n \in 1 .. Len(q) : Walk'[n - 1] = q[n]
  <2>1. /\ Len(q) > 0 => head_' = q[1]
        /\ \A i \in 1 .. Len(q) - 1 : next_'[q[i]] = q[i + 1]
    BY DEF Linked
  <2> DEFINE f == Walk'
             h == head_'
             nx == next_'
             N == Cardinality(Packets)
  <2>2. IsWalk(f, h, nx, N)
    BY WalkIsWalk
  <2>3. /\ N \in Nat /\ q \in Seq(Packets) /\ Len(q) <= N + 1
        /\ Len(q) > 0 => h = q[1]
        /\ \A i \in 1 .. Len(q) - 1 : nx[q[i]] = q[i + 1]
    BY <1>1, <1>2, <2>1
  <2> HIDE DEF f, h, nx, N
  <2>4. \A n \in 1 .. Len(q) : f[n - 1] = q[n]
    BY <2>2, <2>3, WalkFollows
  <2> QED
    BY <2>4 DEF f
<1> QED
  BY <1>1, <1>2, <1>3 DEF List

\* A packet that the list takes is linked in where Insert puts it.
LEMMA EnqueLinks ==
    ASSUME Types, NEW q, Arranged(q, arrival), Linked(q), NEW p \in Packets, Enque(p)
    PROVE  /\ Types' /\ arrival' = Append(arrival, p)
           /\ Arranged(Insert(q, p, prio), arrival') /\ Linked(Insert(q, p, prio))'
<1> DEFINE r == Insert(q, p, prio)
<1>1. /\ q \in Seq(Packets) /\ Len(q) = len_ /\ Distinct(q)
      /\ prio \in [Packets -> Nat] /\ Packets \subseteq Nat \ {0}
      /\ \A j \in 1 .. Len(q) : q[j] \in Packets
      /\ \A j \in 1 .. Len(q) : \E i \in 1 .. Len(arrival) : arrival[i] = q[j]
      /\ \A i, j \in 1 .. Len(q) : i < j => Precedes(arrival, q[i], q[j])
  BY QueueAssumption DEF Types, Arranged
<1>2. /\ arrival' = Append(arrival, p) /\ len_' = len_ + 1
      /\ arrival \in Seq(Packets) /\ len_ = Len(arrival) /\ Distinct(arrival)
      /\ next_ \in [Packets -> Packets \cup {NULL}]
      /\ \A i \in 1 .. Len(arrival) : arrival[i] # p
  BY DEF Enque, Outside, Range, Types
<1>3. /\ Arranged(r, arrival')
      /\ arrival' \in Seq(Packets) /\ Distinct(arrival')
  BY <1>2, ArrangedInsert
<1>4. \A j \in 1 .. Len(q) : q[j] # p
  BY <1>1, <1>2
<1>5. PICK k \in 0 .. Len(q) : /\ r = PutBehind(q, p, k)
                               /\ \A i \in 1 .. k : prio[q[i]] <= prio[p]
                               /\ k = Len(q) \/ prio[q[k + 1]] > prio[p]
  BY <1>1, WhereInserted
<1> HIDE DEF r
<1>6. /\ r \in Seq(Packets) /\ Len(r) = Len(q) + 1
      /\ \A i \in 1 .. Len(q) + 1 :
           r[i] = IF i <= k THEN q[i] ELSE IF i = k + 1 THEN p ELSE q[i - 1]
  <2>1. /\ PutBehind(q, p, k) \in Seq(Packets) /\ Len(PutBehind(q, p, k)) = Len(q) + 1
        /\ \A i \in 1 .. Len(q) + 1 :
             PutBehind(q, p, k)[i] = IF i <= k THEN q[i] ELSE IF i = k + 1 THEN p ELSE q[i - 1]
    <3>1. q \in Seq(Packets) /\ k \in 0 .. Len(q)
      BY <1>1
    <3> QED
      BY <3>1, PutBehindAt
  <2> QED
    BY <1>5, <2>1
<1>7. CASE Len(q) = 0
  <2>1. tail_ = NULL /\ head_' = p /\ tail_' = p /\ next_' = next_
    BY <1>1, <1>7 DEF Enque, Types, LinkLast, LinkBefore
  <2>2. Types'
    <3>1. len_' = Len(arrival') /\ len_' # 0 /\ p # NULL
      BY <1>1, <1>2 DEF NULL
    <3> QED
      BY <2>1, <3>1, <1>2, <1>3 DEF Types
  <2>3. Len(r) = 1 /\ r[1] = p
    BY <1>6, <1>7
  <2>4. Linked(r)'
    BY <2>1, <2>3 DEF Linked
  <2> QED
    BY <1>2, <1>3, <2>2, <2>4 DEF r
<1>8. CASE Len(q) > 0
  <2>1. tail_ = q[Len(q)] /\ head_ = q[1] /\ tail_ # NULL
    BY <1>1, <1>8 DEF Linked, NULL
  <2>2. \A i \in 1 .. Len(q) - 1 : next_[q[i]] = q[i + 1]
    BY DEF Linked
  <2>3. \A j \in 1 .. Len(q) : prio[q[j]] \in Nat /\ prio[p] \in Nat
    BY <1>1
  <2>4. \A i, j \in 1 .. Len(q) : i <= j => prio[q[i]] <= prio[q[j]]
    <3>1. \A i, j \in 1 .. Len(q) : i < j => prio[q[i]] <= prio[q[j]]
      BY <1>1, <2>3, SMTT(30) DEF Precedes
    <3>2. \A i, j \in 1 .. Len(q) : i <= j => i < j \/ i = j
      OBVIOUS
    <3> QED
      BY <2>3, <3>1, <3>2
  <2>5. CASE GoesLast(p)
    <3>1. k = Len(q)
      <4> SUFFICES ASSUME k < Len(q) PROVE FALSE
        OBVIOUS
      <4>1. k + 1 \in 1 .. Len(q) /\ Len(q) \in 1 .. Len(q) /\ k + 1 <= Len(q)
        BY <1>8
      <4> QED
        BY <4>1, <2>1, <2>3, <2>4, <2>5, <1>5 DEF GoesLast
    <3>2. tail_' = p /\ head_' = head_ /\ next_' = [next_ EXCEPT ![tail_] = p]
      BY <2>1, <2>5 DEF Enque, LinkLast
    <3>3. Types'
      BY <3>2, <2>1, <1>1, <1>2, <1>3, <1>8 DEF Types, NULL
    <3>4. r[Len(q) + 1] = p /\ \A i \in 1 .. Len(q) : r[i] = q[i]
      BY <3>1, <1>6
    <3>5. \A i \in 1 .. Len(r) - 1 : next_'[r[i]] = r[i + 1]
      <4> SUFFICES ASSUME NEW i \in 1 .. Len(q) PROVE next_'[q[i]] = r[i + 1]
        BY <1>6, <3>4
      <4>1. CASE i = Len(q)
        BY <4>1, <2>1, <3>2, <3>4, <1>1, <1>2
      <4>2. CASE i < Len(q)
        <5>1. q[i] # q[Len(q)] /\ next_[q[i]] = q[i + 1] /\ i + 1 \in 1 .. Len(q)
          BY <4>2, <1>1, <2>2, SMTT(30) DEF Distinct
        <5> QED
          BY <5>1, <2>1, <3>2, <3>4, <1>1, <1>2
      <4> QED
        BY <4>1, <4>2
    <3>6. Linked(r)'
      BY <3>2, <3>4, <3>5, <2>1, <1>6, <1>8 DEF Linked
    <3> QED
      BY <1>2, <1>3, <3>3, <3>6 DEF r
  <2>6. CASE ~GoesLast(p)
    <3>1. k < Len(q)
      <4> SUFFICES ASSUME k = Len(q) PROVE FALSE
        OBVIOUS
      <4> QED
        BY <1>5, <1>8, <2>1, <2>6 DEF GoesLast
    <3> DEFINE At(n) == /\ Stops(Walk[n], p)
                        /\ \A m \in 0 .. n - 1 : ~Stops(Walk[m], p)
    <3>2. \A n \in 1 .. Len(q) : Walk[n - 1] = q[n]
      BY <1>1, ListIs DEF List
    <3>3. k \in DOMAIN Walk
      <4>1. len_ <= Cardinality(Packets) /\ Cardinality(Packets) \in Nat
        BY ListIs, QueueAssumption, FS_CardinalityType
      <4>2. DOMAIN Walk = 0 .. Cardinality(Packets)
        BY WalkIsWalk DEF IsWalk
      <4> QED
        BY <4>1, <4>2, <3>1, <1>1
    <3>4. At(k)
      <4>1. Walk[k] = q[k + 1] /\ prio[q[k + 1]] > prio[p]
        BY <3>1, <3>2, <1>5
      <4>2. ASSUME NEW m \in 0 .. k - 1 PROVE ~Stops(Walk[m], p)
        <5>1. m + 1 \in 1 .. k /\ m + 1 \in 1 .. Len(q) /\ (m + 1) - 1 = m
          OBVIOUS
        <5> QED
          BY <5>1, <3>2, <2>3, <1>5 DEF Stops
      <4> QED
        BY <4>1, <4>2 DEF Stops
    <3>5. \A n \in DOMAIN Walk : At(n) => n = k
      <4>1. DOMAIN Walk = 0 .. Cardinality(Packets) /\ Cardinality(Packets) \in Nat
        BY WalkIsWalk, QueueAssumption, FS_CardinalityType DEF IsWalk
      <4>2. ASSUME NEW n \in DOMAIN Walk, At(n) PROVE n = k
        <5>1. n \in Int
          BY <4>1
        <5>2. ~(n < k) /\ ~(k < n)
          BY <3>4, <4>2, <5>1, <4>1
        <5> QED
          BY <5>1, <5>2
      <4> QED
        BY <4>2
    <3>6. k = CHOOSE n \in DOMAIN Walk : At(n)
      <4> HIDE DEF At
      <4>1. (CHOOSE n \in DOMAIN Walk : At(n)) \in DOMAIN Walk /\ At(CHOOSE n \in DOMAIN Walk : At(n))
        BY <3>3, <3>4, Zenon
      <4> QED
        BY <3>5, <4>1, Zenon
    <3>7. LinkBefore(p)
      BY <2>1, <2>6 DEF Enque
    <3>8. /\ IF k > 0
             THEN /\ next_' = [next_ EXCEPT ![Walk[k - 1]] = p, ![p] = Walk[k]]
                  /\ head_' = head_
             ELSE next_' = [next_ EXCEPT ![p] = Walk[k]] /\ head_' = p
          /\ tail_' = tail_
      BY <3>6, <3>7, Zenon DEF LinkBefore
    <3>9. Walk[k] = q[k + 1] /\ (k > 0 => Walk[k - 1] = q[k])
      BY <3>1, <3>2
    <3>10. CASE k = 0
      <4>1. next_' = [next_ EXCEPT ![p] = q[1]] /\ head_' = p /\ tail_' = tail_ /\ q[1] \in Packets
        BY <3>8, <3>9, <3>10, <1>1, <1>8
      <4>2. Types'
        BY <4>1, <2>1, <1>1, <1>2, <1>3, <1>8 DEF Types, NULL
      <4>3. r[1] = p /\ r[Len(r)] = q[Len(q)] /\ Len(r) > 0
        BY <3>10, <1>6, <1>8
      <4>4. \A i \in 1 .. Len(r) - 1 : next_'[r[i]] = r[i + 1]
        <5> SUFFICES ASSUME NEW i \in 1 .. Len(q) PROVE next_'[r[i]] = r[i + 1]
          BY <1>6
        <5>1. r[i + 1] = q[i]
          BY <3>10, <1>6
        <5>2. CASE i = 1
          BY <5>1, <5>2, <4>1, <4>3, <1>2
        <5>3. CASE i > 1
          <6>1. r[i] = q[i - 1] /\ i - 1 \in 1 .. Len(q) - 1 /\ (i - 1) + 1 = i
            BY <5>3, <3>10, <1>6
          <6>2. q[i - 1] # p /\ q[i - 1] \in Packets /\ next_[q[i - 1]] = q[i]
            BY <6>1, <1>1, <1>4, <2>2
          <6> QED
            BY <6>1, <6>2, <5>1, <4>1, <1>2
        <5> QED
          BY <5>2, <5>3
      <4>5. Linked(r)'
        BY <4>1, <4>3, <4>4, <2>1 DEF Linked
      <4> QED
        BY <1>2, <1>3, <4>2, <4>5 DEF r
    <3>11. CASE k > 0
      <4>1. /\ next_' = [next_ EXCEPT ![q[k]] = p, ![p] = q[k + 1]]
            /\ head_' = head_ /\ tail_' = tail_ /\ q[k] \in Packets /\ q[k + 1] \in Packets /\ q[k] # p
        BY <3>1, <3>8, <3>9, <3>11, <1>1, <1>4
      <4>2. Types'
        <5>1. len_' = Len(arrival') /\ len_' # 0 /\ head_ # NULL
          BY <1>1, <1>2, <1>8 DEF Types
        <5>2. next_' \in [Packets -> Packets \cup {NULL}]
          BY <4>1, <1>2
        <5> QED
          BY <4>1, <5>1, <5>2, <2>1, <1>3 DEF Types
      <4>3. r[1] = q[1] /\ r[Len(r)] = q[Len(q)] /\ Len(r) > 0
        BY <3>1, <3>11, <1>6, <1>8
      <4>4. \A x \in Packets : next_'[x] = IF x = p THEN q[k + 1] ELSE IF x = q[k] THEN p ELSE next_[x]
        BY <4>1, <1>2
      <4>5. \A i \in 1 .. Len(r) - 1 : next_'[r[i]] = r[i + 1]
        <5> SUFFICES ASSUME NEW i \in 1 .. Len(q) PROVE next_'[r[i]] = r[i + 1]
          BY <1>6
        <5>1. CASE i < k
          <6>1. r[i] = q[i] /\ r[i + 1] = q[i + 1] /\ i \in 1 .. Len(q) - 1
            BY <5>1, <3>1, <1>6
          <6>2. q[i] # p /\ q[i] # q[k] /\ q[i] \in Packets
            BY <5>1, <3>1, <1>1, <1>4 DEF Distinct
          <6> QED
            BY <6>1, <6>2, <4>4, <2>2
        <5>2. CASE i = k
          <6>1. r[i] = q[k] /\ r[i + 1] = p
            BY <5>2, <3>1, <3>11, <1>6
          <6> QED
            BY <6>1, <4>1, <4>4
        <5>3. CASE i = k + 1
          <6>1. r[i] = p /\ r[i + 1] = q[k + 1]
            BY <5>3, <3>1, <3>11, <1>6
          <6> QED
            BY <6>1, <4>4
        <5>4. CASE i > k + 1
          <6>1. r[i] = q[i - 1] /\ r[i + 1] = q[i] /\ i - 1 \in 1 .. Len(q) - 1 /\ (i - 1) + 1 = i
            BY <5>4, <3>1, <3>11, <1>6
          <6>2. q[i - 1] # p /\ q[i - 1] # q[k] /\ q[i - 1] \in Packets
            <7>1. i - 1 \in 1 .. Len(q) /\ k \in 1 .. Len(q) /\ i - 1 # k
              BY <5>4, <3>1, <3>11
            <7> QED
              BY <7>1, <1>1, <1>4 DEF Distinct
          <6> QED
            BY <6>1, <6>2, <4>4, <2>2
        <5> QED
          BY <5>1, <5>2, <5>3, <5>4
      <4>6. Linked(r)'
        BY <4>1, <4>3, <4>5, <2>1 DEF Linked
      <4> QED
        BY <1>2, <1>3, <4>2, <4>6 DEF r
    <3> QED
      BY <3>10, <3>11
  <2> QED
    BY <2>5, <2>6
<1> QED
  BY <1>1, <1>7, <1>8

\* What goes is taken out of the order of service, and nothing else changes in it.
LEMMA LeaveArranges ==
    ASSUME Types, NEW q, Arranged(q, arrival), NEW n \in 1 .. Len(q), Leave(q[n])
    PROVE  LET r == RemoveAt(q, n)
           IN  /\ Arranged(r, arrival') /\ arrival' \in Seq(Packets) /\ Distinct(arrival')
               /\ Len(arrival') = Len(q) - 1 /\ Len(r) = Len(q) - 1
               /\ \A i \in 1 .. Len(r) : r[i] = IF i < n THEN q[i] ELSE q[i + 1]
<1>1. /\ q \in Seq(Packets) /\ Len(q) = Len(arrival)
      /\ arrival \in Seq(Packets) /\ Distinct(arrival)
  BY DEF Types, Arranged
<1>2. PICK m \in 1 .. Len(arrival) : arrival[m] = q[n] /\ arrival' = RemoveAt(arrival, m)
  BY <1>1 DEF Leave
<1>3. /\ Arranged(RemoveAt(q, n), arrival')
      /\ arrival' \in Seq(Packets) /\ Distinct(arrival')
  BY <1>1, <1>2, ArrangedRemove
<1>4. /\ Len(RemoveAt(q, n)) = Len(q) - 1
      /\ \A i \in 1 .. Len(q) - 1 : RemoveAt(q, n)[i] = IF i < n THEN q[i] ELSE q[i + 1]
  BY <1>1, RemovedAt
<1>5. Len(arrival') = Len(q) - 1
  BY <1>1, <1>2, RemovedAt
<1> QED
  BY <1>3, <1>4, <1>5

\* The first packet of the list goes.
LEMMA DequeLinks ==
    ASSUME Types, NEW q, Arranged(q, arrival), Linked(q), Deque
    PROVE  Types' /\ Arranged(RemoveAt(q, 1), arrival') /\ Linked(RemoveAt(q, 1))'
<1> DEFINE r == RemoveAt(q, 1)
<1>1. /\ q \in Seq(Packets) /\ Len(q) = len_ /\ Len(q) > 0 /\ Distinct(q)
      /\ head_ = q[1] /\ tail_ = q[Len(q)] /\ 1 \in 1 .. Len(q)
  <2>1. q \in Seq(Packets) /\ Len(q) = len_ /\ Distinct(q)
    BY DEF Types, Arranged
  <2>2. Len(q) > 0
    BY <2>1 DEF Types, Deque
  <2> QED
    BY <2>1, <2>2 DEF Linked
<1>2. Leave(q[1]) /\ len_' = len_ - 1 /\ next_' = next_
  BY <1>1 DEF Deque
<1>3. /\ Arranged(r, arrival') /\ arrival' \in Seq(Packets) /\ Distinct(arrival')
      /\ Len(arrival') = Len(q) - 1 /\ Len(r) = Len(q) - 1
      /\ \A i \in 1 .. Len(r) : r[i] = IF i < 1 THEN q[i] ELSE q[i + 1]
  BY <1>1, <1>2, LeaveArranges
<1> HIDE DEF r
<1>4. \A i \in 1 .. Len(q) - 1 : next_[q[i]] = q[i + 1] /\ q[i + 1] \in Packets
  BY <1>1 DEF Linked
<1>5. \A i \in 1 .. Len(r) - 1 : next_'[r[i]] = r[i + 1]
  <2> SUFFICES ASSUME NEW i \in 1 .. Len(r) - 1 PROVE next_'[r[i]] = r[i + 1]
    OBVIOUS
  <2>1. i + 1 \in 1 .. Len(q) - 1 /\ r[i] = q[i + 1] /\ r[i + 1] = q[(i + 1) + 1]
    BY <1>1, <1>3
  <2> QED
    BY <2>1, <1>2, <1>4
<1>6. CASE Len(q) = 1
  <2>1. head_' = NULL /\ tail_' = NULL
    BY <1>1, <1>6 DEF Deque
  <2>2. Types'
    BY <2>1, <1>1, <1>2, <1>3, <1>6 DEF Types
  <2>3. Linked(r)'
    BY <1>3, <1>5, <1>6 DEF Linked
  <2> QED
    BY <2>2, <2>3, <1>3 DEF r
<1>7. CASE Len(q) > 1
  <2>1. head_ # tail_
    BY <1>1, <1>7 DEF Distinct
  <2>2. head_' = next_[q[1]] /\ tail_' = tail_
    BY <2>1, <1>1 DEF Deque
  <2>3. head_' = q[2] /\ q[2] \in Packets /\ q[2] # NULL
    <3>1. 1 \in 1 .. Len(q) - 1 /\ 1 + 1 = 2
      BY <1>1, <1>7
    <3>2. head_' = q[2] /\ q[2] \in Packets
      BY <2>2, <3>1, <1>4
    <3> QED
      BY <3>2, QueueAssumption DEF NULL
  <2>4. Types'
    <3>1. len_' = Len(arrival') /\ len_' # 0 /\ tail_ \in Packets \cup {NULL} /\ tail_ # NULL
      BY <1>1, <1>2, <1>3, <1>7 DEF Types
    <3> QED
      BY <2>2, <2>3, <3>1, <1>2, <1>3 DEF Types
  <2>5. r[1] = q[2] /\ r[Len(r)] = q[Len(q)]
    <3>1. 1 \in 1 .. Len(r) /\ Len(r) \in 1 .. Len(r) /\ Len(r) + 1 = Len(q) /\ 1 + 1 = 2
      BY <1>1, <1>3, <1>7
    <3> QED
      BY <3>1, <1>3
  <2>6. Linked(r)'
    BY <1>1, <1>5, <2>2, <2>3, <2>5 DEF Linked
  <2> QED
    BY <2>4, <2>6, <1>3 DEF r
<1> QED
  BY <1>1, <1>6, <1>7

\* A packet behind the first is taken out of the list.
LEMMA UnlinkLinks ==
    ASSUME Types, NEW q, Arranged(q, arrival), Linked(q), NEW p, Unlink(p)
    PROVE  \E n \in 2 .. Len(q) :
             /\ q[n] = p /\ Types'
             /\ Arranged(RemoveAt(q, n), arrival') /\ Linked(RemoveAt(q, n))'
<1>1. /\ q \in Seq(Packets) /\ Len(q) = len_ /\ Distinct(q)
      /\ \A i \in 1 .. Len(q) : Walk[i - 1] = q[i]
  <2>1. q \in Seq(Packets) /\ Len(q) = len_ /\ Distinct(q)
    BY DEF Types, Arranged
  <2>2. [i \in 1 .. len_ |-> Walk[i - 1]] = q
    BY ListIs DEF List
  <2> QED
    BY <2>1, <2>2
<1>2. PICK m \in 1 .. len_ - 1 :
        /\ Walk[m] = p
        /\ next_' = [next_ EXCEPT ![Walk[m - 1]] = next_[p]]
        /\ tail_' = IF p = tail_ THEN Walk[m - 1] ELSE tail_
        /\ len_' = len_ - 1 /\ Leave(p) /\ head_' = head_
  BY DEF Unlink
<1> DEFINE n == m + 1
           r == RemoveAt(q, n)
<1>3. n \in 2 .. Len(q) /\ n \in 1 .. Len(q) /\ m \in 1 .. Len(q) /\ n - 1 = m
  BY <1>1
<1>4. q[n] = p /\ Walk[m - 1] = q[m]
  BY <1>1, <1>2, <1>3
<1>5. /\ Arranged(r, arrival') /\ arrival' \in Seq(Packets) /\ Distinct(arrival')
      /\ Len(arrival') = Len(q) - 1 /\ Len(r) = Len(q) - 1
      /\ \A i \in 1 .. Len(r) : r[i] = IF i < n THEN q[i] ELSE q[i + 1]
  <2>1. Leave(q[n])
    BY <1>2, <1>4
  <2> HIDE DEF n
  <2> QED
    BY <2>1, <1>3, LeaveArranges
<1> HIDE DEF r
<1>6. /\ head_ = q[1] /\ tail_ = q[Len(q)]
      /\ \A i \in 1 .. Len(q) : q[i] \in Packets
      /\ \A i \in 1 .. Len(q) - 1 : next_[q[i]] = q[i + 1]
  BY <1>1, <1>3 DEF Linked
<1>7. /\ next_' = [next_ EXCEPT ![q[m]] = next_[q[n]]]
      /\ next_ \in [Packets -> Packets \cup {NULL}]
  BY <1>2, <1>4 DEF Types
<1>8. /\ next_' \in [Packets -> Packets \cup {NULL}]
      /\ \A x \in Packets : next_'[x] = IF x = q[m] THEN next_[q[n]] ELSE next_[x]
  <2>1. q[n] \in Packets /\ next_[q[n]] \in Packets \cup {NULL}
    BY <1>3, <1>6, <1>7
  <2> HIDE DEF n
  <2> QED
    BY <2>1, <1>7
<1>9. tail_' = q[IF n = Len(q) THEN m ELSE Len(q)]
  <2>1. p = tail_ <=> n = Len(q)
    BY <1>1, <1>3, <1>4, <1>6 DEF Distinct
  <2> QED
    BY <2>1, <1>2, <1>4, <1>6
<1>10. tail_' \in Packets /\ tail_' # NULL /\ head_' = head_ /\ head_ # NULL /\ head_ \in Packets
  <2>1. tail_' \in Packets /\ head_ \in Packets
    BY <1>3, <1>6, <1>9
  <2> QED
    BY <2>1, <1>2, QueueAssumption DEF NULL
<1>11. Types'
  <2>1. len_' = Len(arrival') /\ len_' # 0
    BY <1>1, <1>2, <1>3, <1>5
  <2> QED
    BY <2>1, <1>5, <1>8, <1>10 DEF Types
<1>12. \A i \in 1 .. Len(r) - 1 : next_'[r[i]] = r[i + 1]
  <2> SUFFICES ASSUME NEW i \in 1 .. Len(r) - 1 PROVE next_'[r[i]] = r[i + 1]
    OBVIOUS
  <2>0. /\ r[i] = IF i < n THEN q[i] ELSE q[i + 1]
        /\ r[i + 1] = IF i + 1 < n THEN q[i + 1] ELSE q[(i + 1) + 1]
        /\ i \in 1 .. Len(q) - 1 /\ i + 1 \in 1 .. Len(q) - 1
    BY <1>1, <1>5
  <2>1. CASE i < m
    <3>1. r[i] = q[i] /\ r[i + 1] = q[i + 1]
      BY <2>0, <2>1
    <3>2. q[i] # q[m] /\ q[i] \in Packets
      BY <2>0, <2>1, <1>1, <1>3, <1>6 DEF Distinct
    <3> QED
      BY <3>1, <3>2, <2>0, <1>6, <1>8
  <2>2. CASE i = m
    <3>1. r[i] = q[m] /\ r[i + 1] = q[n + 1] /\ n \in 1 .. Len(q) - 1
      BY <2>0, <2>2
    <3> QED
      BY <3>1, <1>3, <1>6, <1>8
  <2>3. CASE i > m
    <3>1. r[i] = q[i + 1] /\ r[i + 1] = q[(i + 1) + 1]
      BY <2>0, <2>3
    <3>2. i + 1 \in 1 .. Len(q) /\ i + 1 # m
      BY <2>0, <2>3
    <3>3. q[i + 1] # q[m] /\ q[i + 1] \in Packets
      BY <3>2, <1>1, <1>3, <1>6 DEF Distinct
    <3> QED
      BY <3>1, <3>3, <2>0, <1>6, <1>8
  <2> QED
    BY <2>0, <2>1, <2>2, <2>3
<1>13. r[1] = q[1] /\ tail_' = r[Len(r)] /\ Len(r) > 0
  <2>1. 1 \in 1 .. Len(r) /\ Len(r) \in 1 .. Len(r) /\ 1 < n /\ Len(r) + 1 = Len(q)
    BY <1>1, <1>3, <1>5
  <2>2. r[1] = q[1] /\ r[Len(r)] = IF Len(r) < n THEN q[Len(r)] ELSE q[Len(r) + 1]
    BY <2>1, <1>5
  <2>3. CASE n = Len(q)
    BY <2>1, <2>2, <2>3, <1>3, <1>9
  <2>4. CASE n < Len(q)
    <3>1. ~(Len(r) < n) /\ n # Len(q)
      BY <2>1, <2>4
    <3> QED
      BY <2>1, <2>2, <3>1, <1>9
  <2> QED
    BY <2>3, <2>4, <1>3
<1>14. Linked(r)'
  BY <1>6, <1>10, <1>12, <1>13 DEF Linked
<1> QED
  BY <1>3, <1>4, <1>5, <1>11, <1>14 DEF r

\* A packet outside the list may get any pointer.
LEMMA ElsewhereLinks ==
    ASSUME Types, NEW q, Arranged(q, arrival), Linked(q),
           NEW p \in Packets, NEW x \in Packets \cup {NULL}, Elsewhere(p, x)
    PROVE  Types' /\ Arranged(q, arrival') /\ Linked(q)'
<1>1. /\ arrival' = arrival /\ head_' = head_ /\ tail_' = tail_ /\ len_' = len_
      /\ next_' = [next_ EXCEPT ![p] = x] /\ p \notin Range(arrival)
  BY DEF Elsewhere, Outside
<1>2. Types'
  BY <1>1 DEF Types
<1>3. \A j \in 1 .. Len(q) : q[j] \in Packets /\ q[j] # p
  <2>1. q \in Seq(Packets) /\ \A j \in 1 .. Len(q) : \E i \in 1 .. Len(arrival) : arrival[i] = q[j]
    BY DEF Arranged
  <2> QED
    BY <2>1, <1>1 DEF Range, Types
<1>4. \A i \in 1 .. Len(q) - 1 : next_'[q[i]] = q[i + 1]
  <2>1. q \in Seq(Packets)
    BY DEF Arranged
  <2> QED
    BY <2>1, <1>1, <1>3 DEF Types, Linked
<1> QED
  BY <1>1, <1>2, <1>4 DEF Linked

-----------------------------------------------------------------------------
(* The invariant *)

LEMMA ListInvInit == ListInit => ListInv
<1> SUFFICES ASSUME ListInit PROVE ListInv
  OBVIOUS
<1>1. Types
  BY DEF ListInit, Types, Distinct, NULL
<1>2. Arranged(<< >>, arrival) /\ Linked(<< >>)
  BY DEF ListInit, Arranged, Linked, Distinct
<1> QED
  BY <1>1, <1>2 DEF ListInv

LEMMA ListInvStep == ListInv /\ [ListNext]_listvars => ListInv'
<1> SUFFICES ASSUME ListInv, [ListNext]_listvars PROVE ListInv'
  OBVIOUS
<1>1. PICK q : Arranged(q, arrival) /\ Linked(q)
  BY DEF ListInv
<1>2. Types
  BY DEF ListInv
<1>3. ASSUME NEW p \in Packets, Enque(p) PROVE ListInv'
  BY <1>1, <1>2, <1>3, EnqueLinks DEF ListInv
<1>4. CASE Deque
  BY <1>1, <1>2, <1>4, DequeLinks DEF ListInv
<1>5. ASSUME NEW p \in Packets, Unlink(p) PROVE ListInv'
  BY <1>1, <1>2, <1>5, UnlinkLinks DEF ListInv
<1>6. ASSUME NEW p \in Packets, NEW x \in Packets \cup {NULL}, Elsewhere(p, x) PROVE ListInv'
  BY <1>1, <1>2, <1>6, ElsewhereLinks DEF ListInv
<1>7. CASE UNCHANGED listvars
  BY <1>1, <1>2, <1>7 DEF ListInv, Types, Linked, listvars
<1> QED
  BY <1>3, <1>4, <1>5, <1>6, <1>7 DEF ListNext

\* The pointers always lead from head_ to tail_ through the waiting packets, in the
\* order of their urgency and, among equals, of their arrival (enque(), prio_fid.cc).
THEOREM ListInvariant == ListSpec => []ListInv
<1>1. ListInit => ListInv
  BY ListInvInit
<1>2. ListInv /\ [ListNext]_listvars => ListInv'
  BY ListInvStep
<1> QED
  BY <1>1, <1>2, PTL DEF ListSpec

LEMMA InvIsSound == ListInv => ListSound
<1> SUFFICES ASSUME ListInv PROVE ListSound
  OBVIOUS
<1>1. Types
  BY DEF ListInv
<1>2. PICK q : Arranged(q, arrival) /\ Linked(q)
  BY DEF ListInv
<1>3. /\ q \in Seq(Packets) /\ Len(q) = len_ /\ Distinct(q)
      /\ \A i \in 1 .. Len(arrival) : \E j \in 1 .. Len(q) : q[j] = arrival[i]
      /\ \A j \in 1 .. Len(q) : \E i \in 1 .. Len(arrival) : arrival[i] = q[j]
  BY <1>1, <1>2 DEF Arranged, Types
<1>4. \A i \in 1 .. Len(q) : Walk[i - 1] = q[i]
  <2>1. [i \in 1 .. len_ |-> Walk[i - 1]] = q
    BY <1>1, <1>2, ListIs DEF List
  <2> QED
    BY <1>3, <2>1
<1>5. InQueue = {q[i] : i \in 1 .. Len(q)}
  <2>1. \A n \in 0 .. len_ - 1 : n + 1 \in 1 .. Len(q) /\ Walk[n] = q[n + 1]
    <3> SUFFICES ASSUME NEW n \in 0 .. len_ - 1 PROVE n + 1 \in 1 .. Len(q) /\ Walk[n] = q[n + 1]
      OBVIOUS
    <3>1. n + 1 \in 1 .. Len(q) /\ (n + 1) - 1 = n
      BY <1>3
    <3> QED
      BY <3>1, <1>4
  <2>2. \A i \in 1 .. Len(q) : i - 1 \in 0 .. len_ - 1 /\ Walk[i - 1] = q[i]
    BY <1>3, <1>4
  <2> QED
    BY <2>1, <2>2 DEF InQueue
<1>6. InQueue = Range(arrival)
  <2>1. Range(arrival) = {arrival[i] : i \in 1 .. Len(arrival)}
    BY <1>1 DEF Types, Range
  <2>2. ASSUME NEW x \in InQueue PROVE x \in Range(arrival)
    <3>1. PICK j \in 1 .. Len(q) : x = q[j]
      BY <1>5
    <3>2. PICK k \in 1 .. Len(arrival) : arrival[k] = q[j]
      BY <1>3
    <3> QED
      BY <2>1, <3>1, <3>2
  <2>3. ASSUME NEW x \in Range(arrival) PROVE x \in InQueue
    <3>1. PICK k \in 1 .. Len(arrival) : x = arrival[k]
      BY <2>1
    <3>2. PICK j \in 1 .. Len(q) : q[j] = arrival[k]
      BY <1>3
    <3> QED
      BY <1>5, <3>1, <3>2
  <2> QED
    BY <2>2, <2>3
<1>7. Cardinality(InQueue) = len_
  <2>1. q \in Bijection(1 .. Len(q), InQueue)
    BY <1>3, <1>5 DEF Bijection, Injection, Surjection, IsInjective, Distinct
  <2>2. ExistsBijection(1 .. Len(q), InQueue)
    BY <2>1 DEF ExistsBijection
  <2>3. Len(q) \in Nat
    BY <1>3
  <2>4. IsFiniteSet(1 .. Len(q)) /\ Cardinality(1 .. Len(q)) = IF 1 > Len(q) THEN 0 ELSE Len(q) - 1 + 1
    BY <2>3, FS_Interval
  <2>5. Cardinality(InQueue) = Cardinality(1 .. Len(q))
    BY <2>2, <2>4, FS_Bijection
  <2> QED
    BY <2>3, <2>4, <2>5, <1>3
<1>8. len_ > 0 => Walk[len_ - 1] = tail_
  <2> SUFFICES ASSUME len_ > 0 PROVE Walk[len_ - 1] = tail_
    OBVIOUS
  <2>1. Len(q) \in 1 .. Len(q) /\ tail_ = q[Len(q)]
    BY <1>2, <1>3 DEF Linked
  <2> QED
    BY <1>3, <1>4, <2>1
<1> QED
  BY <1>1, <1>6, <1>7, <1>8 DEF ListSound, Types

\* ListSound for any packets, priorities and limit: the pointers lead from head_ to
\* tail_ through exactly the packets that came and did not leave, whatever stale
\* pointers PacketQueueFid::enque leaves at the tail.
THEOREM ListIsSound == ListSpec => []ListSound
<1>1. ListInv => ListSound
  BY InvIsSound
<1> QED
  BY <1>1, ListInvariant, PTL

\* EnqueInserts: linking a packet in is Insert of PrioOps on the list as a sequence,
\* the operator with which the links that use such a queue are modelled.
THEOREM EnqueIsInsert == ListSpec => EnqueInserts
<1>1. ASSUME ListInv, [ListNext]_listvars, NEW p \in Packets, arrival' = Append(arrival, p)
      PROVE  List' = Insert(List, p, prio)
  <2>1. PICK q : Arranged(q, arrival) /\ Linked(q)
    BY <1>1 DEF ListInv
  <2>2. Types /\ List = q
    BY <1>1, <2>1, ListIs DEF ListInv
  <2>3. /\ arrival \in Seq(Packets) /\ Len(arrival') = Len(arrival) + 1
        /\ arrival'[Len(arrival) + 1] = p
    BY <1>1, <2>2 DEF Types
  <2>4. ASSUME NEW x \in Packets, Enque(x) PROVE List' = Insert(List, p, prio)
    <3>1. x = p
      <4>1. arrival' = Append(arrival, x)
        BY <2>4 DEF Enque
      <4>2. Append(arrival, x)[Len(arrival) + 1] = x
        BY <2>3
      <4> QED
        BY <2>3, <4>1, <4>2
    <3>2. Types' /\ Arranged(Insert(q, p, prio), arrival') /\ Linked(Insert(q, p, prio))'
      BY <2>1, <2>2, <2>4, <3>1, EnqueLinks
    <3>3. List' = Insert(q, p, prio)
      BY <3>2, ListIsNext
    <3> QED
      BY <3>3, <2>2
  <2>5. ASSUME NEW x, Leave(x) PROVE FALSE
    <3>1. PICK m \in 1 .. Len(arrival) : arrival' = RemoveAt(arrival, m)
      BY <2>3, <2>5 DEF Leave
    <3>2. Len(arrival') = Len(arrival) - 1
      BY <2>3, <3>1, RemovedAt
    <3> QED
      BY <2>3, <3>2
  <2>6. CASE Deque
    BY <2>5, <2>6 DEF Deque
  <2>7. ASSUME NEW x \in Packets, Unlink(x) PROVE FALSE
    BY <2>5, <2>7 DEF Unlink
  <2>8. arrival' # arrival
    BY <2>3
  <2> QED
    BY <1>1, <2>4, <2>6, <2>7, <2>8 DEF ListNext, Elsewhere, listvars
<1>2. ListInv /\ [ListNext]_listvars =>
        [\A p \in Packets : (arrival' = Append(arrival, p)) => List' = Insert(List, p, prio)]_listvars
  BY <1>1
<1> QED
  BY <1>2, ListInvariant, PTL DEF EnqueInserts, ListSpec

\* The refinement of PrioQueue: the linked list serves the most urgent packet first,
\* and the oldest of those, whatever packets are taken out of it.
THEOREM ListServesInOrder == ListSpec => ServesInOrder
<1>1. ListInit => Abstract!QueueInit
  BY DEF ListInit, Abstract!QueueInit, Abstract!NoPacket, NULL
<1>2. ASSUME ListInv, [ListNext]_listvars PROVE [Abstract!QueueNext]_<<arrival, served>>
  <2>1. PICK q : Arranged(q, arrival) /\ Linked(q)
    BY <1>2 DEF ListInv
  <2>2. Types
    BY <1>2 DEF ListInv
  <2>3. /\ q \in Seq(Packets) /\ Len(q) = Len(arrival)
        /\ \A i \in 1 .. Len(arrival) : \E j \in 1 .. Len(q) : q[j] = arrival[i]
        /\ \A j \in 1 .. Len(q) : \E i \in 1 .. Len(arrival) : arrival[i] = q[j]
        /\ \A i, j \in 1 .. Len(q) : i < j => Precedes(arrival, q[i], q[j])
        /\ arrival \in Seq(Packets) /\ Distinct(arrival) /\ DOMAIN arrival = 1 .. Len(arrival)
    BY <2>1, <2>2 DEF Arranged, Types
  <2>4. ASSUME NEW p \in Packets, Enque(p) PROVE Abstract!QueueNext
    <3>1. Abstract!Accept(p)
      <4>1. p \notin Abstract!Range(arrival)
        BY <2>4 DEF Enque, Outside, Range, Abstract!Range
      <4> QED
        BY <2>2, <2>4, <4>1 DEF Abstract!Accept, Enque, Types
    <3> QED
      BY <3>1 DEF Abstract!QueueNext
  <2>5. CASE Deque
    <3>1. head_ = q[1] /\ 1 \in 1 .. Len(q) /\ head_ \in Packets
      BY <2>1, <2>2, <2>3, <2>5 DEF Types, Linked, Deque
    <3>2. PICK m \in 1 .. Len(arrival) : arrival[m] = head_
      BY <2>3, <3>1
    <3>3. ASSUME NEW j \in 1 .. Len(arrival), j # m
          PROVE  IF j < m THEN prio[arrival[j]] > prio[head_] ELSE prio[arrival[j]] >= prio[head_]
      <4>1. PICK k \in 1 .. Len(q) : q[k] = arrival[j]
        BY <2>3
      <4>2. k # 1
        <5>1. Distinct(arrival)
          BY <2>3
        <5>2. k = 1 => arrival[j] = arrival[m]
          BY <3>1, <3>2, <4>1
        <5>3. arrival[j] # arrival[m]
          BY <3>3, <5>1 DEF Distinct
        <5> QED
          BY <5>2, <5>3
      <4>3. Precedes(arrival, head_, arrival[j])
        <5>1. 1 < k /\ Precedes(arrival, q[1], q[k])
          BY <2>3, <3>1, <4>1, <4>2
        <5> QED
          BY <3>1, <4>1, <5>1
      <4>4. prio[arrival[j]] \in Nat /\ prio[head_] \in Nat
        <5>1. arrival[j] \in Packets
          BY <2>3
        <5> QED
          BY <3>1, <5>1, QueueAssumption
      <4>5. CASE prio[head_] < prio[arrival[j]]
        BY <4>4, <4>5
      <4>6. CASE /\ prio[head_] = prio[arrival[j]]
                 /\ \E i, l \in 1 .. Len(arrival) : i < l /\ arrival[i] = head_ /\ arrival[l] = arrival[j]
        <5>1. m < j
          BY <2>3, <3>2, <4>6 DEF Distinct
        <5> QED
          BY <4>4, <4>6, <5>1
      <4> QED
        BY <4>3, <4>5, <4>6 DEF Precedes
    <3>4. Abstract!First(head_)
      <4>1. prio[head_] \in Nat /\ prio[head_] >= prio[head_]
        BY <3>1, QueueAssumption
      <4>2. \A j \in 1 .. Len(arrival) : IF j < m THEN prio[arrival[j]] > prio[head_]
                                                  ELSE prio[arrival[j]] >= prio[head_]
        BY <3>2, <3>3, <4>1
      <4> QED
        BY <2>3, <3>2, <4>2 DEF Abstract!First
    <3>5. Abstract!Serve(head_)
      BY <2>5, <3>4 DEF Abstract!Serve, Abstract!Leave, Abstract!RemoveAt, Deque, Leave, RemoveAt
    <3> QED
      BY <3>1, <3>5 DEF Abstract!QueueNext
  <2>6. ASSUME NEW p \in Packets, Unlink(p) PROVE Abstract!QueueNext
    <3>1. Leave(p) /\ served' = served
      BY <2>6 DEF Unlink
    <3>2. p \in Range(arrival)
      BY <3>1 DEF Leave, Range
    <3>3. Abstract!Withdraw(p)
      BY <3>1, <3>2 DEF Abstract!Withdraw, Abstract!Leave, Abstract!RemoveAt, Leave,
           RemoveAt, Range, Abstract!Range
    <3> QED
      BY <3>3 DEF Abstract!QueueNext
  <2>7. ASSUME NEW p \in Packets, NEW x \in Packets \cup {NULL}, Elsewhere(p, x)
        PROVE  UNCHANGED <<arrival, served>>
    BY <2>7 DEF Elsewhere
  <2>8. CASE UNCHANGED listvars
    BY <2>8 DEF listvars
  <2> QED
    BY <1>2, <2>4, <2>5, <2>6, <2>7, <2>8 DEF ListNext
<1> QED
  BY <1>1, <1>2, ListInvariant, PTL DEF ListSpec, ServesInOrder, Abstract!QueueSpec
=============================================================================
