--------------------------- MODULE RleLinkProofs ---------------------------
(***************************************************************************)
(* Theorems about RleLink, for any stations, priorities, sizes of packets  *)
(* and timeslots and any number of packets: no burst is overfilled and the *)
(* state keeps its types (TypeOK), a packet of which a part is sent stays  *)
(* the first of its priority in the queue (PartialLeads), and the link     *)
(* implements PacketLink (KeepsPromise) as long as no station misses a     *)
(* whole round of the sequence numbers of a flow and no two senders share  *)
(* a context.                                                              *)
(*                                                                         *)
(* The argument for the first two: the queue of a station is sorted by     *)
(* priority, holds no packet twice and none of another station.  So what   *)
(* slotHandler does to the packets it takes touches no other queue, the    *)
(* packet it cuts becomes the first one of what stays, and a new packet    *)
(* goes behind all of its priority.                                        *)
(*                                                                         *)
(* The argument for the third, PromiseInv below: number the fragmented     *)
(* packets of a flow.  Queue and channel hold its fragments in that order, *)
(* with all bytes of a packet accounted for, and every closing fragment    *)
(* carries the number of its packet modulo SeqnoMod.  exp_sn of a context  *)
(* stands for a number that is never ahead of a packet still under way; so *)
(* when it equals the number of a closing fragment it is that number, and  *)
(* the context holds that packet or one a loss cut short, which the length *)
(* tells apart.                                                            *)
(***************************************************************************)
EXTENDS RleLink, SequenceLemmas, FiniteSetTheorems

\* The queue q of station s over the packets pk.
Waits(s, q, pk) ==
    /\ q \in Seq(DOMAIN pk)
    /\ \A i, j \in 1 .. Len(q) : q[i] = q[j] => i = j
    /\ \A i \in 1 .. Len(q) : pk[q[i]].src = s
    /\ \A i, j \in 1 .. Len(q) : i < j =>
          /\ pk[q[i]].frag_id <= pk[q[j]].frag_id
          /\ START \notin pk[q[j]].start_end => pk[q[i]].frag_id # pk[q[j]].frag_id

Queues == \A s \in Senders : Waits(s, queue[s], pkts)

\* A packet that was never cut is as long as it says.
Uncut == \A p \in DOMAIN pkts : START \in pkts[p].start_end => pkts[p].psize = pkts[p].total_length

\* What is on its way, or held by a context, are packets that were sent.
SentFrag == {fh \in Frag : fh.alpdu \in DOMAIN pkts}
SentBurst == [size : BurstSizes, lost : BOOLEAN, frags : Seq(SentFrag)]
SentContext == {c \in Context : c.pkt \in {NULL} \cup DOMAIN pkts}
Sent ==
    /\ air \in [Senders -> Seq(SentBurst)]
    /\ ctx \in [Receivers -> [Buckets -> SentContext]]

LinkInv == TypeOK /\ Queues /\ Uncut /\ Sent

-----------------------------------------------------------------------------
(* The queue *)

\* A queue whose packets keep their headers.
LEMMA WaitsKept ==
    ASSUME NEW s, NEW q, NEW pk, NEW pk2, Waits(s, q, pk), DOMAIN pk \subseteq DOMAIN pk2,
           \A i \in 1 .. Len(q) : pk2[q[i]] = pk[q[i]]
    PROVE  Waits(s, q, pk2)
<1>1. q \in Seq(DOMAIN pk) /\ Len(q) \in Nat
  BY DEF Waits
<1>2. q \in Seq(DOMAIN pk2)
  BY <1>1
<1> QED
  BY <1>1, <1>2 DEF Waits

\* A packet that comes, and was never cut, goes behind all of its priority.
LEMMA WaitsInsert ==
    ASSUME NEW s, NEW q, NEW pk \in Seq(Packet), Waits(s, q, pk),
           NEW h \in Packet, h.src = s, START \in h.start_end
    PROVE  LET pk2 == Append(pk, h)
               ids == [p \in DOMAIN pk2 |-> pk2[p].frag_id]
           IN  Waits(s, Insert(q, Len(pk2), ids), pk2)
<1> DEFINE pk2 == Append(pk, h)
           n == Len(pk2)
           ids == [p \in DOMAIN pk2 |-> pk2[p].frag_id]
           D == DOMAIN pk2
           r == Insert(q, n, ids)
<1>1. /\ pk2 \in Seq(Packet) /\ n = Len(pk) + 1 /\ D = 1 .. Len(pk) + 1 /\ pk2[n] = h
      /\ DOMAIN pk = 1 .. Len(pk) /\ Len(pk) \in Nat
      /\ \A p \in DOMAIN pk : pk2[p] = pk[p]
  OBVIOUS
<1> HIDE DEF pk2, n
<1>2. \A p \in D : pk2[p] \in Packet
  BY <1>1
<1>3. ids \in [D -> Nat] /\ \A p \in D : ids[p] = pk2[p].frag_id
  <2>1. \A p \in D : pk2[p].frag_id \in Nat
    <3>1. \A p \in D : pk2[p].frag_id \in Prios
      BY <1>2 DEF Packet
    <3>2. Prios \subseteq Nat
      BY LinkAssumption
    <3> QED
      BY <3>1, <3>2
  <2> QED
    BY <2>1
<1>4. /\ q \in Seq(DOMAIN pk) /\ q \in Seq(D) /\ n \in D
      /\ \A j \in 1 .. Len(q) : q[j] \in DOMAIN pk /\ q[j] \in D /\ q[j] # n
  <2>1. q \in Seq(DOMAIN pk)
    BY DEF Waits
  <2> QED
    BY <2>1, <1>1
<1> HIDE DEF ids, D
<1>5. PICK k \in 0 .. Len(q) : /\ r = PutBehind(q, n, k)
                               /\ \A i \in 1 .. k : ids[q[i]] <= ids[n]
                               /\ k = Len(q) \/ ids[q[k + 1]] > ids[n]
  BY <1>3, <1>4, WhereInserted
<1> HIDE DEF r
<1>6. /\ r \in Seq(D) /\ Len(r) = Len(q) + 1
      /\ \A i \in 1 .. Len(q) + 1 :
           r[i] = IF i <= k THEN q[i] ELSE IF i = k + 1 THEN n ELSE q[i - 1]
  <2>1. /\ PutBehind(q, n, k) \in Seq(D) /\ Len(PutBehind(q, n, k)) = Len(q) + 1
        /\ \A i \in 1 .. Len(q) + 1 :
             PutBehind(q, n, k)[i] = IF i <= k THEN q[i] ELSE IF i = k + 1 THEN n ELSE q[i - 1]
    BY <1>4, PutBehindAt
  <2> QED
    BY <1>5, <2>1
\* Where the packets of r are in q.
<1> DEFINE From(i) == IF i <= k THEN i ELSE i - 1
<1>7. ASSUME NEW i \in 1 .. Len(r), i # k + 1
      PROVE  From(i) \in 1 .. Len(q) /\ r[i] = q[From(i)]
  <2>1. CASE i <= k
    BY <2>1, <1>6
  <2>2. CASE i > k
    <3>1. i - 1 \in 1 .. Len(q) /\ ~(i <= k) /\ i \in 1 .. Len(q) + 1
      BY <2>2, <1>6, <1>7
    <3>2. r[i] = q[i - 1]
      BY <3>1, <1>6, <1>7
    <3> QED
      BY <3>1, <3>2
  <2> QED
    BY <2>1, <2>2
<1>8. r[k + 1] = n /\ k + 1 \in 1 .. Len(r)
  <2>1. k + 1 \in 1 .. Len(q) + 1 /\ ~(k + 1 <= k)
    OBVIOUS
  <2> QED
    BY <2>1, <1>6
<1>9. ASSUME NEW i \in 1 .. Len(r), NEW j \in 1 .. Len(r), i # k + 1, j # k + 1
      PROVE  /\ From(i) = From(j) => i = j
             /\ i < j => From(i) < From(j)
  BY <1>9, <1>6
<1> HIDE DEF From
<1>10. /\ \A i, j \in 1 .. Len(q) : q[i] = q[j] => i = j
       /\ \A i \in 1 .. Len(q) : pk2[q[i]] = pk[q[i]] /\ pk[q[i]].src = s
       /\ \A i, j \in 1 .. Len(q) : i < j =>
            /\ ids[q[i]] <= ids[q[j]]
            /\ START \notin pk2[q[j]].start_end => ids[q[i]] # ids[q[j]]
  <2>1. \A i \in 1 .. Len(q) : pk2[q[i]] = pk[q[i]] /\ ids[q[i]] = pk[q[i]].frag_id
    BY <1>1, <1>3, <1>4
  <2> QED
    BY <2>1 DEF Waits
<1>11. ASSUME NEW i \in 1 .. Len(r), NEW j \in 1 .. Len(r), r[i] = r[j] PROVE i = j
  <2>1. CASE i # k + 1 /\ j # k + 1
    <3>1. From(i) \in 1 .. Len(q) /\ From(j) \in 1 .. Len(q) /\ q[From(i)] = q[From(j)]
      BY <1>7, <1>11, <2>1
    <3> QED
      BY <1>9, <1>10, <2>1, <3>1
  <2>2. CASE i = k + 1 \/ j = k + 1
    <3>1. ASSUME NEW x \in 1 .. Len(r), x # k + 1 PROVE r[x] # r[k + 1]
      BY <1>4, <1>7, <1>8, <3>1
    <3> QED
      BY <2>2, <3>1, <1>11, <1>8
  <2> QED
    BY <2>1, <2>2
<1>12. ASSUME NEW i \in 1 .. Len(r) PROVE pk2[r[i]].src = s
  <2>1. CASE i = k + 1
    BY <2>1, <1>1, <1>8
  <2>2. CASE i # k + 1
    BY <2>2, <1>7, <1>10
  <2> QED
    BY <2>1, <2>2
<1>13. \A j \in 1 .. Len(q) : ids[q[j]] \in Nat /\ ids[n] \in Nat
  BY <1>3, <1>4
<1>14. ASSUME NEW j \in 1 .. Len(q), j > k PROVE ids[q[j]] > ids[n]
  <2>1. k + 1 \in 1 .. Len(q) /\ ids[q[k + 1]] > ids[n] /\ k \in Nat
    BY <1>5, <1>14
  <2>2. CASE j = k + 1
    BY <2>1, <2>2
  <2>3. CASE k + 1 < j
    <3>1. ids[q[k + 1]] <= ids[q[j]]
      BY <2>1, <2>3, <1>10
    <3> QED
      BY <2>1, <3>1, <1>13
  <2> QED
    BY <2>1, <2>2, <2>3, <1>14
<1>15. ASSUME NEW i \in 1 .. Len(r), NEW j \in 1 .. Len(r), i < j
       PROVE  /\ ids[r[i]] <= ids[r[j]]
              /\ START \notin pk2[r[j]].start_end => ids[r[i]] # ids[r[j]]
  <2>1. CASE i # k + 1 /\ j # k + 1
    <3>1. From(i) \in 1 .. Len(q) /\ From(j) \in 1 .. Len(q) /\ From(i) < From(j)
      BY <1>7, <1>9, <1>15, <2>1
    <3>2. r[i] = q[From(i)] /\ r[j] = q[From(j)]
      BY <1>7, <2>1
    <3> QED
      BY <3>1, <3>2, <1>10
  <2>2. CASE j = k + 1
    <3>1. i \in 1 .. k /\ r[i] = q[i] /\ i \in 1 .. Len(q)
      BY <2>2, <1>6, <1>15
    <3>2. ids[q[i]] <= ids[n] /\ START \in pk2[n].start_end
      BY <3>1, <1>1, <1>5
    <3> QED
      BY <2>2, <3>1, <3>2, <1>8
  <2>3. CASE i = k + 1
    <3>1. j - 1 \in 1 .. Len(q) /\ j - 1 > k /\ r[j] = q[j - 1]
      BY <2>3, <1>6, <1>15
    <3>2. ids[q[j - 1]] > ids[n]
      BY <3>1, <1>14
    <3> QED
      BY <2>3, <3>1, <3>2, <1>8, <1>13
  <2> QED
    BY <2>1, <2>2, <2>3
<1>16. \A i \in 1 .. Len(r) : ids[r[i]] = pk2[r[i]].frag_id
  BY <1>3, <1>6
<1>17. Waits(s, r, pk2)
  BY <1>6, <1>11, <1>12, <1>15, <1>16 DEF Waits, D
<1> QED
  BY <1>17 DEF r, n, ids, pk2

\* What stays when the first k packets were taken: the next one may have been cut.
LEMMA WaitsRest ==
    ASSUME NEW s, NEW q, NEW pk, NEW pk2, Waits(s, q, pk), DOMAIN pk2 = DOMAIN pk,
           NEW k \in 0 .. Len(q),
           \A p \in DOMAIN pk : pk2[p].src = pk[p].src /\ pk2[p].frag_id = pk[p].frag_id,
           \A j \in k + 2 .. Len(q) : pk2[q[j]].start_end = pk[q[j]].start_end
    PROVE  Waits(s, SubSeq(q, k + 1, Len(q)), pk2)
<1> DEFINE r == SubSeq(q, k + 1, Len(q))
<1>1. q \in Seq(DOMAIN pk)
  BY DEF Waits
<1>2. /\ r \in Seq(DOMAIN pk2) /\ Len(r) = Len(q) - k
      /\ \A i \in 1 .. Len(q) - k : r[i] = q[k + i]
  BY <1>1
<1> HIDE DEF r
<1>3. ASSUME NEW i \in 1 .. Len(r)
      PROVE  /\ k + i \in 1 .. Len(q) /\ r[i] = q[k + i] /\ r[i] \in DOMAIN pk
             /\ i > 1 => k + i \in k + 2 .. Len(q)
  <2>1. k + i \in 1 .. Len(q) /\ (i > 1 => k + i \in k + 2 .. Len(q))
    BY <1>1, <1>2
  <2> QED
    BY <2>1, <1>1, <1>2
<1>4. ASSUME NEW i \in 1 .. Len(r), NEW j \in 1 .. Len(r), r[i] = r[j] PROVE i = j
  <2>1. k + i = k + j
    BY <1>3, <1>4 DEF Waits
  <2> QED
    BY <2>1, <1>2
<1>5. ASSUME NEW i \in 1 .. Len(r) PROVE pk2[r[i]].src = s
  BY <1>3, SMTT(30) DEF Waits
<1>6. ASSUME NEW i \in 1 .. Len(r), NEW j \in 1 .. Len(r), i < j
      PROVE  /\ pk2[r[i]].frag_id <= pk2[r[j]].frag_id
             /\ START \notin pk2[r[j]].start_end => pk2[r[i]].frag_id # pk2[r[j]].frag_id
  <2>1. k + i < k + j /\ j > 1 /\ k + i \in 1 .. Len(q) /\ k + j \in 1 .. Len(q)
    BY <1>2, <1>3, <1>6
  <2>2. /\ pk[q[k + i]].frag_id <= pk[q[k + j]].frag_id
        /\ START \notin pk[q[k + j]].start_end => pk[q[k + i]].frag_id # pk[q[k + j]].frag_id
    BY <2>1 DEF Waits
  <2>3. pk2[r[j]].start_end = pk[q[k + j]].start_end
    BY <2>1, <1>3
  <2> QED
    BY <2>2, <2>3, <1>3
<1> QED
  BY <1>2, <1>4, <1>5, <1>6 DEF Waits, r

-----------------------------------------------------------------------------
(* slotHandler *)

\* The number of packets that go into a burst exists, and is what Whole says.
LEMMA WholeExists ==
    ASSUME NEW s, NEW bs, Len(queue[s]) \in Nat
    PROVE  LET k == Whole(s, bs)
           IN  /\ k \in 0 .. Len(queue[s])
               /\ \A i \in 1 .. k : GoesOn(s, bs, i) /\ ~Full(Left(s, bs), i)
               /\ \/ k = Len(queue[s])
                  \/ ~GoesOn(s, bs, k + 1)
                  \/ Full(Left(s, bs), k + 1)
<1> DEFINE N == Len(queue[s])
           Ends(k) == k = N \/ ~GoesOn(s, bs, k + 1) \/ Full(Left(s, bs), k + 1)
           IsWhole(k) == /\ \A i \in 1 .. k : GoesOn(s, bs, i) /\ ~Full(Left(s, bs), i)
                         /\ Ends(k)
           Stops == {k \in 0 .. N : Ends(k)}
<1>1. N \in Stops /\ Stops \in SUBSET Nat
  OBVIOUS
<1>2. PICK k \in Stops : \A m \in Stops : k <= m
  <2> HIDE DEF Stops
  <2> QED
    BY <1>1, LeastNumber, Zenon
<1>3. k \in 0 .. N /\ Ends(k)
  BY <1>2
<1>4. ASSUME NEW i \in 1 .. k PROVE GoesOn(s, bs, i) /\ ~Full(Left(s, bs), i)
  <2>1. i - 1 \in 0 .. N /\ i - 1 < k /\ (i - 1) + 1 = i
    BY <1>3
  <2>2. i - 1 \notin Stops
    <3> HIDE DEF Stops
    <3> QED
      BY <1>2, <1>3, <2>1
  <2>3. ~Ends(i - 1)
    BY <2>1, <2>2
  <2> QED
    BY <2>1, <2>3
<1>5. \E m \in 0 .. N : IsWhole(m)
  BY <1>3, <1>4
<1>6. Whole(s, bs) = CHOOSE m \in 0 .. N : IsWhole(m)
  BY DEF Whole
<1> HIDE DEF IsWhole
<1>7. Whole(s, bs) \in 0 .. N /\ IsWhole(Whole(s, bs))
  BY <1>5, <1>6, Zenon
<1> QED
  BY <1>7 DEF IsWhole

\* The bytes left in a burst, packet by packet: Left satisfies its definition.
LEMMA LeftIs ==
    ASSUME NEW s, NEW bs \in Nat, NEW q, q = queue[s], Len(q) \in Nat,
           \A i \in 1 .. Len(q) : pkts[q[i]].psize \in Nat
    PROVE  /\ Left(s, bs)[0] = bs
           /\ \A i \in 1 .. Len(q) :
                /\ Left(s, bs)[i - 1] \in Int
                /\ Left(s, bs)[i] = Left(s, bs)[i - 1] - (pkts[q[i]].psize + FHS)
           /\ \A i \in 0 .. Len(q) : Left(s, bs)[i] \in Int
<1> DEFINE N == Len(q)
           \* The bytes of packet i in the burst.
           Takes(i) == pkts[q[i]].psize + FHS
           IsLeft(f, n) == f = [i \in 0 .. n |-> IF i = 0 THEN bs ELSE f[i - 1] - Takes(i)]
           Short == {n \in 0 .. N : ~\E f : f \in [0 .. n -> Int] /\ IsLeft(f, n)}
<1>0. \A i \in 1 .. N : Takes(i) \in Int
  BY DEF FHS
<1> HIDE DEF Takes
<1>1. \E f : f \in [0 .. N -> Int] /\ IsLeft(f, N)
  <2> SUFFICES ASSUME Short # {} PROVE FALSE
    BY SMTT(30)
  <2>1. PICK n \in Short : \A m \in Short : n <= m
    <3>1. Short \in SUBSET Nat
      OBVIOUS
    <3> HIDE DEF Short
    <3> QED
      BY <3>1, LeastNumber, Zenon
  <2>2. n \in 0 .. N /\ ~\E f : f \in [0 .. n -> Int] /\ IsLeft(f, n)
    BY <2>1
  <2>3. CASE n = 0
    <3> DEFINE f == [i \in 0 .. 0 |-> bs]
    <3>1. f \in [0 .. 0 -> Int] /\ IsLeft(f, 0)
      OBVIOUS
    <3> QED
      BY <2>2, <2>3, <3>1
  <2>4. CASE n # 0
    <3>1. n - 1 \in 0 .. N /\ n - 1 < n
      BY <2>2, <2>4
    <3>2. n - 1 \notin Short
      <4> HIDE DEF Short
      <4> QED
        BY <2>1, <2>2, <3>1
    <3>3. PICK f : f \in [0 .. n - 1 -> Int] /\ IsLeft(f, n - 1)
      BY <3>1, <3>2
    <3> DEFINE g == [i \in 0 .. n |-> IF i = n THEN f[n - 1] - Takes(n) ELSE f[i]]
    <3>4. g \in [0 .. n -> Int]
      BY <1>0, <2>2, <2>4, <3>3
    <3>5. ASSUME NEW i \in 0 .. n PROVE g[i] = IF i = 0 THEN bs ELSE g[i - 1] - Takes(i)
      <4>1. CASE i = n
        BY <2>2, <2>4, <4>1
      <4>2. CASE i # n
        <5>1. i \in 0 .. n - 1 /\ g[i] = f[i] /\ (i # 0 => g[i - 1] = f[i - 1])
          BY <2>2, <4>2
        <5>2. f[i] = IF i = 0 THEN bs ELSE f[i - 1] - Takes(i)
          BY <3>3, <5>1
        <5> HIDE DEF g
        <5> QED
          BY <5>1, <5>2
      <4> QED
        BY <4>1, <4>2
    <3>6. g = [i \in 0 .. n |-> g[i]]
      BY <3>4
    <3> HIDE DEF g
    <3>7. IsLeft(g, n)
      BY <3>5, <3>6
    <3> QED
      BY <2>2, <3>4, <3>7
  <2> QED
    BY <2>3, <2>4
<1>2. Left(s, bs) = CHOOSE f : IsLeft(f, N)
  BY DEF Left, Takes
<1>3. IsLeft(Left(s, bs), N)
  <2> HIDE DEF IsLeft
  <2> QED
    BY <1>1, <1>2, Zenon
<1>4. PICK f : f \in [0 .. N -> Int] /\ IsLeft(f, N)
  BY <1>1
<1> DEFINE left == Left(s, bs)
<1>5. \A i \in 0 .. N : left[i] = IF i = 0 THEN bs ELSE left[i - 1] - Takes(i)
  BY <1>3
<1> HIDE DEF left
<1>6. \A i \in 0 .. N : left[i] \in Int
  <2> DEFINE Off == {i \in 0 .. N : left[i] \notin Int}
  <2> SUFFICES ASSUME Off # {} PROVE FALSE
    OBVIOUS
  <2>1. PICK n \in Off : \A m \in Off : n <= m
    <3>1. Off \in SUBSET Nat
      OBVIOUS
    <3> HIDE DEF Off
    <3> QED
      BY <3>1, LeastNumber, Zenon
  <2>2. n \in 0 .. N /\ left[n] \notin Int
    BY <2>1
  <2>3. n # 0
    BY <1>5, <2>2
  <2>4. n - 1 \in 0 .. N /\ n - 1 < n
    BY <2>2, <2>3
  <2>5. n - 1 \notin Off
    <3> HIDE DEF Off
    <3> QED
      BY <2>1, <2>2, <2>4
  <2>6. left[n - 1] \in Int /\ Takes(n) \in Int
    BY <1>0, <2>2, <2>3, <2>4, <2>5
  <2> QED
    BY <1>5, <2>2, <2>3, <2>6
<1>7. \A i \in 1 .. N : left[i - 1] \in Int /\ left[i] = left[i - 1] - (pkts[q[i]].psize + FHS)
  BY <1>5, <1>6 DEF Takes
<1> QED
  BY <1>5, <1>6, <1>7 DEF left

\* The bytes of a burst are what the partial sums c add up to.
LEMMA BytesAre ==
    ASSUME NEW S, NEW frags \in Seq(S), \A fh \in S : fh.length \in Nat,
           NEW c \in [0 .. Len(frags) -> Int], c[0] = 0,
           \A m \in 1 .. Len(frags) : c[m] = c[m - 1] + frags[m].length + FHS
    PROVE  BytesIn(frags) = c[Len(frags)]
<1> DEFINE N == Len(frags)
           Room(n, fh) == n + fh.length + FHS
           g == [z \in Int \X S |-> Room(z[1], z[2])]
           IsSum(f) == f = [t \in SUBSET DOMAIN frags |->
                              IF t = {} THEN 0 ELSE Room(f[t \ {Max(t)}], frags[Max(t)])]
<1>1. g \in [Int \X S -> Int] /\ \A n \in Int, fh \in S : g[<<n, fh>>] = Room(n, fh)
  BY DEF FHS
<1>2. N \in Nat /\ DOMAIN frags = 1 .. N /\ \A m \in 1 .. N : frags[m] \in S
  OBVIOUS
<1>3. BytesIn(frags) = (CHOOSE f : IsSum(f))[1 .. N]
  BY <1>2 DEF BytesIn, FoldLeft, MapThenFoldSet
<1> HIDE DEF g, Room, N
<1>4. PICK f \in [SUBSET (1 .. N) -> Int] : IsFold(f, g, 0, frags, N)
  <2>1. g \in [Int \X S -> Int] /\ 0 \in Int
    BY <1>1
  <2>2. \E f \in [SUBSET (1 .. Len(frags)) -> Int] : IsFold(f, g, 0, frags, Len(frags))
    BY <2>1, FoldExists, Zenon
  <2> QED
    BY <2>2 DEF N
<1>5. IsSum(f)
  <2>1. ASSUME NEW t \in SUBSET (1 .. N)
        PROVE  f[t] = IF t = {} THEN 0 ELSE Room(f[t \ {Max(t)}], frags[Max(t)])
    <3>1. f[t] = FoldStep(f, g, 0, frags, t)
      BY <1>4 DEF IsFold
    <3>2. CASE t = {}
      BY <3>1, <3>2 DEF FoldStep
    <3>3. CASE t # {}
      <4>1. Max(t) \in 1 .. N /\ t \ {Max(t)} \in SUBSET (1 .. N)
        BY <1>2, <3>3, MaxInside
      <4>2. f[t \ {Max(t)}] \in Int /\ frags[Max(t)] \in S
        BY <1>2, <1>4, <4>1
      <4> QED
        BY <1>1, <3>1, <3>3, <4>2 DEF FoldStep
    <3> QED
      BY <3>2, <3>3
  <2>2. f = [t \in SUBSET (1 .. N) |-> f[t]]
    BY <1>4
  <2> QED
    BY <1>2, <2>1, <2>2
<1> DEFINE h == CHOOSE e : IsSum(e)
<1>6. IsSum(h)
  <2> HIDE DEF IsSum
  <2> QED
    BY <1>5, Zenon
<1> HIDE DEF h
<1>7. ASSUME NEW m \in 0 .. N PROVE h[1 .. m] = c[m]
  <2> DEFINE Off == {n \in 0 .. N : h[1 .. n] # c[n]}
  <2> SUFFICES ASSUME Off # {} PROVE FALSE
    OBVIOUS
  <2>1. PICK n \in Off : \A k \in Off : n <= k
    <3>1. Off \in SUBSET Nat
      BY <1>2
    <3> HIDE DEF Off
    <3> QED
      BY <3>1, LeastNumber, Zenon
  <2>2. n \in 0 .. N /\ h[1 .. n] # c[n]
    BY <2>1
  <2>3. n # 0
    <3>1. 1 .. 0 = {} /\ {} \in SUBSET (1 .. N)
      OBVIOUS
    <3>2. h[{}] = 0
      BY <1>2, <1>6, <3>1
    <3> QED
      BY <2>2, <3>1, <3>2
  <2>4. n \in 1 .. N /\ n \in Nat \ {0} /\ n - 1 \in 0 .. N /\ n - 1 < n
    BY <1>2, <2>2, <2>3
  <2>5. h[1 .. n - 1] = c[n - 1]
    <3>1. n - 1 \notin Off
      <4> HIDE DEF Off
      <4> QED
        BY <2>1, <2>4, <1>2
    <3> QED
      BY <2>4, <3>1
  <2>6. Max(1 .. n) = n /\ (1 .. n) \ {n} = 1 .. n - 1 /\ 1 .. n # {} /\ 1 .. n \in SUBSET (1 .. N)
    <3>1. Max(1 .. n) = n /\ (1 .. n) \ {n} = 1 .. n - 1
      BY <2>4, MaxOfInterval
    <3>2. n \in 1 .. n /\ \A x \in 1 .. n : x \in 1 .. N
      <4>1. n \in Nat /\ N \in Nat /\ 1 <= n /\ n <= N
        BY <1>2, <2>4
      <4> QED
        BY <4>1
    <3> QED
      BY <3>1, <3>2, Zenon
  <2>7. h[1 .. n] = Room(h[1 .. n - 1], frags[n])
    BY <1>2, <1>6, <2>6, ZenonT(40)
  <2>8. c[n] = c[n - 1] + frags[n].length + FHS
    BY <2>4 DEF N
  <2> QED
    BY <2>2, <2>5, <2>7, <2>8 DEF Room
<1>8. N \in 0 .. N
  BY <1>2
<1>9. BytesIn(frags) = h[1 .. N]
  BY <1>3 DEF h
<1> QED
  BY <1>7, <1>8, <1>9 DEF N

-----------------------------------------------------------------------------
(* The receiver *)

\* What a station keeps of the packets that were sent.
Kept == [ctx : [Buckets -> SentContext], up : Seq({NULL} \cup DOMAIN pkts)]

LEMMA SuccType == \A n \in Int : Succ(n) \in 0 .. SeqnoMod - 1
<1>1. SeqnoMod \in Nat \ {0}
  BY LinkAssumption
<1> QED
  BY <1>1 DEF Succ

\* A record of contexts and packets with one of them changed.
LEMMA ContextKept ==
    ASSUME NEW I, NEW C, NEW B, NEW r \in [ctx : [I -> C], up : B], NEW b \in I, NEW y \in C
    PROVE  [r EXCEPT !.ctx[b] = y] \in [ctx : [I -> C], up : B]
OBVIOUS

LEMMA UpKept ==
    ASSUME NEW A, NEW B, NEW r \in [ctx : A, up : B], NEW y, Append(r.up, y) \in B
    PROVE  [r EXCEPT !.up = Append(@, y)] \in [ctx : A, up : B]
OBVIOUS

\* sendUp keeps them.
LEMMA DecodeTyped ==
    ASSUME NEW d, NEW s \in Senders, NEW r \in Kept, NEW fh \in SentFrag, pkts \in Seq(Packet)
    PROVE  Decode(d, s, r, fh) \in Kept
<1> DEFINE b == Bucket(s, fh.frag_id)
           c == Add(r.ctx[b], fh)
<1>1. /\ fh.start_end \in SUBSET {START, END} /\ fh.frag_id \in Prios /\ fh.length \in Nat
      /\ fh.seqno \in 0 .. SeqnoMod - 1 /\ fh.alpdu \in DOMAIN pkts
      /\ DOMAIN pkts \subseteq Nat
  BY DEF SentFrag, Frag
<1>2. b \in Buckets
  BY <1>1 DEF Buckets
<1>3. /\ r.ctx \in [Buckets -> SentContext] /\ r.up \in Seq({NULL} \cup DOMAIN pkts)
      /\ r = [ctx |-> r.ctx, up |-> r.up]
  BY DEF Kept
<1> HIDE DEF b
<1>4. r.ctx[b] \in SentContext
  BY <1>2, <1>3
<1>5. c \in SentContext
  <2> DEFINE x == r.ctx[b]
  <2>1. /\ x.pkt \in {NULL} \cup DOMAIN pkts /\ x.exp_sn \in 0 .. SeqnoMod - 1 /\ x.len \in Nat
        /\ x = [pkt |-> x.pkt, exp_sn |-> x.exp_sn, len |-> x.len]
    BY <1>4 DEF SentContext, Context
  <2> HIDE DEF x
  <2>2. SeqnoMod \in Nat \ {0} /\ x.exp_sn \in Int
    BY <2>1, LinkAssumption
  <2>3. Succ(x.exp_sn) \in 0 .. SeqnoMod - 1
    BY <2>2, SuccType
  <2>4. Open(x, fh) \in SentContext
    <3>1. CASE START \in fh.start_end
      <4> DEFINE e == IF x.pkt # NULL THEN Succ(x.exp_sn) ELSE x.exp_sn
      <4>1. e \in 0 .. SeqnoMod - 1
        BY <2>1, <2>3
      <4>2. Open(x, fh) = [pkt |-> fh.alpdu, len |-> 0, exp_sn |-> e]
        BY <3>1 DEF Open
      <4> HIDE DEF e
      <4> QED
        BY <1>1, <4>1, <4>2 DEF SentContext, Context
    <3>2. CASE START \notin fh.start_end
      BY <3>2, <1>4 DEF Open, x
    <3> QED
      BY <3>1, <3>2
  <2>5. [Open(x, fh) EXCEPT !.len = @ + fh.length] \in SentContext
    <3> DEFINE o == Open(x, fh)
    <3>1. o \in SentContext
      BY <2>4
    <3> HIDE DEF o
    <3>2. o.len + fh.length \in Nat
      BY <1>1, <3>1 DEF SentContext, Context
    <3>3. [o EXCEPT !.len = @ + fh.length] \in SentContext
      BY <3>1, <3>2 DEF SentContext, Context
    <3> QED
      BY <3>3 DEF o
  <2> QED
    BY <2>5 DEF Add, x
<1> HIDE DEF c
<1>7. ASSUME NEW x \in SentContext PROVE [r.ctx EXCEPT ![b] = x] \in [Buckets -> SentContext]
  BY <1>3
<1>8. ASSUME NEW x \in {NULL} \cup DOMAIN pkts PROVE Append(r.up, x) \in Seq({NULL} \cup DOMAIN pkts)
  BY <1>3
<1>9. ASSUME NEW x \in SentContext PROVE [r EXCEPT !.ctx[b] = x] \in Kept
  BY <1>2, ContextKept DEF Kept
<1>10. Deliver(c) \in SentContext /\ Drop(c, fh) \in SentContext /\ c.pkt \in {NULL} \cup DOMAIN pkts
  <2>1. c.exp_sn \in Int /\ fh.seqno \in Int
    BY <1>1, <1>5, LinkAssumption DEF SentContext, Context
  <2>2. Succ(c.exp_sn) \in 0 .. SeqnoMod - 1 /\ Succ(fh.seqno) \in 0 .. SeqnoMod - 1
    BY <2>1, SuccType
  <2> QED
    BY <1>5, <2>2 DEF SentContext, Context, Deliver, Drop
<1>11. [r EXCEPT !.up = Append(@, fh.alpdu)] \in Kept
  <2>1. Append(r.up, fh.alpdu) \in Seq({NULL} \cup DOMAIN pkts)
    BY <1>1, <1>8
  <2> QED
    BY <2>1, UpKept DEF Kept
<1>12. [ctx |-> [r.ctx EXCEPT ![b] = Deliver(c)], up |-> Append(r.up, c.pkt)] \in Kept
  BY <1>7, <1>8, <1>10 DEF Kept
<1>13. [r EXCEPT !.ctx[b] = c] \in Kept /\ [r EXCEPT !.ctx[b] = Drop(c, fh)] \in Kept
  BY <1>5, <1>9, <1>10
<1> HIDE DEF Kept
<1>6. {START, END} # {END} /\ END \in {START, END}
  BY DEF START, END
<1>14. CASE pkts[fh.alpdu].dst # d
  BY <1>14, Zenon DEF Decode
<1>15. CASE pkts[fh.alpdu].dst = d /\ fh.start_end = {START, END}
  BY <1>11, <1>15, <1>6 DEF Decode
<1>16. CASE pkts[fh.alpdu].dst = d /\ END \notin fh.start_end
  BY <1>13, <1>16 DEF Decode, b, c
<1>17. CASE pkts[fh.alpdu].dst = d /\ fh.start_end = {END}
  BY <1>12, <1>13, <1>17, <1>6 DEF Decode, b, c
<1> QED
  BY <1>1, <1>14, <1>15, <1>16, <1>17

\* What a station keeps after every fragment of a burst: c[0] before it, and so on.
IsAfterwards(c, d, s, frags) ==
    /\ c \in [0 .. Len(frags) -> Kept]
    /\ c[0] = [ctx |-> ctx[d], up |-> up[d]]
    /\ \A m \in 1 .. Len(frags) : c[m] = Decode(d, s, c[m - 1], frags[m])

LEMMA AfterChain ==
    ASSUME NEW d, NEW s \in Senders, NEW burst, burst.frags \in Seq(SentFrag),
           pkts \in Seq(Packet), [ctx |-> ctx[d], up |-> up[d]] \in Kept
    PROVE  \E c : /\ IsAfterwards(c, d, s, burst.frags)
                  /\ After(d, s, burst) = c[Len(burst.frags)]
<1> DEFINE frags == burst.frags
           N == Len(frags)
           base == [ctx |-> ctx[d], up |-> up[d]]
           g == [z \in Kept \X SentFrag |-> Decode(d, s, z[1], z[2])]
           IsAfter(f) == f = [t \in SUBSET DOMAIN frags |->
                                IF t = {} THEN base
                                ELSE Decode(d, s, f[t \ {Max(t)}], frags[Max(t)])]
<1>1. N \in Nat /\ DOMAIN frags = 1 .. N /\ frags \in Seq(SentFrag) /\ \A m \in 1 .. N : frags[m] \in SentFrag
  OBVIOUS
<1>2. After(d, s, burst) = (CHOOSE f : IsAfter(f))[1 .. N]
  BY <1>1 DEF After, FoldLeft, MapThenFoldSet
<1>3. g \in [Kept \X SentFrag -> Kept]
      /\ \A r \in Kept, fh \in SentFrag : g[<<r, fh>>] = Decode(d, s, r, fh)
  <2>1. \A r \in Kept, fh \in SentFrag : Decode(d, s, r, fh) \in Kept
    BY DecodeTyped
  <2>2. \A z \in Kept \X SentFrag : Decode(d, s, z[1], z[2]) \in Kept
    <3> SUFFICES ASSUME NEW z \in Kept \X SentFrag PROVE Decode(d, s, z[1], z[2]) \in Kept
      OBVIOUS
    <3>1. z[1] \in Kept /\ z[2] \in SentFrag
      OBVIOUS
    <3> QED
      BY <2>1, <3>1
  <2> QED
    BY <2>2
<1>4. base \in Kept
  OBVIOUS
<1> HIDE DEF g, N, base, frags
<1>5. PICK f \in [SUBSET (1 .. N) -> Kept] : IsFold(f, g, base, frags, N)
  <2>1. \E f \in [SUBSET (1 .. Len(frags)) -> Kept] : IsFold(f, g, base, frags, Len(frags))
    BY <1>1, <1>3, <1>4, FoldExists, Zenon
  <2> QED
    BY <2>1 DEF N
<1>6. \A t \in SUBSET (1 .. N) :
        f[t] = IF t = {} THEN base ELSE Decode(d, s, f[t \ {Max(t)}], frags[Max(t)])
  <2> SUFFICES ASSUME NEW t \in SUBSET (1 .. N)
               PROVE  f[t] = IF t = {} THEN base ELSE Decode(d, s, f[t \ {Max(t)}], frags[Max(t)])
    OBVIOUS
  <2>1. f[t] = FoldStep(f, g, base, frags, t)
    BY <1>5 DEF IsFold
  <2>2. CASE t = {}
    BY <2>1, <2>2 DEF FoldStep
  <2>3. CASE t # {}
    <3>1. Max(t) \in 1 .. N /\ t \ {Max(t)} \in SUBSET (1 .. N)
      BY <1>1, <2>3, MaxInside
    <3>2. f[t \ {Max(t)}] \in Kept /\ frags[Max(t)] \in SentFrag
      BY <1>1, <1>5, <3>1
    <3> QED
      BY <1>3, <2>1, <2>3, <3>2 DEF FoldStep
  <2> QED
    BY <2>2, <2>3
<1>7. IsAfter(f)
  <2>1. f = [t \in SUBSET (1 .. N) |-> f[t]]
    BY <1>5
  <2> QED
    BY <1>1, <1>6, <2>1
<1>8. PICK h : h = (CHOOSE e : IsAfter(e)) /\ IsAfter(h)
  <2> HIDE DEF IsAfter
  <2> QED
    BY <1>7, Zenon
<1>9. \A t \in SUBSET (1 .. N) :
        h[t] = IF t = {} THEN base ELSE Decode(d, s, h[t \ {Max(t)}], frags[Max(t)])
  BY <1>1, <1>8
<1>10. ASSUME NEW m \in 0 .. N PROVE h[1 .. m] \in Kept
  <2> DEFINE Off == {n \in 0 .. N : h[1 .. n] \notin Kept}
  <2> SUFFICES ASSUME Off # {} PROVE FALSE
    OBVIOUS
  <2>1. PICK n \in Off : \A k \in Off : n <= k
    <3>1. Off \in SUBSET Nat
      BY <1>1
    <3> HIDE DEF Off
    <3> QED
      BY <3>1, LeastNumber, Zenon
  <2>2. n \in 0 .. N /\ h[1 .. n] \notin Kept
    BY <2>1
  <2>3. n # 0
    <3>1. 1 .. 0 = {} /\ {} \in SUBSET (1 .. N)
      OBVIOUS
    <3>2. h[{}] = base
      BY <1>9, <3>1
    <3> QED
      BY <1>4, <2>2, <3>1, <3>2
  <2>4. n \in 1 .. N /\ n \in Nat \ {0} /\ n - 1 \in 0 .. N /\ n - 1 < n
    BY <1>1, <2>2, <2>3
  <2>5. h[1 .. n - 1] \in Kept
    <3>1. n - 1 \notin Off
      <4> HIDE DEF Off
      <4> QED
        BY <2>1, <2>4, <1>1
    <3> QED
      BY <2>4, <3>1
  <2>6. Max(1 .. n) = n /\ (1 .. n) \ {n} = 1 .. n - 1 /\ 1 .. n # {} /\ 1 .. n \in SUBSET (1 .. N)
    <3>1. Max(1 .. n) = n /\ (1 .. n) \ {n} = 1 .. n - 1
      BY <2>4, MaxOfInterval
    <3>2. n \in 1 .. n /\ \A x \in 1 .. n : x \in 1 .. N
      <4>1. n \in Nat /\ N \in Nat /\ 1 <= n /\ n <= N
        BY <1>1, <2>4
      <4> QED
        BY <4>1
    <3> QED
      BY <3>1, <3>2, Zenon
  <2>7. h[1 .. n] = Decode(d, s, h[1 .. n - 1], frags[n])
    BY <1>9, <2>6
  <2>8. Decode(d, s, h[1 .. n - 1], frags[n]) \in Kept
    BY <1>1, <2>4, <2>5, DecodeTyped
  <2> QED
    BY <2>2, <2>7, <2>8
<1> DEFINE c == [m \in 0 .. N |-> h[1 .. m]]
<1>11. c[0] = base /\ c \in [0 .. N -> Kept]
  <2>1. 1 .. 0 = {} /\ {} \in SUBSET (1 .. N) /\ 0 \in 0 .. N
    BY <1>1
  <2>2. h[{}] = base
    BY <1>9, <2>1
  <2> QED
    BY <1>10, <2>1, <2>2
<1>12. ASSUME NEW m \in 1 .. N PROVE c[m] = Decode(d, s, c[m - 1], frags[m])
  <2>1. m \in 0 .. N /\ m - 1 \in 0 .. N /\ m \in Nat \ {0}
    BY <1>1
  <2>2. Max(1 .. m) = m /\ (1 .. m) \ {m} = 1 .. m - 1 /\ 1 .. m # {} /\ 1 .. m \in SUBSET (1 .. N)
    <3>1. Max(1 .. m) = m /\ (1 .. m) \ {m} = 1 .. m - 1
      BY <2>1, MaxOfInterval
    <3>2. m \in 1 .. m /\ \A x \in 1 .. m : x \in 1 .. N
      <4>1. m \in Nat /\ N \in Nat /\ 1 <= m /\ m <= N
        BY <1>1, <2>1
      <4> QED
        BY <4>1
    <3> QED
      BY <3>1, <3>2, Zenon
  <2>3. h[1 .. m] = Decode(d, s, h[1 .. m - 1], frags[m])
    BY <1>9, <2>2
  <2> QED
    BY <2>1, <2>3
<1>13. After(d, s, burst) = c[N]
  <2>1. N \in 0 .. N
    BY <1>1
  <2> QED
    BY <1>2, <1>8, <2>1
<1> HIDE DEF c
<1> QED
  BY <1>11, <1>12, <1>13 DEF IsAfterwards, N, base, frags

\* A whole burst does.
LEMMA AfterTyped ==
    ASSUME NEW d, NEW s \in Senders, NEW burst, burst.frags \in Seq(SentFrag),
           pkts \in Seq(Packet), [ctx |-> ctx[d], up |-> up[d]] \in Kept
    PROVE  After(d, s, burst) \in Kept
<1>1. PICK c : IsAfterwards(c, d, s, burst.frags) /\ After(d, s, burst) = c[Len(burst.frags)]
  BY AfterChain
<1>2. Len(burst.frags) \in 0 .. Len(burst.frags)
  OBVIOUS
<1> QED
  BY <1>1, <1>2 DEF IsAfterwards

-----------------------------------------------------------------------------
(* What a timeslot does, with the names that slotHandler's action uses. *)

Goes(s, bs) == Whole(s, bs) < Len(queue[s]) /\ GoesOn(s, bs, Whole(s, bs) + 1)
Room(s, bs) == Left(s, bs)[Whole(s, bs)] - FHS
First(s, bs) ==
    LET p == queue[s][Whole(s, bs) + 1]
    IN  [start_end |-> pkts[p].start_end \cap {START}, frag_id |-> pkts[p].frag_id,
         length |-> Room(s, bs), seqno |-> 0, alpdu |-> p]
Frags(s, bs) ==
    [i \in 1 .. Whole(s, bs) |-> LastFrag(s, i)] \o (IF Goes(s, bs) THEN <<First(s, bs)>> ELSE << >>)

\* A packet, and a queue of packets that wait.
LEMMA PacketType ==
    ASSUME LinkInv, NEW p \in DOMAIN pkts
    PROVE  /\ pkts[p] \in Packet /\ pkts[p].src \in Senders /\ pkts[p].frag_id \in Prios
           /\ pkts[p].total_length \in Nat /\ pkts[p].psize \in Nat
           /\ pkts[p].start_end \in SUBSET {START, END}
           /\ p \in 1 .. MaxPackets
<1>1. pkts \in Seq(Packet) /\ Len(pkts) <= MaxPackets
  BY DEF LinkInv, TypeOK
<1>2. pkts[p] \in Packet
  BY <1>1
<1>3. p \in 1 .. MaxPackets
  BY <1>1, LinkAssumption
<1> QED
  BY <1>2, <1>3 DEF Packet

LEMMA QueueType ==
    ASSUME LinkInv, NEW s \in Senders
    PROVE  /\ Waits(s, queue[s], pkts) /\ queue[s] \in Seq(DOMAIN pkts) /\ Len(queue[s]) \in Nat
           /\ \A i \in 1 .. Len(queue[s]) : queue[s][i] \in DOMAIN pkts /\ pkts[queue[s][i]].psize \in Nat
<1>1. Waits(s, queue[s], pkts) /\ queue[s] \in Seq(DOMAIN pkts)
  BY DEF LinkInv, Queues, Waits
<1>2. \A i \in 1 .. Len(queue[s]) : queue[s][i] \in DOMAIN pkts
  BY <1>1
<1> QED
  BY <1>1, <1>2, PacketType

\* What goes into a burst fits, and a packet is cut only when it does not.
LEMMA RoomFits ==
    ASSUME LinkInv, NEW s \in Senders, NEW bs \in BurstSizes
    PROVE  /\ bs \in Nat /\ Whole(s, bs) \in 0 .. Len(queue[s])
           /\ \A i \in 0 .. Whole(s, bs) : Left(s, bs)[i] \in Nat
           /\ Left(s, bs)[0] = bs
           /\ \A i \in 1 .. Whole(s, bs) :
                Left(s, bs)[i] = Left(s, bs)[i - 1] - (pkts[queue[s][i]].psize + FHS)
           /\ Goes(s, bs) => /\ Room(s, bs) \in Nat
                             /\ Room(s, bs) < pkts[queue[s][Whole(s, bs) + 1]].psize
                             /\ Room(s, bs) > 0
<1> DEFINE k == Whole(s, bs)
           q == queue[s]
           left == Left(s, bs)
<1>1. bs \in Nat /\ bs > 2
  BY LinkAssumption
<1>2. Len(q) \in Nat /\ \A i \in 1 .. Len(q) : pkts[q[i]].psize \in Nat
  BY QueueType
<1>3. /\ left[0] = bs
      /\ \A i \in 1 .. Len(q) : left[i] = left[i - 1] - (pkts[q[i]].psize + FHS)
      /\ \A i \in 0 .. Len(q) : left[i] \in Int
  BY <1>1, <1>2, LeftIs, SMTT(30)
<1>4. /\ k \in 0 .. Len(q)
      /\ \A i \in 1 .. k : left[i] >= 0
      /\ k < Len(q) /\ GoesOn(s, bs, k + 1) => left[k + 1] < 0
  <2>1. /\ k \in 0 .. Len(q)
        /\ \A i \in 1 .. k : ~Full(left, i)
        /\ k = Len(q) \/ ~GoesOn(s, bs, k + 1) \/ Full(left, k + 1)
    BY <1>2, WholeExists
  <2> HIDE DEF k, q, left
  <2>2. \A i \in 1 .. k : left[i] >= 0
    BY <1>2, <1>3, <2>1, SMTT(30) DEF Full
  <2> QED
    BY <1>2, <2>1, <2>2 DEF Full
<1> HIDE DEF k, q, left
<1>5. \A i \in 0 .. k : left[i] \in Nat
  <2> SUFFICES ASSUME NEW i \in 0 .. k PROVE left[i] \in Nat
    OBVIOUS
  <2>1. CASE i = 0
    BY <1>1, <1>3, <2>1
  <2>2. CASE i # 0
    <3>1. i \in 1 .. k /\ i \in 0 .. Len(q)
      BY <1>2, <1>4, <2>2
    <3>2. left[i] >= 0 /\ left[i] \in Int
      BY <1>3, <1>4, <3>1
    <3> QED
      BY <3>2
  <2> QED
    BY <2>1, <2>2
<1>6. ASSUME Goes(s, bs) PROVE left[k] - FHS \in Nat /\ left[k] - FHS < pkts[q[k + 1]].psize
                                       /\ left[k] - FHS > 0
  <2>1. k < Len(q) /\ GoesOn(s, bs, k + 1) /\ k + 1 \in 1 .. Len(q) /\ k \in 0 .. k
    BY <1>2, <1>4, <1>6 DEF Goes, k, q
  <2>2. left[k] > 2 /\ left[k] \in Nat
    <3>1. (k + 1) - 1 = k /\ left[k] \in Nat
      BY <1>5, <2>1, <1>4
    <3>2. CASE k = 0
      BY <1>1, <1>3, <3>2
    <3>3. CASE k # 0
      <4>1. left[k] >= FHS + PHS
        BY <2>1, <3>1, <3>3, <1>4 DEF GoesOn, left
      <4> QED
        BY <3>1, <4>1 DEF FHS, PHS
    <3> QED
      BY <3>1, <3>2, <3>3
  <2>3. left[k + 1] < 0 /\ pkts[q[k + 1]].psize \in Nat
    BY <1>2, <1>4, <2>1
  <2>4. left[k + 1] = left[k] - (pkts[q[k + 1]].psize + FHS)
    <3>1. (k + 1) - 1 = k
      BY <1>4
    <3> QED
      BY <1>3, <2>1, <3>1
  <2> HIDE DEF FHS
  <2>5. FHS = 2
    BY DEF FHS
  <2> QED
    BY <2>2, <2>3, <2>4, <2>5
<1>7. \A i \in 1 .. k : left[i] = left[i - 1] - (pkts[q[i]].psize + FHS)
  BY <1>2, <1>3, <1>4
<1> QED
  BY <1>1, <1>3, <1>4, <1>5, <1>6, <1>7 DEF Room, k, q, left

\* Every fragment is of a packet of the queue, and the burst holds them all.
LEMMA FragType ==
    ASSUME LinkInv, NEW s \in Senders, NEW i \in 1 .. Len(queue[s])
    PROVE  /\ LastFrag(s, i) \in SentFrag
           /\ LastFrag(s, i).length = pkts[queue[s][i]].psize
<1> DEFINE p == queue[s][i]
           f == pkts[p].frag_id
<1>1. /\ p \in DOMAIN pkts /\ p \in 1 .. MaxPackets /\ f \in Prios /\ pkts[p].psize \in Nat
      /\ pkts[p].start_end \in SUBSET {START, END}
  BY QueueType, PacketType
<1>2. Cardinality(Closing(s, f, i - 1)) \in Nat
  <2>1. Closing(s, f, i - 1) \subseteq 1 .. i - 1
    BY DEF Closing
  <2>2. IsFiniteSet(1 .. i - 1)
    <3>1. i \in Nat
      BY QueueType
    <3> QED
      BY <3>1, FS_Interval
  <2> QED
    BY <2>1, <2>2, FS_Subset, FS_CardinalityType
<1>3. SeqnoMod \in Nat \ {0} /\ next[s][f] \in Nat
  <2>1. next \in [Senders -> [Prios -> 0 .. SeqnoMod - 1]]
    BY DEF LinkInv, TypeOK
  <2>2. next[s][f] \in 0 .. SeqnoMod - 1
    BY <1>1, <2>1
  <2> QED
    BY <2>2, LinkAssumption
<1> DEFINE n == next[s][f] + Cardinality(Closing(s, f, i - 1))
           sn == IF START \notin pkts[p].start_end THEN n % SeqnoMod ELSE 0
<1>4. sn \in 0 .. SeqnoMod - 1
  <2>1. n \in Nat
    <3> DEFINE closing == Cardinality(Closing(s, f, i - 1))
               nextSn  == next[s][f]
    <3>1. closing \in Nat /\ nextSn \in Nat
      BY <1>2, <1>3
    <3> HIDE DEF closing, nextSn
    <3>2. nextSn + closing \in Nat
      BY <3>1
    <3> QED
      BY <3>2 DEF closing, nextSn
  <2> HIDE DEF n
  <2> QED
    BY <1>3, <2>1
<1>5. LastFrag(s, i) = [start_end |-> pkts[p].start_end \cup {END}, frag_id |-> f,
                        length |-> pkts[p].psize, alpdu |-> p, seqno |-> sn]
  BY DEF LastFrag
<1> HIDE DEF sn, f
<1> QED
  BY <1>1, <1>4, <1>5 DEF SentFrag, Frag

LEMMA BurstType ==
    ASSUME LinkInv, NEW s \in Senders, NEW bs \in BurstSizes
    PROVE  Frags(s, bs) \in Seq(SentFrag) /\ BytesIn(Frags(s, bs)) <= bs
<1> DEFINE k == Whole(s, bs)
           q == queue[s]
           left == Left(s, bs)
           cut == Goes(s, bs)
           whole == [i \in 1 .. k |-> LastFrag(s, i)]
           rest == IF cut THEN <<First(s, bs)>> ELSE << >>
           n == IF cut THEN k + 1 ELSE k
           c == [m \in 0 .. n |-> IF m <= k THEN bs - left[m] ELSE bs]
<1>1. /\ bs \in Nat /\ k \in 0 .. Len(q) /\ Len(q) \in Nat
      /\ \A i \in 0 .. k : left[i] \in Nat
      /\ left[0] = bs
      /\ \A i \in 1 .. k : left[i] = left[i - 1] - (pkts[q[i]].psize + FHS)
      /\ cut => Room(s, bs) \in Nat /\ Room(s, bs) = left[k] - FHS
  BY RoomFits, QueueType DEF Room
<1>2. \A i \in 1 .. k : /\ LastFrag(s, i) \in SentFrag
                        /\ LastFrag(s, i).length = pkts[q[i]].psize /\ pkts[q[i]].psize \in Nat
  BY <1>1, FragType, QueueType
<1>3. cut => First(s, bs) \in SentFrag /\ First(s, bs).length = Room(s, bs)
  <2> SUFFICES ASSUME cut PROVE First(s, bs) \in SentFrag /\ First(s, bs).length = Room(s, bs)
    OBVIOUS
  <2>1. k + 1 \in 1 .. Len(q)
    BY <1>1 DEF Goes
  <2> DEFINE p == q[k + 1]
  <2>2. p \in DOMAIN pkts /\ p \in 1 .. MaxPackets /\ pkts[p].frag_id \in Prios
    BY <2>1, QueueType, PacketType
  <2>3. 0 \in 0 .. SeqnoMod - 1
    BY LinkAssumption
  <2>4. pkts[p].start_end \cap {START} \in SUBSET {START, END}
    OBVIOUS
  <2>5. First(s, bs) = [start_end |-> pkts[p].start_end \cap {START}, frag_id |-> pkts[p].frag_id,
                        length |-> Room(s, bs), seqno |-> 0, alpdu |-> p]
    BY DEF First
  <2> HIDE DEF p
  <2> QED
    BY <1>1, <2>2, <2>3, <2>4, <2>5 DEF SentFrag, Frag
<1>4. Frags(s, bs) = whole \o rest
  BY DEF Frags
<1>5. whole \in Seq(SentFrag) /\ Len(whole) = k /\ \A i \in 1 .. k : whole[i] = LastFrag(s, i)
  BY <1>1, <1>2
<1>6. rest \in Seq(SentFrag) /\ Len(rest) = n - k /\ (cut => rest[1] = First(s, bs))
  BY <1>1, <1>3
<1> HIDE DEF k, q, left, cut, whole, rest
<1>7. /\ Frags(s, bs) \in Seq(SentFrag) /\ Len(Frags(s, bs)) = n /\ n \in Nat /\ k <= n
      /\ \A i \in 1 .. n : Frags(s, bs)[i] = IF i <= k THEN whole[i] ELSE rest[i - k]
  BY <1>1, <1>4, <1>5, <1>6
<1>8. \A i \in 1 .. n : Frags(s, bs)[i] = IF i <= k THEN LastFrag(s, i) ELSE First(s, bs)
  <2> SUFFICES ASSUME NEW i \in 1 .. n
               PROVE  Frags(s, bs)[i] = IF i <= k THEN LastFrag(s, i) ELSE First(s, bs)
    OBVIOUS
  <2>1. CASE i <= k
    BY <1>5, <1>7, <2>1
  <2>2. CASE ~(i <= k)
    <3>1. i - k = 1 /\ cut
      BY <1>1, <2>2
    <3> QED
      BY <1>6, <1>7, <2>2, <3>1
  <2> QED
    BY <2>1, <2>2
<1> HIDE DEF n
<1>9. c \in [0 .. n -> Int] /\ c[0] = 0
  BY <1>1, <1>7
<1>10. ASSUME NEW m \in 1 .. n PROVE c[m] = c[m - 1] + Frags(s, bs)[m].length + FHS
  <2>0. FHS = 2
    BY DEF FHS
  <2>1. CASE m <= k
    <3>1. m - 1 \in 0 .. n /\ m - 1 <= k /\ m \in 1 .. k /\ m \in 0 .. n /\ m - 1 \in 0 .. k
      BY <1>1, <1>7, <2>1
    <3>2. c[m] = bs - left[m] /\ c[m - 1] = bs - left[m - 1]
      BY <2>1, <3>1
    <3>3. Frags(s, bs)[m].length = pkts[q[m]].psize
      BY <1>2, <1>8, <2>1, <3>1
    <3> HIDE DEF c, FHS
    <3> DEFINE size == pkts[q[m]].psize
    <3>4. /\ left[m] = left[m - 1] - (size + FHS) /\ left[m - 1] \in Nat /\ left[m] \in Nat
          /\ size \in Nat
      BY <1>1, <1>2, <3>1
    <3> HIDE DEF size
    <3>5. bs \in Int /\ FHS \in Nat
      BY <1>1, <2>0
    <3>6. c[m] = (bs - left[m - 1]) + size + FHS
      BY <3>2, <3>4, <3>5
    <3> QED
      BY <3>2, <3>3, <3>6 DEF size
  <2>2. CASE ~(m <= k)
    <3>1. m = k + 1 /\ cut
      BY <1>1, <1>7, <2>2 DEF n
    <3>2. c[m] = bs /\ c[m - 1] = bs - left[k]
      BY <1>1, <1>7, <2>2, <3>1
    <3>3. Frags(s, bs)[m].length = left[k] - FHS
      BY <1>1, <1>3, <1>8, <2>2, <3>1
    <3>4. left[k] \in Nat
      BY <1>1
    <3> HIDE DEF c, FHS
    <3> QED
      BY <1>1, <2>0, <3>2, <3>3, <3>4
  <2> QED
    BY <2>1, <2>2
<1>11. c[n] <= bs
  <2>1. n \in 0 .. n /\ (n <= k => n \in 0 .. k)
    BY <1>1, <1>7
  <2> QED
    BY <1>1, <2>1
<1> HIDE DEF c
<1>12. \A fh \in SentFrag : fh.length \in Nat
  BY DEF SentFrag, Frag
<1>13. BytesIn(Frags(s, bs)) = c[n]
  BY <1>7, <1>9, <1>10, <1>12, BytesAre
<1> QED
  BY <1>7, <1>11, <1>13

\* The packets after the timeslot: what was cut, and what went whole.
Served(s, bs) ==
    [p \in DOMAIN pkts |->
        IF Goes(s, bs) /\ p = queue[s][Whole(s, bs) + 1] THEN Cut(pkts[p], Room(s, bs))
        ELSE IF p \in {queue[s][i] : i \in 1 .. Whole(s, bs)}
        THEN [pkts[p] EXCEPT !.start_end = @ \cup {END}]
        ELSE pkts[p]]

\* The part of a packet that stays.
LEMMA CutType ==
    ASSUME NEW h \in Packet, NEW room \in Nat, room < h.psize,
           START \in h.start_end => h.psize = h.total_length
    PROVE  /\ Cut(h, room) \in Packet /\ Cut(h, room).src = h.src /\ Cut(h, room).frag_id = h.frag_id
           /\ START \notin Cut(h, room).start_end
<1> DEFINE o == Opened(h)
<1>1. /\ h.psize \in Nat /\ h.total_length \in Nat
      /\ h = [src |-> h.src, dst |-> h.dst, frag_id |-> h.frag_id, psize |-> h.psize,
              total_length |-> h.total_length, start_end |-> h.start_end]
  BY DEF Packet
<1>2. o \in Packet /\ o.src = h.src /\ o.frag_id = h.frag_id /\ o.psize >= h.psize
  <2>1. CASE START \in h.start_end
    <3>1. h.total_length + PHS + TS \in Nat /\ h.total_length + PHS + TS >= h.psize
      BY <1>1, <2>1 DEF PHS, TS
    <3>2. o = [h EXCEPT !.total_length = @ + PHS + TS, !.psize = h.total_length + PHS + TS]
      BY <2>1 DEF Opened
    <3> QED
      BY <3>1, <3>2 DEF Packet
  <2>2. CASE START \notin h.start_end
    BY <1>1, <2>2 DEF Opened
  <2> QED
    BY <2>1, <2>2
<1> HIDE DEF o
<1>3. o.psize - room \in Nat /\ {} \in SUBSET {START, END}
  BY <1>1, <1>2 DEF Packet
<1>4. Cut(h, room) = [o EXCEPT !.psize = @ - room, !.start_end = {}]
  BY DEF Cut, o
<1> QED
  BY <1>2, <1>3, <1>4 DEF Packet

LEMMA ServedType ==
    ASSUME LinkInv, NEW s \in Senders, NEW bs \in BurstSizes
    PROVE  LET pk == Served(s, bs)
           IN  /\ pk \in Seq(Packet) /\ DOMAIN pk = DOMAIN pkts /\ Len(pk) = Len(pkts)
               /\ \A p \in DOMAIN pkts :
                    /\ pk[p].src = pkts[p].src /\ pk[p].frag_id = pkts[p].frag_id
                    /\ START \in pk[p].start_end => pk[p].psize = pk[p].total_length
                    /\ pk[p] = pkts[p] \/ \E i \in 1 .. Whole(s, bs) + 1 :
                                            i \in 1 .. Len(queue[s]) /\ p = queue[s][i]
<1> DEFINE k == Whole(s, bs)
           q == queue[s]
           pk == Served(s, bs)
<1>1. /\ k \in 0 .. Len(q) /\ Len(q) \in Nat
      /\ \A i \in 1 .. Len(q) : q[i] \in DOMAIN pkts
      /\ Goes(s, bs) => Room(s, bs) \in Nat /\ Room(s, bs) < pkts[q[k + 1]].psize
  BY RoomFits, QueueType
<1>2. Goes(s, bs) => k + 1 \in 1 .. Len(q)
  BY <1>1 DEF Goes
<1>3. ASSUME NEW p \in DOMAIN pkts
      PROVE  /\ pk[p] \in Packet /\ pk[p].src = pkts[p].src /\ pk[p].frag_id = pkts[p].frag_id
             /\ START \in pk[p].start_end => pk[p].psize = pk[p].total_length
             /\ pk[p] = pkts[p] \/ \E i \in 1 .. k + 1 : i \in 1 .. Len(q) /\ p = q[i]
  <2>1. pkts[p] \in Packet /\ (START \in pkts[p].start_end => pkts[p].psize = pkts[p].total_length)
    BY PacketType DEF LinkInv, Uncut
  <2>2. CASE Goes(s, bs) /\ p = q[k + 1]
    <3>1. pk[p] = Cut(pkts[p], Room(s, bs))
      BY <2>2 DEF Served
    <3>2. Room(s, bs) \in Nat /\ Room(s, bs) < pkts[p].psize
      BY <1>1, <2>2
    <3> HIDE DEF pk
    <3>3. /\ pk[p] \in Packet /\ pk[p].src = pkts[p].src /\ pk[p].frag_id = pkts[p].frag_id
          /\ START \notin pk[p].start_end
      BY <2>1, <3>1, <3>2, CutType
    <3>4. k + 1 \in 1 .. k + 1
      BY <1>1
    <3> QED
      BY <1>2, <2>2, <3>3, <3>4
  <2>3. CASE ~(Goes(s, bs) /\ p = q[k + 1]) /\ p \in {q[i] : i \in 1 .. k}
    <3>1. pk[p] = [pkts[p] EXCEPT !.start_end = @ \cup {END}]
      BY <2>3 DEF Served
    <3> HIDE DEF pk, k, q
    <3>2. /\ pk[p] \in Packet /\ pk[p].src = pkts[p].src /\ pk[p].frag_id = pkts[p].frag_id
          /\ pk[p].psize = pkts[p].psize /\ pk[p].total_length = pkts[p].total_length
          /\ pk[p].start_end = pkts[p].start_end \cup {END}
      BY <2>1, <3>1 DEF Packet
    <3>3. START # END
      BY DEF START, END
    <3>4. START \in pk[p].start_end => pk[p].psize = pk[p].total_length
      BY <2>1, <3>2, <3>3
    <3>5. PICK i \in 1 .. k : p = q[i]
      BY <2>3
    <3>6. i \in 1 .. k + 1 /\ i \in 1 .. Len(q)
      BY <1>1
    <3> QED
      BY <3>2, <3>4, <3>5, <3>6
  <2>4. CASE ~(Goes(s, bs) /\ p = q[k + 1]) /\ p \notin {q[i] : i \in 1 .. k}
    <3>1. pk[p] = pkts[p]
      BY <2>4 DEF Served
    <3> HIDE DEF pk
    <3> QED
      BY <2>1, <3>1
  <2> QED
    BY <2>2, <2>3, <2>4
<1>4. pkts \in Seq(Packet) /\ Len(pkts) \in Nat /\ DOMAIN pkts = 1 .. Len(pkts)
  BY DEF LinkInv, TypeOK
<1>5. pk = [p \in 1 .. Len(pkts) |-> pk[p]]
  BY <1>4 DEF Served
<1> HIDE DEF pk
<1>6. pk \in [1 .. Len(pkts) -> Packet]
  BY <1>3, <1>4, <1>5
<1>7. pk \in Seq(Packet) /\ Len(pk) = Len(pkts) /\ DOMAIN pk = DOMAIN pkts
  BY <1>4, <1>6
<1> QED
  BY <1>3, <1>7 DEF pk

LEMMA ServedQueues ==
    ASSUME LinkInv, NEW s \in Senders, NEW bs \in BurstSizes, NEW x \in Senders
    PROVE  Waits(x, IF x = s THEN SubSeq(queue[s], Whole(s, bs) + 1, Len(queue[s])) ELSE queue[x],
                 Served(s, bs))
<1> DEFINE k == Whole(s, bs)
           q == queue[s]
           pk == Served(s, bs)
<1>1. /\ DOMAIN pk = DOMAIN pkts
      /\ \A p \in DOMAIN pkts :
           /\ pk[p].src = pkts[p].src /\ pk[p].frag_id = pkts[p].frag_id
           /\ pk[p] = pkts[p] \/ \E i \in 1 .. k + 1 : i \in 1 .. Len(q) /\ p = q[i]
  BY ServedType
<1>2. /\ Waits(s, q, pkts) /\ Len(q) \in Nat /\ k \in 0 .. Len(q)
      /\ \A i \in 1 .. Len(q) : q[i] \in DOMAIN pkts
  BY QueueType, RoomFits
<1> HIDE DEF pk, q, k
<1>3. CASE x = s
  <2>1. ASSUME NEW j \in k + 2 .. Len(q) PROVE pk[q[j]].start_end = pkts[q[j]].start_end
    <3>1. j \in 1 .. Len(q) /\ q[j] \in DOMAIN pkts
      BY <1>2
    <3>2. ASSUME NEW i \in 1 .. k + 1, i \in 1 .. Len(q) PROVE q[j] # q[i]
      <4>1. i # j
        BY <1>2
      <4> QED
        BY <1>2, <3>1, <3>2, <4>1 DEF Waits
    <3> QED
      BY <1>1, <3>1, <3>2
  <2>2. Waits(s, SubSeq(q, k + 1, Len(q)), pk)
    BY <1>1, <1>2, <2>1, WaitsRest
  <2> QED
    BY <1>3, <2>2 DEF pk, q, k
<1>4. CASE x # s
  <2>1. Waits(x, queue[x], pkts) /\ \A i \in 1 .. Len(queue[x]) : queue[x][i] \in DOMAIN pkts
    BY QueueType
  <2>2. ASSUME NEW i \in 1 .. Len(queue[x]) PROVE pk[queue[x][i]] = pkts[queue[x][i]]
    <3>1. pkts[queue[x][i]].src = x /\ \A j \in 1 .. Len(q) : pkts[q[j]].src = s
      BY <1>2, <2>1 DEF Waits
    <3>2. \A j \in 1 .. Len(q) : queue[x][i] # q[j]
      BY <1>4, <3>1
    <3> QED
      BY <1>1, <2>1, <3>2
  <2>3. Waits(x, queue[x], pk)
    BY <1>1, <2>1, <2>2, WaitsKept
  <2> QED
    BY <1>4, <2>3 DEF pk
<1> QED
  BY <1>3, <1>4

-----------------------------------------------------------------------------
(* The steps *)

\* Sequences over a greater set.
LEMMA SeqGrows ==
    ASSUME NEW A, NEW B, A \subseteq B PROVE Seq(A) \subseteq Seq(B)
<1> SUFFICES ASSUME NEW q \in Seq(A) PROVE q \in Seq(B)
  OBVIOUS
<1> QED
  OBVIOUS

\* What was sent stays sent when packets come.
LEMMA SentGrows ==
    ASSUME Sent, DOMAIN pkts \subseteq DOMAIN pkts', UNCHANGED <<air, ctx>>
    PROVE  Sent'
<1>1. SentFrag \subseteq SentFrag' /\ SentContext \subseteq SentContext'
  BY DEF SentFrag, SentContext, Frag, Context
<1>2. Seq(SentFrag) \subseteq Seq(SentFrag')
  BY <1>1, SeqGrows
<1>3. SentBurst \subseteq SentBurst'
  BY <1>2 DEF SentBurst
<1>4. Seq(SentBurst) \subseteq Seq(SentBurst')
  BY <1>3, SeqGrows
<1> QED
  BY <1>1, <1>4 DEF Sent

\* Bursts of fragments of some packets are bursts.
LEMMA BurstsTyped ==
    ASSUME NEW F, F \subseteq Frag
    PROVE  Seq([size : BurstSizes, lost : BOOLEAN, frags : Seq(F)])
             \subseteq Seq([size : BurstSizes, lost : BOOLEAN, frags : Seq(Frag)])
<1>1. Seq(F) \subseteq Seq(Frag)
  BY SeqGrows
<1>2. [size : BurstSizes, lost : BOOLEAN, frags : Seq(F)]
        \subseteq [size : BurstSizes, lost : BOOLEAN, frags : Seq(Frag)]
  BY <1>1
<1> QED
  BY <1>2, SeqGrows

\* RleLL::recv puts a packet into the queue.
LEMMA SendStep ==
    ASSUME LinkInv, NEW s \in Senders, NEW d \in Receivers, NEW f \in Prios, NEW size \in Sizes,
           Send(s, d, f, size)
    PROVE  /\ pkts' \in Seq(Packet) /\ Len(pkts') <= MaxPackets
           /\ DOMAIN pkts \subseteq DOMAIN pkts' /\ heard' \in [DOMAIN pkts' -> Nat]
           /\ queue' \in [Senders -> Seq(DOMAIN pkts')]
           /\ Queues' /\ Uncut'
<1> DEFINE h == [src |-> s, dst |-> d, frag_id |-> f, total_length |-> size, psize |-> size,
                 start_end |-> {START, END}]
           q == Insert(queue[s], Len(pkts'), [p \in DOMAIN pkts' |-> pkts'[p].frag_id])
<1>1. /\ Len(pkts) < MaxPackets /\ pkts' = Append(pkts, h) /\ heard' = Append(heard, 0)
      /\ queue' = [queue EXCEPT ![s] = q]
  BY DEF Send
<1>2. h \in Packet /\ h.src = s /\ START \in h.start_end /\ h.psize = h.total_length
  <2>1. size \in Nat
    BY LinkAssumption
  <2> QED
    BY <2>1 DEF Packet
<1> HIDE DEF h
<1>3. pkts \in Seq(Packet) /\ Len(pkts) \in Nat /\ heard \in [1 .. Len(pkts) -> Nat]
      /\ queue \in [Senders -> Seq(DOMAIN pkts)]
  BY DEF LinkInv, TypeOK
<1>4. /\ pkts' \in Seq(Packet) /\ Len(pkts') = Len(pkts) + 1 /\ DOMAIN pkts' = 1 .. Len(pkts) + 1
      /\ pkts'[Len(pkts) + 1] = h /\ \A p \in DOMAIN pkts : p \in DOMAIN pkts' /\ pkts'[p] = pkts[p]
  BY <1>1, <1>2, <1>3
<1>5. Len(pkts') <= MaxPackets
  BY <1>1, <1>3, <1>4, LinkAssumption
<1>6. heard' \in [DOMAIN pkts' -> Nat]
  <2>1. heard \in Seq(Nat) /\ Len(heard) = Len(pkts)
    BY <1>3, SMTT(30)
  <2>2. heard' \in Seq(Nat) /\ Len(heard') = Len(pkts) + 1
    BY <1>1, <2>1
  <2> QED
    BY <1>4, <2>2
<1>7. Waits(s, q, pkts')
  BY <1>1, <1>2, <1>3, QueueType, WaitsInsert
<1> HIDE DEF q
<1>8. ASSUME NEW x \in Senders PROVE Waits(x, queue'[x], pkts')
  <2>1. CASE x = s
    BY <1>1, <1>3, <1>7, <2>1
  <2>2. CASE x # s
    <3>1. queue'[x] = queue[x]
      BY <1>1, <1>3, <2>2
    <3>2. Waits(x, queue[x], pkts) /\ \A i \in 1 .. Len(queue[x]) : queue[x][i] \in DOMAIN pkts
      BY QueueType
    <3>3. Waits(x, queue[x], pkts')
      BY <1>4, <3>2, WaitsKept
    <3> QED
      BY <3>1, <3>3
  <2> QED
    BY <2>1, <2>2
<1>9. queue' \in [Senders -> Seq(DOMAIN pkts')]
  <2>1. \A x \in Senders : queue'[x] \in Seq(DOMAIN pkts')
    BY <1>8 DEF Waits
  <2>2. queue' = [x \in Senders |-> queue'[x]]
    BY <1>1, <1>3
  <2> QED
    BY <2>1, <2>2
<1>10. Uncut'
  <2> SUFFICES ASSUME NEW p \in DOMAIN pkts', START \in pkts'[p].start_end
               PROVE  pkts'[p].psize = pkts'[p].total_length
    BY DEF Uncut
  <2>1. CASE p \in DOMAIN pkts
    BY <1>4, <2>1 DEF LinkInv, Uncut
  <2>2. CASE p \notin DOMAIN pkts
    <3>1. p = Len(pkts) + 1
      BY <1>3, <1>4, <2>2
    <3> QED
      BY <1>2, <1>4, <3>1
  <2> QED
    BY <2>1, <2>2
<1> QED
  BY <1>4, <1>5, <1>6, <1>8, <1>9, <1>10 DEF Queues

\* slotHandler fills a timeslot.
LEMMA SlotStep ==
    ASSUME LinkInv, NEW s \in Senders, NEW bs \in BurstSizes, NEW lost \in {FALSE, lossy},
           Slot(s, bs, lost)
    PROVE  /\ pkts' \in Seq(Packet) /\ Len(pkts') = Len(pkts) /\ DOMAIN pkts' = DOMAIN pkts
           /\ queue' \in [Senders -> Seq(DOMAIN pkts)]
           /\ next' \in [Senders -> [Prios -> 0 .. SeqnoMod - 1]]
           /\ air' \in [Senders -> Seq(SentBurst)] /\ BurstFits'
           /\ Queues' /\ Uncut'
<1> DEFINE k == Whole(s, bs)
           q == queue[s]
           burst == [size |-> bs, lost |-> lost, frags |-> Frags(s, bs)]
           row == [f \in Prios |-> (next[s][f] + Cardinality(Closing(s, f, k))) % SeqnoMod]
<1>1. /\ air' = [air EXCEPT ![s] = Append(air[s], burst)]
      /\ pkts' = Served(s, bs)
      /\ next' = [next EXCEPT ![s] = row]
      /\ queue' = [queue EXCEPT ![s] = SubSeq(q, k + 1, Len(q))]
  BY DEF Slot, Frags, First, Goes, Room, Served
<1>2. /\ queue \in [Senders -> Seq(DOMAIN pkts)] /\ air \in [Senders -> Seq(SentBurst)]
      /\ next \in [Senders -> [Prios -> 0 .. SeqnoMod - 1]] /\ lossy \in BOOLEAN /\ BurstFits
  BY LinkAssumption DEF LinkInv, TypeOK, Sent
<1>3. /\ pkts' \in Seq(Packet) /\ Len(pkts') = Len(pkts) /\ DOMAIN pkts' = DOMAIN pkts /\ Uncut'
  <2>1. /\ Served(s, bs) \in Seq(Packet) /\ DOMAIN Served(s, bs) = DOMAIN pkts
        /\ Len(Served(s, bs)) = Len(pkts)
        /\ \A p \in DOMAIN pkts : START \in Served(s, bs)[p].start_end =>
                                    Served(s, bs)[p].psize = Served(s, bs)[p].total_length
    BY ServedType
  <2> QED
    BY <1>1, <2>1 DEF Uncut
<1>4. burst \in SentBurst /\ BytesIn(burst.frags) <= burst.size
  <2>1. Frags(s, bs) \in Seq(SentFrag) /\ BytesIn(Frags(s, bs)) <= bs
    BY BurstType
  <2>2. lost \in BOOLEAN
    BY <1>2
  <2> QED
    BY <2>1, <2>2 DEF SentBurst
<1>5. row \in [Prios -> 0 .. SeqnoMod - 1]
  <2> SUFFICES ASSUME NEW f \in Prios
               PROVE  (next[s][f] + Cardinality(Closing(s, f, k))) % SeqnoMod \in 0 .. SeqnoMod - 1
    OBVIOUS
  <2>1. Cardinality(Closing(s, f, k)) \in Nat
    <3>1. Closing(s, f, k) \subseteq 1 .. k
      BY DEF Closing
    <3>2. k \in Nat
      BY RoomFits, QueueType
    <3>3. IsFiniteSet(1 .. k)
      BY <3>2, FS_Interval
    <3> QED
      BY <3>1, <3>3, FS_Subset, FS_CardinalityType
  <2>2. SeqnoMod \in Nat \ {0} /\ next[s][f] \in Nat
    <3>1. next[s][f] \in 0 .. SeqnoMod - 1
      BY <1>2
    <3> QED
      BY <3>1, LinkAssumption
  <2> DEFINE n == next[s][f] + Cardinality(Closing(s, f, k))
  <2>3. n \in Nat
    <3> DEFINE closing == Cardinality(Closing(s, f, k))
               nextSn  == next[s][f]
    <3>1. closing \in Nat /\ nextSn \in Nat
      BY <2>1, <2>2
    <3> HIDE DEF closing, nextSn
    <3>2. nextSn + closing \in Nat
      BY <3>1
    <3> QED
      BY <3>2 DEF closing, nextSn
  <2> HIDE DEF n
  <2>4. n % SeqnoMod \in 0 .. SeqnoMod - 1
    BY <2>2, <2>3
  <2> QED
    BY <2>4 DEF n
<1>6. ASSUME NEW x \in Senders PROVE Waits(x, queue'[x], pkts')
  <2>1. Waits(x, IF x = s THEN SubSeq(q, k + 1, Len(q)) ELSE queue[x], Served(s, bs))
    BY ServedQueues
  <2>2. queue'[x] = IF x = s THEN SubSeq(q, k + 1, Len(q)) ELSE queue[x]
    BY <1>1, <1>2
  <2> QED
    BY <1>1, <2>1, <2>2
<1>7. queue' \in [Senders -> Seq(DOMAIN pkts)]
  <2>1. \A x \in Senders : queue'[x] \in Seq(DOMAIN pkts)
    BY <1>3, <1>6 DEF Waits
  <2>2. queue' = [x \in Senders |-> queue'[x]]
    BY <1>1, <1>2
  <2> QED
    BY <2>1, <2>2
<1> HIDE DEF burst, row, k, q
<1>8. next' \in [Senders -> [Prios -> 0 .. SeqnoMod - 1]]
  BY <1>1, <1>2, <1>5
<1>9. air' \in [Senders -> Seq(SentBurst)]
  <2>1. Append(air[s], burst) \in Seq(SentBurst)
    BY <1>2, <1>4
  <2> QED
    BY <1>1, <1>2, <2>1
<1>10. BurstFits'
  <2> SUFFICES ASSUME NEW x \in Senders, NEW i \in DOMAIN air'[x]
               PROVE  BytesIn(air'[x][i].frags) <= air'[x][i].size
    BY DEF BurstFits
  <2>1. CASE x # s
    <3>1. air'[x] = air[x]
      BY <1>1, <1>2, <2>1
    <3> QED
      BY <1>2, <3>1 DEF BurstFits
  <2>2. CASE x = s
    <3>1. air'[s] = Append(air[s], burst) /\ air[s] \in Seq(SentBurst) /\ Len(air[s]) \in Nat
      BY <1>1, <1>2
    <3>2. i \in 1 .. Len(air[s]) + 1
      BY <2>2, <3>1, <1>4
    <3>3. CASE i = Len(air[s]) + 1
      <4>1. air'[x][i] = burst
        BY <2>2, <3>1, <3>3
      <4> QED
        BY <1>4, <4>1
    <3>4. CASE i # Len(air[s]) + 1
      <4>1. i \in DOMAIN air[s] /\ air'[x][i] = air[s][i]
        BY <2>2, <3>1, <3>2, <3>4
      <4> QED
        BY <1>2, <4>1 DEF BurstFits
    <3> QED
      BY <3>3, <3>4
  <2> QED
    BY <2>1, <2>2
<1> QED
  BY <1>3, <1>6, <1>7, <1>8, <1>9, <1>10 DEF Queues

\* A burst reaches the stations, or is lost.
LEMMA ArriveStep ==
    ASSUME LinkInv, NEW s \in Senders, Arrive(s)
    PROVE  /\ air' \in [Senders -> Seq(SentBurst)] /\ BurstFits'
           /\ ctx' \in [Receivers -> [Buckets -> SentContext]]
           /\ up' \in [Receivers -> Seq({NULL} \cup DOMAIN pkts)]
           /\ heard' \in [DOMAIN pkts -> Nat]
           /\ gap' \in [Receivers -> [Buckets -> BOOLEAN]]
           /\ inGap' \subseteq DOMAIN pkts
<1> DEFINE burst == Head(air[s])
           frags == Range(burst.frags)
<1>1. /\ air \in [Senders -> Seq(SentBurst)] /\ ctx \in [Receivers -> [Buckets -> SentContext]]
      /\ up \in [Receivers -> Seq({NULL} \cup DOMAIN pkts)] /\ heard \in [DOMAIN pkts -> Nat]
      /\ inGap \subseteq DOMAIN pkts /\ gap \in [Receivers -> [Buckets -> BOOLEAN]]
      /\ BurstFits /\ pkts \in Seq(Packet)
  BY DEF LinkInv, TypeOK, Sent
<1>2. air[s] \in Seq(SentBurst) /\ air[s] # << >> /\ air' = [air EXCEPT ![s] = Tail(air[s])]
  BY <1>1 DEF Arrive
<1>3. burst \in SentBurst /\ burst.frags \in Seq(SentFrag)
  <2>1. burst \in SentBurst
    BY <1>2
  <2> HIDE DEF burst
  <2> QED
    BY <2>1 DEF SentBurst
<1>4. \A fh \in frags : fh \in SentFrag /\ fh.alpdu \in DOMAIN pkts /\ fh.length \in Nat
  <2>1. \A fh \in frags : fh \in SentFrag
    BY <1>3 DEF Range
  <2> QED
    BY <2>1 DEF SentFrag, Frag
<1>5. air' \in [Senders -> Seq(SentBurst)]
  <2>1. Tail(air[s]) \in Seq(SentBurst)
    BY <1>2
  <2> QED
    BY <1>1, <1>2, <2>1
<1>6. BurstFits'
  <2> SUFFICES ASSUME NEW x \in Senders, NEW i \in DOMAIN air'[x]
               PROVE  BytesIn(air'[x][i].frags) <= air'[x][i].size
    BY DEF BurstFits
  <2>1. CASE x # s
    <3>1. air'[x] = air[x]
      BY <1>1, <1>2, <2>1
    <3> QED
      BY <1>1, <3>1 DEF BurstFits
  <2>2. CASE x = s
    <3>1. air'[s] = Tail(air[s]) /\ i \in 1 .. Len(air[s]) - 1
      BY <1>1, <1>2, <2>2
    <3>2. \A v \in Seq(SentBurst), j \in Nat :
            (v # << >> /\ j \in 1 .. Len(v) - 1) => j + 1 \in DOMAIN v /\ Tail(v)[j] = v[j + 1]
      OBVIOUS
    <3>3. i + 1 \in DOMAIN air[s] /\ Tail(air[s])[i] = air[s][i + 1]
      <4>1. i \in Nat
        BY <3>1
      <4> QED
        BY <1>2, <3>1, <3>2, <4>1, Zenon
    <3> QED
      BY <1>1, <2>2, <3>1, <3>3 DEF BurstFits
  <2> QED
    BY <2>1, <2>2
<1>7. ASSUME NEW d \in Receivers
      PROVE  /\ After(d, s, burst).ctx \in [Buckets -> SentContext]
             /\ After(d, s, burst).up \in Seq({NULL} \cup DOMAIN pkts)
  <2>1. [ctx |-> ctx[d], up |-> up[d]] \in Kept
    BY <1>1 DEF Kept
  <2> HIDE DEF burst
  <2>2. After(d, s, burst) \in Kept
    BY <1>1, <1>3, <2>1, AfterTyped
  <2> QED
    BY <2>2 DEF Kept
<1>8. gap' \in [Receivers -> [Buckets -> BOOLEAN]]
  <2> DEFINE Missed(d, b) == {fh \in Closes(s, burst, b) : burst.lost \/ pkts[fh.alpdu].dst # d}
             After2(d, b) == IF Missed(d, b) = {} /\ Closes(s, burst, b) # {} THEN FALSE
                             ELSE gap[d][b] \/ \E fh \in Missed(d, b) : ctx[d][b].pkt # fh.alpdu
  <2>1. gap' = [d \in Receivers |-> [b \in Buckets |-> After2(d, b)]]
    BY DEF Arrive
  <2>2. \A d \in Receivers, b \in Buckets : After2(d, b) \in BOOLEAN
    BY <1>1
  <2> HIDE DEF After2
  <2> QED
    BY <2>1, <2>2
<1>9. CASE burst.lost
  <2>1. UNCHANGED <<ctx, up, heard, inGap>>
    BY <1>9 DEF Arrive
  <2> QED
    BY <1>1, <1>5, <1>6, <1>8, <2>1
<1>10. CASE ~burst.lost
  <2> DEFINE Heard(p) == IF \E fh \in frags : fh.alpdu = p
                         THEN (CHOOSE fh \in frags : fh.alpdu = p).length ELSE 0
  <2>1. /\ ctx' = [d \in Receivers |-> After(d, s, burst).ctx]
        /\ up' = [d \in Receivers |-> After(d, s, burst).up]
        /\ heard' = [p \in DOMAIN heard |-> heard[p] + Heard(p)]
        /\ inGap' = inGap \cup
             {fh.alpdu : fh \in {x \in frags : /\ END \in x.start_end
                                  /\ gap[pkts[x.alpdu].dst][Bucket(s, x.frag_id)]}}
    BY <1>10 DEF Arrive
  <2>2. \A p : Heard(p) \in Nat
    <3> SUFFICES ASSUME NEW p, \E fh \in frags : fh.alpdu = p
                 PROVE  (CHOOSE fh \in frags : fh.alpdu = p).length \in Nat
      OBVIOUS
    <3> DEFINE it == CHOOSE fh \in frags : fh.alpdu = p
    <3>1. it \in frags
      OBVIOUS
    <3> HIDE DEF it
    <3> QED
      BY <1>4, <3>1 DEF it
  <2> HIDE DEF Heard, burst
  <2>3. heard' \in [DOMAIN pkts -> Nat]
    BY <1>1, <2>1, <2>2
  <2>4. inGap' \subseteq DOMAIN pkts
    BY <1>1, <1>4, <2>1
  <2>5. /\ ctx' \in [Receivers -> [Buckets -> SentContext]]
        /\ up' \in [Receivers -> Seq({NULL} \cup DOMAIN pkts)]
    BY <1>7, <2>1
  <2> QED
    BY <1>5, <1>6, <1>8, <2>3, <2>4, <2>5
<1> QED
  BY <1>9, <1>10

LEMMA LinkInvInit == Init => LinkInv
<1> SUFFICES ASSUME Init PROVE LinkInv
  OBVIOUS
<1>1. /\ lossy \in Losses /\ pkts = << >> /\ queue = [s \in Senders |-> << >>]
      /\ air = [s \in Senders |-> << >>] /\ up = [d \in Receivers |-> << >>]
      /\ heard = << >> /\ inGap = {}
  BY DEF Init
<1>2. /\ next \in [Senders -> [Prios -> 0 .. SeqnoMod - 1]]
      /\ gap \in [Receivers -> [Buckets -> BOOLEAN]]
      /\ ctx \in [Receivers -> [Buckets -> SentContext]]
  <2> DEFINE Follows(n, d) == n = 0 \/ d = CHOOSE r \in Receivers : TRUE
             exp(n, d) == IF Follows(n, d) THEN n ELSE n - 1
  <2>1. PICK n \in StartSeqnos, left \in LeftLen :
          /\ next = [s \in Senders |-> [f \in Prios |-> n]]
          /\ gap = [d \in Receivers |-> [b \in Buckets |-> ~Follows(n, d)]]
          /\ ctx = [d \in Receivers |-> [b \in Buckets |->
                      [pkt |-> NULL, len |-> left, exp_sn |-> exp(n, d)]]]
    BY DEF Init, InitSeqnos
  <2>2. n \in 0 .. SeqnoMod - 1 /\ n # 1 /\ left \in Nat /\ SeqnoMod \in Nat
    BY LinkAssumption
  <2>3. \A d \in Receivers : exp(n, d) \in 0 .. SeqnoMod - 1 /\ Follows(n, d) \in BOOLEAN
    BY <2>2
  <2> HIDE DEF exp, Follows
  <2>4. \A d \in Receivers : [pkt |-> NULL, len |-> left, exp_sn |-> exp(n, d)] \in SentContext
    BY <2>2, <2>3 DEF SentContext, Context
  <2> QED
    BY <2>1, <2>2, <2>3, <2>4
<1>3. DOMAIN pkts = {} /\ pkts \in Seq(Packet) /\ Len(pkts) = 0 /\ heard \in [DOMAIN pkts -> Nat]
  BY <1>1
<1>4. air \in [Senders -> Seq(SentBurst)] /\ BurstFits
  BY <1>1 DEF BurstFits
<1>5. Sent
  BY <1>2, <1>4 DEF Sent
<1>6. air \in [Senders -> Seq([size : BurstSizes, lost : BOOLEAN, frags : Seq(Frag)])]
  BY <1>1
<1>7. ctx \in [Receivers -> [Buckets -> Context]]
  <2>1. SentContext \subseteq Context
    BY DEF SentContext
  <2> QED
    BY <1>2, <2>1
<1>8. queue \in [Senders -> Seq(DOMAIN pkts)] /\ up \in [Receivers -> Seq({NULL} \cup DOMAIN pkts)]
  BY <1>1
<1>9. Len(pkts) <= MaxPackets /\ inGap \subseteq DOMAIN pkts
  BY <1>1, <1>3, LinkAssumption
<1>10. Queues
  <2>1. \A s \in Senders : queue[s] = << >> /\ queue[s] \in Seq(DOMAIN pkts)
    BY <1>1
  <2> QED
    BY <2>1 DEF Queues, Waits
<1>11. Uncut
  BY <1>3 DEF Uncut
<1>12. TypeOK
  BY <1>1, <1>2, <1>3, <1>4, <1>6, <1>7, <1>8, <1>9 DEF TypeOK
<1> QED
  BY <1>5, <1>10, <1>11, <1>12 DEF LinkInv

\* Every step of the link keeps the invariant.
LEMMA LinkInvStep == LinkInv /\ [Next]_vars => LinkInv'
<1> SUFFICES ASSUME LinkInv, [Next]_vars PROVE LinkInv'
  OBVIOUS
<1>1. /\ lossy \in Losses /\ pkts \in Seq(Packet) /\ Len(pkts) <= MaxPackets
      /\ queue \in [Senders -> Seq(DOMAIN pkts)] /\ next \in [Senders -> [Prios -> 0 .. SeqnoMod - 1]]
      /\ up \in [Receivers -> Seq({NULL} \cup DOMAIN pkts)] /\ heard \in [DOMAIN pkts -> Nat]
      /\ gap \in [Receivers -> [Buckets -> BOOLEAN]] /\ inGap \subseteq DOMAIN pkts
      /\ BurstFits /\ Queues /\ Uncut /\ Sent
  BY DEF LinkInv, TypeOK
\* The types of TypeOK that Sent implies.
<1>2. Sent' => /\ air' \in [Senders -> Seq([size : BurstSizes, lost : BOOLEAN, frags : Seq(Frag)])]
               /\ ctx' \in [Receivers -> [Buckets -> Context]]
  <2>1. SentFrag' \subseteq Frag /\ SentContext' \subseteq Context
    BY DEF SentFrag, SentContext, Frag, Context
  <2>2. Seq(SentBurst') \subseteq Seq([size : BurstSizes, lost : BOOLEAN, frags : Seq(Frag)])
    BY <2>1, BurstsTyped DEF SentBurst
  <2> QED
    BY <2>1, <2>2 DEF Sent
<1>3. ASSUME NEW s \in Senders, NEW d \in Receivers, NEW f \in Prios, NEW size \in Sizes,
             Send(s, d, f, size)
      PROVE  LinkInv'
  <2>1. UNCHANGED <<lossy, next, air, ctx, up, gap, inGap>>
    BY <1>3 DEF Send
  <2>2. /\ pkts' \in Seq(Packet) /\ Len(pkts') <= MaxPackets /\ DOMAIN pkts \subseteq DOMAIN pkts'
        /\ heard' \in [DOMAIN pkts' -> Nat] /\ queue' \in [Senders -> Seq(DOMAIN pkts')]
        /\ Queues' /\ Uncut'
    BY <1>3, SendStep
  <2>3. Sent'
    BY <1>1, <2>1, <2>2, SentGrows
  <2>4. up' \in [Receivers -> Seq({NULL} \cup DOMAIN pkts')] /\ inGap' \subseteq DOMAIN pkts'
    <3>1. Seq({NULL} \cup DOMAIN pkts) \subseteq Seq({NULL} \cup DOMAIN pkts')
      BY <2>2, SeqGrows
    <3> QED
      BY <1>1, <2>1, <2>2, <3>1
  <2>5. BurstFits'
    BY <1>1, <2>1 DEF BurstFits
  <2> QED
    BY <1>1, <1>2, <2>1, <2>2, <2>3, <2>4, <2>5 DEF LinkInv, TypeOK
<1>4. ASSUME NEW s \in Senders, NEW bs \in BurstSizes, NEW lost \in {FALSE, lossy}, Slot(s, bs, lost)
      PROVE  LinkInv'
  <2>1. UNCHANGED <<lossy, ctx, up, heard, gap, inGap>>
    BY <1>4 DEF Slot
  <2>2. /\ pkts' \in Seq(Packet) /\ Len(pkts') = Len(pkts) /\ DOMAIN pkts' = DOMAIN pkts
        /\ queue' \in [Senders -> Seq(DOMAIN pkts)]
        /\ next' \in [Senders -> [Prios -> 0 .. SeqnoMod - 1]]
        /\ air' \in [Senders -> Seq(SentBurst)] /\ BurstFits'
        /\ Queues' /\ Uncut'
    BY <1>4, SlotStep
  <2>3. Sent'
    BY <1>1, <2>1, <2>2 DEF Sent, SentBurst, SentFrag, SentContext
  <2> QED
    BY <1>1, <1>2, <2>1, <2>2, <2>3 DEF LinkInv, TypeOK
<1>5. ASSUME NEW s \in Senders, Arrive(s) PROVE LinkInv'
  <2>1. UNCHANGED <<lossy, pkts, queue, next>>
    BY <1>5 DEF Arrive
  <2>2. /\ air' \in [Senders -> Seq(SentBurst)] /\ BurstFits'
        /\ ctx' \in [Receivers -> [Buckets -> SentContext]]
        /\ up' \in [Receivers -> Seq({NULL} \cup DOMAIN pkts)]
        /\ heard' \in [DOMAIN pkts -> Nat]
        /\ gap' \in [Receivers -> [Buckets -> BOOLEAN]]
        /\ inGap' \subseteq DOMAIN pkts
    BY <1>5, ArriveStep
  <2>3. Sent'
    BY <2>1, <2>2 DEF Sent, SentBurst, SentFrag, SentContext
  <2>4. Queues' /\ Uncut'
    BY <1>1, <2>1 DEF Queues, Uncut, Waits
  <2> QED
    BY <1>1, <1>2, <2>1, <2>2, <2>3, <2>4 DEF LinkInv, TypeOK
<1>6. CASE UNCHANGED vars
  <2>1. UNCHANGED <<lossy, pkts, queue, next, air, ctx, up, heard, gap, inGap>>
    BY <1>6 DEF vars
  <2>2. Queues' /\ Uncut' /\ BurstFits'
    BY <1>1, <2>1 DEF Queues, Waits, Uncut, BurstFits
  <2>3. Sent'
    BY <1>1, <2>1 DEF Sent, SentBurst, SentFrag, SentContext
  <2> QED
    BY <1>1, <1>2, <2>1, <2>2, <2>3 DEF LinkInv, TypeOK
<1> QED
  BY <1>3, <1>4, <1>5, <1>6 DEF Next

-----------------------------------------------------------------------------
(* The theorems *)

THEOREM LinkInvariant == Spec => []LinkInv
<1> QED
  BY LinkInvInit, LinkInvStep, PTL DEF Spec

\* The state keeps its types, and slotHandler never puts more into a burst than the
\* timeslot holds, headers included.
THEOREM TypeCorrect == Spec => []TypeOK
<1>1. LinkInv => TypeOK
  BY DEF LinkInv
<1> QED
  BY <1>1, LinkInvariant, PTL

\* A packet of which slotHandler has sent a part stays the first of its priority in
\* the queue, so that the receivers can tell fragments apart by their priority.
THEOREM PartLeads == Spec => []PartialLeads
<1>1. LinkInv => PartialLeads
  <2> SUFFICES ASSUME LinkInv, NEW s \in Senders, NEW j \in DOMAIN queue[s],
                      START \notin pkts[queue[s][j]].start_end, NEW i \in 1 .. j - 1
               PROVE  pkts[queue[s][i]].frag_id # pkts[queue[s][j]].frag_id
    BY DEF PartialLeads
  <2>1. Waits(s, queue[s], pkts) /\ queue[s] \in Seq(DOMAIN pkts)
    BY QueueType
  <2>2. j \in 1 .. Len(queue[s]) /\ i \in 1 .. Len(queue[s]) /\ i < j
    BY <2>1
  <2> QED
    BY <2>1, <2>2 DEF Waits
<1> QED
  BY <1>1, LinkInvariant, PTL

-----------------------------------------------------------------------------
(* What reaches the network layer: the invariant                           *)
(*                                                                         *)
(* A flow is a sender and a priority; its fragmented packets are numbered  *)
(* in the order in which they came, and their closing fragments carry that *)
(* number, n for the packets sent before the run, modulo SeqnoMod.         *)

\* The fragmented packets of a flow before packet x.
Mate(p, s, f, pk) == pk[p].src = s /\ pk[p].frag_id = f
Fragmented(s, f, x, pk) == {r \in 1 .. x - 1 : Mate(r, s, f, pk) /\ START \notin pk[r].start_end}
Number(s, f, x, pk) == Cardinality(Fragmented(s, f, x, pk))

\* In the queue q the packets of a flow are in order, and the last ones of those sent.
InOrder(s, q, pk) ==
    /\ \A i, j \in 1 .. Len(q) : (i < j /\ pk[q[i]].frag_id = pk[q[j]].frag_id) => q[i] < q[j]
    /\ \A i \in 1 .. Len(q), r \in DOMAIN pk :
         (Mate(r, s, pk[q[i]].frag_id, pk) /\ r > q[i]) => r \in Range(q)

\* next counts the fragmented packets that do not wait any more.
Gone(s, f, q, pk) == {r \in DOMAIN pk : Mate(r, s, f, pk) /\ START \notin pk[r].start_end /\ r \notin Range(q)}
Numbered(s, q, pk, nx, n) == \A f \in Prios : nx[f] = (n + Cardinality(Gone(s, f, q, pk))) % SeqnoMod

\* The fragments in the channel a, but the first m of the first burst.
Spots(a, m) == {z \in (1 .. Len(a)) \X Nat :
                  z[2] \in 1 .. Len(a[z[1]].frags) /\ (z[1] > 1 \/ z[2] > m)}
Spot(a, z) == a[z[1]].frags[z[2]]
Before(y, z) == y[1] < z[1] \/ (y[1] = z[1] /\ y[2] < z[2])

\* Packets that are not over: they wait, or their last fragment is in the channel; and
\* those whose first fragment is in the channel.
Ahead(a, q, m) == Range(q) \cup {Spot(a, z).alpdu : z \in {y \in Spots(a, m) : END \in Spot(a, y).start_end}}
Begins(a, m) == {Spot(a, z).alpdu : z \in {y \in Spots(a, m) : START \in Spot(a, y).start_end}}

\* The fragment fh of sender s, and its packet.
Genuine(fh, s, pk, n) ==
    LET p == fh.alpdu
    IN  /\ p \in DOMAIN pk /\ Mate(p, s, fh.frag_id, pk)
        /\ fh.start_end = {START, END} <=> START \in pk[p].start_end
        /\ fh.start_end = {START, END} => fh.length = pk[p].total_length
        /\ fh.start_end = {END} => fh.seqno = (n + Number(s, fh.frag_id, p, pk)) % SeqnoMod
        /\ fh.length > 0

\* It comes before the packets of its flow that wait, but for the rest of its own.
Leads(fh, q, pk) ==
    \A i \in 1 .. Len(q) : pk[q[i]].frag_id = fh.frag_id =>
        fh.alpdu <= q[i] /\ (fh.alpdu = q[i] => END \notin fh.start_end)

\* Two fragments: x comes before y, in an earlier burst or not.
InTurn(x, y, earlier) ==
    x.frag_id = y.frag_id =>
        /\ x.alpdu <= y.alpdu
        /\ x.alpdu = y.alpdu => earlier /\ END \notin x.start_end /\ START \notin y.start_end

Stream(s, a, q, pk, n) ==
    /\ \A z \in Spots(a, 0) : /\ Genuine(Spot(a, z), s, pk, n) /\ Leads(Spot(a, z), q, pk)
                              /\ Spot(a, z).alpdu \in Ahead(a, q, 0)
    /\ \A y, z \in Spots(a, 0) : Before(y, z) => InTurn(Spot(a, y), Spot(a, z), y[1] < z[1])

\* Bytes of packet p in the first m fragments of a burst.
Part(frags, m, p) ==
    IF \E i \in 1 .. m : frags[i].alpdu = p
    THEN frags[CHOOSE i \in 1 .. m : frags[i].alpdu = p].length ELSE 0
Bytes(frags, p) == Part(frags, Len(frags), p)

\* off[k][p] bytes of packet p were sent before burst k of the channel.
Counts(off, s, a, q, pk, h) ==
    \A p \in DOMAIN pk : pk[p].src = s =>
        /\ \A k \in 1 .. Len(a) + 1 : off[k][p] \in Nat /\ off[k][p] <= pk[p].total_length
        /\ h[p] <= off[1][p]
        /\ \A k \in 1 .. Len(a) : off[k + 1][p] = off[k][p] + Bytes(a[k].frags, p)
        /\ off[Len(a) + 1][p] + (IF p \in Range(q) THEN pk[p].psize ELSE 0) = pk[p].total_length

\* What sender s has in its queue and in the channel.
Sending(s, q, a, nx, pk, h, n) ==
    /\ InOrder(s, q, pk)
    /\ Numbered(s, q, pk, nx, n)
    /\ Stream(s, a, q, pk, n)
    /\ \E off : Counts(off, s, a, q, pk, h)

\* A fragmented packet of a flow that station d has heard to the end.
Done(x, d, s, f, A, pk, h) ==
    /\ Mate(x, s, f, pk) /\ pk[x].dst = d /\ START \notin pk[x].start_end
    /\ h[x] = pk[x].total_length /\ x \notin A

\* The context c of station d for a flow stands at number e, when the packets in A are
\* not over and those in B have not begun: it has not got ahead of the sender, it is
\* past the packets that were heard to the end, and the packet it holds is the one in
\* progress, or was cut short by a loss.
Stands(e, c, d, s, f, A, B, pk, h, n) ==
    /\ e \in Int /\ n - 1 <= e /\ c.exp_sn = e % SeqnoMod
    /\ \A x \in DOMAIN pk : Done(x, d, s, f, A, pk, h) => n + Number(s, f, x, pk) + 1 <= e
    /\ e <= n + Number(s, f, Len(pk) + 1, pk)
    /\ \A x \in A : Mate(x, s, f, pk) => e <= n + Number(s, f, x, pk)
    /\ c.pkt # NULL =>
         /\ c.pkt \in DOMAIN pk /\ Mate(c.pkt, s, f, pk) /\ pk[c.pkt].dst = d
         /\ START \notin pk[c.pkt].start_end /\ c.pkt \notin B
         /\ e <= n + Number(s, f, c.pkt, pk)
         /\ c.pkt \in A => c.len <= h[c.pkt]
         /\ \A x \in A : Mate(x, s, f, pk) => c.pkt <= x

\* What station d has passed up.
Same(u, x, pk) == pk[u].src = pk[x].src /\ pk[u].frag_id = pk[x].frag_id
Promised(u, d, A, pk, h) ==
    /\ \A i \in 1 .. Len(u) :
         /\ u[i] \in DOMAIN pk /\ pk[u[i]].dst = d /\ h[u[i]] = pk[u[i]].total_length
         /\ \A x \in A[pk[u[i]].src] : Same(u[i], x, pk) => u[i] < x
    /\ \A i, j \in 1 .. Len(u) : (i < j /\ Same(u[i], u[j], pk)) => u[i] < u[j]

\* A station that holds the contexts r.ctx and has passed up r.up.
Receiving(d, r, A, B, pk, h, n) ==
    /\ \A s \in Senders, f \in Prios :
          \E e : Stands(e, r.ctx[Bucket(s, f)], d, s, f, A[s], B[s], pk, h, n)
    /\ Promised(Passed(r.up), d, A, pk, h)

NotOver == [s \in Senders |-> Ahead(air[s], queue[s], 0)]
NotBegun == [s \in Senders |-> Begins(air[s], 0)]
Promising(n) ==
    /\ \A s \in Senders : Sending(s, queue[s], air[s], next[s], pkts, heard, n)
    /\ \A d \in Receivers : Receiving(d, [ctx |-> ctx[d], up |-> up[d]], NotOver, NotBegun, pkts, heard, n)

PromiseInv ==
    /\ LinkInv
    /\ \A p \in DOMAIN pkts : pkts[p].total_length > 0 /\ pkts[p].psize > 0
    /\ \E n \in StartSeqnos : Promising(n)

-----------------------------------------------------------------------------
(* Numbers of packets *)

LEMMA NumberType ==
    ASSUME NEW s, NEW f, NEW pk, NEW x \in Nat
    PROVE  /\ IsFiniteSet(Fragmented(s, f, x, pk)) /\ Number(s, f, x, pk) \in Nat
           /\ x > 0 => Number(s, f, x, pk) <= x - 1
<1>1. Fragmented(s, f, x, pk) \subseteq 1 .. x - 1
  BY DEF Fragmented
<1>2. IsFiniteSet(1 .. x - 1) /\ (x > 0 => Cardinality(1 .. x - 1) = x - 1)
  <2>1. x - 1 \in Int /\ 1 \in Int
    OBVIOUS
  <2>2. IsFiniteSet(1 .. x - 1) /\ Cardinality(1 .. x - 1) = IF 1 > x - 1 THEN 0 ELSE (x - 1) - 1 + 1
    BY <2>1, FS_Interval
  <2> QED
    BY <2>2
<1>3. Cardinality(Fragmented(s, f, x, pk)) <= Cardinality(1 .. x - 1)
  BY <1>1, <1>2, FS_Subset
<1> QED
  BY <1>1, <1>2, <1>3, FS_Subset, FS_CardinalityType DEF Number

\* The number of a packet grows with its place, past a fragmented packet by one, and
\* with the packets that are cut.
LEMMA NumberGrows ==
    ASSUME NEW s, NEW f, NEW pk, NEW pk2, NEW x \in Nat, NEW y \in Nat,
           Fragmented(s, f, x, pk) \subseteq Fragmented(s, f, y, pk2)
    PROVE  Number(s, f, x, pk) <= Number(s, f, y, pk2)
BY NumberType, FS_Subset DEF Number

LEMMA NumberPasses ==
    ASSUME NEW s, NEW f, NEW pk, NEW x \in Nat \ {0}, NEW y \in Nat, x <= y
    PROVE  /\ Number(s, f, x, pk) <= Number(s, f, y, pk)
           /\ (x < y /\ Mate(x, s, f, pk) /\ START \notin pk[x].start_end)
                => Number(s, f, x, pk) + 1 <= Number(s, f, y, pk)
<1>1. Fragmented(s, f, x, pk) \subseteq Fragmented(s, f, y, pk)
  BY DEF Fragmented
<1>2. Number(s, f, x, pk) <= Number(s, f, y, pk)
  BY <1>1, NumberGrows
<1>3. ASSUME x < y, Mate(x, s, f, pk), START \notin pk[x].start_end
      PROVE  Number(s, f, x, pk) + 1 <= Number(s, f, y, pk)
  <2> DEFINE F == Fragmented(s, f, x, pk)
             G == Fragmented(s, f, y, pk)
  <2>1. x \notin F /\ F \cup {x} \subseteq G
    BY <1>1, <1>3 DEF Fragmented
  <2>2. IsFiniteSet(F) /\ IsFiniteSet(G)
    BY NumberType
  <2> HIDE DEF F, G
  <2>3. IsFiniteSet(F \cup {x}) /\ Cardinality(F \cup {x}) = Cardinality(F) + 1
    BY <2>1, <2>2, FS_AddElement
  <2>4. Cardinality(F \cup {x}) <= Cardinality(G)
    BY <2>1, <2>2, FS_Subset
  <2> QED
    BY <2>3, <2>4 DEF F, G, Number
<1> QED
  BY <1>2, <1>3

-----------------------------------------------------------------------------
(* A fragment reaches a station *)

\* The packets A are not over before fragment fh and A2 after it; likewise those that
\* have not begun, and the bytes heard.
Turn(fh, s, A, A2, B, B2, pk, h, h2, n) ==
    LET p == fh.alpdu
    IN  /\ Genuine(fh, s, pk, n)
        /\ p \in A /\ A \subseteq DOMAIN pk /\ A2 \subseteq A /\ B2 \subseteq B /\ p \notin B2
        /\ A \subseteq A2 \cup {p}
        /\ END \notin fh.start_end => p \in A2
        /\ \A x \in A : Mate(x, s, fh.frag_id, pk) => p <= x
        /\ END \in fh.start_end => p \notin A2
        /\ START \in fh.start_end => p \in B
        /\ \A x \in DOMAIN pk : /\ h[x] \in Nat /\ h2[x] <= pk[x].total_length
                                /\ h2[x] = h[x] + (IF x = p THEN fh.length ELSE 0)

\* A context and what was passed up when others' packets are over and bytes are heard.
LEMMA StandsKept ==
    ASSUME NEW e, NEW c, c.len \in Nat, NEW d, NEW s, NEW f, NEW A, NEW A2, NEW B, NEW B2,
           NEW pk, NEW h, NEW h2, NEW n,
           Stands(e, c, d, s, f, A, B, pk, h, n), A2 \subseteq A, B2 \subseteq B,
           \A x \in DOMAIN pk : h[x] \in Int /\ h2[x] \in Int /\ h[x] <= h2[x],
           \A x \in DOMAIN pk : Done(x, d, s, f, A2, pk, h2) => Done(x, d, s, f, A, pk, h)
    PROVE  Stands(e, c, d, s, f, A2, B2, pk, h2, n)
BY SMTT(30) DEF Stands

LEMMA PromisedKept ==
    ASSUME NEW u, NEW d, NEW A, NEW A2, NEW pk, NEW h, NEW h2,
           Promised(u, d, A, pk, h), \A p \in DOMAIN pk : A2[pk[p].src] \subseteq A[pk[p].src],
           \A x \in DOMAIN pk : h[x] = pk[x].total_length => h2[x] = pk[x].total_length
    PROVE  Promised(u, d, A2, pk, h2)
BY DEF Promised

\* One more packet is passed up, as the last of its flow that was begun.
LEMMA PromisedMore ==
    ASSUME NEW u, NEW d, NEW A, NEW pk, NEW h, u \in Seq(Nat), DOMAIN pk \subseteq Nat,
           Promised(u, d, A, pk, h),
           NEW p \in DOMAIN pk, pk[p].dst = d, h[p] = pk[p].total_length,
           \A x \in A[pk[p].src] : Same(p, x, pk) => p < x,
           \A i \in 1 .. Len(u) : Same(u[i], p, pk) => u[i] < p
    PROVE  Promised(Append(u, p), d, A, pk, h)
<1> DEFINE v == Append(u, p)
<1>1. /\ Len(u) \in Nat /\ Len(v) = Len(u) + 1 /\ v[Len(u) + 1] = p
      /\ \A i \in 1 .. Len(u) : v[i] = u[i]
  OBVIOUS
<1> HIDE DEF v
<1>2. ASSUME NEW i \in 1 .. Len(v)
      PROVE  /\ v[i] \in DOMAIN pk /\ pk[v[i]].dst = d /\ h[v[i]] = pk[v[i]].total_length
             /\ \A x \in A[pk[v[i]].src] : Same(v[i], x, pk) => v[i] < x
  <2>1. CASE i = Len(u) + 1
    BY <1>1, <2>1
  <2>2. CASE i # Len(u) + 1
    <3>1. i \in 1 .. Len(u) /\ v[i] = u[i]
      BY <1>1, <2>2
    <3> QED
      BY <3>1 DEF Promised
  <2> QED
    BY <2>1, <2>2
<1>3. ASSUME NEW i \in 1 .. Len(v), NEW j \in 1 .. Len(v), i < j, Same(v[i], v[j], pk)
      PROVE  v[i] < v[j]
  <2>1. i \in 1 .. Len(u) /\ v[i] = u[i]
    BY <1>1, <1>3
  <2>2. CASE j = Len(u) + 1
    BY <1>1, <1>3, <2>1, <2>2
  <2>3. CASE j # Len(u) + 1
    <3>1. j \in 1 .. Len(u) /\ v[j] = u[j]
      BY <1>1, <2>3
    <3> QED
      BY <1>3, <2>1, <3>1 DEF Promised
  <2> QED
    BY <2>2, <2>3
<1> QED
  BY <1>2, <1>3 DEF Promised, v

-----------------------------------------------------------------------------
(* The packets without NULL *)

PassedOn(r, p) == IF p = NULL THEN r ELSE Append(r, p)
IsPassed(c, q) ==
    /\ c \in [0 .. Len(q) -> Seq(Nat)] /\ c[0] = << >>
    /\ \A m \in 1 .. Len(q) : c[m] = PassedOn(c[m - 1], q[m])

LEMMA PassedChain ==
    ASSUME NEW q \in Seq(Nat)
    PROVE  \E c : IsPassed(c, q) /\ Passed(q) = c[Len(q)]
<1> DEFINE T == Seq(Nat)
           N == Len(q)
           g == [z \in T \X Nat |-> PassedOn(z[1], z[2])]
           IsSum(f) == f = [t \in SUBSET DOMAIN q |->
                              IF t = {} THEN << >> ELSE PassedOn(f[t \ {Max(t)}], q[Max(t)])]
<1>1. N \in Nat /\ DOMAIN q = 1 .. N /\ q \in Seq(Nat) /\ \A m \in 1 .. N : q[m] \in Nat
  OBVIOUS
<1>2. Passed(q) = (CHOOSE f : IsSum(f))[1 .. N]
  BY <1>1 DEF Passed, FoldLeft, MapThenFoldSet, PassedOn
<1>3. \A r \in T, p \in Nat : PassedOn(r, p) \in T
  BY DEF PassedOn
<1>4. g \in [T \X Nat -> T] /\ \A r \in T, p \in Nat : g[<<r, p>>] = PassedOn(r, p)
  <2>1. \A z \in T \X Nat : PassedOn(z[1], z[2]) \in T
    <3> SUFFICES ASSUME NEW z \in T \X Nat PROVE PassedOn(z[1], z[2]) \in T
      OBVIOUS
    <3>1. z[1] \in T /\ z[2] \in Nat
      OBVIOUS
    <3> HIDE DEF T
    <3> QED
      BY <1>3, <3>1
  <2> HIDE DEF T
  <2> QED
    BY <2>1
<1>5. << >> \in T
  OBVIOUS
<1> HIDE DEF g, N, T
<1>6. PICK f \in [SUBSET (1 .. N) -> T] : IsFold(f, g, << >>, q, N)
  <2>1. \E f \in [SUBSET (1 .. Len(q)) -> T] : IsFold(f, g, << >>, q, Len(q))
    BY <1>1, <1>4, <1>5, FoldExists, Zenon
  <2> QED
    BY <2>1 DEF N
<1>7. IsSum(f)
  <2>1. ASSUME NEW t \in SUBSET (1 .. N)
        PROVE  f[t] = IF t = {} THEN << >> ELSE PassedOn(f[t \ {Max(t)}], q[Max(t)])
    <3>1. f[t] = FoldStep(f, g, << >>, q, t)
      BY <1>6 DEF IsFold
    <3>2. CASE t = {}
      BY <3>1, <3>2 DEF FoldStep
    <3>3. CASE t # {}
      <4>1. Max(t) \in 1 .. N /\ t \ {Max(t)} \in SUBSET (1 .. N)
        BY <1>1, <3>3, MaxInside
      <4>2. f[t \ {Max(t)}] \in T /\ q[Max(t)] \in Nat
        BY <1>1, <1>6, <4>1
      <4> QED
        BY <1>4, <3>1, <3>3, <4>2 DEF FoldStep
    <3> QED
      BY <3>2, <3>3
  <2>2. f = [t \in SUBSET (1 .. N) |-> f[t]]
    BY <1>6
  <2> QED
    BY <1>1, <2>1, <2>2
<1>8. PICK h : h = (CHOOSE e : IsSum(e)) /\ IsSum(h)
  <2> HIDE DEF IsSum
  <2> QED
    BY <1>7, Zenon
<1>9. \A t \in SUBSET (1 .. N) :
        h[t] = IF t = {} THEN << >> ELSE PassedOn(h[t \ {Max(t)}], q[Max(t)])
  BY <1>1, <1>8
<1>10. ASSUME NEW n \in 1 .. N PROVE h[1 .. n] = PassedOn(h[1 .. n - 1], q[n])
  <2>1. Max(1 .. n) = n /\ (1 .. n) \ {n} = 1 .. n - 1
    BY <1>1, MaxOfInterval
  <2>2. 1 .. n \in SUBSET (1 .. N) /\ 1 .. n # {}
    <3>1. n \in 1 .. n /\ \A x \in 1 .. n : x \in 1 .. N
      <4>1. n \in Nat /\ N \in Nat /\ 1 <= n /\ n <= N
        BY <1>1
      <4> QED
        BY <4>1
    <3> QED
      BY <3>1, Zenon
  <2> QED
    BY <1>9, <2>1, <2>2
<1>11. h[1 .. 0] = << >>
  <2>1. 1 .. 0 = {} /\ {} \in SUBSET (1 .. N)
    OBVIOUS
  <2> QED
    BY <1>9, <2>1
<1> DEFINE c == [m \in 0 .. N |-> h[1 .. m]]
<1>12. ASSUME NEW m \in 0 .. N PROVE h[1 .. m] \in T
  <2> DEFINE Off == {n \in 0 .. N : h[1 .. n] \notin T}
  <2> SUFFICES ASSUME Off # {} PROVE FALSE
    OBVIOUS
  <2>1. PICK n \in Off : \A k \in Off : n <= k
    <3>1. Off \in SUBSET Nat
      BY <1>1
    <3> HIDE DEF Off
    <3> QED
      BY <3>1, LeastNumber, Zenon
  <2>2. n \in 0 .. N /\ h[1 .. n] \notin T
    BY <2>1
  <2>3. n # 0
    BY <1>5, <1>11, <2>2
  <2>4. n \in 1 .. N /\ n - 1 \in 0 .. N /\ n - 1 < n
    BY <1>1, <2>2, <2>3
  <2>5. h[1 .. n - 1] \in T
    <3>1. n - 1 \notin Off
      <4> HIDE DEF Off
      <4> QED
        BY <2>1, <2>4, <1>1
    <3> QED
      BY <2>4, <3>1
  <2> QED
    BY <1>1, <1>3, <1>10, <2>2, <2>4, <2>5, SMTT(30)
<1>13. IsPassed(c, q)
  <2>1. c \in [0 .. N -> T] /\ c[0] = << >>
    BY <1>1, <1>11, <1>12
  <2>2. ASSUME NEW m \in 1 .. N PROVE c[m] = PassedOn(c[m - 1], q[m])
    <3>1. m \in 0 .. N /\ m - 1 \in 0 .. N
      BY <1>1
    <3> QED
      BY <1>10, <3>1
  <2> HIDE DEF c
  <2> QED
    BY <2>1, <2>2 DEF IsPassed, N, T
<1>14. Passed(q) = c[N]
  <2>1. N \in 0 .. N
    BY <1>1
  <2> QED
    BY <1>2, <1>8, <2>1
<1> HIDE DEF c
<1> QED
  BY <1>13, <1>14 DEF N

LEMMA PassedAppend ==
    /\ Passed(<< >>) = << >>
    /\ \A q \in Seq(Nat), x \in Nat :
         /\ Passed(q) \in Seq(Nat)
         /\ Passed(Append(q, x)) = PassedOn(Passed(q), x)
<1>1. Passed(<< >>) = << >>
  <2>1. << >> \in Seq(Nat) /\ Len(<< >>) = 0
    OBVIOUS
  <2>2. PICK c : IsPassed(c, << >>) /\ Passed(<< >>) = c[Len(<< >>)]
    BY <2>1, PassedChain
  <2> QED
    BY <2>1, <2>2 DEF IsPassed
<1>2. ASSUME NEW q \in Seq(Nat), NEW x \in Nat
      PROVE  Passed(q) \in Seq(Nat) /\ Passed(Append(q, x)) = PassedOn(Passed(q), x)
  <2> DEFINE v == Append(q, x)
             N == Len(q)
  <2>1. /\ v \in Seq(Nat) /\ Len(v) = N + 1 /\ N \in Nat /\ v[N + 1] = x
        /\ \A m \in 1 .. N : v[m] = q[m]
    OBVIOUS
  <2> HIDE DEF v
  <2>2. PICK c : IsPassed(c, q) /\ Passed(q) = c[N]
    BY PassedChain
  <2>3. PICK e : IsPassed(e, v) /\ Passed(v) = e[N + 1]
    BY <2>1, PassedChain
  <2> HIDE DEF N
  <2>4. /\ c[0] = << >> /\ \A m \in 1 .. N : c[m] = PassedOn(c[m - 1], q[m])
        /\ c[N] \in Seq(Nat)
    <3>1. c \in [0 .. N -> Seq(Nat)] /\ N \in 0 .. N
      BY <2>1, <2>2 DEF IsPassed, N
    <3>2. c[0] = << >> /\ \A m \in 1 .. N : c[m] = PassedOn(c[m - 1], q[m])
      BY <2>2 DEF IsPassed, N
    <3> QED
      BY <3>1, <3>2
  <2>5. e[0] = << >> /\ \A m \in 1 .. N + 1 : e[m] = PassedOn(e[m - 1], v[m])
    BY <2>1, <2>3 DEF IsPassed
  <2>6. c[N] = e[N]
    <3> DEFINE Off == {n \in 0 .. N : c[n] # e[n]}
    <3> SUFFICES ASSUME Off # {} PROVE FALSE
      BY <2>1
    <3>1. PICK n \in Off : \A k \in Off : n <= k
      <4>1. Off \in SUBSET Nat
        BY <2>1
      <4> HIDE DEF Off
      <4> QED
        BY <4>1, LeastNumber, Zenon
    <3>2. n \in 0 .. N /\ c[n] # e[n]
      BY <3>1
    <3>3. n \in 1 .. N /\ n - 1 \in 0 .. N /\ n - 1 < n /\ n \in 1 .. N + 1
      BY <2>1, <2>4, <2>5, <3>2
    <3>4. c[n - 1] = e[n - 1]
      <4>1. n - 1 \notin Off
        <5> HIDE DEF Off
        <5> QED
          BY <3>1, <3>3, <2>1
      <4> QED
        BY <3>3, <4>1
    <3> QED
      BY <2>1, <2>4, <2>5, <3>2, <3>3, <3>4
  <2>7. e[N + 1] = PassedOn(e[N], x)
    <3>1. N + 1 \in 1 .. N + 1 /\ (N + 1) - 1 = N
      BY <2>1
    <3> QED
      BY <2>1, <2>5, <3>1
  <2> QED
    BY <2>2, <2>3, <2>4, <2>6, <2>7 DEF v, N
<1> QED
  BY <1>1, <1>2

\* v is u with more packets behind it.
Continues(u, v) == Len(u) <= Len(v) /\ \A i \in 1 .. Len(u) : v[i] = u[i]

LEMMA PassedContinues ==
    ASSUME NEW q \in Seq(Nat), NEW x \in Nat
    PROVE  Continues(Passed(q), Passed(Append(q, x)))
<1>1. Passed(q) \in Seq(Nat) /\ Passed(Append(q, x)) = PassedOn(Passed(q), x)
  BY PassedAppend
<1> DEFINE u == Passed(q)
<1> HIDE DEF u
<1>2. u \in Seq(Nat) => Continues(u, Append(u, x)) /\ Continues(u, u)
  BY DEF Continues
<1> QED
  BY <1>1, <1>2 DEF PassedOn, u

-----------------------------------------------------------------------------
(* One fragment *)

\* No station misses a whole round of the sequence numbers of a flow: a fragmented
\* packet is one of the first, or follows within a round another one of its flow that
\* the same station has heard to the end.
Reach(p, pk, h) ==
    LET s == pk[p].src
        f == pk[p].frag_id
    IN  START \notin pk[p].start_end =>
          \/ Number(s, f, p, pk) + 1 < SeqnoMod
          \/ \E x \in Fragmented(s, f, p, pk) :
               /\ pk[x].dst = pk[p].dst /\ h[x] = pk[x].total_length
               /\ Number(s, f, p, pk) <= Number(s, f, x, pk) + SeqnoMod
InReach == \A p \in DOMAIN pkts : Reach(p, pkts, heard)

\* The numbers of no two senders give them the same contexts.
OwnContexts == Senders \subseteq 0 .. 63

LEMMA BucketsApart ==
    ASSUME OwnContexts, NEW s \in Senders, NEW x \in Senders, NEW f \in Prios, NEW g \in Prios,
           Bucket(s, f) = Bucket(x, g)
    PROVE  s = x /\ f = g
<1>1. s \in 0 .. 63 /\ x \in 0 .. 63 /\ f \in 0 .. 7 /\ g \in 0 .. 7
  BY LinkAssumption DEF OwnContexts
<1>2. \A a \in 0 .. 63, b \in 0 .. 7 : (a * 8 + b) % 512 = a * 8 + b
  OBVIOUS
<1>3. Bucket(s, f) = s * 8 + f /\ Bucket(x, g) = x * 8 + g
  BY <1>1, <1>2 DEF Bucket, MAX_CNTS
<1>4. \A a, y \in 0 .. 63, b, z \in 0 .. 7 : a * 8 + b = y * 8 + z => a = y /\ b = z
  OBVIOUS
<1>5. s * 8 + f = x * 8 + g
  BY <1>3
<1> QED
  BY <1>1, <1>4, <1>5, ZenonT(30)

LEMMA SuccIs ==
    ASSUME NEW e \in Int, NEW x \in Int, x = e % SeqnoMod
    PROVE  Succ(x) = (e + 1) % SeqnoMod
<1>1. SeqnoMod \in Nat \ {0}
  BY LinkAssumption
<1> DEFINE K == SeqnoMod
<1>2. e = K * (e \div K) + x /\ e \div K \in Int /\ x \in 0 .. K - 1
  BY <1>1
<1> HIDE DEF K
<1> DEFINE y == e \div K
<1>3. K \in Nat /\ K > 0 /\ e = K * y + x /\ y \in Int /\ x \in 0 .. K - 1
  BY <1>1, <1>2 DEF K
<1> HIDE DEF y
<1>4. (x + 1) % K = (e + 1) % K
  <2>1. CASE x + 1 < K
    <3>1. e + 1 = K * y + (x + 1) /\ x + 1 \in 0 .. K - 1
      BY <1>3, <2>1
    <3>2. (e + 1) % K = x + 1 /\ (x + 1) % K = x + 1
      <4>1. e + 1 \in Int /\ x + 1 \in Int /\ x + 1 \in 0 .. K - 1 /\ K \in Nat \ {0}
        BY <1>3, <3>1
      <4>2. (e + 1) % K = x + 1
        BY <1>3, <3>1, <4>1, RemainderIs
      <4>3. (x + 1) % K = x + 1
        BY <4>1
      <4> QED
        BY <4>2, <4>3
    <3> QED
      BY <3>2
  <2>2. CASE ~(x + 1 < K)
    <3>1. x + 1 = K /\ e + 1 = K * (y + 1) /\ y + 1 \in Int
      BY <1>3, <2>2
    <3>2. (e + 1) % K = 0 /\ (x + 1) % K = 0
      BY <1>3, <3>1
    <3> QED
      BY <3>2
  <2> QED
    BY <2>1, <2>2
<1> QED
  BY <1>4 DEF Succ, K

\* Numbers of packets, and where a context may stand when p is the packet of fh.
LEMMA TurnNumbers ==
    ASSUME LinkInv, NEW n \in Nat, NEW fh, NEW s, NEW A, NEW A2, NEW B, NEW B2, NEW h, NEW h2,
           Turn(fh, s, A, A2, B, B2, pkts, h, h2, n)
    PROVE  LET p == fh.alpdu
               num(x) == Number(s, fh.frag_id, x, pkts)
           IN  /\ p \in DOMAIN pkts /\ DOMAIN pkts = 1 .. Len(pkts) /\ Len(pkts) \in Nat
               /\ \A x \in 1 .. Len(pkts) + 1 : num(x) \in Nat /\ num(x) <= x - 1
               /\ \A x, y \in 1 .. Len(pkts) + 1 : x <= y => num(x) <= num(y)
               /\ \A x, y \in 1 .. Len(pkts) + 1 :
                    (x < y /\ Mate(x, s, fh.frag_id, pkts) /\ START \notin pkts[x].start_end)
                      => num(x) + 1 <= num(y)
<1>1. pkts \in Seq(Packet)
  BY DEF LinkInv, TypeOK
<1>2. DOMAIN pkts = 1 .. Len(pkts) /\ Len(pkts) \in Nat /\ fh.alpdu \in DOMAIN pkts
  BY <1>1 DEF Turn, Genuine
<1>3. \A x \in 1 .. Len(pkts) + 1 : x \in Nat \ {0}
  BY <1>2
<1> QED
  BY <1>2, <1>3, NumberType, NumberPasses

\* What the station has heard to the end behind fh it had before, but for its packet.
LEMMA DoneBefore ==
    ASSUME NEW n, NEW fh, NEW d, NEW s, NEW A, NEW A2, NEW B, NEW B2, NEW h, NEW h2, NEW v, NEW g,
           NEW pk, Turn(fh, s, A, A2, B, B2, pk, h, h2, n),
           NEW x \in DOMAIN pk, x # fh.alpdu, Done(x, d, v, g, A2, pk, h2)
    PROVE  Done(x, d, v, g, A, pk, h)
<1>1. x \notin A
  BY DEF Turn, Done
<1>2. h2[x] = h[x] + 0 /\ h[x] \in Nat
  BY DEF Turn
<1> QED
  BY <1>1, <1>2 DEF Done

\* A fragment that does not end its packet, for the station.
LEMMA AddStands ==
    ASSUME LinkInv, NEW n \in Nat, NEW fh \in SentFrag, NEW d, NEW s \in Senders,
           NEW A, NEW A2, NEW B, NEW B2, NEW h, NEW h2, NEW c \in SentContext, NEW e,
           Turn(fh, s, A, A2, B, B2, pkts, h, h2, n), pkts[fh.alpdu].dst = d,
           Stands(e, c, d, s, fh.frag_id, A, B, pkts, h, n), END \notin fh.start_end
    PROVE  \E x : Stands(x, Add(c, fh), d, s, fh.frag_id, A2, B2, pkts, h2, n)
<1> DEFINE p == fh.alpdu
           f == fh.frag_id
           num(x) == Number(s, f, x, pkts)
           L == Len(pkts) + 1
<1>1. /\ p \in DOMAIN pkts /\ DOMAIN pkts = 1 .. Len(pkts) /\ Len(pkts) \in Nat
      /\ \A x \in 1 .. L : num(x) \in Nat /\ num(x) <= x - 1
      /\ \A x, y \in 1 .. L : x <= y => num(x) <= num(y)
      /\ \A x, y \in 1 .. L :
           (x < y /\ Mate(x, s, f, pkts) /\ START \notin pkts[x].start_end)
              => num(x) + 1 <= num(y)
  BY TurnNumbers
<1>2. /\ Mate(p, s, f, pkts) /\ p \in A /\ A \subseteq DOMAIN pkts /\ A2 \subseteq A
      /\ B2 \subseteq B /\ p \notin B2
      /\ \A x \in A : Mate(x, s, f, pkts) => p <= x
      /\ START \in fh.start_end => p \in B
      /\ START \notin pkts[p].start_end
      /\ \A x \in DOMAIN pkts : h[x] \in Nat /\ h2[x] = h[x] + (IF x = p THEN fh.length ELSE 0)
  <2>1. fh.start_end # {START, END}
    BY DEF START, END
  <2> QED
    BY <2>1 DEF Turn, Genuine
<1>3. /\ c.pkt \in {NULL} \cup DOMAIN pkts /\ c.exp_sn \in 0 .. SeqnoMod - 1 /\ c.len \in Nat
      /\ c = [pkt |-> c.pkt, exp_sn |-> c.exp_sn, len |-> c.len] /\ fh.length \in Nat
      /\ NULL \notin DOMAIN pkts
  BY <1>1 DEF SentContext, Context, SentFrag, Frag, NULL
<1>4. /\ e \in Int /\ n - 1 <= e /\ c.exp_sn = e % SeqnoMod /\ e <= n + num(L)
      /\ \A x \in DOMAIN pkts : Done(x, d, s, f, A, pkts, h) => n + num(x) + 1 <= e
      /\ \A x \in A : Mate(x, s, f, pkts) => e <= n + num(x)
      /\ c.pkt # NULL =>
           /\ c.pkt \in DOMAIN pkts /\ Mate(c.pkt, s, f, pkts) /\ pkts[c.pkt].dst = d
           /\ START \notin pkts[c.pkt].start_end /\ c.pkt \notin B
           /\ e <= n + num(c.pkt)
           /\ c.pkt \in A => c.len <= h[c.pkt]
           /\ \A x \in A : Mate(x, s, f, pkts) => c.pkt <= x
  BY DEF Stands
<1>5. \A x \in DOMAIN pkts : h[x] \in Nat /\ h2[x] \in Nat /\ h[x] <= h2[x]
  BY <1>2, <1>3
<1>6. \A x : x \in DOMAIN pkts => x \in 1 .. L /\ x < L /\ x \in Int
  BY <1>1
<1>7. L \in 1 .. L /\ SeqnoMod \in Nat \ {0}
  BY <1>1, LinkAssumption
<1>10. \A x \in DOMAIN pkts : Done(x, d, s, f, A2, pkts, h2) => n + num(x) + 1 <= e
  <2> SUFFICES ASSUME NEW x \in DOMAIN pkts, Done(x, d, s, f, A2, pkts, h2)
               PROVE  n + num(x) + 1 <= e
    OBVIOUS
  <2>1. p \in A2
    BY DEF Turn
  <2>2. x # fh.alpdu
    BY <2>1 DEF Done
  <2>3. Done(x, d, s, f, A, pkts, h)
    BY <2>2, DoneBefore
  <2> QED
    BY <1>4, <2>3
<1> HIDE DEF num, L, p, f
<1>8. CASE START \notin fh.start_end
  <2> DEFINE z == [c EXCEPT !.len = @ + fh.length]
  <2>1. Add(c, fh) = z
    BY <1>8 DEF Add, Open
  <2>2. z.pkt = c.pkt /\ z.exp_sn = c.exp_sn /\ z.len = c.len + fh.length
    BY <1>3
  <2> HIDE DEF z
  <2>3. c.pkt # NULL => (c.pkt \in A2 => z.len <= h2[c.pkt])
    <3> SUFFICES ASSUME c.pkt # NULL, c.pkt \in A2 PROVE z.len <= h2[c.pkt]
      OBVIOUS
    <3>1. c.pkt \in A /\ c.pkt \in DOMAIN pkts /\ c.pkt <= p /\ p <= c.pkt
      BY <1>2, <1>4
    <3>2. c.pkt = p
      BY <3>1, <1>1, <1>6
    <3> QED
      BY <1>2, <1>3, <1>4, <2>2, <3>1, <3>2
  <2>4. Stands(e, z, d, s, f, A2, B2, pkts, h2, n)
    BY <1>2, <1>4, <1>10, <2>2, <2>3 DEF Stands, num, L
  <2> QED
    BY <2>1, <2>4 DEF f
<1>9. CASE START \in fh.start_end
  <2> DEFINE e2 == IF c.pkt # NULL THEN e + 1 ELSE e
             z == [pkt |-> p, len |-> fh.length,
                   exp_sn |-> IF c.pkt # NULL THEN Succ(c.exp_sn) ELSE c.exp_sn]
  <2>1. Add(c, fh) = z
    BY <1>3, <1>9 DEF Add, Open, p
  <2>2. z.pkt = p /\ z.exp_sn = e2 % SeqnoMod /\ z.len = fh.length
    BY <1>3, <1>4, SuccIs
  <2> HIDE DEF z
  \* The packet of before is another one, which the context counts as fragmented.
  <2>3. e2 <= n + num(p) /\ e2 \in Int /\ n - 1 <= e2
    <3>1. CASE c.pkt = NULL
      BY <1>2, <1>4, <3>1
    <3>2. CASE c.pkt # NULL
      <4>1. c.pkt \in DOMAIN pkts /\ c.pkt # p /\ c.pkt <= p
        BY <1>2, <1>4, <1>9, <3>2
      <4>2. num(c.pkt) + 1 <= num(p) /\ num(c.pkt) \in Nat /\ num(p) \in Nat
        BY <1>1, <1>4, <1>6, <3>2, <4>1
      <4> QED
        BY <1>4, <3>2, <4>2
    <3> QED
      BY <3>1, <3>2
  <2>4. \A x \in 1 .. L : p <= x => e2 <= n + num(x)
    BY <1>1, <1>6, <2>3
  <2>5. e2 <= n + num(L)
    BY <1>1, <1>6, <1>7, <2>4
  <2>6. \A x \in A2 : Mate(x, s, f, pkts) => e2 <= n + num(x) /\ p <= x
    BY <1>2, <1>6, <2>4
  <2>7. fh.length <= h2[p]
    BY <1>1, <1>2, <1>3
  <2>9. \A x \in DOMAIN pkts : Done(x, d, s, f, A2, pkts, h2) => n + num(x) + 1 <= e2
    <3> SUFFICES ASSUME NEW x \in DOMAIN pkts, Done(x, d, s, f, A2, pkts, h2)
                 PROVE  n + num(x) + 1 <= e2
      OBVIOUS
    <3>1. n + num(x) + 1 <= e /\ num(x) \in Nat
      BY <1>1, <1>6, <1>10
    <3>2. e \in Int /\ (e2 = e \/ e2 = e + 1)
      BY <1>4
    <3> HIDE DEF e2
    <3> QED
      BY <3>1, <3>2
  <2> HIDE DEF e2
  <2>8. Stands(e2, z, d, s, f, A2, B2, pkts, h2, n)
    BY <1>1, <1>2, <2>2, <2>3, <2>5, <2>6, <2>7, <2>9 DEF Stands, num, L, p
  <2> QED
    BY <2>1, <2>8 DEF f
<1> QED
  BY <1>8, <1>9

\* The last fragment of a fragmented packet: where a context stands behind it.
LEMMA EndStands ==
    ASSUME LinkInv, NEW n \in Nat, NEW fh \in SentFrag, NEW d, NEW s \in Senders,
           NEW A, NEW A2, NEW B, NEW B2, NEW h, NEW h2, NEW c, NEW e0, NEW c0,
           Stands(e0, c0, d, s, fh.frag_id, A, B, pkts, h, n),
           Turn(fh, s, A, A2, B, B2, pkts, h, h2, n), fh.start_end = {END}, c.pkt = NULL,
           c.exp_sn = (n + Number(s, fh.frag_id, fh.alpdu, pkts) + 1) % SeqnoMod
    PROVE  \E x : Stands(x, c, d, s, fh.frag_id, A2, B2, pkts, h2, n)
<1> DEFINE p == fh.alpdu
           f == fh.frag_id
           num(x) == Number(s, f, x, pkts)
           L == Len(pkts) + 1
           e == n + num(p) + 1
<1>1. /\ p \in DOMAIN pkts /\ DOMAIN pkts = 1 .. Len(pkts) /\ Len(pkts) \in Nat
      /\ \A x \in 1 .. L : num(x) \in Nat /\ num(x) <= x - 1
      /\ \A x, y \in 1 .. L :
           (x < y /\ Mate(x, s, f, pkts) /\ START \notin pkts[x].start_end)
              => num(x) + 1 <= num(y)
  BY TurnNumbers
<1>2. /\ Mate(p, s, f, pkts) /\ A \subseteq DOMAIN pkts /\ A2 \subseteq A /\ p \notin A2
      /\ \A x \in A : Mate(x, s, f, pkts) => p <= x
      /\ START \notin pkts[p].start_end
  <2>1. fh.start_end # {START, END}
    BY DEF START, END
  <2> QED
    BY <2>1 DEF Turn, Genuine
<1>3. \A x : x \in DOMAIN pkts => x \in 1 .. L /\ x < L /\ x \in Int
  BY <1>1
<1>4. L \in 1 .. L
  BY <1>1
<1> HIDE DEF num, L, p, f
<1>5. e <= n + num(L) /\ e \in Int /\ n - 1 <= e
  BY <1>1, <1>2, <1>3, <1>4
<1>6. ASSUME NEW x \in A2, Mate(x, s, f, pkts) PROVE e <= n + num(x)
  <2>1. x \in DOMAIN pkts /\ x # p /\ p <= x
    BY <1>2, <1>6
  <2> QED
    BY <1>1, <1>2, <1>3, <2>1
<1>8. ASSUME NEW x \in DOMAIN pkts, Done(x, d, s, f, A2, pkts, h2)
      PROVE  n + num(x) + 1 <= e
  <2>1. CASE x = p
    BY <1>1, <1>3, <2>1
  <2>2. CASE x # p
    <3>1. Done(x, d, s, f, A, pkts, h)
      BY <1>8, <2>2, DoneBefore DEF p
    <3>2. n + num(x) + 1 <= e0 /\ e0 \in Int /\ e0 <= n + num(p)
      <4>1. p \in A
        BY DEF Turn, p
      <4> QED
        BY <1>2, <3>1, <4>1 DEF Stands, num, f
    <3>3. num(x) \in Nat /\ num(p) \in Nat
      BY <1>1, <1>3
    <3> QED
      BY <3>2, <3>3
  <2> QED
    BY <2>1, <2>2
<1>7. Stands(e, c, d, s, f, A2, B2, pkts, h2, n)
  <2>1. c.exp_sn = e % SeqnoMod
    BY DEF num, f, p
  <2> HIDE DEF e
  <2> QED
    BY <1>2, <1>5, <1>6, <1>8, <2>1 DEF Stands, num, L
<1> QED
  BY <1>7 DEF f

LEMMA DropStands ==
    ASSUME LinkInv, NEW n \in Nat, NEW fh \in SentFrag, NEW d, NEW s \in Senders,
           NEW A, NEW A2, NEW B, NEW B2, NEW h, NEW h2, NEW c \in SentContext, NEW e,
           Stands(e, c, d, s, fh.frag_id, A, B, pkts, h, n),
           Turn(fh, s, A, A2, B, B2, pkts, h, h2, n), fh.start_end = {END}
    PROVE  \E x : Stands(x, Drop(Add(c, fh), fh), d, s, fh.frag_id, A2, B2, pkts, h2, n)
<1> DEFINE z == Drop(Add(c, fh), fh)
           num == Number(s, fh.frag_id, fh.alpdu, pkts)
<1>1. fh.seqno = (n + num) % SeqnoMod /\ fh.seqno \in Int
  BY LinkAssumption DEF Turn, Genuine, SentFrag, Frag
<1>2. num \in Nat
  <2>1. fh.alpdu \in DOMAIN pkts /\ DOMAIN pkts = 1 .. Len(pkts) /\ Len(pkts) \in Nat
    BY TurnNumbers
  <2>2. fh.alpdu \in Nat
    BY <2>1
  <2> QED
    BY <2>2, NumberType
<1> HIDE DEF num
<1>3. Succ(fh.seqno) = (n + num + 1) % SeqnoMod
  <2>1. n + num \in Int
    BY <1>2
  <2> QED
    BY <1>1, <2>1, SuccIs
<1>4. z.pkt = NULL /\ z.exp_sn = Succ(fh.seqno)
  <2>1. Add(c, fh) = [c EXCEPT !.len = @ + fh.length]
    <3>1. START \notin fh.start_end
      BY DEF START, END
    <3> QED
      BY <3>1 DEF Add, Open
  <2>2. c = [pkt |-> c.pkt, exp_sn |-> c.exp_sn, len |-> c.len]
    BY DEF SentContext, Context
  <2> QED
    BY <2>1, <2>2 DEF Drop
<1> HIDE DEF z
<1>5. z.exp_sn = (n + Number(s, fh.frag_id, fh.alpdu, pkts) + 1) % SeqnoMod
  BY <1>3, <1>4 DEF num
<1>6. \E x : Stands(x, z, d, s, fh.frag_id, A2, B2, pkts, h2, n)
  BY <1>4, <1>5, EndStands
<1> QED
  BY <1>6 DEF z

\* What sendUp accepts is the packet of the fragment, all of which was heard.
Delivered(c, fh, d, s, A2, B2, h2, n) ==
    /\ \E x : Stands(x, Deliver(Add(c, fh)), d, s, fh.frag_id, A2, B2, pkts, h2, n)
    /\ Add(c, fh).pkt # NULL =>
         /\ Add(c, fh).pkt = fh.alpdu
         /\ h2[fh.alpdu] = pkts[fh.alpdu].total_length

LEMMA DeliverStands ==
    ASSUME LinkInv, NEW n \in Nat, NEW fh \in SentFrag, NEW d, NEW s \in Senders,
           NEW A, NEW A2, NEW B, NEW B2, NEW h, NEW h2, NEW c \in SentContext, NEW e,
           pkts[fh.alpdu].dst = d, Turn(fh, s, A, A2, B, B2, pkts, h, h2, n),
           Stands(e, c, d, s, fh.frag_id, A, B, pkts, h, n),
           fh.start_end = {END}, Accepts(Add(c, fh), fh), Reach(fh.alpdu, pkts, h)
    PROVE  Delivered(c, fh, d, s, A2, B2, h2, n)
<1> DEFINE p == fh.alpdu
           f == fh.frag_id
           num(x) == Number(s, f, x, pkts)
           L == Len(pkts) + 1
<1>1. /\ p \in DOMAIN pkts /\ DOMAIN pkts = 1 .. Len(pkts) /\ Len(pkts) \in Nat
      /\ \A x \in 1 .. L : num(x) \in Nat /\ num(x) <= x - 1
      /\ \A x, y \in 1 .. L :
           (x < y /\ Mate(x, s, f, pkts) /\ START \notin pkts[x].start_end)
              => num(x) + 1 <= num(y)
  BY TurnNumbers
<1>2. /\ Mate(p, s, f, pkts) /\ p \in A /\ A \subseteq DOMAIN pkts
      /\ \A x \in A : Mate(x, s, f, pkts) => p <= x
      /\ START \notin pkts[p].start_end
      /\ \A x \in DOMAIN pkts : /\ h[x] \in Nat /\ h2[x] <= pkts[x].total_length
                                /\ h2[x] = h[x] + (IF x = p THEN fh.length ELSE 0)
      /\ fh.seqno = (n + num(p)) % SeqnoMod
  <2>1. fh.start_end # {START, END}
    BY DEF START, END
  <2> QED
    BY <2>1 DEF Turn, Genuine
<1>3. /\ c.pkt \in {NULL} \cup DOMAIN pkts /\ c.exp_sn \in 0 .. SeqnoMod - 1 /\ c.len \in Nat
      /\ c = [pkt |-> c.pkt, exp_sn |-> c.exp_sn, len |-> c.len] /\ fh.length \in Nat
  BY DEF SentContext, Context, SentFrag, Frag
<1>4. /\ e \in Int /\ n - 1 <= e /\ c.exp_sn = e % SeqnoMod
      /\ \A x \in DOMAIN pkts : Done(x, d, s, f, A, pkts, h) => n + num(x) + 1 <= e
      /\ \A x \in A : Mate(x, s, f, pkts) => e <= n + num(x)
      /\ c.pkt # NULL =>
           /\ c.pkt \in DOMAIN pkts /\ Mate(c.pkt, s, f, pkts) /\ pkts[c.pkt].dst = d
           /\ START \notin pkts[c.pkt].start_end /\ c.pkt \notin B
           /\ e <= n + num(c.pkt)
           /\ c.pkt \in A => c.len <= h[c.pkt]
           /\ \A x \in A : Mate(x, s, f, pkts) => c.pkt <= x
  BY DEF Stands
<1>5. \A x : x \in DOMAIN pkts => x \in 1 .. L /\ x < L /\ x \in Int
  BY <1>1
<1>6. SeqnoMod \in Nat \ {0}
  BY LinkAssumption
<1> DEFINE z == Add(c, fh)
<1>7. z.pkt = c.pkt /\ z.exp_sn = c.exp_sn /\ z.len = c.len + fh.length
      /\ z = [pkt |-> z.pkt, exp_sn |-> z.exp_sn, len |-> z.len]
  <2>1. START \notin fh.start_end
    BY DEF START, END
  <2>2. z = [c EXCEPT !.len = @ + fh.length]
    BY <2>1 DEF Add, Open
  <2> HIDE DEF z
  <2> QED
    BY <1>3, <2>2
<1>8. z.len = pkts[p].total_length /\ z.exp_sn = fh.seqno
  BY DEF Accepts
<1>15. pkts[p].dst = d
  OBVIOUS
<1> HIDE DEF num, L, p, f, z
\* It is less than a round behind the packet.
<1>14. (n + num(p)) - e < SeqnoMod
  <2>1. \/ num(p) + 1 < SeqnoMod
        \/ \E x \in Fragmented(s, f, p, pkts) :
             /\ pkts[x].dst = pkts[p].dst /\ h[x] = pkts[x].total_length
             /\ num(p) <= num(x) + SeqnoMod
    BY <1>2 DEF Reach, num, p, f, Mate
  <2>2. num(p) \in Nat
    BY <1>1, <1>5
  <2>3. CASE num(p) + 1 < SeqnoMod
    BY <1>4, <1>6, <2>2, <2>3
  <2>4. ASSUME NEW x \in Fragmented(s, f, p, pkts),
               pkts[x].dst = pkts[p].dst, h[x] = pkts[x].total_length,
               num(p) <= num(x) + SeqnoMod
        PROVE  (n + num(p)) - e < SeqnoMod
    <3>1. /\ x \in DOMAIN pkts /\ x < p /\ Mate(x, s, f, pkts)
          /\ START \notin pkts[x].start_end
      BY <1>1 DEF Fragmented
    <3>2. x \notin A
      BY <1>1, <1>2, <3>1
    <3>3. Done(x, d, s, f, A, pkts, h)
      BY <2>4, <3>1, <3>2, <1>15 DEF Done
    <3>4. n + num(x) + 1 <= e /\ num(x) \in Nat
      BY <1>1, <1>4, <1>5, <3>1, <3>3
    <3> QED
      BY <1>4, <1>6, <2>2, <2>4, <3>4
  <2> QED
    BY <2>1, <2>3, <2>4
\* The context stands at the number of this packet.
<1>9. e = n + num(p)
  <2>1. num(p) \in Nat /\ num(p) <= p - 1 /\ p <= Len(pkts) /\ p \in Nat
    BY <1>1, <1>5
  <2>2. e <= n + num(p) /\ (n + num(p)) - e < SeqnoMod /\ n + num(p) \in Int
    <3>1. e <= n + num(p)
      BY <1>2, <1>4
    <3> QED
      BY <1>14, <2>1, <3>1
  <2>3. e % SeqnoMod = (n + num(p)) % SeqnoMod
    BY <1>2, <1>4, <1>7, <1>8
  <2> QED
    BY <1>4, <1>6, <2>2, <2>3, Congruent
<1>10. z.pkt # NULL => z.pkt = p /\ h2[p] = pkts[p].total_length
  <2> SUFFICES ASSUME c.pkt # NULL PROVE c.pkt = p /\ h2[p] = pkts[p].total_length
    BY <1>7
  <2>1. c.pkt \in DOMAIN pkts /\ c.pkt <= p /\ e <= n + num(c.pkt)
    BY <1>2, <1>4
  <2>2. c.pkt = p
    <3> SUFFICES ASSUME c.pkt # p PROVE FALSE
      OBVIOUS
    <3>1. num(c.pkt) + 1 <= num(p) /\ num(c.pkt) \in Nat /\ num(p) \in Nat
      BY <1>1, <1>4, <1>5, <2>1
    <3> QED
      BY <1>9, <2>1, <3>1
  <2>3. c.len <= h[p] /\ h2[p] = h[p] + fh.length /\ h2[p] <= pkts[p].total_length /\ h[p] \in Nat
    BY <1>1, <1>2, <1>4, <2>2
  <2>4. pkts[p].total_length = c.len + fh.length
    BY <1>7, <1>8
  <2> QED
    BY <1>3, <2>2, <2>3, <2>4
<1> DEFINE y == Deliver(z)
<1>11. y.pkt = NULL /\ y.exp_sn = (n + num(p) + 1) % SeqnoMod
  <2>1. y.pkt = NULL /\ y.exp_sn = Succ(z.exp_sn)
    BY <1>7 DEF Deliver
  <2>2. z.exp_sn = e % SeqnoMod /\ z.exp_sn \in Int
    BY <1>3, <1>4, <1>7, <1>6
  <2>3. Succ(z.exp_sn) = (e + 1) % SeqnoMod
    BY <1>4, <2>2, SuccIs
  <2> QED
    BY <1>9, <2>1, <2>3
<1> HIDE DEF y
<1>12. y.exp_sn = (n + Number(s, fh.frag_id, fh.alpdu, pkts) + 1) % SeqnoMod
  BY <1>11 DEF num, p, f
<1>13. \E x : Stands(x, y, d, s, fh.frag_id, A2, B2, pkts, h2, n)
  BY <1>11, <1>12, EndStands
<1> QED
  BY <1>10, <1>13 DEF Delivered, y, z, p

\* sendUp of a station for one fragment.
LEMMA DecodeReceives ==
    ASSUME LinkInv, OwnContexts, NEW n \in Nat, NEW d \in Receivers, NEW s \in Senders,
           NEW r \in Kept, NEW fh \in SentFrag, NEW A, NEW A2, NEW B, NEW B2, NEW h, NEW h2,
           Turn(fh, s, A[s], A2[s], B[s], B2[s], pkts, h, h2, n),
           \A x \in Senders : x # s => A2[x] = A[x] /\ B2[x] = B[x],
           Receiving(d, r, A, B, pkts, h, n), Reach(fh.alpdu, pkts, h)
    PROVE  /\ Receiving(d, Decode(d, s, r, fh), A2, B2, pkts, h2, n)
           /\ Continues(Passed(r.up), Passed(Decode(d, s, r, fh).up))
<1> DEFINE p == fh.alpdu
           f == fh.frag_id
           b == Bucket(s, f)
           c == r.ctx[b]
           z == Add(c, fh)
           u == Passed(r.up)
           Fits(y, x, g) == \E e : Stands(e, y, d, x, g, A2[x], B2[x], pkts, h2, n)
<1>1. /\ p \in DOMAIN pkts /\ pkts \in Seq(Packet) /\ DOMAIN pkts \subseteq Nat
      /\ f \in Prios /\ fh.start_end \in SUBSET {START, END} /\ fh.length \in Nat
  BY DEF SentFrag, Frag, LinkInv, TypeOK
<1>2. /\ r.ctx \in [Buckets -> SentContext] /\ r.up \in Seq(Nat)
      /\ r = [ctx |-> r.ctx, up |-> r.up]
  <2>1. r.up \in Seq({NULL} \cup DOMAIN pkts) /\ {NULL} \cup DOMAIN pkts \subseteq Nat
    BY <1>1 DEF Kept, NULL
  <2>2. Seq({NULL} \cup DOMAIN pkts) \subseteq Seq(Nat)
    BY <2>1, SeqGrows
  <2> QED
    BY <2>1, <2>2 DEF Kept
<1>3. \A x \in Senders, g \in Prios : Bucket(x, g) \in Buckets /\ r.ctx[Bucket(x, g)] \in SentContext
  BY <1>2 DEF Buckets
<1>4. u \in Seq(Nat) /\ Continues(u, u)
  <2>1. u \in Seq(Nat)
    BY <1>2, PassedAppend
  <2> HIDE DEF u
  <2> QED
    BY <2>1 DEF Continues
<1>5. /\ Genuine(fh, s, pkts, n) /\ p \in A[s] /\ A2[s] \subseteq A[s] /\ B2[s] \subseteq B[s]
      /\ \A x \in A[s] : Mate(x, s, f, pkts) => p <= x
      /\ A[s] \subseteq DOMAIN pkts
      /\ END \in fh.start_end => p \notin A2[s]
      /\ \A x \in DOMAIN pkts : /\ h[x] \in Nat /\ h2[x] <= pkts[x].total_length
                                /\ h2[x] = h[x] + (IF x = p THEN fh.length ELSE 0)
  BY DEF Turn
<1>6. \A x \in DOMAIN pkts : h[x] \in Nat /\ h2[x] \in Nat /\ h[x] <= h2[x] /\ pkts[x].total_length \in Nat
  BY <1>1, <1>5, PacketType
<1>7. \A x \in Senders : A2[x] \subseteq A[x] /\ B2[x] \subseteq B[x]
  BY <1>5
\* It ends a fragmented packet for the station.
<1> DEFINE Closed == pkts[p].dst = d /\ fh.start_end = {END}
<1>8. ASSUME NEW x \in Senders, NEW g \in Prios, ~(Closed /\ x = s /\ g = f)
      PROVE  Fits(r.ctx[Bucket(x, g)], x, g)
  <2>1. PICK e : Stands(e, r.ctx[Bucket(x, g)], d, x, g, A[x], B[x], pkts, h, n)
    BY DEF Receiving
  <2>2. r.ctx[Bucket(x, g)].len \in Nat
    BY <1>3 DEF SentContext, Context
  <2>3. \A k \in DOMAIN pkts : h[k] \in Int /\ h2[k] \in Int /\ h[k] <= h2[k]
    BY <1>6
  <2>5. \A k \in DOMAIN pkts : Done(k, d, x, g, A2[x], pkts, h2) => Done(k, d, x, g, A[x], pkts, h)
    <3> SUFFICES ASSUME NEW k \in DOMAIN pkts, Done(k, d, x, g, A2[x], pkts, h2)
                 PROVE  Done(k, d, x, g, A[x], pkts, h)
      OBVIOUS
    <3>1. CASE x = s /\ k # p
      BY <3>1, DoneBefore
    <3>2. CASE k = p
      <4>1. x = s /\ g = f
        BY <1>5, <3>2 DEF Done, Genuine, Mate
      <4>2. START \notin pkts[p].start_end /\ pkts[p].dst = d /\ p \notin A2[s]
        BY <3>2, <4>1 DEF Done
      <4>3. fh.start_end # {START, END} /\ END \in fh.start_end
        BY <1>5, <4>2 DEF Genuine, Turn
      <4>4. fh.start_end = {END}
        BY <1>1, <4>3
      <4> QED
        BY <1>8, <4>1, <4>2, <4>4
    <3>3. CASE x # s /\ k # p
      <4>1. A2[x] = A[x] /\ h2[k] = h[k] + 0 /\ h[k] \in Nat
        BY <1>5, <3>3
      <4> QED
        BY <4>1 DEF Done
    <3> QED
      BY <3>1, <3>2, <3>3
  <2>4. Stands(e, r.ctx[Bucket(x, g)], d, x, g, A2[x], B2[x], pkts, h2, n)
    BY <1>7, <2>1, <2>2, <2>3, <2>5, StandsKept
  <2> QED
    BY <2>4
<1>9. Promised(u, d, A2, pkts, h2) /\ Promised(u, d, A, pkts, h)
  <2>1. Promised(u, d, A, pkts, h)
    BY DEF Receiving
  <2>2. \A k \in DOMAIN pkts : A2[pkts[k].src] \subseteq A[pkts[k].src]
    BY <1>7, PacketType
  <2>3. \A k \in DOMAIN pkts : h[k] = pkts[k].total_length => h2[k] = pkts[k].total_length
    <3> SUFFICES ASSUME NEW k \in DOMAIN pkts, h[k] = pkts[k].total_length
                 PROVE  h2[k] = pkts[k].total_length
      OBVIOUS
    <3>1. h[k] \in Nat /\ h2[k] \in Nat /\ h[k] <= h2[k] /\ h2[k] <= pkts[k].total_length
      BY <1>5, <1>6
    <3> QED
      BY <3>1
  <2> HIDE DEF u
  <2> QED
    BY <2>1, <2>2, <2>3, PromisedKept
\* When a packet is passed up it is this one, the last of its flow that was begun.
<1>10. ASSUME pkts[p].dst = d, h2[p] = pkts[p].total_length, END \in fh.start_end
       PROVE  Promised(Append(u, p), d, A2, pkts, h2)
  <2>1. Mate(p, s, f, pkts)
    BY <1>5 DEF Genuine
  <2>2. \A x \in A2[pkts[p].src] : Same(p, x, pkts) => p < x
    <3> SUFFICES ASSUME NEW x \in A2[pkts[p].src], Same(p, x, pkts) PROVE p < x
      OBVIOUS
    <3>1. x \in A[s] /\ Mate(x, s, f, pkts) /\ x # p
      BY <1>5, <1>10, <2>1 DEF Same, Mate
    <3>2. p <= x /\ p \in Nat /\ x \in Nat
      BY <1>1, <1>5, <3>1
    <3> QED
      BY <3>1, <3>2
  <2>3. \A i \in 1 .. Len(u) : Same(u[i], p, pkts) => u[i] < p
    <3> SUFFICES ASSUME NEW i \in 1 .. Len(u), Same(u[i], p, pkts) PROVE u[i] < p
      OBVIOUS
    <3> HIDE DEF u
    <3>1. pkts[u[i]].src = s
      BY <2>1 DEF Same, Mate
    <3> QED
      BY <1>5, <1>9, <3>1 DEF Promised
  <2> HIDE DEF u
  <2> QED
    BY <1>1, <1>4, <1>9, <1>10, <2>2, <2>3, PromisedMore
\* A change of the context of the fragment's flow is seen by no other.
<1>11. ASSUME NEW y, Fits(y, s, f), NEW x \in Senders, NEW g \in Prios
       PROVE  Fits([r.ctx EXCEPT ![b] = y][Bucket(x, g)], x, g)
  <2>1. CASE Bucket(x, g) = b
    <3>1. x = s /\ g = f
      BY <1>1, <2>1, BucketsApart
    <3>2. [r.ctx EXCEPT ![b] = y][Bucket(x, g)] = y
      BY <1>2, <1>3, <2>1
    <3> QED
      BY <1>11, <3>1, <3>2
  <2>2. CASE Bucket(x, g) # b
    <3>1. [r.ctx EXCEPT ![b] = y][Bucket(x, g)] = r.ctx[Bucket(x, g)]
      BY <1>2, <1>3, <2>2
    <3>2. ~(x = s /\ g = f)
      BY <2>2
    <3> QED
      BY <1>8, <3>1, <3>2
  <2> QED
    BY <2>1, <2>2
<1>12. PICK e : Stands(e, c, d, s, f, A[s], B[s], pkts, h, n)
  BY <1>1 DEF Receiving
<1>13. c \in SentContext
  BY <1>1, <1>3
<1>14. z.pkt \in Nat
  <2>1. c.pkt \in Nat /\ c = [pkt |-> c.pkt, exp_sn |-> c.exp_sn, len |-> c.len]
    BY <1>1, <1>13 DEF SentContext, Context, NULL
  <2>2. p \in Nat
    BY <1>1
  <2> HIDE DEF c
  <2> QED
    BY <2>1, <2>2 DEF Add, Open
<1> DEFINE Result(q) == /\ \A x \in Senders, g \in Prios : Fits(q.ctx[Bucket(x, g)], x, g)
                        /\ Promised(Passed(q.up), d, A2, pkts, h2)
                        /\ Continues(u, Passed(q.up))
<1> HIDE DEF Fits
<1>15. {START, END} # {END} /\ END \in {START, END} /\ START # END
  BY DEF START, END
<1>16. CASE pkts[p].dst # d
  <2>1. Decode(d, s, r, fh) = r
    BY <1>16, Zenon DEF Decode
  <2>2. Result(r)
    BY <1>4, <1>8, <1>9, <1>16
  <2> QED
    BY <2>1, <2>2 DEF Receiving, Fits
<1>17. CASE pkts[p].dst = d /\ fh.start_end = {START, END}
  <2>1. Decode(d, s, r, fh) = [r EXCEPT !.up = Append(@, p)]
    BY <1>15, <1>17 DEF Decode
  <2> DEFINE q == [r EXCEPT !.up = Append(@, p)]
  <2>2. q.ctx = r.ctx /\ q.up = Append(r.up, p)
    BY <1>2
  <2>3. Passed(q.up) = Append(u, p)
    <3>1. p \in Nat /\ p # NULL
      BY <1>1 DEF NULL
    <3>2. Passed(Append(r.up, p)) = PassedOn(u, p)
      BY <1>2, <3>1, PassedAppend
    <3> QED
      BY <2>2, <3>1, <3>2 DEF PassedOn
  <2>4. h2[p] = pkts[p].total_length
    <3>1. fh.length = pkts[p].total_length
      BY <1>5, <1>17 DEF Genuine
    <3> QED
      BY <1>1, <1>5, <1>6, <3>1
  <2>5. Promised(Append(u, p), d, A2, pkts, h2)
    BY <1>10, <1>15, <1>17, <2>4
  <2>6. Continues(u, Append(u, p))
    <3> HIDE DEF u
    <3> QED
      BY <1>4 DEF Continues
  <2>8. ~Closed
    BY <1>15, <1>17
  <2> HIDE DEF q, u, Closed
  <2>7. Result(q)
    BY <1>8, <2>2, <2>3, <2>5, <2>6, <2>8
  <2> QED
    BY <2>1, <2>7 DEF Receiving, Fits, q, u
<1>18. CASE pkts[p].dst = d /\ END \notin fh.start_end
  <2>1. Decode(d, s, r, fh) = [r EXCEPT !.ctx[b] = z]
    BY <1>15, <1>18 DEF Decode
  <2>2. Fits(z, s, f)
    BY <1>12, <1>13, <1>18, AddStands DEF Fits
  <2> DEFINE q == [r EXCEPT !.ctx[b] = z]
  <2>3. q.ctx = [r.ctx EXCEPT ![b] = z] /\ q.up = r.up
    BY <1>2
  <2> HIDE DEF q, z, b
  <2>4. Result(q)
    BY <1>4, <1>9, <1>11, <2>2, <2>3
  <2> QED
    BY <2>1, <2>4 DEF Receiving, Fits, q, z, b
<1>19. CASE pkts[p].dst = d /\ fh.start_end = {END} /\ ~Accepts(z, fh)
  <2>1. Decode(d, s, r, fh) = [r EXCEPT !.ctx[b] = Drop(z, fh)]
    BY <1>15, <1>19 DEF Decode
  <2>2. Fits(Drop(z, fh), s, f)
    BY <1>12, <1>13, <1>19, DropStands DEF Fits
  <2> DEFINE y == Drop(z, fh)
             q == [r EXCEPT !.ctx[b] = y]
  <2> HIDE DEF y
  <2>3. q.ctx = [r.ctx EXCEPT ![b] = y] /\ q.up = r.up
    BY <1>2
  <2> HIDE DEF q, z, b
  <2>4. Result(q)
    BY <1>4, <1>9, <1>11, <2>2, <2>3 DEF y
  <2> QED
    BY <2>1, <2>4 DEF Receiving, Fits, q, y, z, b
<1>20. CASE pkts[p].dst = d /\ fh.start_end = {END} /\ Accepts(z, fh)
  <2>1. Decode(d, s, r, fh) = [ctx |-> [r.ctx EXCEPT ![b] = Deliver(z)], up |-> Append(r.up, z.pkt)]
    BY <1>15, <1>20 DEF Decode
  <2>2. /\ Fits(Deliver(z), s, f)
        /\ z.pkt # NULL => z.pkt = p /\ h2[p] = pkts[p].total_length
    <3>1. fh.start_end = {END} /\ Accepts(Add(c, fh), fh)
      BY <1>20
    <3> HIDE DEF c
    <3>2. Delivered(c, fh, d, s, A2[s], B2[s], h2, n)
      BY <1>12, <1>13, <1>20, <3>1, DeliverStands
    <3> QED
      BY <3>2 DEF Fits, Delivered
  <2> DEFINE y == Deliver(z)
             q == [ctx |-> [r.ctx EXCEPT ![b] = y], up |-> Append(r.up, z.pkt)]
  <2>3. q.ctx = [r.ctx EXCEPT ![b] = y] /\ q.up = Append(r.up, z.pkt)
    OBVIOUS
  <2>4. Passed(q.up) = PassedOn(u, z.pkt)
    BY <1>2, <1>14, <2>3, PassedAppend
  <2>5. Promised(Passed(q.up), d, A2, pkts, h2)
    <3>1. CASE z.pkt = NULL
      BY <1>9, <2>4, <3>1 DEF PassedOn
    <3>2. CASE z.pkt # NULL
      BY <1>10, <1>15, <1>20, <2>2, <2>4, <3>2 DEF PassedOn
    <3> QED
      BY <3>1, <3>2
  <2>6. Continues(u, Passed(q.up))
    BY <1>2, <1>14, <2>3, PassedContinues
  <2> HIDE DEF q, z, b, y
  <2>7. Result(q)
    BY <1>11, <2>2, <2>3, <2>5, <2>6 DEF y
  <2> QED
    BY <2>1, <2>7 DEF Receiving, Fits, q, y, z, b
<1> QED
  BY <1>1, <1>16, <1>17, <1>18, <1>19, <1>20

-----------------------------------------------------------------------------
(* A burst reaches a station *)

\* The first m fragments of the first burst are behind.
LEMMA SpotsAre ==
    ASSUME NEW a, Len(a) \in Nat \ {0}, \A k \in 1 .. Len(a) : Len(a[k].frags) \in Nat,
           NEW m \in 0 .. Len(a[1].frags)
    PROVE  /\ Spots(a, m) \subseteq Spots(a, 0)
           /\ \A z \in Spots(a, 0) :
                /\ z = <<z[1], z[2]>> /\ z[1] \in 1 .. Len(a) /\ z[2] \in 1 .. Len(a[z[1]].frags)
                /\ z \notin Spots(a, m) <=> (z[1] = 1 /\ z[2] <= m)
                /\ z \in Spots(a, m) <=> (z[1] > 1 \/ z[2] > m)
           /\ \A i \in 1 .. Len(a), j \in Nat : j \in 1 .. Len(a[i].frags) => <<i, j>> \in Spots(a, 0)
<1>1. ASSUME NEW z \in Spots(a, 0)
      PROVE  /\ z = <<z[1], z[2]>> /\ z[1] \in 1 .. Len(a) /\ z[2] \in 1 .. Len(a[z[1]].frags)
             /\ z \notin Spots(a, m) <=> (z[1] = 1 /\ z[2] <= m)
             /\ z \in Spots(a, m) <=> (z[1] > 1 \/ z[2] > m)
  <2>1. /\ z \in (1 .. Len(a)) \X Nat /\ z[2] \in 1 .. Len(a[z[1]].frags)
    BY DEF Spots
  <2>2. z = <<z[1], z[2]>> /\ z[1] \in 1 .. Len(a) /\ z[2] \in Nat
    BY <2>1
  <2>3. z \in Spots(a, m) <=> (z[1] > 1 \/ z[2] > m)
    BY <2>1 DEF Spots
  <2>4. z[1] \in Nat /\ z[1] >= 1 /\ m \in Nat
    BY <2>2
  <2> QED
    BY <2>1, <2>2, <2>3, <2>4
<1>2. \A i \in 1 .. Len(a), j \in Nat : j \in 1 .. Len(a[i].frags) => <<i, j>> \in Spots(a, 0)
  BY DEF Spots
<1>3. Spots(a, m) \subseteq Spots(a, 0)
  <2> SUFFICES ASSUME NEW z \in Spots(a, m) PROVE z \in Spots(a, 0)
    OBVIOUS
  <2>1. z \in (1 .. Len(a)) \X Nat /\ z[2] \in 1 .. Len(a[z[1]].frags) /\ z[2] > 0
    BY DEF Spots
  <2> QED
    BY <2>1 DEF Spots
<1> QED
  BY <1>1, <1>2, <1>3

\* What is not over yet goes on to be so until its last fragment is behind.
LEMMA StreamRest ==
    ASSUME NEW s, NEW a, NEW q, NEW pk, NEW n, Stream(s, a, q, pk, n),
           Len(a) \in Nat \ {0}, \A k \in 1 .. Len(a) : Len(a[k].frags) \in Nat,
           NEW m \in 0 .. Len(a[1].frags), NEW z \in Spots(a, m)
    PROVE  Spot(a, z).alpdu \in Ahead(a, q, m)
<1>1. z \in Spots(a, 0) /\ (z[1] > 1 \/ z[2] > m) /\ z[1] \in Nat /\ z[2] \in Nat
  BY SpotsAre
<1>2. Spot(a, z).alpdu \in Ahead(a, q, 0) /\ Genuine(Spot(a, z), s, pk, n)
  BY <1>1 DEF Stream
<1>3. ASSUME NEW y \in Spots(a, 0), END \in Spot(a, y).start_end, Spot(a, y).alpdu = Spot(a, z).alpdu
      PROVE  y \in Spots(a, m)
  <2> SUFFICES ASSUME y \notin Spots(a, m) PROVE FALSE
    OBVIOUS
  <2>1. y[1] = 1 /\ y[2] <= m /\ y[2] \in Nat
    BY SpotsAre
  <2>2. z[1] >= 1
    BY <1>1, SpotsAre
  <2>3. Before(y, z)
    BY <1>1, <2>1, <2>2 DEF Before
  <2>4. InTurn(Spot(a, y), Spot(a, z), y[1] < z[1])
    BY <1>1, <2>3 DEF Stream
  <2>5. Spot(a, y).frag_id = Spot(a, z).frag_id
    BY <1>2, <1>3 DEF Stream, Genuine, Mate
  <2> QED
    BY <1>3, <2>4, <2>5 DEF InTurn
<1> QED
  BY <1>2, <1>3 DEF Ahead

\* Bytes of the packets in the first fragments of a burst, where none comes twice.
LEMMA PartIs ==
    ASSUME NEW frags, Len(frags) \in Nat,
           \A i, j \in 1 .. Len(frags) : frags[i].alpdu = frags[j].alpdu => i = j,
           NEW m \in 0 .. Len(frags)
    PROVE  /\ \A i \in 1 .. m : Part(frags, m, frags[i].alpdu) = frags[i].length
           /\ \A p : (\A i \in 1 .. m : frags[i].alpdu # p) => Part(frags, m, p) = 0
<1>1. ASSUME NEW i \in 1 .. m PROVE Part(frags, m, frags[i].alpdu) = frags[i].length
  <2> DEFINE p == frags[i].alpdu
             j == CHOOSE k \in 1 .. m : frags[k].alpdu = p
  <2>1. j \in 1 .. m /\ frags[j].alpdu = p
    OBVIOUS
  <2>2. Part(frags, m, p) = frags[j].length
    BY DEF Part
  <2> HIDE DEF j
  <2>3. j = i
    BY <2>1
  <2> QED
    BY <2>2, <2>3
<1>2. ASSUME NEW p, \A i \in 1 .. m : frags[i].alpdu # p PROVE Part(frags, m, p) = 0
  BY <1>2 DEF Part
<1> QED
  BY <1>1, <1>2

LEMMA PartGrows ==
    ASSUME NEW frags, Len(frags) \in Nat,
           \A i, j \in 1 .. Len(frags) : frags[i].alpdu = frags[j].alpdu => i = j,
           \A i \in 1 .. Len(frags) : frags[i].length \in Nat,
           NEW m \in 1 .. Len(frags), NEW p
    PROVE  /\ Part(frags, m, p) = Part(frags, m - 1, p)
                + (IF p = frags[m].alpdu THEN frags[m].length ELSE 0)
           /\ Part(frags, m - 1, p) \in Nat
           /\ Part(frags, m, p) <= Bytes(frags, p) /\ Bytes(frags, p) \in Nat
<1> DEFINE N == Len(frags)
<1>0. N \in Nat /\ m - 1 \in 0 .. N /\ m \in 0 .. N /\ N \in 0 .. N
  OBVIOUS
<1>1. CASE \A i \in 1 .. N : frags[i].alpdu # p
  <2>1. Part(frags, m, p) = 0 /\ Part(frags, m - 1, p) = 0 /\ Part(frags, N, p) = 0
    BY <1>0, <1>1, PartIs
  <2>2. p # frags[m].alpdu
    BY <1>1
  <2> QED
    BY <2>1, <2>2 DEF Bytes
<1>2. ASSUME NEW i \in 1 .. N, frags[i].alpdu = p
      PROVE  /\ Part(frags, m, p) = Part(frags, m - 1, p)
                    + (IF p = frags[m].alpdu THEN frags[m].length ELSE 0)
             /\ Part(frags, m - 1, p) \in Nat
             /\ Part(frags, m, p) <= Bytes(frags, p) /\ Bytes(frags, p) \in Nat
  <2> DEFINE Bit(k) == IF i <= k THEN frags[i].length ELSE 0
  <2>1. ASSUME NEW k \in 0 .. N PROVE Part(frags, k, p) = Bit(k)
    <3>1. CASE i <= k
      BY <1>2, <3>1, PartIs
    <3>2. CASE ~(i <= k)
      <4>1. \A x \in 1 .. k : frags[x].alpdu # p
        BY <1>2, <3>2
      <4> QED
        BY <3>2, <4>1, PartIs
    <3> QED
      BY <3>1, <3>2
  <2>2. frags[i].length \in Nat /\ (p = frags[m].alpdu <=> i = m)
    BY <1>2
  <2> QED
    BY <1>0, <2>1, <2>2 DEF Bytes
<1> QED
  BY <1>1, <1>2

LEMMA AirType ==
    ASSUME LinkInv, NEW s \in Senders
    PROVE  /\ Len(air[s]) \in Nat
           /\ \A k \in 1 .. Len(air[s]) :
                /\ air[s][k] \in SentBurst
                /\ air[s][k].frags \in Seq(SentFrag) /\ Len(air[s][k].frags) \in Nat
                /\ \A i \in 1 .. Len(air[s][k].frags) :
                     air[s][k].frags[i] \in SentFrag /\ air[s][k].frags[i].length \in Nat
<1>1. air[s] \in Seq(SentBurst)
  BY DEF LinkInv, Sent
<1>2. \A fh \in SentFrag : fh.length \in Nat
  BY DEF SentFrag, Frag
<1>3. \A b \in SentBurst : /\ b.frags \in Seq(SentFrag) /\ Len(b.frags) \in Nat
                           /\ \A i \in 1 .. Len(b.frags) : b.frags[i] \in SentFrag
  BY DEF SentBurst
<1> QED
  BY <1>1, <1>2, <1>3

\* No packet comes twice in a burst.
LEMMA OncePerBurst ==
    ASSUME NEW s, NEW a, NEW q, NEW pk, NEW n, Stream(s, a, q, pk, n), Len(a) \in Nat,
           NEW k \in 1 .. Len(a), Len(a[k].frags) \in Nat,
           NEW i \in 1 .. Len(a[k].frags), NEW j \in 1 .. Len(a[k].frags),
           a[k].frags[i].alpdu = a[k].frags[j].alpdu
    PROVE  i = j
<1>1. ASSUME NEW x \in 1 .. Len(a[k].frags), NEW y \in 1 .. Len(a[k].frags), x < y,
             a[k].frags[x].alpdu = a[k].frags[y].alpdu
      PROVE  FALSE
  <2> DEFINE v == <<k, x>>
             w == <<k, y>>
  <2>1. v \in Spots(a, 0) /\ w \in Spots(a, 0) /\ v[1] = k /\ w[1] = k /\ v[2] = x /\ w[2] = y
    BY DEF Spots
  <2>2. Spot(a, v) = a[k].frags[x] /\ Spot(a, w) = a[k].frags[y]
    BY <2>1 DEF Spot
  <2> HIDE DEF v, w
  <2>3. Before(v, w) /\ ~(v[1] < w[1])
    BY <1>1, <2>1 DEF Before
  <2>4. InTurn(Spot(a, v), Spot(a, w), v[1] < w[1])
    BY <2>1, <2>3 DEF Stream
  <2>5. Genuine(Spot(a, v), s, pk, n) /\ Genuine(Spot(a, w), s, pk, n)
    BY <2>1 DEF Stream
  <2>6. Spot(a, v).alpdu = Spot(a, w).alpdu /\ Spot(a, v).frag_id = Spot(a, w).frag_id
    BY <1>1, <2>2, <2>5 DEF Genuine, Mate
  <2> QED
    BY <2>3, <2>4, <2>6 DEF InTurn
<1> QED
  BY <1>1

\* What is not over, what has not begun and what was heard after m fragments of the
\* first burst of sender s.
AheadAt(s, m) == [x \in Senders |-> Ahead(air[x], queue[x], IF x = s THEN m ELSE 0)]
BeginsAt(s, m) == [x \in Senders |-> Begins(air[x], IF x = s THEN m ELSE 0)]
HeardAt(s, m) == [p \in DOMAIN pkts |-> heard[p] + Part(air[s][1].frags, m, p)]
SendingAll(n) == \A s \in Senders : Sending(s, queue[s], air[s], next[s], pkts, heard, n)

\* Of no packet more than its length was heard, with the first burst of s and before.
LEMMA HeardFits ==
    ASSUME LinkInv, NEW n, SendingAll(n), NEW s \in Senders, Len(air[s]) > 0,
           NEW m \in 1 .. Len(air[s][1].frags), NEW x \in DOMAIN pkts
    PROVE  LET fh == air[s][1].frags[m]
           IN  /\ HeardAt(s, m - 1)[x] \in Nat /\ HeardAt(s, m)[x] <= pkts[x].total_length
               /\ heard[x] <= HeardAt(s, m - 1)[x]
               /\ HeardAt(s, m)[x] = HeardAt(s, m - 1)[x] + (IF x = fh.alpdu THEN fh.length ELSE 0)
<1> DEFINE a == air[s]
           frags == a[1].frags
           fh == frags[m]
<1>0. m \in 1 .. Len(frags)
  OBVIOUS
<1>1. /\ Len(a) \in Nat /\ 1 \in 1 .. Len(a) /\ Len(frags) \in Nat
      /\ \A i \in 1 .. Len(frags) : frags[i].length \in Nat
  BY AirType, SMTT(30)
<1>2. Stream(s, a, queue[s], pkts, n)
  BY DEF SendingAll, Sending
<1>3. \A i, j \in 1 .. Len(frags) : frags[i].alpdu = frags[j].alpdu => i = j
  BY <1>1, <1>2, OncePerBurst
<1>4. /\ heard[x] \in Nat /\ pkts[x].src \in Senders /\ pkts[x].total_length \in Nat
      /\ Len(air[pkts[x].src]) \in Nat
  BY PacketType, AirType DEF LinkInv, TypeOK
<1>5. PICK off : Counts(off, pkts[x].src, air[pkts[x].src], queue[pkts[x].src], pkts, heard)
  BY <1>4 DEF SendingAll, Sending
<1>6. /\ heard[x] <= off[1][x] /\ off[1][x] \in Nat /\ off[1][x] <= pkts[x].total_length
  <2>1. 1 \in 1 .. Len(air[pkts[x].src]) + 1
    BY <1>4
  <2> QED
    BY <1>5, <2>1 DEF Counts
<1> DEFINE old == Part(frags, m - 1, x)
           new == Part(frags, m, x)
           more == IF x = fh.alpdu THEN fh.length ELSE 0
<1>7. /\ new = old + more /\ old \in Nat /\ new <= Bytes(frags, x) /\ Bytes(frags, x) \in Nat
      /\ more \in Nat
  <2>1. fh.length \in Nat
    BY <1>1
  <2>2. /\ Part(frags, m, x) = Part(frags, m - 1, x)
                + (IF x = frags[m].alpdu THEN frags[m].length ELSE 0)
        /\ Part(frags, m - 1, x) \in Nat
        /\ Part(frags, m, x) <= Bytes(frags, x) /\ Bytes(frags, x) \in Nat
    <3> HIDE DEF frags
    <3> QED
      BY <1>0, <1>1, <1>3, PartGrows, Zenon
  <2> QED
    BY <2>1, <2>2
<1>8. CASE pkts[x].src = s
  <2>1. 1 + 1 \in 1 .. Len(a) + 1 /\ 1 \in 1 .. Len(a)
    BY <1>1
  <2>2. /\ off[1 + 1][x] = off[1][x] + Bytes(frags, x) /\ off[1 + 1][x] <= pkts[x].total_length
    BY <1>5, <1>8, <2>1 DEF Counts
  <2>3. HeardAt(s, m)[x] = heard[x] + new /\ HeardAt(s, m - 1)[x] = heard[x] + old
    BY DEF HeardAt
  <2> HIDE DEF new, old, more, frags, a
  <2>4. heard[x] + new <= pkts[x].total_length
    BY <1>4, <1>6, <1>7, <2>2, SMTT(30)
  <2>5. /\ HeardAt(s, m - 1)[x] \in Nat /\ HeardAt(s, m)[x] <= pkts[x].total_length
        /\ heard[x] <= HeardAt(s, m - 1)[x]
        /\ HeardAt(s, m)[x] = HeardAt(s, m - 1)[x] + more
    BY <1>4, <1>7, <2>3, <2>4, SMTT(30)
  <2> QED
    BY <2>5 DEF more, frags, a
<1>9. CASE pkts[x].src # s
  <2>1. ASSUME NEW i \in 1 .. Len(frags) PROVE frags[i].alpdu # x
    <3>1. <<1, i>> \in Spots(a, 0) /\ Spot(a, <<1, i>>) = frags[i]
      BY <1>1 DEF Spots, Spot
    <3>2. Genuine(frags[i], s, pkts, n)
      BY <1>2, <3>1 DEF Stream
    <3> QED
      BY <1>9, <3>2 DEF Genuine, Mate
  <2>2. m \in 0 .. Len(frags) /\ m - 1 \in 0 .. Len(frags) /\ fh.alpdu # x
    BY <1>1, <2>1
  <2>3. new = 0 /\ old = 0
    <3>1. (\A i \in 1 .. m : frags[i].alpdu # x) /\ (\A i \in 1 .. m - 1 : frags[i].alpdu # x)
      BY <1>1, <2>1
    <3> HIDE DEF frags
    <3>2. \A k \in 0 .. Len(frags) : (\A i \in 1 .. k : frags[i].alpdu # x) => Part(frags, k, x) = 0
      BY <1>1, <1>3, PartIs
    <3> QED
      BY <2>2, <3>1, <3>2
  <2>4. HeardAt(s, m)[x] = heard[x] + new /\ HeardAt(s, m - 1)[x] = heard[x] + old
    BY DEF HeardAt
  <2> HIDE DEF new, old, frags, a
  <2> QED
    BY <1>4, <1>6, <2>2, <2>3, <2>4, SMTT(30) DEF frags, a
<1> QED
  BY <1>8, <1>9

LEMMA TurnIs ==
    ASSUME LinkInv, NEW n, SendingAll(n), NEW s \in Senders, Len(air[s]) > 0,
           NEW m \in 1 .. Len(air[s][1].frags)
    PROVE  Turn(air[s][1].frags[m], s, AheadAt(s, m - 1)[s], AheadAt(s, m)[s], BeginsAt(s, m - 1)[s],
                BeginsAt(s, m)[s], pkts, HeardAt(s, m - 1), HeardAt(s, m), n)
<1> DEFINE a == air[s]
           q == queue[s]
           frags == a[1].frags
           fh == frags[m]
           p == fh.alpdu
           v == <<1, m>>
           A == Ahead(a, q, m - 1)
           A2 == Ahead(a, q, m)
           B == Begins(a, m - 1)
           B2 == Begins(a, m)
<1>1. /\ Len(a) \in Nat \ {0} /\ Len(frags) \in Nat /\ m \in Nat /\ m - 1 \in 0 .. Len(frags)
      /\ m \in 0 .. Len(frags)
      /\ \A k \in 1 .. Len(a) : Len(a[k].frags) \in Nat
  BY AirType
<1>2. Stream(s, a, q, pkts, n)
  BY DEF SendingAll, Sending
<1> HIDE DEF a, q
<1>3. v \in Spots(a, 0) /\ v \in Spots(a, m - 1) /\ Spot(a, v) = fh /\ v[1] = 1 /\ v[2] = m
  BY <1>1 DEF Spots, Spot
<1> HIDE DEF v
<1>4. \A z \in Spots(a, m) :
        /\ z \in Spots(a, 0) /\ z \in Spots(a, m - 1) /\ InTurn(fh, Spot(a, z), v[1] < z[1])
  <2> SUFFICES ASSUME NEW z \in Spots(a, m)
               PROVE  z \in Spots(a, 0) /\ z \in Spots(a, m - 1) /\ InTurn(fh, Spot(a, z), v[1] < z[1])
    OBVIOUS
  <2>1. /\ z \in Spots(a, 0) /\ (z[1] > 1 \/ z[2] > m) /\ z[1] \in 1 .. Len(a) /\ z[2] \in Nat
    BY <1>1, SpotsAre
  <2>2. z \in Spots(a, m - 1)
    BY <1>1, <2>1, SpotsAre
  <2>3. Before(v, z)
    BY <1>1, <1>3, <2>1 DEF Before
  <2> QED
    BY <1>2, <1>3, <2>1, <2>2, <2>3 DEF Stream
<1>5. \A z \in Spots(a, m - 1) : z = v \/ z \in Spots(a, m)
  <2> SUFFICES ASSUME NEW z \in Spots(a, m - 1), z \notin Spots(a, m) PROVE z = v
    OBVIOUS
  <2>1. z \in Spots(a, 0) /\ z = <<z[1], z[2]>> /\ z[1] \in Nat /\ z[2] \in Nat
        /\ (z[1] > 1 \/ z[2] > m - 1) /\ z[1] = 1 /\ z[2] <= m
    BY <1>1, SpotsAre
  <2> QED
    BY <1>1, <2>1 DEF v
<1>6. Genuine(fh, s, pkts, n) /\ Leads(fh, q, pkts)
  BY <1>2, <1>3 DEF Stream
<1>7. p \in A
  BY <1>1, <1>2, <1>3, StreamRest
<1>8. \A z \in Spots(a, 0) : Genuine(Spot(a, z), s, pkts, n)
  BY <1>2 DEF Stream
<1>9. \A i \in 1 .. Len(q) : q[i] \in DOMAIN pkts
  BY QueueType DEF q
<1>10. Range(q) = {q[i] : i \in 1 .. Len(q)}
  <2>1. DOMAIN q = 1 .. Len(q)
    BY QueueType DEF q
  <2> QED
    BY <2>1 DEF Range
<1>11. A \subseteq DOMAIN pkts
  <2>1. \A z \in Spots(a, m - 1) : Spot(a, z).alpdu \in DOMAIN pkts
    BY <1>3, <1>4, <1>5, <1>8 DEF Genuine
  <2> QED
    BY <1>9, <1>10, <2>1 DEF Ahead
<1>12. A2 \subseteq A /\ B2 \subseteq B
  BY <1>4 DEF Ahead, Begins
<1>13. \A z \in Spots(a, m) : Spot(a, z).alpdu = p => /\ START \notin Spot(a, z).start_end
                                                      /\ END \notin fh.start_end
  <2> SUFFICES ASSUME NEW z \in Spots(a, m), Spot(a, z).alpdu = p
               PROVE  START \notin Spot(a, z).start_end /\ END \notin fh.start_end
    OBVIOUS
  <2>1. Genuine(Spot(a, z), s, pkts, n)
    BY <1>4, <1>8
  <2>2. Spot(a, z).frag_id = fh.frag_id
    BY <1>6, <2>1 DEF Genuine, Mate
  <2> QED
    BY <1>4, <2>2 DEF InTurn
<1>14. p \notin B2
  BY <1>13 DEF Begins
<1>15. END \in fh.start_end => p \notin A2
  <2>1. END \in fh.start_end => \A i \in 1 .. Len(q) : q[i] # p
    BY <1>6 DEF Leads, Genuine, Mate
  <2> QED
    BY <1>10, <1>13, <2>1 DEF Ahead
<1>16. START \in fh.start_end => p \in B
  BY <1>3 DEF Begins
<1>17. \A x \in A : Mate(x, s, fh.frag_id, pkts) => p <= x
  <2> SUFFICES ASSUME NEW x \in A, Mate(x, s, fh.frag_id, pkts) PROVE p <= x
    OBVIOUS
  <2>1. p \in Nat
    <3>1. p \in DOMAIN pkts /\ DOMAIN pkts \subseteq Nat
      BY <1>6, SMTT(30) DEF Genuine, LinkInv, TypeOK
    <3> QED
      BY <3>1
  <2>2. CASE x \in Range(q)
    BY <1>6, <1>10, <2>2 DEF Leads, Mate
  <2>3. ASSUME NEW z \in Spots(a, m - 1), x = Spot(a, z).alpdu PROVE p <= x
    <3>1. CASE z = v
      BY <1>3, <2>1, <2>3, <3>1
    <3>2. CASE z # v
      <4>1. z \in Spots(a, m) /\ Genuine(Spot(a, z), s, pkts, n)
        BY <1>4, <1>5, <1>8, <3>2
      <4>2. Spot(a, z).frag_id = fh.frag_id
        BY <2>3, <4>1 DEF Genuine, Mate
      <4> QED
        BY <1>4, <2>3, <4>1, <4>2 DEF InTurn
    <3> QED
      BY <3>1, <3>2
  <2> QED
    BY <2>2, <2>3 DEF Ahead
<1>18. \A x \in DOMAIN pkts :
         /\ HeardAt(s, m - 1)[x] \in Nat /\ HeardAt(s, m)[x] <= pkts[x].total_length
         /\ HeardAt(s, m)[x] = HeardAt(s, m - 1)[x] + (IF x = p THEN fh.length ELSE 0)
  BY HeardFits DEF a
<1>21. A \subseteq A2 \cup {p}
  <2> SUFFICES ASSUME NEW x \in A PROVE x \in A2 \cup {p}
    OBVIOUS
  <2>1. CASE x \in Range(q)
    BY <2>1 DEF Ahead
  <2>2. ASSUME NEW z \in Spots(a, m - 1), END \in Spot(a, z).start_end, x = Spot(a, z).alpdu
        PROVE  x \in A2 \cup {p}
    <3>1. CASE z = v
      BY <1>3, <2>2, <3>1
    <3>2. CASE z # v
      BY <1>5, <2>2, <3>2 DEF Ahead
    <3> QED
      BY <3>1, <3>2
  <2> QED
    BY <2>1, <2>2 DEF Ahead
<1>22. END \notin fh.start_end => p \in A2
  <2> SUFFICES ASSUME END \notin fh.start_end PROVE p \in A2
    OBVIOUS
  <2>1. CASE p \in Range(q)
    BY <2>1 DEF Ahead
  <2>2. ASSUME NEW z \in Spots(a, m - 1), END \in Spot(a, z).start_end, p = Spot(a, z).alpdu
        PROVE  p \in A2
    <3>1. z # v
      BY <1>3, <2>2
    <3> QED
      BY <1>5, <2>2, <3>1 DEF Ahead
  <2> QED
    BY <1>7, <2>1, <2>2 DEF Ahead
<1>19. /\ AheadAt(s, m - 1)[s] = A /\ AheadAt(s, m)[s] = A2
       /\ BeginsAt(s, m - 1)[s] = B /\ BeginsAt(s, m)[s] = B2
  BY DEF AheadAt, BeginsAt, a, q
<1> HIDE DEF A, A2, B, B2
<1>20. Turn(fh, s, A, A2, B, B2, pkts, HeardAt(s, m - 1), HeardAt(s, m), n)
  BY <1>6, <1>7, <1>11, <1>12, <1>14, <1>15, <1>16, <1>17, <1>18, <1>21, <1>22 DEF Turn
<1> QED
  BY <1>19, <1>20 DEF a

\* What was heard to the end stays so.
LEMMA ReachLater ==
    ASSUME LinkInv, NEW n, SendingAll(n), NEW s \in Senders, Len(air[s]) > 0,
           NEW m \in 1 .. Len(air[s][1].frags), NEW p \in DOMAIN pkts, Reach(p, pkts, heard)
    PROVE  Reach(p, pkts, HeardAt(s, m - 1))
<1>1. \A x \in DOMAIN pkts :
        heard[x] = pkts[x].total_length => HeardAt(s, m - 1)[x] = pkts[x].total_length
  <2> SUFFICES ASSUME NEW x \in DOMAIN pkts, heard[x] = pkts[x].total_length
               PROVE  HeardAt(s, m - 1)[x] = pkts[x].total_length
    OBVIOUS
  <2> DEFINE fh == air[s][1].frags[m]
             old == HeardAt(s, m - 1)[x]
             new == HeardAt(s, m)[x]
             more == IF x = fh.alpdu THEN fh.length ELSE 0
  <2>1. old \in Nat /\ new <= pkts[x].total_length /\ heard[x] <= old /\ new = old + more
    BY HeardFits
  <2>2. fh.length \in Nat /\ pkts[x].total_length \in Nat
    <3>1. 1 \in 1 .. Len(air[s])
      BY AirType
    <3> QED
      BY <3>1, AirType, PacketType
  <2>3. more \in Nat
    BY <2>2
  <2> HIDE DEF old, new, more, fh
  <2>4. old = pkts[x].total_length
    BY <2>1, <2>2, <2>3
  <2> QED
    BY <2>4 DEF old
<1>2. DOMAIN pkts = 1 .. Len(pkts) /\ Len(pkts) \in Nat
  BY DEF LinkInv, TypeOK
<1>3. Fragmented(pkts[p].src, pkts[p].frag_id, p, pkts) \subseteq DOMAIN pkts
  BY <1>2 DEF Fragmented
<1> QED
  BY <1>1, <1>3 DEF Reach

LEMMA ContinuesOn ==
    ASSUME NEW u \in Seq(Nat), NEW v \in Seq(Nat), NEW w \in Seq(Nat), Continues(u, v), Continues(v, w)
    PROVE  Continues(u, w)
<1>1. /\ Len(u) \in Nat /\ Len(v) \in Nat /\ Len(w) \in Nat /\ Len(u) <= Len(v) /\ Len(v) <= Len(w)
      /\ \A i \in 1 .. Len(u) : v[i] = u[i]
      /\ \A i \in 1 .. Len(v) : w[i] = v[i]
  BY DEF Continues
<1>2. \A i \in 1 .. Len(u) : i \in 1 .. Len(v)
  BY <1>1
<1> QED
  BY <1>1, <1>2 DEF Continues

LEMMA PassedType ==
    ASSUME LinkInv, NEW r \in Kept
    PROVE  r.up \in Seq(Nat) /\ Passed(r.up) \in Seq(Nat) /\ Continues(Passed(r.up), Passed(r.up))
<1>1. pkts \in Seq(Packet) /\ DOMAIN pkts \subseteq Nat
  BY DEF LinkInv, TypeOK
<1>2. r.up \in Seq({NULL} \cup DOMAIN pkts) /\ {NULL} \cup DOMAIN pkts \subseteq Nat
  BY <1>1 DEF Kept, NULL
<1>3. r.up \in Seq(Nat)
  BY <1>2, SeqGrows
<1>4. Passed(r.up) \in Seq(Nat)
  BY <1>3, PassedAppend
<1> DEFINE u == Passed(r.up)
<1> HIDE DEF u
<1>5. u \in Seq(Nat) => Continues(u, u)
  BY DEF Continues
<1> QED
  BY <1>3, <1>4, <1>5 DEF u

LEMMA BurstReceives ==
    ASSUME LinkInv, OwnContexts, InReach, NEW n \in Nat, SendingAll(n),
           NEW d \in Receivers, NEW s \in Senders, Len(air[s]) > 0,
           Receiving(d, [ctx |-> ctx[d], up |-> up[d]], NotOver, NotBegun, pkts, heard, n)
    PROVE  LET m == Len(air[s][1].frags)
               r == After(d, s, air[s][1])
           IN  /\ Receiving(d, r, AheadAt(s, m), BeginsAt(s, m), pkts, HeardAt(s, m), n)
               /\ Continues(Passed(up[d]), Passed(r.up))
<1> DEFINE burst == air[s][1]
           frags == burst.frags
           N == Len(frags)
           base == [ctx |-> ctx[d], up |-> up[d]]
<1>1. /\ N \in Nat /\ frags \in Seq(SentFrag) /\ \A i \in 1 .. N : frags[i] \in SentFrag
  <2>1. 1 \in 1 .. Len(air[s])
    BY AirType
  <2>2. frags \in Seq(SentFrag)
    BY <2>1, AirType
  <2> HIDE DEF frags
  <2> QED
    BY <2>2
<1>2. base \in Kept /\ pkts \in Seq(Packet) /\ base.up = up[d]
  BY DEF Kept, LinkInv, TypeOK, Sent
<1>3. PICK c : IsAfterwards(c, d, s, frags) /\ After(d, s, burst) = c[N]
  <2> HIDE DEF burst
  <2> QED
    BY <1>1, <1>2, AfterChain
<1>4. /\ c[0] = base /\ \A m \in 0 .. N : c[m] \in Kept
      /\ \A m \in 1 .. N : c[m] = Decode(d, s, c[m - 1], frags[m])
  BY <1>3 DEF IsAfterwards
<1> DEFINE Good(m) == /\ Receiving(d, c[m], AheadAt(s, m), BeginsAt(s, m), pkts, HeardAt(s, m), n)
                      /\ Continues(Passed(up[d]), Passed(c[m].up))
<1>5. Good(0)
  <2>1. AheadAt(s, 0) = NotOver /\ BeginsAt(s, 0) = NotBegun
    BY DEF AheadAt, BeginsAt, NotOver, NotBegun
  <2>2. HeardAt(s, 0) = heard
    <3>1. heard \in [DOMAIN pkts -> Nat]
      BY DEF LinkInv, TypeOK
    <3>2. \A p : Part(frags, 0, p) = 0
      BY DEF Part
    <3> HIDE DEF frags
    <3>3. HeardAt(s, 0) = [p \in DOMAIN pkts |-> heard[p] + Part(frags, 0, p)]
      BY DEF HeardAt, frags
    <3> QED
      BY <3>1, <3>2, <3>3
  <2>3. Continues(Passed(base.up), Passed(base.up))
    BY <1>2, PassedType
  <2> HIDE DEF base
  <2>4. Receiving(d, base, NotOver, NotBegun, pkts, heard, n)
    BY DEF base
  <2> QED
    BY <1>2, <1>4, <2>1, <2>2, <2>3, <2>4
<1>6. ASSUME NEW m \in 1 .. N, Good(m - 1) PROVE Good(m)
  <2> DEFINE r == c[m - 1]
             fh == frags[m]
  <2>1. r \in Kept /\ c[m] = Decode(d, s, r, fh) /\ fh \in SentFrag /\ c[m] \in Kept
    <3>1. m - 1 \in 0 .. N /\ m \in 0 .. N
      BY <1>1
    <3> QED
      BY <1>1, <1>4, <3>1
  <2>2. Turn(fh, s, AheadAt(s, m - 1)[s], AheadAt(s, m)[s], BeginsAt(s, m - 1)[s],
             BeginsAt(s, m)[s], pkts, HeardAt(s, m - 1), HeardAt(s, m), n)
    BY TurnIs
  <2>3. \A x \in Senders : x # s => /\ AheadAt(s, m)[x] = AheadAt(s, m - 1)[x]
                                    /\ BeginsAt(s, m)[x] = BeginsAt(s, m - 1)[x]
    BY DEF AheadAt, BeginsAt
  <2>4. Receiving(d, r, AheadAt(s, m - 1), BeginsAt(s, m - 1), pkts, HeardAt(s, m - 1), n)
    BY <1>6
  <2>7. Reach(fh.alpdu, pkts, HeardAt(s, m - 1))
    <3>1. fh.alpdu \in DOMAIN pkts
      BY <2>1 DEF SentFrag
    <3> QED
      BY <3>1, ReachLater DEF InReach
  <2> HIDE DEF r, fh
  <2>5. /\ Receiving(d, Decode(d, s, r, fh), AheadAt(s, m), BeginsAt(s, m), pkts, HeardAt(s, m), n)
        /\ Continues(Passed(r.up), Passed(Decode(d, s, r, fh).up))
    BY <2>1, <2>2, <2>3, <2>4, <2>7, DecodeReceives
  <2>6. Continues(Passed(up[d]), Passed(c[m].up))
    <3>1. /\ Passed(base.up) \in Seq(Nat) /\ Passed(r.up) \in Seq(Nat) /\ Passed(c[m].up) \in Seq(Nat)
      BY <1>2, <2>1, PassedType
    <3>2. Continues(Passed(base.up), Passed(r.up)) /\ Continues(Passed(r.up), Passed(c[m].up))
      BY <1>2, <1>6, <2>1, <2>5 DEF r
    <3>3. Continues(Passed(base.up), Passed(c[m].up))
      BY <3>1, <3>2, ContinuesOn
    <3> QED
      BY <1>2, <3>3
  <2> QED
    BY <2>1, <2>5, <2>6
<1> DEFINE Off == {m \in 0 .. N : ~Good(m)}
<1>7. Off = {}
  <2> SUFFICES ASSUME Off # {} PROVE FALSE
    OBVIOUS
  <2> HIDE DEF Good, N
  <2>1. PICK m \in Off : \A k \in Off : m <= k
    <3>1. Off \in SUBSET Nat
      BY <1>1
    <3> HIDE DEF Off
    <3> QED
      BY <3>1, LeastNumber, Zenon
  <2>2. m \in 0 .. N /\ ~Good(m)
    BY <2>1
  <2>3. m \in 1 .. N /\ m - 1 \in 0 .. N /\ m - 1 < m
    BY <1>1, <1>5, <2>2
  <2>4. m - 1 \notin Off
    <3> HIDE DEF Off
    <3> QED
      BY <1>1, <2>1, <2>3
  <2>5. Good(m - 1)
    BY <2>3, <2>4
  <2> QED
    BY <1>6, <2>2, <2>3, <2>5
<1>8. Good(N)
  <2>1. N \in 0 .. N
    BY <1>1
  <2> HIDE DEF Good
  <2> QED
    BY <1>7, <2>1
<1> QED
  BY <1>3, <1>8

-----------------------------------------------------------------------------
(* The channel without its first burst *)

LEMMA SpotsTail ==
    ASSUME NEW a, a \in Seq(SentBurst), Len(a) > 0
    PROVE  LET b == Tail(a)
               m == Len(a[1].frags)
           IN  /\ b \in Seq(SentBurst) /\ Len(b) = Len(a) - 1 /\ \A k \in 1 .. Len(b) : b[k] = a[k + 1]
               /\ \A z \in Spots(b, 0) : /\ <<z[1] + 1, z[2]>> \in Spots(a, m)
                                         /\ Spot(a, <<z[1] + 1, z[2]>>) = Spot(b, z)
               /\ \A z \in Spots(a, m) : /\ z[1] > 1 /\ <<z[1] - 1, z[2]>> \in Spots(b, 0)
                                         /\ Spot(b, <<z[1] - 1, z[2]>>) = Spot(a, z)
<1> DEFINE b == Tail(a)
           m == Len(a[1].frags)
<1>1. \A t \in SentBurst : Len(t.frags) \in Nat
  BY DEF SentBurst
<1>2. /\ Len(a) \in Nat \ {0} /\ b \in Seq(SentBurst) /\ Len(b) = Len(a) - 1
      /\ \A k \in 1 .. Len(b) : b[k] = a[k + 1]
      /\ \A k \in 1 .. Len(a) : a[k] \in SentBurst
  OBVIOUS
<1>3. /\ \A k \in 1 .. Len(a) : Len(a[k].frags) \in Nat
      /\ m \in Nat /\ m \in 0 .. Len(a[1].frags)
  BY <1>1, <1>2
<1> HIDE DEF b, m
<1>4. ASSUME NEW z \in Spots(b, 0)
      PROVE  <<z[1] + 1, z[2]>> \in Spots(a, m) /\ Spot(a, <<z[1] + 1, z[2]>>) = Spot(b, z)
  <2> DEFINE i == z[1]
             j == z[2]
             y == <<i + 1, j>>
  <2>1. i \in 1 .. Len(b) /\ j \in Nat /\ j \in 1 .. Len(b[i].frags)
    BY DEF Spots
  <2> HIDE DEF i, j
  <2>2. /\ i + 1 \in 1 .. Len(a) /\ i + 1 > 1 /\ b[i] = a[i + 1] /\ j \in 1 .. Len(a[i + 1].frags)
    BY <1>2, <2>1
  <2>3. y \in (1 .. Len(a)) \X Nat /\ y[1] = i + 1 /\ y[2] = j
    BY <2>1, <2>2
  <2> HIDE DEF y
  <2>4. y \in Spots(a, m)
    BY <2>2, <2>3 DEF Spots
  <2>5. Spot(a, y) = Spot(b, z)
    BY <2>2, <2>3 DEF Spot, i, j
  <2> QED
    BY <2>4, <2>5 DEF y, i, j
<1>5. ASSUME NEW z \in Spots(a, m)
      PROVE  /\ z[1] > 1 /\ <<z[1] - 1, z[2]>> \in Spots(b, 0)
             /\ Spot(b, <<z[1] - 1, z[2]>>) = Spot(a, z)
  <2> DEFINE i == z[1]
             j == z[2]
             y == <<i - 1, j>>
  <2>1. i \in 1 .. Len(a) /\ j \in Nat /\ j \in 1 .. Len(a[i].frags) /\ (i > 1 \/ j > m)
    BY DEF Spots
  <2> HIDE DEF i, j
  <2>2. i > 1
    <3>1. i = 1 => j <= m
      BY <1>3, <2>1 DEF m
    <3>2. i = 1 => FALSE
      BY <1>3, <2>1, <3>1
    <3> QED
      BY <1>2, <2>1, <3>2
  <2>3. /\ i - 1 \in 1 .. Len(b) /\ b[i - 1] = a[i] /\ j \in 1 .. Len(b[i - 1].frags)
    <3>1. i - 1 \in 1 .. Len(b) /\ (i - 1) + 1 = i
      BY <1>2, <2>1, <2>2
    <3> QED
      BY <1>2, <2>1, <3>1
  <2>4. y \in (1 .. Len(b)) \X Nat /\ y[1] = i - 1 /\ y[2] = j
    BY <2>1, <2>3
  <2> HIDE DEF y
  <2>5. j > 0
    BY <2>3
  <2>6. y \in Spots(b, 0)
    BY <2>3, <2>4, <2>5 DEF Spots
  <2>7. Spot(b, y) = Spot(a, z)
    BY <2>3, <2>4 DEF Spot, i, j
  <2> QED
    BY <2>2, <2>6, <2>7 DEF y, i, j
<1> QED
  BY <1>2, <1>4, <1>5 DEF b, m

LEMMA AheadTail ==
    ASSUME NEW a, a \in Seq(SentBurst), Len(a) > 0, NEW q
    PROVE  /\ Ahead(Tail(a), q, 0) = Ahead(a, q, Len(a[1].frags))
           /\ Begins(Tail(a), 0) = Begins(a, Len(a[1].frags))
<1> DEFINE b == Tail(a)
           m == Len(a[1].frags)
<1>1. /\ \A z \in Spots(b, 0) : \E y \in Spots(a, m) : Spot(a, y) = Spot(b, z)
      /\ \A y \in Spots(a, m) : \E z \in Spots(b, 0) : Spot(a, y) = Spot(b, z)
  BY SpotsTail
<1> HIDE DEF b, m
<1>2. ASSUME NEW x
      PROVE  {Spot(b, z).alpdu : z \in {y \in Spots(b, 0) : x \in Spot(b, y).start_end}}
               = {Spot(a, z).alpdu : z \in {y \in Spots(a, m) : x \in Spot(a, y).start_end}}
  BY <1>1
<1> QED
  BY <1>2 DEF Ahead, Begins, b, m

\* What arrives leaves the sender's promise as it was.
LEMMA BytesType ==
    ASSUME NEW frags, Len(frags) \in Nat, \A i \in 1 .. Len(frags) : frags[i].length \in Nat, NEW p
    PROVE  Bytes(frags, p) \in Nat
<1>1. CASE \E i \in 1 .. Len(frags) : frags[i].alpdu = p
  <2> DEFINE j == CHOOSE i \in 1 .. Len(frags) : frags[i].alpdu = p
  <2>1. j \in 1 .. Len(frags)
    BY <1>1
  <2>2. Bytes(frags, p) = frags[j].length
    BY <1>1 DEF Bytes, Part
  <2> HIDE DEF j
  <2> QED
    BY <2>1, <2>2
<1>2. CASE ~\E i \in 1 .. Len(frags) : frags[i].alpdu = p
  BY <1>2 DEF Bytes, Part
<1> QED
  BY <1>1, <1>2

LEMMA SendingArrived ==
    ASSUME NEW s, NEW a, a \in Seq(SentBurst), Len(a) > 0, NEW q, NEW nx, NEW pk, NEW h, NEW h2, NEW n,
           Sending(s, q, a, nx, pk, h, n),
           \A p \in DOMAIN pk : /\ h[p] \in Nat /\ h2[p] \in Nat
                                /\ h2[p] <= h[p] + Bytes(a[1].frags, p)
    PROVE  Sending(s, q, Tail(a), nx, pk, h2, n)
<1> DEFINE b == Tail(a)
           m == Len(a[1].frags)
<1>1. /\ b \in Seq(SentBurst) /\ Len(b) = Len(a) - 1 /\ \A k \in 1 .. Len(b) : b[k] = a[k + 1]
      /\ \A z \in Spots(b, 0) : /\ <<z[1] + 1, z[2]>> \in Spots(a, m)
                                /\ Spot(a, <<z[1] + 1, z[2]>>) = Spot(b, z)
  BY SpotsTail
<1>2. /\ Len(a) \in Nat \ {0}
      /\ \A k \in 1 .. Len(a) : /\ Len(a[k].frags) \in Nat
                                /\ \A i \in 1 .. Len(a[k].frags) : a[k].frags[i].length \in Nat
  <2>1. \A t \in SentBurst : t.frags \in Seq(SentFrag)
    BY DEF SentBurst
  <2>2. \A fh \in SentFrag : fh.length \in Nat
    BY DEF SentFrag, Frag
  <2>3. \A k \in 1 .. Len(a) : a[k].frags \in Seq(SentFrag)
    BY <2>1
  <2>4. \A t \in Seq(SentFrag) : Len(t) \in Nat /\ \A i \in 1 .. Len(t) : t[i].length \in Nat
    BY <2>2
  <2> QED
    BY <2>3, <2>4
<1>3. m \in 0 .. Len(a[1].frags)
  BY <1>2
<1>4. Ahead(b, q, 0) = Ahead(a, q, m)
  BY AheadTail
<1> HIDE DEF b, m
<1>5. InOrder(s, q, pk) /\ Numbered(s, q, pk, nx, n) /\ Stream(s, a, q, pk, n)
  BY DEF Sending
<1> DEFINE On(z) == <<z[1] + 1, z[2]>>
<1>6. \A z \in Spots(b, 0) : /\ On(z) \in Spots(a, m) /\ On(z) \in Spots(a, 0)
                             /\ Spot(a, On(z)) = Spot(b, z)
                             /\ On(z)[1] = z[1] + 1 /\ On(z)[2] = z[2] /\ z[1] \in Nat
  <2>1. \A z \in Spots(b, 0) : z[1] \in Nat
    BY DEF Spots
  <2>2. Spots(a, m) \subseteq Spots(a, 0)
    BY <1>2, <1>3, SpotsAre
  <2> QED
    BY <1>1, <2>1, <2>2
<1> HIDE DEF On
<1>7. Stream(s, b, q, pk, n)
  <2>1. ASSUME NEW z \in Spots(b, 0)
        PROVE  /\ Genuine(Spot(b, z), s, pk, n) /\ Leads(Spot(b, z), q, pk)
               /\ Spot(b, z).alpdu \in Ahead(b, q, 0)
    <3>1. Spot(a, On(z)).alpdu \in Ahead(a, q, m)
      BY <1>2, <1>3, <1>5, <1>6, StreamRest
    <3> QED
      BY <1>4, <1>5, <1>6, <3>1 DEF Stream
  <2>2. ASSUME NEW y \in Spots(b, 0), NEW z \in Spots(b, 0), Before(y, z)
        PROVE  InTurn(Spot(b, y), Spot(b, z), y[1] < z[1])
    <3>1. Before(On(y), On(z)) /\ (On(y)[1] < On(z)[1] <=> y[1] < z[1])
      BY <1>6, <2>2 DEF Before
    <3>2. InTurn(Spot(a, On(y)), Spot(a, On(z)), On(y)[1] < On(z)[1])
      BY <1>5, <1>6, <3>1 DEF Stream
    <3> QED
      BY <1>6, <3>1, <3>2 DEF InTurn
  <2> QED
    BY <2>1, <2>2 DEF Stream
<1>8. PICK off : Counts(off, s, a, q, pk, h)
  BY DEF Sending
<1> DEFINE off2 == [k \in 1 .. Len(a) |-> off[k + 1]]
<1>9. Counts(off2, s, b, q, pk, h2)
  <2> SUFFICES ASSUME NEW p \in DOMAIN pk, pk[p].src = s
               PROVE  /\ \A k \in 1 .. Len(b) + 1 : off2[k][p] \in Nat /\ off2[k][p] <= pk[p].total_length
                      /\ h2[p] <= off2[1][p]
                      /\ \A k \in 1 .. Len(b) : off2[k + 1][p] = off2[k][p] + Bytes(b[k].frags, p)
                      /\ off2[Len(b) + 1][p] + (IF p \in Range(q) THEN pk[p].psize ELSE 0)
                           = pk[p].total_length
    BY DEF Counts
  <2>1. /\ \A k \in 1 .. Len(a) + 1 : off[k][p] \in Nat /\ off[k][p] <= pk[p].total_length
        /\ h[p] <= off[1][p]
        /\ \A k \in 1 .. Len(a) : off[k + 1][p] = off[k][p] + Bytes(a[k].frags, p)
        /\ off[Len(a) + 1][p] + (IF p \in Range(q) THEN pk[p].psize ELSE 0) = pk[p].total_length
    BY <1>8 DEF Counts
  <2>2. \A k \in 1 .. Len(b) + 1 : k \in 1 .. Len(a) /\ k + 1 \in 1 .. Len(a) + 1 /\ off2[k] = off[k + 1]
    BY <1>1, <1>2
  <2>3. Len(b) + 1 = Len(a) /\ 1 \in 1 .. Len(b) + 1 /\ 1 \in 1 .. Len(a) /\ 1 \in 1 .. Len(a) + 1
    BY <1>1, <1>2
  <2> HIDE DEF off2
  <2>4. \A k \in 1 .. Len(b) + 1 : off2[k][p] \in Nat /\ off2[k][p] <= pk[p].total_length
    BY <2>1, <2>2
  <2>5. h2[p] <= off2[1][p]
    <3>1. off2[1][p] = off[1][p] + Bytes(a[1].frags, p) /\ off[1][p] \in Nat
      BY <2>1, <2>2, <2>3
    <3>2. Bytes(a[1].frags, p) \in Nat
      BY <1>2, <2>3, BytesType
    <3> QED
      BY <2>1, <3>1, <3>2
  <2>6. ASSUME NEW k \in 1 .. Len(b) PROVE off2[k + 1][p] = off2[k][p] + Bytes(b[k].frags, p)
    <3>1. k \in 1 .. Len(b) + 1 /\ k + 1 \in 1 .. Len(b) + 1 /\ k + 1 \in 1 .. Len(a)
      BY <1>1, <1>2
    <3> QED
      BY <1>1, <2>1, <2>2, <3>1
  <2>7. off2[Len(b) + 1] = off[Len(a) + 1]
    <3>1. Len(b) + 1 \in 1 .. Len(b) + 1
      BY <1>1, <1>2
    <3> QED
      BY <2>2, <2>3, <3>1
  <2> QED
    BY <2>1, <2>4, <2>5, <2>6, <2>7
<1> QED
  BY <1>5, <1>7, <1>9 DEF Sending, b

-----------------------------------------------------------------------------
(* The step of the channel *)

\* heard grows by the bytes of the burst.
HeardWith(frags) ==
    [p \in DOMAIN heard |->
        heard[p] + IF \E fh \in Range(frags) : fh.alpdu = p
                   THEN (CHOOSE fh \in Range(frags) : fh.alpdu = p).length ELSE 0]

LEMMA HeardIs ==
    ASSUME LinkInv, NEW n, SendingAll(n), NEW s \in Senders, Len(air[s]) > 0
    PROVE  LET frags == air[s][1].frags
           IN  /\ HeardAt(s, Len(frags)) = HeardWith(frags)
               /\ \A p \in DOMAIN pkts :
                    /\ heard[p] \in Nat /\ HeardAt(s, Len(frags))[p] \in Nat
                    /\ HeardAt(s, Len(frags))[p] = heard[p] + Bytes(frags, p)
                    /\ Bytes(frags, p) \in Nat
                    /\ pkts[p].src # s => HeardAt(s, Len(frags))[p] = heard[p]
<1> DEFINE a == air[s]
           frags == a[1].frags
           N == Len(frags)
<1>1. 1 \in 1 .. Len(a) /\ Len(a) \in Nat
  BY AirType
<1>2. /\ frags \in Seq(SentFrag) /\ N \in Nat /\ \A i \in 1 .. N : frags[i].length \in Nat
  BY <1>1, AirType
<1>3. Stream(s, a, queue[s], pkts, n)
  BY DEF SendingAll, Sending
<1>4. \A i, j \in 1 .. N : frags[i].alpdu = frags[j].alpdu => i = j
  BY <1>1, <1>2, <1>3, OncePerBurst
<1>5. DOMAIN heard = DOMAIN pkts /\ \A p \in DOMAIN pkts : heard[p] \in Nat
  BY DEF LinkInv, TypeOK
<1>6. Range(frags) = {frags[i] : i \in 1 .. N}
  <2> HIDE DEF frags
  <2> QED
    BY <1>2 DEF Range
<1>7. \A i \in 1 .. N : Genuine(frags[i], s, pkts, n)
  <2> SUFFICES ASSUME NEW i \in 1 .. N PROVE Genuine(frags[i], s, pkts, n)
    OBVIOUS
  <2>1. <<1, i>> \in Spots(a, 0) /\ Spot(a, <<1, i>>) = frags[i]
    BY <1>1, <1>2 DEF Spots, Spot
  <2> QED
    BY <1>3, <2>1 DEF Stream
<1> DEFINE Heard(p) == IF \E fh \in Range(frags) : fh.alpdu = p
                       THEN (CHOOSE fh \in Range(frags) : fh.alpdu = p).length ELSE 0
<1>8. HeardAt(s, N) = [p \in DOMAIN pkts |-> heard[p] + Bytes(frags, p)]
  BY DEF HeardAt, Bytes
<1> HIDE DEF a, frags, N
<1>9. ASSUME NEW p PROVE Heard(p) = Bytes(frags, p)
  <2>1. CASE \A i \in 1 .. N : frags[i].alpdu # p
    <3>1. Bytes(frags, p) = 0
      BY <2>1 DEF Bytes, Part, N
    <3>2. ~\E fh \in Range(frags) : fh.alpdu = p
      BY <1>6, <2>1
    <3> QED
      BY <3>1, <3>2
  <2>2. ASSUME NEW i \in 1 .. N, frags[i].alpdu = p PROVE Heard(p) = Bytes(frags, p)
    <3>1. Bytes(frags, p) = frags[i].length
      <4>1. N \in 0 .. Len(frags)
        BY <1>2 DEF N
      <4>2. Part(frags, N, frags[i].alpdu) = frags[i].length
        BY <1>2, <1>4, <4>1, PartIs DEF N
      <4> QED
        BY <2>2, <4>2 DEF Bytes, N
    <3> DEFINE it == CHOOSE fh \in Range(frags) : fh.alpdu = p
    <3>2. \E fh \in Range(frags) : fh.alpdu = p
      BY <1>6, <2>2
    <3>3. it \in Range(frags) /\ it.alpdu = p
      BY <3>2
    <3>4. Heard(p) = it.length
      BY <3>2
    <3> HIDE DEF it, Heard
    <3>5. it = frags[i]
      BY <1>4, <1>6, <2>2, <3>3
    <3> QED
      BY <3>1, <3>4, <3>5
  <2> QED
    BY <2>1, <2>2
<1>10. \A p : Bytes(frags, p) \in Nat
  BY <1>2, BytesType DEF N
<1>11. ASSUME NEW p, p \in DOMAIN pkts, pkts[p].src # s PROVE Bytes(frags, p) = 0
  <2>1. \A i \in 1 .. N : frags[i].alpdu # p
    BY <1>7, <1>11 DEF Genuine, Mate
  <2> QED
    BY <2>1 DEF Bytes, Part, N
<1> HIDE DEF Heard
<1>12. HeardAt(s, N) = [p \in DOMAIN heard |-> heard[p] + Heard(p)]
  BY <1>5, <1>8, <1>9
<1>13. \A p \in DOMAIN pkts :
        /\ heard[p] \in Nat /\ HeardAt(s, N)[p] \in Nat
        /\ HeardAt(s, N)[p] = heard[p] + Bytes(frags, p)
        /\ Bytes(frags, p) \in Nat
        /\ pkts[p].src # s => HeardAt(s, N)[p] = heard[p]
  <2> SUFFICES ASSUME NEW p \in DOMAIN pkts
               PROVE  /\ heard[p] \in Nat /\ HeardAt(s, N)[p] \in Nat
                      /\ HeardAt(s, N)[p] = heard[p] + Bytes(frags, p)
                      /\ Bytes(frags, p) \in Nat
                      /\ pkts[p].src # s => HeardAt(s, N)[p] = heard[p]
    OBVIOUS
  <2>1. HeardAt(s, N)[p] = heard[p] + Bytes(frags, p)
    BY <1>8
  <2>2. heard[p] \in Nat /\ Bytes(frags, p) \in Nat
    BY <1>5, <1>10
  <2>3. pkts[p].src # s => Bytes(frags, p) = 0
    BY <1>11
  <2> QED
    BY <2>1, <2>2, <2>3
<1> QED
  BY <1>12, <1>13 DEF HeardWith, Heard, N, frags, a

LEMMA ReceivingKept ==
    ASSUME LinkInv, NEW d, NEW r \in Kept, NEW A, NEW A2, NEW B, NEW B2, NEW h, NEW n,
           Receiving(d, r, A, B, pkts, h, n), \A x \in Senders : A2[x] \subseteq A[x] /\ B2[x] \subseteq B[x],
           \A p \in DOMAIN pkts : h[p] \in Nat,
           \A x \in Senders : \A p \in A[x] : p \in A2[x] \/ h[p] # pkts[p].total_length
    PROVE  Receiving(d, r, A2, B2, pkts, h, n)
<1>1. ASSUME NEW s \in Senders, NEW f \in Prios
      PROVE  \E e : Stands(e, r.ctx[Bucket(s, f)], d, s, f, A2[s], B2[s], pkts, h, n)
  <2>1. PICK e : Stands(e, r.ctx[Bucket(s, f)], d, s, f, A[s], B[s], pkts, h, n)
    BY DEF Receiving
  <2>2. r.ctx[Bucket(s, f)].len \in Nat
    <3>1. Bucket(s, f) \in Buckets
      BY DEF Buckets
    <3> QED
      BY <3>1 DEF Kept, SentContext, Context
  <2>3. \A x \in DOMAIN pkts : h[x] \in Int /\ h[x] <= h[x]
    OBVIOUS
  <2>5. \A x \in DOMAIN pkts : Done(x, d, s, f, A2[s], pkts, h) => Done(x, d, s, f, A[s], pkts, h)
    BY DEF Done
  <2>4. Stands(e, r.ctx[Bucket(s, f)], d, s, f, A2[s], B2[s], pkts, h, n)
    BY <2>1, <2>2, <2>3, <2>5, StandsKept
  <2> QED
    BY <2>4
<1>2. Promised(Passed(r.up), d, A2, pkts, h)
  <2>1. Promised(Passed(r.up), d, A, pkts, h)
    BY DEF Receiving
  <2>2. \A p \in DOMAIN pkts : A2[pkts[p].src] \subseteq A[pkts[p].src]
    BY PacketType
  <2> QED
    BY <2>1, <2>2, PromisedKept
<1> QED
  BY <1>1, <1>2 DEF Receiving

\* Of a packet that is over with the first burst something was in that burst.
LEMMA ShortBefore ==
    ASSUME LinkInv, NEW n, SendingAll(n), NEW s \in Senders, Len(air[s]) > 0,
           NEW x \in NotOver[s], x \notin AheadAt(s, Len(air[s][1].frags))[s]
    PROVE  heard[x] # pkts[x].total_length
<1> DEFINE a == air[s]
           frags == a[1].frags
           N == Len(frags)
           q == queue[s]
<1>1. 1 \in 1 .. Len(a) /\ Len(a) \in Nat /\ \A k \in 1 .. Len(a) : Len(a[k].frags) \in Nat
  BY AirType
<1>2. frags \in Seq(SentFrag) /\ N \in Nat /\ \A i \in 1 .. N : frags[i].length \in Nat
  BY <1>1, AirType
<1>3. Stream(s, a, q, pkts, n) /\ \E off : Counts(off, s, a, q, pkts, heard)
  BY DEF SendingAll, Sending
<1>4. \A i, j \in 1 .. N : frags[i].alpdu = frags[j].alpdu => i = j
  BY <1>1, <1>2, <1>3, OncePerBurst
<1>5. x \in Ahead(a, q, 0) /\ x \notin Ahead(a, q, N)
  BY DEF NotOver, AheadAt
<1> HIDE DEF a, q
<1>6. PICK z \in Spots(a, 0) : END \in Spot(a, z).start_end /\ x = Spot(a, z).alpdu
  BY <1>5 DEF Ahead
<1>7. z \notin Spots(a, N)
  BY <1>5, <1>6 DEF Ahead
<1>8. z[1] = 1 /\ z[2] \in 1 .. N
  <2>1. z[1] \in 1 .. Len(a) /\ z[2] \in 1 .. Len(a[z[1]].frags) /\ z \in (1 .. Len(a)) \X Nat
    BY <1>6 DEF Spots
  <2>2. ~(z[1] > 1 \/ z[2] > N)
    BY <1>7, <2>1 DEF Spots
  <2>3. z[1] = 1
    BY <1>1, <2>1, <2>2
  <2> QED
    BY <2>1, <2>3
<1> DEFINE i == z[2]
<1>9. frags[i] = Spot(a, z) /\ frags[i].alpdu = x /\ Genuine(frags[i], s, pkts, n)
  BY <1>3, <1>6, <1>8 DEF Spot, Stream
<1>10. x \in DOMAIN pkts /\ pkts[x].src = s /\ frags[i].length > 0
  BY <1>9 DEF Genuine, Mate
<1>11. Bytes(frags, x) = frags[i].length
  <2>1. N \in 0 .. Len(frags)
    BY <1>2
  <2> HIDE DEF frags
  <2>2. Part(frags, N, frags[i].alpdu) = frags[i].length
    BY <1>2, <1>4, <1>8, <2>1, PartIs
  <2> QED
    BY <1>9, <2>2 DEF Bytes
<1>12. PICK off : Counts(off, s, a, q, pkts, heard)
  BY <1>3
<1>13. /\ heard[x] <= off[1][x] /\ off[1][x] \in Nat
       /\ off[1 + 1][x] = off[1][x] + Bytes(frags, x) /\ off[1 + 1][x] <= pkts[x].total_length
  <2>1. 1 \in 1 .. Len(a) + 1 /\ 1 + 1 \in 1 .. Len(a) + 1
    BY <1>1
  <2> QED
    BY <1>1, <1>10, <1>12, <2>1 DEF Counts
<1>14. heard[x] \in Nat /\ pkts[x].total_length \in Nat /\ frags[i].length \in Nat
  BY <1>2, <1>8, <1>10, PacketType DEF LinkInv, TypeOK
<1> DEFINE v == off[1][x]
           w == off[1 + 1][x]
           g == frags[i].length
<1>15. heard[x] <= v /\ v \in Nat /\ w = v + g /\ w <= pkts[x].total_length /\ g > 0 /\ g \in Nat
  BY <1>10, <1>11, <1>13, <1>14
<1> HIDE DEF v, w, g
<1> QED
  BY <1>14, <1>15

LEMMA AheadShrinks ==
    ASSUME LinkInv, NEW s \in Senders, Len(air[s]) > 0, NEW x \in Senders
    PROVE  LET m == Len(air[s][1].frags)
           IN  AheadAt(s, m)[x] \subseteq NotOver[x] /\ BeginsAt(s, m)[x] \subseteq NotBegun[x]
<1> DEFINE m == Len(air[s][1].frags)
           a == air[s]
<1>1. Len(a) \in Nat \ {0} /\ \A k \in 1 .. Len(a) : Len(a[k].frags) \in Nat
  BY AirType
<1>2. 1 \in 1 .. Len(a)
  BY <1>1
<1>3. m \in 0 .. Len(a[1].frags)
  BY <1>1, <1>2
<1> HIDE DEF m, a
<1>4. Spots(a, m) \subseteq Spots(a, 0)
  BY <1>1, <1>3, SpotsAre
<1>5. Ahead(a, queue[s], m) \subseteq Ahead(a, queue[s], 0) /\ Begins(a, m) \subseteq Begins(a, 0)
  BY <1>4 DEF Ahead, Begins
<1>6. /\ AheadAt(s, m)[x] = Ahead(air[x], queue[x], IF x = s THEN m ELSE 0)
      /\ BeginsAt(s, m)[x] = Begins(air[x], IF x = s THEN m ELSE 0)
      /\ NotOver[x] = Ahead(air[x], queue[x], 0) /\ NotBegun[x] = Begins(air[x], 0)
  BY DEF AheadAt, BeginsAt, NotOver, NotBegun
<1> QED
  BY <1>5, <1>6 DEF m, a

LEMMA ArrivePromises ==
    ASSUME LinkInv, OwnContexts, InReach, NEW n \in Nat, Promising(n), NEW s \in Senders, Arrive(s)
    PROVE  /\ Promising(n)' /\ \A d \in Receivers : Continues(Passed(up[d]), Passed(up'[d]))
           /\ \A p \in DOMAIN pkts : heard[p] <= heard'[p]
<1> DEFINE a == air[s]
           burst == a[1]
           frags == burst.frags
           N == Len(frags)
<1>1. /\ UNCHANGED <<lossy, pkts, queue, next>> /\ a # << >> /\ air' = [air EXCEPT ![s] = Tail(@)]
      /\ burst.lost => UNCHANGED <<ctx, up, heard>>
      /\ ~burst.lost =>
            /\ ctx' = [d \in Receivers |-> After(d, s, burst).ctx]
            /\ up'  = [d \in Receivers |-> After(d, s, burst).up]
            /\ heard' = HeardWith(frags)
  <2> DEFINE hd == Head(a)
  <2>1. /\ UNCHANGED <<lossy, pkts, queue, next>> /\ a # << >> /\ air' = [air EXCEPT ![s] = Tail(@)]
        /\ hd.lost => UNCHANGED <<ctx, up, heard>>
        /\ ~hd.lost => /\ ctx' = [d \in Receivers |-> After(d, s, hd).ctx]
                       /\ up'  = [d \in Receivers |-> After(d, s, hd).up]
                       /\ heard' = HeardWith(hd.frags)
    BY DEF Arrive, HeardWith
  <2>2. air \in [Senders -> Seq(SentBurst)]
    BY DEF LinkInv, Sent
  <2>3. hd = a[1]
    BY <2>1, <2>2
  <2> HIDE DEF hd
  <2> QED
    BY <2>1, <2>3
<1>2. a \in Seq(SentBurst) /\ Len(a) > 0 /\ air \in [Senders -> Seq(SentBurst)]
  <2>1. air \in [Senders -> Seq(SentBurst)]
    BY DEF LinkInv, Sent
  <2>2. a \in Seq(SentBurst) /\ a # << >>
    BY <1>1, <2>1
  <2> HIDE DEF a
  <2>3. Len(a) > 0
    BY <2>2
  <2> QED
    BY <2>1, <2>2, <2>3
<1>3. SendingAll(n) /\ \A d \in Receivers : Receiving(d, [ctx |-> ctx[d], up |-> up[d]], NotOver, NotBegun, pkts, heard, n)
  BY DEF Promising, SendingAll
<1>4. \A x \in Senders : air'[x] = IF x = s THEN Tail(a) ELSE air[x]
  BY <1>1, <1>2
<1>5. NotOver' = AheadAt(s, N) /\ NotBegun' = BeginsAt(s, N)
  <2>1. Ahead(Tail(a), queue[s], 0) = Ahead(a, queue[s], N) /\ Begins(Tail(a), 0) = Begins(a, N)
    BY <1>2, AheadTail
  <2> HIDE DEF N
  <2>2. /\ \A x \in Senders : Ahead(air'[x], queue'[x], 0) = AheadAt(s, N)[x]
        /\ \A x \in Senders : Begins(air'[x], 0) = BeginsAt(s, N)[x]
    BY <1>1, <1>4, <2>1 DEF AheadAt, BeginsAt
  <2>3. /\ NotOver' = [x \in Senders |-> Ahead(air'[x], queue'[x], 0)]
        /\ NotBegun' = [x \in Senders |-> Begins(air'[x], 0)]
    BY DEF NotOver, NotBegun
  <2>4. /\ AheadAt(s, N) = [x \in Senders |-> AheadAt(s, N)[x]]
        /\ BeginsAt(s, N) = [x \in Senders |-> BeginsAt(s, N)[x]]
    BY DEF AheadAt, BeginsAt
  <2> QED
    BY <2>2, <2>3, <2>4
<1>6. \A p \in DOMAIN pkts :
        /\ heard[p] \in Nat /\ HeardAt(s, N)[p] \in Nat /\ HeardAt(s, N)[p] = heard[p] + Bytes(frags, p)
        /\ Bytes(frags, p) \in Nat
        /\ pkts[p].src # s => HeardAt(s, N)[p] = heard[p]
  BY <1>2, <1>3, HeardIs
<1>7. heard' = IF burst.lost THEN heard ELSE HeardAt(s, N)
  <2>1. CASE burst.lost
    BY <1>1, <2>1
  <2>2. CASE ~burst.lost
    BY <1>1, <1>2, <1>3, <2>2, HeardIs
  <2> QED
    BY <2>1, <2>2
<1>8. \A p \in DOMAIN pkts : /\ heard'[p] \in Nat /\ heard'[p] <= heard[p] + Bytes(frags, p)
                             /\ pkts[p].src # s => heard'[p] = heard[p]
  <2> SUFFICES ASSUME NEW p \in DOMAIN pkts
               PROVE  /\ heard'[p] \in Nat /\ heard'[p] <= heard[p] + Bytes(frags, p)
                      /\ pkts[p].src # s => heard'[p] = heard[p]
    OBVIOUS
  <2> DEFINE was == heard[p]
             is == heard'[p]
             then == HeardAt(s, N)[p]
             more == Bytes(frags, p)
  <2>1. /\ was \in Nat /\ then \in Nat /\ then = was + more /\ more \in Nat
        /\ pkts[p].src # s => then = was
    BY <1>6
  <2>2. is = was \/ is = then
    BY <1>7
  <2> HIDE DEF was, is, then, more
  <2>3. is \in Nat /\ is <= was + more /\ (pkts[p].src # s => is = was)
    BY <2>1, <2>2
  <2> QED
    BY <2>3 DEF was, is, more
<1>9. ASSUME NEW x \in Senders
      PROVE  Sending(x, queue[x], air'[x], next[x], pkts, heard', n)
  <2>1. Sending(x, queue[x], air[x], next[x], pkts, heard, n)
    BY <1>3 DEF SendingAll
  <2>2. CASE x = s
    <3>1. \A p \in DOMAIN pkts : /\ heard[p] \in Nat /\ heard'[p] \in Nat
                                 /\ heard'[p] <= heard[p] + Bytes(a[1].frags, p)
      BY <1>6, <1>8
    <3>2. Sending(s, queue[s], a, next[s], pkts, heard, n)
      BY <2>1, <2>2
    <3> HIDE DEF a
    <3>3. Sending(s, queue[s], Tail(a), next[s], pkts, heard', n)
      BY <1>2, <3>1, <3>2, SendingArrived
    <3> QED
      BY <1>4, <2>2, <3>3
  <2>3. CASE x # s
    <3>1. air'[x] = air[x] /\ \A p \in DOMAIN pkts : pkts[p].src = x => heard'[p] = heard[p]
      BY <1>4, <1>8, <2>3
    <3> QED
      BY <2>1, <3>1 DEF Sending, Counts
  <2> QED
    BY <2>2, <2>3
<1>10. ASSUME NEW d \in Receivers
       PROVE  /\ Receiving(d, [ctx |-> ctx'[d], up |-> up'[d]], AheadAt(s, N), BeginsAt(s, N), pkts, heard', n)
              /\ Continues(Passed(up[d]), Passed(up'[d]))
  <2> DEFINE base == [ctx |-> ctx[d], up |-> up[d]]
             r == After(d, s, burst)
  <2>1. base \in Kept /\ pkts \in Seq(Packet) /\ base.up = up[d]
    BY DEF Kept, LinkInv, TypeOK, Sent
  <2>2. Receiving(d, base, NotOver, NotBegun, pkts, heard, n)
    BY <1>3
  <2>3. CASE burst.lost
    <3>1. ctx' = ctx /\ up' = up /\ heard' = heard
      BY <1>1, <2>3
    <3>2. \A x \in Senders : AheadAt(s, N)[x] \subseteq NotOver[x] /\ BeginsAt(s, N)[x] \subseteq NotBegun[x]
      BY <1>2, AheadShrinks
    <3>5. \A x \in Senders : \A p \in NotOver[x] :
            p \in AheadAt(s, N)[x] \/ heard[p] # pkts[p].total_length
      <4> SUFFICES ASSUME NEW x \in Senders, NEW p \in NotOver[x], p \notin AheadAt(s, N)[x]
                   PROVE  heard[p] # pkts[p].total_length
        OBVIOUS
      <4>1. CASE x = s
        BY <1>2, <1>3, <4>1, ShortBefore
      <4>2. CASE x # s
        BY <4>2 DEF NotOver, AheadAt
      <4> QED
        BY <4>1, <4>2
    <3> HIDE DEF base, N
    <3>3. Receiving(d, base, AheadAt(s, N), BeginsAt(s, N), pkts, heard, n)
      BY <1>6, <2>1, <2>2, <3>2, <3>5, ReceivingKept
    <3>4. Continues(Passed(base.up), Passed(base.up))
      BY <2>1, PassedType
    <3> QED
      BY <2>1, <3>1, <3>3, <3>4 DEF base
  <2>4. CASE ~burst.lost
    <3>1. /\ Receiving(d, r, AheadAt(s, N), BeginsAt(s, N), pkts, HeardAt(s, N), n)
          /\ Continues(Passed(up[d]), Passed(r.up))
      BY <1>2, <1>3, <2>2, BurstReceives
    <3>2. ctx'[d] = r.ctx /\ up'[d] = r.up /\ heard' = HeardAt(s, N)
      BY <1>1, <1>7, <2>4
    <3> HIDE DEF r, N
    <3>3. Receiving(d, [ctx |-> r.ctx, up |-> r.up], AheadAt(s, N), BeginsAt(s, N), pkts, HeardAt(s, N), n)
      BY <3>1 DEF Receiving
    <3> QED
      BY <3>1, <3>2, <3>3
  <2> QED
    BY <2>3, <2>4
<1>11. \A p \in DOMAIN pkts : heard[p] <= heard'[p]
  BY <1>6, <1>7
<1> QED
  BY <1>1, <1>5, <1>9, <1>10, <1>11 DEF Promising

-----------------------------------------------------------------------------
(* A packet comes to the link *)

\* The queue r is the queue q with the last packet put in.
TookIn(s, q, r, pk) ==
    /\ InOrder(s, r, pk)
    /\ \A i \in 1 .. Len(r) : r[i] = Len(pk) \/ \E j \in 1 .. Len(q) : r[i] = q[j]
    /\ \A x : x \in Range(r) <=> x \in Range(q) \/ x = Len(pk)

LEMMA OrderInsert ==
    ASSUME NEW s, NEW q, NEW pk \in Seq(Packet), Waits(s, q, pk), InOrder(s, q, pk), NEW h \in Packet
    PROVE  TookIn(s, q, Insert(q, Len(Append(pk, h)),
                               [p \in DOMAIN Append(pk, h) |-> Append(pk, h)[p].frag_id]), Append(pk, h))
<1> DEFINE pk2 == Append(pk, h)
           n == Len(pk2)
           ids == [p \in DOMAIN pk2 |-> pk2[p].frag_id]
           D == DOMAIN pk2
           r == Insert(q, n, ids)
<1>1. /\ pk2 \in Seq(Packet) /\ n = Len(pk) + 1 /\ D = 1 .. Len(pk) + 1 /\ pk2[n] = h
      /\ DOMAIN pk = 1 .. Len(pk) /\ Len(pk) \in Nat
      /\ \A p \in DOMAIN pk : pk2[p] = pk[p]
  OBVIOUS
<1> HIDE DEF pk2, n
<1>2. \A p \in D : pk2[p] \in Packet
  BY <1>1
<1>3. ids \in [D -> Nat] /\ \A p \in D : ids[p] = pk2[p].frag_id
  <2>1. \A p \in D : pk2[p].frag_id \in Nat
    <3>1. \A p \in D : pk2[p].frag_id \in Prios
      BY <1>2 DEF Packet
    <3>2. Prios \subseteq Nat
      BY LinkAssumption
    <3> QED
      BY <3>1, <3>2
  <2> QED
    BY <2>1
<1>4. /\ q \in Seq(DOMAIN pk) /\ q \in Seq(D) /\ n \in D
      /\ \A j \in 1 .. Len(q) : q[j] \in DOMAIN pk /\ q[j] \in D /\ q[j] < n
  <2>1. q \in Seq(DOMAIN pk)
    BY DEF Waits
  <2> QED
    BY <2>1, <1>1
<1> HIDE DEF ids, D
<1>5. PICK k \in 0 .. Len(q) : /\ r = PutBehind(q, n, k)
                               /\ \A i \in 1 .. k : ids[q[i]] <= ids[n]
                               /\ k = Len(q) \/ ids[q[k + 1]] > ids[n]
  BY <1>3, <1>4, WhereInserted
<1> HIDE DEF r
<1>6. /\ r \in Seq(D) /\ Len(r) = Len(q) + 1
      /\ \A i \in 1 .. Len(q) + 1 :
           r[i] = IF i <= k THEN q[i] ELSE IF i = k + 1 THEN n ELSE q[i - 1]
  <2>1. /\ PutBehind(q, n, k) \in Seq(D) /\ Len(PutBehind(q, n, k)) = Len(q) + 1
        /\ \A i \in 1 .. Len(q) + 1 :
             PutBehind(q, n, k)[i] = IF i <= k THEN q[i] ELSE IF i = k + 1 THEN n ELSE q[i - 1]
    BY <1>4, PutBehindAt
  <2> QED
    BY <1>5, <2>1
<1> DEFINE From(i) == IF i <= k THEN i ELSE i - 1
<1>7. ASSUME NEW i \in 1 .. Len(r), i # k + 1
      PROVE  From(i) \in 1 .. Len(q) /\ r[i] = q[From(i)] /\ (i > k => From(i) > k)
  <2>1. CASE i <= k
    BY <2>1, <1>6
  <2>2. CASE i > k
    <3>1. i - 1 \in 1 .. Len(q) /\ ~(i <= k) /\ i \in 1 .. Len(q) + 1 /\ i - 1 > k
      BY <2>2, <1>6, <1>7
    <3>2. r[i] = q[i - 1]
      BY <3>1, <1>6, <1>7
    <3> QED
      BY <3>1, <3>2
  <2> QED
    BY <2>1, <2>2
<1>8. r[k + 1] = n /\ k + 1 \in 1 .. Len(r)
  <2>1. k + 1 \in 1 .. Len(q) + 1 /\ ~(k + 1 <= k)
    OBVIOUS
  <2> QED
    BY <2>1, <1>6
<1>9. ASSUME NEW i \in 1 .. Len(r), NEW j \in 1 .. Len(r), i # k + 1, j # k + 1, i < j
      PROVE  From(i) < From(j)
  BY <1>9, <1>6
<1>10. ASSUME NEW j \in 1 .. Len(q) PROVE \E i \in 1 .. Len(r) : r[i] = q[j]
  <2>1. CASE j <= k
    <3>1. j \in 1 .. Len(r) /\ j \in 1 .. Len(q) + 1
      BY <1>4, <1>6
    <3> QED
      BY <1>6, <2>1, <3>1
  <2>2. CASE ~(j <= k)
    <3>1. j + 1 \in 1 .. Len(r) /\ j + 1 \in 1 .. Len(q) + 1 /\ ~(j + 1 <= k) /\ j + 1 # k + 1 /\ (j + 1) - 1 = j
      BY <1>4, <1>6, <2>2
    <3>2. r[j + 1] = q[j]
      BY <1>6, <3>1
    <3> QED
      BY <3>1, <3>2
  <2> QED
    BY <2>1, <2>2
<1> HIDE DEF From
<1>11. \A j \in 1 .. Len(q) : ids[q[j]] = pk[q[j]].frag_id /\ ids[q[j]] \in Nat /\ ids[n] \in Nat
  BY <1>1, <1>3, <1>4
<1>12. ASSUME NEW j \in 1 .. Len(q), j > k PROVE ids[q[j]] > ids[n]
  <2>1. k + 1 \in 1 .. Len(q) /\ ids[q[k + 1]] > ids[n] /\ k \in Nat
    BY <1>5, <1>12
  <2>2. CASE j = k + 1
    BY <2>1, <2>2
  <2>3. CASE k + 1 < j
    <3>1. ids[q[k + 1]] <= ids[q[j]]
      BY <1>11, <2>1, <2>3 DEF Waits
    <3> QED
      BY <2>1, <3>1, <1>11
  <2> QED
    BY <2>1, <2>2, <2>3, <1>12
<1>13. ASSUME NEW i \in 1 .. Len(r) PROVE r[i] = n \/ \E j \in 1 .. Len(q) : r[i] = q[j]
  BY <1>7, <1>8
<1>14. ASSUME NEW x PROVE x \in Range(r) <=> x \in Range(q) \/ x = n
  <2>1. Range(r) = {r[i] : i \in 1 .. Len(r)} /\ Range(q) = {q[i] : i \in 1 .. Len(q)}
    <3>1. DOMAIN r = 1 .. Len(r) /\ DOMAIN q = 1 .. Len(q)
      BY <1>4, <1>6
    <3> QED
      BY <3>1 DEF Range
  <2> QED
    BY <1>8, <1>10, <1>13, <2>1
<1>15. ASSUME NEW i \in 1 .. Len(r), NEW j \in 1 .. Len(r), i < j, ids[r[i]] = ids[r[j]]
       PROVE  r[i] < r[j]
  <2>1. CASE i # k + 1 /\ j # k + 1
    <3>1. From(i) \in 1 .. Len(q) /\ From(j) \in 1 .. Len(q) /\ From(i) < From(j)
      BY <1>7, <1>9, <1>15, <2>1
    <3>2. r[i] = q[From(i)] /\ r[j] = q[From(j)]
      BY <1>7, <2>1
    <3> QED
      BY <1>11, <1>15, <3>1, <3>2 DEF InOrder
  <2>2. CASE j = k + 1
    <3>1. From(i) \in 1 .. Len(q) /\ r[i] = q[From(i)]
      BY <1>7, <1>15, <2>2
    <3> QED
      BY <1>4, <1>8, <2>2, <3>1
  <2>3. CASE i = k + 1
    <3>1. j # k + 1 /\ j > k
      BY <1>15, <2>3
    <3>2. From(j) \in 1 .. Len(q) /\ r[j] = q[From(j)] /\ From(j) > k
      BY <1>7, <3>1
    <3>3. ids[q[From(j)]] > ids[n] /\ ids[q[From(j)]] \in Nat /\ ids[n] \in Nat
      BY <1>11, <1>12, <3>2
    <3> QED
      BY <1>8, <1>15, <2>3, <3>2, <3>3
  <2> QED
    BY <2>1, <2>2, <2>3
<1>16. \A i \in 1 .. Len(r) : r[i] \in D /\ ids[r[i]] = pk2[r[i]].frag_id
  BY <1>3, <1>6
<1>17. ASSUME NEW i \in 1 .. Len(r), NEW x \in DOMAIN pk2, Mate(x, s, pk2[r[i]].frag_id, pk2), x > r[i]
       PROVE  x \in Range(r)
  <2>1. CASE x = n
    BY <1>14, <2>1
  <2>2. CASE x # n
    <3>1. x \in DOMAIN pk /\ pk2[x] = pk[x] /\ x < n
      BY <1>1, <2>2 DEF D
    <3>2. r[i] # n
      BY <1>1, <1>17, <3>1
    <3>3. PICK j \in 1 .. Len(q) : r[i] = q[j]
      BY <1>13, <3>2
    <3>4. Mate(x, s, pk[q[j]].frag_id, pk) /\ x > q[j]
      BY <1>1, <1>4, <1>17, <3>1, <3>3 DEF Mate
    <3>5. x \in Range(q)
      BY <3>1, <3>4 DEF InOrder
    <3> QED
      BY <1>14, <3>5
  <2> QED
    BY <2>1, <2>2
<1>18. InOrder(s, r, pk2)
  BY <1>15, <1>16, <1>17 DEF InOrder
<1>19. TookIn(s, q, r, pk2)
  BY <1>13, <1>14, <1>18 DEF TookIn, n
<1> QED
  BY <1>19 DEF r, n, ids, pk2

\* The packets pk2 are those sent and one more that was never cut.
More(pk2) ==
    /\ pk2 \in Seq(Packet) /\ Len(pk2) = Len(pkts) + 1 /\ DOMAIN pk2 = 1 .. Len(pkts) + 1
    /\ \A p \in DOMAIN pkts : p \in DOMAIN pk2 /\ p < Len(pkts) + 1 /\ pk2[p] = pkts[p]
    /\ START \in pk2[Len(pkts) + 1].start_end
    /\ pk2[Len(pkts) + 1].psize = pk2[Len(pkts) + 1].total_length
    /\ DOMAIN pkts = 1 .. Len(pkts) /\ Len(pkts) \in Nat

LEMMA NumberMore ==
    ASSUME NEW pk2, More(pk2), NEW s, NEW f
    PROVE  /\ \A x \in 1 .. Len(pkts) + 1 : Number(s, f, x, pk2) = Number(s, f, x, pkts)
           /\ Number(s, f, Len(pk2) + 1, pk2) = Number(s, f, Len(pkts) + 1, pkts)
<1>1. ASSUME NEW x \in 1 .. Len(pkts) + 1 PROVE Fragmented(s, f, x, pk2) = Fragmented(s, f, x, pkts)
  <2>1. \A r \in 1 .. x - 1 : r \in DOMAIN pkts
    BY DEF More
  <2> QED
    BY <2>1 DEF Fragmented, Mate, More
<1>2. Fragmented(s, f, Len(pk2) + 1, pk2) = Fragmented(s, f, Len(pkts) + 1, pkts)
  <2>1. \A r \in 1 .. (Len(pk2) + 1) - 1 : r \in 1 .. Len(pkts) \/ r = Len(pkts) + 1
    BY DEF More
  <2>2. \A r \in 1 .. Len(pkts) : r \in 1 .. (Len(pk2) + 1) - 1 /\ r \in 1 .. (Len(pkts) + 1) - 1
    BY DEF More
  <2>3. (Len(pkts) + 1) - 1 = Len(pkts)
    BY DEF More
  <2> QED
    BY <2>1, <2>2, <2>3 DEF Fragmented, Mate, More
<1> QED
  BY <1>1, <1>2 DEF Number

LEMMA SendingMore ==
    ASSUME LinkInv, NEW s, NEW pk2, More(pk2), NEW a, a \in Seq(SentBurst), NEW nx, NEW h2, NEW n,
           NEW q, q \in Seq(DOMAIN pkts), NEW q2, Sending(s, q, a, nx, pkts, heard, n),
           InOrder(s, q2, pk2), pk2[Len(pkts) + 1].src = s => Len(pkts) + 1 \in Range(q2),
           \A i \in 1 .. Len(q2) : q2[i] = Len(pkts) + 1 \/ \E j \in 1 .. Len(q) : q2[i] = q[j],
           \A x \in DOMAIN pkts : x \in Range(q2) <=> x \in Range(q),
           h2[Len(pkts) + 1] = 0, \A x \in DOMAIN pkts : h2[x] = heard[x]
    PROVE  Sending(s, q2, a, nx, pk2, h2, n)
<1> DEFINE P == Len(pkts) + 1
           D == DOMAIN pkts
<1>1. /\ pk2 \in Seq(Packet) /\ DOMAIN pk2 = 1 .. P /\ START \in pk2[P].start_end
      /\ \A p \in D : p \in DOMAIN pk2 /\ p < P /\ pk2[p] = pkts[p]
      /\ pk2[P].psize = pk2[P].total_length /\ P \notin D
      /\ \A p \in DOMAIN pk2 : p = P \/ p \in D
  BY DEF More
<1>2. pk2[P].psize \in Nat
  <2>1. P \in DOMAIN pk2
    BY DEF More
  <2> HIDE DEF P
  <2>2. pk2[P] \in Packet
    BY <1>1, <2>1
  <2> QED
    BY <2>2 DEF Packet
<1>3. /\ Len(a) \in Nat
      /\ \A k \in 1 .. Len(a) : /\ a[k] \in SentBurst /\ Len(a[k].frags) \in Nat
                                /\ \A i \in 1 .. Len(a[k].frags) : a[k].frags[i].alpdu \in D
  <2>1. \A t \in SentBurst : t.frags \in Seq(SentFrag)
    BY DEF SentBurst
  <2>2. \A fh \in SentFrag : fh.alpdu \in D
    BY DEF SentFrag
  <2>3. \A k \in 1 .. Len(a) : a[k] \in SentBurst /\ a[k].frags \in Seq(SentFrag)
    BY <2>1
  <2>4. \A t \in Seq(SentFrag) : Len(t) \in Nat /\ \A i \in 1 .. Len(t) : t[i].alpdu \in D
    BY <2>2
  <2> QED
    BY <2>3, <2>4
<1>4. \A i \in 1 .. Len(q) : q[i] \in D
  OBVIOUS
<1>5. InOrder(s, q, pkts) /\ Numbered(s, q, pkts, nx, n) /\ Stream(s, a, q, pkts, n)
  BY DEF Sending
<1>6. \A f, x : x \in D => Number(s, f, x, pk2) = Number(s, f, x, pkts)
  <2>1. D \subseteq 1 .. Len(pkts) + 1
    BY DEF More
  <2> QED
    BY <2>1, NumberMore
<1>7. \A f, x : x \in D => (Mate(x, s, f, pk2) <=> Mate(x, s, f, pkts))
  BY <1>1 DEF Mate
<1> HIDE DEF P, D
<1>8. ASSUME NEW f PROVE Gone(s, f, q2, pk2) = Gone(s, f, q, pkts)
  BY <1>1, <1>7 DEF Gone, D
<1>9. Numbered(s, q2, pk2, nx, n)
  BY <1>5, <1>8 DEF Numbered
<1>10. \A z \in Spots(a, 0) : Spot(a, z).alpdu \in D
  BY <1>3 DEF Spots, Spot
<1>11. Ahead(a, q, 0) \subseteq Ahead(a, q2, 0)
  <2>1. Range(q) = {q[i] : i \in 1 .. Len(q)}
    BY DEF Range
  <2>2. \A x \in Range(q) : x \in Range(q2)
    BY <1>4, <2>1 DEF D
  <2> QED
    BY <2>2 DEF Ahead
<1>12. ASSUME NEW z \in Spots(a, 0)
       PROVE  /\ Genuine(Spot(a, z), s, pk2, n) /\ Leads(Spot(a, z), q2, pk2)
              /\ Spot(a, z).alpdu \in Ahead(a, q2, 0)
  <2> DEFINE fh == Spot(a, z)
  <2>1. Genuine(fh, s, pkts, n) /\ Leads(fh, q, pkts) /\ fh.alpdu \in Ahead(a, q, 0) /\ fh.alpdu \in D
    BY <1>5, <1>10 DEF Stream
  <2> HIDE DEF fh
  <2>2. Genuine(fh, s, pk2, n)
    BY <1>1, <1>6, <1>7, <2>1 DEF Genuine
  <2>3. Leads(fh, q2, pk2)
    <3> SUFFICES ASSUME NEW i \in 1 .. Len(q2), pk2[q2[i]].frag_id = fh.frag_id
                 PROVE  fh.alpdu <= q2[i] /\ (fh.alpdu = q2[i] => END \notin fh.start_end)
      BY DEF Leads
    <3>1. CASE q2[i] = P
      <4>1. fh.alpdu < P /\ fh.alpdu \in Nat /\ P \in Nat
        BY <1>1, <2>1 DEF P, D, More
      <4> QED
        BY <3>1, <4>1
    <3>2. ASSUME NEW j \in 1 .. Len(q), q2[i] = q[j]
          PROVE  fh.alpdu <= q2[i] /\ (fh.alpdu = q2[i] => END \notin fh.start_end)
      <4>1. pkts[q[j]].frag_id = fh.frag_id
        BY <1>1, <1>4, <3>2
      <4> QED
        BY <2>1, <3>2, <4>1 DEF Leads
    <3> QED
      BY <3>1, <3>2 DEF P
  <2> QED
    BY <1>11, <2>1, <2>2, <2>3 DEF fh
<1>13. Stream(s, a, q2, pk2, n)
  BY <1>5, <1>12 DEF Stream
<1>14. PICK off : Counts(off, s, a, q, pkts, heard)
  BY DEF Sending
<1> DEFINE off2 == [k \in 1 .. Len(a) + 1 |-> [p \in DOMAIN pk2 |-> IF p = P THEN 0 ELSE off[k][p]]]
<1>15. \A k \in 1 .. Len(a) + 1 : /\ off2[k][P] = 0
                                  /\ \A p \in D : off2[k][p] = off[k][p]
  <2>1. P \in DOMAIN pk2 /\ \A p \in D : p \in DOMAIN pk2 /\ p # P
    BY <1>1 DEF P, More
  <2> QED
    BY <2>1
<1> HIDE DEF off2
<1>16. 1 \in 1 .. Len(a) + 1 /\ Len(a) + 1 \in 1 .. Len(a) + 1
       /\ \A k \in 1 .. Len(a) : k \in 1 .. Len(a) + 1 /\ k + 1 \in 1 .. Len(a) + 1
  BY <1>3
<1>17. Counts(off2, s, a, q2, pk2, h2)
  <2> SUFFICES ASSUME NEW p \in DOMAIN pk2, pk2[p].src = s
               PROVE  /\ \A k \in 1 .. Len(a) + 1 : off2[k][p] \in Nat /\ off2[k][p] <= pk2[p].total_length
                      /\ h2[p] <= off2[1][p]
                      /\ \A k \in 1 .. Len(a) : off2[k + 1][p] = off2[k][p] + Bytes(a[k].frags, p)
                      /\ off2[Len(a) + 1][p] + (IF p \in Range(q2) THEN pk2[p].psize ELSE 0)
                           = pk2[p].total_length
    BY DEF Counts
  <2>1. CASE p = P
    <3>1. ASSUME NEW k \in 1 .. Len(a) PROVE Bytes(a[k].frags, P) = 0
      <4>1. \A i \in 1 .. Len(a[k].frags) : a[k].frags[i].alpdu # P
        BY <1>1, <1>3
      <4> QED
        BY <4>1 DEF Bytes, Part
    <3>2. P \in Range(q2) /\ h2[P] = 0
      BY <2>1 DEF P
    <3>3. \A k \in 1 .. Len(a) + 1 : off2[k][P] \in Nat /\ off2[k][P] <= pk2[P].total_length
      BY <1>1, <1>2, <1>15
    <3>4. h2[P] <= off2[1][P]
      BY <1>15, <1>16, <3>2
    <3>5. \A k \in 1 .. Len(a) : off2[k + 1][P] = off2[k][P] + Bytes(a[k].frags, P)
      BY <1>15, <1>16, <3>1
    <3>6. off2[Len(a) + 1][P] + (IF P \in Range(q2) THEN pk2[P].psize ELSE 0) = pk2[P].total_length
      BY <1>1, <1>2, <1>15, <1>16, <3>2
    <3> QED
      BY <2>1, <3>3, <3>4, <3>5, <3>6
  <2>2. CASE p # P
    <3>1. p \in D /\ pk2[p] = pkts[p] /\ h2[p] = heard[p] /\ (p \in Range(q2) <=> p \in Range(q))
      BY <1>1, <2>2 DEF D
    <3>2. /\ \A k \in 1 .. Len(a) + 1 : off[k][p] \in Nat /\ off[k][p] <= pkts[p].total_length
          /\ heard[p] <= off[1][p]
          /\ \A k \in 1 .. Len(a) : off[k + 1][p] = off[k][p] + Bytes(a[k].frags, p)
          /\ off[Len(a) + 1][p] + (IF p \in Range(q) THEN pkts[p].psize ELSE 0) = pkts[p].total_length
      BY <1>14, <3>1 DEF Counts, D
    <3>3. \A k \in 1 .. Len(a) + 1 : off2[k][p] = off[k][p]
      BY <1>15, <3>1
    <3>4. \A k \in 1 .. Len(a) + 1 : off2[k][p] \in Nat /\ off2[k][p] <= pk2[p].total_length
      BY <3>1, <3>2, <3>3
    <3>5. h2[p] <= off2[1][p]
      BY <1>16, <3>1, <3>2, <3>3
    <3>6. \A k \in 1 .. Len(a) : off2[k + 1][p] = off2[k][p] + Bytes(a[k].frags, p)
      BY <1>16, <3>2, <3>3
    <3>7. off2[Len(a) + 1][p] = off[Len(a) + 1][p]
      BY <1>16, <3>3
    <3> QED
      BY <3>1, <3>2, <3>4, <3>5, <3>6, <3>7
  <2> QED
    BY <2>1, <2>2
<1> QED
  BY <1>9, <1>13, <1>17 DEF Sending

LEMMA ReceivingMore ==
    ASSUME LinkInv, NEW pk2, More(pk2), NEW d, NEW r \in Kept, NEW A, NEW A2, NEW B, NEW h2, NEW n \in Nat,
           Receiving(d, r, A, B, pkts, heard, n),
           \A x \in Senders : /\ A[x] \subseteq DOMAIN pkts /\ A[x] \subseteq A2[x]
                              /\ A2[x] \subseteq A[x] \cup {Len(pkts) + 1},
           \A x \in DOMAIN pkts : h2[x] = heard[x]
    PROVE  Receiving(d, r, A2, B, pk2, h2, n)
<1> DEFINE P == Len(pkts) + 1
           D == DOMAIN pkts
<1>1. /\ \A p \in D : p \in DOMAIN pk2 /\ p \in Nat /\ p < P /\ pk2[p] = pkts[p]
      /\ P \notin D /\ D \subseteq 1 .. P /\ P \in 1 .. P /\ P \in Nat
  BY DEF More
<1>2. \A s, f : /\ \A x \in D : Number(s, f, x, pk2) = Number(s, f, x, pkts)
                /\ Number(s, f, P, pk2) = Number(s, f, P, pkts)
                /\ Number(s, f, Len(pk2) + 1, pk2) = Number(s, f, P, pkts)
  BY <1>1, NumberMore
<1>3. \A s, f, x : x \in D => (Mate(x, s, f, pk2) <=> Mate(x, s, f, pkts))
  BY <1>1 DEF Mate
<1>4. \A x \in Senders : A[x] \subseteq D /\ A[x] \subseteq A2[x] /\ A2[x] \subseteq A[x] \cup {P}
  OBVIOUS
<1>13. START \in pk2[P].start_end /\ \A x \in DOMAIN pk2 : x = P \/ x \in D
  BY DEF More
<1>5. \A x \in D : h2[x] = heard[x]
  OBVIOUS
<1>6. \A s \in Senders, f \in Prios : r.ctx[Bucket(s, f)].pkt \in {NULL} \cup D
  <2>1. \A s \in Senders, f \in Prios : Bucket(s, f) \in Buckets
    BY DEF Buckets
  <2>2. \A b \in Buckets : r.ctx[b] \in SentContext
    BY DEF Kept
  <2> QED
    BY <2>1, <2>2 DEF SentContext
<1>7. \A i \in 1 .. Len(Passed(r.up)) : Passed(r.up)[i] \in D
  BY DEF Receiving, Promised
<1>8. /\ \A s \in Senders, f \in Prios : \E e : Stands(e, r.ctx[Bucket(s, f)], d, s, f, A[s], B[s], pkts, heard, n)
      /\ Promised(Passed(r.up), d, A, pkts, heard)
  BY DEF Receiving
<1>9. \A x \in D : pkts[x].src \in Senders
  BY PacketType
<1>10. Len(pkts) + 1 = P
  OBVIOUS
<1> HIDE DEF P, D
<1>11. ASSUME NEW s \in Senders, NEW f \in Prios
       PROVE  \E e : Stands(e, r.ctx[Bucket(s, f)], d, s, f, A2[s], B[s], pk2, h2, n)
  <2> DEFINE c == r.ctx[Bucket(s, f)]
  <2>1. PICK e : Stands(e, c, d, s, f, A[s], B[s], pkts, heard, n)
    BY <1>8
  <2>2. c.pkt \in {NULL} \cup D
    BY <1>6
  <2> HIDE DEF c
  <2>3. /\ e \in Int /\ n - 1 <= e /\ c.exp_sn = e % SeqnoMod /\ e <= n + Number(s, f, P, pkts)
        /\ \A x \in A[s] : Mate(x, s, f, pkts) => e <= n + Number(s, f, x, pkts)
        /\ c.pkt # NULL =>
             /\ c.pkt \in D /\ Mate(c.pkt, s, f, pkts) /\ pkts[c.pkt].dst = d
             /\ START \notin pkts[c.pkt].start_end /\ c.pkt \notin B[s]
             /\ e <= n + Number(s, f, c.pkt, pkts)
             /\ c.pkt \in A[s] => c.len <= heard[c.pkt]
             /\ \A x \in A[s] : Mate(x, s, f, pkts) => c.pkt <= x
    BY <1>10, <2>1 DEF Stands, D
  <2>8. ASSUME NEW x \in DOMAIN pk2, Done(x, d, s, f, A2[s], pk2, h2)
        PROVE  n + Number(s, f, x, pk2) + 1 <= e
    <3>1. x \in D
      BY <1>13, <2>8 DEF Done
    <3>2. Done(x, d, s, f, A[s], pkts, heard)
      BY <1>1, <1>3, <1>4, <1>5, <2>8, <3>1 DEF Done
    <3>3. n + Number(s, f, x, pkts) + 1 <= e
      BY <2>1, <3>1, <3>2 DEF Stands, D
    <3> QED
      BY <1>2, <3>1, <3>3
  <2>4. e <= n + Number(s, f, Len(pk2) + 1, pk2)
    BY <1>2, <2>3
  <2>5. \A x \in A2[s] : Mate(x, s, f, pk2) => e <= n + Number(s, f, x, pk2)
    BY <1>2, <1>3, <1>4, <2>3
  <2>6. ASSUME c.pkt # NULL
        PROVE  /\ c.pkt \in DOMAIN pk2 /\ Mate(c.pkt, s, f, pk2) /\ pk2[c.pkt].dst = d
               /\ START \notin pk2[c.pkt].start_end /\ c.pkt \notin B[s]
               /\ e <= n + Number(s, f, c.pkt, pk2)
               /\ c.pkt \in A2[s] => c.len <= h2[c.pkt]
               /\ \A x \in A2[s] : Mate(x, s, f, pk2) => c.pkt <= x
    <3>1. c.pkt \in D /\ c.pkt # P
      BY <1>1, <2>3, <2>6
    <3>2. c.pkt \in A2[s] => c.len <= h2[c.pkt]
      BY <1>4, <1>5, <2>3, <2>6, <3>1
    <3>3. \A x \in A2[s] : Mate(x, s, f, pk2) => c.pkt <= x
      <4> SUFFICES ASSUME NEW x \in A2[s], Mate(x, s, f, pk2) PROVE c.pkt <= x
        OBVIOUS
      <4>1. CASE x = P
        <5>1. c.pkt \in Nat /\ c.pkt < P /\ P \in Nat
          BY <1>1, <3>1
        <5> QED
          BY <4>1, <5>1
      <4>2. CASE x # P
        <5>1. x \in A[s] /\ x \in D
          BY <1>4, <4>2
        <5> QED
          BY <1>3, <2>3, <2>6, <5>1
      <4> QED
        BY <4>1, <4>2
    <3> QED
      BY <1>1, <1>2, <1>3, <2>3, <2>6, <3>1, <3>2, <3>3
  <2>7. Stands(e, c, d, s, f, A2[s], B[s], pk2, h2, n)
    BY <2>3, <2>4, <2>5, <2>6, <2>8 DEF Stands
  <2> QED
    BY <2>7 DEF c
<1>12. Promised(Passed(r.up), d, A2, pk2, h2)
  <2> DEFINE u == Passed(r.up)
  <2>1. Promised(u, d, A, pkts, heard) /\ \A i \in 1 .. Len(u) : u[i] \in D
    BY <1>7, <1>8
  <2> HIDE DEF u
  <2>2. ASSUME NEW i \in 1 .. Len(u)
        PROVE  /\ u[i] \in DOMAIN pk2 /\ pk2[u[i]].dst = d /\ h2[u[i]] = pk2[u[i]].total_length
               /\ \A x \in A2[pk2[u[i]].src] : Same(u[i], x, pk2) => u[i] < x
    <3>1. u[i] \in D /\ pk2[u[i]] = pkts[u[i]] /\ pkts[u[i]].src \in Senders /\ u[i] < P
      BY <1>1, <1>9, <2>1
    <3>2. pkts[u[i]].dst = d /\ heard[u[i]] = pkts[u[i]].total_length
      BY <2>1 DEF Promised
    <3>3. \A x \in A2[pkts[u[i]].src] : Same(u[i], x, pk2) => u[i] < x
      <4> SUFFICES ASSUME NEW x \in A2[pkts[u[i]].src], Same(u[i], x, pk2) PROVE u[i] < x
        OBVIOUS
      <4>1. CASE x = P
        BY <3>1, <4>1
      <4>2. CASE x # P
        <5>1. x \in A[pkts[u[i]].src] /\ x \in D
          BY <1>4, <3>1, <4>2
        <5>2. Same(u[i], x, pkts)
          BY <1>1, <3>1, <5>1 DEF Same
        <5> QED
          BY <2>1, <5>1, <5>2 DEF Promised
      <4> QED
        BY <4>1, <4>2
    <3> QED
      BY <1>1, <1>5, <3>1, <3>2, <3>3
  <2>3. ASSUME NEW i \in 1 .. Len(u), NEW j \in 1 .. Len(u), i < j, Same(u[i], u[j], pk2)
        PROVE  u[i] < u[j]
    <3>1. Same(u[i], u[j], pkts)
      BY <1>1, <2>1, <2>3 DEF Same
    <3> QED
      BY <2>1, <2>3, <3>1 DEF Promised
  <2> QED
    BY <2>2, <2>3 DEF Promised, u
<1> QED
  BY <1>11, <1>12 DEF Receiving

LEMMA NotOverType ==
    ASSUME LinkInv, NEW x \in Senders
    PROVE  NotOver[x] \subseteq DOMAIN pkts /\ NotOver[x] = Ahead(air[x], queue[x], 0)
<1>1. \A i \in 1 .. Len(queue[x]) : queue[x][i] \in DOMAIN pkts
  BY QueueType
<1>2. DOMAIN queue[x] = 1 .. Len(queue[x])
  BY QueueType
<1>3. \A z \in Spots(air[x], 0) : Spot(air[x], z).alpdu \in DOMAIN pkts
  <2>1. \A fh \in SentFrag : fh.alpdu \in DOMAIN pkts
    BY DEF SentFrag
  <2>2. \A z \in Spots(air[x], 0) : Spot(air[x], z) \in SentFrag
    BY AirType DEF Spots, Spot
  <2> QED
    BY <2>1, <2>2
<1> QED
  BY <1>1, <1>2, <1>3 DEF NotOver, Ahead, Range

LEMMA SendPromises ==
    ASSUME LinkInv, NEW n \in Nat, Promising(n), NEW s \in Senders, NEW d \in Receivers, NEW f \in Prios,
           NEW size \in Sizes, Send(s, d, f, size)
    PROVE  /\ Promising(n)'
           /\ More(pkts') /\ pkts'[Len(pkts) + 1].total_length > 0 /\ pkts'[Len(pkts) + 1].psize > 0
           /\ pkts'[Len(pkts) + 1].src = s /\ pkts'[Len(pkts) + 1].dst = d
           /\ pkts'[Len(pkts) + 1].frag_id = f
           /\ heard'[Len(pkts) + 1] = 0
           /\ \A x \in DOMAIN pkts : heard'[x] = heard[x]
<1> DEFINE h == [src |-> s, dst |-> d, frag_id |-> f, total_length |-> size, psize |-> size,
                 start_end |-> {START, END}]
           P == Len(pkts) + 1
           q == Insert(queue[s], Len(pkts'), [p \in DOMAIN pkts' |-> pkts'[p].frag_id])
<1>1. /\ pkts' = Append(pkts, h) /\ heard' = Append(heard, 0)
      /\ queue' = [queue EXCEPT ![s] = q] /\ UNCHANGED <<next, air, ctx, up>>
  BY DEF Send
<1>2. /\ h \in Packet /\ h.src = s /\ h.dst = d /\ h.frag_id = f /\ START \in h.start_end
      /\ h.psize = h.total_length /\ h.total_length > 0
  <2>1. size \in Nat /\ size > 0
    BY LinkAssumption
  <2> QED
    BY <2>1 DEF Packet
<1> HIDE DEF h
<1>3. pkts \in Seq(Packet) /\ Len(pkts) \in Nat /\ heard \in [1 .. Len(pkts) -> Nat]
      /\ queue \in [Senders -> Seq(DOMAIN pkts)]
  BY DEF LinkInv, TypeOK
<1>4. /\ pkts' \in Seq(Packet) /\ Len(pkts') = P /\ DOMAIN pkts' = 1 .. P
      /\ pkts'[P] = h /\ \A p \in DOMAIN pkts : p \in DOMAIN pkts' /\ p < P /\ pkts'[p] = pkts[p]
      /\ DOMAIN pkts = 1 .. Len(pkts)
  BY <1>1, <1>2, <1>3
<1>5. More(pkts')
  BY <1>2, <1>3, <1>4 DEF More
<1>6. heard'[P] = 0 /\ \A x \in DOMAIN pkts : heard'[x] = heard[x]
  <2>1. heard \in Seq(Nat) /\ Len(heard) = Len(pkts)
    BY <1>3, SMTT(30)
  <2> QED
    BY <1>1, <1>4, <2>1
<1>7. SendingAll(n) /\ \A x \in Receivers : Receiving(x, [ctx |-> ctx[x], up |-> up[x]], NotOver, NotBegun, pkts, heard, n)
  BY DEF Promising, SendingAll
<1>8. /\ InOrder(s, q, pkts')
      /\ \A i \in 1 .. Len(q) : q[i] = P \/ \E j \in 1 .. Len(queue[s]) : q[i] = queue[s][j]
      /\ \A x : x \in Range(q) <=> x \in Range(queue[s]) \/ x = P
  <2>1. Waits(s, queue[s], pkts) /\ InOrder(s, queue[s], pkts)
    BY <1>7, QueueType DEF SendingAll, Sending
  <2>2. TookIn(s, queue[s], Insert(queue[s], Len(Append(pkts, h)),
               [p \in DOMAIN Append(pkts, h) |-> Append(pkts, h)[p].frag_id]), Append(pkts, h))
    BY <1>2, <1>3, <2>1, OrderInsert, Zenon
  <2>3. TookIn(s, queue[s], q, pkts')
    BY <1>1, <2>2
  <2> HIDE DEF q
  <2> QED
    BY <1>4, <2>3 DEF TookIn
<1>9. ASSUME NEW x \in Senders
      PROVE  Sending(x, queue'[x], air[x], next[x], pkts', heard', n)
  <2>1. /\ air[x] \in Seq(SentBurst) /\ queue[x] \in Seq(DOMAIN pkts)
        /\ Sending(x, queue[x], air[x], next[x], pkts, heard, n)
    BY <1>7, QueueType DEF SendingAll, LinkInv, Sent
  <2>2. CASE x = s
    <3>1. queue'[x] = q
      BY <1>1, <1>3, <2>2
    <3>2. /\ pkts'[Len(pkts) + 1].src = s => Len(pkts) + 1 \in Range(q)
          /\ \A y \in DOMAIN pkts : y \in Range(q) <=> y \in Range(queue[s])
      BY <1>4, <1>8
    <3> HIDE DEF q
    <3>3. Sending(s, q, air[s], next[s], pkts', heard', n)
      BY <1>5, <1>6, <1>8, <2>1, <2>2, <3>2, SendingMore
    <3> QED
      BY <2>2, <3>1, <3>3
  <2>3. CASE x # s
    <3>1. queue'[x] = queue[x]
      BY <1>1, <1>3, <2>3
    <3>2. InOrder(x, queue[x], pkts')
      <4>1. InOrder(x, queue[x], pkts) /\ \A i \in 1 .. Len(queue[x]) : queue[x][i] \in DOMAIN pkts
        BY <2>1, QueueType DEF Sending
      <4>2. pkts'[P].src # x /\ \A r \in DOMAIN pkts' : r = P \/ r \in DOMAIN pkts
        BY <1>2, <1>3, <1>4, <2>3
      <4> QED
        BY <1>4, <4>1, <4>2 DEF InOrder, Mate
    <3>3. pkts'[Len(pkts) + 1].src = x => Len(pkts) + 1 \in Range(queue[x])
      BY <1>2, <1>4, <2>3
    <3>4. Sending(x, queue[x], air[x], next[x], pkts', heard', n)
      BY <1>5, <1>6, <2>1, <3>2, <3>3, SendingMore
    <3> QED
      BY <3>1, <3>4
  <2> QED
    BY <2>2, <2>3
<1>10. NotBegun' = NotBegun
  BY <1>1 DEF NotBegun
<1>11. ASSUME NEW x \in Senders
       PROVE  /\ NotOver[x] \subseteq DOMAIN pkts /\ NotOver[x] \subseteq NotOver'[x]
              /\ NotOver'[x] \subseteq NotOver[x] \cup {Len(pkts) + 1}
  <2>1. NotOver[x] \subseteq DOMAIN pkts /\ NotOver[x] = Ahead(air[x], queue[x], 0)
    BY NotOverType
  <2>2. NotOver'[x] = Ahead(air[x], queue'[x], 0)
    BY <1>1 DEF NotOver
  <2>3. \A y \in Range(queue'[x]) : y \in Range(queue[x]) \/ y = P
    BY <1>1, <1>3, <1>8
  <2>4. \A y \in Range(queue[x]) : y \in Range(queue'[x])
    BY <1>1, <1>3, <1>8
  <2> QED
    BY <2>1, <2>2, <2>3, <2>4 DEF Ahead
<1>12. ASSUME NEW x \in Receivers
       PROVE  Receiving(x, [ctx |-> ctx[x], up |-> up[x]], NotOver', NotBegun, pkts', heard', n)
  <2> DEFINE r == [ctx |-> ctx[x], up |-> up[x]]
  <2>1. r \in Kept
    BY DEF Kept, LinkInv, TypeOK, Sent
  <2>2. Receiving(x, r, NotOver, NotBegun, pkts, heard, n)
    BY <1>7
  <2> HIDE DEF r
  <2>3. Receiving(x, r, NotOver', NotBegun, pkts', heard', n)
    BY <1>5, <1>6, <1>11, <2>1, <2>2, ReceivingMore
  <2> QED
    BY <2>3 DEF r
<1>13. Promising(n)'
  BY <1>1, <1>9, <1>10, <1>12 DEF Promising
<1> QED
  BY <1>2, <1>4, <1>5, <1>6, <1>13

-----------------------------------------------------------------------------
(* A timeslot is filled *)

\* The fragments of the first k packets of the queue q, of the next one as well if g.
Carries(q, k, g, room, frags) ==
    /\ k \in 0 .. Len(q) /\ g \in BOOLEAN /\ (g => k + 1 \in 1 .. Len(q))
    /\ Len(frags) = IF g THEN k + 1 ELSE k
    /\ \A i \in 1 .. Len(frags) :
         i \in 1 .. Len(q) /\ frags[i].alpdu = q[i] /\ frags[i].frag_id = pkts[q[i]].frag_id
    /\ \A i \in 1 .. k : /\ frags[i].start_end = pkts[q[i]].start_end \cup {END}
                         /\ frags[i].length = pkts[q[i]].psize
    /\ g => /\ frags[k + 1].start_end = pkts[q[k + 1]].start_end \cap {START}
            /\ frags[k + 1].length = room

\* What becomes of the packets: the one that is cut, and the others.
CutBy(p, room, pk2) ==
    /\ START \notin pk2[p].start_end
    /\ START \in pkts[p].start_end =>
         /\ pk2[p].total_length = pkts[p].total_length + PHS + TS
         /\ pk2[p].psize = (pkts[p].total_length + PHS + TS) - room
    /\ START \notin pkts[p].start_end =>
         pk2[p].total_length = pkts[p].total_length /\ pk2[p].psize = pkts[p].psize - room
Untouched(p, pk2) ==
    /\ START \in pk2[p].start_end <=> START \in pkts[p].start_end
    /\ pk2[p].total_length = pkts[p].total_length /\ pk2[p].psize = pkts[p].psize
IsCut(p, q, k, g) == g /\ p = q[k + 1]
Serves(q, k, g, room, pk2) ==
    /\ DOMAIN pk2 = DOMAIN pkts /\ Len(pk2) = Len(pkts)
    /\ g => room \in Nat /\ room < pkts[q[k + 1]].psize /\ room > 0
    /\ \A p \in DOMAIN pkts :
         /\ pk2[p].src = pkts[p].src /\ pk2[p].dst = pkts[p].dst /\ pk2[p].frag_id = pkts[p].frag_id
         /\ IsCut(p, q, k, g) => CutBy(p, room, pk2)
         /\ ~IsCut(p, q, k, g) => Untouched(p, pk2)

LEMMA SlotCarries ==
    ASSUME LinkInv, NEW s \in Senders, NEW bs \in BurstSizes
    PROVE  /\ Carries(queue[s], Whole(s, bs), Goes(s, bs), Room(s, bs), Frags(s, bs))
           /\ \A i \in 1 .. Whole(s, bs) :
                /\ i \in 1 .. Len(queue[s])
                /\ START \notin pkts[queue[s][i]].start_end =>
                     Frags(s, bs)[i].seqno =
                       (next[s][pkts[queue[s][i]].frag_id]
                          + Cardinality(Closing(s, pkts[queue[s][i]].frag_id, i - 1))) % SeqnoMod
<1> DEFINE k == Whole(s, bs)
           q == queue[s]
           g == Goes(s, bs)
           frags == Frags(s, bs)
           whole == [i \in 1 .. k |-> LastFrag(s, i)]
           cut == First(s, bs)
<1>1. k \in 0 .. Len(q) /\ Len(q) \in Nat /\ g \in BOOLEAN /\ (g => k + 1 \in 1 .. Len(q))
  <2>1. k \in 0 .. Len(q) /\ Len(q) \in Nat
    BY RoomFits, QueueType
  <2> QED
    BY <2>1 DEF Goes
<1>2. frags = whole \o (IF g THEN <<cut>> ELSE << >>)
  BY DEF Frags
<1>3. \A i \in 1 .. k : whole[i] = LastFrag(s, i)
  OBVIOUS
<1>4. whole \in Seq({LastFrag(s, i) : i \in 1 .. k}) /\ Len(whole) = k
  BY <1>1
<1> HIDE DEF whole, cut, k, g
<1>5. /\ Len(frags) = IF g THEN k + 1 ELSE k
      /\ \A i \in 1 .. k : frags[i] = LastFrag(s, i)
      /\ g => frags[k + 1] = cut
  <2>1. CASE g
    <3>1. frags = whole \o <<cut>>
      BY <1>2, <2>1
    <3> QED
      BY <1>1, <1>3, <1>4, <2>1, <3>1, SMTT(30)
  <2>2. CASE ~g
    <3>1. frags = whole \o << >>
      BY <1>2, <2>2
    <3> QED
      BY <1>1, <1>3, <1>4, <2>2, <3>1
  <2> QED
    BY <1>1, <2>1, <2>2
<1>6. g => /\ cut.alpdu = q[k + 1] /\ cut.frag_id = pkts[q[k + 1]].frag_id
           /\ cut.start_end = pkts[q[k + 1]].start_end \cap {START} /\ cut.length = Room(s, bs)
  BY DEF First, cut, k
<1>7. ASSUME NEW i \in 1 .. k
      PROVE  /\ i \in 1 .. Len(q)
             /\ LastFrag(s, i).alpdu = q[i] /\ LastFrag(s, i).frag_id = pkts[q[i]].frag_id
             /\ LastFrag(s, i).start_end = pkts[q[i]].start_end \cup {END}
             /\ LastFrag(s, i).length = pkts[q[i]].psize
             /\ START \notin pkts[q[i]].start_end =>
                  LastFrag(s, i).seqno = (next[s][pkts[q[i]].frag_id]
                       + Cardinality(Closing(s, pkts[q[i]].frag_id, i - 1))) % SeqnoMod
  <2>1. i \in 1 .. Len(q)
    BY <1>1
  <2> QED
    BY <2>1, Zenon DEF LastFrag
<1> HIDE DEF q, frags
<1>8. \A i \in 1 .. Len(frags) :
        i \in 1 .. Len(q) /\ frags[i].alpdu = q[i] /\ frags[i].frag_id = pkts[q[i]].frag_id
  <2> SUFFICES ASSUME NEW i \in 1 .. Len(frags)
               PROVE  i \in 1 .. Len(q) /\ frags[i].alpdu = q[i] /\ frags[i].frag_id = pkts[q[i]].frag_id
    OBVIOUS
  <2>1. i \in 1 .. k \/ (g /\ i = k + 1)
    BY <1>1, <1>5
  <2> QED
    BY <1>1, <1>5, <1>6, <1>7, <2>1
<1>9. Carries(q, k, g, Room(s, bs), frags)
  BY <1>1, <1>5, <1>6, <1>7, <1>8 DEF Carries
<1> QED
  BY <1>5, <1>7, <1>9 DEF q, k, g, frags

LEMMA CutIs ==
    ASSUME NEW h \in Packet, NEW room \in Nat
    PROVE  /\ Cut(h, room).dst = h.dst /\ START \notin Cut(h, room).start_end
           /\ START \in h.start_end => /\ Cut(h, room).total_length = h.total_length + PHS + TS
                                       /\ Cut(h, room).psize = (h.total_length + PHS + TS) - room
           /\ START \notin h.start_end => /\ Cut(h, room).total_length = h.total_length
                                          /\ Cut(h, room).psize = h.psize - room
<1> DEFINE o == Opened(h)
<1>1. Cut(h, room) = [o EXCEPT !.psize = @ - room, !.start_end = {}]
  BY DEF Cut
<1>2. CASE START \in h.start_end
  <2>1. o = [h EXCEPT !.total_length = @ + PHS + TS, !.psize = h.total_length + PHS + TS]
    BY <1>2 DEF Opened
  <2>2. h = [src |-> h.src, dst |-> h.dst, frag_id |-> h.frag_id, total_length |-> h.total_length,
             psize |-> h.psize, start_end |-> h.start_end]
    BY DEF Packet
  <2> HIDE DEF o
  <2>3. o.dst = h.dst /\ o.total_length = h.total_length + PHS + TS /\ o.psize = h.total_length + PHS + TS
        /\ DOMAIN o = DOMAIN h
    BY <2>1, <2>2
  <2>4. DOMAIN h = {"src", "dst", "frag_id", "total_length", "psize", "start_end"}
    BY <2>2
  <2>5. /\ Cut(h, room).dst = o.dst /\ Cut(h, room).start_end = {}
        /\ Cut(h, room).total_length = o.total_length /\ Cut(h, room).psize = o.psize - room
    BY <1>1, <2>3, <2>4
  <2>6. Cut(h, room).psize = (h.total_length + PHS + TS) - room
    BY <2>3, <2>5
  <2>7. Cut(h, room).total_length = h.total_length + PHS + TS
    BY <2>3, <2>5
  <2>8. Cut(h, room).dst = h.dst /\ START \notin Cut(h, room).start_end
    BY <2>3, <2>5
  <2> QED
    BY <1>2, <2>6, <2>7, <2>8
<1>3. CASE START \notin h.start_end
  <2>1. o = h
    BY <1>3 DEF Opened
  <2> HIDE DEF o
  <2> QED
    BY <1>1, <1>3, <2>1 DEF Packet
<1> QED
  BY <1>2, <1>3

LEMMA SlotServes ==
    ASSUME LinkInv, NEW s \in Senders, NEW bs \in BurstSizes
    PROVE  Serves(queue[s], Whole(s, bs), Goes(s, bs), Room(s, bs), Served(s, bs))
<1> DEFINE k == Whole(s, bs)
           q == queue[s]
           g == Goes(s, bs)
           room == Room(s, bs)
           pk == Served(s, bs)
<1>1. /\ DOMAIN pk = DOMAIN pkts /\ Len(pk) = Len(pkts)
      /\ \A p \in DOMAIN pkts : pk[p].src = pkts[p].src /\ pk[p].frag_id = pkts[p].frag_id
  BY ServedType
<1>2. g => room \in Nat /\ room < pkts[q[k + 1]].psize /\ room > 0
  BY RoomFits
<1>3. ASSUME NEW p \in DOMAIN pkts
      PROVE  /\ pk[p].dst = pkts[p].dst
             /\ IsCut(p, q, k, g) => CutBy(p, room, pk)
             /\ ~IsCut(p, q, k, g) => Untouched(p, pk)
  <2>1. pkts[p] \in Packet
    BY PacketType
  <2>2. CASE IsCut(p, q, k, g)
    <3>1. pk[p] = Cut(pkts[p], room)
      BY <2>2 DEF Served, IsCut
    <3>2. room \in Nat
      BY <1>2, <2>2 DEF IsCut
    <3> HIDE DEF pk, room
    <3> QED
      BY <2>1, <2>2, <3>1, <3>2, CutIs DEF CutBy
  <2>3. CASE ~IsCut(p, q, k, g) /\ p \in {q[i] : i \in 1 .. k}
    <3>1. pk[p] = [pkts[p] EXCEPT !.start_end = @ \cup {END}]
      BY <2>3 DEF Served, IsCut
    <3>2. START # END
      BY DEF START, END
    <3> HIDE DEF pk
    <3> QED
      BY <2>1, <2>3, <3>1, <3>2 DEF Packet, Untouched
  <2>4. CASE ~IsCut(p, q, k, g) /\ p \notin {q[i] : i \in 1 .. k}
    <3>1. pk[p] = pkts[p]
      BY <2>4 DEF Served, IsCut
    <3> HIDE DEF pk
    <3> QED
      BY <2>4, <3>1 DEF Untouched
  <2> QED
    BY <2>2, <2>3, <2>4
<1> HIDE DEF k, q, g, room, pk
<1>4. Serves(q, k, g, room, pk)
  BY <1>1, <1>2, <1>3 DEF Serves
<1> QED
  BY <1>4 DEF k, q, g, room, pk

\* What stays of the queue q after its first k packets.
RestOf(q, k, q2) ==
    /\ q2 \in Seq(DOMAIN pkts) /\ Len(q2) \in Nat /\ k + Len(q2) = Len(q)
    /\ \A i \in 1 .. Len(q2) : k + i \in 1 .. Len(q) /\ q2[i] = q[k + i]
    /\ \A j \in 1 .. Len(q) : /\ q[j] \in DOMAIN pkts
                              /\ q[j] \in Range(q2) <=> j > k
    /\ \A x : x \in Range(q) <=> \E j \in 1 .. Len(q) : x = q[j]
    /\ Range(q2) \subseteq Range(q)

LEMMA RestIsSo ==
    ASSUME NEW s, NEW q, Waits(s, q, pkts), NEW k \in 0 .. Len(q)
    PROVE  RestOf(q, k, SubSeq(q, k + 1, Len(q)))
<1> DEFINE r == SubSeq(q, k + 1, Len(q))
<1>0. q \in Seq(DOMAIN pkts)
  BY DEF Waits
<1>1. q \in Seq(DOMAIN pkts) /\ Len(q) \in Nat /\ DOMAIN q = 1 .. Len(q)
  BY <1>0
<1>a. k \in Nat /\ k <= Len(q)
  BY <1>1
<1>b. /\ r \in Seq(DOMAIN pkts) /\ Len(r) = Len(q) - k
      /\ \A i \in 1 .. Len(q) - k : r[i] = q[k + i]
  BY <1>0
<1>2. /\ r \in Seq(DOMAIN pkts) /\ Len(r) = Len(q) - k /\ DOMAIN r = 1 .. Len(r)
      /\ \A i \in 1 .. Len(q) - k : r[i] = q[k + i]
  <2> HIDE DEF r
  <2> QED
    BY <1>b
<1> HIDE DEF r
<1>3. Range(r) = {r[i] : i \in 1 .. Len(r)} /\ Range(q) = {q[i] : i \in 1 .. Len(q)}
  BY <1>1, <1>2 DEF Range
<1>4. /\ Len(r) \in Nat /\ k + Len(r) = Len(q) /\ k \in Nat
      /\ \A i \in 1 .. Len(r) : k + i \in 1 .. Len(q) /\ r[i] = q[k + i] /\ k + i > k
  BY <1>1, <1>2
<1>5. ASSUME NEW j \in 1 .. Len(q) PROVE q[j] \in DOMAIN pkts /\ (q[j] \in Range(r) <=> j > k)
  <2>1. q[j] \in DOMAIN pkts
    BY <1>1
  <2>2. ASSUME j > k PROVE q[j] \in Range(r)
    <3>1. j - k \in 1 .. Len(r) /\ k + (j - k) = j
      BY <1>1, <1>2, <2>2
    <3>2. r[j - k] = q[j]
      BY <1>4, <3>1
    <3> QED
      BY <1>3, <3>1, <3>2
  <2>3. ASSUME q[j] \in Range(r) PROVE j > k
    <3>1. PICK i \in 1 .. Len(r) : q[j] = r[i]
      BY <1>3, <2>3
    <3>2. q[j] = q[k + i] /\ k + i \in 1 .. Len(q) /\ k + i > k
      BY <1>4, <3>1
    <3>3. j = k + i
      BY <3>2 DEF Waits
    <3> QED
      BY <3>2, <3>3
  <2> QED
    BY <2>1, <2>2, <2>3
<1>6. Range(r) \subseteq Range(q)
  BY <1>3, <1>4
<1> QED
  BY <1>2, <1>3, <1>4, <1>5, <1>6 DEF RestOf, r

\* A timeslot of sender s takes the fragments from the queue q, which becomes q2.
Filled(s, q, k, g, room, frags, pk2, q2) ==
    /\ Waits(s, q, pkts) /\ InOrder(s, q, pkts) /\ RestOf(q, k, q2)
    /\ Carries(q, k, g, room, frags) /\ Serves(q, k, g, room, pk2)

LEMMA FilledOrder ==
    ASSUME LinkInv, NEW s \in Senders, NEW q, NEW k, NEW g, NEW room, NEW frags, NEW pk2, NEW q2,
           Filled(s, q, k, g, room, frags, pk2, q2)
    PROVE  InOrder(s, q2, pk2)
<1>1. /\ Waits(s, q, pkts) /\ InOrder(s, q, pkts) /\ RestOf(q, k, q2)
      /\ DOMAIN pk2 = DOMAIN pkts
      /\ \A p \in DOMAIN pkts : pk2[p].src = pkts[p].src /\ pk2[p].frag_id = pkts[p].frag_id
  BY DEF Filled, Serves
<1>2. /\ Len(q2) \in Nat /\ k \in Nat /\ Len(q) \in Nat
      /\ \A i \in 1 .. Len(q2) : /\ k + i \in 1 .. Len(q) /\ q2[i] = q[k + i] /\ q2[i] \in DOMAIN pkts
                                 /\ i \in Nat
  <2>1. k \in 0 .. Len(q) /\ q \in Seq(DOMAIN pkts)
    BY DEF Filled, Carries, Waits
  <2> QED
    BY <1>1, <2>1 DEF RestOf
<1>3. ASSUME NEW i \in 1 .. Len(q2), NEW j \in 1 .. Len(q2), i < j, pk2[q2[i]].frag_id = pk2[q2[j]].frag_id
      PROVE  q2[i] < q2[j]
  <2>1. k + i < k + j
    BY <1>2, <1>3
  <2>2. pkts[q[k + i]].frag_id = pkts[q[k + j]].frag_id
    <3>1. /\ q2[i] \in DOMAIN pkts /\ q2[j] \in DOMAIN pkts
          /\ q2[i] = q[k + i] /\ q2[j] = q[k + j]
      BY <1>2
    <3> QED
      BY <1>1, <1>3, <3>1
  <2> QED
    BY <1>1, <1>2, <2>1, <2>2 DEF InOrder
<1>4. ASSUME NEW i \in 1 .. Len(q2), NEW r \in DOMAIN pk2, Mate(r, s, pk2[q2[i]].frag_id, pk2), r > q2[i]
      PROVE  r \in Range(q2)
  <2>1. Mate(r, s, pkts[q[k + i]].frag_id, pkts) /\ r > q[k + i] /\ r \in DOMAIN pkts
    BY <1>1, <1>2, <1>4 DEF Mate
  <2>2. r \in Range(q)
    BY <1>1, <1>2, <2>1 DEF InOrder
  <2>3. PICK j \in 1 .. Len(q) : r = q[j]
    BY <1>1, <2>2 DEF RestOf
  <2>4. pkts[q[j]].frag_id = pkts[q[k + i]].frag_id
    BY <2>1, <2>3 DEF Mate
  <2>5. j > k
    <3>1. r \in Nat /\ q[k + i] \in Nat
      <4>1. DOMAIN pkts \subseteq Nat
        BY DEF LinkInv, TypeOK
      <4> QED
        BY <1>2, <2>1, <4>1
    <3>2. ~(j < k + i)
      BY <1>1, <1>2, <2>1, <2>3, <2>4, <3>1 DEF InOrder
    <3> QED
      BY <1>2, <3>2
  <2> QED
    BY <1>1, <2>3, <2>5 DEF RestOf
<1> QED
  BY <1>3, <1>4 DEF InOrder

\* The numbers of the packets of a flow.
LEMMA FilledNumbers ==
    ASSUME LinkInv, NEW q, NEW k, NEW g, NEW room, NEW pk2,
           Serves(q, k, g, room, pk2), NEW y, NEW f, NEW x \in Nat, x <= Len(pkts) + 1
    PROVE  /\ Fragmented(y, f, x, pkts) \subseteq Fragmented(y, f, x, pk2)
           /\ Number(y, f, x, pkts) <= Number(y, f, x, pk2)
           /\ ~(g /\ Mate(q[k + 1], y, f, pkts) /\ q[k + 1] < x)
                => /\ Fragmented(y, f, x, pk2) = Fragmented(y, f, x, pkts)
                   /\ Number(y, f, x, pk2) = Number(y, f, x, pkts)
<1>1. DOMAIN pkts = 1 .. Len(pkts) /\ Len(pkts) \in Nat
  BY DEF LinkInv, TypeOK
<1>2. \A r \in 1 .. x - 1 : r \in DOMAIN pkts /\ r < x
  BY <1>1
<1>3. \A r \in DOMAIN pkts : /\ Mate(r, y, f, pk2) <=> Mate(r, y, f, pkts)
                             /\ START \notin pkts[r].start_end => START \notin pk2[r].start_end
                             /\ ~IsCut(r, q, k, g) =>
                                  (START \notin pkts[r].start_end <=> START \notin pk2[r].start_end)
  BY DEF Serves, CutBy, Untouched, Mate
<1>4. Fragmented(y, f, x, pkts) \subseteq Fragmented(y, f, x, pk2)
  BY <1>2, <1>3 DEF Fragmented
<1>5. Number(y, f, x, pkts) <= Number(y, f, x, pk2)
  BY <1>4, NumberGrows
<1>6. ASSUME ~(g /\ Mate(q[k + 1], y, f, pkts) /\ q[k + 1] < x)
      PROVE  Fragmented(y, f, x, pk2) = Fragmented(y, f, x, pkts)
  BY <1>2, <1>3, <1>6 DEF Fragmented, IsCut
<1> QED
  BY <1>4, <1>5, <1>6 DEF Number

\* A packet of which a part was sent is the first of its flow that waits: all that are
\* fragmented and came before it are gone.
LEMMA FilledClosing ==
    ASSUME LinkInv, NEW s \in Senders, NEW q, NEW k, NEW g, NEW room, NEW frags, NEW pk2, NEW q2,
           Filled(s, q, k, g, room, frags, pk2, q2), NEW j \in 1 .. Len(q),
           START \notin pkts[q[j]].start_end
    PROVE  /\ Gone(s, pkts[q[j]].frag_id, q, pkts) = Fragmented(s, pkts[q[j]].frag_id, q[j], pk2)
           /\ \A i \in 1 .. j - 1 : pkts[q[i]].frag_id # pkts[q[j]].frag_id
<1> DEFINE f == pkts[q[j]].frag_id
           p == q[j]
<1>1. /\ Waits(s, q, pkts) /\ InOrder(s, q, pkts) /\ RestOf(q, k, q2)
      /\ DOMAIN pk2 = DOMAIN pkts
      /\ \A r \in DOMAIN pkts :
           /\ Mate(r, s, f, pk2) <=> Mate(r, s, f, pkts)
           /\ START \notin pkts[r].start_end => START \notin pk2[r].start_end
           /\ ~IsCut(r, q, k, g) => (START \notin pkts[r].start_end <=> START \notin pk2[r].start_end)
  BY DEF Filled, Serves, CutBy, Untouched, Mate
<1>2. q \in Seq(DOMAIN pkts) /\ Len(q) \in Nat /\ p \in DOMAIN pkts /\ p \in Nat
      /\ DOMAIN pkts = 1 .. Len(pkts) /\ Len(pkts) \in Nat
  <2>1. q \in Seq(DOMAIN pkts)
    BY <1>1 DEF Waits
  <2>2. DOMAIN pkts = 1 .. Len(pkts) /\ Len(pkts) \in Nat
    BY DEF LinkInv, TypeOK
  <2> QED
    BY <2>1, <2>2
<1>3. ASSUME NEW i \in 1 .. j - 1 PROVE pkts[q[i]].frag_id # f
  <2>1. i \in 1 .. Len(q) /\ i < j
    BY <1>2
  <2> QED
    BY <1>1, <2>1 DEF Waits
<1>4. ASSUME NEW r \in DOMAIN pkts, Mate(r, s, f, pkts), r < p PROVE r \notin Range(q)
  <2> SUFFICES ASSUME r \in Range(q) PROVE FALSE
    OBVIOUS
  <2>1. PICK i \in 1 .. Len(q) : r = q[i]
    BY <1>1 DEF RestOf
  <2>2. CASE i < j
    <3>1. i \in 1 .. j - 1
      BY <2>2
    <3> QED
      BY <1>3, <1>4, <2>1, <3>1 DEF Mate
  <2>3. CASE i = j
    BY <1>2, <1>4, <2>1, <2>3
  <2>4. CASE i > j
    <3>1. p < r
      BY <1>1, <1>4, <2>1, <2>4 DEF InOrder, Mate
    <3> QED
      BY <1>2, <1>4, <3>1
  <2> QED
    BY <1>2, <2>2, <2>3, <2>4
<1>5. ASSUME NEW r \in DOMAIN pkts, Mate(r, s, f, pkts), r \notin Range(q) PROVE r < p
  <2>1. ~(r > p)
    BY <1>1, <1>5 DEF InOrder
  <2>2. r # p
    BY <1>1, <1>5 DEF RestOf
  <2>3. r \in Nat
    BY <1>2
  <2> QED
    BY <1>2, <2>1, <2>2, <2>3
<1>6. \A r \in DOMAIN pkts : r \notin Range(q) => ~IsCut(r, q, k, g)
  <2>1. g => k + 1 \in 1 .. Len(q)
    BY DEF Filled, Carries
  <2> QED
    BY <1>1, <2>1 DEF RestOf, IsCut
<1>7. \A r \in 1 .. p - 1 : r \in DOMAIN pkts /\ r < p
  BY <1>2
<1>8. \A r \in DOMAIN pkts : r < p => r \in 1 .. p - 1
  BY <1>2
<1> HIDE DEF f, p
<1>9. Gone(s, f, q, pkts) = Fragmented(s, f, p, pk2)
  BY <1>1, <1>4, <1>5, <1>6, <1>7, <1>8 DEF Gone, Fragmented
<1> QED
  BY <1>3, <1>9 DEF f, p

\* Sequence numbers after the first k packets of sender s went whole, and those that
\* the closing fragments of the queue q get.
CountsOn(s, k, nx2) ==
    \A f \in Prios : nx2[f] = (next[s][f] + Cardinality(Closing(s, f, k))) % SeqnoMod
CloseWith(s, q, pk2, n) ==
    \A j \in 1 .. Len(q) : START \notin pkts[q[j]].start_end =>
        (next[s][pkts[q[j]].frag_id] + Cardinality(Closing(s, pkts[q[j]].frag_id, j - 1))) % SeqnoMod
          = (n + Number(s, pkts[q[j]].frag_id, q[j], pk2)) % SeqnoMod

LEMMA FilledNumbered ==
    ASSUME LinkInv, NEW n \in Nat, NEW s \in Senders, NEW q, q = queue[s], NEW k, NEW g, NEW room,
           NEW frags, NEW pk2, NEW q2,
           Filled(s, q, k, g, room, frags, pk2, q2), Numbered(s, q, pkts, next[s], n), NEW nx2,
           CountsOn(s, k, nx2)
    PROVE  Numbered(s, q2, pk2, nx2, n) /\ CloseWith(s, q, pk2, n)
<1>1. /\ Waits(s, q, pkts) /\ RestOf(q, k, q2) /\ Serves(q, k, g, room, pk2)
      /\ g => k + 1 \in 1 .. Len(q)
      /\ q \in Seq(DOMAIN pkts) /\ Len(q) \in Nat /\ k \in 0 .. Len(q)
  BY DEF Filled, Waits, Carries
<1>2. \A f \in Prios : next[s][f] \in 0 .. SeqnoMod - 1
  BY DEF LinkInv, TypeOK
<1>3. SeqnoMod \in Nat \ {0} /\ DOMAIN pkts = 1 .. Len(pkts) /\ Len(pkts) \in Nat
  BY LinkAssumption DEF LinkInv, TypeOK
<1>4. ASSUME NEW f \in Prios
      PROVE  next[s][f] % SeqnoMod = next[s][f] /\ next[s][f] \in Nat
  BY <1>2, <1>3, SMTT(30)
<1>5. ASSUME NEW j \in 1 .. Len(q), START \notin pkts[q[j]].start_end
      PROVE  LET f == pkts[q[j]].frag_id
             IN  (next[s][f] + Cardinality(Closing(s, f, j - 1))) % SeqnoMod
                   = (n + Number(s, f, q[j], pk2)) % SeqnoMod
  <2> DEFINE f == pkts[q[j]].frag_id
  <2>1. /\ Gone(s, f, q, pkts) = Fragmented(s, f, q[j], pk2)
        /\ \A i \in 1 .. j - 1 : pkts[q[i]].frag_id # f
    BY <1>5, FilledClosing
  <2>2. f \in Prios
    BY <1>1, PacketType
  <2> HIDE DEF f
  <2>3. Closing(s, f, j - 1) = {}
    BY <2>1 DEF Closing
  <2>4. Cardinality(Closing(s, f, j - 1)) = 0
    BY <2>3, FS_EmptySet
  <2>5. next[s][f] = (n + Number(s, f, q[j], pk2)) % SeqnoMod
    BY <2>1, <2>2 DEF Numbered, Number
  <2>6. next[s][f] + 0 = next[s][f] /\ next[s][f] % SeqnoMod = next[s][f]
    BY <1>4, <2>2
  <2>7. (next[s][f] + Cardinality(Closing(s, f, j - 1))) % SeqnoMod = (n + Number(s, f, q[j], pk2)) % SeqnoMod
    BY <2>4, <2>5, <2>6
  <2> QED
    BY <2>7 DEF f
<1>6. ASSUME NEW f \in Prios
      PROVE  nx2[f] = (n + Cardinality(Gone(s, f, q2, pk2))) % SeqnoMod
  <2> DEFINE G == Gone(s, f, q, pkts)
             G2 == Gone(s, f, q2, pk2)
             C == Closing(s, f, k)
             x == next[s][f]
  <2>1. \A r \in DOMAIN pkts :
          /\ Mate(r, s, f, pk2) <=> Mate(r, s, f, pkts)
          /\ START \notin pkts[r].start_end => START \notin pk2[r].start_end
          /\ ~IsCut(r, q, k, g) => (START \notin pkts[r].start_end <=> START \notin pk2[r].start_end)
    BY <1>1 DEF Serves, CutBy, Untouched, Mate
  <2>2. DOMAIN pk2 = DOMAIN pkts
    BY <1>1 DEF Serves
  <2>3. \A i : i \in C <=> /\ i \in 1 .. k /\ i \in 1 .. Len(q)
                           /\ Mate(q[i], s, f, pkts) /\ START \notin pkts[q[i]].start_end
    <3>1. 1 .. k \subseteq 1 .. Len(q)
      BY <1>1
    <3> QED
      BY <1>1, <3>1 DEF Closing, Waits, Mate
  <2>4. ASSUME NEW r \in DOMAIN pkts, r \notin Range(q2) PROVE ~IsCut(r, q, k, g)
    <3>1. g => k + 1 \in 1 .. Len(q) /\ k + 1 > k
      BY <1>1
    <3> QED
      BY <1>1, <2>4, <3>1 DEF RestOf, IsCut
  <2>5. ASSUME NEW r \in DOMAIN pkts
        PROVE  r \notin Range(q2) <=> r \notin Range(q) \/ \E i \in 1 .. k : i \in 1 .. Len(q) /\ r = q[i]
    <3>1. \A i \in 1 .. Len(q) : i \in 1 .. k <=> ~(i > k)
      BY <1>1
    <3>2. /\ \A j \in 1 .. Len(q) : q[j] \in Range(q2) <=> j > k
          /\ \A y : y \in Range(q) <=> \E j \in 1 .. Len(q) : y = q[j]
          /\ Range(q2) \subseteq Range(q)
      BY <1>1 DEF RestOf
    <3>3. ASSUME r \notin Range(q2), r \in Range(q) PROVE \E i \in 1 .. k : i \in 1 .. Len(q) /\ r = q[i]
      BY <3>1, <3>2, <3>3
    <3>4. ASSUME NEW i \in 1 .. k, i \in 1 .. Len(q), r = q[i] PROVE r \notin Range(q2)
      BY <3>1, <3>2, <3>4
    <3> QED
      BY <3>2, <3>3, <3>4
  <2>6. G2 = G \cup {q[i] : i \in C}
    <3>1. \A r \in DOMAIN pkts : r \in G2 <=> /\ Mate(r, s, f, pkts) /\ START \notin pkts[r].start_end
                                              /\ r \notin Range(q2)
      BY <2>1, <2>2, <2>4 DEF Gone
    <3>2. \A r : r \in G <=> r \in DOMAIN pkts /\ Mate(r, s, f, pkts) /\ START \notin pkts[r].start_end
                             /\ r \notin Range(q)
      BY DEF Gone
    <3>3. G2 \subseteq DOMAIN pkts
      BY <2>2 DEF Gone
    <3>4. \A i \in C : q[i] \in DOMAIN pkts
      BY <1>1, <2>3
    <3> HIDE DEF G, G2, C
    <3> QED
      BY <2>3, <2>5, <3>1, <3>2, <3>3, <3>4
  <2>7. \A i \in C : q[i] \notin G
    <3>1. \A i \in C : q[i] \in Range(q)
      BY <1>1, <2>3 DEF RestOf
    <3> QED
      BY <3>1 DEF Gone
  <2>8. IsFiniteSet(G) /\ Cardinality(G) \in Nat
    <3>1. G \subseteq 1 .. Len(pkts)
      BY <1>3 DEF Gone
    <3>2. IsFiniteSet(1 .. Len(pkts))
      <4>1. Len(pkts) \in Int /\ 1 \in Int
        BY <1>3
      <4> QED
        BY <4>1, FS_Interval, Zenon
    <3> QED
      BY <3>1, <3>2, FS_Subset, FS_CardinalityType
  <2>9. nx2[f] = (x + Cardinality(C)) % SeqnoMod /\ x = (n + Cardinality(G)) % SeqnoMod
        /\ x % SeqnoMod = x /\ x \in Nat
    BY <1>4 DEF Numbered, CountsOn
  <2>10. CASE C = {}
    <3>1. Cardinality(C) = 0 /\ G2 = G
      BY <2>6, <2>10, FS_EmptySet
    <3> HIDE DEF G, G2, C, x
    <3>2. x + 0 = x
      BY <2>9
    <3>3. nx2[f] = (n + Cardinality(G2)) % SeqnoMod
      BY <2>9, <3>1, <3>2
    <3> QED
      BY <3>3 DEF G2
  <2>11. ASSUME NEW i \in C PROVE nx2[f] = (n + Cardinality(G2)) % SeqnoMod
    <3>1. ASSUME NEW j \in C PROVE j = i
      <4>1. /\ i \in 1 .. Len(q) /\ j \in 1 .. Len(q)
            /\ pkts[q[i]].frag_id = f /\ pkts[q[j]].frag_id = f
            /\ START \notin pkts[q[i]].start_end /\ START \notin pkts[q[j]].start_end
        BY <2>3 DEF Mate
      <4>2. ~(i < j) /\ ~(j < i)
        BY <1>1, <4>1 DEF Waits
      <4> QED
        BY <4>1, <4>2
    <3>2. C = {i}
      <4> HIDE DEF C
      <4> QED
        BY <2>11, <3>1
    <3>3. G2 = G \cup {q[i]} /\ q[i] \notin G
      <4> HIDE DEF C, G, G2
      <4> QED
        BY <2>6, <2>7, <3>2
    <3>4. Cardinality(C) = 1
      BY <3>2, FS_Singleton
    <3>5. Cardinality(G2) = Cardinality(G) + 1
      <4> HIDE DEF C, G, G2
      <4> QED
        BY <2>8, <3>3, FS_AddElement
    <3> DEFINE m == Cardinality(G)
    <3> HIDE DEF G, G2, C, x
    <3>6. m \in Nat /\ n + m \in Int /\ x = (n + m) % SeqnoMod /\ x \in Int
          /\ (n + m) + 1 = n + (m + 1)
      BY <2>8, <2>9
    <3> HIDE DEF m
    <3>7. Succ(x) = ((n + m) + 1) % SeqnoMod
      BY <3>6, SuccIs
    <3>8. nx2[f] = Succ(x)
      BY <2>9, <3>4 DEF Succ
    <3>9. nx2[f] = (n + (m + 1)) % SeqnoMod
      BY <3>6, <3>7, <3>8
    <3> QED
      BY <3>5, <3>9 DEF m
  <2> QED
    BY <2>10, <2>11
<1>7. Numbered(s, q2, pk2, nx2, n)
  BY <1>6 DEF Numbered
<1>8. CloseWith(s, q, pk2, n)
  BY <1>5 DEF CloseWith
<1> QED
  BY <1>7, <1>8

\* The channel a2 is the channel a with one more burst, of these fragments.
Grown(a, a2, frags) ==
    /\ Len(a) \in Nat /\ Len(a2) = Len(a) + 1 /\ Len(frags) \in Nat
    /\ \A i \in 1 .. Len(a) : a2[i] = a[i] /\ Len(a[i].frags) \in Nat
    /\ a2[Len(a) + 1].frags = frags

LEMMA SpotsGrown ==
    ASSUME NEW a, NEW a2, NEW frags, Grown(a, a2, frags)
    PROVE  /\ \A z \in Spots(a, 0) : /\ z \in Spots(a2, 0) /\ Spot(a2, z) = Spot(a, z)
                                     /\ z[1] \in 1 .. Len(a)
           /\ \A i \in 1 .. Len(frags) : \E z \in Spots(a2, 0) : Spot(a2, z) = frags[i]
           /\ \A z \in Spots(a2, 0) :
                z \in Spots(a, 0) \/ (/\ z[1] = Len(a) + 1 /\ z[2] \in 1 .. Len(frags)
                                      /\ Spot(a2, z) = frags[z[2]])
<1> DEFINE N == Len(a)
           M == Len(frags)
<1>1. /\ N \in Nat /\ Len(a2) = N + 1 /\ M \in Nat
      /\ \A i \in 1 .. N : a2[i] = a[i] /\ Len(a[i].frags) \in Nat
      /\ a2[N + 1].frags = frags
  BY DEF Grown
<1>2. ASSUME NEW z \in Spots(a, 0)
      PROVE  z \in Spots(a2, 0) /\ Spot(a2, z) = Spot(a, z) /\ z[1] \in 1 .. N
  <2>1. z \in (1 .. N) \X Nat /\ z[2] \in 1 .. Len(a[z[1]].frags) /\ z[1] \in 1 .. N /\ z[2] \in Nat
    BY DEF Spots
  <2>2. a2[z[1]] = a[z[1]] /\ Len(a[z[1]].frags) \in Nat
    BY <1>1, <2>1
  <2>3. z \in (1 .. Len(a2)) \X Nat /\ z[2] > 0
    BY <1>1, <2>1, <2>2
  <2> QED
    BY <2>1, <2>2, <2>3 DEF Spots, Spot
<1>3. ASSUME NEW i \in 1 .. M PROVE \E z \in Spots(a2, 0) : Spot(a2, z) = frags[i]
  <2> DEFINE z == <<N + 1, i>>
  <2>1. z \in (1 .. Len(a2)) \X Nat /\ z[1] = N + 1 /\ z[2] = i /\ z[2] > 0
    BY <1>1
  <2> HIDE DEF z
  <2>2. z \in Spots(a2, 0) /\ Spot(a2, z) = frags[i]
    BY <1>1, <2>1 DEF Spots, Spot
  <2> QED
    BY <2>2
<1>4. ASSUME NEW z \in Spots(a2, 0)
      PROVE  z \in Spots(a, 0) \/ (/\ z[1] = N + 1 /\ z[2] \in 1 .. M
                                   /\ Spot(a2, z) = frags[z[2]])
  <2>1. z \in (1 .. Len(a2)) \X Nat /\ z[2] \in 1 .. Len(a2[z[1]].frags)
    BY DEF Spots
  <2>2. z = <<z[1], z[2]>> /\ z[1] \in 1 .. N + 1 /\ z[2] \in Nat
    BY <1>1, <2>1
  <2>3. CASE z[1] = N + 1
    BY <1>1, <2>1, <2>3 DEF Spot
  <2>4. CASE z[1] # N + 1
    <3>1. z[1] \in 1 .. N
      BY <1>1, <2>2, <2>4
    <3>2. a2[z[1]] = a[z[1]] /\ Len(a[z[1]].frags) \in Nat
      BY <1>1, <3>1
    <3>3. z \in (1 .. N) \X Nat /\ z[2] > 0
      BY <2>1, <2>2, <3>1, <3>2
    <3> QED
      BY <2>1, <3>2, <3>3 DEF Spots
  <2> QED
    BY <2>3, <2>4
<1> QED
  BY <1>2, <1>3, <1>4

LEMMA FilledAhead ==
    ASSUME LinkInv, NEW s, NEW q, NEW k, NEW g, NEW room, NEW frags, NEW pk2, NEW q2,
           Filled(s, q, k, g, room, frags, pk2, q2), NEW a, NEW a2, Grown(a, a2, frags)
    PROVE  /\ Ahead(a2, q2, 0) = Ahead(a, q, 0)
           /\ \A x \in Begins(a2, 0) :
                x \in Begins(a, 0) \/ (x \in DOMAIN pkts /\ START \in pkts[x].start_end)
<1>1. RestOf(q, k, q2) /\ Carries(q, k, g, room, frags) /\ Len(q) \in Nat
  BY DEF Filled, Waits
<1>2. /\ k \in 0 .. Len(q) /\ (g => k + 1 \in 1 .. Len(q))
      /\ \A i \in 1 .. Len(frags) : i \in 1 .. Len(q) /\ frags[i].alpdu = q[i]
      /\ \A i \in 1 .. k : frags[i].start_end = pkts[q[i]].start_end \cup {END}
      /\ g => frags[k + 1].start_end = pkts[q[k + 1]].start_end \cap {START}
      /\ \A i \in 1 .. k : i \in 1 .. Len(frags) /\ i \in 1 .. Len(q)
      /\ \A i \in 1 .. Len(frags) : i \in 1 .. k \/ (g /\ i = k + 1)
  BY <1>1 DEF Carries
<1>3. START # END
  BY DEF START, END
<1>4. \A i \in 1 .. Len(frags) :
         /\ END \in frags[i].start_end => frags[i].alpdu \in Range(q)
         /\ START \in frags[i].start_end =>
              frags[i].alpdu \in DOMAIN pkts /\ START \in pkts[frags[i].alpdu].start_end
  <2> SUFFICES ASSUME NEW i \in 1 .. Len(frags)
               PROVE  /\ frags[i].alpdu \in Range(q) /\ frags[i].alpdu \in DOMAIN pkts
                      /\ START \in frags[i].start_end => START \in pkts[frags[i].alpdu].start_end
    OBVIOUS
  <2>1. i \in 1 .. Len(q) /\ frags[i].alpdu = q[i]
    BY <1>2
  <2>2. q[i] \in Range(q) /\ q[i] \in DOMAIN pkts
    BY <1>1, <2>1 DEF RestOf
  <2>3. START \in frags[i].start_end => START \in pkts[q[i]].start_end
    BY <1>2, <1>3
  <2> QED
    BY <2>1, <2>2, <2>3
<1>5. \A x : x \in Range(q) <=> x \in Range(q2) \/ \E i \in 1 .. k : x = q[i]
  <2>1. \A j \in 1 .. Len(q) : j \in 1 .. k <=> ~(j > k)
    BY <1>1, <1>2
  <2>2. /\ \A j \in 1 .. Len(q) : q[j] \in Range(q2) <=> j > k
        /\ \A x : x \in Range(q) <=> \E j \in 1 .. Len(q) : x = q[j]
        /\ Range(q2) \subseteq Range(q)
    BY <1>1 DEF RestOf
  <2>3. \A i \in 1 .. k : i \in 1 .. Len(q)
    BY <1>2
  <2>4. ASSUME NEW x \in Range(q), x \notin Range(q2) PROVE \E i \in 1 .. k : x = q[i]
    <3>1. PICK j \in 1 .. Len(q) : x = q[j]
      BY <2>2
    <3>2. j \in 1 .. k
      BY <2>1, <2>2, <2>4, <3>1
    <3> QED
      BY <3>1, <3>2
  <2>5. ASSUME NEW i \in 1 .. k PROVE q[i] \in Range(q)
    BY <2>2, <2>3
  <2> QED
    BY <2>2, <2>4, <2>5
<1>6. ASSUME NEW x \in Ahead(a, q, 0) PROVE x \in Ahead(a2, q2, 0)
  <2>1. CASE x \in Range(q2)
    BY <2>1 DEF Ahead
  <2>2. ASSUME NEW i \in 1 .. k, x = q[i] PROVE x \in Ahead(a2, q2, 0)
    <3>1. frags[i].alpdu = x /\ END \in frags[i].start_end
      BY <1>2, <2>2
    <3>2. PICK z \in Spots(a2, 0) : Spot(a2, z) = frags[i]
      BY <1>2, SpotsGrown
    <3> QED
      BY <3>1, <3>2 DEF Ahead
  <2>3. ASSUME NEW z \in Spots(a, 0), END \in Spot(a, z).start_end, x = Spot(a, z).alpdu
        PROVE  x \in Ahead(a2, q2, 0)
    <3>1. z \in Spots(a2, 0) /\ Spot(a2, z) = Spot(a, z)
      BY SpotsGrown
    <3> QED
      BY <2>3, <3>1 DEF Ahead
  <2> QED
    BY <1>5, <2>1, <2>2, <2>3 DEF Ahead
<1>7. ASSUME NEW x \in Ahead(a2, q2, 0) PROVE x \in Ahead(a, q, 0)
  <2>1. CASE x \in Range(q2)
    BY <1>5, <2>1 DEF Ahead
  <2>2. ASSUME NEW z \in Spots(a2, 0), END \in Spot(a2, z).start_end, x = Spot(a2, z).alpdu
        PROVE  x \in Ahead(a, q, 0)
    <3>1. CASE z \in Spots(a, 0)
      <4>1. Spot(a2, z) = Spot(a, z)
        BY <3>1, SpotsGrown
      <4> QED
        BY <2>2, <3>1, <4>1 DEF Ahead
    <3>2. CASE z \notin Spots(a, 0)
      <4>1. z[2] \in 1 .. Len(frags) /\ Spot(a2, z) = frags[z[2]]
        BY <3>2, SpotsGrown
      <4> QED
        BY <1>4, <2>2, <4>1 DEF Ahead
    <3> QED
      BY <3>1, <3>2
  <2> QED
    BY <2>1, <2>2 DEF Ahead
<1>8. ASSUME NEW x \in Begins(a2, 0)
      PROVE  x \in Begins(a, 0) \/ (x \in DOMAIN pkts /\ START \in pkts[x].start_end)
  <2>1. PICK z \in Spots(a2, 0) : START \in Spot(a2, z).start_end /\ x = Spot(a2, z).alpdu
    BY DEF Begins
  <2>2. CASE z \in Spots(a, 0)
    <3>1. Spot(a2, z) = Spot(a, z)
      BY <2>2, SpotsGrown
    <3> QED
      BY <2>1, <2>2, <3>1 DEF Begins
  <2>3. CASE z \notin Spots(a, 0)
    <3>1. z[2] \in 1 .. Len(frags) /\ Spot(a2, z) = frags[z[2]]
      BY <2>3, SpotsGrown
    <3> QED
      BY <1>4, <2>1, <3>1
  <2> QED
    BY <2>2, <2>3
<1> QED
  BY <1>6, <1>7, <1>8

LEMMA FilledStream ==
    ASSUME LinkInv, NEW n, NEW s \in Senders, NEW q, NEW k, NEW g, NEW room, NEW frags, NEW pk2, NEW q2,
           Filled(s, q, k, g, room, frags, pk2, q2), NEW a, NEW a2, Grown(a, a2, frags),
           Stream(s, a, q, pkts, n), \A p \in DOMAIN pkts : pkts[p].psize > 0,
           \A j \in 1 .. k : START \notin pkts[q[j]].start_end =>
              frags[j].seqno = (n + Number(s, pkts[q[j]].frag_id, q[j], pk2)) % SeqnoMod
    PROVE  Stream(s, a2, q2, pk2, n)
<1>1. /\ RestOf(q, k, q2) /\ Carries(q, k, g, room, frags) /\ Serves(q, k, g, room, pk2)
      /\ Waits(s, q, pkts) /\ InOrder(s, q, pkts) /\ Len(q) \in Nat
      /\ Uncut
      /\ DOMAIN pkts = 1 .. Len(pkts) /\ Len(pkts) \in Nat
  BY DEF Filled, Waits, LinkInv, TypeOK
<1>2. /\ k \in 0 .. Len(q) /\ (g => k + 1 \in 1 .. Len(q)) /\ k \in Nat
      /\ \A i \in 1 .. Len(frags) :
           i \in 1 .. Len(q) /\ frags[i].alpdu = q[i] /\ frags[i].frag_id = pkts[q[i]].frag_id
      /\ \A i \in 1 .. k : /\ frags[i].start_end = pkts[q[i]].start_end \cup {END}
                           /\ frags[i].length = pkts[q[i]].psize
                           /\ i \in 1 .. Len(q)
      /\ g => frags[k + 1].start_end = pkts[q[k + 1]].start_end \cap {START}
      /\ g => frags[k + 1].length > 0
      /\ \A i \in 1 .. Len(frags) : i \in 1 .. k \/ (g /\ i = k + 1)
  BY <1>1 DEF Carries, Serves
<1>3. START # END
  BY DEF START, END
<1>4. /\ DOMAIN pk2 = DOMAIN pkts
      /\ \A p \in DOMAIN pkts :
           /\ pk2[p].src = pkts[p].src /\ pk2[p].frag_id = pkts[p].frag_id
           /\ START \notin pkts[p].start_end => START \notin pk2[p].start_end
           /\ IsCut(p, q, k, g) => START \notin pk2[p].start_end
           /\ ~IsCut(p, q, k, g) => /\ START \in pk2[p].start_end <=> START \in pkts[p].start_end
                                    /\ pk2[p].total_length = pkts[p].total_length
  BY <1>1 DEF Serves, CutBy, Untouched
<1>5. \A i \in 1 .. Len(q) : /\ q[i] \in DOMAIN pkts /\ q[i] \in Nat
                             /\ Mate(q[i], s, pkts[q[i]].frag_id, pkts)
                             /\ Mate(q[i], s, pkts[q[i]].frag_id, pk2)
                             /\ pkts[q[i]].start_end \in SUBSET {START, END}
  <2>1. \A i \in 1 .. Len(q) : q[i] \in DOMAIN pkts /\ pkts[q[i]].src = s
    BY <1>1 DEF RestOf, Waits
  <2> QED
    BY <1>1, <1>4, <2>1, PacketType DEF Mate
<1>6. ASSUME NEW i \in 1 .. Len(q), NEW j \in 1 .. Len(q), pkts[q[i]].frag_id = pkts[q[j]].frag_id
      PROVE  (i < j => q[i] < q[j]) /\ (i <= j => q[i] <= q[j])
  <2>1. i < j => q[i] < q[j]
    BY <1>1, <1>6 DEF InOrder
  <2> QED
    BY <1>5, <2>1
<1> HIDE DEF Uncut
\* What was in the channel before.
<1>7. ASSUME NEW z \in Spots(a, 0)
      PROVE  /\ Genuine(Spot(a, z), s, pk2, n) /\ Leads(Spot(a, z), q2, pk2)
             /\ Spot(a, z).alpdu \in Ahead(a2, q2, 0)
  <2> DEFINE fh == Spot(a, z)
             p == fh.alpdu
  <2>1. Genuine(fh, s, pkts, n) /\ Leads(fh, q, pkts) /\ p \in Ahead(a, q, 0)
    BY <1>1 DEF Stream
  <2> HIDE DEF fh
  <2>2. /\ p \in DOMAIN pkts /\ Mate(p, s, fh.frag_id, pkts) /\ p \in Nat
        /\ fh.start_end = {START, END} <=> START \in pkts[p].start_end
    BY <1>1, <2>1 DEF Genuine
  <2>3. IsCut(p, q, k, g) => START \notin pkts[p].start_end
    <3> SUFFICES ASSUME IsCut(p, q, k, g) PROVE START \notin pkts[p].start_end
      OBVIOUS
    <3>1. k + 1 \in 1 .. Len(q) /\ p = q[k + 1] /\ pkts[q[k + 1]].frag_id = fh.frag_id
      BY <1>2, <2>2 DEF IsCut, Mate
    <3>2. END \notin fh.start_end
      BY <2>1, <3>1 DEF Leads
    <3>3. fh.start_end # {START, END}
      BY <3>2
    <3> QED
      BY <2>2, <3>3
  <2>4. Number(s, fh.frag_id, p, pk2) = Number(s, fh.frag_id, p, pkts)
    <3>1. ~(g /\ Mate(q[k + 1], s, fh.frag_id, pkts) /\ q[k + 1] < p)
      <4> SUFFICES ASSUME g, Mate(q[k + 1], s, fh.frag_id, pkts), q[k + 1] < p PROVE FALSE
        OBVIOUS
      <4>1. k + 1 \in 1 .. Len(q) /\ q[k + 1] \in Nat
        BY <1>2, <1>5
      <4>2. p <= q[k + 1]
        BY <2>1, <4>1 DEF Leads, Mate
      <4> QED
        BY <2>2, <4>1, <4>2
    <3>2. p <= Len(pkts) + 1
      BY <1>1, <2>2
    <3> QED
      BY <1>1, <2>2, <3>1, <3>2, FilledNumbers
  <2>5. START \in pk2[p].start_end <=> START \in pkts[p].start_end
    BY <1>4, <2>2, <2>3
  <2>6. Genuine(fh, s, pk2, n)
    <3>1. fh.start_end = {START, END} => pk2[p].total_length = pkts[p].total_length
      BY <1>4, <2>2, <2>3
    <3>2. Mate(p, s, fh.frag_id, pk2)
      BY <1>4, <2>2 DEF Mate
    <3> QED
      BY <1>4, <2>1, <2>2, <2>4, <2>5, <3>1, <3>2 DEF Genuine
  <2>7. Leads(fh, q2, pk2)
    <3> SUFFICES ASSUME NEW i \in 1 .. Len(q2), pk2[q2[i]].frag_id = fh.frag_id
                 PROVE  p <= q2[i] /\ (p = q2[i] => END \notin fh.start_end)
      BY DEF Leads
    <3>1. k + i \in 1 .. Len(q) /\ q2[i] = q[k + i]
      BY <1>1 DEF RestOf
    <3>2. pkts[q[k + i]].frag_id = fh.frag_id
      BY <1>4, <1>5, <3>1
    <3> QED
      BY <2>1, <3>1, <3>2 DEF Leads
  <2>8. Ahead(a2, q2, 0) = Ahead(a, q, 0)
    BY FilledAhead
  <2> QED
    BY <2>1, <2>6, <2>7, <2>8 DEF fh
\* What goes into the burst.
<1>8. ASSUME NEW i \in 1 .. Len(frags)
      PROVE  /\ Genuine(frags[i], s, pk2, n) /\ Leads(frags[i], q2, pk2)
             /\ frags[i].alpdu \in Ahead(a2, q2, 0)
  <2> DEFINE fh == frags[i]
             p == q[i]
  <2>1. i \in 1 .. Len(q) /\ fh.alpdu = p /\ fh.frag_id = pkts[p].frag_id
    BY <1>2
  <2>2. /\ p \in DOMAIN pkts /\ p \in Nat /\ Mate(p, s, pkts[p].frag_id, pk2)
        /\ pkts[p].start_end \in SUBSET {START, END}
    BY <1>5, <2>1
  <2>3. p \in Ahead(a2, q2, 0)
    <3>1. p \in Range(q)
      BY <1>1, <2>1 DEF RestOf
    <3>2. Ahead(a2, q2, 0) = Ahead(a, q, 0)
      BY FilledAhead
    <3> QED
      BY <3>1, <3>2 DEF Ahead
  <2>4. CASE i \in 1 .. k
    <3>1. ~IsCut(p, q, k, g)
      <4>1. g => k + 1 \in 1 .. Len(q) /\ k + 1 # i
        BY <1>2, <2>4
      <4> QED
        BY <1>1, <2>1, <4>1 DEF IsCut, Waits
    <3>2. fh.start_end = pkts[p].start_end \cup {END} /\ fh.length = pkts[p].psize
      BY <1>2, <2>4
    <3>3. /\ START \in pk2[p].start_end <=> START \in pkts[p].start_end
          /\ pk2[p].total_length = pkts[p].total_length
      BY <1>4, <2>2, <3>1
    <3>4. fh.start_end = {START, END} <=> START \in pkts[p].start_end
      BY <1>3, <2>2, <3>2
    <3>5. fh.start_end = {START, END} => fh.length = pk2[p].total_length
      BY <1>1, <2>2, <3>2, <3>3, <3>4 DEF Uncut
    <3>6. fh.start_end = {END} => fh.seqno = (n + Number(s, fh.frag_id, p, pk2)) % SeqnoMod
      BY <1>3, <2>1, <2>4, <3>4, <3>2
    <3>9. fh.length > 0
      BY <2>2, <3>2
    <3> HIDE DEF fh, p
    <3>7. Genuine(fh, s, pk2, n)
      BY <1>4, <2>1, <2>2, <3>3, <3>4, <3>5, <3>6, <3>9 DEF Genuine
    <3>8. Leads(fh, q2, pk2)
      <4> SUFFICES ASSUME NEW j \in 1 .. Len(q2), pk2[q2[j]].frag_id = fh.frag_id
                   PROVE  p < q2[j]
        BY <2>1, <2>2, <1>1 DEF Leads, RestOf
      <4>1. k + j \in 1 .. Len(q) /\ q2[j] = q[k + j] /\ i < k + j
        BY <1>1, <1>2, <2>4 DEF RestOf
      <4>2. pkts[q[k + j]].frag_id = pkts[q[i]].frag_id
        BY <1>4, <1>5, <2>1, <4>1 DEF p
      <4> QED
        BY <1>6, <2>1, <4>1, <4>2 DEF p
    <3> QED
      BY <2>1, <2>3, <3>7, <3>8 DEF fh, p
  <2>5. CASE g /\ i = k + 1
    <3>1. IsCut(p, q, k, g)
      BY <2>5 DEF IsCut
    <3>2. START \notin pk2[p].start_end
      BY <1>4, <2>2, <3>1
    <3>3. fh.start_end \subseteq {START} /\ END \notin fh.start_end
      BY <1>2, <1>3, <2>5
    <3> HIDE DEF fh, p
    <3>4. Genuine(fh, s, pk2, n)
      <4>1. fh.start_end # {START, END} /\ fh.start_end # {END}
        BY <3>3
      <4>2. fh.length > 0
        BY <1>2, <2>5 DEF fh
      <4> QED
        BY <1>4, <2>1, <2>2, <3>2, <4>1, <4>2 DEF Genuine
    <3>5. Leads(fh, q2, pk2)
      <4> SUFFICES ASSUME NEW j \in 1 .. Len(q2), pk2[q2[j]].frag_id = fh.frag_id
                   PROVE  p <= q2[j]
        BY <2>1, <3>3 DEF Leads
      <4>1. k + j \in 1 .. Len(q) /\ q2[j] = q[k + j] /\ i <= k + j
        BY <1>1, <1>2, <2>5 DEF RestOf
      <4>2. pkts[q[k + j]].frag_id = pkts[q[i]].frag_id
        BY <1>4, <1>5, <2>1, <4>1 DEF p
      <4> QED
        BY <1>6, <2>1, <4>1, <4>2 DEF p
    <3> QED
      BY <2>1, <2>3, <3>4, <3>5 DEF fh, p
  <2> QED
    BY <1>2, <2>4, <2>5
<1>9. ASSUME NEW y \in Spots(a, 0), NEW i \in 1 .. Len(frags)
      PROVE  InTurn(Spot(a, y), frags[i], TRUE)
  <2> DEFINE fh == Spot(a, y)
             x == frags[i]
  <2>1. Genuine(fh, s, pkts, n) /\ Leads(fh, q, pkts)
    BY <1>1 DEF Stream
  <2>2. i \in 1 .. Len(q) /\ x.alpdu = q[i] /\ x.frag_id = pkts[q[i]].frag_id
    BY <1>2
  <2>3. START \in x.start_end => START \in pkts[q[i]].start_end
    BY <1>2, <1>3
  <2> HIDE DEF fh, x
  <2>4. ASSUME fh.frag_id = x.frag_id
        PROVE  /\ fh.alpdu <= x.alpdu
               /\ fh.alpdu = x.alpdu => END \notin fh.start_end /\ START \notin x.start_end
    <3>1. fh.alpdu <= q[i] /\ (fh.alpdu = q[i] => END \notin fh.start_end)
      BY <2>1, <2>2, <2>4 DEF Leads
    <3>2. ASSUME fh.alpdu = q[i] PROVE START \notin pkts[q[i]].start_end
      <4>1. fh.start_end # {START, END}
        BY <3>1, <3>2
      <4> QED
        BY <2>1, <3>2, <4>1 DEF Genuine
    <3> QED
      BY <2>2, <2>3, <3>1, <3>2
  <2> QED
    BY <2>4 DEF InTurn, fh, x
<1>10. ASSUME NEW i \in 1 .. Len(frags), NEW j \in 1 .. Len(frags), i < j
       PROVE  InTurn(frags[i], frags[j], FALSE)
  <2>1. /\ i \in 1 .. Len(q) /\ frags[i].alpdu = q[i] /\ frags[i].frag_id = pkts[q[i]].frag_id
        /\ j \in 1 .. Len(q) /\ frags[j].alpdu = q[j] /\ frags[j].frag_id = pkts[q[j]].frag_id
    BY <1>2
  <2>2. pkts[q[i]].frag_id = pkts[q[j]].frag_id => q[i] < q[j]
    BY <1>6, <1>10, <2>1
  <2>3. q[i] \in Nat /\ q[j] \in Nat
    BY <1>5, <2>1
  <2>4. pkts[q[i]].frag_id = pkts[q[j]].frag_id => q[i] <= q[j] /\ q[i] # q[j]
    BY <2>2, <2>3
  <2> QED
    BY <2>1, <2>4 DEF InTurn
<1>11. ASSUME NEW z \in Spots(a2, 0)
       PROVE  /\ Genuine(Spot(a2, z), s, pk2, n) /\ Leads(Spot(a2, z), q2, pk2)
              /\ Spot(a2, z).alpdu \in Ahead(a2, q2, 0)
  <2>1. CASE z \in Spots(a, 0)
    <3>1. Spot(a2, z) = Spot(a, z)
      BY <2>1, SpotsGrown
    <3> QED
      BY <1>7, <2>1, <3>1
  <2>2. CASE z \notin Spots(a, 0)
    <3>1. z[2] \in 1 .. Len(frags) /\ Spot(a2, z) = frags[z[2]]
      BY <2>2, SpotsGrown
    <3> QED
      BY <1>8, <3>1
  <2> QED
    BY <2>1, <2>2
<1>12. ASSUME NEW y \in Spots(a2, 0), NEW z \in Spots(a2, 0), Before(y, z)
       PROVE  InTurn(Spot(a2, y), Spot(a2, z), y[1] < z[1])
  <2>1. Len(a) \in Nat
    BY DEF Grown
  <2>2. CASE y \in Spots(a, 0) /\ z \in Spots(a, 0)
    <3>1. Spot(a2, y) = Spot(a, y) /\ Spot(a2, z) = Spot(a, z)
      BY <2>2, SpotsGrown
    <3> QED
      BY <1>1, <1>12, <2>2, <3>1 DEF Stream
  <2>3. CASE y \in Spots(a, 0) /\ z \notin Spots(a, 0)
    <3>1. Spot(a2, y) = Spot(a, y) /\ y[1] \in 1 .. Len(a)
      BY <2>3, SpotsGrown
    <3>2. z[2] \in 1 .. Len(frags) /\ Spot(a2, z) = frags[z[2]] /\ z[1] = Len(a) + 1
      BY <2>3, SpotsGrown
    <3>3. y[1] < z[1]
      BY <2>1, <3>1, <3>2
    <3>4. InTurn(Spot(a, y), frags[z[2]], TRUE)
      BY <1>9, <2>3, <3>2
    <3> QED
      BY <3>1, <3>2, <3>3, <3>4 DEF InTurn
  <2>4. CASE y \notin Spots(a, 0)
    <3>1. y[2] \in 1 .. Len(frags) /\ Spot(a2, y) = frags[y[2]] /\ y[1] = Len(a) + 1
      BY <2>4, SpotsGrown
    <3>2. z \notin Spots(a, 0)
      <4> SUFFICES ASSUME z \in Spots(a, 0) PROVE FALSE
        OBVIOUS
      <4>1. z[1] \in 1 .. Len(a)
        BY SpotsGrown
      <4>2. ~(y[1] < z[1]) /\ y[1] # z[1]
        BY <2>1, <3>1, <4>1
      <4> QED
        BY <1>12, <4>2 DEF Before
    <3>3. z[2] \in 1 .. Len(frags) /\ Spot(a2, z) = frags[z[2]] /\ z[1] = Len(a) + 1
      BY <3>2, SpotsGrown
    <3>4. ~(y[1] < z[1]) /\ y[2] < z[2]
      BY <1>12, <2>1, <3>1, <3>3 DEF Before
    <3>5. InTurn(frags[y[2]], frags[z[2]], FALSE)
      BY <1>10, <3>1, <3>3, <3>4
    <3> QED
      BY <3>1, <3>3, <3>4, <3>5 DEF InTurn
  <2> QED
    BY <2>2, <2>3, <2>4
<1> QED
  BY <1>11, <1>12 DEF Stream

\* The bytes of every packet in the burst.
Loads(q, k, g, room, frags) ==
    /\ \A i \in 1 .. k : Bytes(frags, q[i]) = pkts[q[i]].psize
    /\ g => Bytes(frags, q[k + 1]) = room
    /\ \A p : (\A i \in 1 .. Len(frags) : q[i] # p) => Bytes(frags, p) = 0

LEMMA FilledBytes ==
    ASSUME LinkInv, NEW s, NEW q, NEW k, NEW g, NEW room, NEW frags, NEW pk2, NEW q2,
           Filled(s, q, k, g, room, frags, pk2, q2)
    PROVE  Loads(q, k, g, room, frags)
<1>1. /\ Carries(q, k, g, room, frags) /\ Len(q) \in Nat /\ Waits(s, q, pkts)
  BY DEF Filled, Waits
<1>2. /\ k \in 0 .. Len(q) /\ (g => k + 1 \in 1 .. Len(q)) /\ k \in Nat /\ Len(frags) \in Nat
      /\ \A i \in 1 .. Len(frags) : i \in 1 .. Len(q) /\ frags[i].alpdu = q[i]
      /\ \A i \in 1 .. k : frags[i].length = pkts[q[i]].psize /\ i \in 1 .. Len(frags)
      /\ g => frags[k + 1].length = room /\ k + 1 \in 1 .. Len(frags)
  BY <1>1 DEF Carries
<1>3. \A i, j \in 1 .. Len(frags) : frags[i].alpdu = frags[j].alpdu => i = j
  BY <1>1, <1>2 DEF Waits
<1>4. Len(frags) \in 0 .. Len(frags)
  BY <1>2
<1>5. /\ \A i \in 1 .. Len(frags) : Bytes(frags, frags[i].alpdu) = frags[i].length
      /\ \A p : (\A i \in 1 .. Len(frags) : frags[i].alpdu # p) => Bytes(frags, p) = 0
  <2>1. /\ \A i \in 1 .. Len(frags) : Part(frags, Len(frags), frags[i].alpdu) = frags[i].length
        /\ \A p : (\A i \in 1 .. Len(frags) : frags[i].alpdu # p) => Part(frags, Len(frags), p) = 0
    BY <1>2, <1>3, <1>4, PartIs
  <2> QED
    BY <2>1 DEF Bytes
<1> QED
  BY <1>2, <1>5 DEF Loads

LEMMA FilledCounts ==
    ASSUME LinkInv, NEW s \in Senders, NEW q, NEW k, NEW g, NEW room, NEW frags, NEW pk2, NEW q2,
           Filled(s, q, k, g, room, frags, pk2, q2), NEW a, NEW a2, Grown(a, a2, frags),
           NEW off, Counts(off, s, a, q, pkts, heard)
    PROVE  \E off2 : Counts(off2, s, a2, q2, pk2, heard)
<1>0. /\ \A i \in 1 .. k : Bytes(frags, q[i]) = pkts[q[i]].psize
      /\ g => Bytes(frags, q[k + 1]) = room
      /\ \A p : (\A i \in 1 .. Len(frags) : q[i] # p) => Bytes(frags, p) = 0
  <2>1. Loads(q, k, g, room, frags)
    BY FilledBytes
  <2> QED
    BY <2>1 DEF Loads
<1> DEFINE N == Len(a)
           off2 == [x \in 1 .. N + 2 |-> [p \in DOMAIN pkts |->
                      IF x = N + 2 THEN off[N + 1][p] + Bytes(frags, p) ELSE off[x][p]]]
<1>1. /\ Carries(q, k, g, room, frags) /\ Serves(q, k, g, room, pk2) /\ RestOf(q, k, q2)
      /\ Len(q) \in Nat /\ Waits(s, q, pkts) /\ Uncut /\ DOMAIN pk2 = DOMAIN pkts
  BY DEF Filled, Waits, LinkInv, Serves
<1>2. /\ N \in Nat /\ Len(a2) = N + 1 /\ \A x \in 1 .. N : a2[x].frags = a[x].frags
      /\ a2[N + 1].frags = frags
  BY DEF Grown
<1>3. /\ k \in 0 .. Len(q) /\ (g => k + 1 \in 1 .. Len(q)) /\ k \in Nat /\ g \in BOOLEAN
      /\ \A i \in 1 .. Len(frags) : i \in 1 .. Len(q) /\ (i \in 1 .. k \/ (g /\ i = k + 1))
  BY <1>1 DEF Carries
<1>4. \A p \in DOMAIN pkts : /\ \A x \in 1 .. N + 1 : off2[x][p] = off[x][p]
                             /\ off2[N + 2][p] = off[N + 1][p] + Bytes(frags, p)
  BY <1>2
<1> HIDE DEF off2, N, Uncut
<1>5. PHS = 2 /\ TS = 1
  BY DEF PHS, TS
<1>6. ASSUME NEW p \in DOMAIN pkts, pkts[p].src = s
      PROVE  /\ \A x \in 1 .. N + 2 : off2[x][p] \in Nat /\ off2[x][p] <= pk2[p].total_length
             /\ heard[p] <= off2[1][p]
             /\ \A x \in 1 .. N + 1 : off2[x + 1][p] = off2[x][p] + Bytes(a2[x].frags, p)
             /\ off2[N + 2][p] + (IF p \in Range(q2) THEN pk2[p].psize ELSE 0) = pk2[p].total_length
  <2> DEFINE old == off[N + 1][p]
             more == Bytes(frags, p)
             size == pkts[p].psize
             total == pkts[p].total_length
             size2 == pk2[p].psize
             total2 == pk2[p].total_length
  <2>1. /\ \A x \in 1 .. N + 1 : off[x][p] \in Nat /\ off[x][p] <= total
        /\ heard[p] <= off[1][p]
        /\ \A x \in 1 .. N : off[x + 1][p] = off[x][p] + Bytes(a[x].frags, p)
        /\ old + (IF p \in Range(q) THEN size ELSE 0) = total
    BY <1>6 DEF Counts, N
  <2>2. total \in Nat /\ size \in Nat
    BY PacketType
  <2>3. old \in Nat
    <3>1. N + 1 \in 1 .. N + 1
      BY <1>2
    <3> QED
      BY <2>1, <3>1
  <2>4. /\ more \in Nat /\ total <= total2 /\ total2 \in Nat
        /\ old + more + (IF p \in Range(q2) THEN size2 ELSE 0) = total2
        /\ old + more <= total2
    <3>1. ASSUME NEW i \in 1 .. k, p = q[i]
          PROVE  more = size /\ p \in Range(q) /\ p \notin Range(q2) /\ total2 = total
      <4>1. i \in 1 .. Len(q) /\ ~(i > k)
        BY <1>3
      <4>2. g => k + 1 # i
        BY <1>3
      <4>3. ~IsCut(p, q, k, g)
        BY <1>1, <1>3, <3>1, <4>1, <4>2 DEF IsCut, Waits
      <4>4. total2 = total
        BY <1>1, <4>3 DEF Serves, Untouched
      <4>5. more = size
        BY <3>1, <1>0
      <4> QED
        BY <1>1, <3>1, <4>1, <4>4, <4>5 DEF RestOf
    <3>2. ASSUME IsCut(p, q, k, g)
          PROVE  /\ more = room /\ room \in Nat /\ room < size /\ p \in Range(q) /\ p \in Range(q2)
                 /\ START \in pkts[p].start_end => /\ total2 = total + PHS + TS
                                                   /\ size2 = (total + PHS + TS) - room
                                                   /\ size = total
                 /\ START \notin pkts[p].start_end => total2 = total /\ size2 = size - room
      <4>1. g /\ p = q[k + 1] /\ k + 1 \in 1 .. Len(q) /\ k + 1 > k
        BY <1>3, <3>2 DEF IsCut
      <4>2. CutBy(p, room, pk2) /\ room \in Nat /\ room < size
        BY <1>1, <3>2, <4>1 DEF Serves
      <4>3. more = room
        BY <4>1, <1>0
      <4>4. p \in Range(q) /\ p \in Range(q2)
        BY <1>1, <4>1 DEF RestOf
      <4>5. START \in pkts[p].start_end => size = total
        BY <1>1 DEF Uncut
      <4> QED
        BY <4>2, <4>3, <4>4, <4>5 DEF CutBy
    <3>3. ASSUME ~IsCut(p, q, k, g), \A i \in 1 .. k : p # q[i]
          PROVE  more = 0 /\ size2 = size /\ total2 = total /\ (p \in Range(q2) <=> p \in Range(q))
      <4>1. size2 = size /\ total2 = total
        BY <1>1, <3>3 DEF Serves, Untouched
      <4>2. \A i \in 1 .. Len(frags) : q[i] # p
        BY <1>3, <3>3 DEF IsCut
      <4>3. more = 0
        BY <4>2, <1>0
      <4>4. \A i \in 1 .. Len(q) : i > k \/ i \in 1 .. k
        BY <1>3
      <4> QED
        BY <1>1, <3>3, <4>1, <4>3, <4>4 DEF RestOf
    <3> HIDE DEF old, more, size, total, size2, total2
    <3>4. CASE \E i \in 1 .. k : p = q[i]
      BY <2>1, <2>2, <2>3, <3>1, <3>4
    <3>5. CASE IsCut(p, q, k, g)
      <4>1. old + size = total
        BY <2>1, <3>2, <3>5
      <4>2. CASE START \in pkts[p].start_end
        <5>1. /\ total2 = total + 2 + 1 /\ size2 = (total + 2 + 1) - room /\ size = total
              /\ room \in Nat /\ room < size /\ more = room
          BY <1>5, <3>2, <3>5, <4>2
        <5>2. old + more + size2 = total2
          BY <2>2, <2>3, <4>1, <5>1
        <5>3. more \in Nat /\ total <= total2 /\ total2 \in Nat /\ old + more <= total2
          BY <2>2, <2>3, <4>1, <5>1
        <5> QED
          BY <3>2, <3>5, <5>2, <5>3
      <4>3. CASE START \notin pkts[p].start_end
        <5>1. total2 = total /\ size2 = size - room /\ room \in Nat /\ room < size /\ more = room
          BY <3>2, <3>5, <4>3
        <5>2. old + more + size2 = total2
          BY <2>2, <2>3, <4>1, <5>1
        <5>3. more \in Nat /\ total <= total2 /\ total2 \in Nat /\ old + more <= total2
          BY <2>2, <2>3, <4>1, <5>1
        <5> QED
          BY <3>2, <3>5, <5>2, <5>3
      <4> QED
        BY <4>2, <4>3
    <3>6. CASE ~IsCut(p, q, k, g) /\ \A i \in 1 .. k : p # q[i]
      <4>1. more = 0 /\ size2 = size /\ total2 = total /\ (p \in Range(q2) <=> p \in Range(q))
        BY <3>3, <3>6
      <4>2. old + (IF p \in Range(q2) THEN size ELSE 0) = total
        BY <2>1, <4>1
      <4>3. old <= total
        BY <2>2, <2>3, <4>2
      <4> QED
        BY <2>2, <2>3, <4>1, <4>2, <4>3
    <3> QED
      BY <3>4, <3>5, <3>6
  <2>5. off2[N + 2][p] = old + more
    BY <1>4
  <2> HIDE DEF old, more, size, total, size2, total2
  <2>6. ASSUME NEW x \in 1 .. N + 2 PROVE off2[x][p] \in Nat /\ off2[x][p] <= total2
    <3>1. CASE x = N + 2
      BY <2>3, <2>4, <2>5, <3>1
    <3>2. CASE x # N + 2
      <4>1. x \in 1 .. N + 1
        BY <1>2, <3>2
      <4>2. off2[x][p] = off[x][p] /\ off[x][p] \in Nat /\ off[x][p] <= total
        BY <1>4, <2>1, <4>1
      <4> QED
        BY <2>2, <2>4, <4>2
    <3> QED
      BY <3>1, <3>2
  <2>7. heard[p] <= off2[1][p]
    <3>1. 1 \in 1 .. N + 1
      BY <1>2
    <3> QED
      BY <1>4, <2>1, <3>1
  <2>8. ASSUME NEW x \in 1 .. N + 1 PROVE off2[x + 1][p] = off2[x][p] + Bytes(a2[x].frags, p)
    <3>1. off2[x][p] = off[x][p]
      BY <1>4
    <3>2. CASE x = N + 1
      <4>1. x + 1 = N + 2 /\ a2[x].frags = frags
        BY <1>2, <3>2
      <4> QED
        BY <1>4, <3>1, <3>2, <4>1
    <3>3. CASE x # N + 1
      <4>1. x \in 1 .. N /\ x + 1 \in 1 .. N + 1
        BY <1>2, <3>3
      <4>2. off2[x + 1][p] = off[x + 1][p] /\ a2[x].frags = a[x].frags
        BY <1>2, <1>4, <4>1
      <4> QED
        BY <2>1, <3>1, <4>1, <4>2
    <3> QED
      BY <3>2, <3>3
  <2>9. off2[N + 2][p] + (IF p \in Range(q2) THEN size2 ELSE 0) = total2
    BY <2>4, <2>5
  <2> QED
    BY <2>6, <2>7, <2>8, <2>9 DEF size2, total2
<1>7. Len(a2) + 1 = N + 2 /\ Len(a2) = N + 1
  BY <1>2
<1>8. \A p \in DOMAIN pkts : pk2[p].src = pkts[p].src
  BY <1>1 DEF Serves
<1>9. Counts(off2, s, a2, q2, pk2, heard)
  BY <1>1, <1>6, <1>7, <1>8 DEF Counts
<1> QED
  BY <1>9

\* No more of a packet was heard than was sent.
LEMMA HeardBefore ==
    ASSUME LinkInv, NEW s \in Senders, NEW off, Counts(off, s, air[s], queue[s], pkts, heard),
           NEW p \in DOMAIN pkts, pkts[p].src = s
    PROVE  heard[p] <= off[Len(air[s]) + 1][p] /\ off[Len(air[s]) + 1][p] \in Nat /\ heard[p] \in Nat
<1> DEFINE N == Len(air[s])
           Fails == {x \in 1 .. N + 1 : ~(heard[p] <= off[x][p])}
<1>1. /\ N \in Nat /\ heard[p] \in Nat
      /\ \A x \in 1 .. N : Bytes(air[s][x].frags, p) \in Nat
  <2>1. N \in Nat /\ \A x \in 1 .. N : /\ Len(air[s][x].frags) \in Nat
                                       /\ \A i \in 1 .. Len(air[s][x].frags) : air[s][x].frags[i].length \in Nat
    BY AirType
  <2>2. heard[p] \in Nat
    BY DEF LinkInv, TypeOK
  <2> QED
    BY <2>1, <2>2, BytesType
<1>2. /\ \A x \in 1 .. N + 1 : off[x][p] \in Nat
      /\ heard[p] <= off[1][p]
      /\ \A x \in 1 .. N : off[x + 1][p] = off[x][p] + Bytes(air[s][x].frags, p)
  BY DEF Counts
<1> HIDE DEF N
<1>3. N + 1 \in 1 .. N + 1
  BY <1>1
<1>4. Fails = {}
  <2> SUFFICES ASSUME Fails # {} PROVE FALSE
    OBVIOUS
  <2>1. PICK y \in Fails : TRUE
    OBVIOUS
  <2>2. Fails \in SUBSET Nat
    OBVIOUS
  <2> HIDE DEF Fails
  <2>3. PICK x \in Fails : \A m \in Fails : x <= m
    BY <2>1, <2>2, LeastNumber
  <2>4. x \in 1 .. N + 1 /\ ~(heard[p] <= off[x][p])
    BY DEF Fails
  <2>5. x # 1
    BY <1>2, <2>4
  <2>6. x - 1 \in 1 .. N /\ x - 1 \in 1 .. N + 1 /\ (x - 1) + 1 = x /\ x - 1 < x
    BY <1>1, <2>4, <2>5
  <2>7. x - 1 \notin Fails
    BY <2>3, <2>4, <2>6
  <2>8. heard[p] <= off[x - 1][p]
    BY <2>6, <2>7 DEF Fails
  <2>9. /\ off[x][p] = off[x - 1][p] + Bytes(air[s][x - 1].frags, p)
        /\ off[x - 1][p] \in Nat /\ Bytes(air[s][x - 1].frags, p) \in Nat
    BY <1>1, <1>2, <2>6
  <2> QED
    BY <1>1, <2>4, <2>8, <2>9
<1>5. heard[p] <= off[N + 1][p]
  BY <1>3, <1>4
<1> QED
  BY <1>1, <1>2, <1>3, <1>5 DEF N

\* The senders that were not granted the timeslot.
LEMMA OtherSending ==
    ASSUME LinkInv, NEW n, NEW q, NEW k, NEW g, NEW room, NEW pk2, Serves(q, k, g, room, pk2),
           NEW x \in Senders, g => pkts[q[k + 1]].src # x,
           Sending(x, queue[x], air[x], next[x], pkts, heard, n)
    PROVE  Sending(x, queue[x], air[x], next[x], pk2, heard, n)
<1> DEFINE v == queue[x]
           a == air[x]
<1>1. /\ DOMAIN pk2 = DOMAIN pkts
      /\ \A p \in DOMAIN pkts :
           /\ pk2[p].src = pkts[p].src /\ pk2[p].frag_id = pkts[p].frag_id
           /\ pkts[p].src = x => /\ START \in pk2[p].start_end <=> START \in pkts[p].start_end
                                 /\ pk2[p].total_length = pkts[p].total_length
                                 /\ pk2[p].psize = pkts[p].psize
  BY DEF Serves, Untouched, IsCut
<1>2. /\ InOrder(x, v, pkts) /\ Numbered(x, v, pkts, next[x], n) /\ Stream(x, a, v, pkts, n)
      /\ \A i \in 1 .. Len(v) : v[i] \in DOMAIN pkts
      /\ DOMAIN pkts = 1 .. Len(pkts) /\ Len(pkts) \in Nat
  BY QueueType DEF Sending, LinkInv, TypeOK
<1>3. \A f, p : p \in DOMAIN pkts => (Mate(p, x, f, pk2) <=> Mate(p, x, f, pkts))
  BY <1>1 DEF Mate
<1> HIDE DEF v, a
<1>4. InOrder(x, v, pk2)
  BY <1>1, <1>2, <1>3 DEF InOrder
<1>5. \A f : Gone(x, f, v, pk2) = Gone(x, f, v, pkts)
  BY <1>1, <1>3 DEF Gone, Mate
<1>6. Numbered(x, v, pk2, next[x], n)
  BY <1>2, <1>5 DEF Numbered
<1>7. ASSUME NEW f, NEW p \in DOMAIN pkts PROVE Number(x, f, p, pk2) = Number(x, f, p, pkts)
  <2>1. ~(g /\ Mate(q[k + 1], x, f, pkts) /\ q[k + 1] < p)
    BY DEF Mate
  <2>2. p \in Nat /\ p <= Len(pkts) + 1
    BY <1>2
  <2> QED
    BY <2>1, <2>2, FilledNumbers
<1>8. ASSUME NEW z \in Spots(a, 0)
      PROVE  /\ Genuine(Spot(a, z), x, pk2, n) /\ Leads(Spot(a, z), v, pk2)
             /\ Spot(a, z).alpdu \in Ahead(a, v, 0)
  <2> DEFINE fh == Spot(a, z)
  <2>1. Genuine(fh, x, pkts, n) /\ Leads(fh, v, pkts) /\ fh.alpdu \in Ahead(a, v, 0)
    BY <1>2 DEF Stream
  <2> HIDE DEF fh
  <2>2. fh.alpdu \in DOMAIN pkts /\ pkts[fh.alpdu].src = x
    BY <2>1 DEF Genuine, Mate
  <2>3. Genuine(fh, x, pk2, n)
    BY <1>1, <1>3, <1>7, <2>1, <2>2 DEF Genuine
  <2>4. Leads(fh, v, pk2)
    BY <1>1, <1>2, <2>1 DEF Leads
  <2> QED
    BY <2>1, <2>3, <2>4 DEF fh
<1>9. Stream(x, a, v, pk2, n)
  BY <1>2, <1>8 DEF Stream
<1>10. \E off : Counts(off, x, a, v, pk2, heard)
  <2>1. PICK off : Counts(off, x, a, v, pkts, heard)
    BY DEF Sending, a, v
  <2>2. Counts(off, x, a, v, pk2, heard)
    BY <1>1, <2>1 DEF Counts
  <2> QED
    BY <2>2
<1> QED
  BY <1>4, <1>6, <1>9, <1>10 DEF Sending, v, a

LEMMA ReceivingServed ==
    ASSUME LinkInv, NEW n \in Nat, NEW q, NEW k, NEW g, NEW room, NEW pk2, Serves(q, k, g, room, pk2),
           NEW d, NEW r \in Kept, NEW A, NEW B, NEW B2, Receiving(d, r, A, B, pkts, heard, n),
           \A y \in Senders : A[y] \subseteq DOMAIN pkts,
           g => q[k + 1] \in DOMAIN pkts /\ q[k + 1] \in A[pkts[q[k + 1]].src],
           \A y \in Senders : \A x \in B2[y] :
              x \in B[y] \/ (x \in DOMAIN pkts /\ START \in pkts[x].start_end)
    PROVE  Receiving(d, r, A, B2, pk2, heard, n)
<1>1. /\ DOMAIN pk2 = DOMAIN pkts /\ Len(pk2) = Len(pkts)
      /\ \A p \in DOMAIN pkts :
           /\ pk2[p].src = pkts[p].src /\ pk2[p].frag_id = pkts[p].frag_id /\ pk2[p].dst = pkts[p].dst
           /\ START \notin pkts[p].start_end => START \notin pk2[p].start_end
           /\ ~IsCut(p, q, k, g) => /\ pk2[p].total_length = pkts[p].total_length
                                    /\ START \in pk2[p].start_end <=> START \in pkts[p].start_end
  BY DEF Serves, CutBy, Untouched
<1>2. DOMAIN pkts = 1 .. Len(pkts) /\ Len(pkts) \in Nat
  BY DEF LinkInv, TypeOK
<1>3. \A s, f, p : p \in DOMAIN pkts => (Mate(p, s, f, pk2) <=> Mate(p, s, f, pkts))
  BY <1>1 DEF Mate
<1>4. ASSUME NEW s, NEW f, NEW x \in 1 .. Len(pkts) + 1
      PROVE  /\ Number(s, f, x, pkts) <= Number(s, f, x, pk2)
             /\ Number(s, f, x, pkts) \in Nat /\ Number(s, f, x, pk2) \in Nat
  <2>1. x \in Nat /\ x <= Len(pkts) + 1
    BY <1>2
  <2>2. Number(s, f, x, pkts) <= Number(s, f, x, pk2)
    BY <2>1, FilledNumbers
  <2>3. Number(s, f, x, pkts) \in Nat /\ Number(s, f, x, pk2) \in Nat
    BY <2>1, NumberType
  <2> QED
    BY <2>2, <2>3
<1>5. Len(pkts) + 1 \in 1 .. Len(pkts) + 1 /\ \A p \in DOMAIN pkts : p \in 1 .. Len(pkts) + 1
  BY <1>2
<1>6. ASSUME NEW s \in Senders, NEW f \in Prios
      PROVE  \E e : Stands(e, r.ctx[Bucket(s, f)], d, s, f, A[s], B2[s], pk2, heard, n)
  <2> DEFINE c == r.ctx[Bucket(s, f)]
  <2>1. PICK e : Stands(e, c, d, s, f, A[s], B[s], pkts, heard, n)
    BY DEF Receiving
  <2> HIDE DEF c
  <2>2. /\ e \in Int /\ n - 1 <= e /\ c.exp_sn = e % SeqnoMod
        /\ e <= n + Number(s, f, Len(pkts) + 1, pkts)
        /\ \A x \in A[s] : Mate(x, s, f, pkts) => e <= n + Number(s, f, x, pkts)
        /\ c.pkt # NULL =>
             /\ c.pkt \in DOMAIN pkts /\ Mate(c.pkt, s, f, pkts) /\ pkts[c.pkt].dst = d
             /\ START \notin pkts[c.pkt].start_end /\ c.pkt \notin B[s]
             /\ e <= n + Number(s, f, c.pkt, pkts)
             /\ c.pkt \in A[s] => c.len <= heard[c.pkt]
             /\ \A x \in A[s] : Mate(x, s, f, pkts) => c.pkt <= x
    BY <2>1 DEF Stands
  <2>3. \A x \in 1 .. Len(pkts) + 1 :
           e <= n + Number(s, f, x, pkts) => e <= n + Number(s, f, x, pk2)
    <3> SUFFICES ASSUME NEW x \in 1 .. Len(pkts) + 1, e <= n + Number(s, f, x, pkts)
                 PROVE  e <= n + Number(s, f, x, pk2)
      OBVIOUS
    <3>1. /\ Number(s, f, x, pkts) <= Number(s, f, x, pk2)
          /\ Number(s, f, x, pkts) \in Nat /\ Number(s, f, x, pk2) \in Nat
      BY <1>4
    <3> QED
      BY <2>2, <3>1
  <2>4. e <= n + Number(s, f, Len(pk2) + 1, pk2)
    BY <1>1, <1>5, <2>2, <2>3
  <2>5. \A x \in A[s] : Mate(x, s, f, pk2) => e <= n + Number(s, f, x, pk2)
    BY <1>3, <1>5, <2>2, <2>3
  <2>6. ASSUME c.pkt # NULL
        PROVE  /\ c.pkt \in DOMAIN pk2 /\ Mate(c.pkt, s, f, pk2) /\ pk2[c.pkt].dst = d
               /\ START \notin pk2[c.pkt].start_end /\ c.pkt \notin B2[s]
               /\ e <= n + Number(s, f, c.pkt, pk2)
               /\ c.pkt \in A[s] => c.len <= heard[c.pkt]
               /\ \A x \in A[s] : Mate(x, s, f, pk2) => c.pkt <= x
    <3>1. c.pkt \in DOMAIN pkts /\ START \notin pkts[c.pkt].start_end /\ c.pkt \notin B[s]
      BY <2>2, <2>6
    <3>2. c.pkt \notin B2[s]
      BY <3>1
    <3>3. e <= n + Number(s, f, c.pkt, pk2)
      BY <1>5, <2>2, <2>3, <2>6
    <3>4. \A x \in A[s] : Mate(x, s, f, pk2) => c.pkt <= x
      BY <1>3, <2>2, <2>6
    <3> QED
      BY <1>1, <1>3, <2>2, <2>6, <3>1, <3>2, <3>3, <3>4
  <2>8. ASSUME NEW x \in DOMAIN pkts, Done(x, d, s, f, A[s], pk2, heard)
        PROVE  n + Number(s, f, x, pk2) + 1 <= e
    <3>1. Mate(x, s, f, pkts) /\ x \notin A[s] /\ pkts[x].src = s
      BY <1>3, <2>8 DEF Done, Mate
    <3>2. ~IsCut(x, q, k, g)
      BY <3>1 DEF IsCut
    <3>3. Done(x, d, s, f, A[s], pkts, heard)
      BY <1>1, <2>8, <3>1, <3>2 DEF Done
    <3>4. n + Number(s, f, x, pkts) + 1 <= e
      BY <2>1, <3>3 DEF Stands
    <3>5. ~(g /\ Mate(q[k + 1], s, f, pkts) /\ q[k + 1] < x)
      <4> SUFFICES ASSUME g, Mate(q[k + 1], s, f, pkts), q[k + 1] < x PROVE FALSE
        OBVIOUS
      <4> DEFINE y == q[k + 1]
      <4>1. y \in DOMAIN pkts /\ y \in A[s] /\ Mate(y, s, f, pkts)
        BY DEF Mate
      <4>2. e <= n + Number(s, f, y, pkts)
        BY <2>2, <4>1
      <4>3. y < x
        OBVIOUS
      <4> HIDE DEF y
      <4>4. y \in Nat \ {0} /\ x \in Nat /\ y <= x
        BY <1>2, <4>1, <4>3
      <4>5. Number(s, f, y, pkts) <= Number(s, f, x, pkts)
        BY <4>4, NumberPasses
      <4>6. Number(s, f, y, pkts) \in Nat /\ Number(s, f, x, pkts) \in Nat
        BY <4>4, NumberType
      <4> QED
        BY <2>2, <3>4, <4>2, <4>5, <4>6
    <3>6. x \in Nat /\ x <= Len(pkts) + 1
      BY <1>2
    <3>7. Number(s, f, x, pk2) = Number(s, f, x, pkts)
      BY <3>5, <3>6, FilledNumbers
    <3> QED
      BY <3>4, <3>7
  <2>7. Stands(e, c, d, s, f, A[s], B2[s], pk2, heard, n)
    BY <1>1, <2>2, <2>4, <2>5, <2>6, <2>8 DEF Stands
  <2> QED
    BY <2>7 DEF c
<1>7. Promised(Passed(r.up), d, A, pk2, heard)
  <2> DEFINE u == Passed(r.up)
  <2>1. Promised(u, d, A, pkts, heard)
    BY DEF Receiving
  <2> HIDE DEF u
  <2>2. ASSUME NEW i \in 1 .. Len(u)
        PROVE  /\ u[i] \in DOMAIN pk2 /\ pk2[u[i]].dst = d /\ heard[u[i]] = pk2[u[i]].total_length
               /\ \A x \in A[pk2[u[i]].src] : Same(u[i], x, pk2) => u[i] < x
    <3>1. /\ u[i] \in DOMAIN pkts /\ pkts[u[i]].dst = d /\ heard[u[i]] = pkts[u[i]].total_length
          /\ \A x \in A[pkts[u[i]].src] : Same(u[i], x, pkts) => u[i] < x
          /\ pkts[u[i]].src \in Senders /\ u[i] \in Nat
      BY <1>2, <2>1, PacketType DEF Promised
    <3>2. ~IsCut(u[i], q, k, g)
      <4>1. ~(u[i] < u[i]) /\ Same(u[i], u[i], pkts)
        BY <3>1 DEF Same
      <4>2. u[i] \notin A[pkts[u[i]].src]
        BY <3>1, <4>1
      <4> QED
        BY <4>2 DEF IsCut
    <3>3. \A x \in A[pkts[u[i]].src] : Same(u[i], x, pk2) <=> Same(u[i], x, pkts)
      BY <1>1, <3>1 DEF Same
    <3> QED
      BY <1>1, <3>1, <3>2, <3>3
  <2>3. ASSUME NEW i \in 1 .. Len(u), NEW j \in 1 .. Len(u), i < j, Same(u[i], u[j], pk2)
        PROVE  u[i] < u[j]
    <3>1. Same(u[i], u[j], pkts)
      BY <1>1, <2>1, <2>3 DEF Same, Promised
    <3> QED
      BY <2>1, <2>3, <3>1 DEF Promised
  <2> QED
    BY <2>2, <2>3 DEF Promised, u
<1> QED
  BY <1>6, <1>7 DEF Receiving

LEMMA SlotPromises ==
    ASSUME LinkInv, NEW n \in Nat, Promising(n),
           \A p \in DOMAIN pkts : pkts[p].total_length > 0 /\ pkts[p].psize > 0,
           NEW s \in Senders, NEW bs \in BurstSizes, NEW lost, Slot(s, bs, lost)
    PROVE  /\ Promising(n)'
           /\ UNCHANGED <<heard, up>> /\ DOMAIN pkts' = DOMAIN pkts
           /\ \A p \in DOMAIN pkts :
                /\ pkts'[p].src = pkts[p].src /\ pkts'[p].dst = pkts[p].dst
                /\ pkts'[p].frag_id = pkts[p].frag_id
                /\ pkts'[p].total_length > 0 /\ pkts'[p].psize > 0
                /\ heard[p] = pkts'[p].total_length <=> heard[p] = pkts[p].total_length
<1> DEFINE k == Whole(s, bs)
           q == queue[s]
           g == Goes(s, bs)
           room == Room(s, bs)
           frags == Frags(s, bs)
           pk2 == Served(s, bs)
           q2 == SubSeq(q, k + 1, Len(q))
           a == air[s]
           burst == [size |-> bs, lost |-> lost, frags |-> frags]
           a2 == Append(a, burst)
           nx2 == [f \in Prios |-> (next[s][f] + Cardinality(Closing(s, f, k))) % SeqnoMod]
<1>1. /\ air' = [air EXCEPT ![s] = a2] /\ pkts' = pk2 /\ next' = [next EXCEPT ![s] = nx2]
      /\ queue' = [queue EXCEPT ![s] = q2] /\ UNCHANGED <<lossy, ctx, up, heard, gap, inGap>>
  BY DEF Slot, Frags, First, Goes, Room, Served
<1>2. /\ air \in [Senders -> Seq(SentBurst)] /\ queue \in [Senders -> Seq(DOMAIN pkts)]
      /\ next \in [Senders -> [Prios -> 0 .. SeqnoMod - 1]]
      /\ DOMAIN pkts = 1 .. Len(pkts) /\ Len(pkts) \in Nat
  BY DEF LinkInv, TypeOK, Sent
<1>3. \A x \in Senders : /\ air'[x] = IF x = s THEN a2 ELSE air[x]
                         /\ next'[x] = IF x = s THEN nx2 ELSE next[x]
                         /\ queue'[x] = IF x = s THEN q2 ELSE queue[x]
  <2> HIDE DEF a2, nx2, q2
  <2> QED
    BY <1>1, <1>2
<1>4. SendingAll(n) /\ \A d \in Receivers : Receiving(d, [ctx |-> ctx[d], up |-> up[d]], NotOver, NotBegun, pkts, heard, n)
  BY DEF Promising, SendingAll
<1>5. /\ InOrder(s, q, pkts) /\ Numbered(s, q, pkts, next[s], n) /\ Stream(s, a, q, pkts, n)
      /\ Waits(s, q, pkts)
  BY <1>4, QueueType DEF SendingAll, Sending
<1>6. PICK off : Counts(off, s, a, q, pkts, heard)
  BY <1>4 DEF SendingAll, Sending
<1>7. Filled(s, q, k, g, room, frags, pk2, q2) /\ Serves(q, k, g, room, pk2)
  <2>1. Carries(q, k, g, room, frags)
    BY SlotCarries
  <2>2. Serves(q, k, g, room, pk2)
    BY SlotServes
  <2>3. k \in 0 .. Len(q)
    BY RoomFits
  <2>4. RestOf(q, k, q2)
    BY <1>5, <2>3, RestIsSo
  <2> HIDE DEF q2, pk2, frags, k, g, room, q
  <2> QED
    BY <1>5, <2>1, <2>2, <2>4 DEF Filled
<1>8. Grown(a, a2, frags)
  <2>1. a \in Seq(SentBurst) /\ Len(a) \in Nat /\ \A i \in 1 .. Len(a) : Len(a[i].frags) \in Nat
    BY <1>2, AirType
  <2>2. burst.frags = frags /\ Len(frags) \in Nat
    BY BurstType
  <2> HIDE DEF burst, frags, a
  <2>3. /\ Len(a2) = Len(a) + 1 /\ a2[Len(a) + 1] = burst
        /\ \A i \in 1 .. Len(a) : a2[i] = a[i]
    BY <2>1
  <2> QED
    BY <2>1, <2>2, <2>3 DEF Grown
<1>9. \A j \in 1 .. k : START \notin pkts[q[j]].start_end =>
        /\ j \in 1 .. Len(q)
        /\ frags[j].seqno = (next[s][pkts[q[j]].frag_id]
                               + Cardinality(Closing(s, pkts[q[j]].frag_id, j - 1))) % SeqnoMod
  BY SlotCarries
<1>10. CountsOn(s, k, nx2)
  BY DEF CountsOn
<1>11. q = queue[s]
  OBVIOUS
<1>12. a = air[s]
  OBVIOUS
<1> HIDE DEF k, q, g, room, frags, pk2, q2, a, a2, nx2, burst
<1>13. Numbered(s, q2, pk2, nx2, n) /\ CloseWith(s, q, pk2, n)
  BY <1>5, <1>7, <1>10, <1>11, FilledNumbered
<1>14. \A j \in 1 .. k : START \notin pkts[q[j]].start_end =>
         frags[j].seqno = (n + Number(s, pkts[q[j]].frag_id, q[j], pk2)) % SeqnoMod
  BY <1>9, <1>13 DEF CloseWith
<1>15. Sending(s, q2, a2, nx2, pk2, heard, n)
  <2>1. InOrder(s, q2, pk2)
    BY <1>7, FilledOrder
  <2>2. Stream(s, a2, q2, pk2, n)
    BY <1>5, <1>7, <1>8, <1>14, FilledStream
  <2>3. \E off2 : Counts(off2, s, a2, q2, pk2, heard)
    BY <1>6, <1>7, <1>8, FilledCounts
  <2> QED
    BY <1>13, <2>1, <2>2, <2>3 DEF Sending
<1>16. g => k + 1 \in 1 .. Len(q) /\ q[k + 1] \in DOMAIN pkts /\ q[k + 1] \in Range(q)
            /\ pkts[q[k + 1]].src = s
  BY <1>7 DEF Filled, Carries, RestOf, Waits
<1>17. ASSUME NEW x \in Senders
       PROVE  Sending(x, queue'[x], air'[x], next'[x], pkts', heard', n)
  <2>1. CASE x = s
    BY <1>1, <1>3, <1>15, <2>1
  <2>2. CASE x # s
    <3>1. Sending(x, queue[x], air[x], next[x], pkts, heard, n)
      BY <1>4 DEF SendingAll
    <3>2. g => pkts[q[k + 1]].src # x
      BY <1>16, <2>2
    <3>3. Sending(x, queue[x], air[x], next[x], pk2, heard, n)
      BY <1>7, <3>1, <3>2, OtherSending
    <3> QED
      BY <1>1, <1>3, <2>2, <3>3
  <2> QED
    BY <2>1, <2>2
<1>18. NotOver' = NotOver /\ \A x \in Senders : NotOver[x] \subseteq DOMAIN pkts
  <2>1. Ahead(a2, q2, 0) = Ahead(a, q, 0)
    BY <1>7, <1>8, FilledAhead
  <2>2. \A x \in Senders : Ahead(air'[x], queue'[x], 0) = Ahead(air[x], queue[x], 0)
    BY <1>3, <1>11, <1>12, <2>1
  <2> QED
    BY <2>2, NotOverType DEF NotOver
<1>19. ASSUME NEW y \in Senders, NEW x \in NotBegun'[y]
       PROVE  x \in NotBegun[y] \/ (x \in DOMAIN pkts /\ START \in pkts[x].start_end)
  <2>1. \A z \in Begins(a2, 0) : z \in Begins(a, 0) \/ (z \in DOMAIN pkts /\ START \in pkts[z].start_end)
    BY <1>7, <1>8, FilledAhead
  <2>2. x \in Begins(air'[y], 0) /\ NotBegun[y] = Begins(air[y], 0)
    BY DEF NotBegun
  <2> QED
    BY <1>3, <1>12, <2>1, <2>2
<1>20. g => q[k + 1] \in NotOver[pkts[q[k + 1]].src]
  <2>1. NotOver[s] = Ahead(a, q, 0)
    BY <1>11, <1>12 DEF NotOver
  <2> QED
    BY <1>16, <2>1 DEF Ahead
<1>21. ASSUME NEW d \in Receivers
       PROVE  Receiving(d, [ctx |-> ctx'[d], up |-> up'[d]], NotOver', NotBegun', pkts', heard', n)
  <2> DEFINE r == [ctx |-> ctx[d], up |-> up[d]]
  <2>1. r \in Kept
    BY DEF Kept, LinkInv, TypeOK, Sent
  <2>2. Receiving(d, r, NotOver, NotBegun, pkts, heard, n)
    BY <1>4
  <2> HIDE DEF r
  <2>3. Receiving(d, r, NotOver, NotBegun', pk2, heard, n)
    BY <1>7, <1>16, <1>18, <1>19, <1>20, <2>1, <2>2, ReceivingServed
  <2> QED
    BY <1>1, <1>18, <2>3 DEF r
<1>22. Promising(n)'
  BY <1>17, <1>21 DEF Promising
<1>23. DOMAIN pk2 = DOMAIN pkts
  BY <1>7 DEF Serves
<1>24. ASSUME NEW p \in DOMAIN pkts
       PROVE  /\ pk2[p].src = pkts[p].src /\ pk2[p].dst = pkts[p].dst
              /\ pk2[p].frag_id = pkts[p].frag_id /\ pk2[p].total_length > 0 /\ pk2[p].psize > 0
              /\ heard[p] = pk2[p].total_length <=> heard[p] = pkts[p].total_length
  <2>1. /\ pk2[p].src = pkts[p].src /\ pk2[p].dst = pkts[p].dst /\ pk2[p].frag_id = pkts[p].frag_id
        /\ IsCut(p, q, k, g) => CutBy(p, room, pk2)
        /\ ~IsCut(p, q, k, g) => pk2[p].total_length = pkts[p].total_length
    BY <1>7 DEF Serves, Untouched
  <2>2. pkts[p].total_length \in Nat /\ pkts[p].psize \in Nat /\ pkts[p].total_length > 0
    BY PacketType
  <2>6. pk2[p].psize > 0
    <3>1. CASE IsCut(p, q, k, g)
      <4>1. room \in Nat /\ room < pkts[p].psize /\ pkts[p].psize \in Nat
        BY <1>7, <2>2, <3>1 DEF Serves, IsCut
      <4>2. START \in pkts[p].start_end => pkts[p].psize = pkts[p].total_length
        BY DEF LinkInv, Uncut
      <4>3. \/ pk2[p].psize = (pkts[p].total_length + PHS + TS) - room /\ START \in pkts[p].start_end
            \/ pk2[p].psize = pkts[p].psize - room
        BY <2>1, <3>1 DEF CutBy
      <4>4. PHS = 2 /\ TS = 1
        BY DEF PHS, TS
      <4> QED
        BY <2>2, <4>1, <4>2, <4>3, <4>4
    <3>2. CASE ~IsCut(p, q, k, g)
      BY <1>7, <3>2 DEF Serves, Untouched
    <3> QED
      BY <3>1, <3>2
  <2> DEFINE same == heard[p] = pk2[p].total_length <=> heard[p] = pkts[p].total_length
  <2>3. ASSUME IsCut(p, q, k, g), START \in pkts[p].start_end
        PROVE  pk2[p].total_length > 0 /\ same
    <3>1. pk2[p].total_length = pkts[p].total_length + PHS + TS
      BY <2>1, <2>3 DEF CutBy
    <3>2. pk2[p].total_length = pkts[p].total_length + 3
      BY <2>2, <3>1 DEF PHS, TS
    <3>3. p \in Range(q) /\ pkts[p].src = s /\ pkts[p].psize = pkts[p].total_length
      BY <1>16, <2>3 DEF IsCut, LinkInv, Uncut
    <3>4. off[Len(a) + 1][p] + pkts[p].psize = pkts[p].total_length
      BY <1>6, <3>3 DEF Counts
    <3>5. heard[p] <= off[Len(a) + 1][p] /\ off[Len(a) + 1][p] \in Nat /\ heard[p] \in Nat
      BY <1>6, <1>11, <1>12, <3>3, HeardBefore
    <3>6. heard[p] = 0
      BY <2>2, <3>3, <3>4, <3>5
    <3>7. pk2[p].total_length > 0 /\ heard[p] # pk2[p].total_length /\ heard[p] # pkts[p].total_length
      BY <2>2, <3>2, <3>6
    <3> QED
      BY <3>7
  <2>4. ASSUME ~(IsCut(p, q, k, g) /\ START \in pkts[p].start_end)
        PROVE  pk2[p].total_length > 0 /\ same
    <3>1. pk2[p].total_length = pkts[p].total_length
      BY <2>1, <2>4 DEF CutBy
    <3> QED
      BY <2>2, <3>1
  <2>5. pk2[p].total_length > 0 /\ same
    BY <2>3, <2>4
  <2> QED
    BY <2>1, <2>5, <2>6
<1> QED
  BY <1>1, <1>22, <1>23, <1>24

\* At first there are no packets, and every context stands where the sender does or,
\* when it missed the last packet before the run, one behind.
LEMMA PromisedAtFirst == Init => PromiseInv
<1> SUFFICES ASSUME Init PROVE PromiseInv
  OBVIOUS
<1>1. /\ pkts = << >> /\ queue = [s \in Senders |-> << >>] /\ air = [s \in Senders |-> << >>]
      /\ up = [d \in Receivers |-> << >>] /\ heard = << >>
  BY DEF Init
<1>2. DOMAIN pkts = {} /\ Len(pkts) = 0
  BY <1>1
<1>3. LinkInv /\ \A p \in DOMAIN pkts : pkts[p].total_length > 0 /\ pkts[p].psize > 0
  BY <1>2, LinkInvInit
<1> DEFINE Follows(n, d) == n = 0 \/ d = CHOOSE r \in Receivers : TRUE
           exp(n, d) == IF Follows(n, d) THEN n ELSE n - 1
<1>4. PICK n \in StartSeqnos, left \in LeftLen :
        /\ next = [s \in Senders |-> [f \in Prios |-> n]]
        /\ ctx = [d \in Receivers |-> [b \in Buckets |->
                    [pkt |-> NULL, len |-> left, exp_sn |-> exp(n, d)]]]
  BY DEF Init, InitSeqnos
<1>5. n \in 0 .. SeqnoMod - 1 /\ SeqnoMod \in Nat \ {0}
  BY LinkAssumption
<1>6. \A d \in Receivers : exp(n, d) \in 0 .. SeqnoMod - 1 /\ n - 1 <= exp(n, d) /\ exp(n, d) <= n
  BY <1>5
<1> HIDE DEF exp, Follows
<1>7. \A i \in 0 .. SeqnoMod - 1 : i % SeqnoMod = i
  BY <1>5
<1>8. \A s \in Senders : /\ queue[s] = << >> /\ air[s] = << >> /\ Len(queue[s]) = 0 /\ Len(air[s]) = 0
                         /\ Range(queue[s]) = {} /\ Spots(air[s], 0) = {}
  <2>1. Len(<< >>) = 0 /\ Range(<< >>) = {}
    BY DEF Range
  <2>2. Spots(<< >>, 0) = {}
    BY <2>1 DEF Spots
  <2> QED
    BY <1>1, <2>1, <2>2
<1>9. ASSUME NEW s \in Senders
      PROVE  Sending(s, queue[s], air[s], next[s], pkts, heard, n)
  <2>1. InOrder(s, queue[s], pkts)
    BY <1>8 DEF InOrder
  <2>2. Numbered(s, queue[s], pkts, next[s], n)
    <3> SUFFICES ASSUME NEW f \in Prios
                 PROVE  next[s][f] = (n + Cardinality(Gone(s, f, queue[s], pkts))) % SeqnoMod
      BY DEF Numbered
    <3>1. Gone(s, f, queue[s], pkts) = {}
      BY <1>2 DEF Gone
    <3>2. Cardinality(Gone(s, f, queue[s], pkts)) = 0
      BY <3>1, FS_EmptySet
    <3>3. next[s][f] = n
      BY <1>4
    <3>4. n + 0 = n /\ n % SeqnoMod = n
      BY <1>5, <1>7
    <3> QED
      BY <3>2, <3>3, <3>4
  <2>3. Stream(s, air[s], queue[s], pkts, n)
    BY <1>8 DEF Stream
  <2>4. \A off : Counts(off, s, air[s], queue[s], pkts, heard)
    BY <1>2 DEF Counts
  <2> QED
    BY <2>1, <2>2, <2>3, <2>4 DEF Sending
<1>10. \A s \in Senders : NotOver[s] = {}
  BY <1>8 DEF NotOver, Ahead
<1>11. ASSUME NEW d \in Receivers
       PROVE  Receiving(d, [ctx |-> ctx[d], up |-> up[d]], NotOver, NotBegun, pkts, heard, n)
  <2>1. ASSUME NEW s \in Senders, NEW f \in Prios
        PROVE  Stands(exp(n, d), ctx[d][Bucket(s, f)], d, s, f, NotOver[s], NotBegun[s], pkts, heard, n)
    <3>1. Bucket(s, f) \in Buckets
      BY DEF Buckets
    <3>2. ctx[d][Bucket(s, f)].pkt = NULL /\ ctx[d][Bucket(s, f)].exp_sn = exp(n, d)
      BY <1>4, <3>1
    <3>3. /\ exp(n, d) \in Int /\ n - 1 <= exp(n, d) /\ exp(n, d) <= n
          /\ exp(n, d) % SeqnoMod = exp(n, d)
      BY <1>5, <1>6, <1>7
    <3>4. Number(s, f, Len(pkts) + 1, pkts) \in Nat
      BY <1>2, NumberType
    <3> QED
      BY <1>2, <1>5, <1>10, <3>2, <3>3, <3>4, SMTT(30) DEF Stands
  <2>2. Promised(Passed(up[d]), d, NotOver, pkts, heard)
    <3>1. Passed(up[d]) = << >> /\ Len(<< >>) = 0
      BY <1>1, PassedAppend
    <3> QED
      BY <3>1 DEF Promised
  <2> QED
    BY <2>1, <2>2 DEF Receiving
<1>12. Promising(n)
  BY <1>9, <1>11 DEF Promising
<1> QED
  BY <1>3, <1>12 DEF PromiseInv

\* No more than its length of a packet was heard.
LEMMA HeardAtMost ==
    ASSUME NEW s, NEW q, NEW a, NEW nx, NEW pk, NEW h, NEW n, Sending(s, q, a, nx, pk, h, n),
           Len(a) \in Nat, NEW p \in DOMAIN pk, pk[p].src = s, h[p] \in Nat, pk[p].total_length \in Nat
    PROVE  h[p] <= pk[p].total_length
<1>1. PICK off : Counts(off, s, a, q, pk, h)
  BY DEF Sending
<1>2. 1 \in 1 .. Len(a) + 1
  OBVIOUS
<1>3. off[1][p] \in Nat /\ off[1][p] <= pk[p].total_length /\ h[p] <= off[1][p]
  BY <1>1, <1>2 DEF Counts
<1> QED
  BY <1>3

\* Every step keeps the invariant.
LEMMA PromiseKept ==
    ASSUME OwnContexts, InReach, PromiseInv, [Next]_vars
    PROVE  PromiseInv'
<1>1. LinkInv /\ LinkInv'
      /\ \A p \in DOMAIN pkts : pkts[p].total_length > 0 /\ pkts[p].psize > 0
  BY LinkInvStep DEF PromiseInv
<1>2. PICK n \in StartSeqnos : Promising(n)
  BY DEF PromiseInv
<1>3. n \in Nat
  BY LinkAssumption
<1>4. ASSUME NEW s \in Senders, NEW d \in Receivers, NEW f \in Prios, NEW size \in Sizes,
             Send(s, d, f, size)
      PROVE  PromiseInv'
  <2>1. /\ Promising(n)' /\ More(pkts') /\ pkts'[Len(pkts) + 1].total_length > 0
        /\ pkts'[Len(pkts) + 1].psize = pkts'[Len(pkts) + 1].total_length
    BY <1>1, <1>2, <1>3, <1>4, SendPromises DEF More
  <2>2. \A p \in DOMAIN pkts' : p \in DOMAIN pkts \/ p = Len(pkts) + 1
    BY <2>1 DEF More
  <2>3. \A p \in DOMAIN pkts' : pkts'[p].total_length > 0 /\ pkts'[p].psize > 0
    BY <1>1, <2>1, <2>2 DEF More
  <2> QED
    BY <1>1, <2>1, <2>3 DEF PromiseInv
<1>5. ASSUME NEW s \in Senders, NEW bs \in BurstSizes, NEW lost, Slot(s, bs, lost)
      PROVE  PromiseInv'
  <2>1. /\ Promising(n)' /\ DOMAIN pkts' = DOMAIN pkts
        /\ \A p \in DOMAIN pkts : pkts'[p].total_length > 0 /\ pkts'[p].psize > 0
    BY <1>1, <1>2, <1>3, <1>5, SlotPromises
  <2> QED
    BY <1>1, <2>1 DEF PromiseInv
<1>6. ASSUME NEW s \in Senders, Arrive(s) PROVE PromiseInv'
  <2>1. Promising(n)'
    BY <1>1, <1>2, <1>3, <1>6, ArrivePromises
  <2>2. pkts' = pkts
    BY <1>6 DEF Arrive
  <2> QED
    BY <1>1, <2>1, <2>2 DEF PromiseInv
<1>7. CASE UNCHANGED vars
  <2>1. /\ pkts' = pkts /\ queue' = queue /\ next' = next /\ air' = air /\ ctx' = ctx /\ up' = up
        /\ heard' = heard
    BY <1>7 DEF vars
  <2>2. NotOver' = NotOver /\ NotBegun' = NotBegun
    BY <2>1 DEF NotOver, NotBegun
  <2>3. Promising(n)'
    BY <1>2, <2>1, <2>2 DEF Promising
  <2> QED
    BY <1>1, <2>1, <2>3 DEF PromiseInv
<1> QED
  BY <1>4, <1>5, <1>6, <1>7 DEF Next

-----------------------------------------------------------------------------
(* The link implements PacketLink                                          *)

\* The packets taken, those that arrived whole, and what was passed up.
Taken == [p \in DOMAIN pkts |->
            [dst |-> pkts[p].dst, flow |-> <<pkts[p].src, pkts[p].frag_id>>]]
Complete == {p \in DOMAIN pkts : heard[p] = pkts[p].total_length}
PassedUp == [d \in Receivers |-> Passed(up[d])]

\* RleLL::recv takes a packet; nothing of it has arrived yet.
LEMMA TakesOne ==
    ASSUME PromiseInv, NEW s \in Senders, NEW d \in Receivers, NEW f \in Prios, NEW size \in Sizes,
           Send(s, d, f, size)
    PROVE  \E h \in Link!Header : Link!Take(h)
<1> DEFINE h == [dst |-> d, flow |-> <<s, f>>]
           P == Len(pkts) + 1
           H == [dst : Receivers, flow : Senders \X Prios]
<1>1. h \in Link!Header /\ h \in H
  BY DEF Link!Header
<1>2. /\ LinkInv /\ UNCHANGED up
      /\ More(pkts') /\ pkts'[P].total_length > 0
      /\ pkts'[P].src = s /\ pkts'[P].dst = d /\ pkts'[P].frag_id = f /\ heard'[P] = 0
      /\ \A x \in DOMAIN pkts : heard'[x] = heard[x]
  <2>1. LinkInv /\ UNCHANGED up
    BY DEF PromiseInv, Send
  <2>2. PICK n \in StartSeqnos : Promising(n)
    BY DEF PromiseInv
  <2>3. n \in Nat
    BY LinkAssumption
  <2> QED
    BY <2>1, <2>2, <2>3, SendPromises
<1>3. /\ DOMAIN pkts = 1 .. Len(pkts) /\ Len(pkts) \in Nat /\ DOMAIN pkts' = 1 .. P /\ P \notin DOMAIN pkts
      /\ \A k \in 1 .. Len(pkts) : pkts'[k] = pkts[k]
  BY <1>2 DEF More
<1>4. Taken' = Append(Taken, h)
  <2>1. Taken \in Seq(H) /\ Len(Taken) = Len(pkts)
    <3>1. \A k \in 1 .. Len(pkts) : pkts[k].dst \in Receivers /\ pkts[k].src \in Senders /\ pkts[k].frag_id \in Prios
      BY <1>2, <1>3, PacketType DEF Packet
    <3>2. \A k \in 1 .. Len(pkts) : [dst |-> pkts[k].dst, flow |-> <<pkts[k].src, pkts[k].frag_id>>] \in H
      BY <3>1
    <3> HIDE DEF H
    <3> QED
      BY <1>3, <3>2 DEF Taken
  <2>2. \A k \in 1 .. Len(pkts) : Taken[k] = [dst |-> pkts[k].dst, flow |-> <<pkts[k].src, pkts[k].frag_id>>]
    BY <1>3 DEF Taken
  <2>3. Taken' = [k \in 1 .. P |-> [dst |-> pkts'[k].dst, flow |-> <<pkts'[k].src, pkts'[k].frag_id>>]]
    BY <1>3 DEF Taken
  <2>4. \A k \in 1 .. P :
          [dst |-> pkts'[k].dst, flow |-> <<pkts'[k].src, pkts'[k].frag_id>>] = IF k = P THEN h ELSE Taken[k]
    BY <1>2, <1>3, <2>2
  <2>5. Append(Taken, h) = [k \in 1 .. P |-> IF k = P THEN h ELSE Taken[k]]
    <3> HIDE DEF h, H
    <3>1. /\ Append(Taken, h) \in Seq(H) /\ Len(Append(Taken, h)) = P
          /\ \A k \in 1 .. P : Append(Taken, h)[k] = IF k = P THEN h ELSE Taken[k]
      BY <1>1, <1>3, <2>1
    <3>2. DOMAIN Append(Taken, h) = 1 .. P
      BY <1>3, <3>1
    <3>3. Append(Taken, h) = [k \in DOMAIN Append(Taken, h) |-> Append(Taken, h)[k]]
      <4>1. \A z \in Seq(H) : z = [k \in DOMAIN z |-> z[k]]
        OBVIOUS
      <4> QED
        BY <3>1, <4>1
    <3> QED
      BY <3>1, <3>2, <3>3
  <2> HIDE DEF h
  <2> QED
    BY <2>3, <2>4, <2>5
<1>5. Complete' = Complete
  <2>1. heard'[P] # pkts'[P].total_length
    BY <1>2
  <2>2. \A k : k \in Complete' <=> k \in DOMAIN pkts' /\ heard'[k] = pkts'[k].total_length
    BY DEF Complete
  <2>3. \A k : k \in Complete <=> k \in DOMAIN pkts /\ heard[k] = pkts[k].total_length
    BY DEF Complete
  <2>4. \A k : k \in DOMAIN pkts' <=> k \in DOMAIN pkts \/ k = P
    BY <1>3
  <2>5. \A k \in DOMAIN pkts : heard'[k] = heard[k] /\ pkts'[k].total_length = pkts[k].total_length
    BY <1>2, <1>3
  <2> QED
    BY <2>1, <2>2, <2>3, <2>4, <2>5
<1>6. PassedUp' = PassedUp
  BY <1>2 DEF PassedUp
<1>7. Link!Take(h)
  BY <1>4, <1>5, <1>6 DEF Link!Take, Taken, Complete, PassedUp
<1> QED
  BY <1>1, <1>7

\* A timeslot is filled: nothing that PacketLink sees changes.
LEMMA SlotHidden ==
    ASSUME PromiseInv, NEW s \in Senders, NEW bs \in BurstSizes, NEW lost, Slot(s, bs, lost)
    PROVE  UNCHANGED <<Taken, Complete, PassedUp>>
<1>1. /\ UNCHANGED <<heard, up>> /\ DOMAIN pkts' = DOMAIN pkts
      /\ \A p \in DOMAIN pkts :
           /\ pkts'[p].src = pkts[p].src /\ pkts'[p].dst = pkts[p].dst /\ pkts'[p].frag_id = pkts[p].frag_id
           /\ heard[p] = pkts'[p].total_length <=> heard[p] = pkts[p].total_length
  <2>1. PICK n \in StartSeqnos : Promising(n)
    BY DEF PromiseInv
  <2>2. n \in Nat /\ LinkInv /\ \A p \in DOMAIN pkts : pkts[p].total_length > 0 /\ pkts[p].psize > 0
    BY LinkAssumption DEF PromiseInv
  <2> QED
    BY <2>1, <2>2, SlotPromises
<1>2. Taken' = Taken
  BY <1>1 DEF Taken
<1>3. Complete' = Complete
  BY <1>1 DEF Complete
<1>4. PassedUp' = PassedUp
  BY <1>1 DEF PassedUp
<1> QED
  BY <1>2, <1>3, <1>4

\* A burst: what it makes stations pass up is for them, arrived whole, and is in order.
LEMMA ArrivesSound ==
    ASSUME OwnContexts, InReach, PromiseInv, NEW s \in Senders, Arrive(s)
    PROVE  Link!Arrive
<1>1. LinkInv /\ pkts' = pkts /\ LinkInv'
  <2>1. Next
    BY DEF Next
  <2> QED
    BY <2>1, LinkInvStep DEF PromiseInv, Arrive
<1>2. PICK n \in StartSeqnos : Promising(n)
  BY DEF PromiseInv
<1>3. n \in Nat
  BY LinkAssumption
<1>4. /\ Promising(n)' /\ \A d \in Receivers : Continues(Passed(up[d]), Passed(up'[d]))
      /\ \A p \in DOMAIN pkts : heard[p] <= heard'[p]
  BY <1>1, <1>2, <1>3, ArrivePromises
<1>5. Taken' = Taken
  BY <1>1 DEF Taken
<1>6. Complete \subseteq Complete' /\ Complete' \subseteq DOMAIN Taken
  <2>1. ASSUME NEW p \in DOMAIN pkts, heard[p] = pkts[p].total_length
        PROVE  heard'[p] = pkts[p].total_length
    <3> DEFINE x == pkts[p].src
    <3>1. x \in Senders /\ heard[p] \in Nat /\ heard'[p] \in Nat /\ pkts[p].total_length \in Nat
      BY <1>1, PacketType DEF LinkInv, TypeOK
    <3>2. Len(air'[x]) \in Nat
      <4>1. air'[x] \in Seq(SentBurst')
        BY <1>1, <3>1 DEF LinkInv, Sent
      <4> QED
        BY <4>1
    <3>3. Sending(x, queue'[x], air'[x], next'[x], pkts, heard', n)
      BY <1>1, <1>4, <3>1 DEF Promising
    <3> HIDE DEF x
    <3>4. heard'[p] <= pkts[p].total_length
      <4>1. pkts[p].src = x
        BY DEF x
      <4> QED
        BY <3>1, <3>2, <3>3, <4>1, HeardAtMost
    <3> QED
      BY <1>4, <2>1, <3>1, <3>4
  <2>2. \A p : p \in Complete' <=> p \in DOMAIN pkts /\ heard'[p] = pkts[p].total_length
    BY <1>1 DEF Complete
  <2> QED
    BY <2>1, <2>2 DEF Complete, Taken
<1>7. ASSUME NEW d \in Receivers
      PROVE  /\ Link!IsPrefix(PassedUp[d], PassedUp'[d])
             /\ \A p \in Link!Range(PassedUp'[d]) : p \in Complete' /\ Taken[p].dst = d
             /\ \A i, j \in DOMAIN PassedUp'[d] :
                  (i < j /\ Taken[PassedUp'[d][i]].flow = Taken[PassedUp'[d][j]].flow)
                  => PassedUp'[d][i] < PassedUp'[d][j]
  <2> DEFINE u == Passed(up[d])
             v == Passed(up'[d])
  <2>1. u = PassedUp[d] /\ v = PassedUp'[d]
    BY DEF PassedUp
  <2>2. u \in Seq(Nat) /\ v \in Seq(Nat)
    <3>1. up[d] \in Seq({NULL} \cup DOMAIN pkts) /\ up'[d] \in Seq({NULL} \cup DOMAIN pkts)
      BY <1>1 DEF LinkInv, TypeOK
    <3>2. {NULL} \cup DOMAIN pkts \subseteq Nat
      BY <1>1 DEF LinkInv, TypeOK, NULL
    <3>3. up[d] \in Seq(Nat) /\ up'[d] \in Seq(Nat)
      BY <3>1, <3>2, SeqGrows
    <3> QED
      BY <3>3, PassedAppend
  <2>3. Continues(u, v)
    BY <1>4
  <2>4. \E A : Promised(v, d, A, pkts, heard')
    BY <1>1, <1>4 DEF Promising, Receiving
  <2> HIDE DEF u, v
  <2>5. DOMAIN v = 1 .. Len(v)
    BY <2>2
  <2>6. /\ \A i \in 1 .. Len(v) : v[i] \in DOMAIN pkts /\ pkts[v[i]].dst = d /\ heard'[v[i]] = pkts[v[i]].total_length
        /\ \A i, j \in 1 .. Len(v) : (i < j /\ Same(v[i], v[j], pkts)) => v[i] < v[j]
    BY <2>4 DEF Promised
  <2>7. \A p \in DOMAIN pkts : Taken[p].dst = pkts[p].dst /\ Taken[p].flow = <<pkts[p].src, pkts[p].frag_id>>
    BY DEF Taken
  <2>8. Link!IsPrefix(u, v)
    <3>1. SubSeq(u, 1, Len(u)) = [i \in 1 .. Len(u) |-> u[i]]
      BY <2>2
    <3>2. SubSeq(v, 1, Len(u)) = [i \in 1 .. Len(u) |-> v[i]]
      BY <2>2, <2>3 DEF Continues
    <3> QED
      BY <2>3, <3>1, <3>2 DEF Continues, Link!IsPrefix
  <2>9. \A p \in Link!Range(v) : p \in Complete' /\ Taken[p].dst = d
    <3> SUFFICES ASSUME NEW p \in Link!Range(v) PROVE p \in Complete' /\ Taken[p].dst = d
      OBVIOUS
    <3>1. PICK i \in 1 .. Len(v) : p = v[i]
      BY <2>5 DEF Link!Range
    <3>2. p \in DOMAIN pkts /\ pkts[p].dst = d /\ heard'[p] = pkts[p].total_length
      BY <2>6, <3>1
    <3>3. p \in Complete'
      BY <1>1, <3>2 DEF Complete
    <3> QED
      BY <2>7, <3>2, <3>3
  <2>10. ASSUME NEW i \in DOMAIN v, NEW j \in DOMAIN v, i < j, Taken[v[i]].flow = Taken[v[j]].flow
         PROVE  v[i] < v[j]
    <3>1. Same(v[i], v[j], pkts)
      BY <2>5, <2>6, <2>7, <2>10 DEF Same
    <3> QED
      BY <2>5, <2>6, <2>10, <3>1
  <2> QED
    BY <2>1, <2>8, <2>9, <2>10
<1>8. DOMAIN PassedUp' = Receivers
  BY DEF PassedUp
<1>9. \A d \in Receivers : Link!FlowsInOrder(PassedUp'[d])
  BY <1>7 DEF Link!FlowsInOrder, Taken
<1> QED
  BY <1>5, <1>6, <1>7, <1>8, <1>9 DEF Link!Arrive, Taken, Complete, PassedUp

\* rle-encap.cc and mac-rle.cc keep the promise of PacketLink for any number of packets
\* and whatever bursts are lost: as long as no station misses a whole round of the
\* sequence numbers of a flow, and the senders' numbers let each have its own contexts,
\* every step of the link is a step of PacketLink or none.
THEOREM LinkKeepsPromise ==
    ASSUME OwnContexts
    PROVE  Spec /\ []InReach => KeepsPromise
<1>1. Init => Link!Init
  <2> SUFFICES ASSUME Init PROVE Link!Init
    OBVIOUS
  <2>1. DOMAIN pkts = {} /\ up = [d \in Receivers |-> << >>]
    BY DEF Init
  <2>2. Taken = << >> /\ Complete = {}
    BY <2>1 DEF Taken, Complete
  <2>3. PassedUp = [d \in Receivers |-> << >>]
    BY <2>1, PassedAppend DEF PassedUp
  <2> QED
    BY <2>2, <2>3 DEF Link!Init, Taken, Complete, PassedUp
<1>2. Init => PromiseInv
  BY PromisedAtFirst
<1>3. InReach /\ PromiseInv /\ [Next]_vars => PromiseInv'
  BY PromiseKept
<1>4. InReach /\ PromiseInv /\ [Next]_vars => [Link!Next]_<<Taken, Complete, PassedUp>>
  <2> SUFFICES ASSUME InReach, PromiseInv, [Next]_vars PROVE [Link!Next]_<<Taken, Complete, PassedUp>>
    OBVIOUS
  <2>1. ASSUME NEW s \in Senders, NEW d \in Receivers, NEW f \in Prios, NEW size \in Sizes,
               Send(s, d, f, size)
        PROVE  Link!Next
    BY <2>1, TakesOne DEF Link!Next
  <2>2. ASSUME NEW s \in Senders, NEW bs \in BurstSizes, NEW lost, Slot(s, bs, lost)
        PROVE  UNCHANGED <<Taken, Complete, PassedUp>>
    BY <2>2, SlotHidden
  <2>3. ASSUME NEW s \in Senders, Arrive(s) PROVE Link!Next
    BY <2>3, ArrivesSound DEF Link!Next
  <2>4. CASE UNCHANGED vars
    BY <2>4 DEF vars, Taken, Complete, PassedUp
  <2> QED
    BY <2>1, <2>2, <2>3, <2>4 DEF Next
<1> QED
  BY <1>1, <1>2, <1>3, <1>4, PTL DEF Spec, KeepsPromise, Link!Spec, Taken, Complete, PassedUp
=============================================================================
