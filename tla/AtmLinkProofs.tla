--------------------------- MODULE AtmLinkProofs ---------------------------
(***************************************************************************)
(* Theorems about AtmLink, for any stations, flows, sizes, timeslots and   *)
(* losses: the queue takes all cells of a packet or none (AllOrNone), the  *)
(* reassembly buffer holds no leftovers (BufferCurrent), what is sent up   *)
(* is complete as far as counting cells can tell, in order and never twice *)
(* (KeepsPromise: the link implements PacketLink), and what is thrown away *)
(* follows a packet that lost its last cell (DropExplained).               *)
(*                                                                         *)
(* The argument: cells of a virtual channel are in order all the way, in   *)
(* the queue, from burst to burst and within a burst, and behind all cells *)
(* of the channel that were ever heard (Flight).  So when the last cell of *)
(* a packet arrives, no cell of a later packet can be in the buffer, and   *)
(* when the cells of the channel there are as many as they should be, they *)
(* are the cells of the packet or there is one of an earlier packet whose  *)
(* last cell never came (Station).  And the cells of a packet stay in the  *)
(* buffer until its last one (Retained), so the packet goes up when no     *)
(* cell of an earlier one is among them; one that is was there before the  *)
(* burst, as no burst has a gap (Gapless).                                 *)
(***************************************************************************)
EXTENDS AtmLink, SequenceLemmas, FiniteSetTheorems

Sent == [src : Senders, dst : Receivers, vc : Nat, length : Sizes]
LastPart(snt, p) == Frags(snt[p].length)

\* c is a cell of one of the packets in snt.
Part(c, snt) ==
    /\ c \in Cell /\ c.pkt \in DOMAIN snt /\ c.part \in 1 .. LastPart(snt, c.pkt)
    /\ c.pt = IF c.part = LastPart(snt, c.pkt) THEN 1 ELSE 0
    /\ c.addr = snt[c.pkt].vc /\ c.dst = snt[c.pkt].dst /\ c.length = snt[c.pkt].length
    /\ c.prio = flowprio[c.addr % ATM_PRIO_NO]

\* Sender s uses its own virtual channels.
Own(s, c) == \E f \in Flows : c.addr = Addr(s, f)

\* The order of the cells of a virtual channel.
Before(p, i, c) == p < c.pkt \/ (p = c.pkt /\ i < c.part)
Ahead(x, y) == x.addr = y.addr => Before(x.pkt, x.part, y)
Passed(h, c, snt) == \A p \in DOMAIN snt : snt[p].vc = c.addr => \A i \in h[p] : Before(p, i, c)

\* The queue q of a sender.
Line(s, q, snt) ==
    /\ q \in Seq(Cell)
    /\ \A i \in 1 .. Len(q) : Part(q[i], snt) /\ Own(s, q[i])
    /\ \A i, j \in 1 .. Len(q) : i < j => q[i].prio <= q[j].prio /\ Ahead(q[i], q[j])

Burst == [lost : BOOLEAN, cells : Seq(Cell)]

\* All that sender s has in its queue q and in its bursts a.
Flight(s, q, a, snt, h) ==
    /\ Line(s, q, snt)
    /\ a \in Seq(Burst)
    /\ \A b \in 1 .. Len(a) : Line(s, a[b].cells, snt)
    /\ \A b, e \in 1 .. Len(a) : b < e =>
         \A i \in 1 .. Len(a[b].cells) : \A j \in 1 .. Len(a[e].cells) :
            Ahead(a[b].cells[i], a[e].cells[j])
    /\ \A b \in 1 .. Len(a) : \A i \in 1 .. Len(a[b].cells) : \A j \in 1 .. Len(q) :
         Ahead(a[b].cells[i], q[j])
    /\ \A j \in 1 .. Len(q) : Passed(h, q[j], snt)
    /\ \A b \in 1 .. Len(a) : \A i \in 1 .. Len(a[b].cells) : Passed(h, a[b].cells[i], snt)

\* Counted, for the packets in snt of which the parts in h were heard.
Same(x, p, snt) == snt[x].vc = snt[p].vc /\ snt[x].dst = snt[p].dst
CountedBy(p, snt, h) ==
    \/ h[p] = 1 .. LastPart(snt, p)
    \/ /\ LastPart(snt, p) \in h[p]
       /\ \E r \in 1 .. p - 1 :
            /\ Same(r, p, snt) /\ h[r] # {}
            /\ \A x \in r .. p - 1 : Same(x, p, snt) => LastPart(snt, x) \notin h[x]

Heard(snt, h) == h \in Seq(SUBSET Nat) /\ Len(h) = Len(snt)
                 /\ \A p \in DOMAIN snt : h[p] \subseteq 1 .. LastPart(snt, p)

\* The buffer of station d, and what it has passed up.
Current(d, c, snt, h) ==
    /\ Part(c, snt) /\ c.dst = d /\ c.pt = 0 /\ c.part \in h[c.pkt]
    /\ \A p \in DOMAIN snt : (p >= c.pkt /\ snt[p].vc = c.addr /\ snt[p].dst = d)
                                => LastPart(snt, p) \notin h[p]
Station(d, buf, u, snt, h) ==
    /\ IsFiniteSet(buf) /\ \A c \in buf : Current(d, c, snt, h)
    /\ u \in Seq(DOMAIN snt)
    /\ \A i \in 1 .. Len(u) : snt[u[i]].dst = d /\ CountedBy(u[i], snt, h)
    /\ \A i, j \in 1 .. Len(u) : (i < j /\ snt[u[i]].vc = snt[u[j]].vc) => u[i] < u[j]

\* One queue and one channel for each sender, one buffer for each receiver.
Shaped ==
    /\ queue = [s \in Senders |-> queue[s]] /\ air = [s \in Senders |-> air[s]]
    /\ buffer_ = [d \in Receivers |-> buffer_[d]] /\ up = [d \in Receivers |-> up[d]]

LinkInv ==
    /\ lossy \in Losses /\ sent \in Seq(Sent) /\ Heard(sent, heard) /\ Shaped
    /\ wiped \subseteq DOMAIN sent
    /\ \A s \in Senders : Flight(s, queue[s], air[s], sent, heard)
    /\ \A d \in Receivers : Station(d, buffer_[d], up[d], sent, heard)

-----------------------------------------------------------------------------
(* Cells                                                                   *)

\* A packet is at least one cell, for sender and receiver alike.
LEMMA FragsType ==
    ASSUME NEW size \in Sizes
    PROVE  Frags(size) \in Nat /\ Frags(size) >= 1 /\ SendFrags(size) = Frags(size)
<1>1. size \in Nat /\ size >= 1
  BY LinkAssumption
<1> QED
  BY <1>1 DEF Frags, SendFrags, ATM_TRL_LEN

LEMMA LastType ==
    ASSUME NEW snt \in Seq(Sent), NEW p \in DOMAIN snt
    PROVE  LastPart(snt, p) \in Nat /\ LastPart(snt, p) >= 1
<1>1. snt[p] \in Sent
  OBVIOUS
<1>2. snt[p].length \in Sizes
  BY <1>1 DEF Sent
<1> QED
  BY <1>2, FragsType DEF LastPart

\* A virtual channel has one sender and one flow.
LEMMA AddrDivides ==
    ASSUME NEW s \in Senders, NEW f \in Flows
    PROVE  /\ Addr(s, f) \in Nat /\ Addr(s, f) % ATM_PRIO_NO = f
           /\ \A t \in Senders, g \in Flows : Addr(s, f) = Addr(t, g) => s = t
<1>1. /\ s \in Nat /\ f \in 0 .. 7 /\ \A t \in Senders : t \in Nat
      /\ \A g \in Flows : g \in 0 .. 7
  BY LinkAssumption
<1>2. \A x \in Nat, y \in 0 .. 7 : (x * 8 + y) \in Nat /\ ((x * 8 + y) % 8) = y
  OBVIOUS
<1>3. \A x, z \in Nat, y, w \in 0 .. 7 : (x * 8 + y) = (z * 8 + w) => x = z
  OBVIOUS
<1> QED
  BY <1>1, <1>2, <1>3 DEF Addr, ATM_PRIO_NO

\* Part, packet and place in it make a cell.
LEMMA SameCell ==
    ASSUME NEW snt, NEW x, NEW y, Part(x, snt), Part(y, snt), x.pkt = y.pkt, x.part = y.part
    PROVE  x = y
<1>1. x \in Cell /\ y \in Cell
  BY DEF Part
<1>2. x.pt = y.pt /\ x.addr = y.addr /\ x.dst = y.dst /\ x.length = y.length
  BY DEF Part
<1>3. x.prio = y.prio
  BY <1>2 DEF Part
<1> QED
  BY <1>1, <1>2, <1>3 DEF Cell

-----------------------------------------------------------------------------
(* The queue                                                               *)

\* A cell that is behind all of its channel goes behind them in the queue.
LEMMA LineInsert ==
    ASSUME NEW s, NEW snt, NEW q, Line(s, q, snt), NEW c, Part(c, snt), Own(s, c),
           flowprio \in [Flows -> Nat], \A i \in 1 .. Len(q) : Ahead(q[i], c)
    PROVE  LET r == InsertCell(q, c)
           IN  /\ Line(s, r, snt) /\ Len(r) = Len(q) + 1
               /\ Range(r) = Range(q) \cup {c}
<1> DEFINE r == InsertCell(q, c)
<1>1. q \in Seq(Cell) /\ c \in Cell /\ \A x \in Cell : x.prio \in Nat
  BY DEF Line, Part, Cell
<1>2. PICK k \in 0 .. Len(q) : /\ r = PutBehind(q, c, k)
                               /\ \A i \in 1 .. k : q[i].prio <= c.prio
                               /\ k = Len(q) \/ q[k + 1].prio > c.prio
  BY <1>1, CellInserted
<1> HIDE DEF r
<1>3. /\ r \in Seq(Cell) /\ Len(r) = Len(q) + 1
      /\ \A i \in 1 .. Len(q) + 1 :
           r[i] = IF i <= k THEN q[i] ELSE IF i = k + 1 THEN c ELSE q[i - 1]
  <2>1. /\ PutBehind(q, c, k) \in Seq(Cell) /\ Len(PutBehind(q, c, k)) = Len(q) + 1
        /\ \A i \in 1 .. Len(q) + 1 :
             PutBehind(q, c, k)[i] = IF i <= k THEN q[i] ELSE IF i = k + 1 THEN c ELSE q[i - 1]
    BY <1>1, PutBehindAt
  <2> QED
    BY <1>2, <2>1
\* Where the other cells of r are in q.
<1> DEFINE From(i) == IF i <= k THEN i ELSE i - 1
<1>4. ASSUME NEW i \in 1 .. Len(r), i # k + 1
      PROVE  From(i) \in 1 .. Len(q) /\ r[i] = q[From(i)]
  <2>1. CASE i <= k
    BY <2>1, <1>3
  <2>2. CASE i > k
    <3>1. i - 1 \in 1 .. Len(q) /\ ~(i <= k) /\ i \in 1 .. Len(q) + 1
      BY <2>2, <1>3, <1>4
    <3>2. r[i] = q[i - 1]
      BY <3>1, <1>3, <1>4
    <3> QED
      BY <3>1, <3>2
  <2> QED
    BY <2>1, <2>2
<1>5. r[k + 1] = c /\ k + 1 \in 1 .. Len(r)
  <2>1. k + 1 \in 1 .. Len(q) + 1 /\ ~(k + 1 <= k)
    OBVIOUS
  <2> QED
    BY <2>1, <1>3
<1>6. ASSUME NEW i \in 1 .. Len(r), NEW j \in 1 .. Len(r), i # k + 1, j # k + 1, i < j
      PROVE  From(i) < From(j)
  BY <1>6, <1>3
<1>7. ASSUME NEW m \in 1 .. Len(q) PROVE \E i \in 1 .. Len(r) : r[i] = q[m]
  <2>1. CASE m <= k
    BY <2>1, <1>3
  <2>2. CASE m > k
    <3>1. m + 1 \in 1 .. Len(q) + 1 /\ ~(m + 1 <= k) /\ m + 1 # k + 1 /\ (m + 1) - 1 = m
      BY <2>2
    <3>2. r[m + 1] = q[m]
      BY <3>1, <1>3
    <3> QED
      BY <3>1, <3>2, <1>3
  <2> QED
    BY <2>1, <2>2
<1> HIDE DEF From
<1>8. \A i \in 1 .. Len(r) : Part(r[i], snt) /\ Own(s, r[i])
  BY <1>4, <1>5 DEF Line
<1>9. \A i \in 1 .. Len(q) : q[i].prio \in Nat /\ c.prio \in Nat
  BY <1>1
\* What comes behind c is less urgent, so it is not of the channel of c.
<1>10. ASSUME NEW m \in 1 .. Len(q), m > k PROVE q[m].prio > c.prio /\ q[m].addr # c.addr
  <2>1. k + 1 \in 1 .. Len(q) /\ q[k + 1].prio > c.prio
    BY <1>2, <1>10
  <2>2. m = k + 1 \/ q[k + 1].prio <= q[m].prio
    BY <2>1, <1>10 DEF Line
  <2>3. q[m].prio > c.prio
    BY <2>1, <2>2, <1>9
  <2>4. Part(q[m], snt)
    BY DEF Line
  <2>5. q[m].addr = c.addr => q[m].prio = c.prio
    BY <2>4 DEF Part
  <2> QED
    BY <2>3, <2>5, <1>9
<1>11. ASSUME NEW i \in 1 .. Len(r), NEW j \in 1 .. Len(r), i < j
       PROVE  r[i].prio <= r[j].prio /\ Ahead(r[i], r[j])
  <2>1. CASE i # k + 1 /\ j # k + 1
    <3>1. From(i) \in 1 .. Len(q) /\ From(j) \in 1 .. Len(q) /\ From(i) < From(j)
      BY <1>4, <1>6, <1>11, <2>1
    <3>2. r[i] = q[From(i)] /\ r[j] = q[From(j)]
      BY <1>4, <2>1
    <3> QED
      BY <3>1, <3>2 DEF Line
  <2>2. CASE j = k + 1
    <3>1. i \in 1 .. k /\ r[i] = q[i] /\ i \in 1 .. Len(q)
      BY <2>2, <1>3, <1>11
    <3> QED
      BY <2>2, <3>1, <1>2, <1>5
  <2>3. CASE i = k + 1
    <3>1. j - 1 \in 1 .. Len(q) /\ j - 1 > k /\ r[j] = q[j - 1]
      BY <2>3, <1>3, <1>11
    <3>2. q[j - 1].prio > c.prio /\ q[j - 1].addr # c.addr
      BY <3>1, <1>10
    <3> QED
      BY <2>3, <3>1, <3>2, <1>5, <1>9 DEF Ahead
  <2> QED
    BY <2>1, <2>2, <2>3
<1>12. Line(s, r, snt)
  BY <1>3, <1>8, <1>11 DEF Line
<1>13. Range(r) = Range(q) \cup {c}
  <2>1. Range(r) = {r[i] : i \in 1 .. Len(r)} /\ Range(q) = {q[i] : i \in 1 .. Len(q)}
    <3>1. DOMAIN r = 1 .. Len(r) /\ DOMAIN q = 1 .. Len(q)
      BY <1>1, <1>3
    <3> QED
      BY <3>1, Zenon DEF Range
  <2> QED
    BY <2>1, <1>4, <1>5, <1>7
<1> QED
  BY <1>3, <1>12, <1>13 DEF r

\* While there is room DropTail takes every cell, one after the other.
LEMMA TakeSteps ==
    ASSUME NEW q \in Seq(Cell), NEW cells \in Seq(Cell)
    PROVE  \E h : /\ h[0] = q
                  /\ \A m \in 1 .. Len(cells) : h[m] = TakeCell(h[m - 1], cells[m])
                  /\ FoldLeft(TakeCell, q, cells) = h[Len(cells)]
<1> DEFINE N == Len(cells)
           T == Seq(Cell)
           g == [z \in T \X Cell |-> TakeCell(z[1], z[2])]
           IsQueue(f) == f = [t \in SUBSET DOMAIN cells |->
                                IF t = {} THEN q ELSE TakeCell(f[t \ {Max(t)}], cells[Max(t)])]
<1>1. ASSUME NEW x \in T, NEW c \in Cell PROVE TakeCell(x, c) \in T
  <2>1. \A y \in Cell : y.prio \in Nat
    BY DEF Cell
  <2>2. \E k \in 0 .. Len(x) : InsertCell(x, c) = PutBehind(x, c, k)
    BY <2>1, CellInserted
  <2>3. InsertCell(x, c) \in T
    BY <2>2, PutBehindAt
  <2> QED
    BY <2>3 DEF TakeCell
<1>2. g \in [T \X Cell -> T] /\ \A x \in T, c \in Cell : g[<<x, c>>] = TakeCell(x, c)
  <2> HIDE DEF T
  <2> QED
    BY <1>1
<1>3. N \in Nat /\ DOMAIN cells = 1 .. N /\ (\A m \in 1 .. N : cells[m] \in Cell) /\ q \in T
  OBVIOUS
<1>4. FoldLeft(TakeCell, q, cells) = (CHOOSE f : IsQueue(f))[1 .. N]
  BY <1>3 DEF FoldLeft, MapThenFoldSet
<1> HIDE DEF g, N, T
<1>5. PICK f \in [SUBSET (1 .. N) -> T] : IsFold(f, g, q, cells, N)
  <2>1. \E f \in [SUBSET (1 .. Len(cells)) -> T] : IsFold(f, g, q, cells, Len(cells))
    BY <1>2, <1>3, FoldExists, Zenon
  <2> QED
    BY <2>1 DEF N
<1>6. IsQueue(f)
  <2>1. ASSUME NEW t \in SUBSET (1 .. N)
        PROVE  f[t] = IF t = {} THEN q ELSE TakeCell(f[t \ {Max(t)}], cells[Max(t)])
    <3>1. f[t] = FoldStep(f, g, q, cells, t)
      BY <1>5 DEF IsFold
    <3>2. CASE t = {}
      BY <3>1, <3>2 DEF FoldStep
    <3>3. CASE t # {}
      <4>1. Max(t) \in 1 .. N /\ t \ {Max(t)} \in SUBSET (1 .. N)
        BY <1>3, <3>3, MaxInside
      <4>2. f[t \ {Max(t)}] \in T /\ cells[Max(t)] \in Cell
        BY <1>3, <1>5, <4>1
      <4> QED
        BY <1>2, <3>1, <3>3, <4>2 DEF FoldStep
    <3> QED
      BY <3>2, <3>3
  <2>2. f = [t \in SUBSET (1 .. N) |-> f[t]]
    BY <1>5
  <2> QED
    BY <1>3, <2>1, <2>2
<1> DEFINE e == CHOOSE x : IsQueue(x)
           h == [m \in 0 .. N |-> e[1 .. m]]
<1>7. IsQueue(e)
  <2> HIDE DEF IsQueue
  <2> QED
    BY <1>6, Zenon
<1> HIDE DEF e
<1>8. h[0] = q
  <2>1. 1 .. 0 = {} /\ {} \in SUBSET (1 .. N) /\ 0 \in 0 .. N
    BY <1>3
  <2>2. e[{}] = q
    BY <1>3, <1>7, <2>1
  <2> QED
    BY <2>1, <2>2
<1>9. ASSUME NEW m \in 1 .. N PROVE h[m] = TakeCell(h[m - 1], cells[m])
  <2>1. m \in Nat \ {0} /\ m \in 0 .. N /\ m - 1 \in 0 .. N
    BY <1>3
  <2>2. Max(1 .. m) = m /\ (1 .. m) \ {m} = 1 .. m - 1
    BY <2>1, MaxOfInterval
  <2>3. (1 .. m) \in SUBSET (1 .. N) /\ 1 .. m # {}
    <3>1. m \in 1 .. m /\ \A x \in 1 .. m : x \in 1 .. N
      <4>1. m \in Nat /\ N \in Nat /\ 1 <= m /\ m <= N
        BY <1>3, <2>1
      <4> QED
        BY <4>1
    <3> QED
      BY <3>1, Zenon
  <2>4. e[1 .. m] = TakeCell(e[(1 .. m) \ {Max(1 .. m)}], cells[Max(1 .. m)])
    BY <1>3, <1>7, <2>3
  <2>5. h[m] = e[1 .. m] /\ h[m - 1] = e[1 .. m - 1]
    BY <2>1
  <2> QED
    BY <2>2, <2>4, <2>5
<1>10. FoldLeft(TakeCell, q, cells) = h[N]
  BY <1>3, <1>4 DEF e
<1> HIDE DEF h
<1> QED
  BY <1>8, <1>9, <1>10 DEF N

\* All cells of a packet for which send_frags found room are taken, and in order.
LEMMA LineTakes ==
    ASSUME NEW s, NEW snt, NEW q, Line(s, q, snt), flowprio \in [Flows -> Nat], limit_ \in Nat,
           NEW cells \in Seq(Cell), Len(q) + Len(cells) < limit_,
           \A j \in 1 .. Len(cells) : Part(cells[j], snt) /\ Own(s, cells[j]),
           \A i, j \in 1 .. Len(cells) : i < j => Ahead(cells[i], cells[j]),
           \A i \in 1 .. Len(q) : \A j \in 1 .. Len(cells) : Ahead(q[i], cells[j])
    PROVE  LET r == FoldLeft(TakeCell, q, cells)
           IN  Line(s, r, snt) /\ Range(r) = Range(q) \cup Range(cells)
<1> DEFINE N == Len(cells)
           First(m) == {cells[j] : j \in 1 .. m}
<1>1. N \in Nat /\ q \in Seq(Cell) /\ Len(q) \in Nat /\ DOMAIN cells = 1 .. N
  BY DEF Line
<1>2. PICK h : /\ h[0] = q
               /\ \A m \in 1 .. N : h[m] = TakeCell(h[m - 1], cells[m])
               /\ FoldLeft(TakeCell, q, cells) = h[N]
  BY <1>1, TakeSteps
<1> DEFINE Good(m) == /\ Line(s, h[m], snt) /\ Len(h[m]) = Len(q) + m
                      /\ Range(h[m]) = Range(q) \cup First(m)
           Bad == {m \in 0 .. N : ~Good(m)}
<1>3. Good(0)
  <2>1. First(0) = {}
    OBVIOUS
  <2> QED
    BY <1>1, <1>2, <2>1
<1>4. ASSUME NEW m \in 1 .. N, Good(m - 1) PROVE Good(m)
  <2> DEFINE x == h[m - 1]
             c == cells[m]
  <2>1. x \in Seq(Cell) /\ Len(x) = Len(q) + (m - 1) /\ Line(s, x, snt)
    BY <1>4 DEF Line
  <2>2. Len(x) + 1 < limit_
    BY <1>1, <2>1
  <2>3. h[m] = InsertCell(x, c)
    BY <1>2, <2>2 DEF TakeCell
  <2>4. ASSUME NEW i \in 1 .. Len(x) PROVE Ahead(x[i], c)
    <3>1. x[i] \in Range(x)
      BY <2>1 DEF Range
    <3>2. x[i] \in Range(q) \/ x[i] \in First(m - 1)
      BY <1>4, <3>1
    <3>3. ASSUME x[i] \in Range(q) PROVE Ahead(x[i], c)
      <4>1. PICK j \in 1 .. Len(q) : x[i] = q[j]
        BY <1>1, <3>3 DEF Range
      <4> QED
        BY <4>1
    <3>4. ASSUME x[i] \in First(m - 1) PROVE Ahead(x[i], c)
      <4>1. PICK j \in 1 .. m - 1 : x[i] = cells[j]
        BY <3>4
      <4>2. j \in 1 .. N /\ j < m
        BY <1>1
      <4> QED
        BY <4>1, <4>2
    <3> QED
      BY <3>2, <3>3, <3>4
  <2>5. Part(c, snt) /\ Own(s, c)
    OBVIOUS
  <2>6. /\ Line(s, h[m], snt) /\ Len(h[m]) = Len(x) + 1
        /\ Range(h[m]) = Range(x) \cup {c}
    <3> HIDE DEF x, c
    <3> QED
      BY <2>1, <2>3, <2>4, <2>5, LineInsert
  <2>7. First(m) = First(m - 1) \cup {c}
    BY <1>1
  <2> QED
    BY <1>4, <2>1, <2>6, <2>7, <1>1
<1>5. Bad = {}
  <2> SUFFICES ASSUME Bad # {} PROVE FALSE
    OBVIOUS
  <2>1. PICK m \in Bad : \A k \in Bad : m <= k
    <3>1. Bad \in SUBSET Nat
      BY <1>1
    <3> HIDE DEF Bad
    <3> QED
      BY <3>1, LeastNumber, Zenon
  <2>2. m \in 0 .. N /\ ~Good(m)
    BY <2>1
  <2> HIDE DEF Good
  <2>3. m \in 1 .. N
    BY <1>1, <1>3, <2>2
  <2>4. m - 1 \in 0 .. N /\ m - 1 < m /\ m - 1 \in Nat
    BY <1>1, <2>3
  <2>5. Good(m - 1)
    BY <1>1, <2>1, <2>3, <2>4
  <2> QED
    BY <1>4, <2>2, <2>3, <2>5
<1>6. Good(N)
  BY <1>1, <1>5
<1>7. First(N) = Range(cells)
  BY <1>1 DEF Range
<1> QED
  BY <1>2, <1>6, <1>7

-----------------------------------------------------------------------------
(* A packet is taken                                                       *)

\* The link takes more packets, of which nothing has been heard.
Grows(snt, h, snt2, h2) ==
    /\ snt \in Seq(Sent) /\ snt2 \in Seq(Sent) /\ Len(snt) <= Len(snt2)
    /\ \A p \in DOMAIN snt : snt2[p] = snt[p] /\ h2[p] = h[p]
    /\ \A p \in DOMAIN snt2 : p \notin DOMAIN snt => h2[p] = {}

LEMMA GrowsIn ==
    ASSUME NEW snt, NEW h, NEW snt2, NEW h2, Grows(snt, h, snt2, h2)
    PROVE  /\ DOMAIN snt = 1 .. Len(snt) /\ DOMAIN snt2 = 1 .. Len(snt2)
           /\ Len(snt) \in Nat /\ Len(snt2) \in Nat /\ DOMAIN snt \subseteq DOMAIN snt2
           /\ \A p \in DOMAIN snt : LastPart(snt2, p) = LastPart(snt, p)
<1>1. /\ DOMAIN snt = 1 .. Len(snt) /\ DOMAIN snt2 = 1 .. Len(snt2)
      /\ Len(snt) \in Nat /\ Len(snt2) \in Nat
  BY DEF Grows
<1>2. DOMAIN snt \subseteq DOMAIN snt2
  BY <1>1 DEF Grows
<1> QED
  BY <1>1, <1>2 DEF Grows, LastPart

LEMMA PartGrows ==
    ASSUME NEW snt, NEW h, NEW snt2, NEW h2, Grows(snt, h, snt2, h2), NEW c, Part(c, snt)
    PROVE  Part(c, snt2)
BY GrowsIn DEF Part, Grows

LEMMA PassedGrows ==
    ASSUME NEW snt, NEW h, NEW snt2, NEW h2, Grows(snt, h, snt2, h2), NEW c, Passed(h, c, snt)
    PROVE  Passed(h2, c, snt2)
BY GrowsIn DEF Passed, Grows

LEMMA LineGrows ==
    ASSUME NEW snt, NEW h, NEW snt2, NEW h2, Grows(snt, h, snt2, h2),
           NEW s, NEW q, Line(s, q, snt)
    PROVE  Line(s, q, snt2)
<1>1. \A i \in 1 .. Len(q) : Part(q[i], snt2)
  BY PartGrows DEF Line
<1> QED
  BY <1>1 DEF Line

LEMMA FlightGrows ==
    ASSUME NEW snt, NEW h, NEW snt2, NEW h2, Grows(snt, h, snt2, h2),
           NEW s, NEW q, NEW a, Flight(s, q, a, snt, h)
    PROVE  Flight(s, q, a, snt2, h2)
<1>1. Line(s, q, snt2) /\ \A b \in 1 .. Len(a) : Line(s, a[b].cells, snt2)
  BY LineGrows DEF Flight
<1>2. \A j \in 1 .. Len(q) : Passed(h2, q[j], snt2)
  BY PassedGrows DEF Flight
<1>3. \A b \in 1 .. Len(a) : \A i \in 1 .. Len(a[b].cells) : Passed(h2, a[b].cells[i], snt2)
  BY PassedGrows DEF Flight
<1> QED
  BY <1>1, <1>2, <1>3 DEF Flight

LEMMA CountedGrows ==
    ASSUME NEW snt, NEW h, NEW snt2, NEW h2, Grows(snt, h, snt2, h2), NEW p \in DOMAIN snt
    PROVE  CountedBy(p, snt, h) <=> CountedBy(p, snt2, h2)
<1>1. p \in 1 .. Len(snt) /\ Len(snt) \in Nat /\ \A x \in 1 .. p : x \in DOMAIN snt
  BY GrowsIn
<1>2. \A x \in 1 .. p : snt2[x] = snt[x] /\ h2[x] = h[x] /\ LastPart(snt2, x) = LastPart(snt, x)
  BY <1>1, GrowsIn DEF Grows
<1>3. p \in 1 .. p /\ \A r \in 1 .. p - 1 : r \in 1 .. p /\ \A x \in r .. p - 1 : x \in 1 .. p
  BY <1>1
<1>4. \A x \in 1 .. p : Same(x, p, snt2) <=> Same(x, p, snt)
  BY <1>2, <1>3 DEF Same
<1> DEFINE Skipped(r, w, g) == \A x \in r .. p - 1 : Same(x, p, w) => LastPart(w, x) \notin g[x]
<1>5. ASSUME NEW r \in 1 .. p - 1 PROVE Skipped(r, snt, h) <=> Skipped(r, snt2, h2)
  BY <1>2, <1>3, <1>4
<1> HIDE DEF Skipped
<1>6. h2[p] = h[p] /\ LastPart(snt2, p) = LastPart(snt, p)
  BY <1>2, <1>3
<1>7. (\E r \in 1 .. p - 1 : Same(r, p, snt) /\ h[r] # {} /\ Skipped(r, snt, h))
      <=> (\E r \in 1 .. p - 1 : Same(r, p, snt2) /\ h2[r] # {} /\ Skipped(r, snt2, h2))
  BY <1>2, <1>3, <1>4, <1>5
<1> QED
  BY <1>6, <1>7 DEF CountedBy, Skipped

LEMMA StationGrows ==
    ASSUME NEW snt, NEW h, NEW snt2, NEW h2, Grows(snt, h, snt2, h2),
           NEW d, NEW buf, NEW u, Station(d, buf, u, snt, h)
    PROVE  Station(d, buf, u, snt2, h2)
<1>1. \A c \in buf : Current(d, c, snt2, h2)
  <2> SUFFICES ASSUME NEW c \in buf PROVE Current(d, c, snt2, h2)
    OBVIOUS
  <2>1. Current(d, c, snt, h)
    BY DEF Station
  <2>2. Part(c, snt2) /\ c.pkt \in DOMAIN snt
    <3>1. Part(c, snt)
      BY <2>1 DEF Current
    <3>2. Part(c, snt2)
      BY <3>1, PartGrows
    <3> QED
      BY <3>1, <3>2 DEF Part
  <2>3. c.dst = d /\ c.pt = 0 /\ c.part \in h2[c.pkt]
    BY <2>1, <2>2 DEF Current, Grows
  <2>4. ASSUME NEW p \in DOMAIN snt2, p >= c.pkt, snt2[p].vc = c.addr, snt2[p].dst = d
        PROVE  LastPart(snt2, p) \notin h2[p]
    <3>1. CASE p \in DOMAIN snt
      <4>1. LastPart(snt2, p) = LastPart(snt, p) /\ snt2[p] = snt[p] /\ h2[p] = h[p]
        BY <3>1, GrowsIn DEF Grows
      <4> QED
        BY <2>1, <2>4, <3>1, <4>1 DEF Current
    <3>2. CASE p \notin DOMAIN snt
      BY <3>2 DEF Grows
    <3> QED
      BY <3>1, <3>2
  <2> QED
    BY <2>2, <2>3, <2>4 DEF Current
<1>2. u \in Seq(DOMAIN snt) /\ u \in Seq(DOMAIN snt2) /\ \A i \in 1 .. Len(u) : u[i] \in DOMAIN snt
  <2>1. u \in Seq(DOMAIN snt) /\ DOMAIN snt \subseteq DOMAIN snt2
    BY GrowsIn DEF Station
  <2> QED
    BY <2>1
<1>3. \A i \in 1 .. Len(u) : CountedBy(u[i], snt2, h2) /\ snt2[u[i]] = snt[u[i]]
  BY <1>2, CountedGrows DEF Station, Grows
<1> QED
  BY <1>1, <1>2, <1>3 DEF Station

\* Taking a packet from the network layer.
LEMMA SendStep ==
    ASSUME LinkInv, NEW s \in Senders, NEW d \in Receivers, NEW f \in Flows, NEW size \in Sizes,
           Send(s, d, f, size)
    PROVE  /\ LinkInv' /\ Grows(sent, heard, sent', heard')
           /\ Range(queue[s]) \subseteq Range(queue'[s])
           /\ \A i \in 1 .. Frags(size) :
                \E c \in Range(queue'[s]) : c.pkt = Len(sent) + 1 /\ c.part = i
           /\ \A c \in Range(queue'[s]) : c \in Range(queue[s]) \/ c.pkt = Len(sent) + 1
<1> DEFINE n == SendFrags(size)
           p == Len(sent) + 1
           x == [src |-> s, dst |-> d, vc |-> Addr(s, f), length |-> size]
           cell(i) == [pkt |-> p, part |-> i, pt |-> IF i = n THEN 1 ELSE 0,
                       addr |-> Addr(s, f), length |-> size, dst |-> d, prio |-> flowprio[f]]
           cells == [i \in 1 .. n |-> cell(i)]
           q == queue[s]
           a == air[s]
           r == FoldLeft(TakeCell, q, cells)
<1>1. /\ p <= MaxPackets /\ Room(q, n) /\ sent' = Append(sent, x) /\ heard' = Append(heard, {})
      /\ queue' = [queue EXCEPT ![s] = r]
      /\ UNCHANGED <<lossy, air, buffer_, up, wiped>>
  BY DEF Send
<1>2. /\ sent \in Seq(Sent) /\ Heard(sent, heard) /\ Shaped
      /\ lossy \in Losses /\ wiped \subseteq DOMAIN sent
      /\ \A t \in Senders : Flight(t, queue[t], air[t], sent, heard)
      /\ \A e \in Receivers : Station(e, buffer_[e], up[e], sent, heard)
  BY DEF LinkInv
<1>3. n \in Nat /\ n >= 1 /\ n = Frags(size) /\ Addr(s, f) \in Nat
      /\ Addr(s, f) % ATM_PRIO_NO = f /\ flowprio[f] \in Nat /\ size \in Nat
  BY FragsType, AddrDivides, LinkAssumption
<1> HIDE DEF n
<1>4. /\ sent' \in Seq(Sent) /\ Len(sent') = p /\ sent'[p] = x
      /\ Len(sent) \in Nat /\ p \in Nat /\ DOMAIN sent = 1 .. Len(sent) /\ DOMAIN sent' = 1 .. p
      /\ \A k \in DOMAIN sent : sent'[k] = sent[k]
  <2>1. x \in Sent
    BY <1>3 DEF Sent
  <2> HIDE DEF x
  <2> QED
    BY <1>1, <1>2, <2>1
<1>5. /\ heard \in Seq(SUBSET Nat) /\ Len(heard) = Len(sent)
      /\ heard' \in Seq(SUBSET Nat) /\ Len(heard') = p /\ heard'[p] = {}
      /\ \A k \in DOMAIN sent : heard'[k] = heard[k]
  <2>1. heard \in Seq(SUBSET Nat) /\ Len(heard) = Len(sent) /\ {} \in SUBSET Nat
    BY <1>2 DEF Heard
  <2> QED
    BY <1>1, <1>4, <2>1
<1>6. Grows(sent, heard, sent', heard')
  BY <1>2, <1>4, <1>5 DEF Grows
<1>7. Heard(sent', heard')
  <2>1. \A k \in DOMAIN sent' : heard'[k] \subseteq 1 .. LastPart(sent', k)
    <3> SUFFICES ASSUME NEW k \in DOMAIN sent' PROVE heard'[k] \subseteq 1 .. LastPart(sent', k)
      OBVIOUS
    <3>1. CASE k \in DOMAIN sent
      BY <3>1, <1>2, <1>5, <1>6, GrowsIn DEF Heard
    <3>2. CASE k \notin DOMAIN sent
      <4>1. k = p
        BY <1>4, <3>2
      <4> QED
        BY <1>5, <4>1
    <3> QED
      BY <3>1, <3>2
  <2> QED
    BY <2>1, <1>4, <1>5 DEF Heard
<1>8. \A i \in 1 .. n : /\ cell(i) \in Cell /\ cell(i).pkt = p /\ cell(i).part = i
                        /\ cell(i).addr = Addr(s, f)
                        /\ Part(cell(i), sent') /\ Own(s, cell(i))
  <2> SUFFICES ASSUME NEW i \in 1 .. n
               PROVE  /\ cell(i) \in Cell /\ cell(i).pkt = p /\ cell(i).part = i
                      /\ cell(i).addr = Addr(s, f)
                      /\ Part(cell(i), sent') /\ Own(s, cell(i))
    OBVIOUS
  <2>1. p \in 1 .. MaxPackets /\ i \in Nat
    BY <1>1, <1>4, LinkAssumption
  <2>2. cell(i) \in Cell
    BY <2>1, <1>3 DEF Cell
  <2>3. LastPart(sent', p) = n
    BY <1>3, <1>4 DEF LastPart
  <2>4. Part(cell(i), sent')
    BY <2>2, <2>3, <1>3, <1>4 DEF Part
  <2>5. Own(s, cell(i))
    BY DEF Own
  <2> QED
    BY <2>2, <2>4, <2>5
<1>9. /\ cells \in Seq(Cell) /\ Len(cells) = n /\ \A i \in 1 .. n : cells[i] = cell(i)
  <2> HIDE DEF cell
  <2> QED
    BY <1>3, <1>8
<1> HIDE DEF cells, cell, x, r
<1>10. Flight(s, q, a, sent, heard) /\ Flight(s, q, a, sent', heard')
  BY <1>2, <1>6, FlightGrows
\* What is under way belongs to earlier packets.
<1>11. \A c : Part(c, sent) => c.pkt < p
  BY <1>4 DEF Part
<1>12. \A i, j \in 1 .. n : i < j => Ahead(cells[i], cells[j])
  BY <1>3, <1>8, <1>9 DEF Ahead, Before
<1>13. \A c, j : (Part(c, sent) /\ j \in 1 .. n) => Ahead(c, cells[j])
  BY <1>8, <1>9, <1>11 DEF Ahead, Before
<1>14. Line(s, r, sent') /\ Range(r) = Range(q) \cup Range(cells)
  <2>1. Line(s, q, sent') /\ \A i \in 1 .. Len(q) : \A j \in 1 .. Len(cells) : Ahead(q[i], cells[j])
    BY <1>9, <1>10, <1>13 DEF Flight, Line
  <2>2. Len(q) + Len(cells) < limit_ /\ limit_ \in Nat /\ flowprio \in [Flows -> Nat]
    BY <1>1, <1>9, LinkAssumption DEF Room
  <2>3. \A j \in 1 .. Len(cells) : Part(cells[j], sent') /\ Own(s, cells[j])
    BY <1>8, <1>9
  <2>4. \A i, j \in 1 .. Len(cells) : i < j => Ahead(cells[i], cells[j])
    BY <1>9, <1>12
  <2> HIDE DEF q
  <2> QED
    BY <2>1, <2>2, <2>3, <2>4, <1>9, LineTakes, SMTT(30) DEF r
<1>15. ASSUME NEW j \in 1 .. Len(r)
       PROVE  (\E i \in 1 .. Len(q) : r[j] = q[i]) \/ (\E i \in 1 .. n : r[j] = cells[i])
  <2>1. /\ DOMAIN r = 1 .. Len(r) /\ DOMAIN q = 1 .. Len(q) /\ DOMAIN cells = 1 .. n
    <3>1. r \in Seq(Cell) /\ q \in Seq(Cell)
      BY <1>10, <1>14 DEF Flight, Line
    <3> QED
      BY <3>1, <1>9
  <2>2. r[j] \in Range(q) \cup Range(cells)
    BY <1>14, <2>1 DEF Range
  <2> QED
    BY <2>1, <2>2 DEF Range
<1>16. Flight(s, r, a, sent', heard')
  <2>1. \A b \in 1 .. Len(a) : \A i \in 1 .. Len(a[b].cells) : Part(a[b].cells[i], sent)
    BY <1>10 DEF Flight, Line
  <2>2. \A b \in 1 .. Len(a) : \A i \in 1 .. Len(a[b].cells) : \A j \in 1 .. Len(r) :
          Ahead(a[b].cells[i], r[j])
    <3> SUFFICES ASSUME NEW b \in 1 .. Len(a), NEW i \in 1 .. Len(a[b].cells), NEW j \in 1 .. Len(r)
                 PROVE  Ahead(a[b].cells[i], r[j])
      OBVIOUS
    <3>1. CASE \E k \in 1 .. Len(q) : r[j] = q[k]
      BY <3>1, <1>10 DEF Flight
    <3>2. CASE \E k \in 1 .. n : r[j] = cells[k]
      BY <3>2, <2>1, <1>13
    <3> QED
      BY <3>1, <3>2, <1>15
  <2>3. \A j \in 1 .. Len(r) : Passed(heard', r[j], sent')
    <3> SUFFICES ASSUME NEW j \in 1 .. Len(r) PROVE Passed(heard', r[j], sent')
      OBVIOUS
    <3>1. CASE \E k \in 1 .. Len(q) : r[j] = q[k]
      BY <3>1, <1>10 DEF Flight
    <3>2. CASE \E k \in 1 .. n : r[j] = cells[k]
      <4>1. r[j].pkt = p
        BY <3>2, <1>8, <1>9
      <4>2. \A k \in DOMAIN sent' : k < p \/ heard'[k] = {}
        BY <1>4, <1>5
      <4> QED
        BY <4>1, <4>2 DEF Passed, Before
    <3> QED
      BY <3>1, <3>2, <1>15
  <2> QED
    BY <1>10, <1>14, <2>2, <2>3 DEF Flight
<1>17. \A t \in Senders : Flight(t, queue'[t], air'[t], sent', heard')
  <2> SUFFICES ASSUME NEW t \in Senders PROVE Flight(t, queue'[t], air'[t], sent', heard')
    OBVIOUS
  <2>1. CASE t = s
    <3>1. queue'[t] = r /\ air'[t] = a
      BY <2>1, <1>1, <1>2 DEF Shaped
    <3> QED
      BY <2>1, <3>1, <1>16
  <2>2. CASE t # s
    <3>1. queue'[t] = queue[t] /\ air'[t] = air[t]
      BY <2>2, <1>1, <1>2 DEF Shaped
    <3> QED
      BY <3>1, <1>2, <1>6, FlightGrows
  <2> QED
    BY <2>1, <2>2
<1>18. \A e \in Receivers : Station(e, buffer_'[e], up'[e], sent', heard')
  <2>1. buffer_' = buffer_ /\ up' = up
    BY <1>1
  <2> QED
    BY <2>1, <1>2, <1>6, StationGrows
<1>19. Shaped' /\ lossy' \in Losses /\ wiped' \subseteq DOMAIN sent'
  <2>1. Shaped'
    BY <1>1, <1>2 DEF Shaped
  <2> QED
    BY <2>1, <1>1, <1>2, <1>4
<1>20. LinkInv'
  BY <1>4, <1>6, <1>7, <1>17, <1>18, <1>19 DEF LinkInv
<1>21. queue'[s] = r
  BY <1>1, <1>2 DEF Shaped
<1>22. ASSUME NEW i \in 1 .. Frags(size)
       PROVE  \E c \in Range(r) : c.pkt = Len(sent) + 1 /\ c.part = i
  <2>1. i \in 1 .. n /\ i \in DOMAIN cells
    BY <1>3, <1>9
  <2>2. cells[i] \in Range(r) /\ cells[i].pkt = p /\ cells[i].part = i
    BY <2>1, <1>8, <1>9, <1>14 DEF Range
  <2> QED
    BY <2>2
<1>23. ASSUME NEW c \in Range(r) PROVE c \in Range(q) \/ c.pkt = p
  <2>1. ASSUME c \in Range(cells) PROVE c.pkt = p
    <3>1. DOMAIN cells = 1 .. n
      BY <1>9
    <3> QED
      BY <2>1, <3>1, <1>8, <1>9 DEF Range
  <2> QED
    BY <2>1, <1>14
<1> QED
  BY <1>6, <1>14, <1>20, <1>21, <1>22, <1>23

-----------------------------------------------------------------------------
(* A burst is sent, or lost                                                *)

\* The cells from one place in a line to another are a line.
LEMMA LinePart ==
    ASSUME NEW s, NEW q, NEW snt, Line(s, q, snt), NEW k \in Nat, NEW m \in Nat, k + m <= Len(q)
    PROVE  LET r == SubSeq(q, k + 1, k + m)
           IN  /\ Line(s, r, snt) /\ Len(r) = m
               /\ \A i \in 1 .. m : r[i] = q[k + i] /\ k + i \in 1 .. Len(q)
<1> DEFINE r == SubSeq(q, k + 1, k + m)
<1>1. q \in Seq(Cell) /\ Len(q) \in Nat
  BY DEF Line
<1>2. r \in Seq(Cell) /\ Len(r) = m /\ \A i \in 1 .. m : r[i] = q[k + i]
  BY <1>1
<1> HIDE DEF r
<1>3. \A i \in 1 .. m : k + i \in 1 .. Len(q)
  BY <1>1
<1>4. \A i \in 1 .. m : Part(r[i], snt) /\ Own(s, r[i])
  BY <1>2, <1>3 DEF Line
<1>5. ASSUME NEW i \in 1 .. m, NEW j \in 1 .. m, i < j
      PROVE  r[i].prio <= r[j].prio /\ Ahead(r[i], r[j])
  <2>1. k + i < k + j
    BY <1>5
  <2> QED
    BY <2>1, <1>2, <1>3 DEF Line
<1> QED
  BY <1>2, <1>3, <1>4, <1>5 DEF Line, r

\* A timeslot takes the first k cells of the queue.
LEMMA FlightSends ==
    ASSUME NEW s, NEW q, NEW a, NEW snt, NEW h, Flight(s, q, a, snt, h),
           NEW k \in 0 .. Len(q), NEW lost \in BOOLEAN
    PROVE  Flight(s, SubSeq(q, k + 1, Len(q)),
                  Append(a, [lost |-> lost, cells |-> SubSeq(q, 1, k)]), snt, h)
<1> DEFINE cs == SubSeq(q, 1, k)
           r == SubSeq(q, k + 1, Len(q))
           z == [lost |-> lost, cells |-> cs]
           a2 == Append(a, z)
<1>1. Line(s, q, snt) /\ q \in Seq(Cell) /\ Len(q) \in Nat /\ a \in Seq(Burst) /\ Len(a) \in Nat
  BY DEF Flight, Line
<1>2. /\ Line(s, cs, snt) /\ Len(cs) = k
      /\ \A i \in 1 .. k : cs[i] = q[i] /\ i \in 1 .. Len(q)
  <2>1. 0 \in Nat /\ k \in Nat /\ 0 + k <= Len(q) /\ 0 + 1 = 1 /\ 0 + k = k
    BY <1>1
  <2>2. /\ Line(s, SubSeq(q, 0 + 1, 0 + k), snt) /\ Len(SubSeq(q, 0 + 1, 0 + k)) = k
        /\ \A i \in 1 .. k : SubSeq(q, 0 + 1, 0 + k)[i] = q[0 + i] /\ 0 + i \in 1 .. Len(q)
    BY <1>1, <2>1, LinePart
  <2>3. \A i \in 1 .. k : 0 + i = i
    BY <2>1
  <2> QED
    BY <2>1, <2>2, <2>3
<1>3. /\ Line(s, r, snt) /\ Len(r) = Len(q) - k
      /\ \A i \in 1 .. Len(q) - k : r[i] = q[k + i] /\ k + i \in 1 .. Len(q)
  <2>1. k \in Nat /\ Len(q) - k \in Nat /\ k + (Len(q) - k) = Len(q)
    BY <1>1
  <2>2. /\ Line(s, SubSeq(q, k + 1, k + (Len(q) - k)), snt)
        /\ Len(SubSeq(q, k + 1, k + (Len(q) - k))) = Len(q) - k
        /\ \A i \in 1 .. Len(q) - k : /\ SubSeq(q, k + 1, k + (Len(q) - k))[i] = q[k + i]
                                      /\ k + i \in 1 .. Len(q)
    <3> DEFINE m == Len(q) - k
    <3>1. m \in Nat /\ k + m <= Len(q)
      BY <2>1, <1>1
    <3> HIDE DEF m
    <3>2. /\ Line(s, SubSeq(q, k + 1, k + m), snt) /\ Len(SubSeq(q, k + 1, k + m)) = m
          /\ \A i \in 1 .. m : SubSeq(q, k + 1, k + m)[i] = q[k + i] /\ k + i \in 1 .. Len(q)
      BY <1>1, <2>1, <3>1, LinePart
    <3> QED
      BY <3>2 DEF m
  <2> QED
    BY <2>1, <2>2
<1> HIDE DEF cs, r
<1>4. /\ a2 \in Seq(Burst) /\ Len(a2) = Len(a) + 1 /\ a2[Len(a) + 1].cells = cs
      /\ \A b \in 1 .. Len(a) : a2[b] = a[b]
  <2>1. z \in Burst /\ z.cells = cs
    BY <1>2 DEF Burst, Line
  <2> HIDE DEF z
  <2> QED
    BY <2>1, <1>1
<1> HIDE DEF a2
<1> DEFINE n == Len(a) + 1
<1>5. \A b \in 1 .. Len(a2) : b = n \/ b \in 1 .. Len(a)
  BY <1>1, <1>4
<1>6. \A b \in 1 .. Len(a2) : Line(s, a2[b].cells, snt)
  BY <1>2, <1>4, <1>5 DEF Flight
<1>7. ASSUME NEW b \in 1 .. Len(a2), NEW e \in 1 .. Len(a2), b < e,
             NEW i \in 1 .. Len(a2[b].cells), NEW j \in 1 .. Len(a2[e].cells)
      PROVE  Ahead(a2[b].cells[i], a2[e].cells[j])
  <2>1. b \in 1 .. Len(a) /\ a2[b] = a[b]
    BY <1>1, <1>4, <1>7
  <2>2. CASE e = n
    <3>1. a2[e].cells = cs /\ j \in 1 .. k
      BY <2>2, <1>2, <1>4
    <3>2. cs[j] = q[j] /\ j \in 1 .. Len(q)
      BY <3>1, <1>2
    <3> QED
      BY <2>1, <3>1, <3>2 DEF Flight
  <2>3. CASE e \in 1 .. Len(a)
    BY <2>1, <2>3, <1>4, <1>7 DEF Flight
  <2> QED
    BY <2>2, <2>3, <1>5
<1>8. ASSUME NEW b \in 1 .. Len(a2), NEW i \in 1 .. Len(a2[b].cells), NEW j \in 1 .. Len(r)
      PROVE  Ahead(a2[b].cells[i], r[j])
  <2>1. r[j] = q[k + j] /\ k + j \in 1 .. Len(q)
    BY <1>3
  <2>2. CASE b = n
    <3>1. i \in 1 .. k /\ a2[b].cells[i] = q[i] /\ i \in 1 .. Len(q)
      BY <2>2, <1>2, <1>4
    <3>2. i < k + j
      BY <3>1, <1>1
    <3> QED
      BY <2>1, <3>1, <3>2, <1>1 DEF Line
  <2>3. CASE b \in 1 .. Len(a)
    BY <2>1, <2>3, <1>4 DEF Flight
  <2> QED
    BY <2>2, <2>3, <1>5
<1>9. \A j \in 1 .. Len(r) : Passed(h, r[j], snt)
  BY <1>3 DEF Flight
<1>10. ASSUME NEW b \in 1 .. Len(a2), NEW i \in 1 .. Len(a2[b].cells)
       PROVE  Passed(h, a2[b].cells[i], snt)
  <2>1. CASE b = n
    <3>1. i \in 1 .. k /\ a2[b].cells[i] = q[i] /\ i \in 1 .. Len(q)
      BY <2>1, <1>2, <1>4
    <3> QED
      BY <3>1 DEF Flight
  <2>2. CASE b \in 1 .. Len(a)
    BY <2>2, <1>4 DEF Flight
  <2> QED
    BY <2>1, <2>2, <1>5
<1>11. Flight(s, r, a2, snt, h)
  BY <1>3, <1>4, <1>6, <1>7, <1>8, <1>9, <1>10 DEF Flight
<1> QED
  BY <1>11 DEF r, a2, z, cs

\* slotHandler sends a burst.
LEMMA SlotStep ==
    ASSUME LinkInv, NEW s \in Senders, NEW cn \in CellCounts, NEW lost \in {FALSE, lossy},
           Slot(s, cn, lost)
    PROVE  LinkInv'
<1> DEFINE n == IF Len(queue[s]) < cn THEN Len(queue[s]) ELSE cn
<1>1. /\ air' = [air EXCEPT ![s] =
                   Append(@, [lost |-> lost, cells |-> SubSeq(queue[s], 1, n)])]
      /\ queue' = [queue EXCEPT ![s] = SubSeq(@, n + 1, Len(@))]
      /\ UNCHANGED <<lossy, sent, buffer_, up, heard, wiped>>
  BY DEF Slot
<1>2. /\ Shaped /\ lossy \in BOOLEAN
      /\ \A t \in Senders : Flight(t, queue[t], air[t], sent, heard)
  BY LinkAssumption DEF LinkInv
<1>3. n \in 0 .. Len(queue[s]) /\ lost \in BOOLEAN
  <2>1. Len(queue[s]) \in Nat /\ cn \in Nat
    BY <1>2, LinkAssumption DEF Flight, Line
  <2>2. n \in 0 .. Len(queue[s])
    BY <2>1
  <2>3. lost \in BOOLEAN
    BY <1>2
  <2> QED
    BY <2>2, <2>3
<1> HIDE DEF n
<1>4. \A t \in Senders : Flight(t, queue'[t], air'[t], sent', heard')
  <2> SUFFICES ASSUME NEW t \in Senders PROVE Flight(t, queue'[t], air'[t], sent, heard)
    BY <1>1
  <2>1. CASE t = s
    <3> DEFINE q == queue[s]
               a == air[s]
    <3>1. queue'[t] = SubSeq(q, n + 1, Len(q))
          /\ air'[t] = Append(a, [lost |-> lost, cells |-> SubSeq(q, 1, n)])
      BY <2>1, <1>1, <1>2 DEF Shaped
    <3>2. Flight(s, q, a, sent, heard) /\ n \in 0 .. Len(q)
      BY <1>2, <1>3
    <3> HIDE DEF q, a
    <3>3. Flight(s, SubSeq(q, n + 1, Len(q)),
                 Append(a, [lost |-> lost, cells |-> SubSeq(q, 1, n)]), sent, heard)
      BY <3>2, <1>3, FlightSends
    <3> QED
      BY <2>1, <3>1, <3>3
  <2>2. CASE t # s
    <3>1. queue'[t] = queue[t] /\ air'[t] = air[t]
      BY <2>2, <1>1, <1>2 DEF Shaped
    <3> QED
      BY <3>1, <1>2
  <2> QED
    BY <2>1, <2>2
<1>5. Shaped'
  BY <1>1, <1>2 DEF Shaped
<1> QED
  BY <1>1, <1>4, <1>5 DEF LinkInv

\* The first burst is gone.
LEMMA FlightTail ==
    ASSUME NEW s, NEW q, NEW a, NEW snt, NEW h, Flight(s, q, a, snt, h), a # << >>
    PROVE  Flight(s, q, Tail(a), snt, h)
<1> DEFINE r == Tail(a)
<1>1. a \in Seq(Burst) /\ Len(a) \in Nat
  BY DEF Flight
<1>2. r \in Seq(Burst) /\ Len(r) = Len(a) - 1 /\ \A b \in 1 .. Len(a) - 1 : r[b] = a[b + 1]
  BY <1>1
<1> HIDE DEF r
<1>3. \A b \in 1 .. Len(r) : b + 1 \in 1 .. Len(a) /\ r[b] = a[b + 1]
  BY <1>1, <1>2
<1>4. \A b, e \in 1 .. Len(r) : b < e => b + 1 < e + 1
  BY <1>1, <1>2
<1>5. \A b \in 1 .. Len(r) : Line(s, r[b].cells, snt)
  BY <1>3 DEF Flight
<1>6. \A b, e \in 1 .. Len(r) : b < e =>
         \A i \in 1 .. Len(r[b].cells) : \A j \in 1 .. Len(r[e].cells) :
            Ahead(r[b].cells[i], r[e].cells[j])
  <2> SUFFICES ASSUME NEW b \in 1 .. Len(r), NEW e \in 1 .. Len(r), b < e
               PROVE  \A i \in 1 .. Len(r[b].cells) : \A j \in 1 .. Len(r[e].cells) :
                        Ahead(r[b].cells[i], r[e].cells[j])
    OBVIOUS
  <2>1. b + 1 < e + 1 /\ b + 1 \in 1 .. Len(a) /\ e + 1 \in 1 .. Len(a)
        /\ r[b] = a[b + 1] /\ r[e] = a[e + 1]
    BY <1>3, <1>4
  <2> QED
    BY <2>1 DEF Flight
<1>7. \A b \in 1 .. Len(r) : \A i \in 1 .. Len(r[b].cells) : \A j \in 1 .. Len(q) :
         Ahead(r[b].cells[i], q[j])
  BY <1>3 DEF Flight
<1>8. \A b \in 1 .. Len(r) : \A i \in 1 .. Len(r[b].cells) : Passed(h, r[b].cells[i], snt)
  BY <1>3 DEF Flight
<1>9. Line(s, q, snt) /\ \A j \in 1 .. Len(q) : Passed(h, q[j], snt)
  BY DEF Flight
<1> QED
  BY <1>2, <1>5, <1>6, <1>7, <1>8, <1>9 DEF Flight, r

-----------------------------------------------------------------------------
(* A cell arrives                                                          *)

Hears(h, c) == [h EXCEPT ![c.pkt] = @ \cup {c.part}]

LEMMA HearsIs ==
    ASSUME NEW snt \in Seq(Sent), NEW h, Heard(snt, h), NEW c, Part(c, snt)
    PROVE  /\ Heard(snt, Hears(h, c))
           /\ \A p \in DOMAIN snt : \A i :
                i \in Hears(h, c)[p] <=> i \in h[p] \/ (p = c.pkt /\ i = c.part)
<1>1. /\ h \in Seq(SUBSET Nat) /\ Len(h) = Len(snt) /\ Len(snt) \in Nat
      /\ DOMAIN snt = 1 .. Len(snt) /\ DOMAIN h = DOMAIN snt
  BY DEF Heard
<1>2. c.pkt \in DOMAIN snt /\ c.part \in 1 .. LastPart(snt, c.pkt) /\ c.part \in Nat
  BY LastType DEF Part
<1>3. \A p \in DOMAIN snt : \A i :
        i \in Hears(h, c)[p] <=> i \in h[p] \/ (p = c.pkt /\ i = c.part)
  BY <1>1 DEF Hears
<1>4. Hears(h, c) \in Seq(SUBSET Nat) /\ Len(Hears(h, c)) = Len(snt)
  <2>1. h[c.pkt] \cup {c.part} \in SUBSET Nat
    BY <1>1, <1>2
  <2> QED
    BY <1>1, <1>2, <2>1 DEF Hears
<1>5. \A p \in DOMAIN snt : Hears(h, c)[p] \subseteq 1 .. LastPart(snt, p)
  BY <1>2, <1>3 DEF Heard
<1> QED
  BY <1>3, <1>4, <1>5 DEF Heard

\* What is heard next is behind what its channel has heard so far.
Later(snt, h, g) ==
    \A x \in DOMAIN snt :
        /\ h[x] \subseteq g[x]
        /\ \A i \in g[x] : i \notin h[x] =>
             \A p \in DOMAIN snt : snt[p].vc = snt[x].vc =>
                \A j \in h[p] : p < x \/ (p = x /\ j < i)

LEMMA HearsLater ==
    ASSUME NEW snt \in Seq(Sent), NEW h, Heard(snt, h), NEW c, Part(c, snt), Passed(h, c, snt)
    PROVE  Later(snt, h, Hears(h, c))
<1> DEFINE g == Hears(h, c)
<1>1. \A x \in DOMAIN snt : \A i : i \in g[x] <=> i \in h[x] \/ (x = c.pkt /\ i = c.part)
  BY HearsIs
<1>2. c.addr = snt[c.pkt].vc
  BY DEF Part
<1> HIDE DEF g
<1>3. Later(snt, h, g)
  BY <1>1, <1>2 DEF Later, Passed, Before
<1> QED
  BY <1>3 DEF g

\* What counts as complete goes on doing so: its channel has left it behind.
LEMMA CountedStays ==
    ASSUME NEW snt \in Seq(Sent), NEW h, NEW g, Heard(snt, g), Later(snt, h, g),
           NEW p \in DOMAIN snt, CountedBy(p, snt, h)
    PROVE  CountedBy(p, snt, g)
<1>1. h[p] \subseteq g[p] /\ g[p] \subseteq 1 .. LastPart(snt, p)
  BY DEF Heard, Later
<1>2. CASE h[p] = 1 .. LastPart(snt, p)
  BY <1>1, <1>2 DEF CountedBy
<1>3. CASE h[p] # 1 .. LastPart(snt, p)
  <2>1. LastPart(snt, p) \in h[p]
    BY <1>3 DEF CountedBy
  <2>2. PICK r \in 1 .. p - 1 :
          /\ Same(r, p, snt) /\ h[r] # {}
          /\ \A x \in r .. p - 1 : Same(x, p, snt) => LastPart(snt, x) \notin h[x]
    BY <1>3 DEF CountedBy
  <2>3. /\ DOMAIN snt = 1 .. Len(snt) /\ Len(snt) \in Nat /\ p \in Nat
        /\ \A x \in r .. p - 1 : x \in DOMAIN snt /\ x \in Nat /\ x < p
        /\ r \in r .. p - 1
    OBVIOUS
  <2>4. \A x \in r .. p - 1 : Same(x, p, snt) => \A i \in g[x] : i \in h[x]
    <3> SUFFICES ASSUME NEW x \in r .. p - 1, Same(x, p, snt), NEW i \in g[x], i \notin h[x]
                 PROVE  FALSE
      OBVIOUS
    <3>1. p < x \/ p = x
      BY <2>1, <2>3 DEF Later, Same
    <3> QED
      BY <2>3, <3>1
  <2>5. g[r] # {} /\ LastPart(snt, p) \in g[p]
    BY <1>1, <2>1, <2>2, <2>3 DEF Later
  <2> QED
    BY <2>2, <2>4, <2>5 DEF CountedBy
<1> QED
  BY <1>2, <1>3

\* A cell in the buffer stays current until the last cell of a packet of its channel.
LEMMA CurrentStays ==
    ASSUME NEW snt \in Seq(Sent), NEW h, Heard(snt, h), NEW c, Part(c, snt),
           NEW d, NEW x, Current(d, x, snt, h), c.dst # d \/ c.pt = 0 \/ c.addr # x.addr
    PROVE  Current(d, x, snt, Hears(h, c))
<1> DEFINE g == Hears(h, c)
<1>1. \A p \in DOMAIN snt : \A i : i \in g[p] <=> i \in h[p] \/ (p = c.pkt /\ i = c.part)
  BY HearsIs
<1> HIDE DEF g
<1>2. x.pkt \in DOMAIN snt /\ x.part \in g[x.pkt]
  BY <1>1 DEF Current, Part
<1>3. ASSUME NEW p \in DOMAIN snt, p >= x.pkt, snt[p].vc = x.addr, snt[p].dst = d
      PROVE  LastPart(snt, p) \notin g[p]
  <2>1. LastPart(snt, p) \notin h[p]
    BY <1>3 DEF Current
  <2>2. p = c.pkt => c.part # LastPart(snt, p)
    BY <1>3 DEF Part
  <2> QED
    BY <1>1, <2>1, <2>2
<1> QED
  BY <1>2, <1>3 DEF Current, g

\* When the buffer holds as many cells of the channel as are missing, they are those
\* of the packet, or one is left of a packet whose last cell never came.
LEMMA CompleteCounts ==
    ASSUME NEW snt \in Seq(Sent), NEW h, Heard(snt, h), NEW c, Part(c, snt), Passed(h, c, snt),
           NEW d, c.dst = d, c.pt = 1, NEW buf, IsFiniteSet(buf),
           \A x \in buf : Current(d, x, snt, h), Complete(buf, c)
    PROVE  CountedBy(c.pkt, snt, Hears(h, c))
<1> DEFINE g == Hears(h, c)
           p == c.pkt
           n == LastPart(snt, p)
           V == {x \in buf : x.addr = c.addr}
<1>1. /\ p \in DOMAIN snt /\ n \in Nat /\ n >= 1 /\ c.part = n /\ Frags(c.length) = n
      /\ c.addr = snt[p].vc /\ c.dst = snt[p].dst
  <2>1. p \in DOMAIN snt /\ c.part = n /\ Frags(c.length) = n
        /\ c.addr = snt[p].vc /\ c.dst = snt[p].dst
    BY DEF Part, LastPart
  <2> QED
    BY <2>1, LastType
<1>2. /\ \A x \in DOMAIN snt : \A i : i \in g[x] <=> i \in h[x] \/ (x = p /\ i = c.part)
      /\ g[p] \subseteq 1 .. n
  <2>1. \A x \in DOMAIN snt : \A i : i \in g[x] <=> i \in h[x] \/ (x = c.pkt /\ i = c.part)
    BY HearsIs
  <2>2. Heard(snt, g)
    BY HearsIs
  <2> QED
    BY <2>1, <2>2, <1>1 DEF Heard
<1>3. /\ DOMAIN snt = 1 .. Len(snt) /\ Len(snt) \in Nat /\ p \in Nat
  BY <1>1
<1> HIDE DEF g
<1>4. IsFiniteSet(V) /\ Cardinality(V) = n - 1
  <2>1. V = buf \ Purge(buf, c.addr)
    BY DEF Purge
  <2>2. IsFiniteSet(V)
    BY FS_Subset
  <2>3. Cardinality(V) \in Nat
    BY <2>2, FS_CardinalityType
  <2>4. 1 + Cardinality(V) = n
    BY <1>1, <2>1 DEF Complete
  <2> HIDE DEF V
  <2> QED
    BY <1>1, <2>2, <2>3, <2>4
<1>5. \A x \in V : /\ Part(x, snt) /\ x.dst = d /\ x.pt = 0 /\ x.part \in h[x.pkt]
                   /\ x.addr = c.addr /\ x.pkt \in DOMAIN snt /\ snt[x.pkt].vc = snt[p].vc
                   /\ snt[x.pkt].dst = snt[p].dst
  BY <1>1 DEF Current, Part
<1>6. CASE \A x \in V : x.pkt = p
  <2>1. \A x \in V : x.part \in 1 .. n - 1
    <3> SUFFICES ASSUME NEW x \in V PROVE x.part \in 1 .. n - 1
      OBVIOUS
    <3>1. x.part \in 1 .. n /\ x.part # n
      BY <1>5, <1>6 DEF Part
    <3> QED
      BY <1>1, <3>1
  <2>2. \A x, y \in V : x.part = y.part => x = y
    BY <1>5, <1>6, SameCell
  <2> DEFINE f == [x \in V |-> x.part]
  <2>3. f \in Injection(V, 1 .. n - 1)
    BY <2>1, <2>2 DEF Injection, IsInjective
  <2>4. IsFiniteSet(1 .. n - 1) /\ Cardinality(1 .. n - 1) = n - 1
    <3>1. 1 \in Int /\ n - 1 \in Int /\ (1 > n - 1 => n - 1 = 0) /\ ((n - 1) - 1) + 1 = n - 1
      BY <1>1
    <3> QED
      BY <3>1, FS_Interval
  <2>5. f \in Surjection(V, 1 .. n - 1)
    BY <1>4, <2>3, <2>4, FS_Injection
  <2>6. \A i \in 1 .. n - 1 : \E x \in V : x.part = i
    BY <2>5 DEF Surjection
  <2>7. \A i \in 1 .. n : i \in g[p]
    <3> SUFFICES ASSUME NEW i \in 1 .. n PROVE i \in g[p]
      OBVIOUS
    <3>1. CASE i = n
      BY <3>1, <1>1, <1>2
    <3>2. CASE i # n
      <4>1. i \in 1 .. n - 1
        BY <1>1, <3>2
      <4>2. PICK x \in V : x.part = i
        BY <2>6, <4>1
      <4> QED
        BY <1>1, <1>2, <1>5, <1>6, <4>2
    <3> QED
      BY <3>1, <3>2
  <2>8. g[p] = 1 .. n
    BY <1>2, <2>7
  <2> QED
    BY <2>8 DEF CountedBy, g
<1>7. CASE \E x \in V : x.pkt # p
  <2>1. PICK y \in V : y.pkt # p
    BY <1>7
  <2> DEFINE r == y.pkt
  <2>2. Current(d, y, snt, h) /\ y.part \in h[r] /\ r \in DOMAIN snt
    BY <1>5, <2>1
  <2>3. Before(r, y.part, c)
    BY <1>5, <1>1, <2>1, <2>2 DEF Passed
  <2>4. r \in 1 .. p - 1
    BY <1>3, <2>1, <2>2, <2>3 DEF Before
  <2>5. Same(r, p, snt) /\ g[r] # {}
    BY <1>2, <1>5, <2>1, <2>2, <2>4 DEF Same
  <2>6. ASSUME NEW x \in r .. p - 1, Same(x, p, snt) PROVE LastPart(snt, x) \notin g[x]
    <3>1. x \in DOMAIN snt /\ x >= y.pkt /\ x # p
      <4>1. r \in Nat /\ r >= 1
        BY <1>3, <2>2
      <4> QED
        BY <1>3, <4>1, <1>1
    <3>2. snt[x].vc = y.addr /\ snt[x].dst = d
      BY <1>1, <1>5, <2>1, <2>6 DEF Same
    <3>3. LastPart(snt, x) \notin h[x]
      BY <2>2, <3>1, <3>2 DEF Current
    <3> QED
      BY <1>2, <3>1, <3>3
  <2>7. n \in g[p]
    BY <1>1, <1>2
  <2> QED
    BY <2>4, <2>5, <2>6, <2>7 DEF CountedBy, g
<1> QED
  BY <1>6, <1>7

\* A packet that was sent up had its last cell heard.
LEMMA LastHeard ==
    ASSUME NEW snt \in Seq(Sent), NEW h, NEW p \in DOMAIN snt, CountedBy(p, snt, h)
    PROVE  LastPart(snt, p) \in h[p]
BY LastType DEF CountedBy

\* What sendUp does with one cell of a burst.
LEMMA HearCell ==
    ASSUME NEW snt \in Seq(Sent), NEW h, Heard(snt, h), NEW c, Part(c, snt), Passed(h, c, snt),
           NEW d, NEW buf, NEW u, Station(d, buf, u, snt, h)
    PROVE  LET r == ForMe(d, [buf |-> buf, up |-> u], c)
           IN  /\ Station(d, r.buf, r.up, snt, Hears(h, c))
               /\ r = [buf |-> r.buf, up |-> r.up]
               /\ r.up = u \/ r.up = Append(u, c.pkt)
<1> DEFINE g == Hears(h, c)
           r0 == [buf |-> buf, up |-> u]
           r == ForMe(d, r0, c)
<1>1. \A p \in DOMAIN snt : \A i : i \in g[p] <=> i \in h[p] \/ (p = c.pkt /\ i = c.part)
  BY HearsIs
<1>2. /\ IsFiniteSet(buf) /\ \A x \in buf : Current(d, x, snt, h)
      /\ u \in Seq(DOMAIN snt) /\ Len(u) \in Nat
      /\ \A i \in 1 .. Len(u) : u[i] \in DOMAIN snt
      /\ \A i \in 1 .. Len(u) : snt[u[i]].dst = d /\ CountedBy(u[i], snt, h)
      /\ \A i, j \in 1 .. Len(u) : (i < j /\ snt[u[i]].vc = snt[u[j]].vc) => u[i] < u[j]
  BY DEF Station
<1>3. /\ c.pkt \in DOMAIN snt /\ c.part \in 1 .. LastPart(snt, c.pkt) /\ c.addr = snt[c.pkt].vc
      /\ c.dst = snt[c.pkt].dst /\ c.pt = IF c.part = LastPart(snt, c.pkt) THEN 1 ELSE 0
  BY DEF Part
<1>4. \A i \in 1 .. Len(u) : CountedBy(u[i], snt, g)
  <2>1. Heard(snt, g) /\ Later(snt, h, g)
    BY HearsIs, HearsLater
  <2> HIDE DEF g
  <2> QED
    BY <1>2, <2>1, CountedStays
<1>5. /\ DOMAIN snt = 1 .. Len(snt) /\ Len(snt) \in Nat
      /\ \A p \in DOMAIN snt : LastPart(snt, p) \in Nat /\ LastPart(snt, p) >= 1
  BY LastType
<1> HIDE DEF g
<1>6. CASE c.dst # d
  <2>1. r = r0
    BY <1>6 DEF ForMe
  <2>2. \A x \in buf : Current(d, x, snt, g)
    BY <1>2, <1>6, CurrentStays DEF g
  <2>3. Station(d, buf, u, snt, g)
    BY <1>2, <1>4, <2>2 DEF Station
  <2> QED
    BY <2>1, <2>3 DEF g
<1>7. CASE c.dst = d /\ c.pt = 0
  <2>1. r = [buf |-> buf \cup {c}, up |-> u]
    BY <1>7 DEF ForMe, Reassemble
  <2>2. \A x \in buf : Current(d, x, snt, g)
    BY <1>2, <1>7, CurrentStays DEF g
  <2>3. ASSUME NEW p \in DOMAIN snt, p >= c.pkt, snt[p].vc = c.addr PROVE LastPart(snt, p) \notin g[p]
    <3>1. ASSUME LastPart(snt, p) \in h[p] PROVE FALSE
      <4>1. Before(p, LastPart(snt, p), c)
        BY <2>3, <3>1 DEF Passed
      <4>2. p = c.pkt /\ LastPart(snt, p) < c.part
        BY <1>3, <1>5, <2>3, <4>1 DEF Before
      <4> QED
        BY <1>3, <1>5, <4>2
    <3>2. ~(p = c.pkt /\ LastPart(snt, p) = c.part)
      BY <1>3, <1>7
    <3> QED
      BY <1>1, <3>1, <3>2
  <2>4. Current(d, c, snt, g)
    BY <1>1, <1>3, <1>7, <2>3 DEF Current
  <2>5. IsFiniteSet(buf \cup {c})
    BY <1>2, FS_AddElement
  <2>6. Station(d, buf \cup {c}, u, snt, g)
    BY <1>2, <1>4, <2>2, <2>4, <2>5 DEF Station
  <2>7. r.buf = buf \cup {c} /\ r.up = u
    BY <2>1
  <2>8. Station(d, r.buf, r.up, snt, g) /\ r = [buf |-> r.buf, up |-> r.up]
    BY <2>1, <2>6, <2>7
  <2> QED
    BY <2>7, <2>8 DEF g
<1>8. CASE c.dst = d /\ c.pt = 1
  <2> DEFINE kept == Purge(buf, c.addr)
             u2 == IF Complete(buf, c) THEN Append(u, c.pkt) ELSE u
  <2>1. r = [buf |-> kept, up |-> u2]
    BY <1>8 DEF ForMe, Reassemble
  <2>2. kept \in SUBSET buf /\ \A x \in kept : x.addr # c.addr
    BY DEF Purge
  <2>3. IsFiniteSet(kept) /\ \A x \in kept : Current(d, x, snt, g)
    <3>1. IsFiniteSet(kept)
      BY <1>2, <2>2, FS_Subset
    <3>2. \A x \in kept : Current(d, x, snt, h) /\ c.addr # x.addr
      BY <1>2, <2>2
    <3> HIDE DEF kept
    <3> QED
      BY <3>1, <3>2, CurrentStays DEF g
  <2>4. CASE ~Complete(buf, c)
    <3>1. u2 = u
      BY <2>4
    <3>2. Station(d, kept, u, snt, g)
      BY <1>2, <1>4, <2>3 DEF Station
    <3> QED
      BY <2>1, <3>1, <3>2 DEF g
  <2>5. CASE Complete(buf, c)
    <3>1. u2 = Append(u, c.pkt) /\ u2 \in Seq(DOMAIN snt) /\ Len(u2) = Len(u) + 1
          /\ u2[Len(u) + 1] = c.pkt /\ \A i \in 1 .. Len(u) : u2[i] = u[i]
      <4>1. u2 = Append(u, c.pkt)
        BY <2>5
      <4> HIDE DEF u2
      <4> QED
        BY <4>1, <1>2, <1>3
    <3> HIDE DEF u2, kept
    <3>2. CountedBy(c.pkt, snt, g)
      BY <1>2, <1>8, <2>5, CompleteCounts DEF g
    <3>3. \A i \in 1 .. Len(u2) : i = Len(u) + 1 \/ i \in 1 .. Len(u)
      BY <1>2, <3>1
    <3>4. \A i \in 1 .. Len(u2) : snt[u2[i]].dst = d /\ CountedBy(u2[i], snt, g)
      BY <1>2, <1>3, <1>4, <1>8, <3>1, <3>2, <3>3
    <3>5. ASSUME NEW i \in 1 .. Len(u), snt[u[i]].vc = c.addr PROVE u[i] < c.pkt
      <4>1. LastPart(snt, u[i]) \in h[u[i]]
        BY <1>2, LastHeard
      <4>2. Before(u[i], LastPart(snt, u[i]), c)
        BY <1>2, <3>5, <4>1 DEF Passed
      <4> QED
        BY <1>2, <1>3, <1>5, <4>2 DEF Before
    <3>6. ASSUME NEW i \in 1 .. Len(u2), NEW j \in 1 .. Len(u2), i < j,
                 snt[u2[i]].vc = snt[u2[j]].vc
          PROVE  u2[i] < u2[j]
      <4>1. i \in 1 .. Len(u) /\ u2[i] = u[i]
        BY <1>2, <3>1, <3>6
      <4>2. CASE j = Len(u) + 1
        BY <1>3, <3>1, <3>5, <3>6, <4>1, <4>2
      <4>3. CASE j \in 1 .. Len(u)
        BY <1>2, <3>1, <3>6, <4>1, <4>3
      <4> QED
        BY <3>3, <4>2, <4>3
    <3>7. Station(d, kept, u2, snt, g)
      BY <2>3, <3>1, <3>4, <3>6 DEF Station
    <3>8. r.buf = kept /\ r.up = u2
      BY <2>1
    <3>9. Station(d, r.buf, r.up, snt, g) /\ r = [buf |-> r.buf, up |-> r.up]
      BY <2>1, <3>7, <3>8
    <3> HIDE DEF r, r0
    <3>10. r.up = Append(u, c.pkt)
      BY <3>1, <3>8
    <3> QED
      BY <3>9, <3>10 DEF g, r, r0
  <2> QED
    BY <2>4, <2>5
<1>9. c.pt = 0 \/ c.pt = 1
  BY <1>3
<1> QED
  BY <1>6, <1>7, <1>8, <1>9

-----------------------------------------------------------------------------
(* A burst arrives                                                         *)

\* sendUp is called for the cells of a burst one after the other.
LEMMA PassSteps ==
    ASSUME NEW d, NEW burst, burst.cells \in Seq(Cell), buffer_[d] \in SUBSET Cell,
           up[d] \in Seq(Nat), MaxPackets \in Nat
    PROVE  LET cells == burst.cells
           IN  \E h : /\ h[0] = [buf |-> buffer_[d], up |-> up[d]]
                      /\ \A m \in 1 .. Len(cells) : h[m] = ForMe(d, h[m - 1], cells[m])
                      /\ After(d, burst) = h[Len(cells)]
<1> DEFINE cells == burst.cells
           N == Len(cells)
           T == [buf : SUBSET Cell, up : Seq(Nat)]
           base == [buf |-> buffer_[d], up |-> up[d]]
           g == [z \in T \X Cell |-> ForMe(d, z[1], z[2])]
           IsPass(f) == f = [t \in SUBSET DOMAIN cells |->
                               IF t = {} THEN base ELSE ForMe(d, f[t \ {Max(t)}], cells[Max(t)])]
<1>1. ASSUME NEW x \in T, NEW c \in Cell PROVE ForMe(d, x, c) \in T
  <2>1. c.pkt \in Nat
    BY DEF Cell
  <2>2. x.buf \cup {c} \in SUBSET Cell /\ Purge(x.buf, c.addr) \in SUBSET Cell
    BY DEF Purge
  <2>3. x.up \in Seq(Nat) /\ Append(x.up, c.pkt) \in Seq(Nat)
    BY <2>1
  <2>4. CASE c.pt = 0
    BY <2>2, <2>3, <2>4 DEF ForMe, Reassemble
  <2>5. CASE c.pt # 0
    BY <2>2, <2>3, <2>5 DEF ForMe, Reassemble
  <2> QED
    BY <2>4, <2>5
<1>2. g \in [T \X Cell -> T] /\ \A x \in T, c \in Cell : g[<<x, c>>] = ForMe(d, x, c)
  <2> HIDE DEF T
  <2> QED
    BY <1>1
<1>3. /\ N \in Nat /\ cells \in Seq(Cell) /\ DOMAIN cells = 1 .. N
      /\ (\A m \in 1 .. N : cells[m] \in Cell) /\ base \in T
  OBVIOUS
<1> HIDE DEF T
<1>4. After(d, burst) = (CHOOSE f : IsPass(f))[1 .. N]
  <2>1. After(d, burst) = FoldLeft(LAMBDA r, c : ForMe(d, r, c), base, cells)
    BY DEF After
  <2> HIDE DEF base
  <2> QED
    BY <2>1, <1>3 DEF FoldLeft, MapThenFoldSet
<1> HIDE DEF g, N, base, cells
<1>5. PICK f \in [SUBSET (1 .. N) -> T] : IsFold(f, g, base, cells, N)
  <2>1. \E f \in [SUBSET (1 .. Len(cells)) -> T] : IsFold(f, g, base, cells, Len(cells))
    BY <1>2, <1>3, FoldExists, Zenon
  <2> QED
    BY <2>1 DEF N
<1>6. IsPass(f)
  <2>1. ASSUME NEW t \in SUBSET (1 .. N)
        PROVE  f[t] = IF t = {} THEN base ELSE ForMe(d, f[t \ {Max(t)}], cells[Max(t)])
    <3>1. f[t] = FoldStep(f, g, base, cells, t)
      BY <1>5 DEF IsFold
    <3>2. CASE t = {}
      BY <3>1, <3>2 DEF FoldStep
    <3>3. CASE t # {}
      <4>1. Max(t) \in 1 .. N /\ t \ {Max(t)} \in SUBSET (1 .. N)
        BY <1>3, <3>3, MaxInside
      <4>2. f[t \ {Max(t)}] \in T /\ cells[Max(t)] \in Cell
        BY <1>3, <1>5, <4>1
      <4> QED
        BY <1>2, <3>1, <3>3, <4>2 DEF FoldStep
    <3> QED
      BY <3>2, <3>3
  <2>2. f = [t \in SUBSET (1 .. N) |-> f[t]]
    BY <1>5
  <2> QED
    BY <1>3, <2>1, <2>2
<1> DEFINE e == CHOOSE x : IsPass(x)
           h == [m \in 0 .. N |-> e[1 .. m]]
<1>7. IsPass(e)
  <2> HIDE DEF IsPass
  <2> QED
    BY <1>6, Zenon
<1> HIDE DEF e
<1>8. h[0] = base
  <2>1. 1 .. 0 = {} /\ {} \in SUBSET (1 .. N) /\ 0 \in 0 .. N
    BY <1>3
  <2>2. e[{}] = base
    BY <1>3, <1>7, <2>1
  <2> QED
    BY <2>1, <2>2
<1>9. ASSUME NEW m \in 1 .. N PROVE h[m] = ForMe(d, h[m - 1], cells[m])
  <2>1. m \in Nat \ {0} /\ m \in 0 .. N /\ m - 1 \in 0 .. N
    BY <1>3
  <2>2. Max(1 .. m) = m /\ (1 .. m) \ {m} = 1 .. m - 1
    BY <2>1, MaxOfInterval
  <2>3. (1 .. m) \in SUBSET (1 .. N) /\ 1 .. m # {}
    <3>1. m \in 1 .. m /\ \A x \in 1 .. m : x \in 1 .. N
      <4>1. m \in Nat /\ N \in Nat /\ 1 <= m /\ m <= N
        BY <1>3, <2>1
      <4> QED
        BY <4>1
    <3> QED
      BY <3>1, Zenon
  <2>4. e[1 .. m] = ForMe(d, e[(1 .. m) \ {Max(1 .. m)}], cells[Max(1 .. m)])
    BY <1>3, <1>7, <2>3
  <2>5. h[m] = e[1 .. m] /\ h[m - 1] = e[1 .. m - 1]
    BY <2>1
  <2> QED
    BY <2>2, <2>4, <2>5
<1>10. After(d, burst) = h[N]
  BY <1>3, <1>4 DEF e
<1> HIDE DEF h
<1> QED
  BY <1>8, <1>9, <1>10 DEF N, base, cells

\* What was heard when the first k cells of a burst have arrived.
HeardUpTo(h, cells, k) ==
    [p \in DOMAIN h |-> h[p] \cup {cells[j].part : j \in {x \in 1 .. k : cells[x].pkt = p}}]

LEMMA HeardType ==
    ASSUME NEW snt \in Seq(Sent), NEW h, Heard(snt, h), NEW s, NEW cells, Line(s, cells, snt),
           NEW k \in 0 .. Len(cells)
    PROVE  Heard(snt, HeardUpTo(h, cells, k))
<1> DEFINE g == HeardUpTo(h, cells, k)
           New(p) == {cells[j].part : j \in {x \in 1 .. k : cells[x].pkt = p}}
<1>1. /\ h \in Seq(SUBSET Nat) /\ Len(h) = Len(snt) /\ Len(snt) \in Nat
      /\ DOMAIN h = 1 .. Len(snt) /\ DOMAIN snt = 1 .. Len(snt)
      /\ \A p \in DOMAIN snt : h[p] \subseteq 1 .. LastPart(snt, p)
  BY DEF Heard
<1>2. \A j \in 1 .. k : Part(cells[j], snt)
  <2>1. cells \in Seq(Cell)
    BY DEF Line
  <2>2. \A j \in 1 .. k : j \in 1 .. Len(cells)
    BY <2>1
  <2> QED
    BY <2>2 DEF Line
<1>3. g = [p \in 1 .. Len(snt) |-> h[p] \cup New(p)]
  BY <1>1 DEF HeardUpTo
<1>4. \A p : New(p) \subseteq 1 .. LastPart(snt, p)
  BY <1>2 DEF Part
<1> HIDE DEF g, New
<1>5. \A p \in 1 .. Len(snt) : g[p] \subseteq 1 .. LastPart(snt, p)
  BY <1>1, <1>3, <1>4
<1>6. \A p \in 1 .. Len(snt) : g[p] \in SUBSET Nat
  BY <1>1, <1>5, LastType
<1>7. g \in Seq(SUBSET Nat) /\ Len(g) = Len(snt)
  BY <1>1, <1>3, <1>6
<1>8. Heard(snt, g)
  BY <1>1, <1>5, <1>7 DEF Heard
<1> QED
  BY <1>8 DEF g

LEMMA HeardStep ==
    ASSUME NEW snt \in Seq(Sent), NEW h, Heard(snt, h), NEW s, NEW cells, Line(s, cells, snt),
           NEW k \in 1 .. Len(cells)
    PROVE  HeardUpTo(h, cells, k) = Hears(HeardUpTo(h, cells, k - 1), cells[k])
<1> DEFINE P(m, p) == {cells[j].part : j \in {x \in 1 .. m : cells[x].pkt = p}}
           g == HeardUpTo(h, cells, k - 1)
<1>1. DOMAIN h = DOMAIN snt /\ cells[k].pkt \in DOMAIN snt /\ k \in Nat
  <2>1. Part(cells[k], snt) /\ cells \in Seq(Cell)
    BY DEF Line
  <2> QED
    BY <2>1 DEF Heard, Part
<1>2. ASSUME NEW p PROVE P(k, p) = P(k - 1, p) \cup (IF p = cells[k].pkt THEN {cells[k].part} ELSE {})
  <2>1. \A x : x \in 1 .. k <=> x \in 1 .. k - 1 \/ x = k
    BY <1>1
  <2> QED
    BY <2>1
<1>3. g = [p \in DOMAIN h |-> h[p] \cup P(k - 1, p)]
  BY DEF HeardUpTo
<1>4. HeardUpTo(h, cells, k) = [p \in DOMAIN h |-> h[p] \cup P(k, p)]
  BY DEF HeardUpTo
<1> HIDE DEF g, P
<1>5. Hears(g, cells[k]) = [p \in DOMAIN h |-> IF p = cells[k].pkt THEN g[p] \cup {cells[k].part} ELSE g[p]]
  BY <1>1, <1>3 DEF Hears
<1>6. \A p \in DOMAIN h : h[p] \cup P(k, p) = IF p = cells[k].pkt THEN g[p] \cup {cells[k].part} ELSE g[p]
  <2> SUFFICES ASSUME NEW p \in DOMAIN h
               PROVE  h[p] \cup P(k, p) = IF p = cells[k].pkt THEN g[p] \cup {cells[k].part} ELSE g[p]
    OBVIOUS
  <2>1. g[p] = h[p] \cup P(k - 1, p)
    BY <1>3
  <2>2. CASE p = cells[k].pkt
    BY <1>2, <2>1, <2>2
  <2>3. CASE p # cells[k].pkt
    BY <1>2, <2>1, <2>3
  <2> QED
    BY <2>2, <2>3
<1>7. HeardUpTo(h, cells, k) = Hears(g, cells[k])
  BY <1>4, <1>5, <1>6
<1> QED
  BY <1>7 DEF g

\* A cell that is behind those has its channel behind it still.
LEMMA PassedUpTo ==
    ASSUME NEW snt \in Seq(Sent), NEW h, Heard(snt, h), NEW s, NEW cells, Line(s, cells, snt),
           NEW k \in 0 .. Len(cells), NEW c, Passed(h, c, snt),
           \A i \in 1 .. k : Ahead(cells[i], c)
    PROVE  Passed(HeardUpTo(h, cells, k), c, snt)
<1> SUFFICES ASSUME NEW p \in DOMAIN snt, snt[p].vc = c.addr, NEW i \in HeardUpTo(h, cells, k)[p]
             PROVE  Before(p, i, c)
  BY DEF Passed
<1>1. DOMAIN h = DOMAIN snt
  BY DEF Heard
<1>2. i \in h[p] \cup {cells[j].part : j \in {x \in 1 .. k : cells[x].pkt = p}}
  BY <1>1 DEF HeardUpTo
<1>3. CASE i \in h[p]
  BY <1>3 DEF Passed
<1>4. CASE i \in {cells[j].part : j \in {x \in 1 .. k : cells[x].pkt = p}}
  <2>1. PICK j \in 1 .. k : cells[j].pkt = p /\ i = cells[j].part
    BY <1>4
  <2>2. j \in 1 .. Len(cells)
    <3>1. cells \in Seq(Cell)
      BY DEF Line
    <3> QED
      BY <3>1
  <2>3. cells[j].addr = c.addr
    BY <2>1, <2>2 DEF Line, Part
  <2> QED
    BY <2>1, <2>3 DEF Ahead
<1> QED
  BY <1>2, <1>3, <1>4

LEMMA BurstLater ==
    ASSUME NEW snt \in Seq(Sent), NEW h, Heard(snt, h), NEW s, NEW cells, Line(s, cells, snt),
           \A j \in 1 .. Len(cells) : Passed(h, cells[j], snt)
    PROVE  Later(snt, h, HeardUpTo(h, cells, Len(cells)))
<1> DEFINE g == HeardUpTo(h, cells, Len(cells))
<1>1. \A x \in DOMAIN snt :
        g[x] = h[x] \cup {cells[j].part : j \in {k \in 1 .. Len(cells) : cells[k].pkt = x}}
  BY DEF Heard, HeardUpTo
<1> HIDE DEF g
<1>2. ASSUME NEW x \in DOMAIN snt, NEW i \in g[x], i \notin h[x],
             NEW p \in DOMAIN snt, snt[p].vc = snt[x].vc, NEW k \in h[p]
      PROVE  p < x \/ (p = x /\ k < i)
  <2>1. PICK j \in 1 .. Len(cells) : cells[j].pkt = x /\ i = cells[j].part
    BY <1>1, <1>2
  <2>2. cells[j].addr = snt[x].vc
    BY <2>1 DEF Line, Part
  <2> QED
    BY <1>2, <2>1, <2>2 DEF Passed, Before
<1>3. Later(snt, h, g)
  BY <1>1, <1>2 DEF Later
<1> QED
  BY <1>3 DEF g

\* What was passed up before is still there.
Follows(u, v) == Len(u) \in Nat /\ Len(v) \in Nat /\ Len(u) <= Len(v)
                 /\ \A i \in 1 .. Len(u) : v[i] = u[i]

\* sendUp of a burst, cell by cell, at one station: x[m] is what it has after m cells.
Passes(d, burst, snt, h, x) ==
    LET cells == burst.cells
    IN  /\ x[0] = [buf |-> buffer_[d], up |-> up[d]]
        /\ \A m \in 1 .. Len(cells) : x[m] = ForMe(d, x[m - 1], cells[m])
        /\ After(d, burst) = x[Len(cells)]
        /\ \A m \in 0 .. Len(cells) :
             /\ Station(d, x[m].buf, x[m].up, snt, HeardUpTo(h, cells, m))
             /\ x[m] = [buf |-> x[m].buf, up |-> x[m].up]
             /\ Follows(up[d], x[m].up)

LEMMA StationPasses ==
    ASSUME NEW snt \in Seq(Sent), NEW h, Heard(snt, h), NEW s, NEW burst,
           Line(s, burst.cells, snt), MaxPackets \in Nat,
           \A i \in 1 .. Len(burst.cells) : Passed(h, burst.cells[i], snt),
           NEW d, Station(d, buffer_[d], up[d], snt, h)
    PROVE  \E x : Passes(d, burst, snt, h, x)
<1> DEFINE cells == burst.cells
           N == Len(cells)
           base == [buf |-> buffer_[d], up |-> up[d]]
           g(m) == HeardUpTo(h, cells, m)
<1>1. N \in Nat /\ cells \in Seq(Cell) /\ DOMAIN h = DOMAIN snt
  BY DEF Line, Heard
<1>2. buffer_[d] \in SUBSET Cell /\ up[d] \in Seq(DOMAIN snt) /\ up[d] \in Seq(Nat)
  <2>1. DOMAIN snt \subseteq Nat
    OBVIOUS
  <2> QED
    BY <2>1 DEF Station, Current, Part
<1>3. PICK x : /\ x[0] = base
               /\ \A m \in 1 .. N : x[m] = ForMe(d, x[m - 1], cells[m])
               /\ After(d, burst) = x[N]
  BY <1>1, <1>2, PassSteps, ZenonT(40)
<1> DEFINE Good(m) == /\ Station(d, x[m].buf, x[m].up, snt, g(m))
                      /\ x[m] = [buf |-> x[m].buf, up |-> x[m].up]
                      /\ Follows(up[d], x[m].up)
           Bad == {m \in 0 .. N : ~Good(m)}
<1>4. Good(0)
  <2>1. g(0) = h
    <3>1. \A p \in DOMAIN h : h[p] \cup {cells[j].part : j \in {y \in 1 .. 0 : cells[y].pkt = p}} = h[p]
      OBVIOUS
    <3>2. h \in Seq(SUBSET Nat)
      BY DEF Heard
    <3>3. h = [p \in DOMAIN h |-> h[p]]
      BY <3>2
    <3> QED
      BY <3>1, <3>3 DEF HeardUpTo
  <2>2. x[0].buf = buffer_[d] /\ x[0].up = up[d]
    BY <1>3
  <2>3. x[0] = [buf |-> x[0].buf, up |-> x[0].up]
    BY <1>3, <2>2
  <2>4. Follows(up[d], up[d])
    BY <1>2 DEF Follows
  <2> HIDE DEF g
  <2> QED
    BY <2>1, <2>2, <2>3, <2>4
<1>5. ASSUME NEW m \in 1 .. N, Good(m - 1) PROVE Good(m)
  <2> DEFINE y == x[m - 1]
             c == cells[m]
             z == ForMe(d, [buf |-> y.buf, up |-> y.up], c)
  <2>1. m - 1 \in 0 .. N /\ \A i \in 1 .. m - 1 : i \in 1 .. N /\ i < m
    BY <1>1
  <2>2. Part(c, snt) /\ Passed(h, c, snt) /\ \A i \in 1 .. m - 1 : Ahead(cells[i], c)
    BY <2>1 DEF Line
  <2>3. Passed(g(m - 1), c, snt)
    <3> HIDE DEF c, N
    <3>1. m - 1 \in 0 .. Len(cells)
      BY <2>1 DEF N
    <3> HIDE DEF cells
    <3>2. Line(s, cells, snt)
      BY DEF cells
    <3> QED
      BY <2>2, <3>1, <3>2, PassedUpTo
  <2>4. g(m) = Hears(g(m - 1), c) /\ Heard(snt, g(m - 1))
    <3>1. m - 1 \in 0 .. Len(cells)
      BY <2>1
    <3> QED
      BY <3>1, HeardStep, HeardType
  <2>5. x[m] = z
    <3> HIDE DEF g
    <3> QED
      BY <1>3, <1>5
  <2> HIDE DEF c, g
  <2>6. Heard(snt, g(m - 1)) /\ Station(d, y.buf, y.up, snt, g(m - 1)) /\ Follows(up[d], y.up)
    BY <1>5, <2>4
  <2> HIDE DEF y
  <2>7. /\ Station(d, z.buf, z.up, snt, Hears(g(m - 1), c))
        /\ z = [buf |-> z.buf, up |-> z.up]
        /\ z.up = y.up \/ z.up = Append(y.up, c.pkt)
    BY <2>2, <2>3, <2>6, HearCell
  <2>8. Follows(up[d], z.up)
    <3>1. y.up \in Seq(DOMAIN snt) /\ z.up \in Seq(DOMAIN snt)
      BY <2>6, <2>7 DEF Station
    <3>2. c.pkt \in DOMAIN snt
      BY <2>2 DEF Part
    <3>3. Follows(y.up, z.up)
      <4> HIDE DEF z
      <4> QED
        BY <2>7, <3>1, <3>2 DEF Follows
    <3> HIDE DEF z
    <3> QED
      BY <2>6, <3>3 DEF Follows
  <2> HIDE DEF z
  <2> QED
    BY <2>4, <2>5, <2>7, <2>8
<1>6. Bad = {}
  <2> SUFFICES ASSUME Bad # {} PROVE FALSE
    OBVIOUS
  <2>1. PICK m \in Bad : \A k \in Bad : m <= k
    <3>1. Bad \in SUBSET Nat
      BY <1>1
    <3> HIDE DEF Bad
    <3> QED
      BY <3>1, LeastNumber, Zenon
  <2>2. m \in 0 .. N /\ ~Good(m)
    BY <2>1
  <2> HIDE DEF Good
  <2>3. m \in 1 .. N
    BY <1>1, <1>4, <2>2
  <2>4. m - 1 \in 0 .. N /\ m - 1 < m /\ m - 1 \in Nat
    BY <1>1, <2>3
  <2>5. Good(m - 1)
    BY <1>1, <2>1, <2>3, <2>4
  <2> QED
    BY <1>5, <2>2, <2>3, <2>5
<1>7. \A m \in 0 .. N : Good(m)
  <2> HIDE DEF Good
  <2> QED
    BY <1>6
<1>8. Passes(d, burst, snt, h, x)
  BY <1>3, <1>7 DEF Passes
<1> QED
  BY <1>8

\* sendUp of a whole burst, at one station.
LEMMA StationHears ==
    ASSUME NEW snt \in Seq(Sent), NEW h, Heard(snt, h), NEW s, NEW burst,
           Line(s, burst.cells, snt), MaxPackets \in Nat,
           \A i \in 1 .. Len(burst.cells) : Passed(h, burst.cells[i], snt),
           NEW d, Station(d, buffer_[d], up[d], snt, h)
    PROVE  LET r == After(d, burst)
               g == HeardUpTo(h, burst.cells, Len(burst.cells))
           IN  Station(d, r.buf, r.up, snt, g) /\ Follows(up[d], r.up)
<1> DEFINE cells == burst.cells
<1>1. PICK x : Passes(d, burst, snt, h, x)
  BY StationPasses
<1>2. Len(cells) \in 0 .. Len(cells)
  <2>1. cells \in Seq(Cell)
    BY DEF Line
  <2> QED
    BY <2>1
<1> QED
  BY <1>1, <1>2 DEF Passes

\* What is under way stays behind all that was heard.
LEMMA FlightHears ==
    ASSUME NEW snt \in Seq(Sent), NEW h, Heard(snt, h), NEW s, NEW cells, Line(s, cells, snt),
           NEW t, NEW q, NEW a, Flight(t, q, a, snt, h),
           \A i \in 1 .. Len(cells) : \A j \in 1 .. Len(q) : Ahead(cells[i], q[j]),
           \A i \in 1 .. Len(cells) : \A b \in 1 .. Len(a) : \A j \in 1 .. Len(a[b].cells) :
              Ahead(cells[i], a[b].cells[j])
    PROVE  Flight(t, q, a, snt, HeardUpTo(h, cells, Len(cells)))
<1> DEFINE g == HeardUpTo(h, cells, Len(cells))
<1>1. Len(cells) \in 0 .. Len(cells)
  <2>1. cells \in Seq(Cell)
    BY DEF Line
  <2> QED
    BY <2>1
<1>2. \A c : (Passed(h, c, snt) /\ \A i \in 1 .. Len(cells) : Ahead(cells[i], c)) => Passed(g, c, snt)
  BY <1>1, PassedUpTo
<1> HIDE DEF g
<1>3. \A j \in 1 .. Len(q) : Passed(g, q[j], snt)
  BY <1>2 DEF Flight
<1>4. \A b \in 1 .. Len(a) : \A j \in 1 .. Len(a[b].cells) : Passed(g, a[b].cells[j], snt)
  BY <1>2 DEF Flight
<1>5. Flight(t, q, a, snt, g)
  BY <1>3, <1>4 DEF Flight
<1> QED
  BY <1>5 DEF g

\* The cells of two senders are of different virtual channels.
LEMMA OtherChannel ==
    ASSUME NEW s \in Senders, NEW t \in Senders, s # t, NEW x, NEW y, Own(s, x), Own(t, y)
    PROVE  Ahead(x, y)
BY AddrDivides DEF Own, Ahead

\* What the history says of a burst.
LEMMA BurstHeard ==
    ASSUME LinkInv, NEW s \in Senders, Arrive(s), ~Head(air[s]).lost
    PROVE  LET cells == Head(air[s]).cells
           IN  heard' = HeardUpTo(heard, cells, Len(cells))
<1> DEFINE cells == Head(air[s]).cells
           New(p) == {c.part : c \in {x \in Range(cells) : x.pkt = p}}
           Then(p) == {cells[j].part : j \in {x \in 1 .. Len(cells) : cells[x].pkt = p}}
<1>1. heard' = [p \in DOMAIN heard |-> heard[p] \cup New(p)]
  BY DEF Arrive
<1>2. cells \in Seq(Cell)
  <2>1. air[s] \in Seq(Burst) /\ air[s] # << >>
    BY DEF LinkInv, Flight, Arrive
  <2>2. Head(air[s]) \in Burst
    BY <2>1
  <2> QED
    BY <2>2 DEF Burst
<1>3. \A p : New(p) = Then(p)
  <2>1. Range(cells) = {cells[j] : j \in 1 .. Len(cells)}
    BY <1>2 DEF Range
  <2> HIDE DEF cells
  <2> QED
    BY <2>1
<1> HIDE DEF New, Then
<1>4. heard' = [p \in DOMAIN heard |-> heard[p] \cup Then(p)]
  BY <1>1, <1>3
<1> QED
  BY <1>4 DEF Then, HeardUpTo

\* A burst arrives at all stations, or at none.
LEMMA ArriveStep ==
    ASSUME LinkInv, NEW s \in Senders, Arrive(s)
    PROVE  /\ LinkInv' /\ sent' = sent
           /\ \A d \in Receivers : Follows(up[d], up'[d])
           /\ \A p \in DOMAIN sent : CountedBy(p, sent, heard) => CountedBy(p, sent, heard')
<1> DEFINE burst == Head(air[s])
           cells == burst.cells
<1>1. /\ lossy \in Losses /\ sent \in Seq(Sent) /\ Heard(sent, heard)
      /\ Shaped /\ wiped \subseteq DOMAIN sent
      /\ \A t \in Senders : Flight(t, queue[t], air[t], sent, heard)
      /\ \A d \in Receivers : Station(d, buffer_[d], up[d], sent, heard)
  BY DEF LinkInv
<1>2. /\ air[s] # << >> /\ air' = [air EXCEPT ![s] = Tail(@)]
      /\ UNCHANGED <<lossy, sent, queue, wiped>>
  BY DEF Arrive
<1>3. /\ air[s] \in Seq(Burst) /\ burst \in Burst /\ burst = air[s][1] /\ 1 \in 1 .. Len(air[s])
      /\ Len(air[s]) \in Nat /\ cells \in Seq(Cell)
  <2>1. air[s] \in Seq(Burst)
    BY <1>1 DEF Flight
  <2>2. burst \in Burst /\ burst = air[s][1] /\ 1 \in 1 .. Len(air[s]) /\ Len(air[s]) \in Nat
    BY <1>2, <2>1
  <2> QED
    BY <2>1, <2>2 DEF Burst
<1>4. \A t \in Senders : Flight(t, queue[t], air'[t], sent, heard)
  <2> SUFFICES ASSUME NEW t \in Senders PROVE Flight(t, queue[t], air'[t], sent, heard)
    OBVIOUS
  <2>1. CASE t = s
    <3>1. air'[t] = Tail(air[t]) /\ air[t] # << >>
      BY <2>1, <1>1, <1>2 DEF Shaped
    <3> QED
      BY <3>1, <1>1, FlightTail
  <2>2. CASE t # s
    <3>1. air'[t] = air[t]
      BY <2>2, <1>1, <1>2 DEF Shaped
    <3> QED
      BY <3>1, <1>1
  <2> QED
    BY <2>1, <2>2
<1>5. CASE burst.lost
  <2>1. UNCHANGED <<buffer_, up, heard>>
    BY <1>5 DEF Arrive
  <2>2. Shaped'
    BY <1>1, <1>2, <2>1 DEF Shaped
  <2>3. LinkInv'
    BY <1>1, <1>2, <1>4, <2>1, <2>2 DEF LinkInv
  <2>4. \A d \in Receivers : Follows(up[d], up'[d])
    BY <1>1, <2>1 DEF Station, Follows
  <2> QED
    BY <1>2, <2>1, <2>3, <2>4
<1>6. CASE ~burst.lost
  <2> DEFINE g == HeardUpTo(heard, cells, Len(cells))
  <2>1. /\ buffer_' = [d \in Receivers |-> After(d, burst).buf]
        /\ up' = [d \in Receivers |-> After(d, burst).up]
    BY <1>6 DEF Arrive
  <2>2. heard' = g
    BY <1>6, BurstHeard
  <2> HIDE DEF g
  <2>3. Line(s, cells, sent) /\ \A i \in 1 .. Len(cells) : Passed(heard, cells[i], sent)
    BY <1>1, <1>3 DEF Flight
  <2>4. \A d \in Receivers : /\ Station(d, After(d, burst).buf, After(d, burst).up, sent, g)
                             /\ Follows(up[d], After(d, burst).up)
    <3>1. MaxPackets \in Nat
      BY LinkAssumption
    <3> HIDE DEF burst
    <3> QED
      BY <1>1, <2>3, <3>1, StationHears DEF g
  <2>5. Heard(sent, g)
    <3>1. Len(cells) \in 0 .. Len(cells)
      BY <1>3
    <3> QED
      BY <1>1, <2>3, <3>1, HeardType DEF g
  <2>6. \A p \in DOMAIN sent : CountedBy(p, sent, heard) => CountedBy(p, sent, heard')
    <3>1. Later(sent, heard, g)
      BY <1>1, <2>3, BurstLater DEF g
    <3> QED
      BY <1>1, <2>2, <2>5, <3>1, CountedStays
  <2>7. ASSUME NEW t \in Senders PROVE Flight(t, queue[t], air'[t], sent, g)
    <3> DEFINE q == queue[t]
               a == air'[t]
    <3>1. \A i \in 1 .. Len(cells) : \A j \in 1 .. Len(q) : Ahead(cells[i], q[j])
      <4>1. CASE t = s
        BY <4>1, <1>1, <1>3 DEF Flight
      <4>2. CASE t # s
        <5>1. \A j \in 1 .. Len(q) : Own(t, q[j])
          BY <1>1 DEF Flight, Line
        <5> QED
          BY <4>2, <5>1, <2>3, OtherChannel DEF Line
      <4> QED
        BY <4>1, <4>2
    <3>2. \A i \in 1 .. Len(cells) : \A b \in 1 .. Len(a) : \A j \in 1 .. Len(a[b].cells) :
            Ahead(cells[i], a[b].cells[j])
      <4>1. CASE t = s
        <5>1. a = Tail(air[s]) /\ Flight(s, queue[s], air[s], sent, heard)
          BY <4>1, <1>1, <1>2 DEF Shaped
        <5>2. ASSUME NEW b \in 1 .. Len(a)
              PROVE  a[b] = air[s][b + 1] /\ b + 1 \in 1 .. Len(air[s]) /\ 1 < b + 1
          <6>1. Len(a) = Len(air[s]) - 1 /\ \A k \in 1 .. Len(air[s]) - 1 : a[k] = air[s][k + 1]
            BY <5>1, <1>2, <1>3
          <6> HIDE DEF a
          <6> QED
            BY <6>1, <1>3
        <5> QED
          BY <5>1, <5>2, <1>3 DEF Flight
      <4>2. CASE t # s
        <5>1. \A b \in 1 .. Len(a) : \A j \in 1 .. Len(a[b].cells) : Own(t, a[b].cells[j])
          BY <1>4 DEF Flight, Line
        <5> QED
          BY <4>2, <5>1, <2>3, OtherChannel DEF Line
      <4> QED
        BY <4>1, <4>2
    <3>3. Flight(t, q, a, sent, heard)
      BY <1>4
    <3> HIDE DEF q, a, burst, cells
    <3>4. Flight(t, q, a, sent, HeardUpTo(heard, cells, Len(cells)))
      BY <1>1, <2>3, <3>1, <3>2, <3>3, FlightHears
    <3> QED
      BY <3>4 DEF g, q, a
  <2> HIDE DEF burst, cells
  <2>8. LinkInv'
    <3>1. Shaped'
      BY <1>1, <1>2, <2>1 DEF Shaped
    <3> QED
      BY <1>1, <1>2, <2>1, <2>2, <2>4, <2>5, <2>7, <3>1 DEF LinkInv
  <2>9. \A d \in Receivers : Follows(up[d], up'[d])
    BY <2>1, <2>4
  <2> QED
    BY <1>2, <2>6, <2>8, <2>9
<1> QED
  BY <1>5, <1>6

-----------------------------------------------------------------------------
(* The invariant                                                           *)

\* AtmLL::reset
LEMMA ResetStep ==
    ASSUME LinkInv, NEW d \in Receivers, Reset(d)
    PROVE  LinkInv'
<1>1. /\ buffer_' = [buffer_ EXCEPT ![d] = {}] /\ wiped' = wiped \cup {c.pkt : c \in buffer_[d]}
      /\ UNCHANGED <<lossy, sent, queue, air, up, heard>>
  BY DEF Reset
<1>2. /\ Shaped /\ wiped \subseteq DOMAIN sent
      /\ \A e \in Receivers : Station(e, buffer_[e], up[e], sent, heard)
  BY DEF LinkInv
<1>3. wiped' \subseteq DOMAIN sent
  <2>1. \A c \in buffer_[d] : c.pkt \in DOMAIN sent
    BY <1>2 DEF Station, Current, Part
  <2> QED
    BY <1>1, <1>2, <2>1
<1>4. \A e \in Receivers : Station(e, buffer_'[e], up[e], sent, heard)
  <2> SUFFICES ASSUME NEW e \in Receivers PROVE Station(e, buffer_'[e], up[e], sent, heard)
    OBVIOUS
  <2>1. buffer_'[e] = buffer_[e] \/ buffer_'[e] = {}
    BY <1>1, <1>2 DEF Shaped
  <2>2. Station(e, {}, up[e], sent, heard)
    <3>1. IsFiniteSet({})
      BY FS_EmptySet
    <3> QED
      BY <1>2, <3>1 DEF Station
  <2> QED
    BY <1>2, <2>1, <2>2
<1>5. Shaped'
  BY <1>1, <1>2 DEF Shaped
<1> QED
  BY <1>1, <1>3, <1>4, <1>5 DEF LinkInv

LEMMA LinkStart == Init => LinkInv
<1> SUFFICES ASSUME Init PROVE LinkInv
  OBVIOUS
<1>1. /\ lossy \in Losses /\ sent = << >> /\ heard = << >> /\ wiped = {}
      /\ queue = [s \in Senders |-> << >>] /\ air = [s \in Senders |-> << >>]
      /\ buffer_ = [d \in Receivers |-> {}] /\ up = [d \in Receivers |-> << >>]
  BY DEF Init
<1>2. sent \in Seq(Sent) /\ Heard(sent, heard)
  BY <1>1 DEF Heard
<1>3. Shaped
  BY <1>1 DEF Shaped
<1>4. ASSUME NEW s \in Senders PROVE Flight(s, queue[s], air[s], sent, heard)
  <2>1. queue[s] = << >> /\ air[s] = << >>
    BY <1>1
  <2> QED
    BY <2>1 DEF Flight, Line
<1>5. ASSUME NEW d \in Receivers PROVE Station(d, buffer_[d], up[d], sent, heard)
  <2>1. buffer_[d] = {} /\ up[d] = << >> /\ IsFiniteSet({})
    BY <1>1, FS_EmptySet
  <2> QED
    BY <2>1 DEF Station
<1> QED
  BY <1>1, <1>2, <1>3, <1>4, <1>5 DEF LinkInv

LEMMA LinkStep == LinkInv /\ [Next]_vars => LinkInv'
<1> SUFFICES ASSUME LinkInv, [Next]_vars PROVE LinkInv'
  OBVIOUS
<1>1. ASSUME NEW s \in Senders, NEW d \in Receivers, NEW f \in Flows, NEW size \in Sizes,
             Send(s, d, f, size)
      PROVE  LinkInv'
  BY <1>1, SendStep
<1>2. ASSUME NEW s \in Senders, NEW cn \in CellCounts, NEW lost \in {FALSE, lossy},
             Slot(s, cn, lost)
      PROVE  LinkInv'
  BY <1>2, SlotStep
<1>3. ASSUME NEW s \in Senders, Arrive(s) PROVE LinkInv'
  BY <1>3, ArriveStep
<1>4. ASSUME NEW d \in Resets, Reset(d) PROVE LinkInv'
  BY <1>4, ResetStep, LinkAssumption
<1>5. CASE UNCHANGED vars
  BY <1>5 DEF vars, LinkInv, Shaped
<1> QED
  BY <1>1, <1>2, <1>3, <1>4, <1>5 DEF Next

\* The inductive invariant: the cells of a virtual channel stay in order, from the
\* queue through the bursts of slotHandler to what sendUp has heard, the buffer holds
\* cells of the packet its channel is sending or of one that lost its last cell, and
\* what was sent up is complete as far as counting can tell and in order.
THEOREM LinkInvariant == Spec => []LinkInv
BY LinkStart, LinkStep, PTL DEF Spec

\* No leftovers in the buffer of AtmLL::sendUp, whatever is lost or reset; with the
\* types of the state.
THEOREM BufferIsCurrent == Spec => []BufferCurrent
<1>1. ASSUME LinkInv PROVE BufferCurrent
  <2>1. /\ lossy \in Losses /\ sent \in Seq(Sent) /\ Heard(sent, heard) /\ Shaped
        /\ wiped \subseteq DOMAIN sent
        /\ \A s \in Senders : Flight(s, queue[s], air[s], sent, heard)
        /\ \A d \in Receivers : Station(d, buffer_[d], up[d], sent, heard)
    BY <1>1 DEF LinkInv
  <2>2. queue \in [Senders -> Seq(Cell)] /\ air \in [Senders -> Seq(Burst)]
    <3>1. \A s \in Senders : queue[s] \in Seq(Cell) /\ air[s] \in Seq(Burst)
      BY <2>1 DEF Flight, Line
    <3> QED
      BY <2>1, <3>1 DEF Shaped
  <2>3. buffer_ \in [Receivers -> SUBSET Cell] /\ up \in [Receivers -> Seq(DOMAIN sent)]
    <3>1. \A d \in Receivers : buffer_[d] \in SUBSET Cell /\ up[d] \in Seq(DOMAIN sent)
      BY <2>1 DEF Station, Current, Part
    <3> QED
      BY <2>1, <3>1 DEF Shaped
  <2>4. /\ DOMAIN heard = DOMAIN sent
        /\ \A p \in DOMAIN sent : heard[p] \subseteq 1 .. Frags(sent[p].length)
    BY <2>1 DEF Heard, LastPart
  <2>5. TypeOK
    BY <2>1, <2>2, <2>3, <2>4 DEF TypeOK, Burst, Sent
  <2>6. \A d \in Receivers : \A c \in buffer_[d] : Current(d, c, sent, heard)
    BY <2>1 DEF Station
  <2> QED
    BY <2>5, <2>6 DEF BufferCurrent, Current, LastPart
<1> QED
  BY <1>1, LinkInvariant, PTL

-----------------------------------------------------------------------------
(* The link implements PacketLink                                          *)

\* The packets taken, and those that are complete as far as the link can count.
Taken == [p \in DOMAIN sent |-> [dst |-> sent[p].dst, flow |-> sent[p].vc]]
Whole == {p \in DOMAIN sent : Counted(p)}

LEMMA CountedIs == \A p : Counted(p) <=> CountedBy(p, sent, heard)
BY DEF Counted, CountedBy, SameChannel, Same, LastPart

\* AtmLL::recv takes a packet.
LEMMA TakesOne ==
    ASSUME LinkInv, NEW s \in Senders, NEW d \in Receivers, NEW f \in Flows, NEW size \in Sizes,
           Send(s, d, f, size)
    PROVE  \E h \in Link!Header : Link!Take(h)
<1> DEFINE h == [dst |-> d, flow |-> Addr(s, f)]
           p == Len(sent) + 1
           x == [src |-> s, dst |-> d, vc |-> Addr(s, f), length |-> size]
<1>1. h \in Link!Header
  BY DEF Link!Header
<1>2. /\ sent' = Append(sent, x) /\ heard' = Append(heard, {}) /\ up' = up /\ sent \in Seq(Sent)
      /\ Grows(sent, heard, sent', heard') /\ Heard(sent, heard)
  BY SendStep DEF Send, LinkInv
<1>3. /\ DOMAIN sent = 1 .. Len(sent) /\ DOMAIN sent' = 1 .. p /\ Len(sent) \in Nat
      /\ sent'[p] = x /\ \A k \in 1 .. Len(sent) : sent'[k] = sent[k]
  <2> HIDE DEF x
  <2> QED
    BY <1>2
<1>4. Taken' = Append(Taken, h)
  <2> DEFINE H == [dst : Receivers, flow : Nat]
  <2>1. Taken \in Seq(H) /\ Len(Taken) = Len(sent) /\ h \in H
    <3>1. \A k \in 1 .. Len(sent) : sent[k] \in Sent
      BY <1>2
    <3>2. \A k \in 1 .. Len(sent) : sent[k].dst \in Receivers /\ sent[k].vc \in Nat
      BY <3>1 DEF Sent
    <3>3. \A k \in 1 .. Len(sent) : [dst |-> sent[k].dst, flow |-> sent[k].vc] \in H
      BY <3>2
    <3>4. h \in H
      BY AddrDivides
    <3> HIDE DEF H
    <3> QED
      BY <1>3, <3>3, <3>4 DEF Taken
  <2>2. \A k \in 1 .. Len(sent) : Taken[k] = [dst |-> sent[k].dst, flow |-> sent[k].vc]
    BY <1>3 DEF Taken
  <2>3. Taken' = [k \in 1 .. p |-> [dst |-> sent'[k].dst, flow |-> sent'[k].vc]]
    BY <1>3 DEF Taken
  <2>4. sent'[p].dst = d /\ sent'[p].vc = Addr(s, f)
    BY <1>3
  <2> HIDE DEF x
  <2>5. \A k \in 1 .. p :
          [dst |-> sent'[k].dst, flow |-> sent'[k].vc] = IF k = p THEN h ELSE Taken[k]
    BY <1>3, <2>2, <2>4
  <2>6. Append(Taken, h) = [k \in 1 .. p |-> IF k = p THEN h ELSE Taken[k]]
    <3> HIDE DEF h, H
    <3>1. /\ Append(Taken, h) \in Seq(H) /\ Len(Append(Taken, h)) = p
          /\ \A k \in 1 .. p : Append(Taken, h)[k] = IF k = p THEN h ELSE Taken[k]
      BY <1>3, <2>1
    <3>2. DOMAIN Append(Taken, h) = 1 .. p
      BY <1>3, <3>1
    <3>3. Append(Taken, h) = [k \in DOMAIN Append(Taken, h) |-> Append(Taken, h)[k]]
      <4>1. \A z \in Seq(H) : z = [k \in DOMAIN z |-> z[k]]
        OBVIOUS
      <4> QED
        BY <3>1, <4>1
    <3> QED
      BY <3>1, <3>2, <3>3
  <2> HIDE DEF h
  <2> QED
    BY <2>3, <2>5, <2>6
<1>5. Whole' = Whole
  <2>1. \A k \in DOMAIN sent : CountedBy(k, sent', heard') <=> CountedBy(k, sent, heard)
    BY <1>2, CountedGrows
  <2>2. ~CountedBy(p, sent', heard')
    <3>1. heard'[p] = {}
      <4>1. p \in DOMAIN sent' /\ p \notin DOMAIN sent
        BY <1>3
      <4> QED
        BY <1>2, <4>1 DEF Grows
    <3>2. sent' \in Seq(Sent) /\ p \in DOMAIN sent'
      BY <1>2, <1>3 DEF Grows
    <3>3. LastPart(sent', p) \in Nat /\ LastPart(sent', p) >= 1
      BY <3>2, LastType
    <3> QED
      BY <3>1, <3>3 DEF CountedBy
  <2>3. \A k : Counted(k)' <=> CountedBy(k, sent', heard')
    BY DEF Counted, CountedBy, SameChannel, Same, LastPart
  <2>4. \A k \in DOMAIN sent' : k \in DOMAIN sent \/ k = p
    BY <1>3
  <2>5. DOMAIN sent \subseteq DOMAIN sent'
    BY <1>3
  <2>6. \A k : k \in Whole' <=> k \in DOMAIN sent' /\ CountedBy(k, sent', heard')
    BY <2>3 DEF Whole
  <2>7. \A k : k \in Whole <=> k \in DOMAIN sent /\ CountedBy(k, sent, heard)
    BY CountedIs DEF Whole
  <2> QED
    BY <2>1, <2>2, <2>4, <2>5, <2>6, <2>7
<1>6. Link!Take(h)
  BY <1>2, <1>4, <1>5 DEF Link!Take, Taken, Whole
<1> QED
  BY <1>1, <1>6

\* A burst passes up packets that are complete, at their stations, in order.
LEMMA ArrivesSound ==
    ASSUME LinkInv, NEW s \in Senders, Arrive(s)
    PROVE  Link!Arrive
<1>1. LinkInv' /\ sent' = sent /\ sent \in Seq(Sent)
  BY ArriveStep DEF LinkInv
<1>2. /\ \A d \in Receivers : Follows(up[d], up'[d])
      /\ \A p \in DOMAIN sent : CountedBy(p, sent, heard) => CountedBy(p, sent, heard')
  BY ArriveStep
<1>3. Taken' = Taken
  BY <1>1 DEF Taken
<1>4. \A p : Counted(p)' <=> CountedBy(p, sent, heard')
  BY <1>1 DEF Counted, CountedBy, SameChannel, Same, LastPart
<1>5. Whole \subseteq Whole' /\ Whole' \subseteq DOMAIN Taken
  <2>1. \A p : p \in Whole <=> p \in DOMAIN sent /\ CountedBy(p, sent, heard)
    BY CountedIs DEF Whole
  <2>2. \A p : p \in Whole' <=> p \in DOMAIN sent /\ CountedBy(p, sent, heard')
    BY <1>1, <1>4 DEF Whole
  <2>3. DOMAIN Taken = DOMAIN sent
    BY DEF Taken
  <2> QED
    BY <1>2, <2>1, <2>2, <2>3
<1>6. DOMAIN up' = Receivers
  BY <1>1 DEF LinkInv, Shaped
<1>7. ASSUME NEW d \in Receivers
      PROVE  /\ Link!IsPrefix(up[d], up'[d])
             /\ \A p \in Link!Range(up'[d]) : p \in Whole' /\ Taken[p].dst = d
             /\ Link!FlowsInOrder(up'[d])
  <2> DEFINE u == up[d]
             v == up'[d]
  <2>1. u \in Seq(DOMAIN sent) /\ v \in Seq(DOMAIN sent)
    BY <1>1 DEF LinkInv, Station
  <2>2. /\ \A i \in 1 .. Len(v) : sent[v[i]].dst = d /\ CountedBy(v[i], sent, heard')
        /\ \A i, j \in 1 .. Len(v) : (i < j /\ sent[v[i]].vc = sent[v[j]].vc) => v[i] < v[j]
    BY <1>1 DEF LinkInv, Station
  <2>3. Follows(u, v)
    BY <1>2
  <2> HIDE DEF u, v
  <2>4. DOMAIN v = 1 .. Len(v) /\ \A i \in 1 .. Len(v) : v[i] \in DOMAIN sent
    BY <2>1
  <2>5. \A p \in DOMAIN sent : Taken[p].dst = sent[p].dst /\ Taken[p].flow = sent[p].vc
    BY DEF Taken
  <2>6. Link!IsPrefix(u, v)
    <3>1. SubSeq(u, 1, Len(u)) = [i \in 1 .. Len(u) |-> u[i]]
      BY <2>1
    <3>2. SubSeq(v, 1, Len(u)) = [i \in 1 .. Len(u) |-> v[i]]
      BY <2>1, <2>3 DEF Follows
    <3> QED
      BY <2>3, <3>1, <3>2 DEF Follows, Link!IsPrefix
  <2>7. \A p \in Link!Range(v) : p \in Whole' /\ Taken[p].dst = d
    <3> SUFFICES ASSUME NEW p \in Link!Range(v) PROVE p \in Whole' /\ Taken[p].dst = d
      OBVIOUS
    <3>1. PICK i \in 1 .. Len(v) : p = v[i]
      BY <2>4 DEF Link!Range
    <3>2. p \in DOMAIN sent /\ sent[p].dst = d /\ CountedBy(p, sent, heard')
      BY <2>2, <2>4, <3>1
    <3>3. p \in Whole'
      BY <1>1, <1>4, <3>2 DEF Whole
    <3> QED
      BY <2>5, <3>2, <3>3
  <2>8. \A i, j \in DOMAIN v : (i < j /\ Taken[v[i]].flow = Taken[v[j]].flow) => v[i] < v[j]
    BY <2>2, <2>4, <2>5
  <2> QED
    BY <2>6, <2>7, <2>8 DEF u, v, Link!FlowsInOrder, Taken
<1> QED
  BY <1>3, <1>5, <1>6, <1>7 DEF Link!Arrive, Taken, Whole

\* atm-encap.cc keeps the promise of PacketLink, whatever is lost or reset: every step
\* of the link is a step of PacketLink or none.
THEOREM LinkKeepsPromise == Spec => KeepsPromise
<1>1. Init => Link!Init
  <2> SUFFICES ASSUME Init PROVE Link!Init
    OBVIOUS
  <2>1. DOMAIN sent = {} /\ up = [d \in Receivers |-> << >>]
    BY DEF Init
  <2>2. Taken = << >> /\ Whole = {}
    BY <2>1 DEF Taken, Whole
  <2> QED
    BY <2>1, <2>2 DEF Link!Init, Taken, Whole
<1>2. ASSUME LinkInv, [Next]_vars PROVE [Link!Next]_<<Taken, Whole, up>>
  <2>1. ASSUME NEW s \in Senders, NEW d \in Receivers, NEW f \in Flows, NEW size \in Sizes,
               Send(s, d, f, size)
        PROVE  Link!Next
    BY <1>2, <2>1, TakesOne DEF Link!Next
  <2>2. ASSUME NEW s \in Senders, Arrive(s) PROVE Link!Next
    BY <1>2, <2>2, ArrivesSound DEF Link!Next
  <2>3. ASSUME UNCHANGED <<sent, heard, up>> PROVE UNCHANGED <<Taken, Whole, up>>
    <3>1. Taken' = Taken
      BY <2>3 DEF Taken
    <3>2. Whole' = Whole
      BY <2>3 DEF Whole, Counted, SameChannel
    <3> QED
      BY <2>3, <3>1, <3>2
  <2>4. ASSUME NEW s \in Senders, NEW cn \in CellCounts, NEW lost \in {FALSE, lossy},
               Slot(s, cn, lost)
        PROVE  UNCHANGED <<Taken, Whole, up>>
    BY <2>3, <2>4 DEF Slot
  <2>5. ASSUME NEW d \in Resets, Reset(d) PROVE UNCHANGED <<Taken, Whole, up>>
    BY <2>3, <2>5 DEF Reset
  <2>6. CASE UNCHANGED vars
    BY <2>3, <2>6 DEF vars
  <2> QED
    BY <1>2, <2>1, <2>2, <2>4, <2>5, <2>6 DEF Next
<1> QED
  BY <1>1, <1>2, LinkInvariant, PTL DEF Spec, KeepsPromise, Link!Spec, Taken, Whole

-----------------------------------------------------------------------------
(* All cells of a packet or none                                           *)

\* The cells that a sender has under way, with queue q and bursts a.
OnWay(q, a) == Range(q) \cup UNION {Range(a[b].cells) : b \in DOMAIN a}

\* Nothing is lost, and every part of every packet was heard or is under way.
AllInv ==
    ~lossy => /\ \A s \in Senders : \A b \in 1 .. Len(air[s]) : ~air[s][b].lost
              /\ AllOrNone

LEMMA InFlight ==
    ASSUME NEW s, NEW q, NEW a, NEW snt, NEW h, Flight(s, q, a, snt, h), NEW c
    PROVE  c \in OnWay(q, a) <=> \/ \E j \in 1 .. Len(q) : c = q[j]
                                 \/ \E b \in 1 .. Len(a) : \E j \in 1 .. Len(a[b].cells) :
                                       c = a[b].cells[j]
<1>1. /\ q \in Seq(Cell) /\ a \in Seq(Burst)
      /\ \A b \in 1 .. Len(a) : a[b].cells \in Seq(Cell)
  BY DEF Flight, Line
<1>2. /\ DOMAIN q = 1 .. Len(q) /\ DOMAIN a = 1 .. Len(a)
      /\ \A b \in 1 .. Len(a) : DOMAIN a[b].cells = 1 .. Len(a[b].cells)
  BY <1>1
<1>3. c \in OnWay(q, a) <=> c \in Range(q) \/ \E b \in 1 .. Len(a) : c \in Range(a[b].cells)
  BY <1>2 DEF OnWay
<1>4. c \in Range(q) <=> \E j \in 1 .. Len(q) : c = q[j]
  BY <1>2 DEF Range
<1>5. \A b \in 1 .. Len(a) :
        c \in Range(a[b].cells) <=> \E j \in 1 .. Len(a[b].cells) : c = a[b].cells[j]
  BY <1>2 DEF Range
<1> QED
  BY <1>3, <1>4, <1>5

LEMMA AllIs ==
    AllOrNone <=> (~lossy => \A p \in DOMAIN sent : \A i \in 1 .. LastPart(sent, p) :
        \/ i \in heard[p]
        \/ \E s \in Senders : \E c \in OnWay(queue[s], air[s]) : c.pkt = p /\ c.part = i)
BY DEF AllOrNone, OnWay, InChannel, LastPart

LEMMA PartOnWay ==
    ASSUME NEW s, NEW q, NEW a, NEW snt, NEW h, Flight(s, q, a, snt, h), NEW c \in OnWay(q, a)
    PROVE  Part(c, snt)
<1>1. CASE \E j \in 1 .. Len(q) : c = q[j]
  BY <1>1 DEF Flight, Line
<1>2. CASE \E b \in 1 .. Len(a) : \E j \in 1 .. Len(a[b].cells) : c = a[b].cells[j]
  BY <1>2 DEF Flight, Line
<1> QED
  BY <1>1, <1>2, InFlight

\* What is under way stays so until it is heard.
LEMMA AllStays ==
    ASSUME LinkInv, AllOrNone, lossy' = lossy, sent' = sent,
           \A p \in DOMAIN sent : heard[p] \subseteq heard'[p],
           \A s \in Senders : \A c \in OnWay(queue[s], air[s]) :
              Part(c, sent) => (c \in OnWay(queue'[s], air'[s]) \/ c.part \in heard'[c.pkt])
    PROVE  AllOrNone'
<1> SUFFICES ASSUME ~lossy, NEW p \in DOMAIN sent, NEW i \in 1 .. LastPart(sent, p)
             PROVE  \/ i \in heard'[p]
                    \/ \E s \in Senders : \E c \in OnWay(queue'[s], air'[s]) :
                          c.pkt = p /\ c.part = i
  BY DEF AllOrNone, OnWay, InChannel, LastPart
<1>1. \/ i \in heard[p]
      \/ \E s \in Senders : \E c \in OnWay(queue[s], air[s]) : c.pkt = p /\ c.part = i
  BY AllIs
<1>2. CASE i \in heard[p]
  BY <1>2
<1>3. CASE \E s \in Senders : \E c \in OnWay(queue[s], air[s]) : c.pkt = p /\ c.part = i
  <2>1. PICK s \in Senders : \E c \in OnWay(queue[s], air[s]) : c.pkt = p /\ c.part = i
    BY <1>3
  <2>2. PICK c \in OnWay(queue[s], air[s]) : c.pkt = p /\ c.part = i
    BY <2>1
  <2>3. Part(c, sent)
    BY <2>1, PartOnWay DEF LinkInv
  <2> QED
    BY <2>2, <2>3
<1> QED
  BY <1>1, <1>2, <1>3

\* A packet that the queue has room for is taken with all its cells; what is sent
\* arrives, when nothing is lost, and a reset takes what was heard.
LEMMA AllStep ==
    ASSUME LinkInv, AllInv, [Next]_vars
    PROVE  AllInv'
<1> DEFINE Kept == \A s \in Senders : \A b \in 1 .. Len(air[s]) : ~air[s][b].lost
<1>1. Shaped /\ sent \in Seq(Sent) /\ \A s \in Senders : Flight(s, queue[s], air[s], sent, heard)
  BY DEF LinkInv
<1>2. ASSUME NEW s \in Senders, NEW d \in Receivers, NEW f \in Flows, NEW size \in Sizes,
             Send(s, d, f, size)
      PROVE  AllInv'
  <2>1. /\ lossy' = lossy /\ air' = air
        /\ \A t \in Senders : t # s => queue'[t] = queue[t]
    BY <1>1, <1>2 DEF Send, Shaped
  <2>2. /\ Grows(sent, heard, sent', heard') /\ Range(queue[s]) \subseteq Range(queue'[s])
        /\ \A i \in 1 .. Frags(size) :
             \E c \in Range(queue'[s]) : c.pkt = Len(sent) + 1 /\ c.part = i
    BY <1>2, SendStep
  <2>3. /\ DOMAIN sent = 1 .. Len(sent) /\ DOMAIN sent' = 1 .. Len(sent) + 1 /\ Len(sent) \in Nat
        /\ sent'[Len(sent) + 1].length = size
    <3> DEFINE x == [src |-> s, dst |-> d, vc |-> Addr(s, f), length |-> size]
    <3>1. sent' = Append(sent, x) /\ x.length = size
      BY <1>2 DEF Send
    <3> HIDE DEF x
    <3> QED
      BY <1>1, <3>1
  <2>4. \A t \in Senders : OnWay(queue[t], air[t]) \subseteq OnWay(queue'[t], air'[t])
    BY <2>1, <2>2 DEF OnWay
  <2>5. ASSUME ~lossy, NEW p \in DOMAIN sent', NEW i \in 1 .. LastPart(sent', p)
        PROVE  \/ i \in heard'[p]
               \/ \E t \in Senders : \E c \in OnWay(queue'[t], air'[t]) : c.pkt = p /\ c.part = i
    <3>1. CASE p \in DOMAIN sent
      <4>1. heard'[p] = heard[p] /\ LastPart(sent', p) = LastPart(sent, p)
        BY <2>2, <3>1, GrowsIn DEF Grows
      <4>2. \/ i \in heard[p]
            \/ \E t \in Senders : \E c \in OnWay(queue[t], air[t]) : c.pkt = p /\ c.part = i
        BY <2>5, <3>1, <4>1, AllIs DEF AllInv
      <4> QED
        BY <2>4, <4>1, <4>2
    <3>2. CASE p \notin DOMAIN sent
      <4>1. p = Len(sent) + 1 /\ i \in 1 .. Frags(size)
        BY <2>3, <2>5, <3>2 DEF LastPart
      <4>2. PICK c \in Range(queue'[s]) : c.pkt = p /\ c.part = i
        BY <2>2, <4>1
      <4>3. c \in OnWay(queue'[s], air'[s])
        BY <4>2 DEF OnWay
      <4> QED
        BY <4>2, <4>3
    <3> QED
      BY <3>1, <3>2
  <2>6. AllOrNone'
    BY <2>1, <2>5 DEF AllOrNone, OnWay, InChannel, LastPart
  <2> QED
    BY <2>1, <2>6 DEF AllInv
<1>3. ASSUME NEW s \in Senders, NEW cn \in CellCounts, NEW lost \in {FALSE, lossy},
             Slot(s, cn, lost)
      PROVE  AllInv'
  <2> DEFINE n == IF Len(queue[s]) < cn THEN Len(queue[s]) ELSE cn
             q == queue[s]
             z == [lost |-> lost, cells |-> SubSeq(q, 1, n)]
  <2>1. /\ UNCHANGED <<lossy, sent, heard>>
        /\ queue'[s] = SubSeq(q, n + 1, Len(q)) /\ air'[s] = Append(air[s], z)
        /\ \A t \in Senders : t # s => queue'[t] = queue[t] /\ air'[t] = air[t]
    BY <1>1, <1>3 DEF Slot, Shaped
  <2>2. /\ q \in Seq(Cell) /\ n \in 0 .. Len(q) /\ Len(q) \in Nat
        /\ air[s] \in Seq(Burst) /\ Len(air[s]) \in Nat
    <3>1. q \in Seq(Cell) /\ Len(q) \in Nat /\ cn \in Nat /\ air[s] \in Seq(Burst)
      BY <1>1, LinkAssumption DEF Flight, Line
    <3> QED
      BY <3>1
  <2> HIDE DEF n
  <2>3. z \in Burst /\ z.cells = SubSeq(q, 1, n) /\ z.lost = lost
    <3>1. lost \in BOOLEAN
      <4>1. lossy \in BOOLEAN
        BY LinkAssumption DEF LinkInv
      <4> QED
        BY <4>1
    <3>2. SubSeq(q, 1, n) \in Seq(Cell)
      <4> HIDE DEF q
      <4> QED
        BY <2>2
    <3> QED
      BY <3>1, <3>2 DEF Burst
  <2> HIDE DEF z, q
  <2>4. /\ Len(air'[s]) = Len(air[s]) + 1 /\ air'[s][Len(air[s]) + 1] = z
        /\ \A b \in 1 .. Len(air[s]) : air'[s][b] = air[s][b]
    BY <2>1, <2>2, <2>3
  <2>5. \A t \in Senders : Flight(t, queue'[t], air'[t], sent', heard')
    <3>1. LinkInv'
      BY <1>3, SlotStep
    <3> QED
      BY <3>1 DEF LinkInv
  <2>6. ASSUME NEW t \in Senders, NEW c \in OnWay(queue[t], air[t])
        PROVE  c \in OnWay(queue'[t], air'[t])
    <3>1. CASE t # s
      BY <2>1, <2>6, <3>1
    <3>2. CASE t = s
      <4>1. Flight(s, queue[s], air[s], sent, heard) /\ Flight(s, queue'[s], air'[s], sent', heard')
        BY <1>1, <2>5
      <4>2. \/ \E j \in 1 .. Len(q) : c = q[j]
            \/ \E b \in 1 .. Len(air[s]) : \E j \in 1 .. Len(air[s][b].cells) :
                  c = air[s][b].cells[j]
        BY <2>6, <3>2, <4>1, InFlight DEF q
      <4>3. ASSUME NEW j \in 1 .. Len(q), c = q[j] PROVE c \in OnWay(queue'[s], air'[s])
        <5>1. CASE j <= n
          <6>1. j \in 1 .. Len(z.cells) /\ z.cells[j] = c
            BY <2>2, <2>3, <4>3, <5>1
          <6>2. Len(air[s]) + 1 \in 1 .. Len(air'[s]) /\ air'[s][Len(air[s]) + 1] = z
            BY <2>2, <2>4
          <6> QED
            BY <4>1, <6>1, <6>2, InFlight
        <5>2. CASE j > n
          <6>1. j - n \in 1 .. Len(queue'[s]) /\ queue'[s][j - n] = c
            BY <2>1, <2>2, <4>3, <5>2
          <6> QED
            BY <4>1, <6>1, InFlight
        <5> QED
          BY <2>2, <5>1, <5>2
      <4>4. ASSUME NEW b \in 1 .. Len(air[s]), NEW j \in 1 .. Len(air[s][b].cells),
                   c = air[s][b].cells[j]
            PROVE  c \in OnWay(queue'[s], air'[s])
        <5>1. b \in 1 .. Len(air'[s]) /\ air'[s][b] = air[s][b]
          BY <2>2, <2>4
        <5> QED
          BY <4>1, <4>4, <5>1, InFlight
      <4> QED
        BY <3>2, <4>2, <4>3, <4>4
    <3> QED
      BY <3>1, <3>2
  <2>7. ASSUME ~lossy PROVE Kept' /\ AllOrNone'
    <3>1. Kept'
      <4> SUFFICES ASSUME NEW t \in Senders, NEW b \in 1 .. Len(air'[t]) PROVE ~air'[t][b].lost
        OBVIOUS
      <4>1. CASE t # s
        BY <2>1, <2>7, <4>1 DEF AllInv
      <4>2. CASE t = s /\ b \in 1 .. Len(air[s])
        BY <2>4, <2>7, <4>2 DEF AllInv
      <4>3. CASE t = s /\ b = Len(air[s]) + 1
        BY <2>3, <2>4, <2>7, <4>3
      <4>4. t # s \/ b \in 1 .. Len(air[s]) \/ b = Len(air[s]) + 1
        BY <2>2, <2>4
      <4> QED
        BY <4>1, <4>2, <4>3, <4>4
    <3>2. AllOrNone'
      BY <2>1, <2>6, <2>7, AllStays DEF AllInv
    <3> QED
      BY <3>1, <3>2
  <2> QED
    BY <2>1, <2>7 DEF AllInv
<1>4. ASSUME NEW s \in Senders, Arrive(s) PROVE AllInv'
  <2> DEFINE a == air[s]
             burst == Head(a)
             cells == burst.cells
  <2>1. /\ a # << >> /\ UNCHANGED <<lossy, sent, queue>> /\ air'[s] = Tail(a)
        /\ \A t \in Senders : t # s => air'[t] = air[t]
    BY <1>1, <1>4 DEF Arrive, Shaped
  <2>2. /\ a \in Seq(Burst) /\ Len(a) \in Nat /\ burst = a[1] /\ 1 \in 1 .. Len(a)
        /\ Len(air'[s]) = Len(a) - 1
        /\ \A b \in 1 .. Len(a) - 1 : air'[s][b] = a[b + 1] /\ b + 1 \in 1 .. Len(a)
    <3>1. a \in Seq(Burst)
      BY <1>1 DEF Flight
    <3> HIDE DEF a
    <3> QED
      BY <2>1, <3>1
  <2>3. \A t \in Senders : Flight(t, queue'[t], air'[t], sent', heard')
    <3>1. LinkInv'
      BY <1>4, ArriveStep
    <3> QED
      BY <3>1 DEF LinkInv
  <2>4. ASSUME ~lossy PROVE Kept' /\ AllOrNone'
    <3>1. Kept'
      <4> SUFFICES ASSUME NEW t \in Senders, NEW b \in 1 .. Len(air'[t]) PROVE ~air'[t][b].lost
        OBVIOUS
      <4>1. CASE t # s
        BY <2>1, <2>4, <4>1 DEF AllInv
      <4>2. CASE t = s
        <5>1. b \in 1 .. Len(a) - 1
          BY <2>2, <4>2
        <5> QED
          BY <2>2, <2>4, <4>2, <5>1 DEF AllInv
      <4> QED
        BY <4>1, <4>2
    <3>2. ~burst.lost
      BY <2>2, <2>4 DEF AllInv
    <3>3. heard' = [p \in DOMAIN heard |->
                     heard[p] \cup {c.part : c \in {x \in Range(cells) : x.pkt = p}}]
      BY <1>4, <3>2 DEF Arrive
    <3>4. DOMAIN heard = DOMAIN sent
      BY <1>1 DEF LinkInv, Heard
    <3>5. \A c \in Range(cells) : Part(c, sent) => c.part \in heard'[c.pkt]
      <4> HIDE DEF cells
      <4> QED
        BY <3>3, <3>4 DEF Part
    <3>6. \A p \in DOMAIN sent : heard[p] \subseteq heard'[p]
      <4> HIDE DEF cells
      <4> QED
        BY <3>3, <3>4
    <3>7. ASSUME NEW t \in Senders, NEW c \in OnWay(queue[t], air[t])
          PROVE  c \in OnWay(queue'[t], air'[t]) \/ c \in Range(cells)
      <4>1. CASE t # s
        BY <2>1, <3>7, <4>1
      <4>2. CASE t = s
        <5>1. Flight(s, queue[s], a, sent, heard) /\ Flight(s, queue'[s], air'[s], sent', heard')
          BY <1>1, <2>3
        <5>2. \/ \E j \in 1 .. Len(queue[s]) : c = queue[s][j]
              \/ \E b \in 1 .. Len(a) : \E j \in 1 .. Len(a[b].cells) : c = a[b].cells[j]
          BY <3>7, <4>2, <5>1, InFlight
        <5>3. ASSUME NEW j \in 1 .. Len(queue[s]), c = queue[s][j]
              PROVE  c \in OnWay(queue'[s], air'[s])
          BY <2>1, <5>1, <5>3, InFlight
        <5>4. ASSUME NEW b \in 1 .. Len(a), NEW j \in 1 .. Len(a[b].cells), c = a[b].cells[j]
              PROVE  c \in OnWay(queue'[s], air'[s]) \/ c \in Range(cells)
          <6>1. CASE b = 1
            <7>1. j \in 1 .. Len(cells) /\ c = cells[j]
              BY <2>2, <5>4, <6>1
            <7>2. a[1].cells \in Seq(Cell)
              BY <2>2, <5>1 DEF Flight, Line
            <7>3. cells \in Seq(Cell)
              BY <2>2, <7>2
            <7> HIDE DEF cells
            <7> QED
              BY <7>1, <7>3 DEF Range
          <6>2. CASE b # 1
            <7>1. b - 1 \in 1 .. Len(air'[s]) /\ air'[s][b - 1] = a[b]
              BY <2>2, <6>2
            <7> QED
              BY <5>1, <5>4, <7>1, InFlight
          <6> QED
            BY <6>1, <6>2
        <5> QED
          BY <4>2, <5>2, <5>3, <5>4
      <4> QED
        BY <4>1, <4>2
    <3>8. AllOrNone'
      <4> HIDE DEF cells
      <4> QED
        BY <2>1, <2>4, <3>5, <3>6, <3>7, AllStays DEF AllInv
    <3> QED
      BY <3>1, <3>8
  <2> QED
    BY <2>1, <2>4 DEF AllInv
<1>5. ASSUME UNCHANGED <<lossy, sent, queue, air, heard>> PROVE AllInv'
  BY <1>5 DEF AllInv, AllOrNone, InChannel
<1>6. ASSUME NEW d \in Resets, Reset(d) PROVE AllInv'
  BY <1>5, <1>6 DEF Reset
<1>7. CASE UNCHANGED vars
  BY <1>5, <1>7 DEF vars
<1> QED
  BY <1>2, <1>3, <1>4, <1>6, <1>7 DEF Next

\* The check of send_frags and the limit of DropTail agree: of a packet the queue
\* takes all cells or none, and no cell is forgotten on its way.
THEOREM QueueTakesAllOrNone == Spec => []AllOrNone
<1>1. Init => AllInv
  BY DEF Init, AllInv, AllOrNone
<1>2. LinkInv /\ AllInv /\ [Next]_vars => AllInv'
  BY AllStep
<1>3. LinkInv /\ AllInv => (lossy \/ AllOrNone)
  BY DEF AllInv
<1>4. lossy => AllOrNone
  BY DEF AllOrNone
<1>5. Spec => []AllInv
  BY <1>1, <1>2, LinkInvariant, PTL DEF Spec
<1> QED
  BY <1>3, <1>4, <1>5, LinkInvariant, PTL

-----------------------------------------------------------------------------
(* What is thrown away                                                     *)

\* A queue holds the last cell of every packet that it holds a cell of; a burst does
\* so when it holds a cell of a later packet of the channel, too.
Ends(q, snt) ==
    \A i \in 1 .. Len(q) : \E k \in 1 .. Len(q) :
        q[k].pkt = q[i].pkt /\ q[k].part = LastPart(snt, q[i].pkt)
Gapless(cells, snt) ==
    \A i, j \in 1 .. Len(cells) : (cells[i].addr = cells[j].addr /\ cells[i].pkt < cells[j].pkt) =>
        \E k \in 1 .. Len(cells) :
            cells[k].pkt = cells[i].pkt /\ cells[k].part = LastPart(snt, cells[i].pkt)

\* Whatever station d heard of a packet is in its buffer buf until the last cell of
\* the packet is heard, unless a reset threw it away or its channel went on.
GoneOn(p, snt, h) == \E x \in DOMAIN snt : x > p /\ snt[x].vc = snt[p].vc /\ h[x] # {}
Retained(d, buf, snt, h, w) ==
    \A p \in DOMAIN snt : (snt[p].dst = d /\ p \notin w /\ LastPart(snt, p) \notin h[p]) =>
        \A i \in h[p] : (\E c \in buf : c.pkt = p /\ c.part = i) \/ GoneOn(p, snt, h)

KeptInv ==
    /\ \A s \in Senders : Ends(queue[s], sent) /\ \A b \in 1 .. Len(air[s]) : Gapless(air[s][b].cells, sent)
    /\ \A d \in Receivers : Retained(d, buffer_[d], sent, heard, wiped)

\* sendUp of one cell keeps what it is to keep.
LEMMA CellRetains ==
    ASSUME NEW snt \in Seq(Sent), NEW h, Heard(snt, h), NEW c, Part(c, snt), Passed(h, c, snt),
           NEW d, NEW buf, NEW u, NEW w, Station(d, buf, u, snt, h), Retained(d, buf, snt, h, w)
    PROVE  Retained(d, ForMe(d, [buf |-> buf, up |-> u], c).buf, snt, Hears(h, c), w)
<1> DEFINE g == Hears(h, c)
           b == ForMe(d, [buf |-> buf, up |-> u], c).buf
<1>1. \A p \in DOMAIN snt : \A i : i \in g[p] <=> i \in h[p] \/ (p = c.pkt /\ i = c.part)
  BY HearsIs
<1>2. /\ c.pkt \in DOMAIN snt /\ c.part \in 1 .. LastPart(snt, c.pkt) /\ c.addr = snt[c.pkt].vc
      /\ c.dst = snt[c.pkt].dst /\ c.pt = IF c.part = LastPart(snt, c.pkt) THEN 1 ELSE 0
  BY DEF Part
<1>3. DOMAIN snt = 1 .. Len(snt) /\ Len(snt) \in Nat
  OBVIOUS
<1>4. /\ c.dst # d => b = buf
      /\ c.dst = d /\ c.pt = 0 => b = buf \cup {c}
      /\ c.dst = d /\ c.pt = 1 => b = Purge(buf, c.addr)
  BY DEF ForMe, Reassemble
<1>5. \A x \in buf : x.pkt \in DOMAIN snt /\ x.addr = snt[x.pkt].vc
  BY DEF Station, Current, Part
<1> HIDE DEF g, b
<1> SUFFICES ASSUME NEW p \in DOMAIN snt, snt[p].dst = d, p \notin w, LastPart(snt, p) \notin g[p],
                    NEW i \in g[p]
             PROVE  (\E x \in b : x.pkt = p /\ x.part = i) \/ GoneOn(p, snt, g)
  BY DEF Retained, g, b
<1>6. LastPart(snt, p) \notin h[p]
  BY <1>1
<1>7. GoneOn(p, snt, h) => GoneOn(p, snt, g)
  BY <1>1 DEF GoneOn
<1>8. i \in h[p] => (\E x \in buf : x.pkt = p /\ x.part = i) \/ GoneOn(p, snt, h)
  BY <1>6 DEF Retained
<1>9. CASE c.dst # d
  BY <1>1, <1>2, <1>4, <1>7, <1>8, <1>9
<1>10. CASE c.dst = d /\ c.pt = 0
  BY <1>1, <1>4, <1>7, <1>8, <1>10
<1>11. CASE c.dst = d /\ c.pt = 1
  <2>1. p # c.pkt /\ i \in h[p]
    BY <1>1, <1>2, <1>11
  <2>2. CASE snt[p].vc = c.addr
    <3>1. p < c.pkt
      BY <2>1, <2>2, <1>3 DEF Passed, Before
    <3>2. c.part \in g[c.pkt]
      BY <1>1, <1>2
    <3> QED
      BY <1>2, <1>3, <2>2, <3>1, <3>2 DEF GoneOn
  <2>3. CASE snt[p].vc # c.addr
    BY <2>1, <2>3, <1>4, <1>5, <1>7, <1>8, <1>11 DEF Purge
  <2> QED
    BY <2>2, <2>3
<1> QED
  BY <1>2, <1>9, <1>10, <1>11

\* When the last cell of a packet comes and all others were heard and are in the buffer,
\* the packet is sent up unless there is a cell of another packet of the channel.
LEMMA CompleteTaken ==
    ASSUME NEW snt \in Seq(Sent), NEW h, Heard(snt, h), NEW c, Part(c, snt), Passed(h, c, snt),
           c.pt = 1, Hears(h, c)[c.pkt] = 1 .. LastPart(snt, c.pkt),
           NEW buf, NEW u, NEW w, c.pkt \notin w, Station(c.dst, buf, u, snt, h),
           Retained(c.dst, buf, snt, h, w), \A x \in buf : x.addr = c.addr => x.pkt = c.pkt
    PROVE  Complete(buf, c)
<1> DEFINE p == c.pkt
           n == LastPart(snt, p)
           V == {x \in buf : x.addr = c.addr}
           f == [x \in V |-> x.part]
<1>1. /\ p \in DOMAIN snt /\ n \in Nat /\ n >= 1 /\ c.part = n /\ Frags(c.length) = n
      /\ c.addr = snt[p].vc /\ c.dst = snt[p].dst
  <2>1. p \in DOMAIN snt /\ c.part = n /\ Frags(c.length) = n
        /\ c.addr = snt[p].vc /\ c.dst = snt[p].dst
    BY DEF Part, LastPart
  <2> QED
    BY <2>1, LastType
<1>2. \A i : i \in Hears(h, c)[p] <=> i \in h[p] \/ i = c.part
  BY <1>1, HearsIs
<1>3. n \notin h[p]
  BY <1>1 DEF Passed, Before
<1>4. \A i \in 1 .. n - 1 : i \in h[p]
  BY <1>1, <1>2
<1>5. ~GoneOn(p, snt, h)
  <2> SUFFICES ASSUME NEW x \in DOMAIN snt, x > p, snt[x].vc = snt[p].vc, NEW i \in h[x]
               PROVE  FALSE
    BY DEF GoneOn
  <2>1. Before(x, i, c)
    BY <1>1 DEF Passed
  <2> QED
    BY <1>1, <2>1 DEF Before
<1>6. \A i \in 1 .. n - 1 : \E x \in buf : x.pkt = p /\ x.part = i
  BY <1>1, <1>3, <1>4, <1>5 DEF Retained
<1>7. \A x \in buf : Part(x, snt) /\ x.pt = 0
  BY DEF Station, Current
<1>8. \A x \in buf : x.pkt = p => x.addr = c.addr
  BY <1>1, <1>7 DEF Part
<1>9. \A x \in V : x.pkt = p
  OBVIOUS
<1>10. \A x \in V : x.part \in 1 .. n - 1
  <2> SUFFICES ASSUME NEW x \in V PROVE x.part \in 1 .. n - 1
    OBVIOUS
  <2>1. x.part \in 1 .. n /\ x.part # n
    BY <1>7, <1>9 DEF Part
  <2> QED
    BY <1>1, <2>1
<1>11. \A x, y \in V : x.part = y.part => x = y
  BY <1>7, <1>9, SameCell
<1>12. \A i \in 1 .. n - 1 : \E x \in V : x.part = i
  BY <1>6, <1>8
<1>13. IsFiniteSet(V)
  <2>1. IsFiniteSet(buf)
    BY DEF Station
  <2> QED
    BY <2>1, FS_Subset
<1>14. V = buf \ Purge(buf, c.addr)
  BY DEF Purge
<1> HIDE DEF V
<1>15. ExistsBijection(V, 1 .. n - 1)
  <2>1. f \in Bijection(V, 1 .. n - 1)
    BY <1>10, <1>11, <1>12 DEF Bijection, Injection, Surjection, IsInjective
  <2> QED
    BY <2>1 DEF ExistsBijection
<1>16. Cardinality(1 .. n - 1) = Cardinality(V)
  BY <1>13, <1>15, FS_Bijection
<1>17. Cardinality(1 .. n - 1) = n - 1
  <2>1. 1 \in Int /\ n - 1 \in Int /\ (1 > n - 1 => n - 1 = 0) /\ ((n - 1) - 1) + 1 = n - 1
    BY <1>1
  <2> QED
    BY <2>1, FS_Interval
<1>18. 1 + Cardinality(V) = n
  BY <1>1, <1>16, <1>17
<1> QED
  BY <1>1, <1>14, <1>18 DEF Complete

\* What DropExplained says of a packet p that was thrown away, when the parts in h had
\* been heard; and of those of station d all parts of which are in g, when it has
\* passed u up.
Explained(p, snt, h) ==
    \E r \in 1 .. p - 1 :
        /\ Same(r, p, snt) /\ h[r] # {} /\ LastPart(snt, r) \notin h[r]
        /\ \A x \in r + 1 .. p - 1 : Same(x, p, snt) => LastPart(snt, x) \notin h[x]
Answered(d, u, snt, h, g, w) ==
    \A p \in DOMAIN snt :
        (snt[p].dst = d /\ p \notin w /\ LastPart(snt, p) \notin h[p] /\ g[p] = 1 .. LastPart(snt, p))
        => p \in Range(u) \/ Explained(p, snt, h)

\* A cell is either the last of a packet that goes up, or there is an explanation.
LEMMA CellAnswers ==
    ASSUME NEW snt \in Seq(Sent), NEW h, NEW g, Heard(snt, g), \A p \in DOMAIN snt : h[p] \subseteq g[p],
           NEW c, Part(c, snt), Passed(g, c, snt), NEW d, NEW buf, NEW u, NEW w,
           Station(d, buf, u, snt, g), Retained(d, buf, snt, g, w), Answered(d, u, snt, h, g, w),
           \A y \in buf : (y.addr = c.addr /\ y.pkt < c.pkt /\ c.dst = d) => h[y.pkt] # {}
    PROVE  Answered(d, ForMe(d, [buf |-> buf, up |-> u], c).up, snt, h, Hears(g, c), w)
<1> DEFINE e == Hears(g, c)
           v == ForMe(d, [buf |-> buf, up |-> u], c).up
<1>1. \A p \in DOMAIN snt : \A i : i \in e[p] <=> i \in g[p] \/ (p = c.pkt /\ i = c.part)
  BY HearsIs
<1>2. /\ c.pkt \in DOMAIN snt /\ c.part \in 1 .. LastPart(snt, c.pkt) /\ c.addr = snt[c.pkt].vc
      /\ c.dst = snt[c.pkt].dst /\ c.pt = IF c.part = LastPart(snt, c.pkt) THEN 1 ELSE 0
  BY DEF Part
<1>3. /\ DOMAIN snt = 1 .. Len(snt) /\ Len(snt) \in Nat
      /\ \A p \in DOMAIN snt : LastPart(snt, p) \in Nat /\ LastPart(snt, p) >= 1
  BY LastType
<1>4. /\ c.dst = d /\ c.pt = 1 => v = IF Complete(buf, c) THEN Append(u, c.pkt) ELSE u
      /\ ~(c.dst = d /\ c.pt = 1) => v = u
  <2>1. c.pt = 0 \/ c.pt = 1
    BY <1>2
  <2> QED
    BY <2>1 DEF ForMe, Reassemble
<1>5. u \in Seq(DOMAIN snt)
  BY DEF Station
<1>6. \A p : p \in Range(u) => p \in Range(v)
  <2>1. Range(u) = {u[i] : i \in 1 .. Len(u)}
    BY <1>5 DEF Range
  <2>2. Range(Append(u, c.pkt)) = Range(u) \cup {c.pkt}
    <3>1. /\ Append(u, c.pkt) \in Seq(DOMAIN snt) /\ Len(Append(u, c.pkt)) = Len(u) + 1 /\ Len(u) \in Nat
          /\ \A i \in 1 .. Len(u) : Append(u, c.pkt)[i] = u[i]
          /\ Append(u, c.pkt)[Len(u) + 1] = c.pkt
      BY <1>2, <1>5
    <3>2. DOMAIN Append(u, c.pkt) = 1 .. Len(u) + 1
      BY <3>1
    <3>3. \A i : i \in 1 .. Len(u) + 1 <=> i \in 1 .. Len(u) \/ i = Len(u) + 1
      BY <3>1
    <3> DEFINE a == Append(u, c.pkt)
    <3>4. Range(a) = {a[i] : i \in DOMAIN a}
      BY DEF Range
    <3> HIDE DEF a
    <3>5. Range(a) = {a[i] : i \in 1 .. Len(u) + 1}
      BY <3>2, <3>4 DEF a
    <3>6. a[Len(u) + 1] = c.pkt /\ \A i \in 1 .. Len(u) : a[i] = u[i]
      BY <3>1 DEF a
    <3>7. Range(a) = Range(u) \cup {c.pkt}
      BY <2>1, <3>3, <3>5, <3>6
    <3> QED
      BY <3>7 DEF a
  <2> QED
    BY <1>4, <2>2
<1> HIDE DEF e, v
<1> SUFFICES ASSUME NEW p \in DOMAIN snt, snt[p].dst = d, p \notin w, LastPart(snt, p) \notin h[p],
                    e[p] = 1 .. LastPart(snt, p)
             PROVE  p \in Range(v) \/ Explained(p, snt, h)
  BY DEF Answered, e, v
<1>7. CASE g[p] = 1 .. LastPart(snt, p)
  BY <1>6, <1>7 DEF Answered
<1>8. CASE g[p] # 1 .. LastPart(snt, p)
  <2>1. p = c.pkt
    BY <1>1, <1>8
  <2> DEFINE n == LastPart(snt, p)
  <2>2. c.part = n
    <3>1. n \in e[p]
      BY <1>3
    <3>2. ASSUME n \in g[p] PROVE FALSE
      <4>1. Before(p, n, c)
        BY <1>2, <2>1, <3>2 DEF Passed
      <4> QED
        BY <1>2, <1>3, <2>1, <4>1 DEF Before
    <3> QED
      BY <1>1, <3>1, <3>2
  <2>3. c.pt = 1 /\ c.dst = d
    BY <1>2, <2>1, <2>2
  <2>4. CASE Complete(buf, c)
    <3>1. v = Append(u, c.pkt)
      BY <1>4, <2>3, <2>4
    <3>2. Append(u, c.pkt) \in Seq(DOMAIN snt) /\ Append(u, c.pkt)[Len(u) + 1] = c.pkt
          /\ Len(u) + 1 \in DOMAIN Append(u, c.pkt)
      BY <1>2, <1>5
    <3>3. p \in Range(v)
      BY <2>1, <3>1, <3>2 DEF Range
    <3> QED
      BY <3>3
  <2>5. CASE ~Complete(buf, c)
    <3>1. PICK y \in buf : y.addr = c.addr /\ y.pkt # p
      <4> SUFFICES ASSUME \A x \in buf : x.addr = c.addr => x.pkt = c.pkt PROVE FALSE
        BY <2>1
      <4>1. Station(c.dst, buf, u, snt, g) /\ Retained(c.dst, buf, snt, g, w) /\ c.pkt \notin w
        BY <2>1, <2>3
      <4>2. Hears(g, c)[c.pkt] = 1 .. LastPart(snt, c.pkt)
        BY <2>1 DEF e
      <4> QED
        BY <2>3, <2>5, <4>1, <4>2, CompleteTaken
    <3> DEFINE r == y.pkt
    <3>2. Current(d, y, snt, g)
      BY DEF Station
    <3>3. r \in DOMAIN snt /\ y.part \in g[r] /\ snt[r].vc = y.addr /\ snt[r].dst = d
      BY <3>2 DEF Current, Part
    <3>4. r \in 1 .. p - 1
      <4>1. Before(r, y.part, c)
        BY <3>1, <3>3 DEF Passed
      <4> QED
        BY <1>3, <2>1, <3>1, <3>3, <4>1 DEF Before
    <3>5. Same(r, p, snt) /\ h[r] # {}
      BY <1>2, <1>3, <2>1, <2>3, <3>1, <3>3, <3>4 DEF Same
    <3>6. ASSUME NEW x \in r .. p - 1, Same(x, p, snt) PROVE LastPart(snt, x) \notin h[x]
      <4>1. x \in DOMAIN snt /\ x >= y.pkt
        BY <1>3, <3>3
      <4>2. snt[x].vc = y.addr /\ snt[x].dst = d
        BY <1>2, <2>1, <3>1, <3>6 DEF Same
      <4>3. LastPart(snt, x) \notin g[x]
        BY <3>2, <4>1, <4>2 DEF Current
      <4> QED
        BY <4>1, <4>3
    <3>7. r \in r .. p - 1 /\ \A x \in r + 1 .. p - 1 : x \in r .. p - 1
      BY <3>4
    <3> QED
      BY <3>4, <3>5, <3>6, <3>7 DEF Explained
  <2> QED
    BY <2>4, <2>5
<1> QED
  BY <1>7, <1>8

\* A burst that holds the last cell of a packet, and cells of an earlier one that was
\* not heard of before, holds the last cell of that one.
LEMMA HeardBefore ==
    ASSUME NEW snt \in Seq(Sent), NEW h, Heard(snt, h), NEW s, NEW cells, Line(s, cells, snt),
           Gapless(cells, snt), NEW m \in 1 .. Len(cells), NEW d, cells[m].dst = d,
           NEW y, Current(d, y, snt, HeardUpTo(h, cells, m - 1)), y.addr = cells[m].addr,
           y.pkt < cells[m].pkt
    PROVE  h[y.pkt] # {}
<1> DEFINE c == cells[m]
           r == y.pkt
           g == HeardUpTo(h, cells, m - 1)
<1>1. /\ cells \in Seq(Cell) /\ Len(cells) \in Nat /\ m \in Nat
      /\ \A i \in 1 .. Len(cells) : Part(cells[i], snt)
  BY DEF Line
<1>2. DOMAIN h = DOMAIN snt
  BY DEF Heard
<1>3. r \in DOMAIN snt /\ y.part \in g[r] /\ snt[r].vc = y.addr /\ snt[r].dst = d
  BY DEF Current, Part
<1>4. g[r] = h[r] \cup {cells[j].part : j \in {x \in 1 .. m - 1 : cells[x].pkt = r}}
  BY <1>2, <1>3 DEF HeardUpTo
<1>5. LastPart(snt, r) \notin g[r]
  <2>1. r \in Nat
    BY <1>3
  <2>2. r >= y.pkt
    BY <2>1
  <2> HIDE DEF r, g
  <2> QED
    BY <1>3, <2>2 DEF Current, g
<1> HIDE DEF g
<1> SUFFICES ASSUME h[r] = {} PROVE FALSE
  OBVIOUS
<1>6. PICK j \in 1 .. m - 1 : cells[j].pkt = r
  BY <1>3, <1>4
<1>7. j \in 1 .. Len(cells) /\ cells[j].addr = c.addr
  <2>1. j \in 1 .. Len(cells)
    BY <1>1
  <2>2. Part(cells[j], snt)
    BY <1>1, <2>1
  <2> QED
    BY <1>3, <1>6, <2>1, <2>2 DEF Part
<1>8. PICK k \in 1 .. Len(cells) : cells[k].pkt = r /\ cells[k].part = LastPart(snt, r)
  BY <1>6, <1>7 DEF Gapless
<1>9. cells[k].addr = c.addr
  BY <1>1, <1>3, <1>8 DEF Part
<1>10. c.pkt \in Nat /\ r \in Nat
  <2>1. Part(c, snt)
    BY <1>1
  <2> QED
    BY <1>3, <2>1 DEF Part
<1>11. k # m /\ ~(m < k)
  <2>1. ASSUME m < k PROVE FALSE
    <3>1. Ahead(c, cells[k])
      BY <2>1 DEF Line
    <3> QED
      BY <1>8, <1>9, <1>10, <3>1 DEF Ahead, Before
  <2> QED
    BY <1>8, <1>10, <2>1
<1>12. k \in 1 .. m - 1
  BY <1>1, <1>11
<1> QED
  BY <1>4, <1>5, <1>8, <1>12

\* A whole burst, at one station.
LEMMA BurstAnswers ==
    ASSUME NEW snt \in Seq(Sent), NEW h, Heard(snt, h), NEW s, NEW burst,
           Line(s, burst.cells, snt), Gapless(burst.cells, snt), MaxPackets \in Nat,
           \A i \in 1 .. Len(burst.cells) : Passed(h, burst.cells[i], snt),
           NEW d, NEW w, Station(d, buffer_[d], up[d], snt, h), Retained(d, buffer_[d], snt, h, w)
    PROVE  LET r == After(d, burst)
               g == HeardUpTo(h, burst.cells, Len(burst.cells))
           IN  Retained(d, r.buf, snt, g, w) /\ Answered(d, r.up, snt, h, g, w)
<1> DEFINE cells == burst.cells
           N == Len(cells)
           g(m) == HeardUpTo(h, cells, m)
<1>1. N \in Nat /\ cells \in Seq(Cell) /\ DOMAIN h = DOMAIN snt
  BY DEF Line, Heard
<1>2. PICK x : Passes(d, burst, snt, h, x)
  BY StationPasses
<1> DEFINE Good(m) == Retained(d, x[m].buf, snt, g(m), w) /\ Answered(d, x[m].up, snt, h, g(m), w)
           Bad == {m \in 0 .. N : ~Good(m)}
<1>3. Good(0)
  <2>1. g(0) = h
    <3>1. \A p \in DOMAIN h : h[p] \cup {cells[j].part : j \in {y \in 1 .. 0 : cells[y].pkt = p}} = h[p]
      OBVIOUS
    <3>2. h \in Seq(SUBSET Nat)
      BY DEF Heard
    <3>3. h = [p \in DOMAIN h |-> h[p]]
      BY <3>2
    <3> QED
      BY <3>1, <3>3 DEF HeardUpTo
  <2>2. x[0].buf = buffer_[d]
    BY <1>2 DEF Passes
  <2>3. Answered(d, x[0].up, snt, h, h, w)
    <3>1. \A p \in DOMAIN snt : LastPart(snt, p) \in 1 .. LastPart(snt, p)
      BY LastType
    <3> QED
      BY <3>1 DEF Answered
  <2> HIDE DEF g
  <2> QED
    BY <2>1, <2>2, <2>3
<1>4. ASSUME NEW m \in 1 .. N, Good(m - 1) PROVE Good(m)
  <2> DEFINE y == x[m - 1]
             c == cells[m]
             z == ForMe(d, [buf |-> y.buf, up |-> y.up], c)
  <2>1. m - 1 \in 0 .. N /\ \A i \in 1 .. m - 1 : i \in 1 .. N /\ i < m
    BY <1>1
  <2>2. Part(c, snt) /\ Passed(h, c, snt) /\ \A i \in 1 .. m - 1 : Ahead(cells[i], c)
    BY <2>1 DEF Line
  <2>3. Passed(g(m - 1), c, snt)
    <3> HIDE DEF c, N
    <3>1. m - 1 \in 0 .. Len(cells)
      BY <2>1 DEF N
    <3> HIDE DEF cells
    <3>2. Line(s, cells, snt)
      BY DEF cells
    <3> QED
      BY <2>2, <3>1, <3>2, PassedUpTo
  <2>4. g(m) = Hears(g(m - 1), c) /\ Heard(snt, g(m - 1))
    <3>1. m - 1 \in 0 .. Len(cells)
      BY <2>1
    <3> QED
      BY <3>1, HeardStep, HeardType
  <2>5. Station(d, y.buf, y.up, snt, g(m - 1)) /\ x[m] = z
    <3>1. Station(d, y.buf, y.up, snt, g(m - 1)) /\ y = [buf |-> y.buf, up |-> y.up]
      BY <1>2, <2>1 DEF Passes
    <3>2. x[m] = ForMe(d, y, c)
      BY <1>2 DEF Passes
    <3> HIDE DEF y, g
    <3> QED
      BY <3>1, <3>2
  <2>6. \A p \in DOMAIN snt : h[p] \subseteq g(m - 1)[p]
    BY <1>1 DEF HeardUpTo
  <2>7. \A k \in y.buf : (k.addr = c.addr /\ k.pkt < c.pkt /\ c.dst = d) => h[k.pkt] # {}
    <3> SUFFICES ASSUME NEW k \in y.buf, k.addr = c.addr, k.pkt < c.pkt, c.dst = d
                 PROVE  h[k.pkt] # {}
      OBVIOUS
    <3>1. Current(d, k, snt, g(m - 1))
      BY <2>5 DEF Station
    <3> HIDE DEF y
    <3> QED
      BY <3>1, HeardBefore
  <2> HIDE DEF c, g
  <2>8. Retained(d, y.buf, snt, g(m - 1), w) /\ Answered(d, y.up, snt, h, g(m - 1), w)
    BY <1>4
  <2> HIDE DEF y
  <2>9. Retained(d, z.buf, snt, Hears(g(m - 1), c), w)
    BY <2>2, <2>3, <2>4, <2>5, <2>8, CellRetains
  <2>10. Answered(d, z.up, snt, h, Hears(g(m - 1), c), w)
    BY <2>2, <2>3, <2>4, <2>5, <2>6, <2>7, <2>8, CellAnswers
  <2> HIDE DEF z
  <2> QED
    BY <2>4, <2>5, <2>9, <2>10
<1>5. Bad = {}
  <2> SUFFICES ASSUME Bad # {} PROVE FALSE
    OBVIOUS
  <2>1. PICK m \in Bad : \A k \in Bad : m <= k
    <3>1. Bad \in SUBSET Nat
      BY <1>1
    <3> HIDE DEF Bad
    <3> QED
      BY <3>1, LeastNumber, Zenon
  <2>2. m \in 0 .. N /\ ~Good(m)
    BY <2>1
  <2> HIDE DEF Good
  <2>3. m \in 1 .. N
    BY <1>1, <1>3, <2>2
  <2>4. m - 1 \in 0 .. N /\ m - 1 < m /\ m - 1 \in Nat
    BY <1>1, <2>3
  <2>5. Good(m - 1)
    BY <1>1, <2>1, <2>3, <2>4
  <2> QED
    BY <1>4, <2>2, <2>3, <2>5
<1>6. Good(N)
  <2>1. N \in 0 .. N
    BY <1>1
  <2> HIDE DEF Good
  <2> QED
    BY <1>5, <2>1
<1>7. After(d, burst) = x[N]
  BY <1>2 DEF Passes
<1> QED
  BY <1>6, <1>7

\* New packets leave what is kept as it was.
LEMMA KeptGrows ==
    ASSUME NEW snt, NEW h, NEW snt2, NEW h2, Grows(snt, h, snt2, h2)
    PROVE  /\ \A s, q : Line(s, q, snt) /\ Gapless(q, snt) => Gapless(q, snt2)
           /\ \A s, q : Line(s, q, snt) /\ Ends(q, snt) => Ends(q, snt2)
           /\ \A d, buf, w : Retained(d, buf, snt, h, w) => Retained(d, buf, snt2, h2, w)
<1>1. \A p \in DOMAIN snt : LastPart(snt2, p) = LastPart(snt, p)
  BY GrowsIn
<1>2. \A s, q : Line(s, q, snt) => \A i \in 1 .. Len(q) : q[i].pkt \in DOMAIN snt
  BY DEF Line, Part
<1>3. ASSUME NEW d, NEW buf, NEW w, Retained(d, buf, snt, h, w)
      PROVE  Retained(d, buf, snt2, h2, w)
  <2> SUFFICES ASSUME NEW p \in DOMAIN snt2, snt2[p].dst = d, p \notin w,
                      LastPart(snt2, p) \notin h2[p], NEW i \in h2[p]
               PROVE  (\E c \in buf : c.pkt = p /\ c.part = i) \/ GoneOn(p, snt2, h2)
    BY DEF Retained
  <2>1. p \in DOMAIN snt /\ snt2[p] = snt[p] /\ h2[p] = h[p]
    BY DEF Grows
  <2>2. (\E c \in buf : c.pkt = p /\ c.part = i) \/ GoneOn(p, snt, h)
    BY <1>1, <1>3, <2>1 DEF Retained
  <2>3. GoneOn(p, snt, h) => GoneOn(p, snt2, h2)
    BY <2>1, GrowsIn DEF GoneOn, Grows
  <2> QED
    BY <2>2, <2>3
<1>4. \A s, q : Line(s, q, snt) /\ Gapless(q, snt) => Gapless(q, snt2)
  BY <1>1, <1>2 DEF Gapless
<1>5. \A s, q : Line(s, q, snt) /\ Ends(q, snt) => Ends(q, snt2)
  BY <1>1, <1>2 DEF Ends
<1> QED
  BY <1>3, <1>4, <1>5

\* A timeslot takes the first k cells: what it splits a packet of goes on in the queue.
LEMMA EndsSplit ==
    ASSUME NEW s, NEW q, NEW snt \in Seq(Sent), Line(s, q, snt), Ends(q, snt), NEW k \in 0 .. Len(q)
    PROVE  Gapless(SubSeq(q, 1, k), snt) /\ Ends(SubSeq(q, k + 1, Len(q)), snt)
<1> DEFINE a == SubSeq(q, 1, k)
           b == SubSeq(q, k + 1, Len(q))
<1>1. /\ q \in Seq(Cell) /\ Len(q) \in Nat /\ k \in Nat /\ k <= Len(q)
      /\ \A i \in 1 .. Len(q) : Part(q[i], snt)
      /\ \A i, j \in 1 .. Len(q) : i < j => Ahead(q[i], q[j])
  BY DEF Line
<1>2. /\ Len(a) = k /\ \A i \in 1 .. k : a[i] = q[i] /\ i \in 1 .. Len(q)
  BY <1>1
<1>3. /\ Len(b) = Len(q) - k /\ \A i \in 1 .. Len(q) - k : b[i] = q[k + i] /\ k + i \in 1 .. Len(q)
  BY <1>1
<1> HIDE DEF a, b
<1>4. \A p \in DOMAIN snt : p \in Nat /\ LastPart(snt, p) \in Nat
  BY LastType
<1>5. \A i \in 1 .. Len(q) : /\ q[i].pkt \in DOMAIN snt /\ q[i].addr = snt[q[i].pkt].vc
                             /\ q[i].part \in 1 .. LastPart(snt, q[i].pkt)
  BY <1>1 DEF Part
<1>6. Gapless(a, snt)
  <2> SUFFICES ASSUME NEW i \in 1 .. k, NEW j \in 1 .. k, q[i].addr = q[j].addr, q[i].pkt < q[j].pkt
               PROVE  \E e \in 1 .. k : q[e].pkt = q[i].pkt /\ q[e].part = LastPart(snt, q[i].pkt)
    BY <1>2 DEF Gapless
  <2>1. i \in 1 .. Len(q) /\ j \in 1 .. Len(q)
    BY <1>2
  <2>2. PICK e \in 1 .. Len(q) : q[e].pkt = q[i].pkt /\ q[e].part = LastPart(snt, q[i].pkt)
    BY <2>1 DEF Ends
  <2>3. ~(j < e)
    <3>1. q[e].addr = q[j].addr
      BY <1>5, <2>1, <2>2
    <3>2. ASSUME j < e PROVE FALSE
      <4>1. Before(q[j].pkt, q[j].part, q[e])
        BY <1>1, <2>1, <3>1, <3>2 DEF Ahead
      <4> QED
        BY <1>4, <1>5, <2>1, <2>2, <4>1 DEF Before
    <3> QED
      BY <3>2
  <2> QED
    BY <1>1, <2>2, <2>3
<1>7. Ends(b, snt)
  <2> SUFFICES ASSUME NEW i \in 1 .. Len(q) - k
               PROVE  \E e \in 1 .. Len(q) - k :
                         b[e].pkt = b[i].pkt /\ b[e].part = LastPart(snt, b[i].pkt)
    BY <1>3 DEF Ends
  <2>1. b[i] = q[k + i] /\ k + i \in 1 .. Len(q)
    BY <1>3
  <2>2. PICK e \in 1 .. Len(q) : q[e].pkt = b[i].pkt /\ q[e].part = LastPart(snt, b[i].pkt)
    BY <2>1 DEF Ends
  <2>3. ~(e < k + i)
    <3>1. q[e].addr = q[k + i].addr
      BY <1>5, <2>1, <2>2
    <3>2. ASSUME e < k + i PROVE FALSE
      <4>1. Before(q[e].pkt, q[e].part, q[k + i])
        BY <1>1, <2>1, <3>1, <3>2 DEF Ahead
      <4> DEFINE y == q[k + i]
                 n == LastPart(snt, y.pkt)
      <4>2. Before(y.pkt, n, y)
        BY <2>1, <2>2, <4>1
      <4>3. y.pkt \in Nat /\ n \in Nat /\ y.part \in 1 .. n
        BY <1>4, <1>5, <2>1
      <4> HIDE DEF y, n
      <4> QED
        BY <4>2, <4>3 DEF Before
    <3> QED
      BY <3>2
  <2>4. e - k \in 1 .. Len(q) - k /\ k + (e - k) = e
    BY <1>1, <2>1, <2>3
  <2>5. b[e - k] = q[e]
    BY <1>3, <2>4
  <2> QED
    BY <2>2, <2>4, <2>5
<1> QED
  BY <1>6, <1>7 DEF a, b

LEMMA KeptSend ==
    ASSUME LinkInv, KeptInv, NEW s \in Senders, NEW d \in Receivers, NEW f \in Flows,
           NEW size \in Sizes, Send(s, d, f, size)
    PROVE  KeptInv'
<1>1. /\ Shaped /\ sent \in Seq(Sent)
      /\ \A t \in Senders : Flight(t, queue[t], air[t], sent, heard)
  BY DEF LinkInv
<1>2. /\ air' = air /\ buffer_' = buffer_ /\ wiped' = wiped
      /\ \A t \in Senders : t # s => queue'[t] = queue[t]
      /\ \E x : sent' = Append(sent, x) /\ x.length = size
  <2>1. \A t \in Senders : t # s => queue'[t] = queue[t]
    BY <1>1 DEF Send, Shaped
  <2> DEFINE x == [src |-> s, dst |-> d, vc |-> Addr(s, f), length |-> size]
  <2>2. sent' = Append(sent, x) /\ x.length = size
    BY DEF Send
  <2> QED
    BY <2>1, <2>2 DEF Send
<1>3. /\ LinkInv' /\ Grows(sent, heard, sent', heard') /\ Range(queue[s]) \subseteq Range(queue'[s])
      /\ \A i \in 1 .. Frags(size) :
           \E c \in Range(queue'[s]) : c.pkt = Len(sent) + 1 /\ c.part = i
      /\ \A c \in Range(queue'[s]) : c \in Range(queue[s]) \/ c.pkt = Len(sent) + 1
  BY SendStep
<1>4. \A t \in Senders : \A b \in 1 .. Len(air[t]) : Gapless(air[t][b].cells, sent')
  <2> SUFFICES ASSUME NEW t \in Senders, NEW b \in 1 .. Len(air[t])
               PROVE  Gapless(air[t][b].cells, sent')
    OBVIOUS
  <2>1. Line(t, air[t][b].cells, sent)
    BY <1>1 DEF Flight
  <2> QED
    BY <1>3, <2>1, KeptGrows DEF KeptInv
<1>5. \A e \in Receivers : Retained(e, buffer_[e], sent', heard', wiped)
  BY <1>3, KeptGrows DEF KeptInv
<1>6. \A t \in Senders : t # s => Ends(queue'[t], sent')
  <2> SUFFICES ASSUME NEW t \in Senders, t # s PROVE Ends(queue'[t], sent')
    OBVIOUS
  <2>1. Line(t, queue[t], sent)
    BY <1>1 DEF Flight
  <2> QED
    BY <1>2, <1>3, <2>1, KeptGrows DEF KeptInv
<1>7. Ends(queue'[s], sent')
  <2> DEFINE q == queue[s]
             r == queue'[s]
             p == Len(sent) + 1
  <2>1. /\ Line(s, q, sent) /\ Line(s, r, sent') /\ Ends(q, sent)
    BY <1>1, <1>3 DEF LinkInv, Flight, KeptInv
  <2>2. /\ Range(q) = {q[i] : i \in 1 .. Len(q)} /\ Range(r) = {r[i] : i \in 1 .. Len(r)}
    <3>1. q \in Seq(Cell) /\ r \in Seq(Cell)
      BY <2>1 DEF Line
    <3>2. DOMAIN q = 1 .. Len(q) /\ DOMAIN r = 1 .. Len(r)
      BY <3>1
    <3> HIDE DEF q, r
    <3> QED
      BY <3>2 DEF Range
  <2>3. LastPart(sent', p) = Frags(size)
    <3>1. PICK x : sent' = Append(sent, x) /\ x.length = size
      BY <1>2
    <3>2. sent'[p] = x
      BY <1>1, <3>1
    <3> QED
      BY <3>1, <3>2 DEF LastPart
  <2>4. Ends(q, sent')
    BY <1>3, <2>1, KeptGrows
  <2>5. Frags(size) \in 1 .. Frags(size)
    BY FragsType
  <2>6. /\ \A c \in Range(r) : c \in Range(q) \/ c.pkt = p
        /\ Range(q) \subseteq Range(r)
        /\ \E c \in Range(r) : c.pkt = p /\ c.part = Frags(size)
    BY <1>3, <2>5
  <2> HIDE DEF q, r, p
  <2> SUFFICES ASSUME NEW i \in 1 .. Len(r)
               PROVE  \E k \in 1 .. Len(r) :
                         r[k].pkt = r[i].pkt /\ r[k].part = LastPart(sent', r[i].pkt)
    BY DEF Ends, r
  <2>7. CASE r[i].pkt = p
    BY <2>2, <2>3, <2>6, <2>7
  <2>8. CASE r[i].pkt # p
    <3>1. PICK j \in 1 .. Len(q) : r[i] = q[j]
      BY <2>2, <2>6, <2>8
    <3>2. PICK k \in 1 .. Len(q) : q[k].pkt = q[j].pkt /\ q[k].part = LastPart(sent', q[j].pkt)
      BY <2>4 DEF Ends
    <3>3. q[k] \in Range(r)
      BY <2>2, <2>6
    <3>4. PICK e \in 1 .. Len(r) : r[e] = q[k]
      BY <2>2, <3>3
    <3> QED
      BY <3>1, <3>2, <3>4
  <2> QED
    BY <2>7, <2>8
<1> QED
  BY <1>2, <1>4, <1>5, <1>6, <1>7 DEF KeptInv

LEMMA KeptSlot ==
    ASSUME LinkInv, KeptInv, NEW s \in Senders, NEW cn \in CellCounts, NEW lost \in {FALSE, lossy},
           Slot(s, cn, lost)
    PROVE  KeptInv'
<1> DEFINE n == IF Len(queue[s]) < cn THEN Len(queue[s]) ELSE cn
           q == queue[s]
           z == [lost |-> lost, cells |-> SubSeq(q, 1, n)]
<1>1. /\ Shaped /\ sent \in Seq(Sent)
      /\ \A t \in Senders : Flight(t, queue[t], air[t], sent, heard)
  BY DEF LinkInv
<1>2. /\ UNCHANGED <<sent, heard, buffer_, wiped>>
      /\ queue'[s] = SubSeq(q, n + 1, Len(q)) /\ air'[s] = Append(air[s], z)
      /\ \A t \in Senders : t # s => queue'[t] = queue[t] /\ air'[t] = air[t]
  BY <1>1 DEF Slot, Shaped
<1>3. /\ q \in Seq(Cell) /\ n \in 0 .. Len(q) /\ air[s] \in Seq(Burst) /\ Len(air[s]) \in Nat
      /\ Line(s, q, sent) /\ Ends(q, sent)
  <2>1. q \in Seq(Cell) /\ Len(q) \in Nat /\ cn \in Nat /\ air[s] \in Seq(Burst)
    BY <1>1, LinkAssumption DEF Flight, Line
  <2> QED
    BY <2>1, <1>1 DEF Flight, KeptInv
<1> HIDE DEF n, q
<1>4. Gapless(z.cells, sent) /\ Ends(queue'[s], sent)
  BY <1>1, <1>2, <1>3, EndsSplit
<1>5. ASSUME NEW b \in 1 .. Len(air'[s]) PROVE Gapless(air'[s][b].cells, sent)
  <2>1. /\ Len(air'[s]) = Len(air[s]) + 1 /\ air'[s][Len(air[s]) + 1] = z
        /\ \A e \in 1 .. Len(air[s]) : air'[s][e] = air[s][e]
    <3>1. z \in Burst
      <4>1. lost \in BOOLEAN
        BY LinkAssumption DEF LinkInv
      <4>2. SubSeq(q, 1, n) \in Seq(Cell)
        BY <1>3
      <4> QED
        BY <4>1, <4>2 DEF Burst
    <3> HIDE DEF z
    <3> QED
      BY <1>2, <1>3, <3>1
  <2>2. b \in 1 .. Len(air[s]) \/ b = Len(air[s]) + 1
    BY <1>3, <2>1
  <2> HIDE DEF z
  <2> QED
    BY <1>4, <2>1, <2>2 DEF KeptInv
<1> QED
  BY <1>2, <1>4, <1>5 DEF KeptInv

\* A burst that arrives keeps the invariant, and what it throws away is explained.
LEMMA KeptArrive ==
    ASSUME LinkInv, KeptInv, NEW s \in Senders, Arrive(s)
    PROVE  /\ KeptInv'
           /\ \A d \in Receivers : Answered(d, up'[d], sent, heard, heard', wiped)
<1> DEFINE burst == Head(air[s])
           cells == burst.cells
<1>1. /\ sent \in Seq(Sent) /\ Heard(sent, heard) /\ Shaped
      /\ \A t \in Senders : Flight(t, queue[t], air[t], sent, heard)
      /\ \A d \in Receivers : Station(d, buffer_[d], up[d], sent, heard)
      /\ \A d \in Receivers : Retained(d, buffer_[d], sent, heard, wiped)
  BY DEF LinkInv, KeptInv
<1>2. /\ air[s] # << >> /\ air' = [air EXCEPT ![s] = Tail(@)]
      /\ UNCHANGED <<lossy, sent, queue, wiped>>
  BY DEF Arrive
<1>3. /\ air[s] \in Seq(Burst) /\ burst = air[s][1] /\ 1 \in 1 .. Len(air[s]) /\ Len(air[s]) \in Nat
  <2>1. air[s] \in Seq(Burst)
    BY <1>1 DEF Flight
  <2> QED
    BY <1>2, <2>1
<1>4. \A t \in Senders : \A b \in 1 .. Len(air'[t]) : Gapless(air'[t][b].cells, sent)
  <2> SUFFICES ASSUME NEW t \in Senders, NEW b \in 1 .. Len(air'[t])
               PROVE  Gapless(air'[t][b].cells, sent)
    OBVIOUS
  <2>1. CASE t = s
    <3>1. air'[t] = Tail(air[s])
      BY <2>1, <1>1, <1>2 DEF Shaped
    <3>2. air'[t][b] = air[s][b + 1] /\ b + 1 \in 1 .. Len(air[s])
      <4>1. /\ Len(air'[t]) = Len(air[s]) - 1
            /\ \A e \in 1 .. Len(air[s]) - 1 : air'[t][e] = air[s][e + 1]
        <5> DEFINE a == air[s]
        <5>1. a \in Seq(Burst) /\ a # << >> /\ air'[t] = Tail(a)
          BY <1>2, <1>3, <3>1
        <5> HIDE DEF a
        <5>2. Len(Tail(a)) = Len(a) - 1 /\ \A e \in 1 .. Len(a) - 1 : Tail(a)[e] = a[e + 1]
          BY <5>1
        <5> QED
          BY <5>1, <5>2 DEF a
      <4> QED
        BY <1>3, <4>1
    <3> QED
      BY <3>2 DEF KeptInv
  <2>2. CASE t # s
    <3>1. air'[t] = air[t]
      BY <2>2, <1>1, <1>2 DEF Shaped
    <3> QED
      BY <3>1 DEF KeptInv
  <2> QED
    BY <2>1, <2>2
<1>5. CASE burst.lost
  <2>1. UNCHANGED <<buffer_, up, heard>>
    BY <1>5 DEF Arrive
  <2>2. KeptInv'
    BY <1>2, <1>4, <2>1 DEF KeptInv
  <2>3. \A p \in DOMAIN sent : LastPart(sent, p) \in 1 .. LastPart(sent, p)
    BY <1>1, LastType
  <2> QED
    BY <2>1, <2>2, <2>3 DEF Answered
<1>6. CASE ~burst.lost
  <2>1. /\ buffer_' = [d \in Receivers |-> After(d, burst).buf]
        /\ up' = [d \in Receivers |-> After(d, burst).up]
    BY <1>6 DEF Arrive
  <2>2. heard' = HeardUpTo(heard, cells, Len(cells))
    BY <1>6, BurstHeard
  <2>3. /\ Line(s, cells, sent) /\ Gapless(cells, sent)
        /\ \A i \in 1 .. Len(cells) : Passed(heard, cells[i], sent)
    BY <1>1, <1>3 DEF Flight, KeptInv
  <2>4. ASSUME NEW d \in Receivers
        PROVE  /\ Retained(d, After(d, burst).buf, sent, heard', wiped)
               /\ Answered(d, After(d, burst).up, sent, heard, heard', wiped)
    <3>1. MaxPackets \in Nat
      BY LinkAssumption
    <3> HIDE DEF burst
    <3> QED
      BY <1>1, <2>2, <2>3, <3>1, BurstAnswers
  <2> HIDE DEF burst, cells
  <2> QED
    BY <1>2, <1>4, <2>1, <2>4 DEF KeptInv
<1> QED
  BY <1>5, <1>6

LEMMA KeptReset ==
    ASSUME LinkInv, KeptInv, NEW d \in Receivers, Reset(d)
    PROVE  KeptInv'
<1>1. /\ buffer_' = [buffer_ EXCEPT ![d] = {}] /\ wiped' = wiped \cup {c.pkt : c \in buffer_[d]}
      /\ UNCHANGED <<sent, queue, air, up, heard>>
  BY DEF Reset
<1>2. \A e \in Receivers : buffer_'[e] = IF e = d THEN {} ELSE buffer_[e]
  BY <1>1 DEF LinkInv, Shaped
<1>3. \A e \in Receivers : Retained(e, buffer_'[e], sent, heard, wiped')
  BY <1>1, <1>2 DEF KeptInv, Retained
<1> QED
  BY <1>1, <1>3 DEF KeptInv

LEMMA KeptStart == Init => KeptInv
<1> SUFFICES ASSUME Init PROVE KeptInv
  OBVIOUS
<1>1. /\ sent = << >> /\ queue = [s \in Senders |-> << >>] /\ air = [s \in Senders |-> << >>]
  BY DEF Init
<1>2. \A s \in Senders : Len(queue[s]) = 0 /\ Len(air[s]) = 0
  BY <1>1
<1> QED
  BY <1>1, <1>2 DEF KeptInv, Ends, Retained

LEMMA KeptStep == LinkInv /\ KeptInv /\ [Next]_vars => KeptInv'
<1> SUFFICES ASSUME LinkInv, KeptInv, [Next]_vars PROVE KeptInv'
  OBVIOUS
<1>1. ASSUME NEW s \in Senders, NEW d \in Receivers, NEW f \in Flows, NEW size \in Sizes,
             Send(s, d, f, size)
      PROVE  KeptInv'
  BY <1>1, KeptSend
<1>2. ASSUME NEW s \in Senders, NEW cn \in CellCounts, NEW lost \in {FALSE, lossy},
             Slot(s, cn, lost)
      PROVE  KeptInv'
  BY <1>2, KeptSlot
<1>3. ASSUME NEW s \in Senders, Arrive(s) PROVE KeptInv'
  BY <1>3, KeptArrive
<1>4. ASSUME NEW d \in Resets, Reset(d) PROVE KeptInv'
  BY <1>4, KeptReset, LinkAssumption
<1>5. CASE UNCHANGED vars
  BY <1>5 DEF vars, KeptInv
<1> QED
  BY <1>1, <1>2, <1>3, <1>4, <1>5 DEF Next

\* The buffer keeps what sendUp heard of a packet until its last cell: one all cells of
\* which arrived is thrown away only when the packet before it on the virtual channel
\* lost its last cell but not all of its cells, or a reset took some.
THEOREM DropsAreExplained == Spec => DropExplained
<1>1. ASSUME LinkInv, KeptInv, [Next]_vars
      PROVE  \A p \in DOMAIN sent :
               LET n == Frags(sent[p].length)
                   d == sent[p].dst
               IN  (n \notin heard[p] /\ heard'[p] = 1 .. n) =>
                     \/ p \in Range(up'[d])
                     \/ p \in wiped
                     \/ \E r \in 1 .. p - 1 :
                          /\ SameChannel(r, p)
                          /\ heard[r] # {} /\ Frags(sent[r].length) \notin heard[r]
                          /\ \A x \in r + 1 .. p - 1 :
                               SameChannel(x, p) => Frags(sent[x].length) \notin heard[x]
  <2> SUFFICES ASSUME NEW p \in DOMAIN sent, LastPart(sent, p) \notin heard[p],
                      heard'[p] = 1 .. LastPart(sent, p)
               PROVE  \/ p \in Range(up'[sent[p].dst]) \/ p \in wiped
                      \/ Explained(p, sent, heard)
    BY DEF LastPart, Explained, Same, SameChannel
  <2>1. sent \in Seq(Sent) /\ LastPart(sent, p) \in 1 .. LastPart(sent, p)
    BY <1>1, LastType DEF LinkInv
  <2>2. heard'[p] # heard[p]
    BY <2>1
  <2>3. ASSUME NEW s \in Senders, NEW d \in Receivers, NEW f \in Flows, NEW size \in Sizes,
               Send(s, d, f, size)
        PROVE  FALSE
    BY <1>1, <2>2, <2>3, SendStep DEF Grows
  <2>4. ASSUME NEW s \in Senders, Arrive(s)
        PROVE  p \in Range(up'[sent[p].dst]) \/ p \in wiped \/ Explained(p, sent, heard)
    <3>1. \A d \in Receivers : Answered(d, up'[d], sent, heard, heard', wiped)
      BY <1>1, <2>4, KeptArrive
    <3>2. sent[p].dst \in Receivers
      <4>1. sent[p] \in Sent
        BY <2>1
      <4> QED
        BY <4>1 DEF Sent
    <3> QED
      BY <3>1, <3>2 DEF Answered
  <2>5. \/ \E s \in Senders, d \in Receivers, f \in Flows, size \in Sizes : Send(s, d, f, size)
        \/ \E s \in Senders : Arrive(s)
    BY <1>1, <2>2 DEF Next, Slot, Reset, vars
  <2> QED
    BY <2>3, <2>4, <2>5
<1>2. Spec => []KeptInv
  BY KeptStart, KeptStep, LinkInvariant, PTL DEF Spec
<1> QED
  BY <1>1, <1>2, LinkInvariant, PTL DEF Spec, DropExplained
=============================================================================
