------------------------------ MODULE PrioOps ------------------------------
(***************************************************************************)
(* What PacketQueueFid::enque (prio_fid.cc) does to the queue, seen as a   *)
(* sequence of packets: p goes behind every packet of its own or of a more *)
(* urgent priority (a smaller number), and before the first less urgent    *)
(* one.  PrioFid shows that the linked list of the code implements this.   *)
(***************************************************************************)
EXTENDS Integers, Sequences

PutBehind(q, p, k) == SubSeq(q, 1, k) \o <<p>> \o SubSeq(q, k + 1, Len(q))

\* How many packets a packet of priority x goes behind, when prios are the
\* priorities of the packets in the queue.
RankBefore(prios, x) ==
    CHOOSE k \in 0 .. Len(prios) :
        /\ \A i \in 1 .. k : prios[i] < x
        /\ k = Len(prios) \/ prios[k + 1] >= x
Rank(prios, x) ==
    CHOOSE k \in 0 .. Len(prios) :
        /\ \A i \in 1 .. k : prios[i] <= x
        /\ k = Len(prios) \/ prios[k + 1] > x

\* For a queue of packets whose priorities are in prio, and one of records.
Insert(q, p, prio) == PutBehind(q, p, Rank([i \in DOMAIN q |-> prio[q[i]]], prio[p]))
InsertCell(q, c) == PutBehind(q, c, Rank([i \in DOMAIN q |-> q[i].prio], c.prio))
=============================================================================
