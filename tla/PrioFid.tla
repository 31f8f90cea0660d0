------------------------------ MODULE PrioFid ------------------------------
(***************************************************************************)
(* The interface queue Queue/DropTail/PrioFid (prio_fid.cc) as the linked  *)
(* list it is: PacketQueueFid::enque links a packet in, deque() and        *)
(* remove() of the simulator's PacketQueue take packets out, and a packet  *)
(* keeps whatever next_ pointer it had in the last queue it was in; the    *)
(* pointer of the last packet is never cleared.                            *)
(***************************************************************************)
EXTENDS Integers, Sequences, FiniteSets, SequencesExt, PrioOps

CONSTANTS
    Packets,       \* packets, numbered from 1
    prio,          \* IP priority of each
    qlim_         \* the queue takes a packet only below this length

ASSUME QueueAssumption ==
    /\ Packets \subseteq Nat \ {0} /\ IsFiniteSet(Packets)
    /\ prio \in [Packets -> Nat] /\ qlim_ \in Nat

NULL == 0

VARIABLES
    head_, tail_, len_,
    next_,         \* next_ pointer of every packet, in this queue or not
    arrival,       \* history: the packets of the queue as they came in
    served         \* history: the packet dequeued last

listvars == <<head_, tail_, len_, next_, arrival, served>>

\* The n-th packet after head_, following the pointers wherever they lead.
Walk == LET at[n \in 0 .. Cardinality(Packets)] ==
                IF n = 0 THEN head_ ELSE IF at[n - 1] = NULL THEN NULL ELSE next_[at[n - 1]]
        IN  at

\* p is no longer among the waiting packets.
Leave(p) == \E i \in DOMAIN arrival : arrival[i] = p /\ arrival' = RemoveAt(arrival, i)

InQueue == {Walk[n] : n \in 0 .. len_ - 1}
Outside == Packets \ Range(arrival)

ListInit ==
    /\ head_ = NULL /\ tail_ = NULL /\ len_ = 0
    /\ next_ = [p \in Packets |-> NULL]
    /\ arrival = << >> /\ served = NULL

-----------------------------------------------------------------------------
\* Whether the packet goes behind the tail, and which packet it must precede.
GoesLastOfHead(p) == prio[head_] <= prio[p]
GoesLast(p) == prio[tail_] <= prio[p]
StopsAtEqual(x, p) == prio[x] >= prio[p]
Stops(x, p) == prio[x] > prio[p]

LinkLastKeepsTail(p) == next_' = [next_ EXCEPT ![tail_] = p] /\ UNCHANGED <<head_, tail_>>
LinkLast(p) ==
    /\ next_' = [next_ EXCEPT ![tail_] = p]
    /\ tail_' = p
    /\ UNCHANGED head_

LinkBefore(p) ==
    LET k == CHOOSE n \in DOMAIN Walk :
                /\ Stops(Walk[n], p)
                /\ \A m \in 0 .. n - 1 : ~Stops(Walk[m], p)
    IN  /\ IF k > 0
           THEN /\ next_' = [next_ EXCEPT ![Walk[k - 1]] = p, ![p] = Walk[k]]
                /\ UNCHANGED head_
           ELSE next_' = [next_ EXCEPT ![p] = Walk[k]] /\ head_' = p
        /\ UNCHANGED tail_

\* PacketQueueFid::enque, called by DropTail::enque when there is room.
Enque(p) ==
    /\ p \in Outside /\ len_ + 1 < qlim_
    /\ len_' = len_ + 1
    /\ arrival' = Append(arrival, p)
    /\ \/ tail_ = NULL /\ head_' = p /\ tail_' = p /\ UNCHANGED next_
       \/ tail_ # NULL /\ GoesLast(p) /\ LinkLast(p)
       \/ tail_ # NULL /\ ~GoesLast(p) /\ LinkBefore(p)
    /\ UNCHANGED served

\* PacketQueue::deque of the simulator (and remove() of the first packet).
Deque ==
    /\ head_ # NULL
    /\ IF head_ = tail_ THEN head_' = NULL /\ tail_' = NULL
                        ELSE head_' = next_[head_] /\ UNCHANGED tail_
    /\ len_' = len_ - 1
    /\ Leave(head_)
    /\ served' = head_
    /\ UNCHANGED next_

\* PacketQueue::remove of the simulator, for a packet behind the head.
Unlink(p) ==
    \E n \in 1 .. len_ - 1 :
        /\ Walk[n] = p
        /\ next_' = [next_ EXCEPT ![Walk[n - 1]] = next_[p]]
        /\ tail_' = IF p = tail_ THEN Walk[n - 1] ELSE tail_
        /\ len_' = len_ - 1
        /\ Leave(p)
        /\ UNCHANGED <<head_, served>>

\* A packet outside this queue passes through another one.
Elsewhere(p, n) ==
    /\ p \in Outside
    /\ next_' = [next_ EXCEPT ![p] = n]
    /\ UNCHANGED <<head_, tail_, len_, arrival, served>>

ListNext ==
    \/ \E p \in Packets : Enque(p)
    \/ Deque
    \/ \E p \in Packets : Unlink(p)
    \/ \E p \in Packets, n \in Packets \cup {NULL} : Elsewhere(p, n)

ListSpec == ListInit /\ [][ListNext]_listvars

-----------------------------------------------------------------------------
(* Properties *)

\* The pointers lead from head_ to tail_ through len_ different packets, those
\* that came and did not leave: no packet is lost or reached twice, although
\* stale pointers hang off the tail and off packets outside.
ListSound ==
    /\ len_ = Len(arrival)
    /\ (head_ = NULL) <=> (tail_ = NULL)
    /\ (len_ = 0) <=> (head_ = NULL)
    /\ (len_ > 0) => /\ Walk[len_ - 1] = tail_
                     /\ InQueue = Range(arrival)
                     /\ Cardinality(InQueue) = len_

\* The list as a sequence.
List == [i \in 1 .. len_ |-> Walk[i - 1]]

\* Linking a packet in is Insert of PrioOps on that sequence.
EnqueInserts ==
    [][\A p \in Packets : (arrival' = Append(arrival, p)) =>
          List' = Insert(List, p, prio)]_listvars

\* The list implements the queue that serves the most urgent packet first, and
\* the oldest of those.
Abstract == INSTANCE PrioQueue WITH limit_ <- qlim_
ServesInOrder == Abstract!QueueSpec
=============================================================================
