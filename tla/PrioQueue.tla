----------------------------- MODULE PrioQueue -----------------------------
(***************************************************************************)
(* What an interface queue of class Queue/DropTail/PrioFid promises: of    *)
(* the packets that wait, the most urgent ones (smallest IP priority) are  *)
(* served first, and packets of one priority in the order of their         *)
(* arrival.                                                                *)
(***************************************************************************)
EXTENDS Integers, Sequences, SequencesExt

CONSTANTS Packets, prio, limit_

VARIABLES
    arrival,     \* the waiting packets in the order in which they came
    served       \* the packet taken out last, NoPacket if none

NoPacket == 0

\* The packet to be served: nobody more urgent waits, nor an older equal one.
First(p) ==
    \E i \in DOMAIN arrival :
        /\ arrival[i] = p
        /\ \A j \in DOMAIN arrival : IF j < i THEN prio[arrival[j]] > prio[p]
                                              ELSE prio[arrival[j]] >= prio[p]

Leave(p) == \E i \in DOMAIN arrival : arrival[i] = p /\ arrival' = RemoveAt(arrival, i)

QueueInit == arrival = << >> /\ served = NoPacket

Accept(p) ==
    /\ p \notin Range(arrival) /\ Len(arrival) + 1 < limit_
    /\ arrival' = Append(arrival, p)
    /\ UNCHANGED served

Serve(p) == First(p) /\ Leave(p) /\ served' = p

\* Somebody else takes a packet out of the middle.
Withdraw(p) == p \in Range(arrival) /\ Leave(p) /\ UNCHANGED served

QueueNext == \E p \in Packets : Accept(p) \/ Serve(p) \/ Withdraw(p)

QueueSpec == QueueInit /\ [][QueueNext]_<<arrival, served>>
=============================================================================
