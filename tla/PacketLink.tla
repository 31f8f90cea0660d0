----------------------------- MODULE PacketLink -----------------------------
(***************************************************************************)
(* What every link of the satellite network promises to the network layer, *)
(* whatever bursts are lost: a packet is passed up at the station it is    *)
(* for, when all of it has arrived, at most once, and the packets of one   *)
(* flow in the order in which the link has taken them.  It does not        *)
(* promise that a packet arrives.  LL/Rle, LL/Atm and LL/Mpeg are shown to *)
(* implement it; the voice call runs on it.  LL/Mpeg makes the promise to  *)
(* some flows only (Kept), the others to all of them.                      *)
(***************************************************************************)
EXTENDS Integers, Sequences, SequencesExt

CONSTANTS
    Stations, Flows,
    Kept       \* the flows that the promise is made to

VARIABLES
    taken,     \* the packets the link has taken: [dst, flow]
    whole,     \* those all parts of which have reached their station
    up         \* the packets every station has passed to the network layer

Header == [dst : Stations, flow : Flows]

Init == taken = << >> /\ whole = {} /\ up = [d \in Stations |-> << >>]

Take(h) == taken' = Append(taken, h) /\ UNCHANGED <<whole, up>>

\* In s no packet is followed by one of its flow that was taken before it.
FlowsInOrder(s) ==
    \A i, j \in DOMAIN s :
        (i < j /\ taken[s[i]].flow \in Kept /\ taken[s[i]].flow = taken[s[j]].flow) => s[i] < s[j]

\* Something arrives: parts of packets, and with the last ones the packets.
Arrive ==
    /\ UNCHANGED taken
    /\ whole \subseteq whole' /\ whole' \subseteq DOMAIN taken
    /\ DOMAIN up' = Stations
    /\ \A d \in Stations :
         /\ IsPrefix(up[d], up'[d])
         /\ \A p \in Range(up'[d]) :
               taken[p].flow \in Kept => p \in whole' /\ taken[p].dst = d
         /\ FlowsInOrder(up'[d])

Next == (\E h \in Header : Take(h)) \/ Arrive

Spec == Init /\ [][Next]_<<taken, whole, up>>
=============================================================================
