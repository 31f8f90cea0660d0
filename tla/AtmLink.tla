------------------------------ MODULE AtmLink ------------------------------
(***************************************************************************)
(* The ATM/AAL5 link between the stations: LL/Atm (atm-encap.cc) cuts      *)
(* every IP packet into 53-byte cells, all of which go to the priority     *)
(* queue of the station or none, and puts the cells of a virtual channel   *)
(* together again; Mac/TdmaDama (mac-tdmadama.cc) takes as many cells as a *)
(* timeslot holds from the queue, and the physical layer drops whole       *)
(* bursts with probability bdrop_rate_.                                    *)
(*                                                                         *)
(* Abstracted: a cell is a record of the header fields that matter; pkt    *)
(* and part say which part of which packet it is (every cell really is a   *)
(* copy of the packet).  The packet is passed up at once: the code         *)
(* schedules the delivery with delay 0.  A burst that is dropped stays in  *)
(* the channel with lost = TRUE; bursts of a sender arrive in order, at    *)
(* all stations in one step.                                               *)
(***************************************************************************)
EXTENDS Integers, Sequences, FiniteSets, SequencesExt, PrioOps

CONSTANTS
    Senders, Receivers,  \* numbers (id_) of the LL/Atm objects at both ends
    Flows,         \* flow identifiers; a flow has one IP priority
    flowprio,      \* the priority of each
    Sizes,         \* sizes of IP packets
    CellCounts,    \* cells that a granted timeslot has room for (cellno_)
    limit_,        \* of the interface queue
    Losses,        \* whether bdrop_rate_ may be positive
    Resets,        \* receivers that a script may reset
    MaxPackets,    \* bound on the packets sent
    MaxAir         \* bound on the bursts of one sender in the channel

ASSUME LinkAssumption ==
    /\ Senders \cup Receivers \subseteq Nat /\ Flows \subseteq 0 .. 7
    /\ flowprio \in [Flows -> Nat] /\ Sizes \subseteq Nat \ {0}
    /\ CellCounts \subseteq Nat \ {0} /\ limit_ \in Nat
    /\ Losses \subseteq BOOLEAN /\ Resets \subseteq Receivers
    /\ MaxPackets \in Nat /\ MaxAir \in Nat \ {0}

ATM_TRL_LEN == 8
ATM_PRIO_NO == 8

VARIABLES
    lossy,     \* bdrop_rate_ > 0, set by the script before the run
    sent,      \* history: the packets accepted, as [src, dst, vc, length]
    queue,     \* interface queue of every sender: cells
    air,       \* bursts of every sender on their way
    buffer_,   \* reassembly buffer of every receiver: a set, as no cell comes twice
    up,        \* packets every receiver has passed to the network layer
    heard,     \* history: the parts of each packet that reached its receiver
    wiped      \* history: packets some cells of which a reset threw away

vars == <<lossy, sent, queue, air, buffer_, up, heard, wiped>>

-----------------------------------------------------------------------------
Cell == [pkt : 1 .. MaxPackets, part : Nat, pt : {0, 1}, addr : Nat, length : Nat,
         dst : Receivers, prio : Nat]

\* AAL5: the packet and an 8-byte trailer, padded to a multiple of 48 bytes.
\* send_frags and sendUp both compute the number of cells.
SendFrags(size) == (size + ATM_TRL_LEN + 47) \div 48
Frags(length) == (length + ATM_TRL_LEN + 47) \div 48

Addr(s, flow) == s * ATM_PRIO_NO + flow

Init ==
    /\ lossy \in Losses
    /\ sent = << >>
    /\ queue = [s \in Senders |-> << >>]
    /\ air = [s \in Senders |-> << >>]
    /\ buffer_ = [d \in Receivers |-> {}]
    /\ up = [d \in Receivers |-> << >>]
    /\ heard = << >>
    /\ wiped = {}

-----------------------------------------------------------------------------
\* send_frags asks whether all cells fit; DropTail takes a cell below its limit.
RoomForOne(q, n) == Len(q) + 1 < limit_
Room(q, n) == Len(q) + n < limit_

TakeCell(q, c) == IF Len(q) + 1 < limit_ THEN InsertCell(q, c) ELSE q

\* AtmLL::recv of a packet on its way down.
Send(s, d, flow, size) ==
    LET n == SendFrags(size)
        p == Len(sent) + 1
        cells == [i \in 1 .. n |->
                    [pkt |-> p, part |-> i, pt |-> IF i = n THEN 1 ELSE 0,
                     addr |-> Addr(s, flow), length |-> size, dst |-> d,
                     prio |-> flowprio[flow]]]
    IN  /\ p <= MaxPackets /\ s # d
        /\ Room(queue[s], n)            \* else the packet is dropped
        /\ sent' = Append(sent, [src |-> s, dst |-> d, vc |-> Addr(s, flow), length |-> size])
        /\ heard' = Append(heard, {})
        /\ queue' = [queue EXCEPT ![s] = FoldLeft(TakeCell, @, cells)]
        /\ UNCHANGED <<lossy, air, buffer_, up, wiped>>

\* MacTdmaDama::slotHandler: a burst of at most cn cells.
Slot(s, cn, lost) ==
    LET n == IF Len(queue[s]) < cn THEN Len(queue[s]) ELSE cn
    IN  /\ n > 0 /\ Len(air[s]) < MaxAir
        /\ air' = [air EXCEPT ![s] =
                     Append(@, [lost |-> lost, cells |-> SubSeq(queue[s], 1, n)])]
        /\ queue' = [queue EXCEPT ![s] = SubSeq(@, n + 1, Len(@))]
        /\ UNCHANGED <<lossy, sent, buffer_, up, heard, wiped>>

\* AtmLL::sendUp for one cell; r holds the buffer and what was sent up.
PurgeNone(buf, vc) == buf
Purge(buf, vc) == {c \in buf : c.addr # vc}

Complete(buf, c) == 1 + Cardinality(buf \ Purge(buf, c.addr)) = Frags(c.length)

PurgesIfComplete(r, c) ==
    IF c.pt = 0 THEN [r EXCEPT !.buf = @ \cup {c}]
    ELSE IF Complete(r.buf, c)
         THEN [buf |-> Purge(r.buf, c.addr), up |-> Append(r.up, c.pkt)] ELSE r
Reassemble(r, c) ==
    IF c.pt = 0
    THEN [r EXCEPT !.buf = @ \cup {c}]
    ELSE [buf |-> Purge(r.buf, c.addr),
          up |-> IF Complete(r.buf, c) THEN Append(r.up, c.pkt) ELSE r.up]

\* MacTdmaDama::sendUp passes the cells of a burst that are for this station.
ForMe(d, r, c) == IF c.dst = d THEN Reassemble(r, c) ELSE r
After(d, burst) ==
    FoldLeft(LAMBDA r, c : ForMe(d, r, c), [buf |-> buffer_[d], up |-> up[d]], burst.cells)

Arrive(s) ==
    LET burst == Head(air[s])
    IN  /\ air[s] # << >>
        /\ air' = [air EXCEPT ![s] = Tail(@)]
        /\ IF burst.lost
           THEN UNCHANGED <<buffer_, up, heard>>
           ELSE /\ buffer_' = [d \in Receivers |-> After(d, burst).buf]
                /\ up' = [d \in Receivers |-> After(d, burst).up]
                /\ heard' = [p \in DOMAIN heard |->
                     heard[p] \cup {c.part : c \in {x \in Range(burst.cells) : x.pkt = p}}]
        /\ UNCHANGED <<lossy, sent, queue, wiped>>

\* AtmLL::reset
Reset(d) ==
    /\ buffer_' = [buffer_ EXCEPT ![d] = {}]
    /\ wiped' = wiped \cup {c.pkt : c \in buffer_[d]}
    /\ UNCHANGED <<lossy, sent, queue, air, up, heard>>

Next ==
    \/ \E s \in Senders, d \in Receivers, f \in Flows, size \in Sizes : Send(s, d, f, size)
    \/ \E s \in Senders, cn \in CellCounts, lost \in {FALSE, lossy} : Slot(s, cn, lost)
    \/ \E s \in Senders : Arrive(s)
    \/ \E d \in Resets : Reset(d)

Spec == Init /\ [][Next]_vars

\* A sender is granted timeslots for ever, and the channel always delivers.
FairSpec ==
    /\ Spec
    /\ \A s \in Senders : WF_vars(\E cn \in CellCounts, lost \in {FALSE, lossy} : Slot(s, cn, lost))
    /\ \A s \in Senders : WF_vars(Arrive(s))

-----------------------------------------------------------------------------
(* Properties *)

\* Types of the state; checked with BufferCurrent.
TypeOK ==
    /\ lossy \in Losses
    /\ sent \in Seq([src : Senders, dst : Receivers, vc : Nat, length : Sizes])
    /\ queue \in [Senders -> Seq(Cell)]
    /\ air \in [Senders -> Seq([lost : BOOLEAN, cells : Seq(Cell)])]
    /\ buffer_ \in [Receivers -> SUBSET Cell]
    /\ up \in [Receivers -> Seq(DOMAIN sent)]
    /\ DOMAIN heard = DOMAIN sent
    /\ \A p \in DOMAIN sent : heard[p] \subseteq 1 .. Frags(sent[p].length)
    /\ wiped \subseteq DOMAIN sent

InChannel(s) == UNION {Range(air[s][i].cells) : i \in DOMAIN air[s]}

\* The check of send_frags and the limit of the queue agree: of a packet the
\* queue takes all cells or none.
AllOrNone ==
    ~lossy => \A p \in DOMAIN sent : \A i \in 1 .. Frags(sent[p].length) :
        \/ i \in heard[p]
        \/ \E s \in Senders : \E c \in Range(queue[s]) \cup InChannel(s) :
              c.pkt = p /\ c.part = i

\* All cells of p arrived, or those that are missing were made up for by an earlier
\* packet of the virtual channel whose last cell, and that of every packet in
\* between, was lost: as far as counting cells can tell, p is complete.
SameChannel(x, p) == sent[x].vc = sent[p].vc /\ sent[x].dst = sent[p].dst
Counted(p) ==
    LET n == Frags(sent[p].length)
    IN  \/ heard[p] = 1 .. n
        \/ /\ n \in heard[p]
           /\ \E r \in 1 .. p - 1 :
                /\ SameChannel(r, p) /\ heard[r] # {}
                /\ \A x \in r .. p - 1 :
                     SameChannel(x, p) => Frags(sent[x].length) \notin heard[x]

\* "packet complete => send it up" (atm-encap.cc): the link keeps the promise of
\* PacketLink for packets that are complete as far as it can count.
Link == INSTANCE PacketLink WITH
    Stations <- Receivers,
    Flows <- {Addr(s, f) : s \in Senders, f \in Flows},
    Kept <- {Addr(s, f) : s \in Senders, f \in Flows},
    taken <- [p \in DOMAIN sent |-> [dst |-> sent[p].dst, flow |-> sent[p].vc]],
    whole <- {p \in DOMAIN sent : Counted(p)}
KeepsPromise == Link!Spec

\* "This happens if a previous PT==1 was lost" (atm-encap.cc): a packet all cells
\* of which arrived is thrown away only if the one before it on the virtual
\* channel lost its last cell but not all of its cells, or a reset took some.
DropExplained ==
    [][\A p \in DOMAIN sent :
         LET n == Frags(sent[p].length)
             d == sent[p].dst
         IN  (n \notin heard[p] /\ heard'[p] = 1 .. n) =>
               \/ p \in Range(up'[d])
               \/ p \in wiped
               \/ \E r \in 1 .. p - 1 :
                    /\ SameChannel(r, p)
                    /\ heard[r] # {} /\ Frags(sent[r].length) \notin heard[r]
                    /\ \A x \in r + 1 .. p - 1 :
                         SameChannel(x, p) => Frags(sent[x].length) \notin heard[x]]_vars

\* No leftovers: a cell in the buffer belongs to the packet that its virtual
\* channel is sending, or to one whose last cell was lost.
BufferCurrent ==
    /\ TypeOK
    /\ \A d \in Receivers : \A c \in buffer_[d] :
         \A p \in DOMAIN sent :
            (p >= c.pkt /\ sent[p].vc = c.addr /\ sent[p].dst = d)
            => Frags(sent[p].length) \notin heard[p]

\* Without losses a packet the queue has taken is sent up in the end, unless a
\* reset takes it.
EventuallyUp ==
    \A n \in 1 .. MaxPackets :
        (~lossy /\ n \in DOMAIN sent)
          ~> (n \in DOMAIN sent /\ n \in Range(up[sent[n].dst]) \cup wiped)
=============================================================================
