------------------------------ MODULE MpegLink -----------------------------
(***************************************************************************)
(* The MPEG/ULE link between the stations: LL/Mpeg (mpeg-encap.cc) packs   *)
(* IP packets, one behind the other, into 188-byte transport stream        *)
(* packets, one being filled for every next hop; a timer sends a packet    *)
(* that stays half empty.  The receiver collects the fragments of a packet *)
(* by sender until their lengths add up.                                   *)
(*                                                                         *)
(* A transport stream packet is called a cell here.  Abstracted: the next  *)
(* hop of a packet is the station that receives it; delay_ is 0; packets   *)
(* go up at once (the code schedules them with delay 0).  A burst that is  *)
(* dropped stays in the channel with lost = TRUE.                          *)
(*                                                                         *)
(* A cell is a copy of the packet it was opened for, IP priority included, *)
(* and waits in PrioFid by that priority.  What the link can promise       *)
(* depends on what a station sends: to one next hop or to several, with    *)
(* one priority or with several; the scripts settle that (Traffic).        *)
(***************************************************************************)
EXTENDS Integers, Sequences, FiniteSets, SequencesExt, PrioOps

CONSTANTS
    Senders, Receivers,   \* stations, by the id_ of their LL/Mpeg object
    Traffic,       \* the packets of each sender: <<next hop, IP priority, size>>;
                   \* an IP header is 20 bytes
    CellCounts,    \* cells that a granted timeslot has room for (cellno_)
    limit_,        \* of the link and of its interface queue
    N_QUEUES,      \* 100 in the code
    Losses,        \* whether bdrop_rate_ may be positive
    MaxPackets,    \* bound on the packets sent
    MaxAir         \* bound on the bursts of one sender in the channel

ASSUME LinkAssumption ==
    /\ Senders \cup Receivers \subseteq Nat
    /\ Traffic \in [Senders -> SUBSET (Receivers \X Nat \X (Nat \ 0 .. 19))]
    /\ CellCounts \subseteq Nat \ {0} /\ limit_ \in Nat /\ N_QUEUES \in Nat \ {0}
    /\ Losses \subseteq BOOLEAN /\ MaxPackets \in Nat /\ MaxAir \in Nat \ {0}

ULE_HDR_AND_CRC == 8
ULE_HDR   == 4
MAX_FRAGS == 10
SPACE     == 184     \* payload of a cell
Queues == 0 .. N_QUEUES - 1

\* All packets of the sender have one next hop; and one priority, too.
OneHop(s) == \A h, g \in Traffic[s] : h[1] = g[1]
Plain(s)  == OneHop(s) /\ \A h, g \in Traffic[s] : h[2] = g[2]
None   == << >>      \* a NULL buffer, for buffers that hold <<cell>>

VARIABLES
    lossy,      \* bdrop_rate_ > 0, set by the script before the run
    sent,       \* the packets given to the link: [src, dst, size, prio]
    tx_buffer,  \* cells being filled, per sender and queue: <<cell>> or None
    payload,    \* serial number of the sender's newest cell: insert_frag appends
                \* to the fragment list of that one, wherever it is
    timer,      \* queues whose timer runs, per sender
    queue,      \* interface queue of every sender: cells
    air,        \* bursts of every sender on their way
    rx_buffer,  \* per receiver and queue: <<[pkt, addr, length]>> or None
    up,         \* packets every receiver has passed to the network layer
    heard       \* history: bytes of each packet that reached some station

vars == <<lossy, sent, tx_buffer, payload, timer, queue, air, rx_buffer, up, heard>>
txvars == <<tx_buffer, payload, timer, queue>>

-----------------------------------------------------------------------------
Frag == [pkt : 1 .. MaxPackets, len : Nat]
Cell == [id : Nat, addr : Receivers, pid : Senders, pusi : {0, 1}, space : Nat,
         status : {0, 1}, frags : Seq(Frag), prio : Nat]

NoQueue == -1
\* get_queue: linear probing from the hash; NoQueue stands for abort().
GetQueue(buffer, addr) ==
    LET probe(i) == (addr + i) % N_QUEUES
        usable == {i \in Queues : \/ buffer[probe(i)] = None
                                  \/ buffer[probe(i)] # None /\ buffer[probe(i)][1].addr = addr}
    IN  IF usable = {} THEN NoQueue
        ELSE probe(CHOOSE i \in usable : \A j \in usable : i <= j)

Init ==
    /\ lossy \in Losses
    /\ sent = << >>
    /\ tx_buffer = [s \in Senders |-> [k \in Queues |-> None]]
    /\ payload = [s \in Senders |-> 0]
    /\ timer = [s \in Senders |-> {}]
    /\ queue = [s \in Senders |-> << >>]
    /\ air = [s \in Senders |-> << >>]
    /\ rx_buffer = [d \in Receivers |-> [k \in Queues |-> None]]
    /\ up = [d \in Receivers |-> << >>]
    /\ heard = << >>

-----------------------------------------------------------------------------
(* Sender.  r holds the buffers, payload, timer and queue of the sender.   *)

\* sendDown: the link's own limit, then that of DropTail.
SendDown(q, cell) ==
    IF Len(q) > limit_ \/ Len(q) + 1 >= limit_ THEN q ELSE InsertCell(q, cell)

\* new_dvb (and addr_ = dst, which follows every call of it): the cell is a copy
\* of the packet, whose destination and priority are those of h.
NewCellTimed(s, h, n) == [id |-> n, addr |-> h[1], pid |-> s, pusi |-> 0, space |-> SPACE,
                          status |-> 1, frags |-> << >>, prio |-> h[2]]
NewCell(s, h, n) == [id |-> n, addr |-> h[1], pid |-> s, pusi |-> 0, space |-> SPACE,
                     status |-> 0, frags |-> << >>, prio |-> h[2]]

SetPusiFree(c) == IF c.pusi = 0 THEN [c EXCEPT !.pusi = 1] ELSE c
SetPusi(c) == IF c.pusi = 0 THEN [c EXCEPT !.pusi = 1, !.space = @ - 1] ELSE c

\* payload->insert_frag: into the newest cell, that is being filled or waits in
\* the interface queue.  When it has left the queue its list was freed, and what
\* is written there is lost.
Grow(c, n, f) == IF c.id = n THEN [c EXCEPT !.frags = Append(@, f)] ELSE c
InsertFrag(r, p, len) ==
    LET f == [pkt |-> p, len |-> len]
    IN  [r EXCEPT !.tx = [k \in Queues |-> IF @[k] = None THEN None
                                           ELSE <<Grow(@[k][1], r.payload, f)>>],
                  !.q = [i \in DOMAIN @ |-> Grow(@[i], r.payload, f)]]

\* Cancel the timer, send the cell of queue k, empty the buffer.
Flush(r, k) ==
    [r EXCEPT !.timer = @ \ {k}, !.q = SendDown(@, r.tx[k][1]), !.tx[k] = None]

Open(r, k, c) == [r EXCEPT !.tx[k] = <<c>>, !.payload = c.id]

\* The loop of send_frags: full cells, the first with the room that was left.
FillCells(s, h, k, p, r0, psize) ==
    LET room0 == r0.tx[k][1].space
        n == IF psize > room0 THEN (psize - room0 + SPACE - 1) \div SPACE ELSE 0
        One(r, i) == Open(Flush(InsertFrag(r, p, r.tx[k][1].space), k), k, NewCell(s, h, r.payload + 1))
    IN  [r |-> FoldLeft(One, r0, [i \in 1 .. n |-> i]),
         rest |-> IF n = 0 THEN psize ELSE psize - room0 - (n - 1) * SPACE]

NoRoom(c) == c.space < ULE_HDR + (IF c.pusi = 0 THEN 1 ELSE 0)

\* The rest of the packet, and what becomes of its cell.
Finish(r0, k, p, rest) ==
    LET r == InsertFrag(r0, p, rest)
        c == [r.tx[k][1] EXCEPT !.space = @ - rest]
    IN  IF NoRoom(c) THEN Flush([r EXCEPT !.tx[k] = <<c>>], k)
        ELSE IF c.status = 0
        THEN [r EXCEPT !.tx[k] = <<[c EXCEPT !.status = 1]>>, !.timer = @ \cup {k}]
        ELSE [r EXCEPT !.tx[k] = <<c>>]

\* MpegLL::recv of a packet on its way down (send_frags).
Send(s, h) ==
    LET k == GetQueue(tx_buffer[s], h[1])
        p == Len(sent) + 1
        r0 == [tx |-> tx_buffer[s], payload |-> payload[s], timer |-> timer[s], q |-> queue[s]]
        r1 == IF r0.tx[k] = None THEN Open(r0, k, SetPusi(NewCell(s, h, r0.payload + 1))) ELSE r0
        filled == FillCells(s, h, k, p, r1, h[3] + ULE_HDR_AND_CRC)
        r == Finish(filled.r, k, p, filled.rest)
    IN  /\ p <= MaxPackets /\ s # h[1]
        /\ k # NoQueue                  \* else the program aborts
        /\ sent' = Append(sent, [src |-> s, dst |-> h[1], size |-> h[3], prio |-> h[2]])
        /\ heard' = Append(heard, 0)
        /\ tx_buffer' = [tx_buffer EXCEPT ![s] = r.tx]
        /\ payload' = [payload EXCEPT ![s] = r.payload]
        /\ timer' = [timer EXCEPT ![s] = r.timer]
        /\ queue' = [queue EXCEPT ![s] = r.q]
        /\ UNCHANGED <<lossy, air, rx_buffer, up>>

\* handle_timer: pack_thresh has passed.
Timeout(s, k) ==
    /\ k \in timer[s]
    /\ timer' = [timer EXCEPT ![s] = @ \ {k}]
    /\ queue' = [queue EXCEPT ![s] = SendDown(@, tx_buffer[s][k][1])]
    /\ tx_buffer' = [tx_buffer EXCEPT ![s][k] = None]
    /\ UNCHANGED <<lossy, sent, payload, air, rx_buffer, up, heard>>

\* MacTdmaDama::slotHandler: a burst of at most cn cells.
Slot(s, cn, lost) ==
    LET n == IF Len(queue[s]) < cn THEN Len(queue[s]) ELSE cn
    IN  /\ n > 0 /\ Len(air[s]) < MaxAir
        /\ air' = [air EXCEPT ![s] =
                     Append(@, [lost |-> lost, cells |-> SubSeq(queue[s], 1, n)])]
        /\ queue' = [queue EXCEPT ![s] = SubSeq(@, n + 1, Len(@))]
        /\ UNCHANGED <<lossy, sent, tx_buffer, payload, timer, rx_buffer, up, heard>>

-----------------------------------------------------------------------------
(* Receiver *)

\* The buffer of this sender goes on with fragment f, or starts with it.
CollectAny(b, f, pid) ==
    <<[pkt |-> f.pkt, addr |-> pid, length |-> (IF b # None THEN b[1].length ELSE 0) + f.len]>>
Collect(b, f, pid) ==
    <<[pkt |-> f.pkt, addr |-> pid,
       length |-> (IF b # None /\ b[1].pkt = f.pkt THEN b[1].length ELSE 0) + f.len]>>

\* sendUp for one fragment in queue k of the receiver.
TakeFrag(r, f, k, pid) ==
    LET b == Collect(r.rx[k], f, pid)
    IN  IF b[1].length = sent[f.pkt].size + ULE_HDR_AND_CRC
        THEN [rx |-> [r.rx EXCEPT ![k] = None], up |-> Append(r.up, f.pkt)]
        ELSE [r EXCEPT !.rx[k] = b]

TakeCell(r, c) ==
    LET k == GetQueue(r.rx, c.pid)
        Take(x, f) == TakeFrag(x, f, k, c.pid)
    IN  FoldLeft(Take, r, c.frags)

After(d, burst) ==
    FoldLeft(LAMBDA r, c : IF c.addr = d THEN TakeCell(r, c) ELSE r,
             [rx |-> rx_buffer[d], up |-> up[d]], burst.cells)

BytesOf(p, c) == FoldLeft(LAMBDA m, f : IF f.pkt = p THEN m + f.len ELSE m, 0, c.frags)
HeardOf(p, burst) == FoldLeft(LAMBDA n, c : n + BytesOf(p, c), 0, burst.cells)

\* MacTdmaDama::sendUp passes the cells of a burst that are for this station.
Arrive(s) ==
    LET burst == Head(air[s])
    IN  /\ air[s] # << >>
        /\ air' = [air EXCEPT ![s] = Tail(@)]
        /\ IF burst.lost
           THEN UNCHANGED <<rx_buffer, up, heard>>
           ELSE /\ rx_buffer' = [d \in Receivers |-> After(d, burst).rx]
                /\ up' = [d \in Receivers |-> After(d, burst).up]
                /\ heard' = [p \in DOMAIN heard |-> heard[p] + HeardOf(p, burst)]
        /\ UNCHANGED <<lossy, sent, txvars>>

Next ==
    \/ \E s \in Senders : \E h \in Traffic[s] : Send(s, h)
    \/ \E s \in Senders, k \in Queues : Timeout(s, k)
    \/ \E s \in Senders, cn \in CellCounts, lost \in {FALSE, lossy} : Slot(s, cn, lost)
    \/ \E s \in Senders : Arrive(s)

Spec == Init /\ [][Next]_vars

\* Timers expire, a sender is granted timeslots for ever, and the channel always
\* runs empty again: what is in it arrives.
FairSpec ==
    /\ Spec
    /\ \A s \in Senders :
         /\ \A k \in Queues : WF_vars(Timeout(s, k))
         /\ WF_vars(\E cn \in CellCounts, lost \in {FALSE, lossy} : Slot(s, cn, lost))
         /\ []<>(air[s] = << >>)
-----------------------------------------------------------------------------
(* Properties *)

\* Types of the state; checked with CellSound.
TypeOK ==
    /\ lossy \in Losses
    /\ sent \in Seq([src : Senders, dst : Receivers, size : Nat, prio : Nat])
    /\ \A s \in Senders : \A k \in Queues :
         (tx_buffer[s][k] # None) =>
            (tx_buffer[s][k] \in Seq(Cell) /\ Len(tx_buffer[s][k]) = 1)
    /\ payload \in [Senders -> Nat]
    /\ timer \in [Senders -> SUBSET Queues]
    /\ queue \in [Senders -> Seq(Cell)]
    /\ air \in [Senders -> Seq([lost : BOOLEAN, cells : Seq(Cell)])]
    /\ \A d \in Receivers : \A k \in Queues :
         (rx_buffer[d][k] # None) =>
            rx_buffer[d][k][1] \in [pkt : DOMAIN sent, addr : Senders, length : Nat]
    /\ up \in [Receivers -> Seq(DOMAIN sent)]
    /\ heard \in [DOMAIN sent -> Nat]

CellsOf(s) ==
    {tx_buffer[s][k][1] : k \in {x \in Queues : tx_buffer[s][x] # None}}
      \cup Range(queue[s]) \cup UNION {Range(air[s][i].cells) : i \in DOMAIN air[s]}
Contents(c) == FoldLeft(LAMBDA n, f : n + f.len, 0, c.frags)

\* The timer runs for the cells being filled and for no other, so that none is left
\* behind and handle_timer never sends a NULL buffer.  When all packets of a sender
\* have one next hop, a cell of its holds what dvb_space_ says it holds, at most 184
\* bytes with its payload pointer, in at most MAX_FRAGS fragments: frag[] is written
\* without a check.
CellSound ==
    /\ TypeOK
    /\ \A s \in Senders : timer[s] = {k \in Queues : tx_buffer[s][k] # None}
    /\ \A s \in Senders : OneHop(s) => \A c \in CellsOf(s) :
         /\ Len(c.frags) <= MAX_FRAGS
         /\ Contents(c) + c.pusi <= SPACE
         /\ (\E k \in Queues : tx_buffer[s][k] = <<c>>) =>
               Contents(c) + c.pusi + c.space = SPACE

Whole(p) == heard[p] = sent[p].size + ULE_HDR_AND_CRC

\* The link keeps the promise of PacketLink to the senders with one next hop and one
\* priority: what goes up is a packet all bytes of which reached its station, and
\* those of one sender go up in order, none twice.
Link == INSTANCE PacketLink WITH
    Stations <- Receivers,
    Flows <- Senders,
    Kept <- {s \in Senders : Plain(s)},
    taken <- [p \in DOMAIN sent |-> [dst |-> sent[p].dst, flow |-> sent[p].src]],
    whole <- {p \in DOMAIN sent : Whole(p)}
KeepsPromise == Link!Spec

\* A packet whose last byte has reached the receiver is sent up at once: losses
\* before or behind it cost no packet that arrived whole.  So it is for the senders
\* with one next hop and one priority, whatever the other senders send.
WholeIsDelivered ==
    \A p \in DOMAIN sent :
        Plain(sent[p].src) /\ Whole(p) => p \in Range(up[sent[p].dst])

\* With packets of several priorities cells overtake each other in the queue, and a
\* packet may be thrown away.  But what goes up of a sender with one next hop is still
\* a packet all bytes of which reached its station, and it goes up once.
OnlyWholeGoesUp ==
    \A d \in Receivers : \A i \in DOMAIN up[d] :
        OneHop(sent[up[d][i]].src) =>
            /\ Whole(up[d][i]) /\ sent[up[d][i]].dst = d
            /\ \A j \in DOMAIN up[d] : up[d][i] = up[d][j] => i = j

\* Without losses every packet of a sender with one next hop and one priority goes up
\* in the end: a cell that stays half empty is sent when its timer expires.
EventuallyUp ==
    \A n \in 1 .. MaxPackets :
        (~lossy /\ n \in DOMAIN sent /\ Plain(sent[n].src))
            ~> (n \in DOMAIN sent /\ n \in Range(up[sent[n].dst]))
=============================================================================
