------------------------------ MODULE RleLink ------------------------------
(***************************************************************************)
(* The RLE link between the stations of the satellite network: LL/Rle      *)
(* (rle-encap.cc) hands IP packets to the priority queue of the station,   *)
(* Mac/Rle (mac-rle.cc) fills every timeslot it is granted with whole      *)
(* packets and at most one fragment, and puts the fragments together again *)
(* in one context per sender and priority at the receiver.  The physical   *)
(* layer drops whole bursts with probability bdrop_rate_.                  *)
(*                                                                         *)
(* Abstracted: slot_num_ and index_ of a station are one number; packets   *)
(* are numbered in the order in which the link accepts them, and their     *)
(* contents is their length.  A burst that is dropped stays in the channel *)
(* with lost = TRUE.  Bursts of one sender arrive in the order in which    *)
(* they were sent (the delay is fixed), at all stations in one step.       *)
(***************************************************************************)
EXTENDS Integers, Sequences, FiniteSets, SequencesExt, PrioOps

CONSTANTS
    Stations,      \* terminals and hub, by slot number
    Senders, Receivers,   \* those that send, and that are sent to
    Prios,         \* IP priorities in use; more than 7 aborts the program
    Sizes,         \* sizes of IP packets, ALPDU header included
    BurstSizes,    \* sizes of the timeslots a sender may be granted
    limit_,        \* of the interface queue
    SeqnoMod,      \* 2^8: next[] and exp_sn are unsigned char
    LeftLen,       \* what a context's len may hold before its first use (it is not
                   \* initialised), or have kept from a packet that was dropped
    Losses,        \* whether bdrop_rate_ may be positive
    StartSeqnos,   \* fragmented packets sent, per priority, before the run
    MaxPackets,    \* bound on the packets sent
    MaxAir         \* bound on the bursts of one sender in the channel

ASSUME LinkAssumption ==
    /\ Stations \subseteq Nat /\ Senders \cup Receivers \subseteq Stations
    /\ Prios \subseteq 0 .. 7
    /\ Sizes \subseteq Nat \ {0} /\ BurstSizes \subseteq Nat \ 0 .. 2
    /\ limit_ \in Nat /\ SeqnoMod \in Nat \ {0} /\ LeftLen \subseteq Nat
    /\ Losses \subseteq BOOLEAN /\ StartSeqnos \subseteq 0 .. SeqnoMod - 1 \ {1}
    /\ MaxPackets \in Nat /\ MaxAir \in Nat \ {0}

FHS == 2
PHS == 2
TS  == 1
MAX_CNTS == 512
START == 2      \* the bits of start_end
END   == 1
NULL  == 0      \* packets are numbered from 1

VARIABLES
    lossy,    \* bdrop_rate_ > 0, set by the script before the run
    pkts,     \* pkts[p]: the link header of packet p; survives the packet
    queue,    \* interface queue of every station
    next,     \* sequence number of the next closing fragment, per frag_id
    air,      \* bursts of every sender on their way
    ctx,      \* reassembly contexts of every station
    up,       \* packets every station has passed to the network layer
    heard,    \* history: bytes of each packet that reached its receiver
    gap,      \* history: since the last closing fragment a context has seen, it
              \* missed one (lost, or meant for somebody else) of a packet of
              \* which it does not even hold the beginning
    inGap     \* history: packets whose closing fragment came after such a gap

vars == <<lossy, pkts, queue, next, air, ctx, up, heard, gap, inGap>>

-----------------------------------------------------------------------------
Packet == [src : Senders, dst : Receivers, frag_id : Prios, total_length : Nat,
           psize : Nat, start_end : SUBSET {START, END}]
Frag   == [start_end : SUBSET {START, END}, frag_id : Prios, length : Nat,
           seqno : 0 .. SeqnoMod - 1, alpdu : 1 .. MaxPackets]

Succ(n) == (n + 1) % SeqnoMod

\* get_context: every bucket holds one context, taken from 512 free ones when the
\* bucket is first used; all (src, fid) with the same hash find that context.
Bucket(src, fid) == (src * 8 + fid) % MAX_CNTS
Buckets == {Bucket(s, f) : s \in Senders, f \in Prios}

\* With a NULL packet sent up the program reads through a null pointer.
Alive == \A d \in Receivers : ~\E i \in DOMAIN up[d] : up[d][i] = NULL

Context == [pkt : {NULL} \cup Nat, exp_sn : 0 .. SeqnoMod - 1, len : Nat]

\* Either nothing was sent yet, or n fragmented packets of every priority: the last
\* but one to all stations but one, the last to that one.  Both were dropped because
\* of the gap before them, and the contexts follow the sequence numbers again.
InitSeqnos ==
    \E n \in StartSeqnos, left \in LeftLen :
        LET Follows(d) == n = 0 \/ d = CHOOSE r \in Receivers : TRUE
        IN  /\ next = [s \in Senders |-> [f \in Prios |-> n]]
            /\ gap = [d \in Receivers |-> [b \in Buckets |-> ~Follows(d)]]
            /\ ctx = [d \in Receivers |-> [b \in Buckets |->
                        [pkt |-> NULL, len |-> left, exp_sn |-> IF Follows(d) THEN n ELSE n - 1]]]

Init ==
    /\ lossy \in Losses
    /\ pkts = << >>
    /\ queue = [s \in Senders |-> << >>]
    /\ air = [s \in Senders |-> << >>]
    /\ up = [d \in Receivers |-> << >>]
    /\ heard = << >> /\ inGap = {}
    /\ InitSeqnos

-----------------------------------------------------------------------------
(* Sender *)

FragIds == [p \in DOMAIN pkts |-> pkts[p].frag_id]

\* RleLL::recv, and the queue takes the packet (a full one drops it: no step).
Send(s, d, f, size) ==
    /\ Alive /\ s # d
    /\ Len(pkts) < MaxPackets
    /\ Len(queue[s]) + 1 < limit_
    /\ pkts' = Append(pkts, [src |-> s, dst |-> d, frag_id |-> f,
                             total_length |-> size, psize |-> size,
                             start_end |-> {START, END}])
    /\ heard' = Append(heard, 0)
    /\ queue' = [queue EXCEPT ![s] =
                    Insert(@, Len(pkts'), [p \in DOMAIN pkts' |-> pkts'[p].frag_id])]
    /\ UNCHANGED <<lossy, next, air, ctx, up, gap, inGap>>

\* Bytes of the burst left after the first i packets of the queue went in whole.
Left(s, bs) ==
    LET left[i \in 0 .. Len(queue[s])] ==
            IF i = 0 THEN bs ELSE left[i - 1] - (pkts[queue[s][i]].psize + FHS)
    IN  left

\* The loop of slotHandler goes on to packet i of the queue.
GoesOn(s, bs, i) == i = 1 \/ Left(s, bs)[i - 1] >= FHS + PHS
FullNoHeader(left, i) == left[i] + FHS < 0
Full(left, i) == left[i] < 0

\* Number of packets that go into the burst (or end in it).
Whole(s, bs) ==
    CHOOSE k \in 0 .. Len(queue[s]) :
        /\ \A i \in 1 .. k : GoesOn(s, bs, i) /\ ~Full(Left(s, bs), i)
        /\ \/ k = Len(queue[s])
           \/ ~GoesOn(s, bs, k + 1)
           \/ Full(Left(s, bs), k + 1)

\* Closing fragments of priority f among the first i packets of the queue.
Closing(s, f, i) ==
    {j \in 1 .. i : LET p == pkts[queue[s][j]]
                    IN  p.frag_id = f /\ START \notin p.start_end}

LastFrag(s, i) ==
    LET p == queue[s][i]
        f == pkts[p].frag_id
        closes == START \notin pkts[p].start_end
    IN  [start_end |-> pkts[p].start_end \cup {END}, frag_id |-> f,
         length |-> pkts[p].psize, alpdu |-> p,
         seqno |-> IF closes THEN (next[s][f] + Cardinality(Closing(s, f, i - 1))) % SeqnoMod
                             ELSE 0]

\* A packet that is cut for the first time grows by a header and a trailer.
OpenedNoTrailer(h) == [h EXCEPT !.psize = @ + PHS + TS]
Opened(h) ==
    IF START \in h.start_end
    THEN [h EXCEPT !.total_length = @ + PHS + TS, !.psize = h.total_length + PHS + TS]
    ELSE h

\* What stays of a packet when `room' bytes of it went into a burst.
Cut(h, room) == [Opened(h) EXCEPT !.psize = @ - room, !.start_end = {}]

\* slotHandler: the MAC fills a timeslot of bs bytes and sends the burst.
Slot(s, bs, lost) ==
    LET k == Whole(s, bs)
        q == queue[s]
        room == Left(s, bs)[k] - FHS
        cut == k < Len(q) /\ GoesOn(s, bs, k + 1)
        first == [start_end |-> pkts[q[k + 1]].start_end \cap {START},
                  frag_id |-> pkts[q[k + 1]].frag_id, length |-> room,
                  seqno |-> 0, alpdu |-> q[k + 1]]
        whole == [i \in 1 .. k |-> LastFrag(s, i)]
    IN  /\ Alive
        /\ Len(air[s]) < MaxAir
        /\ q # << >>          \* else the burst is freed and nothing changes
        /\ air' = [air EXCEPT ![s] = Append(@,
                      [size |-> bs, lost |-> lost,
                       frags |-> whole \o IF cut THEN <<first>> ELSE << >>])]
        /\ pkts' = [p \in DOMAIN pkts |->
                      IF cut /\ p = q[k + 1] THEN Cut(pkts[p], room)
                      ELSE IF p \in {q[i] : i \in 1 .. k}
                      THEN [pkts[p] EXCEPT !.start_end = @ \cup {END}]
                      ELSE pkts[p]]
        /\ next' = [next EXCEPT ![s] = [f \in Prios |->
                      (@[f] + Cardinality(Closing(s, f, k))) % SeqnoMod]]
        /\ queue' = [queue EXCEPT ![s] = SubSeq(@, k + 1, Len(@))]
        /\ UNCHANGED <<lossy, ctx, up, heard, gap, inGap>>

-----------------------------------------------------------------------------
(* Receiver *)

\* The first fragment drops what the context still holds and starts afresh.
OpenForgetful(c, fh) == [c EXCEPT !.pkt = fh.alpdu, !.len = 0]
Open(c, fh) ==
    IF START \in fh.start_end
    THEN [pkt |-> fh.alpdu, len |-> 0,
          exp_sn |-> IF c.pkt # NULL THEN Succ(c.exp_sn) ELSE c.exp_sn]
    ELSE c

Add(c, fh) == [Open(c, fh) EXCEPT !.len = @ + fh.length]

AcceptsAnySeqno(c, fh) == c.len = pkts[fh.alpdu].total_length
Accepts(c, fh) == c.len = pkts[fh.alpdu].total_length /\ c.exp_sn = fh.seqno

Drop(c, fh) == [c EXCEPT !.exp_sn = Succ(fh.seqno), !.pkt = NULL]
Deliver(c)  == [c EXCEPT !.len = 0, !.pkt = NULL, !.exp_sn = Succ(@)]

\* sendUp of station d for one fragment of a burst of sender s; r holds the
\* contexts of d and what it sent up.
Decode(d, s, r, fh) ==
    LET b == Bucket(s, fh.frag_id)
        c == Add(r.ctx[b], fh)
    IN  IF pkts[fh.alpdu].dst # d THEN r
        ELSE CASE fh.start_end = {START, END} -> [r EXCEPT !.up = Append(@, fh.alpdu)]
               [] END \notin fh.start_end     -> [r EXCEPT !.ctx[b] = c]
               [] fh.start_end = {END} /\ ~Accepts(c, fh) -> [r EXCEPT !.ctx[b] = Drop(c, fh)]
               [] fh.start_end = {END} /\ Accepts(c, fh) ->
                    [ctx |-> [r.ctx EXCEPT ![b] = Deliver(c)], up |-> Append(r.up, c.pkt)]

After(d, s, burst) ==
    FoldLeft(LAMBDA r, fh : Decode(d, s, r, fh), [ctx |-> ctx[d], up |-> up[d]], burst.frags)

\* Closing fragments of a burst in bucket b.
Closes(s, burst, b) ==
    {fh \in Range(burst.frags) : fh.start_end = {END} /\ Bucket(s, fh.frag_id) = b}

\* The burst of s reaches the stations, or would have if it had not been lost.
Arrive(s) ==
    LET burst == Head(air[s])
        frags == Range(burst.frags)
    IN  /\ Alive /\ air[s] # << >>
        /\ air' = [air EXCEPT ![s] = Tail(@)]
        /\ gap' = [d \in Receivers |-> [b \in Buckets |->
                     LET missed == {fh \in Closes(s, burst, b) :
                                      burst.lost \/ pkts[fh.alpdu].dst # d}
                     IN  IF missed = {} /\ Closes(s, burst, b) # {} THEN FALSE
                         ELSE gap[d][b] \/ \E fh \in missed : ctx[d][b].pkt # fh.alpdu]]
        /\ IF burst.lost
           THEN UNCHANGED <<ctx, up, heard, inGap>>
           ELSE /\ ctx' = [d \in Receivers |-> After(d, s, burst).ctx]
                /\ up'  = [d \in Receivers |-> After(d, s, burst).up]
                /\ heard' = [p \in DOMAIN heard |->
                     heard[p] + IF \E fh \in frags : fh.alpdu = p
                                THEN (CHOOSE fh \in frags : fh.alpdu = p).length ELSE 0]
                /\ inGap' = inGap \cup
                     {fh.alpdu : fh \in {x \in frags : /\ END \in x.start_end
                                          /\ gap[pkts[x.alpdu].dst][Bucket(s, x.frag_id)]}}
        /\ UNCHANGED <<lossy, pkts, queue, next>>

Next ==
    \/ \E s \in Senders, d \in Receivers, f \in Prios, size \in Sizes : Send(s, d, f, size)
    \/ \E s \in Senders, bs \in BurstSizes, lost \in {FALSE, lossy} : Slot(s, bs, lost)
    \/ \E s \in Senders : Arrive(s)

Spec == Init /\ [][Next]_vars

\* A sender with packets is granted a timeslot again and again, and the channel
\* always runs empty again: what is in it arrives.
FairSpec ==
    /\ Spec
    /\ \A s \in Senders : /\ []<>(queue[s] = << >> \/ air[s] # << >>)
                          /\ []<>(air[s] = << >>)
-----------------------------------------------------------------------------
(* Properties *)

\* slotHandler never puts more into a burst than the timeslot holds, headers
\* included, although bs is unsigned and only compared before it is decreased.
BytesIn(frags) == FoldLeft(LAMBDA n, fh : n + fh.length + FHS, 0, frags)
BurstFits ==
    \A s \in Senders : \A i \in DOMAIN air[s] : BytesIn(air[s][i].frags) <= air[s][i].size

\* Types of the state (hdr_ll_rle, frag_hdr, context); every burst fits.
TypeOK ==
    /\ BurstFits
    /\ lossy \in Losses
    /\ pkts \in Seq(Packet) /\ Len(pkts) <= MaxPackets
    /\ queue \in [Senders -> Seq(DOMAIN pkts)]
    /\ next \in [Senders -> [Prios -> 0 .. SeqnoMod - 1]]
    /\ air \in [Senders -> Seq([size : BurstSizes, lost : BOOLEAN, frags : Seq(Frag)])]
    /\ ctx \in [Receivers -> [Buckets -> Context]]
    /\ up \in [Receivers -> Seq({NULL} \cup DOMAIN pkts)]
    /\ heard \in [DOMAIN pkts -> Nat]
    /\ gap \in [Receivers -> [Buckets -> BOOLEAN]]
    /\ inGap \subseteq DOMAIN pkts

InChannel(p) ==
    \E s \in Senders : \E i \in DOMAIN air[s] :
        \E fh \in Range(air[s][i].frags) : fh.alpdu = p
Queued(p) == \E s \in Senders : p \in Range(queue[s])

\* Fragments carry no packet number, the receiver tells them apart by frag_id:
\* a packet of which a part is sent stays the first of its priority in the
\* queue, whatever arrives in the meantime.
PartialLeads ==
    \A s \in Senders : \A j \in DOMAIN queue[s] :
        (START \notin pkts[queue[s][j]].start_end) =>
            \A i \in 1 .. j - 1 : pkts[queue[s][i]].frag_id # pkts[queue[s][j]].frag_id

\* What a station has passed up before the program reads through a null pointer.
Passed(q) == FoldLeft(LAMBDA r, p : IF p = NULL THEN r ELSE Append(r, p), << >>, q)

\* The link keeps the promise of PacketLink: what is sent up is a packet for this
\* station all bytes of which reached it (fragments of two packets are never taken
\* for one, by sendUp's two checks), and the packets of one sender and priority
\* are sent up in the order in which they came to the link, none twice, whatever
\* bursts are lost.  The crash on a NULL packet ends the run.
Link == INSTANCE PacketLink WITH
    Stations <- Receivers,
    Flows <- Senders \X Prios,
    Kept <- Senders \X Prios,
    taken <- [p \in DOMAIN pkts |->
                [dst |-> pkts[p].dst, flow |-> <<pkts[p].src, pkts[p].frag_id>>]],
    whole <- {p \in DOMAIN pkts : heard[p] = pkts[p].total_length},
    up <- [d \in Receivers |-> Passed(up[d])]
KeepsPromise == Link!Spec

\* "Freeing the context is not needed when seqno are used" (mac-rle.h): a context
\* that is never freed does not make sendUp pass a packet it does not hold.
NeverNull == Alive

\* A packet all fragments of which reached the receiver is thrown away only if
\* the receiver missed a whole fragmented packet before it, or one that went to
\* another station: next[] counts per priority, exp_sn per priority at every
\* receiver, and sendUp makes up for the packets it heard the beginning of.
DropExplained ==
    [][\A s \in Senders :
         (Len(air'[s]) < Len(air[s]) /\ ~Head(air[s]).lost) =>
           \A fh \in Range(Head(air[s]).frags) :
              LET p == fh.alpdu
                  d == pkts[p].dst
              IN  (END \in fh.start_end /\ heard'[p] = pkts[p].total_length)
                  => (p \in Range(up'[d]) \/ gap[d][Bucket(s, fh.frag_id)])]_vars

\* Without losses a packet the queue has taken is sent up in the end (fragments,
\* priorities and the wrap of the sequence numbers hold none back for ever), unless
\* it comes behind fragmented packets of its priority for another station.
EventuallyUp ==
    \A n \in 1 .. MaxPackets :
        (~lossy /\ n \in DOMAIN pkts) ~>
            (n \in DOMAIN pkts /\ n \in Range(up[pkts[n].dst]) \cup inGap)
=============================================================================
