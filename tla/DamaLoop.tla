------------------------------ MODULE DamaLoop -----------------------------
(***************************************************************************)
(* Capacity on demand, all the way round: the requester of a terminal      *)
(* (mac-requester.cc) looks at the interface queue and sends a capacity    *)
(* request to the hub, the allocator there (AllocatorMFTDMA) makes a burst *)
(* time plan of it, and the MAC of the terminal (mac-tdmadama.cc) takes    *)
(* packets from the queue in the timeslots of the plan.  Requests and      *)
(* plans are sent in bursts, which the physical layer may drop.            *)
(*                                                                         *)
(* One terminal, number 1, and the hub, number 0, with one frame of one    *)
(* carrier.  Abstracted: bytes are counted in cells, and a timeslot holds  *)
(* one; a rate is the cells per request period it is worth.  alpha_ is 0,  *)
(* its default: the rate is that of the last period.  Every event runs to  *)
(* completion: nothing happens at the terminal while allocation() runs.    *)
(* Between two timeslots the queue is blocked and pktTx_ is empty.         *)
(***************************************************************************)
EXTENDS Integers, Sequences, FiniteSets, FiniteSetsExt, Functions

CONSTANTS
    rbdc_, vbdc_, avbdc_,         \* what the requester asks for
    min_rbdc_, max_rbdc_, max_vbdc_,
    win_,                         \* requests that are remembered
    FramesPerPeriod,              \* req_period_ / frame_duration_
    SlotsPerFrame,                \* timeslots of the superframe
    Modes, forget_debit_, max_req_buf_,   \* of the allocator
    limit_,                       \* of the interface queue
    Losses,                       \* whether bdrop_rate_ may be positive
    MaxArrivals,                  \* bound on the cells that arrive
    MaxStarts,                    \* bound on the starts of the requester
    MaxAir                        \* bound on requests, and on plans, under way

ASSUME LoopAssumption ==
    /\ {rbdc_, vbdc_, avbdc_, Losses} \subseteq BOOLEAN
    /\ {min_rbdc_, max_rbdc_, max_vbdc_, limit_, MaxArrivals, MaxStarts} \subseteq Nat
    /\ {FramesPerPeriod, SlotsPerFrame, MaxAir} \subseteq Nat \ {0}
    /\ win_ \in 1 .. 512          \* MAX_TIME_WIN; the code does not check it

VARIABLES
    backlog,      \* cells in the interface queue
    arrived,      \* barrivals(): cells offered to the queue
    running,      \* the timer of the requester runs
    starts,       \* how often it was started
    prev_in,      \* arrived, when the rate was computed last
    input_cur,    \* cells that had arrived in the period before that
    last, vec_vol, total_vol,     \* the window of volumes requested
    due,          \* a superframe has begun since the last request, or a start
    crs,          \* capacity requests on their way to the hub
    tbtps,        \* numbers of timeslots for the terminal, on their way to it
    slots,        \* timeslots scheduled by btp_decoding
    seen,         \* history: the backlog each request in the window saw
    \* the allocator
    mode_, pc, pass, reqv_rate, reqv_volume, deficit, a, cur_term, left_to_check,
    freeslots, grid, mask, tbtp, slot_num_, frame,
    feedback_, utility_, utilization_, load_

Hub == INSTANCE AllocatorMFTDMA WITH
    N <- 2, hub_ <- 0, nf <- 1,
    carriers_ <- [f \in {0} |-> 1], timeslots_ <- [f \in {0} |-> SlotsPerFrame],
    burstsize_ <- [f \in {0} |-> 1], masksize <- SlotsPerFrame,
    rules <- [t \in 0 .. 1 |-> IF t = 0 THEN << >> ELSE <<[rule |-> 0, fp |-> 0]>>],
    layout_ <- 0, sl_threshold_ <- 0, cnst_rate <- [t \in 0 .. 1 |-> 0],
    Requesters <- {1}, Rates <- 0 .. MaxArrivals + min_rbdc_, Volumes <- 0 .. MaxArrivals,
    MaxVolume <- MaxArrivals * (MaxAir + 1)

queued == <<backlog, arrived>>
window == <<last, vec_vol, total_vol, seen>>
requester == <<running, starts, prev_in, input_cur, window, due>>
hub == <<mode_, pc, pass, reqv_rate, reqv_volume, deficit, a, cur_term, left_to_check,
         freeslots, grid, mask, tbtp, slot_num_, frame,
         feedback_, utility_, utilization_, load_>>
vars == <<queued, requester, crs, tbtps, slots, hub>>

-----------------------------------------------------------------------------
(* Terminal                                                                *)

\* A cell comes from the link layer; DropTail takes it below its limit.
Arrive ==
    /\ pc = "idle" /\ arrived < MaxArrivals
    /\ arrived' = arrived + 1
    /\ backlog' = IF backlog + 1 < limit_ THEN backlog + 1 ELSE backlog
    /\ UNCHANGED <<requester, crs, tbtps, slots, hub>>

\* "start" and "stop" of the requester.  It asks at once when it is started, also
\* when it ran, and whenever its last request was.
StartStop ==
    /\ pc = "idle"
    /\ \/ starts < MaxStarts /\ starts' = starts + 1 /\ running' = TRUE /\ due' = TRUE
       \/ running /\ running' = FALSE /\ UNCHANGED <<starts, due>>
    /\ UNCHANGED <<queued, prev_in, input_cur, window, crs, tbtps, slots, hub>>

\* rate(): what came in since it was computed last.
FreshAll == arrived
Fresh == arrived - prev_in

Clip(rate) ==
    LET capped == IF rate > max_rbdc_ THEN max_rbdc_ ELSE rate
    IN  IF capped < min_rbdc_ THEN min_rbdc_ ELSE capped

\* What was requested lately, when the oldest request, number k, is forgotten.
KeptForever(k) == total_vol
Kept(k) == total_vol - vec_vol[k]

\* The part of the backlog that neither those requests nor the rate cover.
MissingAll(kept, input) == IF backlog > input THEN backlog - input ELSE 0
Missing(kept, input) == IF backlog > kept + input THEN backlog - kept - input ELSE 0

Capped(volume) == IF volume > max_vbdc_ THEN max_vbdc_ ELSE volume

\* expire(), dorequest(): the period is over, or the requester has been started.  A
\* period is not shorter than a superframe.  With neither RBDC nor VBDC nothing is requested at all.
Request(lost) ==
    LET rate == IF rbdc_ THEN Clip(Fresh) ELSE 0
        input == IF rbdc_ THEN Fresh ELSE input_cur
        k == (last + 1) % win_
        missing == Missing(Kept(k), input)
        volume == CASE vbdc_             -> missing
                    [] ~vbdc_ /\ avbdc_  -> backlog
                    [] ~vbdc_ /\ ~avbdc_ -> 0
    IN  /\ pc = "idle" /\ running /\ due
        /\ rbdc_ \/ vbdc_
        /\ Len(crs) < MaxAir
        /\ IF rbdc_ THEN prev_in' = arrived /\ input_cur' = Fresh
                    ELSE UNCHANGED <<prev_in, input_cur>>
        /\ IF vbdc_
           THEN /\ last' = k
                /\ vec_vol' = [vec_vol EXCEPT ![k] = missing]
                /\ total_vol' = Kept(k) + missing
                /\ seen' = [seen EXCEPT ![k] = backlog]
           ELSE UNCHANGED window
        /\ crs' = Append(crs, [rate |-> rate, volume |-> Capped(volume), lost |-> lost])
        /\ due' = FALSE
        /\ UNCHANGED <<queued, running, starts, tbtps, slots, hub>>

\* btp_decoding: one timeslot is scheduled for each burst of this terminal.  They
\* are over when the plan of the next superframe arrives.
BtpDecoding ==
    /\ pc = "idle" /\ tbtps # << >> /\ slots = 0
    /\ slots' = IF Head(tbtps).lost THEN 0 ELSE Head(tbtps).bursts
    /\ tbtps' = Tail(tbtps)
    /\ UNCHANGED <<queued, requester, crs, hub>>

\* slotHandler: the burst takes a cell from the queue, if there is one.
SlotHandler ==
    /\ pc = "idle" /\ slots > 0
    /\ slots' = slots - 1
    /\ backlog' = IF backlog > 0 THEN backlog - 1 ELSE 0
    /\ UNCHANGED <<arrived, requester, crs, tbtps, hub>>

-----------------------------------------------------------------------------
(* Hub                                                                     *)

\* recv_control, rcv_req: the rate is converted to bytes per superframe.
RecvControl ==
    LET cr == Head(crs)
    IN  /\ pc = "idle" /\ crs # << >>
        /\ crs' = Tail(crs)
        /\ IF cr.lost THEN UNCHANGED hub
           ELSE /\ Hub!RcvReq(1)
                /\ reqv_rate'[1] = cr.rate \div FramesPerPeriod
                /\ reqv_volume'[1] = reqv_volume[1] + cr.volume
        /\ UNCHANGED <<queued, requester, tbtps, slots>>

\* allocation() up to its report.  The last plan has arrived by then: the
\* superframe is longer than the way to the satellite and back, MaxAir times.
Allocate ==
    /\ pc = "idle" => Len(tbtps) < MaxAir
    /\ \/ Hub!BeginCRA \/ Hub!BeginRBDC \/ Hub!BeginVBDC
       \/ Hub!SkipSatisfied \/ Hub!Place \/ Hub!StaleGrant \/ Hub!NoLuck
    /\ UNCHANGED <<mode_, queued, requester, crs, tbtps, slots>>

Bursts == Cardinality({n \in DOMAIN tbtp : tbtp[n].assignment_id = 1})

\* The end of allocation(), when the plan is sent.
SendPlan(lost) ==
    /\ Hub!FinishAllocation
    /\ tbtps' = Append(tbtps, [bursts |-> Bursts, lost |-> lost])
    /\ due' = TRUE
    /\ UNCHANGED <<mode_, queued, running, starts, prev_in, input_cur, window, crs, slots>>

-----------------------------------------------------------------------------
Init ==
    /\ backlog = 0 /\ arrived = 0 /\ running = FALSE /\ starts = 0 /\ due = TRUE
    /\ prev_in = 0 /\ input_cur = 0
    /\ last = 0 /\ total_vol = 0
    /\ vec_vol = [k \in 0 .. win_ - 1 |-> 0] /\ seen = [k \in 0 .. win_ - 1 |-> 0]
    /\ crs = << >> /\ tbtps = << >> /\ slots = 0
    /\ Hub!Init

Next ==
    \/ Arrive \/ StartStop \/ BtpDecoding \/ SlotHandler
    \/ RecvControl \/ Allocate
    \/ \E lost \in {FALSE, Losses} : Request(lost) \/ SendPlan(lost)

Spec == Init /\ [][Next]_vars

\* Timers, timeslots and the channel do not stop; the events of the terminal
\* happen between the allocations, hence strong fairness.  Losses are random: a request
\* for some volume that is sent again and again gets through now and then, and
\* so does a plan with timeslots for the terminal.
FairSpec ==
    /\ Spec
    /\ SF_vars(BtpDecoding) /\ SF_vars(SlotHandler) /\ SF_vars(RecvControl)
    /\ WF_vars(Allocate) /\ WF_vars(\E lost \in {FALSE, Losses} : SendPlan(lost))
    /\ SF_vars(Request(FALSE))
    /\ SF_vars(Request(FALSE) /\ crs'[Len(crs')].volume > 0)
    /\ SF_vars(SendPlan(FALSE) /\ Bursts > 0)

-----------------------------------------------------------------------------
(* Properties                                                              *)

\* "VBDC requests keep previous requests into account": total_vol is the sum of
\* the window, and what the requests in the window ask for together was never
\* more than the queue held at one of them: no cell is asked for twice.
WindowSound ==
    /\ total_vol = SumFunction(vec_vol)
    /\ \E k \in DOMAIN seen : total_vol <= seen[k]

\* A queue does not keep its cells for ever, whatever requests and plans are lost:
\* what was asked for in vain leaves the window and is asked for again.
Drains == (vbdc_ /\ <>[]running) => <>[](backlog = 0)

\* Capacity is not held for ever: when nothing arrives any more, the plans of the
\* hub have no timeslots for the terminal in the end.
Releases == (min_rbdc_ = 0 /\ <>[]running) => <>[](Bursts = 0)
=============================================================================
