-------------------------- MODULE AllocatorMFTDMA --------------------------
(***************************************************************************)
(* The radio resource manager: class AllocatorMFTDMA of mac-allocator.cc.  *)
(* Once per superframe allocation() turns the capacity requests of the     *)
(* terminals into a burst time plan (TBTP) on a grid of frames, carriers   *)
(* and timeslots.  allocation() runs to completion inside one simulator    *)
(* event; the model splits it at the iterations of assign_timeslot(), so   *)
(* that what every iteration does can be observed.  Requests (rcv_req)     *)
(* arrive between two allocations.                                         *)
(*                                                                         *)
(* Abstracted: a burst offset j*frame_duration_/timeslots_ is kept as the  *)
(* pair (frame, timeslot), a rate as the bytes per superframe it is worth, *)
(* the bit string _mask as the set of its bits that are set.               *)
(***************************************************************************)
EXTENDS Integers, Sequences, FiniteSets, Functions

CONSTANTS
    N,                \* active_node_: terminals are numbered 0..N-1
    hub_,             \* the terminal the allocator sits in
    nf,               \* frames of the superframe, numbered 0..nf-1
    carriers_, timeslots_, burstsize_,   \* shape of each frame
    masksize,         \* bits of a terminal's busy mask
    rules,            \* rules[t]: the sequence of [rule, fp] of terminal t
    Modes,            \* what a script may set mode_ to
    layout_, forget_debit_, sl_threshold_, max_req_buf_,
    cnst_rate,        \* cnst_rate[t]: CRA bytes per superframe
    Requesters,       \* terminals whose requester was started
    Rates, Volumes,   \* what a capacity request may ask for (RBDC, VBDC)
    MaxVolume         \* bound on the volume that accumulates in a superframe

SLOT_MODE == 0
CONT_MODE == 1
FIRST_FIT == 0
BEST_FIT  == 1
SMALL     == 1        \* rule number of the SMALL condition
NOTHING_TO_SEND == -2
NULL    == << >>       \* frame == NULL
Garbage == <<"any">>   \* the local variable frame before any assignment

Term        == 0 .. N-1
Frames      == 0 .. nf-1
Carriers(f) == 0 .. carriers_[f]-1
Slots(f)    == 0 .. timeslots_[f]-1
Cells == UNION {{<<f, i, j>> : i \in Carriers(f), j \in Slots(f)} : f \in Frames}
slot_count_ == Cardinality(Cells)
Bursts == [assignment_id : Term, fp : Frames, slot : Nat]

ASSUME SizeAssumption ==
    /\ N \in Nat \ {0} /\ nf \in Nat \ {0} /\ hub_ \in Term
    /\ carriers_ \in [Frames -> Nat \ {0}]
    /\ timeslots_ \in [Frames -> Nat \ {0}]
    /\ burstsize_ \in [Frames -> Nat \ {0}]
ASSUME MaskAssumption ==
    /\ masksize \in Nat \ {0}
    /\ \A f \in Frames : \E k \in 1 .. masksize : masksize = k * timeslots_[f]
ASSUME RuleAssumption == rules \in [Term -> Seq([rule : {0, SMALL}, fp : Frames])]
ASSUME ModeAssumption ==
    /\ Modes \subseteq {SLOT_MODE, CONT_MODE} /\ layout_ \in {FIRST_FIT, BEST_FIT}
    /\ forget_debit_ \in {0, 1} /\ sl_threshold_ \in Int /\ max_req_buf_ \in Nat
ASSUME DemandAssumption ==
    /\ cnst_rate \in [Term -> Nat] /\ Requesters \subseteq Term
    /\ Rates \subseteq Nat /\ Volumes \subseteq Nat /\ MaxVolume \in Nat

VARIABLES
    mode_,         \* set by the script before the run
    pc,            \* "idle" between superframes, "assign" inside allocation()
    pass,          \* which request vector is served: 1 CRA, 2 RBDC, 3 VBDC
    reqv_rate, reqv_volume,   \* requests received
    deficit,       \* bytes each terminal is still owed (negative: overserved)
    a,             \* bytes assigned in this superframe
    cur_term,      \* terminal served next; survives from superframe to superframe
    left_to_check, \* terminals to look at before the search gives up
    freeslots,     \* timeslots not assigned yet
    grid,          \* Frame.frame: the terminal booked in every cell
    mask,          \* the parts of the superframe in which a terminal transmits
    tbtp,          \* the burst descriptors written so far
    slot_num_,     \* descriptors in the TBTP when assign_timeslot() was entered
    frame,         \* assign_timeslot's locals frame and offset
    feedback_, utility_, utilization_, load_

requests == <<reqv_rate, reqv_volume>>
search   == <<cur_term, left_to_check>>
plan     == <<grid, mask, tbtp, a, freeslots>>
report   == <<feedback_, utility_, utilization_, load_>>
vars == <<mode_, pc, pass, requests, deficit, search, plan, slot_num_, frame, report>>

-----------------------------------------------------------------------------
(* Operators of the search                                                 *)

\* Bits of the mask that timeslot j of frame f covers (testmask, setmask).
FieldOverrun(f, j) == (j * timeslots_[f]) .. ((j + 1) * timeslots_[f] - 1)
Field(f, j) == LET fieldsize == masksize \div timeslots_[f]
               IN  (j * fieldsize) .. ((j + 1) * fieldsize - 1)

\* The <<carrier, timeslot>> pairs of frame f where t may transmit: the cell
\* is free and the terminal is silent in that part of the superframe.
AvailableBooked(t, f) ==
    {c \in Carriers(f) \X Slots(f) : Field(f, c[2]) \cap mask[t] = {}}
Available(t, f) ==
    {c \in Carriers(f) \X Slots(f) :
        /\ grid[<<f, c[1], c[2]>>] = NOTHING_TO_SEND
        /\ Field(f, c[2]) \cap mask[t] = {}}

\* firstfit scans carrier by carrier; bestfit keeps the earliest timeslot.
Fits(c, S) ==
    \A d \in S :
        IF layout_ = FIRST_FIT THEN c[1] < d[1] \/ (c[1] = d[1] /\ c[2] <= d[2])
                               ELSE c[2] < d[2] \/ (c[2] = d[2] /\ c[1] <= d[1])

\* Rules that are tried for t: SMALL is skipped when the backlog is larger.
Eligible(t) ==
    {r \in DOMAIN rules[t] : rules[t][r].rule = SMALL => deficit[t] <= sl_threshold_}
FrameOf(t, r) == rules[t][r].fp
Placeable(t)  == \E r \in Eligible(t) : Available(t, FrameOf(t, r)) # {}

\* A terminal that is still owed bytes takes part in the search.
OwedOrEven(t) == deficit[t] >= 0
Owed(t) == deficit[t] > 0

FollowingUnwrapped(t) == t + 1
Following(t) == (t + 1) % N

\* Where the search goes on after a burst, and how many terminals are then
\* left to check: SLOT_MODE moves on and starts a full round again.
AfterGrantStay(t) == t
AfterGrant(t) == IF mode_ = SLOT_MODE THEN Following(t) ELSE t
RestartSearch == IF mode_ = SLOT_MODE THEN N ELSE left_to_check
VisitForgotten == left_to_check
VisitCounted == left_to_check - 1
SearchTooShort == N - 1
SearchLength == N

-----------------------------------------------------------------------------
(* Capacity requests, and the passes of allocation()                       *)

RcvReq(t) ==
    /\ pc = "idle"
    /\ \E r \in Rates, v \in Volumes :
         /\ reqv_volume[t] + v <= MaxVolume
         /\ reqv_rate' = [reqv_rate EXCEPT ![t] = r]
         /\ reqv_volume' = [reqv_volume EXCEPT ![t] = @ + v]
    /\ UNCHANGED <<mode_, pc, pass, deficit, search, plan, slot_num_, frame, report>>

\* init_request_queues(): a pass adds its request vector to what is owed.
Loaded(req) == [t \in Term |-> deficit[t] + req[t]]
InitRequestQueues(req) ==
    /\ deficit' = Loaded(req)
    /\ left_to_check' = SearchLength
    /\ frame' = Garbage
    /\ UNCHANGED <<cur_term, feedback_, utility_>>

\* reset_allocator(), then the CRA pass.
BytesKept == a
BytesCleared == [t \in Term |-> 0]
BeginCRA ==
    /\ pc = "idle"
    /\ pc' = "assign" /\ pass' = 1
    /\ a' = BytesCleared
    /\ grid' = [c \in Cells |-> NOTHING_TO_SEND]
    /\ mask' = [t \in Term |-> {}]
    /\ freeslots' = slot_count_
    /\ tbtp' = << >> /\ slot_num_' = 0
    /\ InitRequestQueues(cnst_rate)
    /\ utilization_' = SumFunction(deficit)
    /\ load_' = SumFunction(cnst_rate)
    /\ UNCHANGED requests

\* The loop of assign_timeslot() is over.
PassOver == pc = "assign" /\ (freeslots = 0 \/ left_to_check = 0)

BeginRBDC ==
    /\ PassOver /\ pass = 1
    /\ pass' = 2
    /\ slot_num_' = Len(tbtp)
    /\ InitRequestQueues(reqv_rate)
    /\ utilization_' = utilization_ + SumFunction(deficit)
    /\ load_' = load_ + SumFunction(reqv_rate)
    /\ UNCHANGED <<pc, requests, plan>>

BeginVBDC ==
    /\ PassOver /\ pass = 2
    /\ pass' = 3
    /\ slot_num_' = Len(tbtp)
    /\ InitRequestQueues(reqv_volume)
    /\ utilization_' = utilization_ + SumFunction(deficit)
    /\ load_' = load_ + SumFunction(reqv_volume)
    /\ reqv_volume' = [t \in Term |-> 0]
    /\ UNCHANGED <<pc, reqv_rate, plan>>

-----------------------------------------------------------------------------
(* One iteration of assign_timeslot() each                                 *)

Seeking == pc = "assign" /\ freeslots # 0 /\ left_to_check # 0

\* The current terminal is owed nothing: look at the next one.
SkipSatisfied ==
    /\ Seeking
    /\ ~Owed(cur_term)
    /\ left_to_check' = VisitCounted
    /\ cur_term' = Following(cur_term)
    /\ UNCHANGED <<pc, pass, requests, deficit, plan, slot_num_, frame, report>>

\* Account for one burst of the current terminal in timeslot j of frame f.
Grant(f, j) ==
    /\ freeslots' = freeslots - 1
    /\ deficit' = [deficit EXCEPT ![cur_term] = @ - burstsize_[f]]
    /\ a' = [a EXCEPT ![cur_term] = @ + burstsize_[f]]
    /\ tbtp' = Append(tbtp, [assignment_id |-> cur_term, fp |-> f, slot |-> j])
    /\ left_to_check' = RestartSearch
    /\ cur_term' = AfterGrant(cur_term)
    /\ frame' = <<f, j>>
    /\ UNCHANGED <<pc, pass, requests, slot_num_, report>>

\* A rule leads to a free cell: the first such rule, the cell the layout picks.
Place ==
    /\ Seeking
    /\ Owed(cur_term)
    /\ \E r \in Eligible(cur_term) :
         LET f == FrameOf(cur_term, r) IN
         /\ \A q \in Eligible(cur_term) :
              q < r => Available(cur_term, FrameOf(cur_term, q)) = {}
         /\ \E c \in Available(cur_term, f) :
              /\ Fits(c, Available(cur_term, f))
              /\ grid' = [grid EXCEPT ![<<f, c[1], c[2]>>] = cur_term]
              /\ mask' = [mask EXCEPT ![cur_term] = @ \cup Field(f, c[2])]
              /\ Grant(f, c[2])

\* Every rule was skipped, so the code tests the value frame had before: that
\* of the previous iteration, or an uninitialised one at the first iteration.
\* The burst is granted at the old offset and no cell is booked.
StaleGrant ==
    /\ Seeking
    /\ Owed(cur_term)
    /\ Eligible(cur_term) = {}
    /\ \E f \in Frames : \E j \in Slots(f) :
         /\ frame \in {Garbage, <<f, j>>}
         /\ Grant(f, j)
    /\ UNCHANGED <<grid, mask>>

\* No rule leads to a free cell.
NoLuck ==
    /\ Seeking
    /\ Owed(cur_term)
    /\ ~Placeable(cur_term)
    /\ Eligible(cur_term) = {} => frame \in {Garbage, NULL}
    /\ frame' = NULL
    /\ left_to_check' = IF mode_ = CONT_MODE THEN VisitCounted ELSE left_to_check
    /\ cur_term' = Following(cur_term)
    /\ UNCHANGED <<pc, pass, requests, deficit, plan, slot_num_, report>>

-----------------------------------------------------------------------------
(* The end of allocation(): report, carry-over, and the TBTP is sent       *)

Happy == {t \in Term \ {hub_} : deficit[t] <= 0}
\* tolerance_ is 0.9; requestv_ is never written and stays 0.
Tolerable == {t \in (Term \ {hub_}) \ Happy : 9 * deficit[t] <= 10 * a[t]}

AllocatorReport ==
    /\ feedback_' = IF Cardinality(Happy) >= N - 1 THEN 1 ELSE 0
    /\ utility_' = Cardinality(Happy) + Cardinality(Tolerable)
    /\ utilization_' = utilization_ + load_
                       - SumFunctionOnSet(deficit, (Term \ {hub_}) \ Happy)
    /\ UNCHANGED load_

\* Requests beyond max_req_buf_ and, with forget_debit_, debits are forgotten.
CarryOver(d) ==
    LET capped == IF d > max_req_buf_ THEN max_req_buf_ ELSE d
    IN  IF forget_debit_ = 1 /\ capped < 0 THEN 0 ELSE capped

FinishAllocation ==
    /\ PassOver /\ pass = 3
    /\ pc' = "idle"
    /\ AllocatorReport
    /\ deficit' = [t \in Term |-> CarryOver(deficit[t])]
    /\ UNCHANGED <<pass, requests, search, plan, slot_num_, frame>>

-----------------------------------------------------------------------------
Init ==
    /\ mode_ \in Modes
    /\ pc = "idle" /\ pass = 3
    /\ reqv_rate = [t \in Term |-> 0] /\ reqv_volume = [t \in Term |-> 0]
    /\ deficit = [t \in Term |-> 0] /\ a = [t \in Term |-> 0]
    /\ cur_term = 0 /\ left_to_check = 0 /\ freeslots = 0
    /\ grid = [c \in Cells |-> NOTHING_TO_SEND]
    /\ mask = [t \in Term |-> {}]
    /\ tbtp = << >> /\ slot_num_ = 0 /\ frame = Garbage
    /\ feedback_ = 0 /\ utility_ = 0 /\ utilization_ = 0 /\ load_ = 0

Allocation ==
    /\ \/ BeginCRA \/ BeginRBDC \/ BeginVBDC
       \/ SkipSatisfied \/ Place \/ StaleGrant \/ NoLuck
       \/ FinishAllocation
    /\ UNCHANGED mode_
Next == Allocation \/ \E t \in Requesters : RcvReq(t)

Spec == Init /\ [][Next]_vars
\* The poll timer of PollAllocator always expires again, and allocation()
\* runs without being preempted; nothing obliges a terminal to ask.
FairSpec == Spec /\ WF_vars(Allocation)

-----------------------------------------------------------------------------
(* Properties                                                              *)

\* Every terminal that can be owed something has a rule without condition.
WellRuled ==
    \A t \in Term : (t \in Requesters \/ cnst_rate[t] > 0) =>
        \E r \in DOMAIN rules[t] : rules[t][r].rule # SMALL

\* Every variable keeps the range its declaration and its uses assume; the
\* current terminal in particular stays an index of the terminal tables.
TypeOK ==
    /\ mode_ \in Modes /\ pc \in {"idle", "assign"} /\ pass \in 1 .. 3
    /\ reqv_rate \in [Term -> Nat] /\ reqv_volume \in [Term -> Nat]
    /\ deficit \in [Term -> Int] /\ a \in [Term -> Nat]
    /\ cur_term \in Term /\ left_to_check \in 0 .. N /\ freeslots \in Int
    /\ grid \in [Cells -> Term \cup {NOTHING_TO_SEND}]
    /\ mask \in [Term -> SUBSET (0 .. masksize - 1)]
    /\ tbtp \in Seq(Bursts)
    /\ \A n \in DOMAIN tbtp : tbtp[n].slot \in Slots(tbtp[n].fp)
    /\ slot_num_ \in Nat

\* Two bursts, of frames divided into different numbers of timeslots, are on
\* the air at the same time.
Overlap(b, d) ==
    /\ b.slot * timeslots_[d.fp] < (d.slot + 1) * timeslots_[b.fp]
    /\ d.slot * timeslots_[b.fp] < (b.slot + 1) * timeslots_[d.fp]

\* A terminal has one transmitter: the plan never makes it send two bursts at
\* the same time, whatever carriers and frames they are on and whichever of
\* the three passes granted them (what testmask and setmask are for).
TimeExclusive ==
    \A m, n \in DOMAIN tbtp :
        m # n /\ tbtp[m].assignment_id = tbtp[n].assignment_id
            => ~Overlap(tbtp[m], tbtp[n])

\* The plan that is sent is the grid that was filled: a terminal is told to
\* send in a timeslot of a frame exactly when a carrier is booked for it there.
GridMatchesPlan ==
    \A f \in Frames : \A j \in Slots(f) : \A t \in Term :
        (\E n \in DOMAIN tbtp : tbtp[n] = [assignment_id |-> t, fp |-> f, slot |-> j])
            <=> (\E i \in Carriers(f) : grid[<<f, i, j>>] = t)

\* While slots are assigned, freeslots counts the cells that are still free,
\* so the search stops early only if the superframe is really full.
FreeslotsAreFree ==
    pc = "assign" =>
        freeslots = Cardinality({c \in Cells : grid[c] = NOTHING_TO_SEND})

\* The search gives up only when nothing more can be placed: at the end of a
\* pass no terminal is owed bytes that an eligible free cell could carry.
WorkConserving ==
    PassOver => \A t \in Term : deficit[t] > 0 => ~Placeable(t)

\* A terminal is never given a burst it does not need: across superframes its
\* credit stays below the size of one burst.
NoOverGrant ==
    \A t \in Term : \E f \in Frames : deficit[t] > 0 - burstsize_[f]

\* What the terminals are told is what the accounts say: the descriptors of a
\* terminal add up to the bytes assigned to it, one timeslot each, and never
\* more descriptors than the superframe has timeslots.
LedgerAgrees ==
    /\ \A t \in Term :
         a[t] = SumFunctionOnSet([n \in DOMAIN tbtp |-> burstsize_[tbtp[n].fp]],
                                 {n \in DOMAIN tbtp : tbtp[n].assignment_id = t})
    /\ pc = "assign" => freeslots = slot_count_ - Len(tbtp)

\* In SLOT_MODE a terminal gets a second burst of a pass only after every other
\* terminal that is owed bytes and can be placed got one in between.
SlotModeRotates ==
    mode_ = SLOT_MODE /\ pc = "assign" =>
        \A m \in slot_num_ + 1 .. Len(tbtp) - 1 : \A t \in Term :
            (/\ tbtp[m].assignment_id = tbtp[Len(tbtp)].assignment_id
             /\ t # tbtp[m].assignment_id /\ deficit[t] > 0 /\ Placeable(t))
                => \E k \in m .. Len(tbtp) : tbtp[k].assignment_id = t

\* In SLOT_MODE only a terminal that is owed nothing brings the search nearer to
\* its end: when everybody, the hub included, is owed bytes and fits nowhere,
\* while cells are still free, the loop of assign_timeslot() turns for ever.
Spinning ==
    /\ mode_ = SLOT_MODE /\ Seeking /\ frame = NULL
    /\ \A t \in Term : Owed(t) /\ ~Placeable(t)

\* allocation() ends and the TBTP is sent, or it spins, which is against "terminal
\* not found (the algorithm stops)" (mac-allocator.cc:458): there is no other way
\* in which the search misses both of its ends, and in CONT_MODE none at all.
SearchEnds == pc = "assign" ~> (pc = "idle" \/ Spinning)

\* A backlogged terminal with a rule that always holds is not starved: it is
\* served again and again, whatever the rules of the others are.
ServedAgain ==
    \A t \in Term :
        (\E r \in DOMAIN rules[t] : rules[t][r].rule # SMALL) =>
            []<>(deficit[t] <= 0 \/ \E n \in DOMAIN tbtp : tbtp[n].assignment_id = t)

=============================================================================
