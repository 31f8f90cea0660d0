--------------------------- MODULE SuperframePlan ---------------------------
(***************************************************************************)
(* How a scenario script configures the superframe before the simulation   *)
(* runs: terminals are created, the allocator is installed in the hub,     *)
(* frames are added (new-frame of helpfun.tcl and add-new-frame of         *)
(* mac-allocator.cc) and terminals get rules (add-rule, new-rule).         *)
(* AllocatorMFTDMA takes the result as its constants.                      *)
(***************************************************************************)
EXTENDS Integers, Sequences, FiniteSets, SequencesExt

CONSTANTS
    CarrierChoices, SlotChoices, BurstChoices,   \* arguments of new-frame
    slot_packet_len_,   \* cell size of the link layer
    MAX_TERM,           \* MACs the program has room for: 1100
    MaxNodes, MaxFrames, MaxRules   \* bounds of the exploration

MAX_CARR  == 20
MAX_TS    == 256
MAX_BURST == 64000
MSK_LEN   == 512

ASSUME ChoiceAssumption ==
    /\ CarrierChoices \subseteq Nat /\ SlotChoices \subseteq Nat /\ BurstChoices \subseteq Nat
    /\ {slot_packet_len_, MAX_TERM} \subseteq Nat
    /\ MaxNodes \in Nat /\ MaxFrames \in Nat /\ MaxRules \in Nat

VARIABLES
    phase,        \* "script", "running", or "exited" after a fatal error
    nodes,        \* MacTdmaDama::active_node_: MACs created so far
    active_node_, \* the allocator's copy; 0 before it is installed
    sf,           \* the frames, sf[1..nf]
    masksize,     \* C++: product of the timeslots of all frames
    slot_count_,  \* Tcl: slots of the superframe
    ruled         \* the pairs <<terminal, frame>> of the rules
script == <<phase, nodes, active_node_, sf, masksize, slot_count_, ruled>>

Frame == [carriers_ : Nat \ {0}, timeslots_ : Nat \ {0}, burstsize_ : Nat]

-----------------------------------------------------------------------------
\* MacTdmaDama(): every MAC takes the next slot number; the program aborts when
\* there are too many.
NewNode ==
    /\ phase = "script" /\ nodes < MaxNodes
    /\ nodes' = nodes + 1
    /\ phase' = IF nodes' > MAX_TERM THEN "exited" ELSE "script"
    /\ UNCHANGED <<active_node_, sf, masksize, slot_count_, ruled>>

\* init(): the tables of the allocator are sized for the nodes that exist.
Attach == active_node_' = nodes

InstallAllocator ==
    /\ phase = "script" /\ nodes > 0 /\ active_node_ = 0
    /\ Attach
    /\ UNCHANGED <<phase, nodes, sf, masksize, slot_count_, ruled>>

Acceptable(car, ts, bs) ==
    /\ car \in 1 .. MAX_CARR
    /\ ts \in 1 .. MAX_TS
    /\ bs >= slot_packet_len_ /\ bs <= MAX_BURST

MaskSum(car, ts) == masksize + ts
MaskWith(car, ts) == masksize * ts
MaskHolds(size) == size <= MSK_LEN * 8
SlotsOnce(car, ts) == slot_count_ + ts
SlotsWith(car, ts) == slot_count_ + car * ts

CanConfigure == phase = "script" /\ active_node_ > 0

\* add-new-frame appends the frame and multiplies the mask before it looks whether
\* the mask is too long.
AddNewFrame(car, ts, bs) ==
    /\ sf' = Append(sf, [carriers_ |-> car, timeslots_ |-> ts, burstsize_ |-> bs])
    /\ masksize' = MaskWith(car, ts)

\* new-frame: add-new-frame, the slot counter, and attach.
NewFrame(car, ts, bs) ==
    /\ CanConfigure /\ Len(sf) < MaxFrames
    /\ Acceptable(car, ts, bs)
    /\ AddNewFrame(car, ts, bs)
    /\ MaskHolds(masksize')
    /\ slot_count_' = SlotsWith(car, ts)
    /\ Attach
    /\ UNCHANGED <<phase, nodes, ruled>>

\* new-frame exits on a bad argument, before the frame is added.
RefuseFrame(car, ts, bs) ==
    /\ CanConfigure /\ ~Acceptable(car, ts, bs)
    /\ phase' = "exited"
    /\ UNCHANGED <<nodes, active_node_, sf, masksize, slot_count_, ruled>>

\* A mask that is too long is a Tcl error, which ends the script in the middle of
\* new-frame: the frame is there, its slots were not counted.
OverlongFrame(car, ts, bs) ==
    /\ CanConfigure /\ Len(sf) < MaxFrames
    /\ Acceptable(car, ts, bs)
    /\ AddNewFrame(car, ts, bs)
    /\ ~MaskHolds(masksize')
    /\ phase' = "exited"
    /\ UNCHANGED <<nodes, active_node_, slot_count_, ruled>>

AddRule(t, f) ==
    /\ CanConfigure /\ Cardinality(ruled) < MaxRules
    /\ ruled' = ruled \cup {<<t, f>>}
    /\ UNCHANGED <<phase, nodes, active_node_, sf, masksize, slot_count_>>

\* add-rule exits if the terminal has a MAC of another class.
RefuseRule ==
    /\ CanConfigure
    /\ phase' = "exited"
    /\ UNCHANGED <<nodes, active_node_, sf, masksize, slot_count_, ruled>>

\* "$ns run"
Run ==
    /\ CanConfigure /\ sf # << >>
    /\ phase' = "running"
    /\ UNCHANGED <<nodes, active_node_, sf, masksize, slot_count_, ruled>>

PlanInit ==
    /\ phase = "script" /\ nodes = 0 /\ active_node_ = 0
    /\ sf = << >> /\ masksize = 1 /\ slot_count_ = 0 /\ ruled = {}

PlanNext ==
    \/ NewNode \/ InstallAllocator \/ Run \/ RefuseRule
    \/ \E car \in CarrierChoices, ts \in SlotChoices, bs \in BurstChoices :
          NewFrame(car, ts, bs) \/ RefuseFrame(car, ts, bs) \/ OverlongFrame(car, ts, bs)
    \/ \E t \in 0 .. nodes - 1 : \E f \in DOMAIN sf : AddRule(t, f)

PlanSpec == PlanInit /\ [][PlanNext]_script

-----------------------------------------------------------------------------
(* Properties                                                              *)

\* The configuration stays in range; the allocator never knows more terminals
\* than there are MACs.
TypeOK ==
    /\ phase \in {"script", "running", "exited"}
    /\ nodes \in Nat /\ active_node_ \in Nat /\ active_node_ <= nodes
    /\ sf \in Seq(Frame) /\ masksize \in Nat \ {0} /\ slot_count_ \in Nat
    /\ ruled \subseteq (Nat \X Nat)

\* The mask of a terminal divides evenly into the timeslots of every frame,
\* which testmask() and setmask() rely on: no bit belongs to two timeslots and
\* none to no timeslot.
MaskDivides ==
    \A k \in DOMAIN sf : \E m \in 1 .. masksize : masksize = m * sf[k].timeslots_

\* As long as the script goes on, the mask fits in the MSK_LEN bytes of a terminal and
\* the Tcl counter agrees with the frames the C++ side holds, so freeslots starts at
\* the number of cells; and the allocator's tables have room for every terminal.  The
\* frame that breaks this ends the script.
SuperframeUsable ==
    phase # "exited" =>
        /\ masksize <= MSK_LEN * 8
        /\ slot_count_ = FoldSeq(LAMBDA f, n : n + f.carriers_ * f.timeslots_, 0, sf)
        /\ nodes <= MAX_TERM
=============================================================================
