-------------------------- MODULE AllocatorProofs --------------------------
(***************************************************************************)
(* Theorems about AllocatorMFTDMA, for superframes of any shape, any       *)
(* number of terminals and any rules.  The invariants do not depend on the *)
(* values of the report (feedback_, utility_, utilization_, load_).        *)
(***************************************************************************)
EXTENDS AllocatorMFTDMA, SequenceLemmas, FiniteSetTheorems

-----------------------------------------------------------------------------
(* Arithmetic of the search and of the mask                                *)

\* The search always moves on to a terminal.
LEMMA FollowingInTerm == \A t \in Term : Following(t) \in Term
  BY SizeAssumption DEF Term, Following

LEMMA DivExact == \A k, t \in Nat \ {0} : (k * t) \div t = k
  BY SMT

\* A timeslot of frame f covers k consecutive bits of the mask, where k is the
\* number of times the timeslots of f go into masksize.
LEMMA FieldShape ==
  ASSUME NEW f \in Frames
  PROVE  \E k \in Nat \ {0} :
            /\ masksize = k * timeslots_[f]
            /\ \A j \in Nat : Field(f, j) = (j * k) .. ((j + 1) * k - 1)
<1>1. timeslots_[f] \in Nat \ {0} /\ masksize \in Nat \ {0}
  BY SizeAssumption, MaskAssumption
<1>2. PICK k \in 1 .. masksize : masksize = k * timeslots_[f]
  BY MaskAssumption
<1>3. k \in Nat \ {0}
  BY <1>1, <1>2
<1>4. masksize \div timeslots_[f] = k
  BY <1>1, <1>2, <1>3, DivExact
<1>5. QED
  BY <1>2, <1>3, <1>4 DEF Field

\* A timeslot of a frame lies within the mask and covers some of it.
LEMMA FieldInMask ==
  ASSUME NEW f \in Frames, NEW j \in Slots(f)
  PROVE  Field(f, j) \in SUBSET (0 .. masksize - 1)
<1>1. timeslots_[f] \in Nat \ {0} /\ masksize \in Nat \ {0} /\ j \in 0 .. timeslots_[f] - 1
  BY SizeAssumption, MaskAssumption DEF Slots
<1>2. PICK k \in Nat \ {0} :
         masksize = k * timeslots_[f] /\ Field(f, j) = (j * k) .. ((j + 1) * k - 1)
  BY FieldShape, <1>1
<1>3. (j + 1) * k <= timeslots_[f] * k
  BY <1>1, <1>2
<1>4. j * k \in Nat /\ (j + 1) * k \in Nat
  BY <1>1, <1>2
<1>5. (j + 1) * k <= masksize
  BY <1>1, <1>2, <1>3
<1>6. QED
  BY <1>1, <1>2, <1>4, <1>5

LEMMA CrossScale ==
  ASSUME NEW k \in Nat \ {0}, NEW l \in Nat \ {0}, NEW s \in Nat \ {0},
         NEW u \in Nat \ {0}, NEW i \in Nat, NEW j \in Nat,
         k * s = l * u, i * u < (j + 1) * s
  PROVE  i * k < (j + 1) * l
  BY SMT

LEMMA Stretch ==
  ASSUME NEW k \in Nat \ {0}, NEW i \in Nat
  PROVE  i * k \in Nat /\ (i + 1) * k \in Nat /\ i * k <= (i + 1) * k - 1
  BY SMT

\* Bursts that are on the air together share a bit of the mask.
LEMMA OverlapSharesMask ==
  ASSUME NEW b \in Bursts, NEW d \in Bursts, Overlap(b, d)
  PROVE  Field(b.fp, b.slot) \cap Field(d.fp, d.slot) # {}
<1>. DEFINE i == b.slot  j == d.slot
            s == timeslots_[b.fp]  u == timeslots_[d.fp]
<1>1. b.fp \in Frames /\ d.fp \in Frames /\ i \in Nat /\ j \in Nat
  BY DEF Bursts
<1>2. s \in Nat \ {0} /\ u \in Nat \ {0}
  BY <1>1, SizeAssumption
<1>3. PICK k \in Nat \ {0} :
         masksize = k * s /\ Field(b.fp, i) = (i * k) .. ((i + 1) * k - 1)
  BY <1>1, FieldShape
<1>4. PICK l \in Nat \ {0} :
         masksize = l * u /\ Field(d.fp, j) = (j * l) .. ((j + 1) * l - 1)
  BY <1>1, FieldShape
<1>5. i * u < (j + 1) * s /\ j * s < (i + 1) * u
  BY DEF Overlap
<1>6. i * k < (j + 1) * l
  BY <1>1, <1>2, <1>3, <1>4, <1>5, CrossScale
<1>7. j * l < (i + 1) * k
  BY <1>1, <1>2, <1>3, <1>4, <1>5, CrossScale
<1>8. /\ i * k \in Nat /\ (i + 1) * k \in Nat /\ i * k <= (i + 1) * k - 1
      /\ j * l \in Nat /\ (j + 1) * l \in Nat /\ j * l <= (j + 1) * l - 1
  BY <1>1, <1>3, <1>4, Stretch
<1>9. CASE i * k <= j * l
  BY <1>3, <1>4, <1>7, <1>8, <1>9
<1>10. CASE j * l <= i * k
  BY <1>3, <1>4, <1>6, <1>8, <1>10
<1>11. QED
  BY <1>8, <1>9, <1>10

-----------------------------------------------------------------------------
(* Type correctness                                                        *)

\* A grant keeps the types: it needs the frame and a timeslot of that frame.
LEMMA GrantType ==
  ASSUME TypeOK, NEW f \in Frames, NEW j \in Slots(f), Grant(f, j)
  PROVE  /\ pc' \in {"idle", "assign"} /\ pass' \in 1 .. 3
         /\ reqv_rate' \in [Term -> Nat] /\ reqv_volume' \in [Term -> Nat]
         /\ deficit' \in [Term -> Int] /\ a' \in [Term -> Nat]
         /\ cur_term' \in Term /\ left_to_check' \in 0 .. N /\ freeslots' \in Int
         /\ tbtp' \in Seq(Bursts)
         /\ \A n \in DOMAIN tbtp' : tbtp'[n].slot \in Slots(tbtp'[n].fp)
         /\ slot_num_' \in Nat
<1>1. burstsize_[f] \in Nat /\ timeslots_[f] \in Nat \ {0} /\ N \in Nat \ {0}
  BY SizeAssumption
<1>2. j \in Nat
  BY <1>1 DEF Slots
<1>3. [assignment_id |-> cur_term, fp |-> f, slot |-> j] \in Bursts
  BY <1>2 DEF Bursts, TypeOK
<1>4. tbtp' \in Seq(Bursts)
  BY <1>3 DEF Grant, TypeOK
<1>5. \A n \in DOMAIN tbtp' : tbtp'[n].slot \in Slots(tbtp'[n].fp)
  BY <1>3 DEF Grant, TypeOK
<1>6. cur_term' \in Term /\ left_to_check' \in 0 .. N
  BY <1>1, FollowingInTerm DEF Grant, TypeOK, AfterGrant, RestartSearch
<1>7. deficit' \in [Term -> Int] /\ a' \in [Term -> Nat]
  BY <1>1, SMTT(30) DEF Grant, TypeOK
<1>8. freeslots' \in Int /\ slot_num_' \in Nat
  BY DEF Grant, TypeOK
<1>9. /\ pc' \in {"idle", "assign"} /\ pass' \in 1 .. 3
      /\ reqv_rate' \in [Term -> Nat] /\ reqv_volume' \in [Term -> Nat]
  BY DEF Grant, TypeOK, requests
<1>10. QED
  BY <1>4, <1>5, <1>6, <1>7, <1>8, <1>9

\* The state of a pass that begins.
LEMMA BeginType ==
  ASSUME TypeOK, NEW req \in [Term -> Nat], InitRequestQueues(req)
  PROVE  deficit' \in [Term -> Int] /\ left_to_check' \in 0 .. N /\ cur_term' \in Term
BY SizeAssumption, SMTT(30) DEF InitRequestQueues, Loaded, SearchLength, TypeOK

\* A rule leads to a frame of the superframe.
LEMMA FrameOfType ==
  ASSUME NEW t \in Term, NEW r \in DOMAIN rules[t]
  PROVE  FrameOf(t, r) \in Frames
<1>. DEFINE R == [rule : {0, SMALL}, fp : Frames]
<1>1. rules[t] \in Seq(R)
  BY RuleAssumption
<1>2. \A x \in R : x.fp \in Frames
  OBVIOUS
<1>. HIDE DEF R
<1>3. rules[t][r] \in R
  BY <1>1
<1>4. QED
  BY <1>2, <1>3 DEF FrameOf

\* The superframe has finitely many cells, so slot_count_ is a number.
LEMMA CellsFinite == IsFiniteSet(Cells) /\ slot_count_ \in Nat
<1>. DEFINE CellsOf(f) == {<<f, i, j>> : i \in Carriers(f), j \in Slots(f)}
<1>1. ASSUME NEW f \in Frames PROVE IsFiniteSet(CellsOf(f))
  <2>. DEFINE P == Carriers(f) \X Slots(f)
              cell == [c \in P |-> <<f, c[1], c[2]>>]
  <2>1. carriers_[f] \in Nat /\ timeslots_[f] \in Nat
    BY SizeAssumption
  <2>2. IsFiniteSet(Carriers(f)) /\ IsFiniteSet(Slots(f))
    <3>1. 0 \in Int /\ carriers_[f] - 1 \in Int /\ timeslots_[f] - 1 \in Int
      BY <2>1
    <3>2. IsFiniteSet(0 .. carriers_[f] - 1) /\ IsFiniteSet(0 .. timeslots_[f] - 1)
      BY <3>1, FS_Interval
    <3>3. QED
      BY <3>2 DEF Carriers, Slots
  <2>3. IsFiniteSet(P)
    BY <2>2, FS_Product
  <2>4. cell \in Surjection(P, CellsOf(f))
    <3>1. cell \in [P -> CellsOf(f)]
      OBVIOUS
    <3>2. ASSUME NEW t \in CellsOf(f) PROVE \E c \in P : cell[c] = t
      <4>1. PICK i \in Carriers(f), j \in Slots(f) : t = <<f, i, j>>
        OBVIOUS
      <4>2. <<i, j>> \in P /\ cell[<<i, j>>] = t
        BY <4>1
      <4>3. QED
        BY <4>2
    <3>. HIDE DEF cell, P, CellsOf
    <3>3. QED
      BY <3>1, <3>2 DEF Surjection
  <2>5. QED
    BY <2>3, <2>4, FS_Surjection
<1>2. IsFiniteSet({CellsOf(f) : f \in Frames})
  <2>. DEFINE S == {CellsOf(f) : f \in Frames}
              cells == [f \in Frames |-> CellsOf(f)]
  <2>1. IsFiniteSet(Frames)
    BY SizeAssumption, FS_Interval DEF Frames
  <2>2. cells \in [Frames -> S] /\ \A t \in S : \E f \in Frames : cells[f] = t
    OBVIOUS
  <2>. HIDE DEF cells, S
  <2>3. cells \in Surjection(Frames, S)
    BY <2>2 DEF Surjection
  <2>4. IsFiniteSet(S)
    BY <2>1, <2>3, FS_Surjection
  <2>5. QED
    BY <2>4 DEF S
<1>3. IsFiniteSet(UNION {CellsOf(f) : f \in Frames})
  <2>1. \A T \in {CellsOf(f) : f \in Frames} : IsFiniteSet(T)
    BY <1>1
  <2>. HIDE DEF CellsOf
  <2>2. QED
    BY <1>2, <2>1, FS_UNION
<1>4. IsFiniteSet(Cells)
  BY <1>3 DEF Cells
<1>5. QED
  BY <1>4, FS_CardinalityType DEF slot_count_

\* No step changes the mode.
LEMMA ModeStays == [Next]_vars => mode_' = mode_
BY DEF Next, Allocation, RcvReq, vars

\* Every step keeps every variable in its range.
LEMMA TypeStep == TypeOK /\ [Next]_vars => TypeOK'
<1>. SUFFICES ASSUME TypeOK, [Next]_vars PROVE TypeOK'
  OBVIOUS
<1>. USE DEF requests, search, plan, report
<1>0. /\ cnst_rate \in [Term -> Nat] /\ reqv_rate \in [Term -> Nat]
      /\ reqv_volume \in [Term -> Nat] /\ N \in Nat \ {0}
  BY DemandAssumption, SizeAssumption DEF TypeOK
<1>12. mode_' \in Modes
  BY ModeStays DEF TypeOK
<1>1. ASSUME NEW t \in Requesters, RcvReq(t) PROVE TypeOK'
  BY <1>1, <1>12, DemandAssumption, SMTT(30) DEF RcvReq, TypeOK
<1>2. CASE BeginCRA
  <2>1. deficit' \in [Term -> Int] /\ left_to_check' \in 0 .. N /\ cur_term' \in Term
    BY <1>0, <1>2, BeginType DEF BeginCRA
  <2>2. freeslots' \in Int
    BY <1>2, CellsFinite DEF BeginCRA
  <2>3. tbtp' = << >> /\ slot_num_' = 0
    BY <1>2 DEF BeginCRA
  <2>6. /\ tbtp' \in Seq(Bursts)
        /\ \A n \in DOMAIN tbtp' : tbtp'[n].slot \in Slots(tbtp'[n].fp)
        /\ slot_num_' \in Nat
    BY <2>3
  <2>4. /\ a' \in [Term -> Nat] /\ grid' \in [Cells -> Term \cup {NOTHING_TO_SEND}]
        /\ mask' \in [Term -> SUBSET (0 .. masksize - 1)]
    BY <1>2 DEF BeginCRA, BytesCleared
  <2>5. /\ pc' \in {"idle", "assign"} /\ pass' \in 1 .. 3
        /\ reqv_rate' \in [Term -> Nat] /\ reqv_volume' \in [Term -> Nat]
    BY <1>2, <1>0 DEF BeginCRA
  <2>7. QED
    BY <1>12, <2>1, <2>2, <2>6, <2>4, <2>5 DEF TypeOK
<1>3. CASE BeginRBDC
  <2>1. deficit' \in [Term -> Int] /\ left_to_check' \in 0 .. N /\ cur_term' \in Term
    BY <1>0, <1>3, BeginType DEF BeginRBDC
  <2>2. QED
    BY <1>3, <1>12, <2>1, SMTT(30) DEF BeginRBDC, TypeOK
<1>4. CASE BeginVBDC
  <2>1. deficit' \in [Term -> Int] /\ left_to_check' \in 0 .. N /\ cur_term' \in Term
    BY <1>0, <1>4, BeginType DEF BeginVBDC
  <2>2. QED
    BY <1>4, <1>12, <2>1, SMTT(30) DEF BeginVBDC, TypeOK
<1>5. CASE SkipSatisfied
  BY <1>0, <1>5, <1>12, FollowingInTerm DEF SkipSatisfied, Seeking, VisitCounted, TypeOK
<1>6. CASE Place
  <2>0. PICK r \in Eligible(cur_term) :
           \E c \in Available(cur_term, FrameOf(cur_term, r)) :
              /\ grid' = [grid EXCEPT ![<<FrameOf(cur_term, r), c[1], c[2]>>] = cur_term]
              /\ mask' = [mask EXCEPT ![cur_term] = @ \cup Field(FrameOf(cur_term, r), c[2])]
              /\ Grant(FrameOf(cur_term, r), c[2])
    BY <1>6 DEF Place
  <2>. DEFINE f == FrameOf(cur_term, r)
  <2>1. PICK c \in Available(cur_term, f) :
           /\ grid' = [grid EXCEPT ![<<f, c[1], c[2]>>] = cur_term]
           /\ mask' = [mask EXCEPT ![cur_term] = @ \cup Field(f, c[2])]
           /\ Grant(f, c[2])
    BY <2>0
  <2>2. f \in Frames
    BY FrameOfType DEF TypeOK, Eligible
  <2>3. c[2] \in Slots(f)
    BY DEF Available
  <2>4. Field(f, c[2]) \in SUBSET (0 .. masksize - 1)
    BY <2>2, <2>3, FieldInMask
  <2>5. /\ grid' \in [Cells -> Term \cup {NOTHING_TO_SEND}]
        /\ mask' \in [Term -> SUBSET (0 .. masksize - 1)]
    BY <2>1, <2>4 DEF TypeOK
  <2>6. QED
    BY <1>12, <2>1, <2>2, <2>3, <2>5, GrantType DEF TypeOK
<1>7. CASE StaleGrant
  <2>0. PICK f \in Frames : \E j \in Slots(f) : Grant(f, j)
    BY <1>7 DEF StaleGrant
  <2>1. PICK j \in Slots(f) : Grant(f, j)
    BY <2>0
  <2>2. UNCHANGED <<grid, mask>>
    BY <1>7 DEF StaleGrant
  <2>3. QED
    BY <1>12, <2>1, <2>2, GrantType DEF TypeOK
<1>8. CASE NoLuck
  BY <1>0, <1>8, <1>12, FollowingInTerm DEF NoLuck, Seeking, VisitCounted, TypeOK
<1>9. CASE FinishAllocation
  <2>1. deficit' \in [Term -> Int]
    BY <1>9, ModeAssumption DEF FinishAllocation, CarryOver, TypeOK
  <2>2. QED
    BY <1>9, <1>12, <2>1 DEF FinishAllocation, TypeOK
<1>10. CASE UNCHANGED vars
  BY <1>10 DEF vars, TypeOK
<1>11. QED
  BY <1>1, <1>2, <1>3, <1>4, <1>5, <1>6, <1>7, <1>8, <1>9, <1>10 DEF Next, Allocation

\* Whatever the superframe, the rules and the order of requests, the tables of
\* the allocator stay in range: cur_term stays an index of deficit and tr, the
\* search counter does not pass the number of terminals, and every descriptor
\* of the TBTP names a terminal, a frame and a timeslot of that frame.
THEOREM TypeCorrect == Spec => []TypeOK
<1>1. Init => TypeOK
  BY SizeAssumption DEF Init, TypeOK, Term
<1>2. TypeOK /\ [Next]_vars => TypeOK'
  BY TypeStep
<1>3. QED
  BY <1>1, <1>2, PTL DEF Spec

-----------------------------------------------------------------------------
(* The plan: what the descriptors of the TBTP and the grid have in common  *)

\* A terminal that neither asks nor has a constant rate is owed nothing.
NeverOwed ==
    \A t \in Term : t \notin Requesters /\ cnst_rate[t] = 0 =>
        reqv_rate[t] = 0 /\ reqv_volume[t] = 0 /\ deficit[t] <= 0

\* The bits of every burst are set in the mask of its terminal.
MaskCoversPlan ==
    \A n \in DOMAIN tbtp :
        Field(tbtp[n].fp, tbtp[n].slot) \subseteq mask[tbtp[n].assignment_id]

\* Two bursts of a terminal have no bit in common.
FieldsDisjoint ==
    \A m, n \in DOMAIN tbtp :
        m # n /\ tbtp[m].assignment_id = tbtp[n].assignment_id =>
            Field(tbtp[m].fp, tbtp[m].slot) \cap Field(tbtp[n].fp, tbtp[n].slot) = {}

PlanInv ==
    /\ TypeOK
    /\ NeverOwed
    /\ MaskCoversPlan
    /\ FieldsDisjoint
    /\ GridMatchesPlan
    /\ FreeslotsAreFree

\* The step of assign_timeslot() that can disturb the plan, with its choices
\* named: rule r, its frame f and the available cell c.
Booking(f, c) ==
    /\ c \in Available(cur_term, f)
    /\ grid' = [grid EXCEPT ![<<f, c[1], c[2]>>] = cur_term]
    /\ mask' = [mask EXCEPT ![cur_term] = @ \cup Field(f, c[2])]
    /\ Grant(f, c[2])

LEMMA PlaceBooks ==
  ASSUME TypeOK, Place
  PROVE  \E f \in Frames : \E c \in Carriers(f) \X Slots(f) : Booking(f, c)
<1>1. PICK r \in Eligible(cur_term) :
         \E c \in Available(cur_term, FrameOf(cur_term, r)) :
            Booking(FrameOf(cur_term, r), c)
  BY DEF Place, Booking
<1>2. FrameOf(cur_term, r) \in Frames
  BY FrameOfType DEF TypeOK, Eligible
<1>3. QED
  BY <1>1, <1>2 DEF Available

LEMMA CellInCells ==
  ASSUME NEW f \in Frames, NEW i \in Carriers(f), NEW j \in Slots(f)
  PROVE  <<f, i, j>> \in Cells
BY DEF Cells

\* With a rule that has no condition, a terminal that is owed something always
\* has a rule to try, so the stale value of frame is never used.
LEMMA NoStaleGrant ==
  ASSUME TypeOK, NeverOwed, WellRuled, StaleGrant
  PROVE  FALSE
<1>1. cur_term \in Term /\ deficit[cur_term] > 0 /\ Eligible(cur_term) = {}
  BY DEF StaleGrant, Owed, TypeOK
<1>2. cur_term \in Requesters \/ cnst_rate[cur_term] > 0
  BY <1>1, DemandAssumption DEF NeverOwed, TypeOK
<1>3. \E r \in DOMAIN rules[cur_term] : rules[cur_term][r].rule # SMALL
  BY <1>1, <1>2 DEF WellRuled
<1>4. QED
  BY <1>1, <1>3 DEF Eligible

LEMMA BookingKeepsMask ==
  ASSUME TypeOK, MaskCoversPlan, FieldsDisjoint,
         NEW f \in Frames, NEW c \in Carriers(f) \X Slots(f), Booking(f, c)
  PROVE  MaskCoversPlan' /\ FieldsDisjoint'
<1>. DEFINE new == [assignment_id |-> cur_term, fp |-> f, slot |-> c[2]]
<1>1. /\ tbtp' = Append(tbtp, new) /\ tbtp \in Seq(Bursts)
      /\ mask \in [Term -> SUBSET (0 .. masksize - 1)] /\ cur_term \in Term
      /\ mask' = [mask EXCEPT ![cur_term] = @ \cup Field(f, c[2])]
      /\ Field(f, c[2]) \cap mask[cur_term] = {}
  BY DEF Booking, Grant, TypeOK, Available
<1>2. /\ DOMAIN tbtp' = DOMAIN tbtp \cup {Len(tbtp) + 1}
      /\ Len(tbtp) + 1 \notin DOMAIN tbtp
      /\ \A n \in DOMAIN tbtp : tbtp'[n] = tbtp[n]
      /\ tbtp'[Len(tbtp) + 1] = new
  BY <1>1
<1>3. \A n \in DOMAIN tbtp : tbtp[n] \in Bursts
  BY <1>1
<1>4. \A t \in Term : mask[t] \subseteq mask'[t]
  BY <1>1
<1>5. Field(f, c[2]) \subseteq mask'[cur_term]
  BY <1>1
<1>6. \A n \in DOMAIN tbtp :
         Field(tbtp[n].fp, tbtp[n].slot) \subseteq mask[tbtp[n].assignment_id]
  BY DEF MaskCoversPlan
<1>7. \A n \in DOMAIN tbtp' :
         Field(tbtp'[n].fp, tbtp'[n].slot) \subseteq mask'[tbtp'[n].assignment_id]
  <2>1. TAKE n \in DOMAIN tbtp'
  <2>2. CASE n \in DOMAIN tbtp
    <3>1. tbtp[n].assignment_id \in Term
      BY <1>3, <2>2 DEF Bursts
    <3>2. QED
      BY <1>2, <1>4, <1>6, <2>2, <3>1
  <2>3. CASE n = Len(tbtp) + 1
    BY <1>2, <1>5, <2>3
  <2>4. QED
    BY <1>2, <2>2, <2>3
<1>8. MaskCoversPlan'
  BY <1>7 DEF MaskCoversPlan, Field
<1>9. \A n \in DOMAIN tbtp : tbtp[n].assignment_id = cur_term =>
         Field(tbtp[n].fp, tbtp[n].slot) \cap Field(f, c[2]) = {}
  BY <1>1, <1>6
<1>10. \A m, n \in DOMAIN tbtp' :
         m # n /\ tbtp'[m].assignment_id = tbtp'[n].assignment_id =>
            Field(tbtp'[m].fp, tbtp'[m].slot) \cap Field(tbtp'[n].fp, tbtp'[n].slot) = {}
  <2>1. \A m, n \in DOMAIN tbtp :
         m # n /\ tbtp[m].assignment_id = tbtp[n].assignment_id =>
            Field(tbtp[m].fp, tbtp[m].slot) \cap Field(tbtp[n].fp, tbtp[n].slot) = {}
    BY DEF FieldsDisjoint
  <2>2. TAKE m, n \in DOMAIN tbtp'
  <2>3. HAVE m # n /\ tbtp'[m].assignment_id = tbtp'[n].assignment_id
  <2>4. CASE m \in DOMAIN tbtp /\ n \in DOMAIN tbtp
    BY <1>2, <2>1, <2>3, <2>4
  <2>5. CASE m \in DOMAIN tbtp /\ n = Len(tbtp) + 1
    BY <1>2, <1>9, <2>3, <2>5
  <2>6. CASE m = Len(tbtp) + 1 /\ n \in DOMAIN tbtp
    BY <1>2, <1>9, <2>3, <2>6
  <2>7. QED
    BY <1>2, <2>3, <2>4, <2>5, <2>6
<1>11. QED
  BY <1>8, <1>10 DEF FieldsDisjoint, Field

LEMMA BookingKeepsGrid ==
  ASSUME TypeOK, GridMatchesPlan,
         NEW f \in Frames, NEW c \in Carriers(f) \X Slots(f), Booking(f, c)
  PROVE  GridMatchesPlan'
<1>. DEFINE Burst(t, g, j) == [assignment_id |-> t, fp |-> g, slot |-> j]
            cell == <<f, c[1], c[2]>>
<1>1. /\ cell \in Cells /\ grid[cell] = NOTHING_TO_SEND
      /\ grid \in [Cells -> Term \cup {NOTHING_TO_SEND}]
      /\ grid' = [grid EXCEPT ![cell] = cur_term]
      /\ cur_term \in Term /\ NOTHING_TO_SEND \notin Term
  BY CellInCells DEF Booking, Available, TypeOK, Term, NOTHING_TO_SEND
<1>2. tbtp' = Append(tbtp, Burst(cur_term, f, c[2])) /\ tbtp \in Seq(Bursts)
  BY DEF Booking, Grant, TypeOK
<1>3. /\ DOMAIN tbtp' = DOMAIN tbtp \cup {Len(tbtp) + 1}
      /\ \A n \in DOMAIN tbtp : tbtp'[n] = tbtp[n]
      /\ tbtp'[Len(tbtp) + 1] = Burst(cur_term, f, c[2])
  BY <1>2
<1>4. SUFFICES ASSUME NEW g \in Frames, NEW j \in Slots(g), NEW t \in Term
               PROVE  (\E n \in DOMAIN tbtp' : tbtp'[n] = Burst(t, g, j))
                        <=> (\E i \in Carriers(g) : grid'[<<g, i, j>>] = t)
  BY DEF GridMatchesPlan, Slots, Carriers
<1>5. (\E n \in DOMAIN tbtp : tbtp[n] = Burst(t, g, j))
         <=> (\E i \in Carriers(g) : grid[<<g, i, j>>] = t)
  BY DEF GridMatchesPlan
<1>6. \A i \in Carriers(g) :
         grid'[<<g, i, j>>] = IF <<g, i, j>> = cell THEN cur_term ELSE grid[<<g, i, j>>]
  BY <1>1, CellInCells
<1>7. (\E n \in DOMAIN tbtp' : tbtp'[n] = Burst(t, g, j))
         <=> \/ \E n \in DOMAIN tbtp : tbtp[n] = Burst(t, g, j)
             \/ t = cur_term /\ g = f /\ j = c[2]
  BY <1>3
<1>8. (\E i \in Carriers(g) : grid'[<<g, i, j>>] = t)
         <=> \/ \E i \in Carriers(g) : grid[<<g, i, j>>] = t
             \/ t = cur_term /\ g = f /\ j = c[2]
  BY <1>1, <1>6
<1>9. QED
  BY <1>5, <1>7, <1>8

LEMMA BookingKeepsCount ==
  ASSUME TypeOK, FreeslotsAreFree, pc = "assign",
         NEW f \in Frames, NEW c \in Carriers(f) \X Slots(f), Booking(f, c)
  PROVE  FreeslotsAreFree'
<1>. DEFINE cell == <<f, c[1], c[2]>>
            free == {d \in Cells : grid[d] = NOTHING_TO_SEND}
<1>1. /\ cell \in free
      /\ grid \in [Cells -> Term \cup {NOTHING_TO_SEND}]
      /\ grid' = [grid EXCEPT ![cell] = cur_term]
      /\ cur_term # NOTHING_TO_SEND
  BY CellInCells DEF Booking, Available, TypeOK, Term, NOTHING_TO_SEND
<1>2. {d \in Cells : grid'[d] = NOTHING_TO_SEND} = free \ {cell}
  BY <1>1
<1>3. IsFiniteSet(free) /\ freeslots = Cardinality(free)
  BY CellsFinite, FS_Subset DEF FreeslotsAreFree
<1>4. Cardinality(free \ {cell}) = Cardinality(free) - 1
  <2>. HIDE DEF free, cell
  <2>1. QED
    BY <1>1, <1>3, FS_RemoveElement
<1>5. freeslots' = freeslots - 1
  BY DEF Booking, Grant
<1>6. QED
  BY <1>2, <1>3, <1>4, <1>5 DEF FreeslotsAreFree

\* Every step keeps a terminal without demand at zero.
LEMMA NeverOwedStep ==
  ASSUME TypeOK, NeverOwed, [Next]_vars
  PROVE  NeverOwed'
<1>. SUFFICES ASSUME NEW t \in Term, t \notin Requesters, cnst_rate[t] = 0
              PROVE  reqv_rate'[t] = 0 /\ reqv_volume'[t] = 0 /\ deficit'[t] <= 0
  BY DEF NeverOwed
<1>. USE DEF requests, search, plan, report
<1>0. /\ reqv_rate[t] = 0 /\ reqv_volume[t] = 0 /\ deficit[t] <= 0
      /\ deficit \in [Term -> Int] /\ cur_term \in Term
      /\ reqv_rate \in [Term -> Nat] /\ reqv_volume \in [Term -> Nat]
  BY DEF NeverOwed, TypeOK
<1>1. ASSUME NEW u \in Requesters, RcvReq(u) PROVE reqv_rate'[t] = 0 /\ reqv_volume'[t] = 0 /\ deficit'[t] <= 0
  BY <1>0, <1>1 DEF RcvReq
<1>2. CASE BeginCRA
  BY <1>0, <1>2 DEF BeginCRA, InitRequestQueues, Loaded
<1>3. CASE BeginRBDC
  BY <1>0, <1>3 DEF BeginRBDC, InitRequestQueues, Loaded
<1>4. CASE BeginVBDC
  BY <1>0, <1>4 DEF BeginVBDC, InitRequestQueues, Loaded
<1>5. CASE SkipSatisfied
  BY <1>0, <1>5 DEF SkipSatisfied
<1>6. ASSUME Owed(cur_term), NEW f \in Frames, NEW j \in Nat, Grant(f, j)
      PROVE reqv_rate'[t] = 0 /\ reqv_volume'[t] = 0 /\ deficit'[t] <= 0
  <2>1. t # cur_term
    BY <1>0, <1>6 DEF Owed
  <2>2. QED
    BY <1>0, <1>6, <2>1 DEF Grant
<1>7. CASE Place
  <2>1. PICK f \in Frames, c \in Nat \X Nat : Grant(f, c[2])
    <3>1. PICK f \in Frames : \E c \in Carriers(f) \X Slots(f) : Booking(f, c)
      BY <1>7, PlaceBooks
    <3>2. PICK c \in Carriers(f) \X Slots(f) : Booking(f, c)
      BY <3>1
    <3>3. carriers_[f] \in Nat /\ timeslots_[f] \in Nat
      BY SizeAssumption
    <3>4. c \in Nat \X Nat
      BY <3>2, <3>3 DEF Carriers, Slots
    <3>5. QED
      BY <3>2, <3>4 DEF Booking
  <2>2. Owed(cur_term)
    BY <1>7 DEF Place
  <2>3. QED
    BY <1>6, <2>1, <2>2
<1>8. CASE StaleGrant
  <2>1. PICK f \in Frames : \E j \in Slots(f) : Grant(f, j)
    BY <1>8 DEF StaleGrant
  <2>2. PICK j \in Slots(f) : Grant(f, j)
    BY <2>1
  <2>3. j \in Nat
    BY SizeAssumption DEF Slots
  <2>4. Owed(cur_term)
    BY <1>8 DEF StaleGrant
  <2>5. QED
    BY <1>6, <2>2, <2>3, <2>4
<1>9. CASE NoLuck
  BY <1>0, <1>9 DEF NoLuck
<1>10. CASE FinishAllocation
  BY <1>0, <1>10, ModeAssumption DEF FinishAllocation, CarryOver
<1>11. CASE UNCHANGED vars
  BY <1>0, <1>11 DEF vars
<1>12. QED
  BY <1>1, <1>2, <1>3, <1>4, <1>5, <1>7, <1>8, <1>9, <1>10, <1>11 DEF Next, Allocation

\* The steps that leave the plan alone keep everything said about it.
LEMMA PlanUntouched ==
  ASSUME MaskCoversPlan, FieldsDisjoint, GridMatchesPlan, FreeslotsAreFree,
         UNCHANGED plan, pc' = "assign" => pc = "assign"
  PROVE  MaskCoversPlan' /\ FieldsDisjoint' /\ GridMatchesPlan' /\ FreeslotsAreFree'
BY DEF plan, MaskCoversPlan, FieldsDisjoint, GridMatchesPlan, FreeslotsAreFree, Field

LEMMA BeginKeepsPlan ==
  ASSUME BeginCRA
  PROVE  MaskCoversPlan' /\ FieldsDisjoint' /\ GridMatchesPlan' /\ FreeslotsAreFree'
<1>1. /\ tbtp' = << >> /\ grid' = [c \in Cells |-> NOTHING_TO_SEND]
      /\ freeslots' = slot_count_
  BY DEF BeginCRA
<1>2. MaskCoversPlan' /\ FieldsDisjoint'
  BY <1>1 DEF MaskCoversPlan, FieldsDisjoint
<1>3. GridMatchesPlan'
  <2>1. ASSUME NEW f \in Frames, NEW j \in Slots(f), NEW t \in Term, NEW i \in Carriers(f)
        PROVE  grid'[<<f, i, j>>] # t
    <3>1. <<f, i, j>> \in Cells
      BY CellInCells
    <3>2. QED
      BY <1>1, <3>1 DEF Term, NOTHING_TO_SEND
  <2>2. DOMAIN tbtp' = {}
    BY <1>1
  <2>3. QED
    BY <2>1, <2>2 DEF GridMatchesPlan, Slots, Carriers
<1>4. FreeslotsAreFree'
  <2>1. {c \in Cells : grid'[c] = NOTHING_TO_SEND} = Cells
    BY <1>1
  <2>2. QED
    BY <1>1, <2>1 DEF FreeslotsAreFree, slot_count_
<1>5. QED
  BY <1>2, <1>3, <1>4

LEMMA PlanStep ==
  ASSUME WellRuled, PlanInv, [Next]_vars
  PROVE  PlanInv'
<1>. USE DEF requests, search, report
<1>1. TypeOK /\ TypeOK' /\ NeverOwed /\ NeverOwed'
  BY TypeStep, NeverOwedStep DEF PlanInv
<1>. SUFFICES MaskCoversPlan' /\ FieldsDisjoint' /\ GridMatchesPlan' /\ FreeslotsAreFree'
  BY <1>1 DEF PlanInv
<1>2. CASE BeginCRA
  BY <1>2, BeginKeepsPlan
<1>3. CASE Place
  <2>1. PICK f \in Frames : \E c \in Carriers(f) \X Slots(f) : Booking(f, c)
    BY <1>1, <1>3, PlaceBooks
  <2>2. PICK c \in Carriers(f) \X Slots(f) : Booking(f, c)
    BY <2>1
  <2>3. pc = "assign"
    BY <1>3 DEF Place, Seeking
  <2>4. QED
    BY <1>1, <2>2, <2>3, BookingKeepsMask, BookingKeepsGrid, BookingKeepsCount DEF PlanInv
<1>4. CASE StaleGrant
  BY <1>1, <1>4, NoStaleGrant
<1>5. CASE \/ BeginRBDC \/ BeginVBDC \/ SkipSatisfied \/ NoLuck \/ FinishAllocation
           \/ \E t \in Requesters : RcvReq(t)
           \/ UNCHANGED vars
  <2>1. UNCHANGED plan /\ (pc' = "assign" => pc = "assign")
    BY <1>5 DEF BeginRBDC, BeginVBDC, PassOver, SkipSatisfied, NoLuck,
                FinishAllocation, RcvReq, vars
  <2>2. QED
    BY <2>1, PlanUntouched DEF PlanInv
<1>6. QED
  BY <1>2, <1>3, <1>4, <1>5 DEF Next, Allocation

LEMMA PlanInit == Init => PlanInv
<1>. SUFFICES ASSUME Init PROVE PlanInv
  OBVIOUS
<1>1. TypeOK
  BY SizeAssumption DEF Init, TypeOK, Term
<1>2. NeverOwed
  BY DEF Init, NeverOwed
<1>3. MaskCoversPlan /\ FieldsDisjoint /\ FreeslotsAreFree
  BY DEF Init, MaskCoversPlan, FieldsDisjoint, FreeslotsAreFree
<1>4. GridMatchesPlan
  <2>1. ASSUME NEW f \in Frames, NEW j \in Slots(f), NEW t \in Term, NEW i \in Carriers(f)
        PROVE  grid[<<f, i, j>>] # t
    <3>1. <<f, i, j>> \in Cells
      BY CellInCells
    <3>2. QED
      BY <3>1 DEF Init, Term, NOTHING_TO_SEND
  <2>2. DOMAIN tbtp = {}
    BY DEF Init
  <2>3. QED
    BY <2>1, <2>2 DEF GridMatchesPlan
<1>5. QED
  BY <1>1, <1>2, <1>3, <1>4 DEF PlanInv

\* The invariant of the plan, for every superframe in which each terminal with
\* a demand has a rule without condition.
THEOREM PlanInvariant ==
  ASSUME WellRuled
  PROVE  Spec => []PlanInv
<1>1. Init => PlanInv
  BY PlanInit
<1>2. PlanInv /\ [Next]_vars => PlanInv'
  BY PlanStep
<1>3. QED
  BY <1>1, <1>2, PTL DEF Spec

\* No terminal is ever told to send two bursts at the same time, on any mix of
\* frames with different timeslots: what testmask() and setmask() are for.
THEOREM TransmitterExclusive ==
  ASSUME WellRuled
  PROVE  Spec => []TimeExclusive
<1>1. PlanInv => TimeExclusive
  <2>. SUFFICES ASSUME PlanInv, NEW m \in DOMAIN tbtp, NEW n \in DOMAIN tbtp, m # n,
                       tbtp[m].assignment_id = tbtp[n].assignment_id,
                       Overlap(tbtp[m], tbtp[n])
                PROVE  FALSE
    BY DEF TimeExclusive
  <2>1. tbtp[m] \in Bursts /\ tbtp[n] \in Bursts
    BY DEF PlanInv, TypeOK
  <2>2. Field(tbtp[m].fp, tbtp[m].slot) \cap Field(tbtp[n].fp, tbtp[n].slot) # {}
    BY <2>1, OverlapSharesMask
  <2>3. QED
    BY <2>2 DEF PlanInv, FieldsDisjoint
<1>2. QED
  BY <1>1, PlanInvariant, PTL

\* A terminal is told to send in a timeslot exactly when a cell of the grid is
\* booked for it there.
THEOREM PlanIsGrid ==
  ASSUME WellRuled
  PROVE  Spec => []GridMatchesPlan
<1>1. PlanInv => GridMatchesPlan
  BY DEF PlanInv
<1>2. QED
  BY <1>1, PlanInvariant, PTL

\* freeslots is the number of free cells while slots are being assigned.
THEOREM FreeslotsCounted ==
  ASSUME WellRuled
  PROVE  Spec => []FreeslotsAreFree
<1>1. PlanInv => FreeslotsAreFree
  BY DEF PlanInv
<1>2. QED
  BY <1>1, PlanInvariant, PTL

-----------------------------------------------------------------------------
(* Over-granting, with or without rules that admit every backlog           *)

\* A terminal is granted a burst only while it is owed something, so its
\* credit stays below one burst, whatever is carried over or forgotten.
LEMMA CreditStep ==
  ASSUME TypeOK, NoOverGrant, [Next]_vars
  PROVE  NoOverGrant'
<1>. USE DEF requests, search, plan, report
<1>0. /\ deficit \in [Term -> Int] /\ cur_term \in Term
      /\ burstsize_ \in [Frames -> Nat \ {0}]
      /\ reqv_rate \in [Term -> Nat] /\ reqv_volume \in [Term -> Nat]
      /\ cnst_rate \in [Term -> Nat]
  BY SizeAssumption, DemandAssumption DEF TypeOK
<1>. DEFINE Bounded(t) == \E f \in Frames : deficit'[t] > 0 - burstsize_[f]
<1>1. SUFFICES ASSUME NEW t \in Term PROVE Bounded(t)
  BY DEF NoOverGrant
<1>2. PICK g \in Frames : deficit[t] > 0 - burstsize_[g]
  BY DEF NoOverGrant
<1>3. ASSUME NEW req \in [Term -> Nat], InitRequestQueues(req)
      PROVE  Bounded(t)
  <2>1. deficit'[t] = deficit[t] + req[t] /\ req[t] \in Nat
    BY <1>3 DEF InitRequestQueues, Loaded
  <2>2. QED
    BY <1>0, <1>2, <2>1
<1>4. CASE BeginCRA
  BY <1>0, <1>3, <1>4 DEF BeginCRA
<1>5. CASE BeginRBDC
  BY <1>0, <1>3, <1>5 DEF BeginRBDC
<1>6. CASE BeginVBDC
  BY <1>0, <1>3, <1>6 DEF BeginVBDC
<1>7. ASSUME Owed(cur_term), NEW h \in Frames, NEW j, Grant(h, j)
      PROVE  Bounded(t)
  <2>1. deficit'[t] = IF t = cur_term THEN deficit[t] - burstsize_[h] ELSE deficit[t]
    BY <1>0, <1>7 DEF Grant
  <2>2. CASE t = cur_term
    BY <1>0, <1>7, <2>1, <2>2 DEF Owed
  <2>3. CASE t # cur_term
    BY <1>2, <2>1, <2>3
  <2>4. QED
    BY <2>2, <2>3
<1>8. CASE Place
  <2>1. PICK f \in Frames : \E c \in Carriers(f) \X Slots(f) : Booking(f, c)
    BY <1>8, PlaceBooks
  <2>2. PICK c \in Carriers(f) \X Slots(f) : Grant(f, c[2])
    BY <2>1 DEF Booking
  <2>3. QED
    BY <1>7, <1>8, <2>2 DEF Place
<1>9. CASE StaleGrant
  <2>1. PICK f \in Frames : \E j \in Slots(f) : Grant(f, j)
    BY <1>9 DEF StaleGrant
  <2>2. QED
    BY <1>7, <1>9, <2>1 DEF StaleGrant
<1>10. CASE FinishAllocation
  <2>1. deficit'[t] >= deficit[t] \/ deficit'[t] >= 0
    BY <1>0, <1>10, ModeAssumption DEF FinishAllocation, CarryOver
  <2>2. deficit'[t] \in Int
    BY <1>0, <1>10, ModeAssumption DEF FinishAllocation, CarryOver
  <2>3. QED
    BY <1>0, <1>2, <2>1, <2>2
<1>11. CASE SkipSatisfied \/ NoLuck \/ UNCHANGED vars \/ \E u \in Requesters : RcvReq(u)
  <2>1. deficit' = deficit
    BY <1>11 DEF SkipSatisfied, NoLuck, RcvReq, vars
  <2>2. QED
    BY <1>2, <2>1
<1>. HIDE DEF Bounded
<1>12. QED
  BY <1>4, <1>5, <1>6, <1>8, <1>9, <1>10, <1>11 DEF Next, Allocation

\* Whatever the demand, the rules and the layout, the allocator never gives a
\* terminal more than it is owed by as much as a burst, over any number of
\* superframes.
THEOREM CreditBounded == Spec => []NoOverGrant
<1>1. Init => NoOverGrant
  BY SizeAssumption DEF Init, NoOverGrant, Frames
<1>2. TypeOK /\ NoOverGrant /\ [Next]_vars => NoOverGrant'
  BY CreditStep
<1>3. QED
  BY <1>1, <1>2, TypeCorrect, PTL DEF Spec

-----------------------------------------------------------------------------
(* The search: when it gives up, and in which order it serves              *)

\* Nothing can be done for t: it is owed nothing, or no free cell fits it.
Done(t) == deficit[t] <= 0 \/ ~Placeable(t)

\* How many visits ago t was the current terminal, and in how many it will be.
Behind(t) == IF t < cur_term THEN cur_term - t ELSE cur_term + N - t
Ahead(t)  == IF t >= cur_term THEN t - cur_term ELSE t + N - cur_term

\* The visits that left_to_check counts down were in vain, and would still be.
RoundChecked == pc = "assign" => \A t \in Term : Behind(t) <= N - left_to_check => Done(t)

\* In SLOT_MODE, after burst m, a terminal gets one too, or needs or fits none, or
\* is looked at before the terminal of burst m is again.
RoundFair ==
    pc = "assign" /\ mode_ = SLOT_MODE =>
        \A m \in slot_num_ + 1 .. Len(tbtp) : \A t \in Term :
            \/ \E k \in m .. Len(tbtp) : tbtp[k].assignment_id = t
            \/ Done(t)
            \/ Ahead(t) < Ahead(tbtp[m].assignment_id)

\* Cells are only booked and bits only set while the slots of a pass are assigned.
LEMMA DoneStays ==
  ASSUME TypeOK, NEW t \in Term, Done(t), deficit'[t] = deficit[t], mask[t] \subseteq mask'[t],
         \A c \in Cells : grid'[c] = NOTHING_TO_SEND => grid[c] = NOTHING_TO_SEND
  PROVE  Done(t)'
<1>1. Eligible(t)' = Eligible(t)
  BY DEF Eligible
<1>2. ASSUME NEW r \in Eligible(t)
      PROVE  Available(t, FrameOf(t, r))' \subseteq Available(t, FrameOf(t, r))
  <2>1. FrameOf(t, r) \in Frames
    BY FrameOfType DEF Eligible
  <2>2. ASSUME NEW c \in Carriers(FrameOf(t, r)) \X Slots(FrameOf(t, r))
        PROVE  <<FrameOf(t, r), c[1], c[2]>> \in Cells
    BY <2>1, CellInCells
  <2>3. QED
    BY <2>2 DEF Available, Field, FrameOf, Carriers, Slots
<1>3. Placeable(t)' => Placeable(t)
  BY <1>1, <1>2 DEF Placeable, FrameOf
<1>4. QED
  BY <1>3 DEF Done

\* What a granted burst leaves.
LEMMA GrantEffects ==
  ASSUME TypeOK, Place \/ StaleGrant
  PROVE  /\ pc = "assign" /\ pc' = "assign" /\ left_to_check # 0 /\ slot_num_' = slot_num_
         /\ left_to_check' = RestartSearch /\ cur_term' = AfterGrant(cur_term)
         /\ Len(tbtp') = Len(tbtp) + 1 /\ tbtp'[Len(tbtp) + 1].assignment_id = cur_term
         /\ \A m \in 1 .. Len(tbtp) : tbtp'[m] = tbtp[m]
         /\ \A t \in Term : (t # cur_term /\ Done(t)) => Done(t)'
<1>1. /\ tbtp \in Seq(Bursts) /\ deficit \in [Term -> Int] /\ cur_term \in Term
      /\ mask \in [Term -> SUBSET (0 .. masksize - 1)]
      /\ grid \in [Cells -> Term \cup {NOTHING_TO_SEND}] /\ cur_term # NOTHING_TO_SEND
  BY DEF TypeOK, Term, NOTHING_TO_SEND
<1>2. pc = "assign" /\ left_to_check # 0
  BY DEF Place, StaleGrant, Seeking
<1>3. \E f \in Frames : \E j \in Slots(f) : Grant(f, j)
  BY PlaceBooks DEF Booking, StaleGrant
<1>4. PICK f \in Frames : \E j \in Slots(f) : Grant(f, j)
  BY <1>3
<1>5. PICK j \in Slots(f) : Grant(f, j)
  BY <1>4
<1>6. /\ \A t \in Term : mask[t] \subseteq mask'[t]
      /\ \A c \in Cells : grid'[c] = NOTHING_TO_SEND => grid[c] = NOTHING_TO_SEND
  <2>1. CASE Place
    <3>1. PICK g \in Frames : \E c \in Carriers(g) \X Slots(g) : Booking(g, c)
      BY <2>1, PlaceBooks
    <3>2. PICK c \in Carriers(g) \X Slots(g) : Booking(g, c)
      BY <3>1
    <3>3. QED
      BY <1>1, <3>2 DEF Booking
  <2>2. CASE StaleGrant
    BY <2>2 DEF StaleGrant
  <2>3. QED
    BY <2>1, <2>2
<1>7. ASSUME NEW t \in Term, t # cur_term, Done(t) PROVE Done(t)'
  <2>1. deficit'[t] = deficit[t]
    BY <1>1, <1>5, <1>7 DEF Grant
  <2>2. QED
    BY <1>6, <1>7, <2>1, DoneStays
<1>8. QED
  BY <1>1, <1>2, <1>5, <1>7 DEF Grant

\* What a visit in vain leaves.
LEMMA VisitEffects ==
  ASSUME TypeOK, SkipSatisfied \/ NoLuck
  PROVE  /\ pc = "assign" /\ left_to_check # 0 /\ UNCHANGED <<pc, slot_num_, tbtp>>
         /\ left_to_check' \in {left_to_check, left_to_check - 1}
         /\ cur_term' = Following(cur_term)
         /\ Done(cur_term) /\ \A t \in Term : Done(t) => Done(t)'
<1>. USE DEF plan, search
<1>1. UNCHANGED <<pc, slot_num_, tbtp, deficit, grid, mask>>
  BY DEF SkipSatisfied, NoLuck
<1>2. \A t \in Term : Done(t) => Done(t)'
  BY <1>1, DoneStays
<1>3. Done(cur_term)
  BY DEF SkipSatisfied, NoLuck, Owed, Done, TypeOK
<1>4. QED
  BY <1>1, <1>2, <1>3 DEF SkipSatisfied, NoLuck, Seeking, VisitCounted

\* The terminals that were current stay in order, the last one comes to their end.
LEMMA RoundMoves ==
  ASSUME TypeOK, cur_term' = Following(cur_term), NEW t \in Term
  PROVE  /\ Behind(t) \in 1 .. N /\ Ahead(t) \in 0 .. N - 1 /\ Ahead(t)' \in 0 .. N - 1
         /\ t # cur_term => Behind(t)' = Behind(t) + 1 /\ Ahead(t)' = Ahead(t) - 1
         /\ t = cur_term => Behind(t)' = 1 /\ Ahead(t)' = N - 1 /\ Behind(t) = N
<1>1. N \in Nat \ {0} /\ cur_term \in 0 .. N - 1 /\ t \in 0 .. N - 1
  BY SizeAssumption DEF TypeOK, Term
<1>2. cur_term' = IF cur_term = N - 1 THEN 0 ELSE cur_term + 1
  <2>1. N % N = 0 /\ \A x \in 0 .. N - 1 : x % N = x
    BY <1>1
  <2>2. cur_term # N - 1 => cur_term + 1 \in 0 .. N - 1
    BY <1>1
  <2>3. cur_term = N - 1 => cur_term + 1 = N
    BY <1>1
  <2>4. cur_term' = (cur_term + 1) % N
    BY DEF Following
  <2>5. QED
    BY <2>1, <2>2, <2>3, <2>4
<1>3. QED
  BY <1>1, <1>2 DEF Behind, Ahead

\* Nobody comes between t and its next visit but those that are behind.
LEMMA RoundStays ==
  ASSUME TypeOK, cur_term' = cur_term, NEW t \in Term
  PROVE  Behind(t)' = Behind(t) /\ Ahead(t)' = Ahead(t)
BY DEF Behind, Ahead

LEMMA RoundCheckedStep ==
  ASSUME TypeOK, RoundChecked, [Next]_vars
  PROVE  RoundChecked'
<1>. USE DEF requests, search, plan, report
<1>0. N \in Nat \ {0} /\ left_to_check \in 0 .. N /\ cur_term \in Term
  BY SizeAssumption DEF TypeOK
<1>1. SUFFICES ASSUME pc' = "assign", NEW t \in Term, Behind(t)' <= N - left_to_check'
               PROVE  Done(t)'
  BY DEF RoundChecked
<1>2. Behind(t)' \in 1 .. N
  <2>1. cur_term' \in Term
    BY TypeStep DEF TypeOK
  <2>2. cur_term' \in 0 .. N - 1 /\ t \in 0 .. N - 1
    BY <2>1 DEF Term
  <2>3. Behind(t)' = IF t < cur_term' THEN cur_term' - t ELSE cur_term' + N - t
    BY DEF Behind
  <2>4. N \in Nat
    BY SizeAssumption
  <2>5. \A c, x \in 0 .. N - 1 : (IF x < c THEN c - x ELSE c + N - x) \in 1 .. N
    BY <2>4
  <2>6. QED
    BY <2>2, <2>3, <2>5
<1>3. CASE BeginCRA \/ BeginRBDC \/ BeginVBDC
  <2>1. left_to_check' = N
    BY <1>3 DEF BeginCRA, BeginRBDC, BeginVBDC, InitRequestQueues, SearchLength
  <2>2. QED
    BY <1>0, <1>1, <1>2, <2>1
<1>4. CASE SkipSatisfied \/ NoLuck
  <2>1. /\ pc = "assign" /\ left_to_check' \in {left_to_check, left_to_check - 1}
        /\ cur_term' = Following(cur_term)
        /\ Done(cur_term) /\ \A x \in Term : Done(x) => Done(x)'
    BY <1>4, VisitEffects
  <2>2. CASE t = cur_term
    BY <1>0, <2>1, <2>2
  <2>3. CASE t # cur_term
    <3>1. Behind(t)' = Behind(t) + 1 /\ Behind(t) \in 1 .. N
      BY <2>1, <2>3, RoundMoves
    <3>2. Behind(t) <= N - left_to_check
      BY <1>0, <1>1, <2>1, <3>1
    <3>3. QED
      BY <2>1, <3>2 DEF RoundChecked
  <2>4. QED
    BY <2>2, <2>3
<1>5. CASE Place \/ StaleGrant
  <2>1. /\ pc = "assign" /\ left_to_check # 0
        /\ left_to_check' = RestartSearch /\ cur_term' = AfterGrant(cur_term)
        /\ \A x \in Term : (x # cur_term /\ Done(x)) => Done(x)'
    BY <1>5, GrantEffects
  <2>2. CASE mode_ = SLOT_MODE
    BY <1>0, <1>1, <1>2, <2>1, <2>2 DEF RestartSearch
  <2>3. CASE mode_ # SLOT_MODE
    <3>1. left_to_check' = left_to_check /\ cur_term' = cur_term
      BY <2>1, <2>3 DEF RestartSearch, AfterGrant
    <3>2. Behind(t) <= N - left_to_check
      BY <1>1, <3>1, RoundStays
    <3>3. t # cur_term
      BY <1>0, <2>1, <3>2 DEF Behind, Term
    <3>4. QED
      BY <2>1, <3>2, <3>3 DEF RoundChecked
  <2>4. QED
    BY <2>2, <2>3
<1>6. CASE FinishAllocation
  BY <1>1, <1>6 DEF FinishAllocation
<1>7. CASE UNCHANGED vars \/ \E u \in Requesters : RcvReq(u)
  <2>1. pc = "assign" /\ UNCHANGED <<deficit, cur_term, left_to_check, grid, mask>>
    BY <1>1, <1>7 DEF RcvReq, vars
  <2>2. Done(t)
    BY <1>1, <2>1, RoundStays DEF RoundChecked
  <2>3. QED
    BY <2>1, <2>2, DoneStays
<1>8. QED
  BY <1>3, <1>4, <1>5, <1>6, <1>7 DEF Next, Allocation

\* The search gives up only when no terminal is owed bytes that an eligible free
\* cell could carry: left_to_check, which is not set back in every case, counts right
\* in both modes, and an early end because freeslots is 0 leaves no free cell.
THEOREM NoWorkIsLeft ==
  ASSUME WellRuled
  PROVE  Spec => []WorkConserving
<1>1. Init => RoundChecked
  BY DEF Init, RoundChecked
<1>2. TypeOK /\ RoundChecked /\ [Next]_vars => RoundChecked'
  BY RoundCheckedStep
<1>3. PlanInv /\ RoundChecked => WorkConserving
  <2>. SUFFICES ASSUME PlanInv, RoundChecked, PassOver, NEW t \in Term, deficit[t] > 0, Placeable(t)
                PROVE  FALSE
    BY DEF WorkConserving
  <2>0. TypeOK /\ pc = "assign" /\ FreeslotsAreFree /\ deficit[t] \in Int
    BY DEF PlanInv, PassOver, TypeOK
  <2>1. CASE left_to_check = 0
    <3>1. Behind(t) <= N - left_to_check
      BY <2>0, <2>1, SizeAssumption DEF Behind, TypeOK, Term
    <3>2. Done(t)
      BY <2>0, <3>1 DEF RoundChecked
    <3>3. QED
      BY <2>0, <3>2 DEF Done
  <2>2. CASE freeslots = 0
    <3>1. PICK r \in Eligible(t) : Available(t, FrameOf(t, r)) # {}
      BY DEF Placeable
    <3>2. PICK c \in Available(t, FrameOf(t, r)) : TRUE
      BY <3>1
    <3>3. FrameOf(t, r) \in Frames
      BY FrameOfType DEF Eligible
    <3>. DEFINE cell == <<FrameOf(t, r), c[1], c[2]>>
                free == {d \in Cells : grid[d] = NOTHING_TO_SEND}
    <3>4. cell \in free
      BY <3>2, <3>3, CellInCells DEF Available
    <3>5. IsFiniteSet(free) /\ Cardinality(free) = 0
      BY <2>0, <2>2, CellsFinite, FS_Subset DEF FreeslotsAreFree
    <3>. HIDE DEF free, cell
    <3>6. QED
      BY <3>4, <3>5, FS_EmptySet
  <2>3. QED
    BY <2>1, <2>2 DEF PassOver
<1>4. QED
  BY <1>1, <1>2, <1>3, TypeCorrect, PlanInvariant, PTL DEF Spec

LEMMA RoundFairStep ==
  ASSUME TypeOK, RoundFair, [Next]_vars
  PROVE  RoundFair'
<1>. USE DEF requests, search, plan, report
<1>0. /\ N \in Nat \ {0} /\ cur_term \in Term /\ tbtp \in Seq(Bursts) /\ Len(tbtp) \in Nat
      /\ slot_num_ \in Nat /\ \A m \in 1 .. Len(tbtp) : tbtp[m].assignment_id \in Term
  <2>1. /\ N \in Nat \ {0} /\ cur_term \in Term /\ tbtp \in Seq(Bursts) /\ slot_num_ \in Nat
        /\ \A b \in Bursts : b.assignment_id \in Term
    BY SizeAssumption DEF TypeOK, Bursts
  <2>2. Len(tbtp) \in Nat /\ \A m \in 1 .. Len(tbtp) : tbtp[m] \in Bursts
    BY <2>1
  <2>3. QED
    BY <2>1, <2>2
<1>1. SUFFICES ASSUME pc' = "assign", mode_ = SLOT_MODE,
                      NEW m \in slot_num_' + 1 .. Len(tbtp'), NEW t \in Term
               PROVE  \/ \E k \in m .. Len(tbtp') : tbtp'[k].assignment_id = t
                      \/ Done(t)'
                      \/ Ahead(t)' < Ahead(tbtp[m].assignment_id)'
  BY ModeStays DEF RoundFair
<1>2. CASE BeginCRA \/ BeginRBDC \/ BeginVBDC
  <2>1. slot_num_' = Len(tbtp') /\ Len(tbtp') \in Nat
    BY <1>0, <1>2 DEF BeginCRA, BeginRBDC, BeginVBDC
  <2>2. QED
    BY <1>1, <2>1
<1>3. CASE SkipSatisfied \/ NoLuck
  <2>1. /\ pc = "assign" /\ slot_num_' = slot_num_ /\ tbtp' = tbtp
        /\ cur_term' = Following(cur_term)
        /\ Done(cur_term) /\ \A x \in Term : Done(x) => Done(x)'
    BY <1>3, VisitEffects
  <2>2. PICK u \in Term : /\ m \in 1 .. Len(tbtp) /\ m \in slot_num_ + 1 .. Len(tbtp)
                         /\ u = tbtp[m].assignment_id
    BY <1>0, <1>1, <2>1
  <2>3. \/ \E k \in m .. Len(tbtp) : tbtp[k].assignment_id = t
        \/ Done(t)
        \/ Ahead(t) < Ahead(u)
    BY <1>1, <2>1, <2>2 DEF RoundFair
  <2>4. CASE \E k \in m .. Len(tbtp) : tbtp[k].assignment_id = t
    BY <2>1, <2>4
  <2>5. CASE Done(t)
    BY <2>1, <2>5
  <2>6. CASE Ahead(t) < Ahead(u) /\ ~Done(t)
    <3>1. t # cur_term
      BY <2>1, <2>6
    <3>2. /\ Ahead(t) \in 0 .. N - 1 /\ Ahead(t)' = Ahead(t) - 1
          /\ Ahead(u) \in 0 .. N - 1 /\ (u # cur_term => Ahead(u)' = Ahead(u) - 1)
          /\ (u = cur_term => Ahead(u)' = N - 1)
      BY <2>1, <3>1, RoundMoves
    <3>3. Ahead(t)' < Ahead(u)'
      BY <1>0, <2>6, <3>2
    <3>4. Ahead(tbtp[m].assignment_id)' = Ahead(u)'
      BY <2>1, <2>2 DEF Ahead
    <3>5. QED
      BY <3>3, <3>4
  <2>7. QED
    BY <2>3, <2>4, <2>5, <2>6
<1>4. CASE Place \/ StaleGrant
  <2>. DEFINE L == Len(tbtp)
  <2>1. /\ pc = "assign" /\ slot_num_' = slot_num_ /\ cur_term' = Following(cur_term)
        /\ Len(tbtp') = L + 1 /\ tbtp'[L + 1].assignment_id = cur_term
        /\ \A k \in 1 .. L : tbtp'[k] = tbtp[k]
        /\ \A x \in Term : (x # cur_term /\ Done(x)) => Done(x)'
    BY <1>1, <1>4, GrantEffects DEF AfterGrant
  <2>2. CASE t = cur_term
    <3>1. L + 1 \in m .. Len(tbtp')
      BY <1>0, <1>1, <2>1
    <3>2. QED
      BY <2>1, <2>2, <3>1
  <2>3. CASE t # cur_term
    <3>1. Ahead(t) \in 0 .. N - 1 /\ Ahead(t)' = Ahead(t) - 1 /\ Ahead(cur_term) = 0
      <4>1. Ahead(t) \in 0 .. N - 1 /\ Ahead(t)' = Ahead(t) - 1
        BY <2>1, <2>3, RoundMoves
      <4>2. Ahead(cur_term) = 0
        BY <1>0 DEF Ahead, Term
      <4>3. QED
        BY <4>1, <4>2
    <3>2. PICK u \in Term : u = tbtp'[m].assignment_id
      <4>1. m \in 1 .. L \/ m = L + 1
        BY <1>0, <1>1, <2>1
      <4>2. QED
        BY <1>0, <2>1, <4>1
    <3>3. Ahead(tbtp[m].assignment_id)' = Ahead(u)'
      BY <3>2 DEF Ahead
    <3>4. CASE u = cur_term
      <4>1. Ahead(u)' = N - 1
        BY <2>1, <3>4, RoundMoves
      <4>2. Ahead(t)' < Ahead(u)'
        BY <1>0, <3>1, <4>1
      <4>3. QED
        BY <3>3, <4>2
    <3>5. CASE u # cur_term
      <4>1. m \in slot_num_ + 1 .. L /\ m \in 1 .. L /\ u = tbtp[m].assignment_id
        BY <1>0, <1>1, <2>1, <3>2, <3>5
      <4>2. \/ \E k \in m .. L : tbtp[k].assignment_id = t
            \/ Done(t)
            \/ Ahead(t) < Ahead(u)
        BY <1>1, <2>1, <4>1 DEF RoundFair
      <4>3. ASSUME NEW k \in m .. L, tbtp[k].assignment_id = t
            PROVE  \E x \in m .. Len(tbtp') : tbtp'[x].assignment_id = t
        <5>1. k \in 1 .. L /\ k \in m .. Len(tbtp')
          BY <1>0, <2>1, <4>1
        <5>2. QED
          BY <2>1, <4>3, <5>1
      <4>4. Ahead(u) \in 0 .. N - 1 /\ Ahead(u)' = Ahead(u) - 1
        BY <2>1, <3>5, RoundMoves
      <4>5. Ahead(t) < Ahead(u) => Ahead(t)' < Ahead(u)'
        BY <1>0, <3>1, <4>4
      <4>6. QED
        BY <2>1, <2>3, <3>3, <4>2, <4>3, <4>5
    <3>6. QED
      BY <3>4, <3>5
  <2>4. QED
    BY <2>2, <2>3
<1>5. CASE FinishAllocation
  BY <1>1, <1>5 DEF FinishAllocation
<1>6. CASE UNCHANGED vars \/ \E u \in Requesters : RcvReq(u)
  <2>1. pc = "assign" /\ UNCHANGED <<deficit, cur_term, tbtp, slot_num_, grid, mask>>
    BY <1>1, <1>6 DEF RcvReq, vars
  <2>2. \/ \E k \in m .. Len(tbtp) : tbtp[k].assignment_id = t
        \/ Done(t)
        \/ Ahead(t) < Ahead(tbtp[m].assignment_id)
    BY <1>1, <2>1 DEF RoundFair
  <2>3. Done(t) => Done(t)'
    BY <2>1, DoneStays
  <2>4. QED
    BY <2>1, <2>2, <2>3 DEF Ahead
<1>7. QED
  BY <1>2, <1>3, <1>4, <1>5, <1>6 DEF Next, Allocation

\* The rotation itself: the last burst of the pass is the one that could break it.
LEMMA RotationStep ==
  ASSUME TypeOK, RoundFair, SlotModeRotates, [Next]_vars
  PROVE  SlotModeRotates'
<1>. USE DEF requests, search, plan, report
<1>0. tbtp \in Seq(Bursts) /\ Len(tbtp) \in Nat /\ slot_num_ \in Nat
  BY DEF TypeOK
<1>1. SUFFICES ASSUME pc' = "assign", mode_ = SLOT_MODE,
                      NEW m \in slot_num_' + 1 .. Len(tbtp') - 1, NEW t \in Term,
                      tbtp'[m].assignment_id = tbtp'[Len(tbtp')].assignment_id,
                      t # tbtp'[m].assignment_id, ~Done(t)'
               PROVE  \E k \in m .. Len(tbtp') : tbtp'[k].assignment_id = t
  <2>1. deficit' \in [Term -> Int]
    BY TypeStep DEF TypeOK
  <2>2. QED
    BY <2>1, ModeStays DEF SlotModeRotates, Done
<1>2. CASE BeginCRA \/ BeginRBDC \/ BeginVBDC
  <2>1. slot_num_' = Len(tbtp') /\ Len(tbtp') \in Nat
    BY <1>0, <1>2 DEF BeginCRA, BeginRBDC, BeginVBDC
  <2>2. QED
    BY <1>1, <2>1
<1>3. CASE SkipSatisfied \/ NoLuck \/ UNCHANGED vars \/ \E u \in Requesters : RcvReq(u)
  <2>1. /\ pc = "assign" /\ UNCHANGED <<tbtp, slot_num_>>
        /\ Done(t) => Done(t)'
    <3>1. CASE SkipSatisfied \/ NoLuck
      BY <3>1, VisitEffects
    <3>2. CASE UNCHANGED vars \/ \E u \in Requesters : RcvReq(u)
      <4>1. pc = "assign" /\ UNCHANGED <<tbtp, slot_num_, deficit, grid, mask>>
        BY <1>1, <3>2 DEF RcvReq, vars
      <4>2. QED
        BY <4>1, DoneStays
    <3>3. QED
      BY <1>3, <3>1, <3>2
  <2>2. deficit[t] > 0 /\ Placeable(t)
    BY <1>1, <2>1 DEF Done, TypeOK
  <2>3. QED
    BY <1>1, <2>1, <2>2 DEF SlotModeRotates
<1>4. CASE Place \/ StaleGrant
  <2>. DEFINE L == Len(tbtp)
  <2>1. /\ pc = "assign" /\ slot_num_' = slot_num_
        /\ Len(tbtp') = L + 1 /\ tbtp'[L + 1].assignment_id = cur_term
        /\ \A k \in 1 .. L : tbtp'[k] = tbtp[k]
        /\ \A x \in Term : (x # cur_term /\ Done(x)) => Done(x)'
    BY <1>4, GrantEffects
  <2>2. m \in 1 .. L /\ m \in slot_num_ + 1 .. L
    BY <1>0, <1>1, <2>1
  <2>3. tbtp[m].assignment_id = cur_term /\ t # cur_term
    BY <1>1, <2>1, <2>2
  <2>4. ~Done(t)
    BY <1>1, <2>1, <2>3
  <2>5. ~(Ahead(t) < Ahead(cur_term))
    BY SizeAssumption DEF Ahead, TypeOK, Term
  <2>6. PICK k \in m .. L : tbtp[k].assignment_id = t
    BY <1>1, <2>1, <2>2, <2>3, <2>4, <2>5 DEF RoundFair
  <2>7. k \in 1 .. L /\ k \in m .. Len(tbtp')
    BY <1>0, <2>1, <2>2
  <2>8. QED
    BY <2>1, <2>6, <2>7
<1>5. CASE FinishAllocation
  BY <1>1, <1>5 DEF FinishAllocation
<1>6. QED
  BY <1>2, <1>3, <1>4, <1>5 DEF Next, Allocation

\* In SLOT_MODE a terminal gets a second burst of a pass only after every other that
\* is owed bytes and can be placed got one in between, for any rules.
THEOREM SlotsRotate == Spec => []SlotModeRotates
<1>1. Init => RoundFair /\ SlotModeRotates
  BY DEF Init, RoundFair, SlotModeRotates
<1>2. TypeOK /\ RoundFair /\ [Next]_vars => RoundFair'
  BY RoundFairStep
<1>3. TypeOK /\ RoundFair /\ SlotModeRotates /\ [Next]_vars => SlotModeRotates'
  BY RotationStep
<1>4. QED
  BY <1>1, <1>2, <1>3, TypeCorrect, PTL DEF Spec

-----------------------------------------------------------------------------
(* The accounts                                                            *)

\* What burst n of a plan is worth, and the bursts of terminal t.
Worth(q) == [n \in DOMAIN q |-> burstsize_[q[n].fp]]
BurstsOf(q, t) == {n \in DOMAIN q : q[n].assignment_id = t}
Booked(q, t) == SumFunctionOnSet(Worth(q), BurstsOf(q, t))

\* A descriptor that is appended adds the size of its burst to the account of
\* its terminal and leaves the others alone.
LEMMA LedgerGrows ==
  ASSUME NEW q \in Seq(Bursts), NEW b \in Bursts, NEW t
  PROVE  Booked(Append(q, b), t) =
           IF b.assignment_id = t THEN Booked(q, t) + burstsize_[b.fp] ELSE Booked(q, t)
<1>. DEFINE r == Append(q, b)
            last == Len(q) + 1
<1>1. /\ DOMAIN q = 1 .. Len(q) /\ DOMAIN r = 1 .. Len(q) + 1 /\ Len(q) \in Nat
      /\ \A n \in DOMAIN q : r[n] = q[n]
      /\ r[last] = b
      /\ \A n \in DOMAIN r : r[n] \in Bursts
  OBVIOUS
<1>. HIDE DEF r
<1>2. \A n \in DOMAIN r : Worth(r)[n] \in Int
  BY <1>1, SizeAssumption DEF Worth, Bursts
<1>3. \A n \in DOMAIN q : Worth(q)[n] = Worth(r)[n] /\ n \in DOMAIN r
  BY <1>1 DEF Worth
<1>4. IsFiniteSet(BurstsOf(r, t)) /\ IsFiniteSet(BurstsOf(q, t))
  <2>1. IsFiniteSet(1 .. Len(q)) /\ IsFiniteSet(1 .. Len(q) + 1)
    BY <1>1, FS_Interval
  <2>2. BurstsOf(r, t) \in SUBSET (1 .. Len(q) + 1) /\ BurstsOf(q, t) \in SUBSET (1 .. Len(q))
    BY <1>1 DEF BurstsOf
  <2>. QED
    BY <2>1, <2>2, FS_Subset
<1>5. SumFunctionOnSet(Worth(r), BurstsOf(q, t)) = Booked(q, t)
  <2>1. \A n \in BurstsOf(q, t) : Worth(r)[n] \in Int /\ Worth(q)[n] = Worth(r)[n]
    BY <1>2, <1>3 DEF BurstsOf
  <2>. QED
    BY <1>4, <2>1, SumSame DEF Booked
<1>6. CASE b.assignment_id # t
  <2>1. BurstsOf(r, t) = BurstsOf(q, t)
    BY <1>1, <1>6 DEF BurstsOf
  <2>. QED
    BY <1>5, <1>6, <2>1 DEF Booked, r
<1>7. CASE b.assignment_id = t
  <2>1. last \in BurstsOf(r, t) /\ BurstsOf(r, t) \ {last} = BurstsOf(q, t)
    BY <1>1, <1>7 DEF BurstsOf
  <2>2. \A n \in BurstsOf(r, t) : Worth(r)[n] \in Int
    BY <1>2 DEF BurstsOf
  <2>3. SumFunctionOnSet(Worth(r), BurstsOf(r, t)) =
          SumFunctionOnSet(Worth(r), BurstsOf(r, t) \ {last}) + Worth(r)[last]
    BY <1>4, <2>1, <2>2, SumGrows
  <2>4. Worth(r)[last] = burstsize_[b.fp]
    BY <1>1 DEF Worth
  <2>. QED
    BY <1>5, <1>7, <2>1, <2>3, <2>4 DEF Booked, r
<1>. QED
  BY <1>6, <1>7

\* The accounts before the search: nothing is booked, nothing assigned.  While it
\* runs, freeslots goes down with every descriptor, and not below 0.
Ledger ==
  /\ \A t \in Term : a[t] = Booked(tbtp, t)
  /\ pc = "assign" => freeslots = slot_count_ - Len(tbtp)
  /\ Len(tbtp) <= slot_count_

LEMMA LedgerGrant ==
  ASSUME TypeOK, Ledger, Seeking, NEW f \in Frames, NEW j \in Slots(f), Grant(f, j)
  PROVE  Ledger'
<1>1. /\ cur_term \in Term /\ a \in [Term -> Nat] /\ tbtp \in Seq(Bursts)
      /\ burstsize_[f] \in Nat /\ j \in Nat
  BY SizeAssumption DEF TypeOK, Slots
<1>. DEFINE b == [assignment_id |-> cur_term, fp |-> f, slot |-> j]
<1>2. b \in Bursts /\ b.assignment_id = cur_term /\ b.fp = f
  BY <1>1 DEF Bursts
<1>3. /\ tbtp' = Append(tbtp, b) /\ a' = [a EXCEPT ![cur_term] = @ + burstsize_[f]]
      /\ freeslots' = freeslots - 1 /\ pc' = pc
  BY DEF Grant
<1>. HIDE DEF b
<1>4. ASSUME NEW t \in Term PROVE a'[t] = Booked(tbtp', t)
  <2>1. Booked(tbtp', t) = IF cur_term = t THEN Booked(tbtp, t) + burstsize_[f] ELSE Booked(tbtp, t)
    BY <1>1, <1>2, <1>3, LedgerGrows
  <2>2. a[t] = Booked(tbtp, t)
    BY DEF Ledger
  <2>. QED
    BY <1>1, <1>3, <2>1, <2>2
<1>5. freeslots' = slot_count_ - Len(tbtp') /\ Len(tbtp') <= slot_count_
  <2>1. /\ freeslots = slot_count_ - Len(tbtp) /\ slot_count_ \in Nat
        /\ Len(tbtp) <= slot_count_ /\ freeslots # 0
    BY CellsFinite DEF Ledger, Seeking
  <2>2. Len(tbtp') = Len(tbtp) + 1 /\ Len(tbtp) \in Nat
    BY <1>1, <1>3
  <2>. QED
    BY <1>3, <2>1, <2>2
<1>. QED
  BY <1>4, <1>5 DEF Ledger

LEMMA LedgerStep == TypeOK /\ Ledger /\ [Next]_vars => Ledger'
<1>. SUFFICES ASSUME TypeOK, Ledger, [Next]_vars PROVE Ledger'
  OBVIOUS
<1>. USE DEF requests, search, plan, report
<1>1. CASE BeginCRA
  <2>1. tbtp' = << >> /\ a' = [t \in Term |-> 0] /\ freeslots' = slot_count_
    BY <1>1 DEF BeginCRA, BytesCleared
  <2>2. \A t \in Term : BurstsOf(tbtp', t) = {} /\ a'[t] = 0
    BY <2>1 DEF BurstsOf
  <2>3. \A t \in Term : Booked(tbtp', t) = 0
    BY <2>2, SumOfNothing DEF Booked
  <2>4. Len(tbtp') = 0 /\ slot_count_ \in Nat
    BY <2>1, CellsFinite
  <2>. QED
    BY <2>1, <2>2, <2>3, <2>4 DEF Ledger
<1>2. CASE Place
  <2>1. PICK f \in Frames : \E c \in Carriers(f) \X Slots(f) : Booking(f, c)
    BY <1>2, PlaceBooks
  <2>2. PICK c \in Carriers(f) \X Slots(f) : Grant(f, c[2])
    BY <2>1 DEF Booking
  <2>3. c[2] \in Slots(f) /\ Seeking
    BY <1>2 DEF Place
  <2>. QED
    BY <2>2, <2>3, LedgerGrant
<1>3. CASE StaleGrant
  <2>1. PICK f \in Frames : \E j \in Slots(f) : Grant(f, j)
    BY <1>3 DEF StaleGrant
  <2>2. PICK j \in Slots(f) : Grant(f, j)
    BY <2>1
  <2>3. Seeking
    BY <1>3 DEF StaleGrant
  <2>. QED
    BY <2>2, <2>3, LedgerGrant
<1>4. CASE \/ BeginRBDC \/ BeginVBDC \/ SkipSatisfied \/ NoLuck \/ FinishAllocation
           \/ UNCHANGED vars \/ \E t \in Requesters : RcvReq(t)
  <2>1. a' = a /\ tbtp' = tbtp /\ freeslots' = freeslots /\ (pc' = "assign" => pc = "assign")
    BY <1>4 DEF BeginRBDC, BeginVBDC, SkipSatisfied, NoLuck, FinishAllocation, RcvReq, vars,
                PassOver, Seeking
  <2>. QED
    BY <2>1 DEF Ledger
<1>. QED
  BY <1>1, <1>2, <1>3, <1>4 DEF Next, Allocation

\* The accounts of the allocator and the plan it broadcasts agree, with any rules, also
\* those that book nothing: what a terminal is charged for in a superframe is
\* the size of the bursts it is told to send in, and no more timeslots are given
\* away than the superframe has.
THEOREM AccountsAgree == Spec => [](LedgerAgrees /\ Len(tbtp) <= slot_count_)
<1>1. Init => Ledger
  <2>. SUFFICES ASSUME Init PROVE Ledger
    OBVIOUS
  <2>1. tbtp = << >> /\ pc = "idle" /\ \A t \in Term : a[t] = 0
    BY DEF Init
  <2>2. \A t \in Term : BurstsOf(tbtp, t) = {}
    BY <2>1 DEF BurstsOf
  <2>3. \A t \in Term : Booked(tbtp, t) = 0
    BY <2>2, SumOfNothing DEF Booked
  <2>4. slot_count_ \in Nat /\ Len(tbtp) = 0
    BY <2>1, CellsFinite
  <2>. QED
    BY <2>1, <2>3, <2>4 DEF Ledger
<1>2. TypeOK /\ Ledger /\ [Next]_vars => Ledger'
  BY LedgerStep
<1>3. Ledger => LedgerAgrees /\ Len(tbtp) <= slot_count_
  BY Zenon DEF Ledger, LedgerAgrees, Booked, Worth, BurstsOf
<1>. QED
  BY <1>1, <1>2, <1>3, TypeCorrect, PTL DEF Spec

=============================================================================
