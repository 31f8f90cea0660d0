---------------------------- MODULE MCAllocator ----------------------------
(***************************************************************************)
(* Small superframes for AllocatorMFTDMA.  Terminal 0 is the hub, as in    *)
(* the scenario scripts, where the hub is the first node with a MAC.       *)
(***************************************************************************)
EXTENDS AllocatorMFTDMA

Rule(c, f) == [rule |-> c, fp |-> f]

\* Two carriers of 2 long timeslots and one carrier of 3 short ones: no timeslot
\* boundary but the outer ones coincide, masksize is 2*3.
TwoFrames_carriers  == [f \in 0 .. 1 |-> 2 - f]
TwoFrames_timeslots == [f \in 0 .. 1 |-> IF f = 0 THEN 2 ELSE 3]
TwoFrames_burst     == [f \in 0 .. 1 |-> IF f = 0 THEN 2 ELSE 1]
\* Terminal 1: small backlogs go to the short timeslots first.  The hub has a CRA
\* and a rule as well, as in webpage_upload.tcl.
WellRules == [t \in 0 .. 2 |->
    CASE t = 0 -> <<Rule(0, 1)>>
      [] t = 1 -> <<Rule(SMALL, 1), Rule(0, 0)>>
      [] t = 2 -> <<Rule(0, 0), Rule(0, 1)>>]
TwoCRA == [t \in 0 .. 2 |-> CASE t = 0 -> 3 [] t = 1 -> 0 [] t = 2 -> 1]

\* One carrier with two timeslots: less than one terminal may ask for.  Terminals
\* 1 and 2 compete for it, terminal 3 has nothing but a SMALL rule.
OneFrame_carriers  == [f \in 0 .. 0 |-> 1]
OneFrame_timeslots == [f \in 0 .. 0 |-> 2]
OneFrame_burst     == [f \in 0 .. 0 |-> 2]
OneFrameRules == [t \in 0 .. 3 |->
    CASE t = 0 -> << >>
      [] t \in 1 .. 2 -> <<Rule(0, 0)>>
      [] t = 3 -> <<Rule(SMALL, 0)>>]
OneFrameCRA == [t \in 0 .. 3 |-> IF t = 3 THEN 3 ELSE 0]
=============================================================================
