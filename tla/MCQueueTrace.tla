---------------------------- MODULE MCQueueTrace ----------------------------
(***************************************************************************)
(* Four packets of two priorities, one of them of another flow, a queue    *)
(* for two, intervals of two ticks.                                        *)
(***************************************************************************)
EXTENDS QueueTrace

TwoPrios == [p \in 1 .. 4 |-> IF p = 3 THEN 0 ELSE 1]
=============================================================================
