---------------------------- MODULE MCVoiceCall -----------------------------
(***************************************************************************)
(* One end talks, up to four packets, and the other listens, as in         *)
(* voip_atm.tcl, and is started, stopped and reset; a buffer of three      *)
(* delays; a tenth of the packets lost costs two points of the score, a    *)
(* millisecond of delay one.                                               *)
(***************************************************************************)
EXTENDS VoiceCall

TwoEnds == {1, 2}
FourAndNone == [e \in TwoEnds |-> IF e = 1 THEN 4 ELSE 0]
LinearLoss(n, m) == (20 * n) \div m
LinearDelay(d) == d
=============================================================================
