----------------------------- MODULE MCAtmLink -----------------------------
(***************************************************************************)
(* Small instances of AtmLink: packets of 40, 41 and 90 bytes are 1, 2 and *)
(* 3 cells.                                                                *)
(***************************************************************************)
EXTENDS AtmLink

TwoPrios == [f \in 0 .. 1 |-> 1 - f]
OnePrio  == [f \in 0 .. 0 |-> 0]
=============================================================================
