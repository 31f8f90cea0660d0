----------------------------- MODULE MCPrioFid -----------------------------
(***************************************************************************)
(* Four packets of three priorities, two of them alike; the queue holds    *)
(* all of them.                                                            *)
(***************************************************************************)
EXTENDS PrioFid

FourPrios == [p \in 1 .. 4 |-> CASE p \in {1, 2} -> 1 [] p = 3 -> 0 [] p = 4 -> 2]
=============================================================================
