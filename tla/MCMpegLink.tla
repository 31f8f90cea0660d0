----------------------------- MODULE MCMpegLink -----------------------------
(***************************************************************************)
(* A small instance of MpegLink.  Packets of 20 bytes share a cell, those  *)
(* of 513 bytes are cut over three or four, those of 200 bytes over two.   *)
(***************************************************************************)
EXTENDS MpegLink

\* Station 1 has one next hop and one priority, station 2 two priorities: behind a
\* packet of 200 bytes one of 513 leaves a cell of each and one shared between them.
\* Station 3 has two next hops, whose packets get into each other's cells.
ThreeKinds == [s \in 1 .. 3 |->
    CASE s = 1 -> {<<0, 0, 20>>, <<0, 0, 513>>}
      [] s = 2 -> {<<0, 1, 200>>, <<0, 0, 513>>}
      [] s = 3 -> {<<0, 0, 20>>, <<4, 0, 20>>}]
=============================================================================
