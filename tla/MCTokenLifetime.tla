--------------------------- MODULE MCTokenLifetime ---------------------------
(***************************************************************************)
(* Instances of TokenLifetime for TLC: four-bit integers, every value they *)
(* take reported, and a client made less than the buffer after boot.       *)
(***************************************************************************)
EXTENDS TokenLifetime

SomeReports == -Half .. Half - 1
=============================================================================
