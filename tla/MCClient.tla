------------------------------ MODULE MCClient ------------------------------
(***************************************************************************)
(* Instances of Client for TLC: two calls that share one token manager.    *)
(***************************************************************************)
EXTENDS Client, TLC

CONSTANTS c1, c2

TwoCalls == {c1, c2}
=============================================================================
