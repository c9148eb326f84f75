--------------------------- MODULE MCTokenManager ---------------------------
(***************************************************************************)
(* Instances of TokenManager for TLC.  Clock units: 120 s with three       *)
(* tasks, 60 s with two and 40 s with one, so that Buffer stands for the   *)
(* 120 s of the code.                                                      *)
(***************************************************************************)
EXTENDS TokenManager, TLC

CONSTANTS t1, t2, t3

OneTask    == {t1}
TwoTasks   == {t1, t2}
ThreeTasks == {t1, t2, t3}
Swaps3     == Permutations(ThreeTasks)
=============================================================================
