---------------------------- MODULE MCTransactions ----------------------------
(***************************************************************************)
(* Instances of Transactions for TLC: one intent, since intents share only *)
(* the supply of reference_ids.                                            *)
(***************************************************************************)
EXTENDS Transactions, TLC

CONSTANTS i1, r1, r2, c1, c2, c3, c4

OneIntent   == {i1}
TwoRefs     == {r1, r2}
FourCalls   == {c1, c2, c3, c4}
FewRefusals == {e \in PreRow : e.code = "insufficient_balance" \/ e.msg = "chain_rpc_unavailable"}

ManySwaps == Permutations(TwoRefs) \cup Permutations(FourCalls)
=============================================================================
