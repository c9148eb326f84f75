------------------------------- MODULE MCParts -------------------------------
(***************************************************************************)
(* Instances of Parts for TLC.                                             *)
(*                                                                         *)
(* URLs: every scheme-like start followed by every text of up to four      *)
(* symbols.  Errors: every status the code tells apart, and one or more of *)
(* each range it does not.  Lists: up to three rows, pages of one or two.  *)
(* Notices: transactions of every pair of kinds.                           *)
(***************************************************************************)
EXTENDS Parts, SequencesExt, TLC

Slash     == "/"
Letters   == {"g", Slash, " ", ":", "?"}
SomeTexts == {start \o rest : start \in {<<>>, <<"https:">>, <<"http:">>, <<"https:", Slash>>,
                                         <<"https:", Slash, Slash>>, <<"http:", Slash, Slash>>},
                              rest \in BoundedSeq(Letters, 4)}
SomePaths == {<<Slash, "p">>, <<Slash, "p", Slash, "q", "?", "p">>}

SomeStatuses == {200, 202, 304, 400, 401, 403, 404, 409, 410, 418, 429, 500, 502, 503, 599}

AllLists == {"wallets", "accounts", "assets", "transactions", "settlements"}
SomeSizes == {0, 1}
=============================================================================
