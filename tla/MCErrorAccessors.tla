-------------------------- MODULE MCErrorAccessors --------------------------
(***************************************************************************)
(* Instances of ErrorAccessors for TLC: every status the code tells apart, *)
(* and one or more of each range it does not.                              *)
(***************************************************************************)
EXTENDS ErrorAccessors

SomeStatuses == {200, 202, 304, 400, 401, 403, 404, 409, 410, 418, 429, 500, 502, 503, 599}
=============================================================================
