------------------------------- MODULE Payments -------------------------------
(***************************************************************************)
(* What a caller who wants each of its payments made once may rely on:     *)
(*                                                                         *)
(*   - a payment is made at most once, whatever is sent again;             *)
(*   - "done" is said only of a payment that was made;                     *)
(*   - "refused" is said only of a payment that was not and will not be.   *)
(***************************************************************************)
CONSTANTS Intents,   \* the payments wanted
          Ids        \* identities a payment may be made under

VARIABLES made,      \* made[i] : the identities under which i was paid
          told       \* told[i] : "unknown", "done" or "refused"

vars == <<made, told>>

Init == /\ made = [i \in Intents |-> {}]
        /\ told = [i \in Intents |-> "unknown"]

Pay(i) == /\ made[i] = {} /\ told[i] = "unknown"
          /\ \E id \in Ids : made' = [made EXCEPT ![i] = {id}]
          /\ UNCHANGED told

Tell(i) == /\ told[i] = "unknown"
           /\ told' = [told EXCEPT ![i] = IF made[i] = {} THEN "refused" ELSE "done"]
           /\ UNCHANGED made

Next == \E i \in Intents : Pay(i) \/ Tell(i)

Spec == Init /\ [][Next]_vars
=============================================================================
