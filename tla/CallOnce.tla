------------------------------ MODULE CallOnce ------------------------------
(***************************************************************************)
(* What one API call promises its caller about its effect at the gateway:  *)
(*                                                                         *)
(*   - the request takes effect at most once;                              *)
(*   - "applied" is said only of a call that took effect;                  *)
(*   - "notApplied" is said only of a call that did not take effect and    *)
(*     never will;                                                         *)
(*   - after "unknown" the effect may still come, once;                    *)
(*   - every call is closed.                                               *)
(***************************************************************************)
EXTENDS Naturals

CONSTANT Calls

VARIABLES st,       \* st[c] : "new", "open" or "closed"
          effect,   \* effect[c] : how often c took effect
          verdict   \* verdict[c] : what the caller of c was told

vars == <<st, effect, verdict>>

Init == /\ st = [c \in Calls |-> "new"]
        /\ effect = [c \in Calls |-> 0]
        /\ verdict = [c \in Calls |-> "none"]

Begin(c) == /\ st[c] = "new"
            /\ st' = [st EXCEPT ![c] = "open"]
            /\ UNCHANGED <<effect, verdict>>

Apply(c) == /\ st[c] # "new"
            /\ effect[c] = 0 /\ verdict[c] # "notApplied"
            /\ effect' = [effect EXCEPT ![c] = 1]
            /\ UNCHANGED <<st, verdict>>

Justified(c, v) == CASE v = "applied"    -> effect[c] = 1
                     [] v = "notApplied" -> effect[c] = 0
                     [] OTHER            -> TRUE

Close(c, v) == /\ st[c] = "open" /\ Justified(c, v)
               /\ st' = [st EXCEPT ![c] = "closed"]
               /\ verdict' = [verdict EXCEPT ![c] = v]
               /\ UNCHANGED effect

CloseAny(c) == \E v \in {"applied", "notApplied", "unknown"} : Close(c, v)

Next == \E c \in Calls : Begin(c) \/ Apply(c) \/ CloseAny(c)

SafeSpec == Init /\ [][Next]_vars

Spec == /\ SafeSpec
        /\ \A c \in Calls : WF_vars(CloseAny(c))
=============================================================================
