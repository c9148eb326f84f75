---------------------------- MODULE TokenSource ----------------------------
(***************************************************************************)
(* What the token manager promises the requests of one client, said        *)
(* without a lock, a clock or a gateway:                                    *)
(*                                                                         *)
(*   - a task that asks is handed the newest token the manager ever held,  *)
(*     one just obtained or one obtained for another task;                 *)
(*   - a task that asks again, because the gateway answered token_expired, *)
(*     is handed a token strictly newer than the one it was handed before; *)
(*   - every task that asks is answered, if only by a failure.             *)
(*                                                                         *)
(* Tokens are numbered in the order in which the gateway issued them;      *)
(* 0 is "no token".                                                        *)
(***************************************************************************)
EXTENDS Naturals

CONSTANTS Tasks,      \* the tasks that share one client
          MaxTokens   \* bound on the tokens the gateway issues

VARIABLES newest,     \* the newest token the manager ever held
          st,         \* st[t] : where task t stands
          got         \* got[t] : the token last handed to t's present call

vars == <<newest, st, got>>

Init == /\ newest = 0
        /\ st = [t \in Tasks |-> "idle"]
        /\ got = [t \in Tasks |-> 0]

\* A call asks for a token, or asks again for a newer one.
Ask(t) == /\ st[t] \in {"idle", "done"}
          /\ st' = [st EXCEPT ![t] = "asking"]
          /\ UNCHANGED <<newest, got>>

\* A token is obtained from the gateway for t.
Mint(t) == /\ st[t] = "asking"
           /\ \E n \in (newest + 1) .. MaxTokens : 
                 /\ newest' = n
                 /\ got' = [got EXCEPT ![t] = n]
           /\ st' = [st EXCEPT ![t] = "done"]

\* A token obtained for another task serves t too.
Share(t) == /\ st[t] = "asking"
            /\ newest > got[t]
            /\ got' = [got EXCEPT ![t] = newest]
            /\ st' = [st EXCEPT ![t] = "done"]
            /\ UNCHANGED newest

\* No token could be had.
Fail(t) == /\ st[t] = "asking"
           /\ st' = [st EXCEPT ![t] = "failed"]
           /\ UNCHANGED <<newest, got>>

\* The call is over, or its caller lost interest in it.
Leave(t) == /\ st[t] # "idle"
            /\ st' = [st EXCEPT ![t] = "idle"]
            /\ got' = [got EXCEPT ![t] = 0]
            /\ UNCHANGED newest

Answer(t) == Mint(t) \/ Share(t) \/ Fail(t)

Next == \E t \in Tasks : Ask(t) \/ Answer(t) \/ Leave(t)

SafeSpec == Init /\ [][Next]_vars

Spec == /\ SafeSpec
        /\ \A t \in Tasks : WF_vars(Answer(t))
=============================================================================
