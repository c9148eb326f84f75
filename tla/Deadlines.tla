------------------------------ MODULE Deadlines ------------------------------
(***************************************************************************)
(* Who gives up on a slow POST /api/v1/transactions.  The gateway keeps    *)
(* the connection open while the engine signs, answers 202 when that takes *)
(* too long, and its server closes the connection after WriteTimeout       *)
(* (src/src/config.rs:5-26).  The SDK bounds every exchange of a call by   *)
(* Config::timeout: that for a token, if none is cached, the POST, the     *)
(* token exchange a 401 token_expired asks for, and the POST sent again,   *)
(* each on a timer of its own (src/src/client.rs:56-71, 180-184).  It is   *)
(* the only call of its client: waiting for the lock while another call    *)
(* fetches a token is a matter of TokenManager.                            *)
(*                                                                         *)
(* Time passes in ticks, but never beyond what must have happened by then. *)
(* The gateway and the network are external.                               *)
(***************************************************************************)
EXTENDS Integers

CONSTANTS Timeout,        \* Config::timeout
          SettleWait,     \* how long the gateway waits before it answers 202
          WriteTimeout,   \* when its server closes the connection
          Up, Down        \* longest way of a request, connecting included,
                          \* and of an answer

ASSUME DeadlinesAssumption ==
  /\ Timeout \in Nat \ {0} /\ SettleWait \in Nat /\ WriteTimeout \in Nat
  /\ SettleWait <= WriteTimeout
  /\ Up \in Nat /\ Down \in Nat

VARIABLES now,
          sdk,      \* "auth", "post" or "done"
          again,    \* the token was refused, and is renewed
          timer,    \* when the exchange began
          gateway,  \* "idle", "checking", "engine", "answered" or "closed"
          answer,   \* "none", "401", "200" or "202"
          arrived,  \* when the gateway had the request
          left,     \* when its answer, or its closing, left
          row,      \* the transaction row exists
          result    \* of the call: "none", "answer", "closed", "refused" (a token)
                    \* or "timeout"

vars == <<now, sdk, again, timer, gateway, answer, arrived, left, row, result>>

\* A token is cached, or has to be fetched first.
Init == /\ now = 0 /\ sdk \in {"auth", "post"} /\ again = FALSE /\ timer = 0
        /\ gateway = "idle" /\ answer = "none" /\ arrived = 0 /\ left = 0
        /\ row = FALSE /\ result = "none"

-----------------------------------------------------------------------------
\* Mutants: the SDK's timeout is as long as the gateway waits for the engine;
\* the token manager's HTTP client is built without a timeout.
Expired_SettleWait == now - timer >= SettleWait
Expired_NoAuth     == sdk = "post" /\ now - timer >= Timeout

\* The exchange has taken as long as it may.
Expired == now - timer >= Timeout

\* The timer at the start of the next exchange.
Restarted == now

Working   == gateway \in {"checking", "engine"}
OnTheWay  == gateway \in {"answered", "closed"}

\* Something is due before time may go on.
Due == \/ sdk = "post" /\ gateway = "idle" /\ now - timer >= Up
       \/ sdk = "post" /\ Working /\ now - arrived >= WriteTimeout
       \/ sdk = "post" /\ OnTheWay /\ now - left >= Down
       \/ Expired

Tick == /\ sdk # "done" /\ ~Due
        /\ now' = now + 1
        /\ UNCHANGED <<sdk, again, timer, gateway, answer, arrived, left, row, result>>

-----------------------------------------------------------------------------
(* The gateway.                                                            *)

Arrive ==
  /\ sdk = "post" /\ gateway = "idle"
  /\ gateway' = "checking" /\ arrived' = now
  /\ UNCHANGED <<now, sdk, again, timer, answer, left, row, result>>

Answers(a) ==
  /\ gateway' = "answered" /\ answer' = a /\ left' = now
  /\ UNCHANGED <<now, sdk, again, timer, arrived, row, result>>

\* 401 token_expired, before anything is done.
Challenge == sdk = "post" /\ gateway = "checking" /\ Answers("401")

Create ==
  /\ sdk = "post" /\ gateway = "checking"
  /\ gateway' = "engine" /\ row' = TRUE
  /\ UNCHANGED <<now, sdk, again, timer, answer, arrived, left, result>>

\* The engine is through with the row, or the gateway waits no longer.
Settle == /\ sdk = "post" /\ gateway = "engine"
          /\ Answers(IF now - arrived < SettleWait THEN "200" ELSE "202")

Close ==
  /\ sdk = "post" /\ Working /\ now - arrived >= WriteTimeout
  /\ gateway' = "closed" /\ left' = now
  /\ UNCHANGED <<now, sdk, again, timer, answer, arrived, row, result>>

-----------------------------------------------------------------------------
(* The SDK.                                                                *)

Ends(r) ==
  /\ sdk' = "done" /\ result' = r
  /\ UNCHANGED <<now, again, timer, gateway, answer, arrived, left, row>>

Receive == sdk = "post" /\ OnTheWay /\ (answer = "401" => again)
           /\ Ends(IF gateway = "closed" THEN "closed" ELSE "answer")

\* refresh_after_expiry: an exchange of the token manager.
Renew ==
  /\ sdk = "post" /\ gateway = "answered" /\ answer = "401" /\ ~again
  /\ sdk' = "auth" /\ again' = TRUE /\ timer' = Restarted
  /\ gateway' = "idle" /\ answer' = "none"
  /\ UNCHANGED <<now, arrived, left, row, result>>

\* The token is there and the request is sent, for the first time or again.
Send ==
  /\ sdk = "auth"
  /\ sdk' = "post" /\ timer' = Restarted
  /\ UNCHANGED <<now, again, gateway, answer, arrived, left, row, result>>

TokenRefused == sdk = "auth" /\ Ends("refused")

GiveUp == sdk # "done" /\ Expired /\ Ends("timeout")

Next == \/ Tick
        \/ Arrive \/ Challenge \/ Create \/ Settle \/ Close
        \/ Receive \/ Renew \/ Send \/ TokenRefused \/ GiveUp

Spec == Init /\ [][Next]_vars

-----------------------------------------------------------------------------
(* Properties.                                                             *)

\* The gateway, not the SDK, is the side that gives up: no call is timed out
\* by the SDK while its row exists, which the caller could not find again
\* (config.rs:17-26).
GatewayGivesUpFirst == result = "timeout" => ~row

\* A call is over after four exchanges' time, two of them the token manager's,
\* which are bounded as the others are (client.rs:56-71).
CallIsBounded == sdk # "done" => now <= 4 * Timeout
=============================================================================
