------------------------------- MODULE Client -------------------------------
(***************************************************************************)
(* MpcClient::send (src/src/client.rs): one API call of the SDK, composed  *)
(* with the token manager it shares with the other calls of the client.    *)
(*                                                                         *)
(* A call gets a token, sends its request, and when the gateway answers    *)
(* 401 token_expired renews the token and sends the request once more.     *)
(* Any other reply, and any failure on the way, ends the call.             *)
(*                                                                         *)
(* A task of TokenManager is one API call here.  wire[c] is c's request    *)
(* between the SDK and the gateway; it stays in flight when the SDK stops  *)
(* waiting for it, so the gateway may act on it after the call is over.    *)
(* The gateway, which checks the token before anything else, is external.  *)
(***************************************************************************)
EXTENDS TokenManager

VARIABLES
  call,      \* call[c] : where send stands
  wire,      \* wire[c] : the request in flight and its reply
  executed,  \* executed[c] : how often the gateway carried c's request out
  outcome    \* outcome[c] : the Result the caller got

callVars   == <<call, wire, executed, outcome>>
clientVars == <<vars, callVars>>

-----------------------------------------------------------------------------
\* What a reply means to the code: a 2xx that decodes, a 2xx that does not,
\* 401 with code token_expired, any other status of 400 and up.
Verdicts == {"ok", "garbled", "expired", "error"}

\* The caller sees the variants of Error and, in Error::Api, the code; a
\* failure of the token step looks like one of the request.
Outcomes == {"ok", "expired", "dropped"} \cup Failed

Wires == [st : {"none", "sent", "handled"}, tok : 0 .. MaxTokens,
          verdict : Verdicts \cup {"none"}]

NoWire == [st |-> "none", tok |-> NoToken, verdict |-> "none"]

ClientInit == /\ Init
              /\ call = [c \in Tasks |-> "new"]
              /\ wire = [c \in Tasks |-> NoWire]
              /\ executed = [c \in Tasks |-> 0]
              /\ outcome = [c \in Tasks |-> "none"]

-----------------------------------------------------------------------------
\* Mutant: any error reply is retried.
TokenExpired_AnyError(verdict) == verdict \in {"expired", "error"}

\* status == 401 && is_token_expired(&bytes)
TokenExpired(verdict) == verdict = "expired"

\* Mutants: a 2xx body is not looked at; every error is taken for token_expired.
Decoded_Raw(verdict) == verdict
Decoded_AnyErrorExpired(verdict) == CASE verdict = "ok"      -> "ok"
                                      [] verdict = "garbled" -> "decode"
                                      [] OTHER               -> "expired"

\* decode(status, &bytes): the Result made of the last reply.
Decoded(verdict) == CASE verdict = "ok"      -> "ok"
                      [] verdict = "garbled" -> "decode"
                      [] verdict = "expired" -> "expired"
                      [] verdict = "error"   -> "api"

\* Every error is returned to the caller by `?`; the call is over.
EndCall(c, result) ==
  /\ call' = [call EXCEPT ![c] = "done"]
  /\ outcome' = [outcome EXCEPT ![c] = result]
  /\ UNCHANGED executed

\* Mutant: the retry is built with the outer binding of `token`.
Transmit_OuterToken(c, attempt) ==
  /\ wire' = [wire EXCEPT ![c] =
               [st |-> "sent", tok |-> IF attempt = "resent" THEN stale[c] ELSE held[c],
                verdict |-> "none"]]
  /\ call' = [call EXCEPT ![c] = attempt]
  /\ UNCHANGED <<vars, executed, outcome>>

\* execute(build(&token)) puts the request on the wire.
Transmit(c, attempt) ==
  /\ wire' = [wire EXCEPT ![c] = [st |-> "sent", tok |-> held[c], verdict |-> "none"]]
  /\ call' = [call EXCEPT ![c] = attempt]
  /\ UNCHANGED <<vars, executed, outcome>>

-----------------------------------------------------------------------------
(* send                                                                    *)

Call(c) ==
  /\ call[c] = "new"
  /\ GetToken(c)
  /\ call' = [call EXCEPT ![c] = "token"]
  /\ UNCHANGED <<wire, executed, outcome>>

FirstAttempt(c) ==
  /\ call[c] = "token" /\ pc[c] = "ok"
  /\ Transmit(c, "sent")

Renew(c) ==
  /\ call[c] = "sent" /\ wire[c].st = "handled"
  /\ TokenExpired(wire[c].verdict)
  /\ RefreshAfterExpiry(c)
  /\ call' = [call EXCEPT ![c] = "renew"]
  /\ wire' = [wire EXCEPT ![c] = NoWire]
  /\ UNCHANGED <<executed, outcome>>

SecondAttempt(c) ==
  /\ call[c] = "renew" /\ pc[c] = "ok"
  /\ Transmit(c, "resent")

\* get_token or refresh_after_expiry failed.
TokenStepFails(c) ==
  /\ call[c] \in {"token", "renew"} /\ pc[c] \in Failed
  /\ Finish(c)
  /\ EndCall(c, pc[c])
  /\ UNCHANGED wire

Answered(c) ==
  /\ call[c] \in {"sent", "resent"} /\ wire[c].st = "handled"
  /\ call[c] = "sent" => ~TokenExpired(wire[c].verdict)
  /\ Finish(c)
  /\ EndCall(c, Decoded(wire[c].verdict))
  /\ wire' = [wire EXCEPT ![c] = NoWire]

\* The SDK stops waiting: a request it sent may still reach the gateway, a
\* reply on its way is lost.
Abandoned(c) == wire' = [wire EXCEPT ![c] = IF @.st = "sent" THEN @ ELSE NoWire]

\* Mutant: an HTTP client without a timeout.
RequestFails_Never(c) == FALSE /\ UNCHANGED clientVars

\* Transport error or timeout while the request or its reply is under way.
RequestFails(c) ==
  /\ call[c] \in {"sent", "resent"}
  /\ Finish(c)
  /\ EndCall(c, "http")
  /\ Abandoned(c)

\* The caller drops the future of the call where it awaits.
Drop(c) ==
  /\ \/ call[c] \in {"token", "renew"} /\ Cancel(c)
     \/ call[c] \in {"sent", "resent"} /\ Finish(c)
  /\ EndCall(c, "dropped")
  /\ Abandoned(c)

-----------------------------------------------------------------------------
(* The gateway's side of the request: it refuses a token it holds to be    *)
(* expired before it looks at the request; past that it carries the        *)
(* request out and says so, or fails, before or after it did.              *)

Replied(c, verdict) ==
  wire' = [wire EXCEPT ![c] =
             IF call[c] = "done" THEN NoWire
             ELSE [st |-> "handled", tok |-> @.tok, verdict |-> verdict]]

RefuseToken(c) ==
  /\ wire[c].st = "sent"
  /\ Replied(c, "expired")
  /\ UNCHANGED <<vars, call, executed, outcome>>

Execute(c) ==
  /\ wire[c].st = "sent" /\ clock < gwExpiry[wire[c].tok]
  /\ executed' = [executed EXCEPT ![c] = @ + 1]
  /\ \E verdict \in {"ok", "garbled", "error"} : Replied(c, verdict)
  /\ UNCHANGED <<vars, call, outcome>>

RejectRequest(c) ==
  /\ wire[c].st = "sent" /\ clock < gwExpiry[wire[c].tok]
  /\ Replied(c, "error")
  /\ UNCHANGED <<vars, call, executed, outcome>>

-----------------------------------------------------------------------------
Send(c) == \/ FirstAttempt(c) \/ SecondAttempt(c) \/ Renew(c)
           \/ TokenStepFails(c) \/ Answered(c) \/ RequestFails(c)

GatewayRequest(c) == RefuseToken(c) \/ Execute(c) \/ RejectRequest(c)

TokenStep == /\ Tick \/ \E c \in Tasks : Manager(c) \/ Gateway(c)
             /\ UNCHANGED callVars

ClientNext ==
  TokenStep \/ \E c \in Tasks : Call(c) \/ Send(c) \/ Drop(c) \/ GatewayRequest(c)

ClientSpec == ClientInit /\ [][ClientNext]_clientVars

(***************************************************************************)
(* The fairness of the token manager, and: send runs on when it has a      *)
(* token or a reply, and its HTTP client's timeout ends every wait for a   *)
(* reply (RequestFails).                                                   *)
(***************************************************************************)
ClientFairness ==
  \A c \in Tasks :
    /\ NoStarvation(c)
    /\ WF_clientVars(ExchangeEnds(c) /\ UNCHANGED callVars)
    /\ WF_clientVars(Send(c))

FairClientSpec == ClientSpec /\ ClientFairness

-----------------------------------------------------------------------------
(* Properties.                                                             *)

\* Every variable of the call keeps its type: at most two executions are
\* counted, one for each time the request is sent.
ClientTypeOK ==
  /\ call \in [Tasks -> {"new", "token", "sent", "renew", "resent", "done"}]
  /\ wire \in [Tasks -> Wires]
  /\ executed \in [Tasks -> Nat]
  /\ outcome \in [Tasks -> Outcomes \cup {"none"}]

\* The retry never makes the gateway carry a request out twice, although the
\* gateway may act after the caller gave up (client.rs:172-189).
AtMostOnce == \A c \in Tasks : executed[c] <= 1

\* What the Result tells the caller is so: Ok means carried out, token_expired
\* means not carried out and no longer able to be (client.rs:180-188).
OutcomeHonest ==
  \A c \in Tasks :
    /\ outcome[c] = "ok" => executed[c] = 1
    /\ outcome[c] = "expired" => executed[c] = 0 /\ wire[c].st = "none"

\* The second attempt carries a newer token than the one the gateway refused
\* for the first, though other calls refresh the shared token meanwhile
\* (client.rs:183-184).
SecondTokenIsNewer ==
  \A c \in Tasks : call[c] = "resent" => wire[c].tok > stale[c]

\* Every call returns to its caller.
EveryCallReturns == \A c \in Tasks : call[c] # "new" ~> call[c] = "done"

-----------------------------------------------------------------------------
(* A call implements the abstract call: the caller of the SDK learns that  *)
(* the request was applied from Ok, that it was not from token_expired,    *)
(* and nothing from any other error.                                       *)

Phase(at) == CASE at = "new"  -> "new"
               [] at = "done" -> "closed"
               [] OTHER       -> "open"

Told(result) == CASE result = "none"    -> "none"
                  [] result = "ok"      -> "applied"
                  [] result = "expired" -> "notApplied"
                  [] OTHER              -> "unknown"

Once == INSTANCE CallOnce WITH Calls   <- Tasks,
                               st      <- [c \in Tasks |-> Phase(call[c])],
                               effect  <- executed,
                               verdict <- [c \in Tasks |-> Told(outcome[c])]

\* Each call takes effect at most once, reports no effect it cannot vouch for
\* and is closed, whatever the other calls do.
ImplementsCallOnce == Once!Spec
=============================================================================
