---------------------------- MODULE Transactions ----------------------------
(***************************************************************************)
(* Creating transactions (src/src/transaction.rs) with the recovery its    *)
(* documentation prescribes, over a network and a gateway that lose, delay *)
(* and repeat.                                                             *)
(*                                                                         *)
(* A caller wants each of its intents paid once.  It submits an intent     *)
(* under a reference_id, with or without an Idempotency-Key, and goes on   *)
(* by what the SDK reports: the accessors of the reply (is_accepted,       *)
(* is_broadcast) or the kind of the error.                                 *)
(*                                                                         *)
(* One call of create_transaction is one request here; that it takes       *)
(* effect at most once, renewals of the token included, is CallOnce.  A    *)
(* request the caller gave up may still reach the gateway, at any time.    *)
(* The caller's rules and the gateway are external: they are taken from    *)
(* what transaction.rs and error.rs state of them.                         *)
(***************************************************************************)
EXTENDS ErrorKind

CONSTANTS Intents,     \* the payments the caller wants
          Refs,        \* reference_ids
          Calls,       \* calls of create_transaction
          Refusals,    \* errors the gateway raises before it creates a row
          NoIntent, NoRef, NoCall

ASSUME RefsAssumption  == NoRef \notin Refs
ASSUME CallsAssumption == NoCall \notin Calls
ASSUME NoIntentAssumption == NoIntent \notin Intents

VARIABLES
  order,    \* order[i] : operation of i, and whether its caller sends a key
  view,     \* view[i] : what the caller of i knows of its last call
  ref,      \* ref[i] : the reference_id in use for i
  used,     \* used[i] : every reference_id ever used for i
  current,  \* current[i] : i's last call
  tx,       \* tx[i] : the tx_id the caller was given; a row is named by its
            \*         reference_id, which is unique
  lost,     \* lost[i] : a call under ref[i] ended without telling what it did
  req,      \* req[c] : the request of call c and the gateway's reply to it
  rows,     \* rows[r] : the gateway's transaction row under r
  cache     \* cache[i] : the body the gateway replays for i's key

callerVars  == <<order, view, ref, used, current, tx, lost>>
gatewayVars == <<rows, cache>>
vars        == <<callerVars, req, gatewayVars>>

-----------------------------------------------------------------------------
(* Replies of POST /api/v1/transactions.                                   *)

Operations == {"TRANSFER", "PROGRAM_CALL", "CONTRACT_CALL"}

\* CreateTransactionResponse: tx_id and status.
Bodies == [tx : Refs \cup {NoRef}, status : {"none", "PENDING", "BROADCAST"}]
NoBody == [tx |-> NoRef, status |-> "none"]

Reply(http, code, msg, body) == [http |-> http, code |-> code, msg |-> msg, body |-> body]

NoReply           == Reply(0, "none", "other", NoBody)
Success(http, b)  == Reply(http, "none", "other", b)
Failure(http, code, msg) == Reply(http, code, msg, NoBody)

Duplicate         == Failure(400, "invalid_parameter", "duplicate")
Rejected          == Failure(400, "invalid_parameter", "rejected")
TransactionFailed == Failure(400, "transaction_failed", "other")
EngineBusy        == Failure(503, "service_unavailable", "engine_busy")

\* What the gateway may say before it creates a row.
PreRow == {Rejected,
           Failure(400, "invalid_parameter", "unsupported"),
           Failure(400, "insufficient_balance", "other"),
           Failure(400, "validation_failed", "other"),
           Failure(401, "token_expired", "other"),
           Failure(401, "invalid_token", "other"),
           Failure(403, "forbidden", "other"),
           Failure(404, "not_found", "other"),
           Failure(409, "conflict", "other"),
           Failure(429, "too_many_requests", "other"),
           Failure(500, "internal_error", "other"),
           Failure(503, "service_unavailable", "other"),
           Failure(503, "service_unavailable", "chain_rpc_unavailable")}

ASSUME RefusalsAssumption == Refusals \subseteq PreRow

\* Statuses a proxy may answer with in the gateway's place.
ProxyStatuses == {502, 503}

Replies == [http : Nat, code : Codes \cup {"none"}, msg : Messages, body : Bodies]

-----------------------------------------------------------------------------
(* What the SDK makes of a reply.                                          *)

\* Mutant: only the HTTP status is looked at.
IsAccepted_StatusOnly(http, op, status) == http = 202

\* resp.is_accepted(): resp.operation is the operation of the request.
IsAccepted(http, op, status) == http = 202 \/ (op # "TRANSFER" /\ status = "PENDING")

\* Mutant: every 2xx is a broadcast.
IsBroadcast_AnyOk(status) == status # "none"

\* resp.is_broadcast()
IsBroadcast(status) == status = "BROADCAST"

\* The Result of create_transaction for a readable reply, as a caller reads it.
Heard(op, reply) ==
  CASE reply.http >= 400 -> Kind(reply.http, reply.code, reply.msg)
    [] OTHER -> CASE IsAccepted(reply.http, op, reply.body.status) -> "accepted"
                  [] OTHER -> IF IsBroadcast(reply.body.status) THEN "broadcast" ELSE "queued"

\* Results after which the caller does not know what its request did.
Untold == {"Http", "Decode", "ServerError", "ServiceUnavailable", "Other"}

\* Results after which a row exists that will not pay: take a new reference_id.
Consumed == {"TransactionFailed", "EngineBusy"}

\* Results after which the same reference_id is sent again.
Resendable == Untold \cup {"ChainRpcUnavailable"}

\* Results that are the end of the intent.
Refused == Kinds \ (Untold \cup Consumed \cup {"ChainRpcUnavailable", "DuplicateReferenceId"})

Views == {"new", "waiting", "accepted", "broadcast", "queued", "failed"} \cup Untold \cup Kinds

-----------------------------------------------------------------------------
RowStates == {"none", "open", "broadcast", "failed", "held"}
Dead      == {"failed", "held"}     \* rows that never pay

Requests == [intent : Intents \cup {NoIntent}, ref : Refs \cup {NoRef}, keyed : BOOLEAN,
             again : BOOLEAN, st : {"unused", "sent", "handling", "answered"},
             reply : Replies]

NoRequest == [intent |-> NoIntent, ref |-> NoRef, keyed |-> FALSE,
              again |-> FALSE, st |-> "unused", reply |-> NoReply]

NewRequest(i, r) == [intent |-> i, ref |-> r, keyed |-> order[i].keyed,
                     again |-> FALSE, st |-> "sent", reply |-> NoReply]

Init == /\ order \in [Intents -> [op : Operations, keyed : BOOLEAN]]
        /\ view = [i \in Intents |-> "new"]
        /\ ref = [i \in Intents |-> NoRef]
        /\ used = [i \in Intents |-> {}]
        /\ current = [i \in Intents |-> NoCall]
        /\ tx = [i \in Intents |-> NoRef]
        /\ lost = [i \in Intents |-> FALSE]
        /\ req = [c \in Calls |-> NoRequest]
        /\ rows = [r \in Refs |-> "none"]
        /\ cache = [i \in Intents |-> NoBody]

-----------------------------------------------------------------------------
(* The caller.                                                             *)

Submit(i, c, r) ==
  /\ req[c].st = "unused"
  /\ req' = [req EXCEPT ![c] = NewRequest(i, r)]
  /\ current' = [current EXCEPT ![i] = c]
  /\ ref' = [ref EXCEPT ![i] = r]
  /\ used' = [used EXCEPT ![i] = @ \cup {r}]
  /\ view' = [view EXCEPT ![i] = "waiting"]
  /\ UNCHANGED <<order, tx, gatewayVars>>

\* The first attempt, or one after the old reference_id was used up.
SubmitFresh(i, c, r) ==
  /\ view[i] \in {"new"} \cup Consumed
  /\ r \notin UNION {used[j] : j \in Intents}
  /\ Submit(i, c, r)
  /\ lost' = [lost EXCEPT ![i] = FALSE]

\* The identical request once more; with a key also after a Duplicate, which
\* may have come while the first copy was still being handled.
Resubmit(i, c) ==
  /\ view[i] \in Resendable \/ (view[i] = "DuplicateReferenceId" /\ order[i].keyed)
  /\ Submit(i, c, ref[i])
  /\ UNCHANGED lost

\* get_transaction(tx_id), for a caller that has a tx_id and no final result.
Poll(i) ==
  /\ view[i] \in {"accepted", "queued"}
  /\ \/ /\ rows[tx[i]] = "broadcast"
        /\ view' = [view EXCEPT ![i] = "broadcast"]
     \/ /\ rows[tx[i]] = "failed"
        /\ view' = [view EXCEPT ![i] = "failed"]
  /\ UNCHANGED <<order, ref, used, current, tx, lost, req, gatewayVars>>

-----------------------------------------------------------------------------
(* The SDK's end of a call.                                                *)

Waits(i, c) == view[i] = "waiting" /\ current[i] = c

Returns(i, result) ==
  /\ view' = [view EXCEPT ![i] = result]
  /\ lost' = [lost EXCEPT ![i] = @ \/ result \in Untold]
  /\ UNCHANGED <<order, ref, used, current, req, gatewayVars>>

\* The reply arrives and is readable.
Receive(i, c) ==
  /\ Waits(i, c) /\ req[c].st = "answered"
  /\ Returns(i, Heard(order[i].op, req[c].reply))
  /\ tx' = [tx EXCEPT ![i] = IF req[c].reply.http >= 400 THEN @ ELSE req[c].reply.body.tx]

\* A 2xx whose body does not decode: Error::Decode.
Garbled(i, c) ==
  /\ Waits(i, c) /\ req[c].st = "answered" /\ req[c].reply.http < 400
  /\ Returns(i, "Decode")
  /\ UNCHANGED tx

\* Transport error or timeout, wherever the request has got to.
TransportFails(i) ==
  /\ view[i] = "waiting"
  /\ Returns(i, "Http")
  /\ UNCHANGED tx

\* A proxy answers, with a body that is no ErrorBody.
ProxyAnswers(i) ==
  /\ view[i] = "waiting"
  /\ \E http \in ProxyStatuses : Returns(i, Kind(http, "unknown", "other"))
  /\ UNCHANGED tx

\* Mutant: the retry is built without the extra headers.
Rebuilt_NoHeaders(r) == [r EXCEPT !.again = TRUE, !.keyed = FALSE]

\* The request as the closure builds it again, with the extra headers.
Rebuilt(r) == [r EXCEPT !.again = TRUE]

\* 401 token_expired: the token is renewed and the request sent once more.
TokenExpires(i, c) ==
  /\ Waits(i, c) /\ req[c].st = "sent" /\ ~req[c].again
  /\ req' = [req EXCEPT ![c] = Rebuilt(@)]
  /\ UNCHANGED <<callerVars, gatewayVars>>

-----------------------------------------------------------------------------
(* The gateway.  It looks for a replay first, then refuses or inserts the  *)
(* row, then works, and may close the connection without an answer.        *)

Answered(c, reply) ==
  /\ req' = [req EXCEPT ![c] = [@ EXCEPT !.st = "answered", !.reply = reply]]
  /\ UNCHANGED callerVars

\* The cached body comes back with HTTP 200, whatever its first status was.
Replay(c) ==
  /\ req[c].st = "sent" /\ req[c].keyed
  /\ cache[req[c].intent] # NoBody
  /\ Answered(c, Success(200, cache[req[c].intent]))
  /\ UNCHANGED gatewayVars

NoReplay(c) == req[c].keyed => cache[req[c].intent] = NoBody

Refuse(c) ==
  /\ req[c].st = "sent" /\ NoReplay(c)
  /\ \E reply \in Refusals :
       /\ reply.code = "token_expired" => req[c].again
       /\ Answered(c, reply)
  /\ UNCHANGED gatewayVars

\* The uniqueness of reference_id does not look at the state of the row.
RefuseDuplicate(c) ==
  /\ req[c].st = "sent" /\ NoReplay(c)
  /\ rows[req[c].ref] # "none"
  /\ Answered(c, Duplicate)
  /\ UNCHANGED gatewayVars

Create(c) ==
  /\ req[c].st = "sent" /\ NoReplay(c)
  /\ rows[req[c].ref] = "none"
  /\ rows' = [rows EXCEPT ![req[c].ref] = "open"]
  /\ req' = [req EXCEPT ![c].st = "handling"]
  /\ UNCHANGED <<callerVars, cache>>

\* The engine signs and broadcasts, fails, or leaves a signed permit behind.
Engine(r) ==
  /\ rows[r] = "open"
  /\ \E s \in {"broadcast"} \cup Dead : rows' = [rows EXCEPT ![r] = s]
  /\ UNCHANGED <<callerVars, req, cache>>

\* 200 for a transfer, which is signed later, and for a broadcast; 202 for a
\* call whose engine the gateway did not wait for.
Successes(op, r) ==
  IF op = "TRANSFER" THEN {Success(200, [tx |-> r, status |-> "PENDING"])}
  ELSE {Success(202, [tx |-> r, status |-> "PENDING"])} \cup
       {Success(200, [tx |-> r, status |-> "BROADCAST"]) : s \in {rows[r]} \cap {"broadcast"}}

\* The engine failed, or was too busy to start; a permit that was signed and
\* fails its second verification.
Failures(op, r) ==
  {reply \in {TransactionFailed, EngineBusy} : op # "TRANSFER" /\ rows[r] \in Dead} \cup
  {reply \in {Rejected} : op = "CONTRACT_CALL" /\ rows[r] = "held"}

\* Only a success is cached, and only under a key.
Conclude(c) ==
  LET r == req[c] IN
  /\ r.st = "handling"
  /\ \/ \E reply \in Successes(order[r.intent].op, r.ref) :
          /\ Answered(c, reply)
          /\ cache' = IF r.keyed THEN [cache EXCEPT ![r.intent] = reply.body] ELSE cache
     \/ /\ \E reply \in Failures(order[r.intent].op, r.ref) : Answered(c, reply)
        /\ UNCHANGED cache
  /\ UNCHANGED rows

-----------------------------------------------------------------------------
Caller(i) == Poll(i) \/ \E c \in Calls : Resubmit(i, c) \/ \E r \in Refs : SubmitFresh(i, c, r)

SDK(i) == \/ TransportFails(i) \/ ProxyAnswers(i)
          \/ \E c \in Calls : Receive(i, c) \/ Garbled(i, c) \/ TokenExpires(i, c)

Gateway(c) == Replay(c) \/ Refuse(c) \/ RefuseDuplicate(c) \/ Create(c) \/ Conclude(c)

Next == \/ \E i \in Intents : Caller(i) \/ SDK(i)
        \/ \E c \in Calls : Gateway(c)
        \/ \E r \in Refs : Engine(r)

Spec == Init /\ [][Next]_vars

-----------------------------------------------------------------------------
(* Properties.                                                             *)

\* Every variable keeps its type; in particular every reply of the gateway
\* falls into one of the kinds the rules of recovery are written for.
TypeOK ==
  /\ order \in [Intents -> [op : Operations, keyed : BOOLEAN]]
  /\ view \in [Intents -> Views]
  /\ ref \in [Intents -> Refs \cup {NoRef}]
  /\ used \in [Intents -> SUBSET Refs]
  /\ current \in [Intents -> Calls \cup {NoCall}]
  /\ tx \in [Intents -> Refs \cup {NoRef}]
  /\ lost \in [Intents -> BOOLEAN]
  /\ req \in [Calls -> Requests]
  /\ rows \in [Refs -> RowStates]
  /\ cache \in [Intents -> Bodies]

\* An intent is paid at most once, whatever is lost, late or sent again, by a
\* caller that goes by the kind of the error (error.rs:201-239): it takes a new
\* reference_id only where the old one is used up by a row that never pays.
PaidOnce ==
  \A i \in Intents : \A r, s \in used[i] :
    rows[r] = "broadcast" /\ rows[s] = "broadcast" => r = s

\* Duplicate reference_id is news of a call that was lost: kind() does not
\* make a caller send a reference_id again that it was told is used up
\* (error.rs:228-232).
DuplicateOnlyAfterLoss ==
  \A i \in Intents : view[i] = "DuplicateReferenceId" => lost[i]

\* What the caller is told of the outcome is so, replayed replies included: a
\* broadcast took place, and an unknown outcome of a PROGRAM_CALL or
\* CONTRACT_CALL never reads as a transfer that was queued
\* (transaction.rs:358-370).
ToldTruly ==
  \A i \in Intents :
    /\ view[i] = "broadcast" => tx[i] \in used[i] /\ rows[tx[i]] = "broadcast"
    /\ view[i] = "queued" => order[i].op = "TRANSFER"

\* A caller that sends a key is not told Duplicate once a call under that
\* reference_id was answered 2xx, even if the token expired on the way: it
\* gets the original reply (client.rs:120-141, transaction.rs:460-478).
OriginalLost(c) ==
  /\ req[c].reply # Duplicate /\ req'[c].reply = Duplicate
  /\ order[req[c].intent].keyed
  /\ \E d \in Calls : req[d].ref = req[c].ref /\ req[d].reply.body # NoBody

ReplayRecovers == [][\A c \in Calls : ~OriginalLost(c)]_vars

-----------------------------------------------------------------------------
(* The payments a caller sees.  It is told "refused" by an error that says *)
(* so when no earlier call was lost, or by a poll.                         *)

Told(i) == CASE view[i] = "broadcast" -> "done"
             [] view[i] = "failed" \/ (view[i] \in Refused /\ ~lost[i]) -> "refused"
             [] OTHER -> "unknown"

Made(i) == {r \in used[i] : rows[r] = "broadcast"}

Ledger == INSTANCE Payments WITH Ids  <- Refs,
                                 made <- [i \in Intents |-> Made(i)],
                                 told <- [i \in Intents |-> Told(i)]

\* Each intent is paid at most once, and the caller is told "done" or
\* "refused" only when that is how it stays.
ImplementsPayments == Ledger!Spec
=============================================================================
