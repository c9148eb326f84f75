-------------------------- MODULE TransactionProofs --------------------------
(***************************************************************************)
(* Theorems about Transactions, for every set of intents, reference_ids    *)
(* and calls, and every set of errors raised before a row exists.          *)
(*                                                                         *)
(* PaidOnce rests on what the kind of an error tells: a caller leaves a    *)
(* reference_id only when its row is dead, so that at any time every       *)
(* reference_id of an intent but the last has a row that never pays.       *)
(* ToldTruly, DuplicateOnlyAfterLoss and the refinement of Payments rest   *)
(* besides on what a caller may conclude from a body (TellInv), and        *)
(* ReplayRecovers on the key that stays with an intent (KeyInv).           *)
(***************************************************************************)
EXTENDS Transactions, TLAPS

-----------------------------------------------------------------------------
(* The classification.                                                     *)

\* Every error has a kind.
LEMMA KindType == ASSUME NEW http \in Nat, NEW code, NEW msg
                  PROVE  Kind(http, code, msg) \in Kinds
<1>1. BadRequestKind(code, msg) \in Kinds
  BY DEF BadRequestKind, Kinds
<1>2. UnavailableKind(msg) \in Kinds
  BY DEF UnavailableKind, Kinds
<1>3. {"TokenExpired", "Unauthorized", "Forbidden", "NotFound", "Conflict",
       "EndpointRetired", "RateLimited", "ServerError", "Other"} \subseteq Kinds
  BY DEF Kinds
<1> QED
  BY <1>1, <1>2, <1>3 DEF Kind

\* No error raised before the row exists says that the row is dead, or that
\* there is one.
LEMMA RefusalsKeepRef ==
  \A e \in Refusals :
    e.http >= 400 /\ Kind(e.http, e.code, e.msg) \notin Consumed \cup {"DuplicateReferenceId"}
BY RefusalsAssumption
   DEF PreRow, Rejected, Failure, Reply, Kind, BadRequestKind, UnavailableKind, Consumed

\* Neither does Duplicate, nor a second verification that fails, nor a proxy.
LEMMA OthersKeepRef ==
  /\ Duplicate.http >= 400 /\ Kind(Duplicate.http, Duplicate.code, Duplicate.msg) \notin Consumed
  /\ Rejected.http >= 400 /\ Kind(Rejected.http, Rejected.code, Rejected.msg) = "Rejected"
  /\ "Rejected" \notin Consumed
  /\ \A http \in ProxyStatuses : Kind(http, "unknown", "other") \in Untold \ Consumed
BY DEF Duplicate, Rejected, ProxyStatuses, Failure, Reply, Kind, BadRequestKind,
       UnavailableKind, Consumed, Untold

\* The two that say so.
LEMMA FailuresConsume ==
  \A e \in {TransactionFailed, EngineBusy} :
    e.http >= 400 /\ Kind(e.http, e.code, e.msg) \in Consumed
BY DEF TransactionFailed, EngineBusy, Failure, Reply, Kind, BadRequestKind,
       UnavailableKind, Consumed

-----------------------------------------------------------------------------
(* The invariant.                                                          *)

\* An intent that was submitted has a reference_id of its own.
RefInv == \A i \in Intents : IF view[i] = "new" THEN used[i] = {}
                             ELSE ref[i] \in used[i]

\* A request belongs to an intent, and a caller waits for a request that was
\* sent under its present reference_id.
CallInv ==
  /\ \A c \in Calls : req[c].st # "unused" =>
       req[c].intent \in Intents /\ req[c].ref \in Refs
  /\ \A i \in Intents : view[i] = "waiting" =>
       /\ current[i] \in Calls
       /\ req[current[i]].st # "unused"
       /\ req[current[i]].ref = ref[i]

\* The reply to c, if there is one, tells that the reference_id is used up.
SaysConsumed(reply) ==
  reply.http >= 400 /\ Kind(reply.http, reply.code, reply.msg) \in Consumed

\* The rows of every reference_id that was left are dead, and so is the row of
\* one that the caller may leave, or may be about to be told to.
RowInv ==
  /\ \A i \in Intents : \A r \in used[i] : r # ref[i] => rows[r] \in Dead
  /\ \A i \in Intents : view[i] \in Consumed => rows[ref[i]] \in Dead
  /\ \A c \in Calls : req[c].st = "answered" /\ SaysConsumed(req[c].reply) =>
       rows[req[c].ref] \in Dead

TxInv == TypeOK /\ RefInv /\ CallInv /\ RowInv

-----------------------------------------------------------------------------
(* Types of requests and replies.                                          *)

LEMMA RequestFields ==
  ASSUME TypeOK, NEW c \in Calls
  PROVE  /\ req[c] \in Requests
         /\ req[c].reply \in Replies /\ req[c].ref \in Refs \cup {NoRef}
         /\ req[c].st \in {"unused", "sent", "handling", "answered"}
         /\ req[c].reply.body \in Bodies /\ req[c].reply.http \in Nat
BY DEF TypeOK, Requests, Replies

LEMMA NewRequestType ==
  ASSUME TypeOK, NEW i \in Intents, NEW r \in Refs
  PROVE  /\ NewRequest(i, r) \in Requests
         /\ NewRequest(i, r).st = "sent" /\ NewRequest(i, r).ref = r
         /\ NewRequest(i, r).intent = i
<1>1. NoReply \in Replies
  BY DEF NoReply, Reply, NoBody, Replies, Bodies, Messages, Codes
<1>2. order[i].keyed \in BOOLEAN
  BY DEF TypeOK
<1> QED
  BY <1>1, <1>2 DEF NewRequest, Requests

LEMMA RebuiltType ==
  ASSUME NEW q \in Requests
  PROVE  /\ Rebuilt(q) \in Requests
         /\ Rebuilt(q).st = q.st /\ Rebuilt(q).ref = q.ref
         /\ Rebuilt(q).intent = q.intent /\ Rebuilt(q).reply = q.reply
BY DEF Rebuilt, Requests

LEMMA AnsweredType ==
  ASSUME NEW q \in Requests, NEW reply \in Replies
  PROVE  LET a == [q EXCEPT !.st = "answered", !.reply = reply]
         IN  /\ a \in Requests
             /\ a.st = "answered" /\ a.reply = reply
             /\ a.ref = q.ref /\ a.intent = q.intent
BY DEF Requests

LEMMA HandlingType ==
  ASSUME NEW q \in Requests
  PROVE  LET a == [q EXCEPT !.st = "handling"]
         IN  /\ a \in Requests
             /\ a.st = "handling" /\ a.ref = q.ref /\ a.intent = q.intent
BY DEF Requests

LEMMA ErrorType ==
  /\ Refusals \subseteq Replies
  /\ {Duplicate, Rejected, TransactionFailed, EngineBusy} \subseteq Replies
BY RefusalsAssumption
   DEF PreRow, Duplicate, Rejected, TransactionFailed, EngineBusy, Failure, Reply,
       NoBody, Replies, Bodies, Messages, Codes

LEMMA SuccessType ==
  ASSUME NEW http \in Nat, NEW b \in Bodies
  PROVE  Success(http, b) \in Replies /\ Success(http, b).http = http
         /\ Success(http, b).body = b
BY DEF Success, Reply, Replies, Messages, Codes

\* What is heard is a view, neither "new" nor "waiting", and it tells of a
\* reference_id that is used up only when the reply does.
LEMMA HeardType ==
  ASSUME NEW op, NEW reply \in Replies
  PROVE  /\ Heard(op, reply) \in Views \ {"new", "waiting"}
         /\ Heard(op, reply) \in Consumed => SaysConsumed(reply)
<1>1. reply.http \in Nat
  BY DEF Replies
<1>2. CASE reply.http >= 400
  <2>1. Heard(op, reply) = Kind(reply.http, reply.code, reply.msg)
    BY <1>2 DEF Heard
  <2>2. Heard(op, reply) \in Kinds
    BY <1>1, <2>1, KindType
  <2> QED
    BY <1>2, <2>1, <2>2 DEF Views, Kinds, SaysConsumed
<1>3. CASE ~(reply.http >= 400)
  <2>1. Heard(op, reply) \in {"accepted", "broadcast", "queued"}
    BY <1>3 DEF Heard
  <2> QED
    BY <2>1 DEF Views, Consumed
<1> QED
  BY <1>2, <1>3

-----------------------------------------------------------------------------
(* The invariant is inductive: one lemma for each way a step changes the   *)
(* state.                                                                  *)

LEMMA InvInit == Init => TxInv
<1> SUFFICES ASSUME Init PROVE TxInv
  OBVIOUS
<1>1. NoRequest \in Requests /\ NoRequest.st = "unused"
  <2>1. NoReply \in Replies
    BY DEF NoReply, Reply, NoBody, Replies, Bodies, Messages, Codes
  <2> QED
    BY <2>1 DEF NoRequest, Requests
<1>2. TypeOK
  BY <1>1 DEF Init, TypeOK, Views, RowStates, NoBody, Bodies
<1>3. \A i \in Intents : view[i] = "new" /\ used[i] = {}
  BY DEF Init
<1>4. \A c \in Calls : req[c].st = "unused"
  BY <1>1 DEF Init
<1> QED
  BY <1>2, <1>3, <1>4 DEF TxInv, RefInv, CallInv, RowInv, Consumed

\* The caller submits under a reference_id; one that it leaves is dead.
LEMMA SubmitStep ==
  ASSUME TxInv, NEW i \in Intents, NEW c \in Calls, NEW r \in Refs, Submit(i, c, r),
         lost' \in [Intents -> BOOLEAN],
         \A s \in used[i] : s # r => rows[s] \in Dead
  PROVE  TxInv'
<1> USE DEF TxInv
<1>1. /\ req[c].st = "unused"
      /\ req' = [req EXCEPT ![c] = NewRequest(i, r)]
      /\ current' = [current EXCEPT ![i] = c]
      /\ ref' = [ref EXCEPT ![i] = r]
      /\ used' = [used EXCEPT ![i] = used[i] \cup {r}]
      /\ view' = [view EXCEPT ![i] = "waiting"]
      /\ UNCHANGED <<order, tx, rows, cache>>
  BY DEF Submit, gatewayVars
<1>2. TypeOK'
  BY <1>1, NewRequestType DEF TypeOK, Views
<1>3. RefInv'
  BY <1>1 DEF TypeOK, RefInv
<1>4. /\ req'[c] = NewRequest(i, r)
      /\ \A d \in Calls : d # c => req'[d] = req[d]
  BY <1>1 DEF TypeOK
<1>5. CallInv'
  <2>1. ASSUME NEW d \in Calls, req'[d].st # "unused"
        PROVE  req'[d].intent \in Intents /\ req'[d].ref \in Refs
    BY <1>4, <2>1, NewRequestType DEF CallInv
  <2>2. ASSUME NEW j \in Intents, view'[j] = "waiting"
        PROVE  /\ current'[j] \in Calls
               /\ req'[current'[j]].st # "unused"
               /\ req'[current'[j]].ref = ref'[j]
    <3>1. CASE j = i
      BY <1>1, <1>4, <3>1, NewRequestType DEF TypeOK
    <3>2. CASE j # i
      <4>1. view[j] = "waiting" /\ current'[j] = current[j] /\ ref'[j] = ref[j]
        BY <1>1, <2>2, <3>2 DEF TypeOK
      <4>2. current[j] \in Calls /\ current[j] # c
        BY <1>1, <4>1 DEF CallInv
      <4> QED
        BY <1>4, <4>1, <4>2 DEF CallInv
    <3> QED
      BY <3>1, <3>2
  <2> QED
    BY <2>1, <2>2 DEF CallInv
<1>6. RowInv'
  <2>1. ASSUME NEW j \in Intents, NEW s \in used'[j], s # ref'[j]
        PROVE  rows'[s] \in Dead
    BY <1>1, <2>1 DEF TypeOK, RowInv
  <2>2. ASSUME NEW j \in Intents, view'[j] \in Consumed
        PROVE  rows'[ref'[j]] \in Dead
    BY <1>1, <2>2 DEF TypeOK, RowInv, Consumed
  <2>3. ASSUME NEW d \in Calls, req'[d].st = "answered", SaysConsumed(req'[d].reply)
        PROVE  rows'[req'[d].ref] \in Dead
    BY <1>1, <1>4, <2>3, NewRequestType DEF RowInv
  <2> QED
    BY <2>1, <2>2, <2>3 DEF RowInv
<1> QED
  BY <1>2, <1>3, <1>5, <1>6

\* A call returns: it tells that the reference_id is used up when it is.
LEMMA ReturnStep ==
  ASSUME TxInv, NEW i \in Intents, NEW result \in Views \ {"new", "waiting"},
         view[i] # "new",
         view' = [view EXCEPT ![i] = result],
         lost' \in [Intents -> BOOLEAN], tx' \in [Intents -> Refs \cup {NoRef}],
         result \in Consumed => rows[ref[i]] \in Dead,
         UNCHANGED <<order, ref, used, current, req, rows, cache>>
  PROVE  TxInv'
<1> USE DEF TxInv
<1>1. /\ view'[i] = result
      /\ \A j \in Intents : j # i => view'[j] = view[j]
  BY DEF TypeOK
<1>2. TypeOK'
  BY DEF TypeOK
<1>3. RefInv'
  BY <1>1 DEF RefInv
<1>4. CallInv'
  BY <1>1 DEF CallInv
<1>5. RowInv'
  BY <1>1 DEF RowInv, SaysConsumed
<1> QED
  BY <1>2, <1>3, <1>4, <1>5

\* The gateway or the SDK moves a request on; a reply that tells that the
\* reference_id is used up is given when it is.
LEMMA RequestStep ==
  ASSUME TxInv, NEW c \in Calls, NEW q \in Requests,
         req' = [req EXCEPT ![c] = q],
         req[c].st # "unused", q.st # "unused",
         q.ref = req[c].ref, q.intent = req[c].intent,
         q.st = "answered" /\ SaysConsumed(q.reply) => rows[q.ref] \in Dead,
         UNCHANGED callerVars, rows' \in [Refs -> RowStates],
         \A r \in Refs : rows[r] \in Dead => rows'[r] = rows[r],
         cache' \in [Intents -> Bodies]
  PROVE  TxInv'
<1> USE DEF TxInv
<1>1. /\ req'[c] = q
      /\ \A d \in Calls : d # c => req'[d] = req[d]
  BY DEF TypeOK
<1>2. TypeOK'
  BY DEF TypeOK, callerVars
<1>3. RefInv'
  BY DEF RefInv, callerVars
<1>4. CallInv'
  <2>1. ASSUME NEW d \in Calls, req'[d].st # "unused"
        PROVE  req'[d].intent \in Intents /\ req'[d].ref \in Refs
    BY <1>1, <2>1 DEF CallInv
  <2>2. ASSUME NEW j \in Intents, view[j] = "waiting"
        PROVE  /\ current[j] \in Calls
               /\ req'[current[j]].st # "unused"
               /\ req'[current[j]].ref = ref[j]
    BY <1>1, <2>2 DEF CallInv
  <2> QED
    BY <2>1, <2>2 DEF CallInv, callerVars
<1>5. RowInv'
  <2>1. ASSUME NEW j \in Intents, NEW s \in used[j], s # ref[j]
        PROVE  rows'[s] \in Dead
    BY <2>1 DEF TypeOK, RowInv
  <2>2. ASSUME NEW j \in Intents, view[j] \in Consumed
        PROVE  rows'[ref[j]] \in Dead
    <3>1. ref[j] \in Refs
      BY <2>2 DEF TypeOK, RefInv, Consumed
    <3> QED
      BY <2>2, <3>1 DEF RowInv
  <2>3. ASSUME NEW d \in Calls, req'[d].st = "answered", SaysConsumed(req'[d].reply)
        PROVE  rows'[req'[d].ref] \in Dead
    <3>1. req'[d].ref = req[d].ref /\ req[d].ref \in Refs
      BY <1>1, <2>3 DEF CallInv
    <3>2. rows[req[d].ref] \in Dead
      <4>1. CASE d = c
        BY <1>1, <2>3, <4>1
      <4>2. CASE d # c
        BY <1>1, <2>3, <4>2 DEF RowInv
      <4> QED
        BY <4>1, <4>2
    <3> QED
      BY <3>1, <3>2
  <2> QED
    BY <2>1, <2>2, <2>3 DEF RowInv, callerVars
<1> QED
  BY <1>2, <1>3, <1>4, <1>5

LEMMA CallerStep == ASSUME TxInv, NEW i \in Intents, Caller(i) PROVE TxInv'
<1> USE DEF TxInv
<1>1. ASSUME NEW c \in Calls, NEW r \in Refs, SubmitFresh(i, c, r)
      PROVE  TxInv'
  <2>1. Submit(i, c, r) /\ lost' = [lost EXCEPT ![i] = FALSE]
    BY <1>1 DEF SubmitFresh
  <2>2. lost' \in [Intents -> BOOLEAN]
    BY <2>1 DEF TypeOK
  <2>3. view[i] = "new" \/ view[i] \in Consumed
    BY <1>1 DEF SubmitFresh
  <2>4. ASSUME NEW s \in used[i]
        PROVE  rows[s] \in Dead
    BY <2>3 DEF RefInv, RowInv
  <2> QED
    BY <2>1, <2>2, <2>4, SubmitStep
<1>2. ASSUME NEW c \in Calls, Resubmit(i, c)
      PROVE  TxInv'
  <2>1. Submit(i, c, ref[i]) /\ lost' = lost
    BY <1>2 DEF Resubmit
  <2>2. ref[i] \in Refs
    <3>1. view[i] # "new"
      BY <1>2 DEF Resubmit, Resendable, Untold
    <3> QED
      BY <3>1 DEF TypeOK, RefInv
  <2>3. \A s \in used[i] : s # ref[i] => rows[s] \in Dead
    BY DEF RowInv
  <2>4. lost' \in [Intents -> BOOLEAN]
    BY <2>1 DEF TypeOK
  <2> QED
    BY <2>1, <2>2, <2>3, <2>4, SubmitStep
<1>3. CASE Poll(i)
  <2>1. PICK result \in {"broadcast", "failed"} : view' = [view EXCEPT ![i] = result]
    BY <1>3 DEF Poll
  <2>2. /\ result \in Views \ {"new", "waiting"} /\ result \notin Consumed
        /\ view[i] # "new"
    BY <1>3, <2>1 DEF Poll, Views, Consumed
  <2>3. UNCHANGED <<order, ref, used, current, tx, lost, req, rows, cache>>
    BY <1>3 DEF Poll, gatewayVars
  <2>4. lost' \in [Intents -> BOOLEAN] /\ tx' \in [Intents -> Refs \cup {NoRef}]
    BY <2>3 DEF TypeOK
  <2> QED
    BY <2>1, <2>2, <2>3, <2>4, ReturnStep
<1> QED
  BY <1>1, <1>2, <1>3 DEF Caller

LEMMA SDKStep == ASSUME TxInv, NEW i \in Intents, SDK(i) PROVE TxInv'
<1> USE DEF TxInv
<1>1. ASSUME NEW result \in Views \ {"new", "waiting"}, view[i] = "waiting",
             result \in Consumed => rows[ref[i]] \in Dead,
             Returns(i, result), tx' \in [Intents -> Refs \cup {NoRef}]
      PROVE  TxInv'
  <2>1. /\ view' = [view EXCEPT ![i] = result]
        /\ UNCHANGED <<order, ref, used, current, req, rows, cache>>
    BY <1>1 DEF Returns, gatewayVars
  <2>2. lost' \in [Intents -> BOOLEAN]
    BY <1>1 DEF Returns, TypeOK
  <2> QED
    BY <1>1, <2>1, <2>2, ReturnStep
<1>2. {"Http", "Decode"} \subseteq (Views \ {"new", "waiting"}) \ Consumed
  BY DEF Views, Untold, Consumed
<1>3. CASE TransportFails(i)
  BY <1>1, <1>2, <1>3 DEF TransportFails, TypeOK
<1>4. CASE ProxyAnswers(i)
  <2>1. PICK http \in ProxyStatuses : Returns(i, Kind(http, "unknown", "other"))
    BY <1>4 DEF ProxyAnswers
  <2>2. http \in Nat
    BY DEF ProxyStatuses
  <2>3. Kind(http, "unknown", "other") \in Kinds
    BY <2>2, KindType
  <2>4. Kind(http, "unknown", "other") \in Views \ {"new", "waiting"}
    BY <2>3 DEF Views, Kinds
  <2> QED
    BY <1>1, <1>4, <2>1, <2>4, OthersKeepRef DEF ProxyAnswers, TypeOK
<1>5. ASSUME NEW c \in Calls, Receive(i, c)
      PROVE  TxInv'
  <2>1. /\ view[i] = "waiting" /\ current[i] = c /\ req[c].st = "answered"
        /\ Returns(i, Heard(order[i].op, req[c].reply))
        /\ tx' = [tx EXCEPT ![i] = IF req[c].reply.http >= 400 THEN tx[i]
                                   ELSE req[c].reply.body.tx]
    BY <1>5 DEF Receive, Waits
  <2>2. req[c].reply \in Replies /\ req[c].reply.body.tx \in Refs \cup {NoRef}
    BY RequestFields DEF Bodies
  <2>3. tx' \in [Intents -> Refs \cup {NoRef}]
    BY <2>1, <2>2 DEF TypeOK
  <2>4. Heard(order[i].op, req[c].reply) \in Consumed => rows[ref[i]] \in Dead
    <3>1. req[c].ref = ref[i]
      BY <2>1 DEF CallInv
    <3> QED
      BY <2>1, <2>2, <3>1, HeardType DEF RowInv
  <2>5. Heard(order[i].op, req[c].reply) \in Views \ {"new", "waiting"}
    BY <2>2, HeardType
  <2> QED
    BY <1>1, <2>1, <2>3, <2>4, <2>5
<1>6. ASSUME NEW c \in Calls, Garbled(i, c)
      PROVE  TxInv'
  BY <1>1, <1>2, <1>6 DEF Garbled, Waits, TypeOK
<1>7. ASSUME NEW c \in Calls, TokenExpires(i, c)
      PROVE  TxInv'
  <2>1. /\ req[c].st = "sent" /\ req' = [req EXCEPT ![c] = Rebuilt(req[c])]
        /\ UNCHANGED <<callerVars, rows, cache>>
    BY <1>7 DEF TokenExpires, gatewayVars
  <2>2. req[c] \in Requests
    BY RequestFields
  <2>3. rows \in [Refs -> RowStates] /\ cache \in [Intents -> Bodies]
    BY DEF TypeOK
  <2> QED
    BY <2>1, <2>2, <2>3, RebuiltType, RequestStep
<1> QED
  BY <1>3, <1>4, <1>5, <1>6, <1>7 DEF SDK

LEMMA GatewayStep == ASSUME TxInv, NEW c \in Calls, Gateway(c) PROVE TxInv'
<1> USE DEF TxInv
<1>1. req[c] \in Requests /\ rows \in [Refs -> RowStates] /\ cache \in [Intents -> Bodies]
  BY RequestFields DEF TypeOK
<1>2. ASSUME NEW reply \in Replies, req[c].st # "unused",
             SaysConsumed(reply) => rows[req[c].ref] \in Dead,
             Answered(c, reply), UNCHANGED rows, cache' \in [Intents -> Bodies]
      PROVE  TxInv'
  <2> DEFINE q == [req[c] EXCEPT !.st = "answered", !.reply = reply]
  <2>1. req' = [req EXCEPT ![c] = q] /\ UNCHANGED callerVars
    BY <1>2 DEF Answered
  <2>2. /\ q \in Requests /\ q.st = "answered" /\ q.reply = reply
        /\ q.ref = req[c].ref /\ q.intent = req[c].intent
    BY <1>1, <1>2, AnsweredType
  <2> HIDE DEF q
  <2> QED
    BY <1>1, <1>2, <2>1, <2>2, RequestStep
<1>3. CASE Replay(c)
  <2>1. PICK b \in Bodies : Answered(c, Success(200, b))
    <3>1. req[c].intent \in Intents
      BY <1>3 DEF Replay, CallInv
    <3> QED
      BY <1>1, <1>3, <3>1 DEF Replay
  <2>2. Success(200, b) \in Replies /\ ~SaysConsumed(Success(200, b))
    BY SuccessType DEF SaysConsumed
  <2> QED
    BY <1>1, <1>2, <1>3, <2>1, <2>2 DEF Replay, gatewayVars
<1>4. CASE Refuse(c)
  <2>1. PICK reply \in Refusals : Answered(c, reply)
    BY <1>4 DEF Refuse
  <2>2. reply \in Replies /\ ~SaysConsumed(reply)
    BY ErrorType, RefusalsKeepRef DEF SaysConsumed
  <2> QED
    BY <1>1, <1>2, <1>4, <2>1, <2>2 DEF Refuse, gatewayVars
<1>5. CASE RefuseDuplicate(c)
  <2>1. Duplicate \in Replies /\ ~SaysConsumed(Duplicate)
    BY ErrorType, OthersKeepRef DEF SaysConsumed
  <2> QED
    BY <1>1, <1>2, <1>5, <2>1 DEF RefuseDuplicate, gatewayVars
<1>6. CASE Create(c)
  <2> DEFINE q == [req[c] EXCEPT !.st = "handling"]
  <2>1. /\ q \in Requests /\ q.st = "handling"
        /\ q.ref = req[c].ref /\ q.intent = req[c].intent
    BY <1>1, HandlingType
  <2>2. req' = [req EXCEPT ![c] = q] /\ UNCHANGED <<callerVars, cache>>
    BY <1>6 DEF Create
  <2>3. /\ req[c].st = "sent" /\ rows[req[c].ref] = "none"
        /\ rows' = [rows EXCEPT ![req[c].ref] = "open"]
    BY <1>6 DEF Create
  <2>4. rows' \in [Refs -> RowStates]
    BY <1>1, <2>3 DEF RowStates
  <2>5. \A r \in Refs : rows[r] \in Dead => rows'[r] = rows[r]
    BY <1>1, <2>3 DEF Dead
  <2> HIDE DEF q
  <2> QED
    BY <1>1, <2>1, <2>2, <2>3, <2>4, <2>5, RequestStep
<1>7. CASE Conclude(c)
  <2>1. req[c].st = "handling" /\ UNCHANGED rows
    BY <1>7 DEF Conclude
  <2>2. ASSUME NEW reply \in Successes(order[req[c].intent].op, req[c].ref),
               Answered(c, reply),
               cache' = IF req[c].keyed THEN [cache EXCEPT ![req[c].intent] = reply.body]
                        ELSE cache
        PROVE  TxInv'
    <3>1. PICK http \in {200, 202}, status \in {"PENDING", "BROADCAST"} :
            reply = Success(http, [tx |-> req[c].ref, status |-> status])
      BY <2>2 DEF Successes
    <3>2. [tx |-> req[c].ref, status |-> status] \in Bodies
      BY RequestFields DEF Bodies
    <3>3. /\ reply \in Replies /\ reply.body \in Bodies
          /\ ~SaysConsumed(reply)
      BY <3>1, <3>2, SuccessType DEF SaysConsumed
    <3>4. cache' \in [Intents -> Bodies]
      BY <1>1, <2>2, <3>3
    <3> QED
      BY <1>2, <2>1, <2>2, <3>3, <3>4
  <2>3. ASSUME NEW reply \in Failures(order[req[c].intent].op, req[c].ref),
               Answered(c, reply), UNCHANGED cache
        PROVE  TxInv'
    <3>1. reply \in {TransactionFailed, EngineBusy, Rejected}
      BY <2>3 DEF Failures
    <3>2. reply \in Replies
      BY <3>1, ErrorType
    <3>3. rows[req[c].ref] \in Dead
      BY <2>3 DEF Failures, Dead
    <3> QED
      BY <1>1, <1>2, <2>1, <2>3, <3>2, <3>3
  <2> QED
    BY <1>7, <2>2, <2>3 DEF Conclude
<1> QED
  BY <1>3, <1>4, <1>5, <1>6, <1>7 DEF Gateway

LEMMA EngineStep == ASSUME TxInv, NEW r \in Refs, Engine(r) PROVE TxInv'
<1> USE DEF TxInv
<1>1. PICK s \in {"broadcast"} \cup Dead : rows' = [rows EXCEPT ![r] = s]
  BY DEF Engine
<1>2. rows[r] = "open" /\ UNCHANGED <<callerVars, req, cache>>
  BY DEF Engine
<1>3. rows' \in [Refs -> RowStates]
  BY <1>1 DEF TypeOK, RowStates, Dead
<1>4. \A x \in Refs : rows[x] \in Dead => rows'[x] = rows[x]
  BY <1>1, <1>2 DEF TypeOK, Dead
<1>5. TypeOK' /\ RefInv' /\ CallInv'
  BY <1>2, <1>3 DEF TypeOK, RefInv, CallInv, callerVars
<1>6. RowInv'
  <2>1. ASSUME NEW j \in Intents, view[j] \in Consumed
        PROVE  ref[j] \in Refs
    BY <2>1 DEF TypeOK, RefInv, Consumed
  <2>2. ASSUME NEW d \in Calls, req[d].st = "answered"
        PROVE  req[d].ref \in Refs
    BY <2>2 DEF CallInv
  <2>3. \A j \in Intents : used[j] \subseteq Refs
    BY DEF TypeOK
  <2> QED
    BY <1>2, <1>4, <2>1, <2>2, <2>3 DEF RowInv, callerVars, SaysConsumed
<1> QED
  BY <1>5, <1>6

LEMMA Invariance == Spec => []TxInv
<1>1. TxInv /\ [Next]_vars => TxInv'
  <2> SUFFICES ASSUME TxInv, [Next]_vars
               PROVE  TxInv'
    OBVIOUS
  <2>1. CASE UNCHANGED vars
    BY <2>1 DEF vars, callerVars, gatewayVars, TxInv, TypeOK, RefInv, CallInv, RowInv,
                SaysConsumed
  <2> QED
    BY <2>1, CallerStep, SDKStep, GatewayStep, EngineStep DEF Next
<1> QED
  BY <1>1, InvInit, PTL DEF Spec

-----------------------------------------------------------------------------
(* What the caller is told.  It rests on one engine per reference_id: a    *)
(* row is worked for by the call that created it, and what that call says  *)
(* of it, in a body or in an error, nobody contradicts.                    *)

\* The class of a reply.
Saw(reply) == IF reply.http >= 400 THEN Kind(reply.http, reply.code, reply.msg) ELSE "Ok"

Pending(c)   == req[c].st \in {"sent", "handling"}
Consuming(c) == req[c].st = "answered" /\ Saw(req[c].reply) \in Consumed

\* Intents share no reference_id; requests and rows are some intent's.
OwnInv ==
  /\ \A i, j \in Intents : i # j => used[i] \cap used[j] = {}
  /\ \A c \in Calls : req[c].st # "unused" => req[c].ref \in used[req[c].intent]
  /\ \A i \in Intents : view[i] = "waiting" => req[current[i]].intent = i
  /\ \A r \in Refs : rows[r] # "none" => \E i \in Intents : r \in used[i]

\* A body is about the row under i's present reference_id, and true of it.
GoodBody(i, b) ==
  /\ b.tx = ref[i] /\ ref[i] \in used[i]
  /\ b.status \in {"PENDING", "BROADCAST"} /\ rows[ref[i]] # "none"
  /\ b.status = "BROADCAST" => rows[ref[i]] = "broadcast"

\* c was answered with a body.
Answers2xx(c) == req[c].st = "answered" /\ req[c].reply.http < 400

BodyInv ==
  /\ \A c \in Calls : Answers2xx(c) => GoodBody(req[c].intent, req[c].reply.body)
  /\ \A i \in Intents : cache[i] # NoBody => GoodBody(i, cache[i])

\* No body was given for i.
NoBodyFor(i) == cache[i] = NoBody /\ \A c \in Calls : Answers2xx(c) => req[c].intent # i

ViewInv ==
  \A i \in Intents :
    /\ view[i] \in {"accepted", "queued", "broadcast", "failed"} => tx[i] = ref[i]
    /\ view[i] = "broadcast" => rows[ref[i]] = "broadcast"
    /\ view[i] = "failed" => rows[ref[i]] = "failed"
    /\ view[i] = "queued" => order[i].op = "TRANSFER"

\* A row that is worked for is so by one call, before anything was said of it;
\* one that is used up was never said to have been accepted.
EngineInv ==
  /\ \A c \in Calls : req[c].st = "handling" =>
       /\ req[c].ref = ref[req[c].intent] /\ rows[req[c].ref] # "none"
       /\ NoBodyFor(req[c].intent)
       /\ \A d \in Calls : d # c /\ req[d].ref = req[c].ref =>
            req[d].st # "handling" /\ ~Consuming(d)
  /\ \A c \in Calls : Consuming(c) /\ req[c].ref = ref[req[c].intent] =>
       NoBodyFor(req[c].intent)
  /\ \A i \in Intents : view[i] \in Consumed =>
       \E c \in Calls : Consuming(c) /\ req[c].ref = ref[i]

\* What a reply under the present reference_id tells when no call was lost.
QuietReply(reply, row) ==
  /\ Saw(reply) # "DuplicateReferenceId"
  /\ Saw(reply) = "ChainRpcUnavailable" => row = "none"
  /\ Saw(reply) \in Refused => row \in {"none"} \cup Dead

\* While nothing was lost, at most the present call is on its way, and there is
\* no row that this call did not create.
QuietInv ==
  \A i \in Intents : ~lost[i] =>
    /\ view[i] \notin Untold \cup {"DuplicateReferenceId"}
    /\ view[i] = "ChainRpcUnavailable" => rows[ref[i]] = "none"
    /\ view[i] \in Refused => rows[ref[i]] \in {"none"} \cup Dead
    /\ view[i] \in {"waiting", "ChainRpcUnavailable"} \cup Refused =>
         \A c \in Calls : Pending(c) /\ req[c].ref = ref[i] =>
           view[i] = "waiting" /\ c = current[i]
    /\ view[i] = "waiting" =>
         /\ req[current[i]].st = "sent" => rows[ref[i]] = "none"
         /\ req[current[i]].st = "answered" =>
              QuietReply(req[current[i]].reply, rows[ref[i]])

TellInv == OwnInv /\ BodyInv /\ ViewInv /\ EngineInv /\ QuietInv

-----------------------------------------------------------------------------
(* Classes of replies.                                                     *)

LEMMA SawKinds ==
  /\ \A e \in Refusals : e.http >= 400 /\ Saw(e) \notin Consumed \cup {"DuplicateReferenceId"}
  /\ Duplicate.http >= 400 /\ Saw(Duplicate) \notin Consumed
  /\ \A e \in {TransactionFailed, EngineBusy} : e.http >= 400 /\ Saw(e) \in Consumed
  /\ Rejected.http >= 400 /\ Saw(Rejected) = "Rejected"
BY RefusalsKeepRef, OthersKeepRef, FailuresConsume DEF Saw

\* The sets of results a caller tells apart.
LEMMA ViewKinds ==
  /\ {"new", "waiting", "accepted", "broadcast", "queued", "failed"}
       \cap (Untold \cup Consumed \cup Refused \cup {"ChainRpcUnavailable", "DuplicateReferenceId"}) = {}
  /\ Refused \cap (Untold \cup Consumed \cup {"ChainRpcUnavailable", "DuplicateReferenceId"}) = {}
  /\ Consumed \cap (Untold \cup {"ChainRpcUnavailable", "DuplicateReferenceId"}) = {}
  /\ "Ok" \notin Consumed \cup Refused \cup {"ChainRpcUnavailable", "DuplicateReferenceId"}
BY DEF Untold, Consumed, Refused, Kinds

\* A reference_id in use is one intent's only.
LEMMA OneOwner ==
  ASSUME TxInv, OwnInv, NEW c \in Calls, req[c].st # "unused", NEW i \in Intents,
         req[c].ref = ref[i], view[i] # "new"
  PROVE  req[c].intent = i
<1>1. req[c].intent \in Intents /\ req[c].ref \in used[req[c].intent]
  BY DEF TxInv, CallInv, OwnInv
<1>2. ref[i] \in used[i]
  BY DEF TxInv, RefInv
<1> QED
  BY <1>1, <1>2 DEF OwnInv

-----------------------------------------------------------------------------
(* TellInv is inductive: again one lemma for each way a step changes the   *)
(* state.                                                                  *)

LEMMA TellInit == Init => TellInv
<1> SUFFICES ASSUME Init PROVE TellInv
  OBVIOUS
<1>1. \A c \in Calls : req[c].st = "unused"
  BY DEF Init, NoRequest
<1>2. \A i \in Intents : view[i] = "new" /\ used[i] = {} /\ cache[i] = NoBody
  BY DEF Init
<1>3. \A r \in Refs : rows[r] = "none"
  BY DEF Init
<1> QED
  BY <1>1, <1>2, <1>3, ViewKinds
  DEF TellInv, OwnInv, BodyInv, ViewInv, EngineInv, QuietInv, Answers2xx, Consuming, Pending

\* The caller submits.  A reference_id that it leaves has no call handled, and
\* none answered with a body.
LEMMA SubmitTell ==
  ASSUME TxInv, TellInv, NEW i \in Intents, NEW c \in Calls, NEW r \in Refs, Submit(i, c, r),
         \A j \in Intents : j # i => r \notin used[j] /\ lost'[j] = lost[j],
         r # ref[i] =>
           NoBodyFor(i) /\ \A d \in Calls : req[d].intent = i => req[d].st # "handling",
         ~lost'[i] => rows[r] = "none" /\ \A d \in Calls : Pending(d) => req[d].ref # r
  PROVE  TellInv'
<1> USE DEF TellInv
<1>1. /\ req[c].st = "unused"
      /\ req' = [req EXCEPT ![c] = NewRequest(i, r)]
      /\ current' = [current EXCEPT ![i] = c]
      /\ ref' = [ref EXCEPT ![i] = r]
      /\ used' = [used EXCEPT ![i] = used[i] \cup {r}]
      /\ view' = [view EXCEPT ![i] = "waiting"]
      /\ UNCHANGED <<order, tx, rows, cache>>
  BY DEF Submit, gatewayVars
<1>2. /\ req'[c].st = "sent" /\ req'[c].ref = r /\ req'[c].intent = i
      /\ \A d \in Calls : d # c => req'[d] = req[d]
  <2>1. TypeOK
    BY DEF TxInv
  <2>2. req'[c] = NewRequest(i, r) /\ \A d \in Calls : d # c => req'[d] = req[d]
    BY <1>1, <2>1 DEF TypeOK
  <2> QED
    BY <2>1, <2>2, NewRequestType
<1>3. /\ current'[i] = c /\ ref'[i] = r /\ view'[i] = "waiting" /\ used'[i] = used[i] \cup {r}
      /\ \A j \in Intents : j # i => /\ current'[j] = current[j] /\ ref'[j] = ref[j]
                                     /\ view'[j] = view[j] /\ used'[j] = used[j]
  BY <1>1 DEF TxInv, TypeOK
<1>4. \A d \in Calls : /\ Answers2xx(d)' <=> Answers2xx(d) /\ d # c
                       /\ Consuming(d)' <=> Consuming(d) /\ d # c
                       /\ req'[d].st = "handling" => d # c
  BY <1>2 DEF Answers2xx, Consuming, Saw
<1>5. ~Answers2xx(c) /\ ~Consuming(c)
  BY <1>1 DEF Answers2xx, Consuming
<1>6. \A j \in Intents : NoBodyFor(j) => NoBodyFor(j)'
  BY <1>1, <1>2, <1>4 DEF NoBodyFor
<1>7. OwnInv'
  <2>1. ASSUME NEW j \in Intents, NEW k \in Intents, j # k
        PROVE  used'[j] \cap used'[k] = {}
    BY <1>3, <2>1 DEF OwnInv
  <2>2. ASSUME NEW d \in Calls, req'[d].st # "unused"
        PROVE  req'[d].ref \in used'[req'[d].intent]
    <3>1. CASE d = c
      BY <1>2, <1>3, <3>1
    <3>2. CASE d # c
      <4>1. req[d].st # "unused" /\ req'[d] = req[d]
        BY <1>2, <2>2, <3>2
      <4>2. req[d].ref \in used[req[d].intent] /\ req[d].intent \in Intents
        BY <4>1 DEF OwnInv, TxInv, CallInv
      <4> QED
        BY <1>3, <4>1, <4>2
    <3> QED
      BY <3>1, <3>2
  <2>3. ASSUME NEW j \in Intents, view'[j] = "waiting"
        PROVE  req'[current'[j]].intent = j
    <3>1. CASE j = i
      BY <1>2, <1>3, <3>1
    <3>2. CASE j # i
      <4>1. view[j] = "waiting" /\ current'[j] = current[j]
        BY <1>3, <2>3, <3>2
      <4>2. current[j] \in Calls \ {c}
        BY <1>1, <4>1 DEF TxInv, CallInv
      <4> QED
        BY <1>2, <4>1, <4>2 DEF OwnInv
    <3> QED
      BY <3>1, <3>2
  <2>4. ASSUME NEW s \in Refs, rows'[s] # "none"
        PROVE  \E j \in Intents : s \in used'[j]
    BY <1>1, <1>3, <2>4 DEF OwnInv
  <2> QED
    BY <2>1, <2>2, <2>3, <2>4 DEF OwnInv
<1>8. ASSUME NEW j \in Intents, NEW b, GoodBody(j, b), ~NoBodyFor(j)
      PROVE  GoodBody(j, b)'
  <2>1. ref'[j] = ref[j] /\ used[j] \subseteq used'[j]
    BY <1>3, <1>8
  <2> QED
    BY <1>1, <1>8, <2>1 DEF GoodBody
<1>9. BodyInv'
  <2>1. ASSUME NEW d \in Calls, Answers2xx(d)'
        PROVE  GoodBody(req[d].intent, req[d].reply.body)' /\ req'[d] = req[d]
    <3>1. Answers2xx(d) /\ req'[d] = req[d]
      BY <1>2, <1>4, <2>1
    <3>2. req[d].intent \in Intents
      BY <3>1 DEF Answers2xx, TxInv, CallInv
    <3>3. GoodBody(req[d].intent, req[d].reply.body) /\ ~NoBodyFor(req[d].intent)
      BY <3>1, <3>2 DEF BodyInv, NoBodyFor
    <3> QED
      BY <1>8, <3>1, <3>2, <3>3
  <2>2. ASSUME NEW j \in Intents, cache'[j] # NoBody
        PROVE  GoodBody(j, cache[j])'
    <3>1. GoodBody(j, cache[j]) /\ ~NoBodyFor(j)
      BY <1>1, <2>2 DEF BodyInv, NoBodyFor
    <3> QED
      BY <1>1, <1>8, <3>1
  <2> QED
    BY <1>1, <2>1, <2>2 DEF BodyInv
<1>10. ViewInv'
  BY <1>1, <1>3 DEF ViewInv
<1>11. EngineInv'
  <2>1. ASSUME NEW d \in Calls, req'[d].st = "handling"
        PROVE  /\ req'[d].ref = ref'[req'[d].intent] /\ rows'[req'[d].ref] # "none"
               /\ NoBodyFor(req[d].intent)' /\ req'[d] = req[d]
               /\ \A e \in Calls : e # d /\ req'[e].ref = req'[d].ref =>
                    req'[e].st # "handling" /\ ~Consuming(e)'
    <3>1. d # c /\ req'[d] = req[d] /\ req[d].st = "handling"
      BY <1>2, <1>4, <2>1
    <3>2. req[d].intent \in Intents
      BY <3>1 DEF TxInv, CallInv
    <3>3. /\ req[d].ref = ref[req[d].intent] /\ rows[req[d].ref] # "none"
          /\ NoBodyFor(req[d].intent)
          /\ \A e \in Calls : e # d /\ req[e].ref = req[d].ref =>
               req[e].st # "handling" /\ ~Consuming(e)
      BY <3>1 DEF EngineInv
    <3>4. ref'[req[d].intent] = ref[req[d].intent]
      BY <1>3, <3>1, <3>2
    <3>5. ASSUME NEW e \in Calls, e # d, req'[e].ref = req'[d].ref
          PROVE  req'[e].st # "handling" /\ ~Consuming(e)'
      BY <1>2, <1>4, <3>1, <3>3, <3>5
    <3> QED
      BY <1>1, <1>6, <3>1, <3>2, <3>3, <3>4, <3>5
  <2>2. ASSUME NEW d \in Calls, Consuming(d)', req'[d].ref = ref'[req'[d].intent]
        PROVE  NoBodyFor(req[d].intent)' /\ req'[d] = req[d]
    <3>1. Consuming(d) /\ req'[d] = req[d]
      BY <1>2, <1>4, <2>2
    <3>2. req[d].intent \in Intents
      BY <3>1 DEF Consuming, TxInv, CallInv
    <3>3. NoBodyFor(req[d].intent)
      BY <1>3, <2>2, <3>1, <3>2 DEF EngineInv
    <3> QED
      BY <1>6, <3>1, <3>2, <3>3
  <2>3. ASSUME NEW j \in Intents, view'[j] \in Consumed
        PROVE  \E d \in Calls : Consuming(d)' /\ req'[d].ref = ref'[j]
    <3>1. j # i /\ view[j] \in Consumed
      BY <1>3, <2>3, ViewKinds
    <3>2. PICK d \in Calls : Consuming(d) /\ req[d].ref = ref[j]
      BY <3>1 DEF EngineInv
    <3> QED
      BY <1>2, <1>3, <1>4, <1>5, <3>1, <3>2
  <2> QED
    BY <2>1, <2>2, <2>3 DEF EngineInv
<1>12. QuietInv'
  <2> SUFFICES ASSUME NEW j \in Intents, ~lost'[j]
               PROVE  (/\ view[j] \notin Untold \cup {"DuplicateReferenceId"}
                       /\ view[j] = "ChainRpcUnavailable" => rows[ref[j]] = "none"
                       /\ view[j] \in Refused => rows[ref[j]] \in {"none"} \cup Dead
                       /\ view[j] \in {"waiting", "ChainRpcUnavailable"} \cup Refused =>
                            \A d \in Calls : Pending(d) /\ req[d].ref = ref[j] =>
                              view[j] = "waiting" /\ d = current[j]
                       /\ view[j] = "waiting" =>
                            /\ req[current[j]].st = "sent" => rows[ref[j]] = "none"
                            /\ req[current[j]].st = "answered" =>
                                 QuietReply(req[current[j]].reply, rows[ref[j]]))'
    BY DEF QuietInv
  <2>1. CASE j = i
    <3>1. \A d \in Calls : Pending(d)' /\ req'[d].ref = r => d = c
      BY <1>2, <2>1 DEF Pending
    <3> QED
      BY <1>1, <1>2, <1>3, <2>1, <3>1, ViewKinds
  <2>2. CASE j # i
    <3>1. /\ ~lost[j] /\ view'[j] = view[j] /\ ref'[j] = ref[j] /\ current'[j] = current[j]
      BY <1>3, <2>2
    <3>2. view[j] = "waiting" => current[j] \in Calls \ {c}
      BY <1>1 DEF TxInv, CallInv
    <3>3. ASSUME NEW d \in Calls, Pending(d)', req'[d].ref = ref[j],
                 view[j] \in {"waiting", "ChainRpcUnavailable"} \cup Refused
          PROVE  view[j] = "waiting" /\ d = current[j]
      <4>1. ref[j] \in used[j]
        BY <3>3, ViewKinds DEF TxInv, RefInv
      <4>2. d # c
        BY <1>2, <2>2, <3>3, <4>1
      <4>3. Pending(d) /\ req[d].ref = ref[j]
        BY <1>2, <3>3, <4>2 DEF Pending
      <4> QED
        BY <3>1, <3>3, <4>3 DEF QuietInv
    <3>4. view[j] = "waiting" => req'[current[j]] = req[current[j]]
      BY <1>2, <3>2
    <3> QED
      BY <1>1, <3>1, <3>3, <3>4 DEF QuietInv, QuietReply, Saw
  <2> QED
    BY <2>1, <2>2
<1> QED
  BY <1>7, <1>9, <1>10, <1>11, <1>12

\* A call, or a poll, returns.
LEMMA ReturnTell ==
  ASSUME TxInv, TellInv, NEW i \in Intents, NEW result,
         view' = [view EXCEPT ![i] = result],
         \A j \in Intents : j # i => tx'[j] = tx[j] /\ lost'[j] = lost[j],
         ~lost'[i] => ~lost[i],
         UNCHANGED <<order, ref, used, current, req, rows, cache>>,
         result # "waiting",
         result \in {"accepted", "queued", "broadcast", "failed"} => tx'[i] = ref[i],
         result = "broadcast" => rows[ref[i]] = "broadcast",
         result = "failed" => rows[ref[i]] = "failed",
         result = "queued" => order[i].op = "TRANSFER",
         result \in Consumed => \E c \in Calls : Consuming(c) /\ req[c].ref = ref[i],
         ~lost'[i] =>
           /\ result \notin Untold \cup {"DuplicateReferenceId"}
           /\ result = "ChainRpcUnavailable" => rows[ref[i]] = "none"
           /\ result \in Refused => rows[ref[i]] \in {"none"} \cup Dead
           /\ result \in {"ChainRpcUnavailable"} \cup Refused =>
                \A c \in Calls : Pending(c) => req[c].ref # ref[i]
  PROVE  TellInv'
<1> USE DEF TellInv
<1>1. /\ view'[i] = result
      /\ \A j \in Intents : j # i => view'[j] = view[j]
  BY DEF TxInv, TypeOK
<1>2. OwnInv'
  BY <1>1 DEF OwnInv
<1>3. BodyInv'
  BY DEF BodyInv, GoodBody, Answers2xx
<1>4. ViewInv'
  BY <1>1 DEF ViewInv
<1>5. EngineInv'
  BY <1>1 DEF EngineInv, NoBodyFor, Answers2xx, Consuming, Saw
<1>6. QuietInv'
  BY <1>1 DEF QuietInv, QuietReply, Pending, Saw
<1> QED
  BY <1>2, <1>3, <1>4, <1>5, <1>6

\* The gateway answers c.  With a body, it is true of the row, and no call of
\* the intent is under way or used up; with an error that tells of a row, c is
\* the call that created it.
LEMMA AnswerTell ==
  ASSUME TxInv, TellInv, NEW c \in Calls, NEW q \in Requests, req[c].st \in {"sent", "handling"},
         req' = [req EXCEPT ![c] = q],
         q.st = "answered", q.ref = req[c].ref, q.intent = req[c].intent,
         UNCHANGED <<callerVars, rows>>,
         cache' \in [Intents -> Bodies],
         \A i \in Intents : cache'[i] = cache[i] \/ (i = q.intent /\ q.reply.http < 400
                                                      /\ cache'[i] = q.reply.body),
         q.reply.http < 400 =>
           /\ GoodBody(q.intent, q.reply.body)
           /\ \A d \in Calls : req[d].intent = q.intent /\ d # c =>
                req[d].st # "handling" /\ ~(Consuming(d) /\ req[d].ref = ref[q.intent]),
         Saw(q.reply) \in Consumed => q.reply.http >= 400 /\ req[c].st = "handling",
         \A i \in Intents : view[i] = "waiting" /\ current[i] = c /\ ~lost[i] =>
           QuietReply(q.reply, rows[ref[i]])
  PROVE  TellInv'
<1> USE DEF TellInv
<1>1. /\ req'[c] = q
      /\ \A d \in Calls : d # c => req'[d] = req[d]
      /\ req[c].intent \in Intents
      /\ q.reply.http \in Nat
  BY DEF TxInv, TypeOK, CallInv, Requests, Replies
<1>2. UNCHANGED <<order, view, ref, used, current, tx, lost, rows>>
  BY DEF callerVars
<1>3. \A d \in Calls : /\ d # c => (Answers2xx(d)' <=> Answers2xx(d))
                       /\ d # c => (Consuming(d)' <=> Consuming(d))
                       /\ req'[d].st = "handling" => d # c /\ req[d].st = "handling"
                       /\ Pending(d)' => d # c /\ Pending(d)
  BY <1>1 DEF Answers2xx, Consuming, Pending, Saw
<1>4. /\ Answers2xx(c)' <=> q.reply.http < 400
      /\ Consuming(c)' <=> Saw(q.reply) \in Consumed
      /\ ~Answers2xx(c) /\ ~Consuming(c)
  BY <1>1 DEF Answers2xx, Consuming, Saw
<1>5. OwnInv'
  <2>1. \A d \in Calls : /\ req'[d].ref = req[d].ref /\ req'[d].intent = req[d].intent
                         /\ req'[d].st # "unused" <=> req[d].st # "unused"
    BY <1>1
  <2>2. \A i \in Intents : view[i] = "waiting" => current[i] \in Calls
    BY DEF TxInv, CallInv
  <2> QED
    BY <1>2, <2>1, <2>2 DEF OwnInv
<1>6. \A j \in Intents : \A b : GoodBody(j, b) => GoodBody(j, b)'
  BY <1>2 DEF GoodBody
<1>7. BodyInv'
  <2>1. ASSUME NEW d \in Calls, Answers2xx(d)'
        PROVE  GoodBody(req[d].intent, req[d].reply.body)'
    <3>1. CASE d = c
      BY <1>1, <1>2, <1>4, <2>1, <3>1 DEF GoodBody
    <3>2. CASE d # c
      <4>1. Answers2xx(d) /\ req'[d] = req[d]
        BY <1>1, <1>3, <2>1, <3>2
      <4>2. GoodBody(req[d].intent, req[d].reply.body)
        BY <4>1 DEF BodyInv
      <4> QED
        BY <1>2, <4>1, <4>2 DEF GoodBody
    <3> QED
      BY <3>1, <3>2
  <2>2. ASSUME NEW j \in Intents, cache'[j] # NoBody
        PROVE  GoodBody(j, cache[j])'
    <3>1. CASE cache'[j] = cache[j]
      BY <1>2, <2>2, <3>1 DEF BodyInv, GoodBody
    <3>2. CASE j = q.intent /\ q.reply.http < 400 /\ cache'[j] = q.reply.body
      BY <1>2, <3>2 DEF GoodBody
    <3> QED
      BY <3>1, <3>2
  <2> QED
    BY <2>1, <2>2 DEF BodyInv
<1>8. ViewInv'
  BY <1>2 DEF ViewInv
<1>9. ASSUME NEW j \in Intents, NoBodyFor(j), q.reply.http < 400 => j # q.intent
      PROVE  NoBodyFor(j)'
  <2>1. cache'[j] = NoBody
    BY <1>9 DEF NoBodyFor
  <2>2. ASSUME NEW d \in Calls, Answers2xx(d)' PROVE req'[d].intent # j
    BY <1>1, <1>3, <1>4, <1>9, <2>2 DEF NoBodyFor
  <2> QED
    BY <2>1, <2>2 DEF NoBodyFor
<1>10. EngineInv'
  <2>1. ASSUME NEW d \in Calls, req'[d].st = "handling"
        PROVE  /\ req'[d].ref = ref'[req'[d].intent] /\ rows'[req'[d].ref] # "none"
               /\ NoBodyFor(req[d].intent)'
               /\ \A e \in Calls : e # d /\ req'[e].ref = req'[d].ref =>
                    req'[e].st # "handling" /\ ~Consuming(e)'
    <3>1. d # c /\ req'[d] = req[d] /\ req[d].st = "handling" /\ req[d].intent \in Intents
      BY <1>1, <1>3, <2>1 DEF TxInv, CallInv
    <3>2. /\ req[d].ref = ref[req[d].intent] /\ rows[req[d].ref] # "none"
          /\ NoBodyFor(req[d].intent)
          /\ \A e \in Calls : e # d /\ req[e].ref = req[d].ref =>
               req[e].st # "handling" /\ ~Consuming(e)
      BY <3>1 DEF EngineInv
    <3>3. q.reply.http < 400 => req[d].intent # q.intent
      BY <3>1
    <3>4. ASSUME NEW e \in Calls, e # d, req'[e].ref = req'[d].ref
          PROVE  req'[e].st # "handling" /\ ~Consuming(e)'
      <4>1. req[e].st # "handling" /\ ~Consuming(e)
        BY <1>1, <3>1, <3>2, <3>4
      <4> QED
        BY <1>3, <1>4, <4>1
    <3>5. NoBodyFor(req[d].intent)'
      BY <1>9, <3>1, <3>2, <3>3
    <3> QED
      BY <1>2, <3>1, <3>2, <3>4, <3>5
  <2>2. ASSUME NEW d \in Calls, Consuming(d)', req'[d].ref = ref'[req'[d].intent]
        PROVE  NoBodyFor(req[d].intent)'
    <3>1. CASE d = c
      <4>1. req[c].st = "handling" /\ ~(q.reply.http < 400)
        BY <1>1, <1>4, <2>2, <3>1
      <4>2. NoBodyFor(req[c].intent)
        BY <4>1 DEF EngineInv
      <4> QED
        BY <1>1, <1>9, <3>1, <4>1, <4>2
    <3>2. CASE d # c
      <4>1. Consuming(d) /\ req'[d] = req[d] /\ req[d].ref = ref[req[d].intent]
        BY <1>1, <1>2, <1>3, <2>2, <3>2
      <4>2. req[d].intent \in Intents
        BY <4>1 DEF Consuming, TxInv, CallInv
      <4>3. NoBodyFor(req[d].intent)
        BY <4>1 DEF EngineInv
      <4>4. q.reply.http < 400 => req[d].intent # q.intent
        BY <3>2, <4>1
      <4> QED
        BY <1>9, <4>1, <4>2, <4>3, <4>4
    <3> QED
      BY <3>1, <3>2
  <2>3. ASSUME NEW j \in Intents, view'[j] \in Consumed
        PROVE  \E d \in Calls : Consuming(d)' /\ req'[d].ref = ref'[j]
    <3>1. PICK d \in Calls : Consuming(d) /\ req[d].ref = ref[j]
      BY <1>2, <2>3 DEF EngineInv
    <3> QED
      BY <1>1, <1>2, <1>3, <1>4, <3>1
  <2> QED
    BY <2>1, <2>2, <2>3 DEF EngineInv
<1>11. QuietInv'
  <2> SUFFICES ASSUME NEW j \in Intents, ~lost[j]
               PROVE  /\ view[j] \notin Untold \cup {"DuplicateReferenceId"}
                      /\ view[j] = "ChainRpcUnavailable" => rows[ref[j]] = "none"
                      /\ view[j] \in Refused => rows[ref[j]] \in {"none"} \cup Dead
                      /\ view[j] \in {"waiting", "ChainRpcUnavailable"} \cup Refused =>
                           \A d \in Calls : Pending(d)' /\ req'[d].ref = ref[j] =>
                             view[j] = "waiting" /\ d = current[j]
                      /\ view[j] = "waiting" =>
                           /\ req'[current[j]].st = "sent" => rows[ref[j]] = "none"
                           /\ req'[current[j]].st = "answered" =>
                                QuietReply(req'[current[j]].reply, rows[ref[j]])
    BY <1>2 DEF QuietInv, QuietReply, Saw
  <2>1. \A d \in Calls : Pending(d)' => Pending(d) /\ req'[d].ref = req[d].ref
    BY <1>1, <1>3
  <2>2. view[j] = "waiting" => current[j] \in Calls
    BY DEF TxInv, CallInv
  <2> QED
    BY <1>1, <2>1, <2>2 DEF QuietInv
<1> QED
  BY <1>5, <1>7, <1>8, <1>10, <1>11

\* The gateway creates the row of c: no call under its reference_id was
\* answered with a body, or with an error that tells of a row.
LEMMA CreateTell == ASSUME TxInv, TellInv, NEW c \in Calls, Create(c) PROVE TellInv'
<1> USE DEF TellInv
<1> DEFINE r == req[c].ref
           i == req[c].intent
<1>1. /\ i \in Intents /\ r \in Refs /\ req[c].st = "sent" /\ rows[r] = "none"
      /\ UNCHANGED <<order, view, ref, used, current, tx, lost, cache>>
      /\ rows' = [rows EXCEPT ![r] = "open"]
      /\ req' = [req EXCEPT ![c].st = "handling"]
  BY DEF Create, TxInv, CallInv, callerVars
<1>2. /\ req'[c].st = "handling" /\ req'[c].ref = r /\ req'[c].intent = i
      /\ req'[c].reply = req[c].reply
      /\ \A d \in Calls : d # c => req'[d] = req[d]
  <2>1. req \in [Calls -> Requests] /\ req[c] \in Requests
    BY DEF TxInv, TypeOK
  <2>2. /\ req'[c] = [req[c] EXCEPT !.st = "handling"]
        /\ \A d \in Calls : d # c => req'[d] = req[d]
    BY <1>1, <2>1
  <2> HIDE DEF r, i
  <2> QED
    BY <2>1, <2>2 DEF Requests, r, i
<1>3. /\ rows'[r] = "open" /\ \A s \in Refs : s # r => rows'[s] = rows[s]
      /\ \A s \in Refs : rows[s] # "none" => s # r
  BY <1>1 DEF TxInv, TypeOK
<1>4. \A d \in Calls : /\ Answers2xx(d)' <=> Answers2xx(d)
                       /\ Consuming(d)' <=> Consuming(d)
                       /\ Pending(d)' <=> Pending(d)
                       /\ req'[d].ref = req[d].ref /\ req'[d].intent = req[d].intent
                       /\ req'[d].reply = req[d].reply
  BY <1>1, <1>2 DEF Answers2xx, Consuming, Pending, Saw
<1>5. ~Answers2xx(c) /\ ~Consuming(c) /\ Pending(c)
  BY <1>1 DEF Answers2xx, Consuming, Pending
<1>6. r = ref[i]
  <2>1. r \in used[i]
    BY <1>1 DEF OwnInv
  <2> QED
    BY <1>1, <2>1 DEF TxInv, RowInv, Dead
<1>7. NoBodyFor(i)
  <2> SUFFICES ASSUME NEW b, GoodBody(i, b) PROVE FALSE
    BY <1>1 DEF NoBodyFor, BodyInv
  <2> QED
    BY <1>1, <1>6 DEF GoodBody
<1>8. \A j \in Intents : NoBodyFor(j) => NoBodyFor(j)'
  BY <1>1, <1>4 DEF NoBodyFor
<1>9. OwnInv'
  <2>1. \A d \in Calls : req'[d].st # "unused" <=> req[d].st # "unused"
    BY <1>1, <1>2
  <2>2. \A s \in Refs : rows'[s] # "none" => s = r \/ rows[s] # "none"
    BY <1>3
  <2>3. r \in used[i]
    BY <1>1 DEF OwnInv
  <2>4. \A j \in Intents : view[j] = "waiting" => current[j] \in Calls
    BY DEF TxInv, CallInv
  <2> HIDE DEF r, i
  <2> QED
    BY <1>1, <1>4, <2>1, <2>2, <2>3, <2>4 DEF OwnInv
<1>10. \A j \in Intents : rows[ref[j]] # "none" /\ ref[j] \in used[j] => rows'[ref[j]] = rows[ref[j]]
  <2>1. \A j \in Intents : used[j] \subseteq Refs
    BY DEF TxInv, TypeOK
  <2> HIDE DEF r, i
  <2> QED
    BY <1>3, <2>1
<1>11. ASSUME NEW j \in Intents, NEW b, GoodBody(j, b) PROVE GoodBody(j, b)'
  BY <1>1, <1>10, <1>11 DEF GoodBody
<1>12. BodyInv'
  <2>1. ASSUME NEW d \in Calls, Answers2xx(d)'
        PROVE  GoodBody(req[d].intent, req[d].reply.body)'
    <3>1. GoodBody(req[d].intent, req[d].reply.body) /\ req[d].intent \in Intents
      BY <1>4, <2>1 DEF BodyInv, Answers2xx, TxInv, CallInv
    <3> QED
      BY <1>4, <1>11, <3>1
  <2>2. ASSUME NEW j \in Intents, cache'[j] # NoBody
        PROVE  GoodBody(j, cache[j])'
    BY <1>1, <1>11, <2>2 DEF BodyInv
  <2> QED
    BY <2>1, <2>2 DEF BodyInv
<1>13. ViewInv'
  <2>1. \A j \in Intents : view[j] \in {"broadcast", "failed"} => ref[j] \in used[j]
    BY DEF TxInv, RefInv
  <2> HIDE DEF r, i
  <2> QED
    BY <1>1, <1>10, <2>1 DEF ViewInv
<1>14. EngineInv'
  <2>1. ASSUME NEW d \in Calls, req'[d].st = "handling"
        PROVE  /\ req'[d].ref = ref'[req'[d].intent] /\ rows'[req'[d].ref] # "none"
               /\ NoBodyFor(req[d].intent)'
               /\ \A e \in Calls : e # d /\ req'[e].ref = req'[d].ref =>
                    req'[e].st # "handling" /\ ~Consuming(e)'
    <3>1. CASE d = c
      <4>1. ASSUME NEW e \in Calls, e # c, req'[e].ref = req'[c].ref
            PROVE  req'[e].st # "handling" /\ ~Consuming(e)'
        <5>1. req[e].ref = r /\ req'[e] = req[e]
          BY <1>2, <4>1
        <5>2. req[e].st # "handling"
          BY <1>1, <5>1 DEF EngineInv
        <5>3. ~Consuming(e)
          BY <1>1, <5>1, ViewKinds DEF Consuming, Saw, TxInv, RowInv, SaysConsumed, Dead
        <5> QED
          BY <1>4, <5>1, <5>2, <5>3
      <4>2. NoBodyFor(i)'
        BY <1>1, <1>7, <1>8
      <4> QED
        BY <1>1, <1>2, <1>3, <1>6, <3>1, <4>1, <4>2
    <3>2. CASE d # c
      <4>1. req'[d] = req[d] /\ req[d].st = "handling" /\ req[d].intent \in Intents
            /\ req[d].ref \in Refs
        BY <1>2, <2>1, <3>2 DEF TxInv, CallInv
      <4>2. /\ req[d].ref = ref[req[d].intent] /\ rows[req[d].ref] # "none"
            /\ NoBodyFor(req[d].intent)
            /\ \A e \in Calls : e # d /\ req[e].ref = req[d].ref =>
                 req[e].st # "handling" /\ ~Consuming(e)
        BY <4>1 DEF EngineInv
      <4>3. req[d].ref # r /\ rows'[req[d].ref] # "none"
        BY <1>3, <4>1, <4>2
      <4>4. ASSUME NEW e \in Calls, e # d, req'[e].ref = req'[d].ref
            PROVE  req'[e].st # "handling" /\ ~Consuming(e)'
        <5>1. e # c
          BY <1>2, <4>1, <4>3, <4>4
        <5> QED
          BY <1>2, <1>4, <4>1, <4>2, <4>4, <5>1
      <4>5. NoBodyFor(req[d].intent)'
        BY <1>8, <4>1, <4>2
      <4> QED
        BY <1>1, <4>1, <4>2, <4>3, <4>4, <4>5
    <3> QED
      BY <3>1, <3>2
  <2>2. ASSUME NEW d \in Calls, Consuming(d)', req'[d].ref = ref'[req'[d].intent]
        PROVE  NoBodyFor(req[d].intent)'
    <3>1. Consuming(d) /\ req[d].ref = ref[req[d].intent] /\ req[d].intent \in Intents
      BY <1>1, <1>4, <2>2 DEF Consuming, TxInv, CallInv
    <3>2. NoBodyFor(req[d].intent)
      BY <3>1 DEF EngineInv
    <3> QED
      BY <1>4, <1>8, <3>1, <3>2
  <2>3. ASSUME NEW j \in Intents, view'[j] \in Consumed
        PROVE  \E d \in Calls : Consuming(d)' /\ req'[d].ref = ref'[j]
    <3>1. PICK d \in Calls : Consuming(d) /\ req[d].ref = ref[j]
      BY <1>1, <2>3 DEF EngineInv
    <3> QED
      BY <1>1, <1>4, <3>1
  <2> QED
    BY <2>1, <2>2, <2>3 DEF EngineInv
<1>15. QuietInv'
  <2> SUFFICES ASSUME NEW j \in Intents, ~lost[j]
               PROVE  /\ view[j] \notin Untold \cup {"DuplicateReferenceId"}
                      /\ view[j] = "ChainRpcUnavailable" => rows'[ref[j]] = "none"
                      /\ view[j] \in Refused => rows'[ref[j]] \in {"none"} \cup Dead
                      /\ view[j] \in {"waiting", "ChainRpcUnavailable"} \cup Refused =>
                           \A d \in Calls : Pending(d)' /\ req'[d].ref = ref[j] =>
                             view[j] = "waiting" /\ d = current[j]
                      /\ view[j] = "waiting" =>
                           /\ req'[current[j]].st = "sent" => rows'[ref[j]] = "none"
                           /\ req'[current[j]].st = "answered" =>
                                QuietReply(req'[current[j]].reply, rows'[ref[j]])
    BY <1>1 DEF QuietInv, QuietReply, Saw
  <2>1. view[j] \in {"waiting", "ChainRpcUnavailable"} \cup Refused =>
          \A d \in Calls : Pending(d) /\ req[d].ref = ref[j] => view[j] = "waiting" /\ d = current[j]
    BY DEF QuietInv
  <2>2. view[j] \in {"waiting", "ChainRpcUnavailable"} \cup Refused =>
          ref[j] \in Refs /\ (ref[j] = r => view[j] = "waiting" /\ c = current[j])
    <3>1. view[j] \in {"waiting", "ChainRpcUnavailable"} \cup Refused => view[j] # "new"
      BY ViewKinds
    <3> QED
      BY <1>5, <2>1, <3>1 DEF TxInv, TypeOK, RefInv
  <2>3. view[j] = "waiting" => current[j] \in Calls
    BY DEF TxInv, CallInv
  <2>4. \A d \in Calls : Pending(d)' /\ req'[d].ref = ref[j] => Pending(d) /\ req[d].ref = ref[j]
    BY <1>4
  <2>5. view[j] = "waiting" /\ ref[j] = r => req'[current[j]].st = "handling"
    BY <1>2, <2>2
  <2>6. view[j] = "waiting" /\ ref[j] # r => rows'[ref[j]] = rows[ref[j]] /\ req'[current[j]] = req[current[j]]
    <3>1. view[j] = "waiting" /\ ref[j] # r => current[j] # c
      BY DEF TxInv, CallInv
    <3> QED
      BY <1>2, <1>3, <2>2, <2>3, <3>1
  <2>7. view[j] \in {"ChainRpcUnavailable"} \cup Refused => rows'[ref[j]] = rows[ref[j]]
    BY <1>3, <2>2, ViewKinds
  <2> HIDE DEF r, i
  <2> QED
    BY <2>1, <2>4, <2>5, <2>6, <2>7 DEF QuietInv
<1> QED
  BY <1>9, <1>12, <1>13, <1>14, <1>15

\* The request is built again; nothing that a reply tells changes.
LEMMA RebuildTell ==
  ASSUME TxInv, TellInv, NEW i \in Intents, NEW c \in Calls, TokenExpires(i, c)
  PROVE  TellInv'
<1> USE DEF TellInv
<1>1. \A d \in Calls : /\ req'[d].st = req[d].st /\ req'[d].ref = req[d].ref
                       /\ req'[d].intent = req[d].intent /\ req'[d].reply = req[d].reply
  <2>1. req' = [req EXCEPT ![c] = Rebuilt(req[c])] /\ req \in [Calls -> Requests]
    BY DEF TokenExpires, TxInv, TypeOK
  <2>2. req'[c] = Rebuilt(req[c]) /\ \A d \in Calls : d # c => req'[d] = req[d]
    BY <2>1
  <2> QED
    BY <2>1, <2>2, RebuiltType
<1>2. UNCHANGED <<order, view, ref, used, current, tx, lost, rows, cache>>
  BY DEF TokenExpires, callerVars, gatewayVars
<1>3. \A d \in Calls : /\ Answers2xx(d)' <=> Answers2xx(d)
                       /\ Consuming(d)' <=> Consuming(d)
                       /\ Pending(d)' <=> Pending(d)
  BY <1>1 DEF Answers2xx, Consuming, Pending, Saw
<1>4. \A j \in Intents : view[j] = "waiting" => current[j] \in Calls
  BY DEF TxInv, CallInv
<1>5. OwnInv'
  BY <1>1, <1>2, <1>4 DEF OwnInv
<1>6. BodyInv'
  BY <1>1, <1>2, <1>3 DEF BodyInv, GoodBody
<1>7. ViewInv'
  BY <1>2 DEF ViewInv
<1>8. \A j \in Intents : NoBodyFor(j)' <=> NoBodyFor(j)
  BY <1>1, <1>2, <1>3 DEF NoBodyFor
<1>9. EngineInv'
  <2>1. \A d \in Calls : req[d].st # "unused" => req[d].intent \in Intents
    BY DEF TxInv, CallInv
  <2>2. \A d \in Calls : Consuming(d) => req[d].st = "answered"
    BY DEF Consuming
  <2>3. \A d \in Calls : req[d].st # "unused" =>
          (NoBodyFor(req[d].intent)' <=> NoBodyFor(req[d].intent))
    BY <1>1, <1>8, <2>1
  <2> QED
    BY <1>1, <1>2, <1>3, <2>2, <2>3 DEF EngineInv
<1>10. QuietInv'
  BY <1>1, <1>2, <1>3, <1>4 DEF QuietInv, QuietReply, Saw
<1> QED
  BY <1>5, <1>6, <1>7, <1>9, <1>10

\* The engine decides about an open row, of which nothing was said yet.
LEMMA EngineTell == ASSUME TxInv, TellInv, NEW r \in Refs, Engine(r) PROVE TellInv'
<1> USE DEF TellInv
<1>1. PICK s \in {"broadcast"} \cup Dead : rows' = [rows EXCEPT ![r] = s]
  BY DEF Engine
<1>2. rows[r] = "open" /\ UNCHANGED <<order, view, ref, used, current, tx, lost, req, cache>>
  BY DEF Engine, callerVars
<1>3. /\ \A x \in Refs : rows[x] # "open" => rows'[x] = rows[x]
      /\ \A x \in Refs : rows'[x] # "none" <=> rows[x] # "none"
  BY <1>1, <1>2 DEF TxInv, TypeOK, Dead
<1>4. \A j \in Intents : view[j] # "new" => ref[j] \in Refs
  BY DEF TxInv, TypeOK, RefInv
<1>5. OwnInv'
  BY <1>2, <1>3 DEF OwnInv
<1>6. ASSUME NEW j \in Intents, NEW b, GoodBody(j, b) PROVE GoodBody(j, b)'
  <2>1. ref[j] \in Refs
    BY <1>6 DEF GoodBody, TxInv, TypeOK
  <2> QED
    BY <1>2, <1>3, <1>6, <2>1 DEF GoodBody
<1>7. BodyInv'
  <2>1. ASSUME NEW d \in Calls, Answers2xx(d)'
        PROVE  GoodBody(req[d].intent, req[d].reply.body)'
    <3>1. GoodBody(req[d].intent, req[d].reply.body) /\ req[d].intent \in Intents
      BY <1>2, <2>1 DEF BodyInv, Answers2xx, TxInv, CallInv
    <3> QED
      BY <1>2, <1>6, <3>1
  <2>2. ASSUME NEW j \in Intents, cache'[j] # NoBody
        PROVE  GoodBody(j, cache[j])'
    BY <1>2, <1>6, <2>2 DEF BodyInv
  <2> QED
    BY <2>1, <2>2 DEF BodyInv
<1>8. ViewInv'
  <2>1. \A j \in Intents : view[j] \in {"broadcast", "failed"} => rows'[ref[j]] = rows[ref[j]]
    BY <1>3, <1>4 DEF ViewInv
  <2> QED
    BY <1>2, <2>1 DEF ViewInv
<1>9. EngineInv'
  <2>1. \A d \in Calls : req[d].st # "unused" => req[d].ref \in Refs
    BY DEF TxInv, CallInv
  <2>2. \A d \in Calls : /\ Consuming(d)' <=> Consuming(d)
                         /\ Answers2xx(d)' <=> Answers2xx(d)
    BY <1>2 DEF Consuming, Answers2xx, Saw
  <2>3. ASSUME NEW j, NoBodyFor(j) PROVE NoBodyFor(j)'
    BY <1>2, <2>2, <2>3 DEF NoBodyFor
  <2>4. ASSUME NEW d \in Calls, NoBodyFor(req[d].intent) PROVE NoBodyFor(req[d].intent)'
    BY <1>2, <2>3, <2>4
  <2> QED
    BY <1>2, <1>3, <2>1, <2>2, <2>4 DEF EngineInv
<1>10. QuietInv'
  <2>1. \A j \in Intents : view[j] # "new" /\ rows[ref[j]] \in {"none"} \cup Dead =>
          rows'[ref[j]] = rows[ref[j]]
    BY <1>3, <1>4 DEF Dead
  <2>2. \A j \in Intents : view[j] \in {"waiting", "ChainRpcUnavailable"} \cup Refused =>
          view[j] # "new"
    BY ViewKinds
  <2>3. \A d \in Calls : Pending(d)' <=> Pending(d)
    BY <1>2 DEF Pending
  <2>4. ASSUME NEW j \in Intents, NEW reply, view[j] = "waiting", QuietReply(reply, rows[ref[j]])
        PROVE  QuietReply(reply, rows'[ref[j]])
    BY <2>1, <2>2, <2>4 DEF QuietReply
  <2>5. \A j \in Intents : view[j] = "waiting" /\ rows[ref[j]] = "none" => rows'[ref[j]] = "none"
    BY <2>1, <2>2
  <2>6. ASSUME NEW j \in Intents, view[j] \in {"ChainRpcUnavailable"} \cup Refused,
               rows[ref[j]] \in {"none"} \cup Dead
        PROVE  rows'[ref[j]] = rows[ref[j]]
    BY <2>1, <2>2, <2>6
  <2> SUFFICES ASSUME NEW j \in Intents, ~lost[j]
               PROVE  /\ view[j] \notin Untold \cup {"DuplicateReferenceId"}
                      /\ view[j] = "ChainRpcUnavailable" => rows'[ref[j]] = "none"
                      /\ view[j] \in Refused => rows'[ref[j]] \in {"none"} \cup Dead
                      /\ view[j] \in {"waiting", "ChainRpcUnavailable"} \cup Refused =>
                           \A d \in Calls : Pending(d) /\ req[d].ref = ref[j] =>
                             view[j] = "waiting" /\ d = current[j]
                      /\ view[j] = "waiting" =>
                           /\ req[current[j]].st = "sent" => rows'[ref[j]] = "none"
                           /\ req[current[j]].st = "answered" =>
                                QuietReply(req[current[j]].reply, rows'[ref[j]])
    BY <1>2, <2>3 DEF QuietInv, QuietReply, Saw
  <2> QED
    BY <2>4, <2>5, <2>6 DEF QuietInv
<1> QED
  BY <1>5, <1>7, <1>8, <1>9, <1>10

\* A reference_id is left when it is new to everybody, or used up by a call
\* that nobody contradicts.
LEMMA CallerTell == ASSUME TxInv, TellInv, NEW i \in Intents, Caller(i) PROVE TellInv'
<1>1. ASSUME NEW c \in Calls, NEW r \in Refs, SubmitFresh(i, c, r)
      PROVE  TellInv'
  <2>1. /\ Submit(i, c, r) /\ lost' = [lost EXCEPT ![i] = FALSE]
        /\ view[i] = "new" \/ view[i] \in Consumed
        /\ \A j \in Intents : r \notin used[j]
    BY <1>1 DEF SubmitFresh
  <2>2. \A j \in Intents : j # i => r \notin used[j] /\ lost'[j] = lost[j]
    BY <2>1 DEF TxInv, TypeOK
  <2>3. rows[r] = "none" /\ \A d \in Calls : Pending(d) => req[d].ref # r
    <3>1. rows[r] = "none"
      BY <2>1 DEF TellInv, OwnInv
    <3>2. ASSUME NEW d \in Calls, Pending(d), req[d].ref = r PROVE FALSE
      BY <2>1, <3>2 DEF Pending, TellInv, OwnInv, TxInv, CallInv
    <3> QED
      BY <3>1, <3>2
  <2>4. NoBodyFor(i) /\ \A d \in Calls : req[d].intent = i => req[d].st # "handling"
    <3>1. CASE view[i] = "new"
      <4>1. used[i] = {}
        BY <3>1 DEF TxInv, RefInv
      <4>2. \A d \in Calls : req[d].intent = i => req[d].st = "unused"
        BY <4>1 DEF TellInv, OwnInv
      <4>3. cache[i] = NoBody
        BY <4>1 DEF TellInv, BodyInv, GoodBody
      <4> QED
        BY <4>2, <4>3 DEF NoBodyFor, Answers2xx
    <3>2. CASE view[i] \in Consumed
      <4>1. view[i] # "new"
        BY <3>2, ViewKinds
      <4>2. PICK d \in Calls : Consuming(d) /\ req[d].ref = ref[i]
        BY <3>2 DEF TellInv, EngineInv
      <4>3. req[d].intent = i /\ req[d].st = "answered"
        BY <4>1, <4>2, OneOwner DEF Consuming, TellInv
      <4>4. NoBodyFor(i)
        BY <4>2, <4>3 DEF TellInv, EngineInv
      <4>5. ASSUME NEW e \in Calls, req[e].intent = i, req[e].st = "handling" PROVE FALSE
        <5>1. req[e].ref = ref[i] /\ e # d
          BY <4>3, <4>5 DEF TellInv, EngineInv
        <5> QED
          BY <4>2, <4>5, <5>1 DEF TellInv, EngineInv
      <4> QED
        BY <4>4, <4>5
    <3> QED
      BY <2>1, <3>1, <3>2
  <2> QED
    BY <2>1, <2>2, <2>3, <2>4, SubmitTell
<1>2. ASSUME NEW c \in Calls, Resubmit(i, c)
      PROVE  TellInv'
  <2>1. /\ Submit(i, c, ref[i]) /\ lost' = lost
        /\ view[i] \in Resendable \cup {"DuplicateReferenceId"}
    BY <1>2 DEF Resubmit
  <2>2. view[i] # "new"
    BY <2>1, ViewKinds DEF Resendable
  <2>3. ref[i] \in Refs /\ ref[i] \in used[i]
    BY <2>2 DEF TxInv, RefInv, TypeOK
  <2>4. \A j \in Intents : j # i => ref[i] \notin used[j]
    BY <2>3 DEF TellInv, OwnInv
  <2>5. ~lost[i] => rows[ref[i]] = "none" /\ \A d \in Calls : Pending(d) => req[d].ref # ref[i]
    <3>1. ~lost[i] => view[i] = "ChainRpcUnavailable"
      BY <2>1 DEF TellInv, QuietInv, Resendable
    <3> QED
      BY <3>1 DEF TellInv, QuietInv
  <2> QED
    BY <2>1, <2>3, <2>4, <2>5, SubmitTell
<1>3. CASE Poll(i)
  <2>1. PICK result \in {"broadcast", "failed"} :
          rows[tx[i]] = result /\ view' = [view EXCEPT ![i] = result]
    BY <1>3 DEF Poll
  <2>2. tx[i] = ref[i]
    BY <1>3 DEF Poll, TellInv, ViewInv
  <2>3. UNCHANGED <<order, ref, used, current, tx, lost, req, rows, cache>>
    BY <1>3 DEF Poll, gatewayVars
  <2>4. result \notin Untold \cup Consumed \cup Refused \cup {"ChainRpcUnavailable", "DuplicateReferenceId"}
    BY <2>1, ViewKinds
  <2> QED
    BY <2>1, <2>2, <2>3, <2>4, ReturnTell
<1> QED
  BY <1>1, <1>2, <1>3 DEF Caller

\* What is heard of a reply.
LEMMA HeardTells ==
  ASSUME NEW op, NEW reply \in Replies
  PROVE  /\ reply.http >= 400 => Heard(op, reply) = Saw(reply)
         /\ reply.http < 400 =>
              /\ Heard(op, reply) \in {"accepted", "broadcast", "queued"}
              /\ Heard(op, reply) = "broadcast" => reply.body.status = "BROADCAST"
              /\ Heard(op, reply) = "queued" /\ reply.body.status \in {"PENDING", "BROADCAST"} =>
                   op = "TRANSFER"
<1>1. CASE reply.http >= 400
  <2>1. reply.http \in Nat
    BY DEF Replies
  <2> QED
    BY <1>1, <2>1 DEF Heard, Saw
<1>2. CASE ~(reply.http >= 400)
  BY <1>2 DEF Heard, IsAccepted, IsBroadcast
<1> QED
  BY <1>1, <1>2

\* The class of an error is a kind.
LEMMA SawType == ASSUME NEW reply \in Replies, reply.http >= 400 PROVE Saw(reply) \in Kinds
<1>1. reply.http \in Nat
  BY DEF Replies
<1> QED
  BY <1>1, KindType DEF Saw

LEMMA SDKTell == ASSUME TxInv, TellInv, NEW i \in Intents, SDK(i) PROVE TellInv'
<1>1. ASSUME NEW result \in Untold, Returns(i, result), UNCHANGED tx PROVE TellInv'
  <2>1. /\ view' = [view EXCEPT ![i] = result] /\ lost'[i]
        /\ \A j \in Intents : j # i => tx'[j] = tx[j] /\ lost'[j] = lost[j]
        /\ UNCHANGED <<order, ref, used, current, req, rows, cache>>
    BY <1>1 DEF Returns, gatewayVars, TxInv, TypeOK
  <2>2. result \notin {"waiting", "accepted", "queued", "broadcast", "failed"} \cup Consumed
    BY <1>1, ViewKinds
  <2> QED
    BY <2>1, <2>2, ReturnTell
<1>2. "Http" \in Untold /\ "Decode" \in Untold
  BY DEF Untold
<1>3. CASE TransportFails(i)
  BY <1>1, <1>2, <1>3 DEF TransportFails
<1>4. CASE ProxyAnswers(i)
  BY <1>1, <1>4, OthersKeepRef DEF ProxyAnswers
<1>5. ASSUME NEW c \in Calls, Receive(i, c)
      PROVE  TellInv'
  <2> DEFINE reply == req[c].reply
             result == Heard(order[i].op, reply)
  <2>1. /\ view[i] = "waiting" /\ current[i] = c /\ req[c].st = "answered"
        /\ Returns(i, result)
        /\ tx' = [tx EXCEPT ![i] = IF reply.http >= 400 THEN tx[i] ELSE reply.body.tx]
    BY <1>5 DEF Receive, Waits
  <2>2. reply \in Replies /\ reply.http \in Nat /\ req[c].ref = ref[i] /\ req[c].intent = i
    BY <2>1, RequestFields DEF TxInv, CallInv, TellInv, OwnInv
  <2> HIDE DEF result
  <2>3. /\ view' = [view EXCEPT ![i] = result]
        /\ lost' = [lost EXCEPT ![i] = lost[i] \/ result \in Untold]
        /\ UNCHANGED <<order, ref, used, current, req, rows, cache>>
    BY <2>1 DEF Returns, gatewayVars
  <2>4. \A j \in Intents : j # i => tx'[j] = tx[j] /\ lost'[j] = lost[j]
    BY <2>1, <2>3 DEF TxInv, TypeOK
  <2>5. ~lost'[i] => ~lost[i] /\ result \notin Untold
    BY <2>3 DEF TxInv, TypeOK
  <2>6. \A d \in Calls : ~lost[i] /\ Pending(d) => req[d].ref # ref[i]
    BY <2>1 DEF TellInv, QuietInv, Pending
  <2>7. CASE reply.http >= 400
    <3>1. result = Saw(reply) /\ result \in Kinds
      BY <2>2, <2>7, HeardTells, SawType DEF result
    <3>2. result \notin {"waiting", "accepted", "queued", "broadcast", "failed"}
      BY <3>1 DEF Kinds
    <3>3. result \in Consumed => Consuming(c) /\ req[c].ref = ref[i]
      BY <2>1, <2>2, <3>1 DEF Consuming
    <3>4. ~lost[i] => QuietReply(reply, rows[ref[i]])
      BY <2>1 DEF TellInv, QuietInv
    <3> QED
      BY <2>3, <2>4, <2>5, <2>6, <3>1, <3>2, <3>3, <3>4, ReturnTell DEF QuietReply
  <2>8. CASE reply.http < 400
    <3>1. GoodBody(i, reply.body) /\ tx'[i] = reply.body.tx
      BY <2>1, <2>2, <2>8 DEF TellInv, BodyInv, Answers2xx, TxInv, TypeOK
    <3>2. /\ result \in {"accepted", "broadcast", "queued"}
          /\ result = "broadcast" => reply.body.status = "BROADCAST"
          /\ result = "queued" => order[i].op = "TRANSFER"
      BY <2>2, <2>8, <3>1, HeardTells DEF result, GoodBody
    <3>3. result \notin Untold \cup Consumed \cup Refused \cup {"ChainRpcUnavailable", "DuplicateReferenceId"}
      BY <3>2, ViewKinds
    <3>4. tx'[i] = ref[i] /\ (result = "broadcast" => rows[ref[i]] = "broadcast")
      BY <3>1, <3>2 DEF GoodBody
    <3> QED
      BY <2>3, <2>4, <2>5, <3>2, <3>3, <3>4, ReturnTell
  <2> QED
    BY <2>2, <2>7, <2>8
<1>6. ASSUME NEW c \in Calls, Garbled(i, c)
      PROVE  TellInv'
  BY <1>1, <1>2, <1>6 DEF Garbled
<1>7. ASSUME NEW c \in Calls, TokenExpires(i, c)
      PROVE  TellInv'
  BY <1>7, RebuildTell
<1> QED
  BY <1>3, <1>4, <1>5, <1>6, <1>7 DEF SDK

\* A body that was given rules out that the row is still worked for, and that
\* its reference_id was said to be used up.
LEMMA BodyEndsCalls ==
  ASSUME TxInv, TellInv, NEW i \in Intents, ~NoBodyFor(i), NEW d \in Calls, req[d].intent = i
  PROVE  req[d].st # "handling" /\ ~(Consuming(d) /\ req[d].ref = ref[i])
BY DEF TellInv, EngineInv

LEMMA GatewayTell == ASSUME TxInv, TellInv, NEW c \in Calls, Gateway(c) PROVE TellInv'
<1>1. req[c] \in Requests /\ cache \in [Intents -> Bodies]
  BY RequestFields DEF TxInv, TypeOK
<1>2. \* an error under which no row is touched
      ASSUME NEW reply \in Replies, reply.http >= 400, req[c].st \in {"sent", "handling"},
             Answered(c, reply), UNCHANGED <<rows, cache>>,
             Saw(reply) \in Consumed => req[c].st = "handling",
             \A i \in Intents : view[i] = "waiting" /\ current[i] = c /\ ~lost[i] =>
               QuietReply(reply, rows[ref[i]])
      PROVE  TellInv'
  <2> DEFINE q == [req[c] EXCEPT !.st = "answered", !.reply = reply]
  <2>1. req' = [req EXCEPT ![c] = q] /\ UNCHANGED callerVars
    BY <1>2 DEF Answered
  <2>2. /\ q \in Requests /\ q.st = "answered" /\ q.reply = reply
        /\ q.ref = req[c].ref /\ q.intent = req[c].intent
    BY <1>1, <1>2, AnsweredType
  <2>3. ~(reply.http < 400)
    BY <1>2 DEF Replies
  <2> HIDE DEF q
  <2> QED
    BY <1>1, <1>2, <2>1, <2>2, <2>3, AnswerTell
<1>3. \* a body
      ASSUME NEW reply \in Replies, reply.http < 400, req[c].st \in {"sent", "handling"},
             Answered(c, reply), UNCHANGED rows,
             cache' = cache \/ cache' = [cache EXCEPT ![req[c].intent] = reply.body],
             GoodBody(req[c].intent, reply.body),
             \A d \in Calls : req[d].intent = req[c].intent /\ d # c =>
               req[d].st # "handling" /\ ~(Consuming(d) /\ req[d].ref = ref[req[c].intent])
      PROVE  TellInv'
  <2> DEFINE q == [req[c] EXCEPT !.st = "answered", !.reply = reply]
  <2>1. req' = [req EXCEPT ![c] = q] /\ UNCHANGED callerVars
    BY <1>3 DEF Answered
  <2>2. /\ q \in Requests /\ q.st = "answered" /\ q.reply = reply
        /\ q.ref = req[c].ref /\ q.intent = req[c].intent
    BY <1>1, <1>3, AnsweredType
  <2>3. Saw(reply) = "Ok" /\ reply.body \in Bodies
    BY <1>3 DEF Saw, Replies
  <2> HIDE DEF q
  <2>4. /\ cache' \in [Intents -> Bodies]
        /\ \A i \in Intents : cache'[i] = cache[i] \/ (i = req[c].intent /\ cache'[i] = reply.body)
    BY <1>1, <1>3, <2>3
  <2>5. (\A i \in Intents : QuietReply(reply, rows[ref[i]])) /\ Saw(reply) \notin Consumed
    BY <2>3, ViewKinds DEF QuietReply
  <2>6. /\ GoodBody(q.intent, q.reply.body)
        /\ \A d \in Calls : req[d].intent = q.intent /\ d # c =>
             req[d].st # "handling" /\ ~(Consuming(d) /\ req[d].ref = ref[q.intent])
    BY <1>3, <2>2
  <2>7. \A i \in Intents : cache'[i] = cache[i] \/ (i = q.intent /\ q.reply.http < 400
                                                      /\ cache'[i] = q.reply.body)
    BY <1>3, <2>2, <2>4
  <2>8. Saw(q.reply) \notin Consumed /\ \A i \in Intents : QuietReply(q.reply, rows[ref[i]])
    BY <2>2, <2>5
  <2> QED
    BY <1>3, <2>1, <2>2, <2>4, <2>6, <2>7, <2>8, AnswerTell
<1>4. CASE Replay(c)
  <2> DEFINE i == req[c].intent
  <2>1. i \in Intents /\ cache[i] # NoBody /\ cache[i] \in Bodies /\ GoodBody(i, cache[i])
    BY <1>1, <1>4 DEF Replay, TxInv, CallInv, TellInv, BodyInv
  <2>2. ~NoBodyFor(i)
    BY <2>1 DEF NoBodyFor
  <2>3. Answered(c, Success(200, cache[i])) /\ req[c].st = "sent" /\ UNCHANGED <<rows, cache>>
    BY <1>4 DEF Replay, gatewayVars
  <2>4. PICK reply \in Replies : /\ Answered(c, reply) /\ reply.http < 400
                                /\ reply.body = cache[i]
    BY <2>1, <2>3, SuccessType
  <2> QED
    BY <1>3, <2>1, <2>2, <2>3, <2>4, BodyEndsCalls
<1>5. CASE Refuse(c)
  <2>1. PICK reply \in Refusals : Answered(c, reply)
    BY <1>5 DEF Refuse
  <2>2. /\ reply \in Replies /\ reply.http >= 400
        /\ Saw(reply) \notin Consumed \cup {"DuplicateReferenceId"}
    BY ErrorType, SawKinds
  <2>3. req[c].st = "sent" /\ UNCHANGED <<rows, cache>>
    BY <1>5 DEF Refuse, gatewayVars
  <2>4. \A i \in Intents : view[i] = "waiting" /\ current[i] = c /\ ~lost[i] => rows[ref[i]] = "none"
    BY <2>3 DEF TellInv, QuietInv
  <2> QED
    BY <1>2, <2>1, <2>2, <2>3, <2>4 DEF QuietReply
<1>6. CASE RefuseDuplicate(c)
  <2>1. /\ Answered(c, Duplicate) /\ req[c].st = "sent" /\ rows[req[c].ref] # "none"
        /\ UNCHANGED <<rows, cache>>
    BY <1>6 DEF RefuseDuplicate, gatewayVars
  <2>2. \A i \in Intents : ~(view[i] = "waiting" /\ current[i] = c /\ ~lost[i])
    BY <2>1 DEF TellInv, QuietInv, TxInv, CallInv
  <2> QED
    BY <1>2, <2>1, <2>2, ErrorType, SawKinds
<1>7. CASE Create(c)
  BY <1>7, CreateTell
<1>8. CASE Conclude(c)
  <2> DEFINE i == req[c].intent
             r == req[c].ref
  <2>1. req[c].st = "handling" /\ UNCHANGED rows
    BY <1>8 DEF Conclude
  <2>2. i \in Intents /\ r \in used[i] /\ r = ref[i] /\ rows[r] # "none" /\ r \in Refs
    BY <2>1 DEF TxInv, CallInv, TellInv, OwnInv, EngineInv
  <2>3. ASSUME NEW reply \in Successes(order[i].op, r), Answered(c, reply),
               cache' = IF req[c].keyed THEN [cache EXCEPT ![i] = reply.body] ELSE cache
        PROVE  TellInv'
    <3>1. PICK http \in {200, 202}, status \in {"PENDING", "BROADCAST"} :
            /\ reply = Success(http, [tx |-> r, status |-> status])
            /\ status = "BROADCAST" => rows[r] = "broadcast"
      BY <2>3 DEF Successes
    <3>2. [tx |-> r, status |-> status] \in Bodies
      BY <2>2 DEF Bodies
    <3>3. /\ reply \in Replies /\ reply.http < 400
          /\ reply.body = [tx |-> r, status |-> status]
      BY <3>1, <3>2, SuccessType
    <3>4. GoodBody(i, reply.body)
      BY <2>2, <3>1, <3>3 DEF GoodBody
    <3>5. ASSUME NEW d \in Calls, req[d].intent = i, d # c
          PROVE  req[d].st # "handling" /\ ~(Consuming(d) /\ req[d].ref = ref[i])
      BY <2>1, <2>2, <3>5 DEF TellInv, EngineInv
    <3> QED
      BY <1>3, <2>1, <2>3, <3>3, <3>4, <3>5
  <2>4. ASSUME NEW reply \in Failures(order[i].op, r), Answered(c, reply), UNCHANGED cache
        PROVE  TellInv'
    <3>1. reply \in {TransactionFailed, EngineBusy, Rejected} /\ rows[r] \in Dead
      BY <2>4 DEF Failures, Dead
    <3>2. /\ reply \in Replies /\ reply.http >= 400
          /\ Saw(reply) \in Consumed \cup {"Rejected"}
      BY <3>1, ErrorType, SawKinds
    <3>3. Saw(reply) \notin {"DuplicateReferenceId", "ChainRpcUnavailable"}
      BY <3>2, ViewKinds
    <3>4. \A j \in Intents : view[j] = "waiting" /\ current[j] = c => ref[j] = r
      BY DEF TxInv, CallInv
    <3> QED
      BY <1>2, <2>1, <2>4, <3>1, <3>2, <3>3, <3>4 DEF QuietReply
  <2> QED
    BY <1>8, <2>3, <2>4 DEF Conclude
<1> QED
  BY <1>4, <1>5, <1>6, <1>7, <1>8 DEF Gateway

LEMMA TellInvariance == Spec => [](TxInv /\ TellInv)
<1>1. TxInv /\ TellInv /\ [Next]_vars => TellInv'
  <2> SUFFICES ASSUME TxInv, TellInv, [Next]_vars
               PROVE  TellInv'
    OBVIOUS
  <2>1. CASE UNCHANGED vars
    BY <2>1 DEF vars, callerVars, gatewayVars, TellInv, OwnInv, BodyInv, GoodBody, ViewInv,
                EngineInv, QuietInv, QuietReply, NoBodyFor, Answers2xx, Consuming, Pending, Saw
  <2> QED
    BY <2>1, CallerTell, SDKTell, GatewayTell, EngineTell DEF Next
<1> QED
  BY <1>1, TellInit, Invariance, PTL DEF Spec

-----------------------------------------------------------------------------
(* Theorems.                                                               *)

\* Every variable keeps its type: every reply of the gateway, and every page
\* a proxy sends instead, falls into one of the kinds of error.
THEOREM TypeCorrect == Spec => []TypeOK
<1>1. TxInv => TypeOK
  BY DEF TxInv
<1> QED
  BY <1>1, Invariance, PTL

\* An intent is paid at most once by a caller that goes by the kind of the
\* error, whatever is lost, late or sent again.
THEOREM NeverPaidTwice == Spec => []PaidOnce
<1>1. TxInv => PaidOnce
  <2> SUFFICES ASSUME TxInv, NEW i \in Intents, NEW r \in used[i], NEW s \in used[i],
                      rows[r] = "broadcast", rows[s] = "broadcast"
               PROVE  r = s
    BY DEF PaidOnce
  <2>1. r = ref[i] /\ s = ref[i]
    BY DEF TxInv, RowInv, Dead
  <2> QED
    BY <2>1
<1> QED
  BY <1>1, Invariance, PTL

\* What the caller is told of the outcome is so, however the replies were lost,
\* replayed or late.
THEOREM TellsTruly == Spec => []ToldTruly
<1>1. TxInv /\ TellInv => ToldTruly
  BY DEF TxInv, RefInv, TellInv, ViewInv, ToldTruly
<1> QED
  BY <1>1, TellInvariance, PTL

\* No kind of error makes a caller send again a reference_id it was told is
\* used up, for every set of errors the gateway may raise before the row.
THEOREM DuplicateTellsOfLoss == Spec => []DuplicateOnlyAfterLoss
<1>1. TellInv => DuplicateOnlyAfterLoss
  BY DEF TellInv, QuietInv, DuplicateOnlyAfterLoss
<1> QED
  BY <1>1, TellInvariance, PTL

-----------------------------------------------------------------------------
(* The refinement.  A reference_id that was left has a dead row, so what   *)
(* an intent was paid under is at most its present one.                    *)

LEMMA MadeUnderRef ==
  ASSUME TxInv, NEW i \in Intents
  PROVE  Made(i) = IF ref[i] \in used[i] /\ rows[ref[i]] = "broadcast" THEN {ref[i]} ELSE {}
BY DEF Made, TxInv, RowInv, Dead

\* A caller that was told, was told so of its present row.
LEMMA ToldOfRow ==
  ASSUME TxInv, TellInv, NEW i \in Intents
  PROVE  /\ Told(i) = "done" => rows[ref[i]] = "broadcast"
         /\ Told(i) = "refused" => rows[ref[i]] \in {"none"} \cup Dead
         /\ Told(i) \notin {"done", "refused"} => Told(i) = "unknown"
BY DEF Told, TellInv, ViewInv, QuietInv, Dead

LEMMA Stutters ==
  ASSUME \A j \in Intents : Made(j)' = Made(j) /\ Told(j)' = Told(j)
  PROVE  UNCHANGED Ledger!vars
BY DEF Ledger!vars

LEMMA Tells ==
  ASSUME NEW i \in Intents, Told(i) = "unknown",
         Told(i)' = IF Made(i) = {} THEN "refused" ELSE "done",
         \A j \in Intents : Made(j)' = Made(j) /\ (j # i => Told(j)' = Told(j))
  PROVE  Ledger!Tell(i)
BY DEF Ledger!Tell

LEMMA Pays ==
  ASSUME NEW i \in Intents, Told(i) = "unknown", Made(i) = {}, NEW r \in Refs, Made(i)' = {r},
         \A j \in Intents : Told(j)' = Told(j) /\ (j # i => Made(j)' = Made(j))
  PROVE  Ledger!Pay(i)
<1>1. [j \in Intents |-> Made(j)'] = [[j \in Intents |-> Made(j)] EXCEPT ![i] = {r}]
  OBVIOUS
<1> QED
  BY <1>1 DEF Ledger!Pay

\* A submission says nothing and pays nothing.
LEMMA SubmitStutters ==
  ASSUME TxInv, TellInv, NEW i \in Intents, NEW c \in Calls, NEW r \in Refs, Submit(i, c, r),
         view[i] \in {"new", "DuplicateReferenceId"} \cup Consumed \cup Resendable,
         \A j \in Intents : j # i => lost'[j] = lost[j],
         r \in used[i] \/ rows[r] = "none"
  PROVE  UNCHANGED Ledger!vars
<1>1. /\ view'[i] = "waiting" /\ used'[i] = used[i] \cup {r} /\ rows' = rows
      /\ \A j \in Intents : j # i => view'[j] = view[j] /\ used'[j] = used[j]
  BY DEF Submit, gatewayVars, TxInv, TypeOK
<1>2. view[i] \notin {"broadcast", "failed"} \cup Refused
  BY ViewKinds DEF Resendable, Refused
<1>3. \A j \in Intents : Made(j)' = Made(j)
  BY <1>1 DEF Made
<1>4. Told(i) = "unknown" /\ Told(i)' = "unknown"
  BY <1>1, <1>2, ViewKinds DEF Told
<1>5. \A j \in Intents : j # i => Told(j)' = Told(j)
  BY <1>1 DEF Told
<1> QED
  BY <1>3, <1>4, <1>5, Stutters

\* A call or a poll that returns tells its caller, or leaves it in doubt.
LEMMA ReturnTells ==
  ASSUME TxInv, TellInv, TxInv', TellInv', NEW i \in Intents, NEW result,
         view' = [view EXCEPT ![i] = result], Told(i) = "unknown",
         \A j \in Intents : j # i => lost'[j] = lost[j],
         UNCHANGED <<ref, used, rows>>
  PROVE  Ledger!Next \/ UNCHANGED Ledger!vars
<1>1. \A j \in Intents : Made(j)' = Made(j)
  BY DEF Made
<1>2. \A j \in Intents : j # i => Told(j)' = Told(j)
  BY DEF Told, TxInv, TypeOK
<1>3. CASE Told(i)' = "unknown"
  BY <1>1, <1>2, <1>3, Stutters
<1>4. CASE Told(i)' = "done"
  <2>1. rows[ref[i]] = "broadcast" /\ ref[i] \in used[i]
    <3>1. view'[i] = "broadcast"
      BY <1>4 DEF Told
    <3> QED
      BY <3>1 DEF TellInv, ViewInv, TxInv, RefInv
  <2>2. Made(i) # {}
    BY <2>1, MadeUnderRef
  <2> QED
    BY <1>1, <1>2, <1>4, <2>2, Tells DEF Ledger!Next
<1>5. CASE Told(i)' = "refused"
  <2>1. rows[ref[i]] \in {"none"} \cup Dead
    <3>1. /\ view'[i] = "failed" => rows'[ref'[i]] = "failed"
          /\ view'[i] \in Refused /\ ~lost'[i] => rows'[ref'[i]] \in {"none"} \cup Dead
      BY DEF TellInv, ViewInv, QuietInv
    <3>2. view'[i] = "failed" \/ (view'[i] \in Refused /\ ~lost'[i])
      BY <1>5 DEF Told
    <3> QED
      BY <3>1, <3>2 DEF Dead
  <2>2. Made(i) = {}
    BY <2>1, MadeUnderRef DEF Dead
  <2> QED
    BY <1>1, <1>2, <1>5, <2>2, Tells DEF Ledger!Next
<1> QED
  BY <1>3, <1>4, <1>5 DEF Told

LEMMA CallerRefines ==
  ASSUME TxInv, TellInv, TxInv', TellInv', NEW i \in Intents, Caller(i)
  PROVE  Ledger!Next \/ UNCHANGED Ledger!vars
<1>1. ASSUME NEW c \in Calls, NEW r \in Refs, SubmitFresh(i, c, r)
      PROVE  UNCHANGED Ledger!vars
  <2>1. /\ Submit(i, c, r) /\ lost' = [lost EXCEPT ![i] = FALSE]
        /\ view[i] = "new" \/ view[i] \in Consumed
        /\ rows[r] = "none"
    BY <1>1 DEF SubmitFresh, TellInv, OwnInv
  <2>2. \A j \in Intents : j # i => lost'[j] = lost[j]
    BY <2>1 DEF TxInv, TypeOK
  <2> QED
    BY <2>1, <2>2, SubmitStutters
<1>2. ASSUME NEW c \in Calls, Resubmit(i, c)
      PROVE  UNCHANGED Ledger!vars
  <2>1. /\ Submit(i, c, ref[i]) /\ lost' = lost
        /\ view[i] \in Resendable \cup {"DuplicateReferenceId"}
    BY <1>2 DEF Resubmit
  <2>2. view[i] # "new"
    BY <2>1, ViewKinds DEF Resendable
  <2>3. ref[i] \in Refs /\ ref[i] \in used[i]
    BY <2>2 DEF TxInv, RefInv, TypeOK
  <2> QED
    BY <2>1, <2>3, SubmitStutters
<1>3. CASE Poll(i)
  <2>1. PICK result : view' = [view EXCEPT ![i] = result]
    BY <1>3 DEF Poll
  <2>2. Told(i) = "unknown"
    BY <1>3, ViewKinds DEF Poll, Told
  <2> QED
    BY <1>3, <2>1, <2>2, ReturnTells DEF Poll, gatewayVars
<1> QED
  BY <1>1, <1>2, <1>3 DEF Caller

LEMMA SDKRefines ==
  ASSUME TxInv, TellInv, TxInv', TellInv', NEW i \in Intents, SDK(i)
  PROVE  Ledger!Next \/ UNCHANGED Ledger!vars
<1>1. ASSUME NEW result, view[i] = "waiting", Returns(i, result)
      PROVE  Ledger!Next \/ UNCHANGED Ledger!vars
  <2>1. /\ view' = [view EXCEPT ![i] = result] /\ UNCHANGED <<ref, used, rows>>
        /\ lost' = [lost EXCEPT ![i] = lost[i] \/ result \in Untold]
    BY <1>1 DEF Returns, gatewayVars
  <2>2. \A j \in Intents : j # i => lost'[j] = lost[j]
    BY <2>1 DEF TxInv, TypeOK
  <2>3. Told(i) = "unknown"
    BY <1>1, ViewKinds DEF Told
  <2> QED
    BY <2>1, <2>2, <2>3, ReturnTells
<1>2. CASE TransportFails(i)
  BY <1>1, <1>2 DEF TransportFails
<1>3. CASE ProxyAnswers(i)
  BY <1>1, <1>3 DEF ProxyAnswers
<1>4. CASE \E c \in Calls : Receive(i, c) \/ Garbled(i, c)
  BY <1>1, <1>4 DEF Receive, Garbled, Waits
<1>5. CASE \E c \in Calls : TokenExpires(i, c)
  <2>1. UNCHANGED <<view, lost, used, rows>>
    BY <1>5 DEF TokenExpires, callerVars, gatewayVars
  <2> QED
    BY <2>1, Stutters DEF Made, Told
<1> QED
  BY <1>2, <1>3, <1>4, <1>5 DEF SDK

LEMMA GatewayRefines ==
  ASSUME TxInv, TellInv, NEW c \in Calls, Gateway(c)
  PROVE  UNCHANGED Ledger!vars
<1>1. UNCHANGED <<view, lost, used>>
  BY DEF Gateway, Replay, Refuse, RefuseDuplicate, Create, Conclude, Answered, callerVars
<1>2. \A r \in Refs : rows'[r] = "broadcast" <=> rows[r] = "broadcast"
  <2>1. CASE Create(c)
    BY <2>1 DEF Create, TxInv, TypeOK
  <2>2. CASE Replay(c) \/ Refuse(c) \/ RefuseDuplicate(c) \/ Conclude(c)
    BY <2>2 DEF Replay, Refuse, RefuseDuplicate, Conclude, gatewayVars
  <2> QED
    BY <2>1, <2>2 DEF Gateway
<1>3. \A j \in Intents : used[j] \subseteq Refs
  BY DEF TxInv, TypeOK
<1> QED
  BY <1>1, <1>2, <1>3, Stutters DEF Made, Told

\* The engine's broadcast is the payment: the row is its intent's present one,
\* and nothing was said of it.
LEMMA EngineRefines ==
  ASSUME TxInv, TellInv, TxInv', NEW r \in Refs, Engine(r)
  PROVE  Ledger!Next \/ UNCHANGED Ledger!vars
<1>1. PICK s \in {"broadcast"} \cup Dead : rows' = [rows EXCEPT ![r] = s]
  BY DEF Engine
<1>2. rows[r] = "open" /\ UNCHANGED <<view, ref, lost, used>>
  BY DEF Engine, callerVars
<1>3. \A j \in Intents : Told(j)' = Told(j)
  BY <1>2 DEF Told
<1>4. rows'[r] = s /\ \A x \in Refs : x # r => rows'[x] = rows[x]
  BY <1>1 DEF TxInv, TypeOK
<1>5. \A j \in Intents : r \notin used[j] => Made(j)' = Made(j)
  BY <1>2, <1>4 DEF Made, TxInv, TypeOK
<1>6. CASE s \in Dead
  <2>1. \A j \in Intents : Made(j)' = Made(j)
    BY <1>2, <1>4, <1>6 DEF Made, Dead, TxInv, TypeOK
  <2> QED
    BY <1>3, <2>1, Stutters
<1>7. CASE s = "broadcast"
  <2>1. PICK i \in Intents : r \in used[i]
    BY <1>2 DEF TellInv, OwnInv
  <2>2. \A j \in Intents : j # i => r \notin used[j]
    BY <2>1 DEF TellInv, OwnInv
  <2>3. ref[i] = r
    BY <1>2, <2>1 DEF TxInv, RowInv, Dead
  <2>4. Made(i) = {}
    BY <1>2, <2>3, MadeUnderRef
  <2>5. Made(i)' = {r}
    <3>1. rows'[ref'[i]] = "broadcast" /\ ref'[i] \in used'[i] /\ ref'[i] = r
      BY <1>2, <1>4, <1>7, <2>1, <2>3
    <3>2. Made(i)' = (IF ref[i] \in used[i] /\ rows[ref[i]] = "broadcast" THEN {ref[i]} ELSE {})'
      BY <1>2, <1>4, <1>7, <2>1, <2>3 DEF Made, TxInv, RowInv, Dead
    <3> QED
      BY <3>1, <3>2
  <2>6. Told(i) = "unknown"
    BY <1>2, <2>3, ToldOfRow DEF Dead
  <2> QED
    BY <1>3, <1>5, <2>2, <2>4, <2>5, <2>6, Pays DEF Ledger!Next
<1> QED
  BY <1>6, <1>7

\* The callers' payments are those of the ledger: each is made at most once,
\* and "done" and "refused" are said only when that is how it stays.
THEOREM PaymentsAreALedger == Spec => ImplementsPayments
<1>1. Init => Ledger!Init
  <2> SUFFICES ASSUME Init PROVE Ledger!Init
    OBVIOUS
  <2>1. \A i \in Intents : view[i] = "new" /\ used[i] = {}
    BY DEF Init
  <2>2. \A i \in Intents : Made(i) = {} /\ Told(i) = "unknown"
    BY <2>1, ViewKinds DEF Made, Told
  <2> QED
    BY <2>2 DEF Ledger!Init
<1>2. /\ TxInv /\ TellInv /\ TxInv' /\ TellInv' /\ [Next]_vars
      => [Ledger!Next]_(Ledger!vars)
  <2> SUFFICES ASSUME TxInv, TellInv, TxInv', TellInv', [Next]_vars
               PROVE  Ledger!Next \/ UNCHANGED Ledger!vars
    OBVIOUS
  <2>1. CASE UNCHANGED vars
    <3>1. UNCHANGED <<view, lost, used, rows>>
      BY <2>1 DEF vars, callerVars, gatewayVars
    <3> QED
      BY <3>1, Stutters DEF Made, Told
  <2> QED
    BY <2>1, CallerRefines, SDKRefines, GatewayRefines, EngineRefines DEF Next
<1> QED
  BY <1>1, <1>2, TellInvariance, PTL DEF Spec, ImplementsPayments, Ledger!Spec

-----------------------------------------------------------------------------
(* Replays.  A key stays with every request of its intent, however often   *)
(* one is built, and a body given under a key is kept for it.              *)

KeyInv ==
  /\ \A c \in Calls : req[c].st # "unused" => req[c].keyed = order[req[c].intent].keyed
  /\ \A c \in Calls : req[c].reply.body # NoBody => Answers2xx(c)
  /\ \A c \in Calls : Answers2xx(c) /\ order[req[c].intent].keyed => cache[req[c].intent] # NoBody

\* Errors carry no body, and none but Duplicate is Duplicate.
LEMMA ErrorBodies ==
  /\ \A e \in Refusals : e.body = NoBody /\ e # Duplicate /\ e.http >= 400
  /\ \A e \in {TransactionFailed, EngineBusy, Rejected} :
       e.body = NoBody /\ e # Duplicate /\ e.http >= 400
  /\ Duplicate.body = NoBody /\ Duplicate.http >= 400
  /\ NoReply.body = NoBody /\ NoReply # Duplicate
<1>1. \A e \in PreRow : e.body = NoBody /\ e # Duplicate /\ e.http >= 400
  BY DEF PreRow, Rejected, Duplicate, Failure, Reply
<1>2. \A e \in {TransactionFailed, EngineBusy, Rejected} :
        e.body = NoBody /\ e # Duplicate /\ e.http >= 400
  BY DEF TransactionFailed, EngineBusy, Rejected, Duplicate, Failure, Reply
<1>3. /\ Duplicate.body = NoBody /\ Duplicate.http >= 400
      /\ NoReply.body = NoBody /\ NoReply # Duplicate
  BY DEF Duplicate, NoReply, Failure, Reply
<1> QED
  BY <1>1, <1>2, <1>3, RefusalsAssumption

\* How a step of c changes its request.  A reply is given at most once, and a
\* new one is an error without a body, or a body that is, under a key, kept.
Kept(c) == \A d \in Calls \ {c} : req'[d] = req[d]

Sends(c) == /\ req'[c].st = "sent" /\ req'[c].reply = NoReply
            /\ req'[c].keyed = order[req'[c].intent].keyed
            /\ cache' = cache

Moves(c) == /\ req[c].st # "unused" /\ req'[c].intent = req[c].intent
            /\ req'[c].keyed = req[c].keyed

Works(c) == /\ Moves(c) /\ req[c].st = "sent" /\ req'[c].st \in {"sent", "handling"}
            /\ req'[c].reply = req[c].reply /\ cache' = cache

Fails(c) == /\ Moves(c) /\ req'[c].st = "answered"
            /\ req'[c].reply.body = NoBody /\ ~(req'[c].reply.http < 400)
            /\ cache' = cache

Succeeds(c) == /\ Moves(c) /\ req'[c].st = "answered" /\ req'[c].reply.http < 400
               /\ \A j \in Intents : cache[j] # NoBody => cache'[j] # NoBody
               /\ req[c].keyed => cache'[req[c].intent] # NoBody

LEMMA KeyStep ==
  ASSUME TxInv, KeyInv, UNCHANGED order, NEW c \in Calls, Kept(c),
         Sends(c) \/ Works(c) \/ Fails(c) \/ Succeeds(c)
  PROVE  KeyInv'
<1>1. \A d \in Calls : d # c => (Answers2xx(d)' <=> Answers2xx(d)) /\ req'[d] = req[d]
  BY DEF Kept, Answers2xx
<1>2. \A d \in Calls : Answers2xx(d) => req[d].intent \in Intents
  BY DEF Answers2xx, TxInv, CallInv
<1>3. \A j \in Intents : cache[j] # NoBody => cache'[j] # NoBody
  BY DEF Sends, Works, Fails, Succeeds
<1>4. ASSUME NEW d \in Calls, d # c
      PROVE  /\ req'[d].st # "unused" => req'[d].keyed = order'[req'[d].intent].keyed
             /\ req'[d].reply.body # NoBody => Answers2xx(d)'
             /\ Answers2xx(d)' /\ order'[req'[d].intent].keyed => cache'[req'[d].intent] # NoBody
  BY <1>1, <1>2, <1>3, <1>4 DEF KeyInv
<1>5. /\ req'[c].st # "unused" => req'[c].keyed = order'[req'[c].intent].keyed
      /\ req'[c].reply.body # NoBody => Answers2xx(c)'
      /\ Answers2xx(c)' /\ order'[req'[c].intent].keyed => cache'[req'[c].intent] # NoBody
  <2>1. CASE Sends(c)
    BY <2>1, ErrorBodies DEF Sends, Answers2xx
  <2>2. CASE Works(c)
    BY <2>2 DEF Works, Moves, Answers2xx, KeyInv
  <2>3. CASE Fails(c)
    BY <2>3 DEF Fails, Moves, Answers2xx, KeyInv
  <2>4. CASE Succeeds(c)
    BY <2>4 DEF Succeeds, Moves, Answers2xx, KeyInv
  <2> QED
    BY <2>1, <2>2, <2>3, <2>4
<1> QED
  BY <1>4, <1>5 DEF KeyInv

\* Every step that touches a request is one of these, and gives Duplicate only
\* as RefuseDuplicate does.
Touches(c) == /\ UNCHANGED order /\ Kept(c)
              /\ Sends(c) \/ Works(c) \/ Fails(c) \/ Succeeds(c)
              /\ req'[c].reply = Duplicate => RefuseDuplicate(c) \/ req[c].reply = Duplicate

LEMMA SubmitTouches ==
  ASSUME TxInv, NEW i \in Intents, NEW c \in Calls, NEW r \in Refs, Submit(i, c, r)
  PROVE  Touches(c)
<1>1. req' = [req EXCEPT ![c] = NewRequest(i, r)] /\ UNCHANGED <<order, cache>>
  BY DEF Submit, gatewayVars
<1>2. req'[c] = NewRequest(i, r) /\ Kept(c)
  BY <1>1 DEF TxInv, TypeOK, Kept
<1>3. /\ NewRequest(i, r).reply = NoReply /\ NewRequest(i, r).st = "sent"
      /\ NewRequest(i, r).intent = i /\ NewRequest(i, r).keyed = order[i].keyed
  BY DEF NewRequest
<1> QED
  BY <1>1, <1>2, <1>3, ErrorBodies DEF Touches, Sends

LEMMA RebuildTouches ==
  ASSUME TxInv, NEW i \in Intents, NEW c \in Calls, TokenExpires(i, c)
  PROVE  Touches(c)
<1>1. /\ req' = [req EXCEPT ![c] = Rebuilt(req[c])] /\ UNCHANGED <<order, cache>>
      /\ req[c].st = "sent" /\ req[c] \in Requests
  BY RequestFields DEF TokenExpires, callerVars, gatewayVars, TxInv
<1>2. req'[c] = Rebuilt(req[c]) /\ Kept(c)
  BY <1>1 DEF TxInv, TypeOK, Kept
<1>3. /\ Rebuilt(req[c]).reply = req[c].reply /\ Rebuilt(req[c]).st = req[c].st
      /\ Rebuilt(req[c]).intent = req[c].intent /\ Rebuilt(req[c]).keyed = req[c].keyed
  BY <1>1 DEF Rebuilt, Requests
<1> QED
  BY <1>1, <1>2, <1>3 DEF Touches, Works, Moves

LEMMA GatewayTouches == ASSUME TxInv, TellInv, NEW c \in Calls, Gateway(c) PROVE Touches(c)
<1>1. req[c] \in Requests
  BY RequestFields DEF TxInv
<1>2. ASSUME NEW reply, Answered(c, reply), req[c].st # "unused"
      PROVE  /\ UNCHANGED order /\ Kept(c) /\ Moves(c)
             /\ req'[c].st = "answered" /\ req'[c].reply = reply
  <2> DEFINE q == [req[c] EXCEPT !.st = "answered", !.reply = reply]
  <2>1. UNCHANGED order /\ Kept(c) /\ req'[c] = q
    BY <1>2 DEF Answered, callerVars, TxInv, TypeOK, Kept
  <2>2. /\ q.st = "answered" /\ q.reply = reply
        /\ q.intent = req[c].intent /\ q.keyed = req[c].keyed
    BY <1>1 DEF Requests
  <2> QED
    BY <1>2, <2>1, <2>2 DEF Moves
<1>3. ASSUME NEW reply, Answered(c, reply), req[c].st # "unused", UNCHANGED cache,
             reply.body = NoBody, reply.http \in Nat, reply.http >= 400,
             reply = Duplicate => RefuseDuplicate(c)
      PROVE  Touches(c)
  BY <1>2, <1>3 DEF Touches, Fails
<1>4. ASSUME NEW reply, Answered(c, reply), req[c].st # "unused", reply.http < 400,
             \A j \in Intents : cache[j] # NoBody => cache'[j] # NoBody,
             req[c].keyed => cache'[req[c].intent] # NoBody,
             reply.http \in Nat
      PROVE  Touches(c)
  <2>1. reply # Duplicate
    BY <1>4, ErrorBodies
  <2> QED
    BY <1>2, <1>4, <2>1 DEF Touches, Succeeds
<1>5. CASE Replay(c)
  <2>1. /\ Answered(c, Success(200, cache[req[c].intent])) /\ UNCHANGED cache
        /\ cache[req[c].intent] # NoBody /\ req[c].st # "unused"
    BY <1>5 DEF Replay, gatewayVars
  <2>2. PICK reply : Answered(c, reply) /\ reply.http = 200
    BY <2>1 DEF Success, Reply
  <2> QED
    BY <1>4, <2>1, <2>2
<1>6. CASE Refuse(c)
  <2>1. PICK reply \in Refusals : Answered(c, reply)
    BY <1>6 DEF Refuse
  <2>2. reply.body = NoBody /\ reply # Duplicate /\ reply.http >= 400 /\ reply.http \in Nat
    BY ErrorBodies, ErrorType DEF Replies
  <2> QED
    BY <1>3, <1>6, <2>1, <2>2 DEF Refuse, gatewayVars
<1>7. CASE RefuseDuplicate(c)
  <2>1. Duplicate.body = NoBody /\ Duplicate.http >= 400 /\ Duplicate.http \in Nat
    BY ErrorBodies, ErrorType DEF Replies
  <2> QED
    BY <1>3, <1>7, <2>1 DEF RefuseDuplicate, gatewayVars
<1>8. CASE Create(c)
  <2> DEFINE q == [req[c] EXCEPT !.st = "handling"]
  <2>1. req'[c] = q /\ Kept(c) /\ UNCHANGED <<order, cache>> /\ req[c].st = "sent"
    BY <1>8 DEF Create, callerVars, TxInv, TypeOK, Kept
  <2>2. /\ q.st = "handling" /\ q.reply = req[c].reply
        /\ q.intent = req[c].intent /\ q.keyed = req[c].keyed
    BY <1>1 DEF Requests
  <2> HIDE DEF q
  <2> QED
    BY <2>1, <2>2 DEF Touches, Works, Moves
<1>9. CASE Conclude(c)
  <2> DEFINE i == req[c].intent
             r == req[c].ref
  <2>1. req[c].st # "unused" /\ i \in Intents /\ r \in Refs
    BY <1>9 DEF Conclude, TxInv, CallInv
  <2>2. ASSUME NEW reply \in Successes(order[i].op, r), Answered(c, reply),
               cache' = IF req[c].keyed THEN [cache EXCEPT ![i] = reply.body] ELSE cache
        PROVE  Touches(c)
    <3>1. reply.http \in {200, 202} /\ reply.body.tx = r
      BY <2>2 DEF Successes, Success, Reply
    <3>2. reply.body # NoBody
      BY <2>1, <3>1, RefsAssumption DEF NoBody
    <3>3. cache \in [Intents -> Bodies]
      BY DEF TxInv, TypeOK
    <3>4. /\ \A j \in Intents : cache[j] # NoBody => cache'[j] # NoBody
          /\ req[c].keyed => cache'[i] # NoBody
      BY <2>1, <2>2, <3>2, <3>3
    <3> QED
      BY <1>4, <2>1, <2>2, <3>1, <3>4
  <2>3. ASSUME NEW reply \in Failures(order[i].op, r), Answered(c, reply), UNCHANGED cache
        PROVE  Touches(c)
    <3>1. reply \in {TransactionFailed, EngineBusy, Rejected}
      BY <2>3 DEF Failures
    <3>2. reply.body = NoBody /\ reply # Duplicate /\ reply.http >= 400 /\ reply.http \in Nat
      BY <3>1, ErrorBodies, ErrorType DEF Replies
    <3> QED
      BY <1>3, <2>1, <2>3, <3>2
  <2> QED
    BY <1>9, <2>2, <2>3 DEF Conclude
<1> QED
  BY <1>5, <1>6, <1>7, <1>8, <1>9 DEF Gateway

\* A step touches one request, or none and no reply.
LEMMA StepTouches ==
  ASSUME TxInv, TellInv, [Next]_vars
  PROVE  (\E c \in Calls : Touches(c)) \/ UNCHANGED <<order, req, cache>>
<1>1. ASSUME NEW i \in Intents, Caller(i)
      PROVE  (\E c \in Calls : Touches(c)) \/ UNCHANGED <<order, req, cache>>
  <2>1. ASSUME NEW c \in Calls, Resubmit(i, c) PROVE Touches(c)
    <3>1. view[i] # "new"
      BY <2>1, ViewKinds DEF Resubmit, Resendable
    <3>2. ref[i] \in Refs
      BY <3>1 DEF TxInv, RefInv, TypeOK
    <3> QED
      BY <2>1, <3>2, SubmitTouches DEF Resubmit
  <2>2. ASSUME NEW c \in Calls, NEW r \in Refs, SubmitFresh(i, c, r) PROVE Touches(c)
    BY <2>2, SubmitTouches DEF SubmitFresh
  <2>3. CASE Poll(i)
    BY <2>3 DEF Poll, gatewayVars
  <2> QED
    BY <1>1, <2>1, <2>2, <2>3 DEF Caller
<1>2. ASSUME NEW i \in Intents, SDK(i)
      PROVE  (\E c \in Calls : Touches(c)) \/ UNCHANGED <<order, req, cache>>
  <2>1. CASE \E c \in Calls : TokenExpires(i, c)
    BY <2>1, RebuildTouches
  <2>2. CASE TransportFails(i) \/ ProxyAnswers(i) \/ \E c \in Calls : Receive(i, c) \/ Garbled(i, c)
    BY <2>2 DEF TransportFails, ProxyAnswers, Receive, Garbled, Returns, gatewayVars
  <2> QED
    BY <1>2, <2>1, <2>2 DEF SDK
<1>3. ASSUME NEW r \in Refs, Engine(r) PROVE UNCHANGED <<order, req, cache>>
  BY <1>3 DEF Engine, callerVars
<1>4. CASE UNCHANGED vars
  BY <1>4 DEF vars, callerVars, gatewayVars
<1> QED
  BY <1>1, <1>2, <1>3, <1>4, GatewayTouches DEF Next

LEMMA KeyInvariance == Spec => [](TxInv /\ TellInv /\ KeyInv)
<1>1. Init => KeyInv
  <2> SUFFICES ASSUME Init PROVE KeyInv
    OBVIOUS
  <2>1. \A c \in Calls : req[c].st = "unused" /\ req[c].reply = NoReply
    BY DEF Init, NoRequest
  <2> QED
    BY <2>1, ErrorBodies DEF KeyInv, Answers2xx
<1>2. TxInv /\ TellInv /\ KeyInv /\ [Next]_vars => KeyInv'
  <2> SUFFICES ASSUME TxInv, TellInv, KeyInv, [Next]_vars PROVE KeyInv'
    OBVIOUS
  <2>1. CASE UNCHANGED <<order, req, cache>>
    BY <2>1 DEF KeyInv, Answers2xx
  <2> QED
    BY <2>1, StepTouches, KeyStep DEF Touches
<1> QED
  BY <1>1, <1>2, TellInvariance, PTL DEF Spec

\* A caller that sends a key gets the original reply, never Duplicate in its
\* place, whichever request was lost, late, or built a second time.
THEOREM KeysRecover == Spec => ReplayRecovers
<1>1. TxInv /\ TellInv /\ KeyInv /\ [Next]_vars => [\A c \in Calls : ~OriginalLost(c)]_vars
  <2> SUFFICES ASSUME TxInv, TellInv, KeyInv, [Next]_vars, NEW c \in Calls, OriginalLost(c)
               PROVE  FALSE
    OBVIOUS
  <2>1. RefuseDuplicate(c)
    BY StepTouches DEF OriginalLost, Touches, Kept
  <2>2. PICK d \in Calls : req[d].ref = req[c].ref /\ req[d].reply.body # NoBody
    BY DEF OriginalLost
  <2>3. Answers2xx(d) /\ req[d].st # "unused" /\ req[c].st # "unused"
    BY <2>1, <2>2 DEF KeyInv, Answers2xx, RefuseDuplicate
  <2>4. req[d].intent = req[c].intent
    BY <2>2, <2>3 DEF TxInv, CallInv, TellInv, OwnInv
  <2>5. cache[req[c].intent] # NoBody /\ req[c].keyed
    BY <2>3, <2>4 DEF KeyInv, OriginalLost
  <2> QED
    BY <2>1, <2>5 DEF RefuseDuplicate, NoReplay
<1> QED
  BY <1>1, KeyInvariance, PTL DEF Spec, ReplayRecovers
=============================================================================
