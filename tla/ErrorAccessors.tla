--------------------------- MODULE ErrorAccessors ---------------------------
(***************************************************************************)
(* What a caller reads off an error (src/src/error.rs:167-199, 263-328 and *)
(* the free functions, 358-377) that some call of a client has returned    *)
(* (src/src/client.rs:120-128, 191-216).  Several accessors answer the     *)
(* same question, one from the status and another from the kind.           *)
(*                                                                         *)
(* Replies are external: any status may come with any code and message, or *)
(* with a body that is not the gateway's.                                  *)
(***************************************************************************)
EXTENDS ErrorKind

CONSTANT Statuses   \* HTTP statuses of replies

VARIABLE result     \* of the client's last call

None == "none"

\* The variants of Error, and Ok.
Api(http, code, msg) == [variant |-> "Api", http |-> http, code |-> code, msg |-> msg]
Decode(http)         == [variant |-> "Decode", http |-> http, code |-> None, msg |-> None]
Silent(variant)      == [variant |-> variant, http |-> 0, code |-> None, msg |-> None]

Init == result = Silent("InvalidConfig")

Failed(http) == http >= 400

\* decode(status, bytes) of a reply whose body is readable, or not.
Replied(http, code, msg) ==
  result' = IF Failed(http) THEN Api(http, code, msg) ELSE Silent("Ok")

Garbled(http) ==
  result' = IF Failed(http) THEN Api(http, "unknown", "other") ELSE Decode(http)

\* execute: no reply.
NoReply == result' = Silent("Http")

\* The request body does not serialize, and nothing is sent.
NotSerialized == result' = Decode(0)

Next == \/ NoReply \/ NotSerialized
        \/ \E http \in Statuses :
             \/ Garbled(http)
             \/ \E code \in Codes, msg \in Messages : Replied(http, code, msg)

Spec == Init /\ [][Next]_result

-----------------------------------------------------------------------------
(* The methods of Error.                                                   *)

StatusIs(e, http) == e.variant \in {"Api", "Decode"} /\ e.http = http   \* status() == Some(http)

KindOf(e) == IF e.variant = "Api" THEN Kind(e.http, e.code, e.msg) ELSE None

\* is_rejected and its like: each is one kind.
Predicates == {"Rejected", "DuplicateReferenceId", "UnsupportedOperation", "InsufficientBalance",
               "TransactionFailed", "TokenExpired", "Forbidden", "NotFound", "EndpointRetired",
               "RateLimited", "EngineBusy", "ChainRpcUnavailable"}

\* Mutant: by the code of the body, as the others seem to be.
Is_ByCode(kind, e) == IF kind = "TransactionFailed" THEN e.code = "transaction_failed"
                      ELSE KindOf(e) = kind

Is(kind, e) == KindOf(e) = kind

\* Mutant: written before the 503s were told apart.
IsServiceUnavailable_OneKind(e) == KindOf(e) = "ServiceUnavailable"

IsServiceUnavailable(e) ==
  KindOf(e) \in {"EngineBusy", "ChainRpcUnavailable", "ServiceUnavailable"}

(* The free functions.                                                     *)

IsNotFoundFn(e)    == e.variant = "Api" /\ e.http = 404
IsRateLimitedFn(e) == e.variant = "Api" /\ e.http = 429
IsAuthErrorFn(e)   == e.variant = "Api" /\ e.http \in {401, 403}

-----------------------------------------------------------------------------
(* Properties.                                                             *)

\* A caller may test the predicates in any order: no error answers to two of
\* them, so none is taken for retriable by one and for final by another, even
\* if its code and its message say different things (error.rs:204-219).
OneAnswer == \A kind, other \in Predicates : Is(kind, result) /\ Is(other, result) => kind = other

\* The free functions, which look at the status, the methods, which look at the
\* kind, and status() say the same of every error a call returns, undecodable
\* replies included (error.rs:317-328, 358-377).
AccessorsAgree ==
  /\ IsNotFoundFn(result) <=> Is("NotFound", result)
  /\ IsNotFoundFn(result) <=> StatusIs(result, 404)
  /\ IsRateLimitedFn(result) <=> Is("RateLimited", result)
  /\ IsRateLimitedFn(result) <=> StatusIs(result, 429)
  /\ IsAuthErrorFn(result) <=> \/ Is("TokenExpired", result) \/ Is("Forbidden", result)
                               \/ KindOf(result) = "Unauthorized"
  /\ IsServiceUnavailable(result) <=> StatusIs(result, 503)

\* "The gateway answered 2xx but the body could not be decoded (`status` is the
\* HTTP status; `0` means the request body itself failed to serialize)"
\* (error.rs:94-95).
DecodeMeans2xx == result.variant = "Decode" => result.http \in {0} \cup 200 .. 299
=============================================================================
