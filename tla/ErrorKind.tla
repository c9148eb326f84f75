------------------------------ MODULE ErrorKind ------------------------------
(***************************************************************************)
(* Classification of the gateway's error replies (src/src/error.rs): the   *)
(* kind a caller acts on is computed from the HTTP status, the code of the *)
(* body and, where the gateway gives several causes the same status and    *)
(* code, the wording of the message.                                       *)
(*                                                                         *)
(* A message is abstracted to the fixed wording it starts with (status     *)
(* 400) or consists of (status 503), or to "other".                        *)
(***************************************************************************)
EXTENDS Naturals

Messages == {"rejected", "duplicate", "unsupported", "engine_busy",
             "chain_rpc_unavailable", "other"}

\* Of the codes of error.rs:28-57, those of the replies modelled; "unknown" is
\* what decode() makes of an error body it cannot read.
Codes == {"invalid_parameter", "validation_failed", "insufficient_balance",
          "transaction_failed", "token_expired", "invalid_token", "forbidden",
          "not_found", "conflict", "too_many_requests", "internal_error",
          "service_unavailable", "unknown"}

Kinds == {"Rejected", "DuplicateReferenceId", "UnsupportedOperation",
          "InsufficientBalance", "TransactionFailed", "BadRequest",
          "TokenExpired", "Unauthorized", "Forbidden", "NotFound", "Conflict",
          "EndpointRetired", "RateLimited", "EngineBusy", "ChainRpcUnavailable",
          "ServiceUnavailable", "ServerError", "Other"}

\* Mutant: a 400 that is no verdict on the request is taken for the engine's.
BadRequestKind_NoCodes(code, msg) ==
  CASE msg = "rejected"    -> "Rejected"
    [] msg = "duplicate"   -> "DuplicateReferenceId"
    [] msg = "unsupported" -> "UnsupportedOperation"
    [] OTHER               -> "TransactionFailed"

\* Status 400: the message prefixes come before the codes.
BadRequestKind(code, msg) ==
  CASE msg = "rejected"    -> "Rejected"
    [] msg = "duplicate"   -> "DuplicateReferenceId"
    [] msg = "unsupported" -> "UnsupportedOperation"
    [] OTHER -> CASE code = "insufficient_balance" -> "InsufficientBalance"
                  [] code = "transaction_failed"   -> "TransactionFailed"
                  [] OTHER                         -> "BadRequest"

\* Mutant: the causes of a 503 are not told apart.
UnavailableKind_ByStatus(msg) == "ChainRpcUnavailable"

\* Status 503: two fixed messages, and the rest.
UnavailableKind(msg) == CASE msg = "engine_busy"           -> "EngineBusy"
                          [] msg = "chain_rpc_unavailable" -> "ChainRpcUnavailable"
                          [] OTHER                         -> "ServiceUnavailable"

\* Mutant: the code of the body is the class.
Kind_Code(http, code, msg) == code

\* Error::kind() of Error::Api { status: http, body: { code, message: msg } }.
Kind(http, code, msg) ==
  CASE http = 400 -> BadRequestKind(code, msg)
    [] http = 401 -> IF code = "token_expired" THEN "TokenExpired" ELSE "Unauthorized"
    [] http = 403 -> "Forbidden"
    [] http = 404 -> "NotFound"
    [] http = 409 -> "Conflict"
    [] http = 410 -> "EndpointRetired"
    [] http = 429 -> "RateLimited"
    [] http = 503 -> UnavailableKind(msg)
    [] http \in (500 .. 599) \ {503} -> "ServerError"
    [] OTHER -> "Other"
=============================================================================
