---------------------------- MODULE ClientProofs ----------------------------
(***************************************************************************)
(* Theorems about Client: a call uses the token manager as the manager's   *)
(* specification allows, so the manager's theorems hold in every client,   *)
(* and the retry is safe for every number of concurrent calls.             *)
(***************************************************************************)
EXTENDS Client, TokenManagerProofs

\* A request is on the wire exactly while send waits for its reply, or after
\* send gave it up; send holds the token the request carries.
WireInv ==
  \A c \in Tasks :
    /\ wire[c].st = "handled" => /\ call[c] \in {"sent", "resent"}
                                 /\ wire[c].verdict \in Verdicts
    /\ call[c] \in {"sent", "resent"} => /\ wire[c].st # "none"
                                         /\ wire[c].tok = held[c]
                                         /\ pc[c] = "ok"
    /\ call[c] \in {"new", "token", "renew"} => wire[c].st = "none"
    /\ call[c] # "done" => outcome[c] = "none"

\* A request that the gateway may still carry out has not been carried out,
\* nor has one whose token the gateway refused.
EffectInv ==
  \A c \in Tasks :
    /\ executed[c] \in {0, 1}
    /\ call[c] \in {"new", "token", "renew"} => executed[c] = 0
    /\ wire[c].st = "sent" => executed[c] = 0
    /\ wire[c].st = "handled" =>
         /\ wire[c].verdict = "expired" => executed[c] = 0
         /\ wire[c].verdict = "ok" => executed[c] = 1
    /\ outcome[c] = "ok" => executed[c] = 1
    /\ outcome[c] = "expired" => executed[c] = 0 /\ wire[c].st = "none"

CInv == TypeOK /\ ClientTypeOK /\ WireInv /\ EffectInv

-----------------------------------------------------------------------------
(* The client's steps are steps of the token manager, or leave it alone.   *)

LEMMA ClientStepIsTokenStep == [ClientNext]_clientVars => [Next]_vars
<1> SUFFICES ASSUME [ClientNext]_clientVars PROVE [Next]_vars
  OBVIOUS
<1>1. CASE TokenStep
  BY <1>1 DEF TokenStep, Next
<1>2. ASSUME NEW c \in Tasks, Call(c)
      PROVE  [Next]_vars
  BY <1>2 DEF Call, Next, Caller
<1>3. ASSUME NEW c \in Tasks, Send(c)
      PROVE  [Next]_vars
  <2>1. CASE FirstAttempt(c) \/ SecondAttempt(c)
    BY <2>1 DEF FirstAttempt, SecondAttempt, Transmit
  <2>2. CASE Renew(c)
    BY <2>2 DEF Renew, Next, Caller
  <2>3. CASE TokenStepFails(c) \/ Answered(c) \/ RequestFails(c)
    BY <2>3 DEF TokenStepFails, Answered, RequestFails, Next, Caller
  <2> QED
    BY <1>3, <2>1, <2>2, <2>3 DEF Send
<1>4. ASSUME NEW c \in Tasks, Drop(c)
      PROVE  [Next]_vars
  BY <1>4 DEF Drop, Next, Caller
<1>5. ASSUME NEW c \in Tasks, GatewayRequest(c)
      PROVE  [Next]_vars
  BY <1>5 DEF GatewayRequest, RefuseToken, Execute, RejectRequest
<1>6. CASE UNCHANGED clientVars
  BY <1>6 DEF clientVars
<1> QED
  BY <1>1, <1>2, <1>3, <1>4, <1>5, <1>6 DEF ClientNext

\* Every behaviour of the client is one of its token manager.
THEOREM ClientUsesTokenManager == ClientSpec => Spec
<1>1. ClientInit => Init
  BY DEF ClientInit
<1> QED
  BY <1>1, ClientStepIsTokenStep, PTL DEF ClientSpec, Spec

-----------------------------------------------------------------------------
(* Type correctness of the call.                                           *)

LEMMA NoWireType == NoWire \in Wires
BY TokensAssumption DEF NoWire, Wires, NoToken

LEMMA AbandonedType ==
  ASSUME wire \in [Tasks -> Wires], NEW c \in Tasks, Abandoned(c)
  PROVE  wire' \in [Tasks -> Wires]
BY NoWireType DEF Abandoned

LEMMA RepliedType ==
  ASSUME wire \in [Tasks -> Wires], NEW c \in Tasks,
         NEW verdict \in Verdicts, Replied(c, verdict)
  PROVE  wire' \in [Tasks -> Wires]
<1>1. [st |-> "handled", tok |-> wire[c].tok, verdict |-> verdict] \in Wires
  BY DEF Wires
<1> QED
  BY <1>1, NoWireType DEF Replied

LEMMA DecodedType ==
  ASSUME NEW verdict \in Verdicts
  PROVE  Decoded(verdict) \in Outcomes
BY DEF Decoded, Verdicts, Outcomes, Failed

LEMMA ClientTypeInit == ClientInit => ClientTypeOK
BY NoWireType DEF ClientInit, ClientTypeOK

LEMMA ClientTypeStep ==
  TypeOK /\ ClientTypeOK /\ WireInv /\ [ClientNext]_clientVars => ClientTypeOK'
<1> SUFFICES ASSUME TypeOK, ClientTypeOK, WireInv, [ClientNext]_clientVars
             PROVE  ClientTypeOK'
  OBVIOUS
<1> USE DEF ClientTypeOK
<1>1. CASE TokenStep
  BY <1>1 DEF TokenStep, callVars
<1>2. ASSUME NEW c \in Tasks, Call(c)
      PROVE  ClientTypeOK'
  BY <1>2 DEF Call
<1>3. ASSUME NEW c \in Tasks, Send(c)
      PROVE  ClientTypeOK'
  <2>1. CASE FirstAttempt(c) \/ SecondAttempt(c)
    <3>1. [st |-> "sent", tok |-> held[c], verdict |-> "none"] \in Wires
      BY DEF Wires, TypeOK
    <3> QED
      BY <2>1, <3>1 DEF FirstAttempt, SecondAttempt, Transmit
  <2>2. CASE Renew(c)
    BY <2>2, NoWireType DEF Renew
  <2>3. CASE TokenStepFails(c)
    BY <2>3 DEF TokenStepFails, EndCall, Outcomes
  <2>4. CASE Answered(c)
    <3>1. Decoded(wire[c].verdict) \in Outcomes
      BY <2>4, DecodedType DEF Answered, WireInv
    <3> QED
      BY <2>4, <3>1, NoWireType DEF Answered, EndCall
  <2>5. CASE RequestFails(c)
    <3>1. wire' \in [Tasks -> Wires]
      BY <2>5, AbandonedType DEF RequestFails
    <3> QED
      BY <2>5, <3>1 DEF RequestFails, EndCall, Outcomes, Failed
  <2> QED
    BY <1>3, <2>1, <2>2, <2>3, <2>4, <2>5 DEF Send
<1>4. ASSUME NEW c \in Tasks, Drop(c)
      PROVE  ClientTypeOK'
  <2>1. wire' \in [Tasks -> Wires]
    BY <1>4, AbandonedType DEF Drop
  <2> QED
    BY <1>4, <2>1 DEF Drop, EndCall, Outcomes
<1>5. ASSUME NEW c \in Tasks, GatewayRequest(c)
      PROVE  ClientTypeOK'
  <2>1. PICK verdict \in Verdicts : Replied(c, verdict)
    BY <1>5 DEF GatewayRequest, RefuseToken, Execute, RejectRequest, Verdicts
  <2>2. wire' \in [Tasks -> Wires]
    BY <2>1, RepliedType
  <2>3. /\ UNCHANGED <<call, outcome>>
        /\ executed' \in [Tasks -> Nat]
    BY <1>5 DEF GatewayRequest, RefuseToken, Execute, RejectRequest
  <2> QED
    BY <2>2, <2>3
<1>6. CASE UNCHANGED clientVars
  BY <1>6 DEF clientVars, callVars
<1> QED
  BY <1>1, <1>2, <1>3, <1>4, <1>5, <1>6 DEF ClientNext

-----------------------------------------------------------------------------
(* What is on the wire, and what has been carried out.                     *)

LEMMA CallInit == ClientInit => WireInv /\ EffectInv
BY DEF ClientInit, WireInv, EffectInv, NoWire

\* The token manager's own steps leave the tasks alone that have been answered.
LEMMA AnsweredTaskIsLeftAlone ==
  ASSUME TypeOK, TokenStep, NEW c \in Tasks, pc[c] = "ok"
  PROVE  pc'[c] = "ok" /\ held'[c] = held[c]
<1>1. CASE Tick
  BY <1>1 DEF Tick, ownVars
<1>2. ASSUME NEW t \in Tasks, Manager(t)
      PROVE  pc'[c] = "ok" /\ held'[c] = held[c]
  <2>1. c # t
    BY <1>2 DEF Manager, ReadCached, ReadMiss, Reuse, StartAuth, ExchangeEnds,
                Stored, Refused, Garbled, Transport
  <2> QED
    BY <1>2, <2>1 DEF TypeOK, Manager, ReadCached, ReadMiss, Reuse, StartAuth,
       ExchangeEnds, Stored, Refused, Garbled, Transport, Return
<1>3. ASSUME NEW t \in Tasks, Gateway(t)
      PROVE  pc'[c] = "ok" /\ held'[c] = held[c]
  BY <1>3 DEF Gateway, Refuse, Issue, ownVars
<1> QED
  BY <1>1, <1>2, <1>3 DEF TokenStep

LEMMA WireStep == CInv /\ [ClientNext]_clientVars => WireInv'
<1> SUFFICES ASSUME TypeOK, ClientTypeOK, WireInv, EffectInv, [ClientNext]_clientVars
             PROVE  WireInv'
  BY DEF CInv
<1> USE DEF TypeOK, ClientTypeOK, WireInv
<1>1. CASE TokenStep
  BY <1>1, AnsweredTaskIsLeftAlone DEF TokenStep, callVars
<1>2. ASSUME NEW c \in Tasks, Call(c)
      PROVE  WireInv'
  BY <1>2 DEF Call, GetToken
<1>3. ASSUME NEW c \in Tasks, Send(c)
      PROVE  WireInv'
  <2>1. CASE FirstAttempt(c) \/ SecondAttempt(c)
    BY <2>1 DEF FirstAttempt, SecondAttempt, Transmit, vars, ownVars
  <2>2. CASE Renew(c)
    BY <2>2 DEF Renew, RefreshAfterExpiry, NoWire
  <2>3. CASE TokenStepFails(c)
    BY <2>3 DEF TokenStepFails, Finish, EndCall
  <2>4. CASE Answered(c)
    BY <2>4 DEF Answered, Finish, EndCall, NoWire
  <2>5. CASE RequestFails(c)
    BY <2>5 DEF RequestFails, Finish, EndCall, Abandoned, NoWire
  <2> QED
    BY <1>3, <2>1, <2>2, <2>3, <2>4, <2>5 DEF Send
<1>4. ASSUME NEW c \in Tasks, Drop(c)
      PROVE  WireInv'
  BY <1>4 DEF Drop, Cancel, Finish, EndCall, Abandoned, NoWire
<1>5. ASSUME NEW c \in Tasks, GatewayRequest(c)
      PROVE  WireInv'
  <2>1. PICK verdict \in Verdicts : Replied(c, verdict)
    BY <1>5 DEF GatewayRequest, RefuseToken, Execute, RejectRequest, Verdicts
  <2>2. wire[c].st = "sent" /\ UNCHANGED <<call, outcome, pc, held>>
    BY <1>5 DEF GatewayRequest, RefuseToken, Execute, RejectRequest, vars, ownVars
  <2> QED
    BY <2>1, <2>2 DEF Replied, NoWire
<1>6. CASE UNCHANGED clientVars
  BY <1>6 DEF clientVars, callVars, vars, ownVars
<1> QED
  BY <1>1, <1>2, <1>3, <1>4, <1>5, <1>6 DEF ClientNext

LEMMA EffectStep == CInv /\ [ClientNext]_clientVars => EffectInv'
<1> SUFFICES ASSUME TypeOK, ClientTypeOK, WireInv, EffectInv, [ClientNext]_clientVars
             PROVE  EffectInv'
  BY DEF CInv
<1> USE DEF ClientTypeOK, WireInv, EffectInv
<1>1. CASE TokenStep
  BY <1>1 DEF TokenStep, callVars
<1>2. ASSUME NEW c \in Tasks, Call(c)
      PROVE  EffectInv'
  BY <1>2 DEF Call
<1>3. ASSUME NEW c \in Tasks, Send(c)
      PROVE  EffectInv'
  <2>1. CASE FirstAttempt(c) \/ SecondAttempt(c)
    BY <2>1 DEF FirstAttempt, SecondAttempt, Transmit
  <2>2. CASE Renew(c)
    BY <2>2 DEF Renew, TokenExpired, NoWire
  <2>3. CASE TokenStepFails(c)
    BY <2>3 DEF TokenStepFails, EndCall, Failed
  <2>4. CASE Answered(c)
    BY <2>4 DEF Answered, EndCall, Decoded, Verdicts, NoWire
  <2>5. CASE RequestFails(c)
    BY <2>5 DEF RequestFails, EndCall, Abandoned, NoWire
  <2> QED
    BY <1>3, <2>1, <2>2, <2>3, <2>4, <2>5 DEF Send
<1>4. ASSUME NEW c \in Tasks, Drop(c)
      PROVE  EffectInv'
  BY <1>4 DEF Drop, EndCall, Abandoned, NoWire
<1>5. ASSUME NEW c \in Tasks, GatewayRequest(c)
      PROVE  EffectInv'
  <2>1. CASE RefuseToken(c)
    BY <2>1 DEF RefuseToken, Replied, NoWire
  <2>2. CASE Execute(c)
    <3>1. PICK verdict \in {"ok", "garbled", "error"} : Replied(c, verdict)
      BY <2>2 DEF Execute
    <3> QED
      BY <2>2, <3>1 DEF Execute, Replied, NoWire
  <2>3. CASE RejectRequest(c)
    BY <2>3 DEF RejectRequest, Replied, NoWire
  <2> QED
    BY <1>5, <2>1, <2>2, <2>3 DEF GatewayRequest
<1>6. CASE UNCHANGED clientVars
  BY <1>6 DEF clientVars, callVars
<1> QED
  BY <1>1, <1>2, <1>3, <1>4, <1>5, <1>6 DEF ClientNext

LEMMA ClientInvariance == ClientSpec => []CInv
<1>1. ClientInit => CInv
  BY TypeInit, ClientTypeInit, CallInit DEF CInv, ClientInit
<1>2. CInv /\ [ClientNext]_clientVars => CInv'
  BY ClientStepIsTokenStep, TypeStep, ClientTypeStep, WireStep, EffectStep DEF CInv
<1> QED
  BY <1>1, <1>2, PTL DEF ClientSpec

-----------------------------------------------------------------------------
(* The theorems.                                                           *)

\* In every behaviour every variable of the call keeps its type.
THEOREM ClientTypeCorrect == ClientSpec => []ClientTypeOK
<1>1. CInv => ClientTypeOK
  BY DEF CInv
<1> QED
  BY <1>1, ClientInvariance, PTL

\* No request is carried out twice, with any number of concurrent calls.
THEOREM NeverTwice == ClientSpec => []AtMostOnce
<1>1. CInv => AtMostOnce
  <2> SUFFICES ASSUME CInv, NEW c \in Tasks
               PROVE  executed[c] <= 1
    BY DEF AtMostOnce
  <2>1. executed[c] = 0 \/ executed[c] = 1
    BY DEF CInv, EffectInv
  <2> QED
    BY <2>1
<1> QED
  BY <1>1, ClientInvariance, PTL

\* Ok and token_expired tell the truth about the request.
THEOREM ResultIsHonest == ClientSpec => []OutcomeHonest
<1>1. CInv => OutcomeHonest
  BY DEF CInv, EffectInv, OutcomeHonest
<1> QED
  BY <1>1, ClientInvariance, PTL

\* The second attempt does not repeat the refused token: the token manager's
\* theorem, seen on the wire.
THEOREM RetryCarriesNewerToken == ClientSpec => []SecondTokenIsNewer
<1>1. ClientSpec => []IInv
  BY ClientUsesTokenManager, Invariance, PTL
<1>2. IInv /\ CInv => SecondTokenIsNewer
  <2> SUFFICES ASSUME IInv, CInv, NEW c \in Tasks, call[c] = "resent"
               PROVE  wire[c].tok > stale[c]
    BY DEF SecondTokenIsNewer
  <2>1. wire[c].tok = held[c] /\ pc[c] = "ok"
    BY DEF CInv, WireInv
  <2>2. stale[c] < held[c]
    BY <2>1 DEF IInv, RenewInv
  <2>3. held[c] \in Nat /\ stale[c] \in Nat
    BY DEF IInv, TypeOK
  <2> QED
    BY <2>1, <2>2, <2>3
<1> QED
  BY <1>1, <1>2, ClientInvariance, PTL

-----------------------------------------------------------------------------
(* A call implements the abstract call.                                    *)

LEMMA PhaseOf == /\ Phase("new") = "new" /\ Phase("done") = "closed"
                 /\ \A at \in {"token", "sent", "renew", "resent"} : Phase(at) = "open"
BY DEF Phase

LEMMA ToldOf == /\ Told("none") = "none" /\ Told("ok") = "applied"
                /\ Told("expired") = "notApplied" /\ Told("dropped") = "unknown"
                /\ \A result \in Failed : Told(result) = "unknown"
BY DEF Told, Failed

LEMMA OnceInit == ClientInit => Once!Init
BY PhaseOf, ToldOf DEF ClientInit, Once!Init

LEMMA OnceStep == CInv /\ [ClientNext]_clientVars => [Once!Next]_(Once!vars)
<1> SUFFICES ASSUME CInv, [ClientNext]_clientVars
             PROVE  [Once!Next]_(Once!vars)
  OBVIOUS
<1> DEFINE Phases  == [c \in Tasks |-> Phase(call[c])]
           Tidings == [c \in Tasks |-> Told(outcome[c])]
<1>1. ASSUME NEW c \in Tasks, NEW at, call' = [call EXCEPT ![c] = at]
      PROVE  Phases' = [Phases EXCEPT ![c] = Phase(at)]
  BY <1>1 DEF CInv, ClientTypeOK
<1>2. ASSUME NEW c \in Tasks, NEW result, outcome' = [outcome EXCEPT ![c] = result]
      PROVE  Tidings' = [Tidings EXCEPT ![c] = Told(result)]
  BY <1>2 DEF CInv, ClientTypeOK
<1>3. ASSUME Phases' = Phases, Tidings' = Tidings, UNCHANGED executed
      PROVE  UNCHANGED Once!vars
  BY <1>3 DEF Once!vars
<1>4. ASSUME NEW c \in Tasks, NEW at \in {"token", "sent", "renew", "resent"},
             call[c] \in {"token", "sent", "renew", "resent"},
             call' = [call EXCEPT ![c] = at]
      PROVE  Phases' = Phases
  <2>1. Phases[c] = "open" /\ Phase(at) = "open"
    BY <1>4, PhaseOf
  <2> QED
    BY <1>1, <1>4, <2>1
<1>5. ASSUME NEW c \in Tasks, NEW result \in Outcomes, EndCall(c, result),
             call[c] \in {"token", "sent", "renew", "resent"},
             result = "ok" => executed[c] = 1,
             result = "expired" => executed[c] = 0
      PROVE  Once!Next
  <2> DEFINE v == Told(result)
  <2>1. v \in {"applied", "notApplied", "unknown"}
    BY ToldOf DEF Outcomes
  <2>2. (v = "applied" => executed[c] = 1) /\ (v = "notApplied" => executed[c] = 0)
    BY <1>5, ToldOf DEF Outcomes
  <2>3. Once!Justified(c, v)
    BY <2>1, <2>2 DEF Once!Justified
  <2>4. Phases[c] = "open" /\ Phases' = [Phases EXCEPT ![c] = "closed"]
    <3>1. call' = [call EXCEPT ![c] = "done"]
      BY <1>5 DEF EndCall
    <3>2. Phases[c] = "open"
      BY <1>5, PhaseOf
    <3>3. Phases' = [Phases EXCEPT ![c] = Phase("done")]
      BY <1>1, <3>1
    <3> QED
      BY <3>2, <3>3, PhaseOf
  <2>5. Tidings' = [Tidings EXCEPT ![c] = v] /\ UNCHANGED executed
    BY <1>2, <1>5 DEF EndCall
  <2>6. Once!Close(c, v)
    BY <2>3, <2>4, <2>5 DEF Once!Close
  <2> QED
    BY <2>1, <2>6 DEF Once!Next, Once!CloseAny
<1>6. CASE TokenStep
  BY <1>3, <1>6 DEF TokenStep, callVars
<1>7. ASSUME NEW c \in Tasks, Call(c)
      PROVE  Once!Next
  <2>1. call[c] = "new" /\ call' = [call EXCEPT ![c] = "token"]
    BY <1>7 DEF Call
  <2>2. Phases[c] = "new" /\ Phases' = [Phases EXCEPT ![c] = "open"]
    <3>1. Phases' = [Phases EXCEPT ![c] = Phase("token")]
      BY <1>1, <2>1
    <3> QED
      BY <2>1, <3>1, PhaseOf
  <2>3. UNCHANGED executed /\ Tidings' = Tidings
    BY <1>7 DEF Call
  <2>4. Once!Begin(c)
    BY <2>2, <2>3 DEF Once!Begin
  <2> QED
    BY <2>4 DEF Once!Next
<1>8. ASSUME NEW c \in Tasks, Send(c)
      PROVE  [Once!Next]_(Once!vars)
  <2>1. CASE FirstAttempt(c) \/ SecondAttempt(c) \/ Renew(c)
    <3>1. Phases' = Phases
      <4>1. /\ call[c] \in {"token", "sent", "renew", "resent"}
            /\ \E at \in {"token", "sent", "renew", "resent"} :
                  call' = [call EXCEPT ![c] = at]
        BY <2>1 DEF FirstAttempt, SecondAttempt, Renew, Transmit
      <4> QED
        BY <1>4, <4>1
    <3>2. UNCHANGED executed /\ Tidings' = Tidings
      BY <2>1 DEF FirstAttempt, SecondAttempt, Renew, Transmit
    <3> QED
      BY <1>3, <3>1, <3>2
  <2>2. CASE TokenStepFails(c)
    BY <1>5, <2>2 DEF TokenStepFails, Outcomes, Failed
  <2>3. CASE Answered(c)
    <3> DEFINE result == Decoded(wire[c].verdict)
    <3>1. EndCall(c, result) /\ wire[c].st = "handled" /\ call[c] \in {"sent", "resent"}
      BY <2>3 DEF Answered
    <3>2. wire[c].verdict \in Verdicts
      BY <3>1 DEF CInv, WireInv
    <3>3. result \in Outcomes
      BY <3>2, DecodedType
    <3>4. /\ result = "ok" => wire[c].verdict = "ok"
          /\ result = "expired" => wire[c].verdict = "expired"
      BY <3>2 DEF Decoded, Verdicts
    <3>5. /\ result = "ok" => executed[c] = 1
          /\ result = "expired" => executed[c] = 0
      BY <3>1, <3>4 DEF CInv, EffectInv
    <3> QED
      BY <1>5, <3>1, <3>3, <3>5
  <2>4. CASE RequestFails(c)
    <3>1. EndCall(c, "http") /\ call[c] \in {"sent", "resent"}
      BY <2>4 DEF RequestFails
    <3> QED
      BY <1>5, <3>1 DEF Outcomes, Failed
  <2> QED
    BY <1>8, <2>1, <2>2, <2>3, <2>4 DEF Send
<1>9. ASSUME NEW c \in Tasks, Drop(c)
      PROVE  Once!Next
  BY <1>5, <1>9 DEF Drop, Outcomes
<1>10. ASSUME NEW c \in Tasks, GatewayRequest(c)
       PROVE  [Once!Next]_(Once!vars)
  <2>1. UNCHANGED <<call, outcome>>
    BY <1>10 DEF GatewayRequest, RefuseToken, Execute, RejectRequest
  <2>2. CASE RefuseToken(c) \/ RejectRequest(c)
    BY <1>3, <2>1, <2>2 DEF RefuseToken, RejectRequest
  <2>3. CASE Execute(c)
    <3>1. wire[c].st = "sent" /\ executed' = [executed EXCEPT ![c] = @ + 1]
      BY <2>3 DEF Execute
    <3>2. /\ executed[c] = 0 /\ call[c] # "new"
          /\ outcome[c] # "expired" /\ outcome[c] \in Outcomes \cup {"none"}
          /\ call[c] \in {"new", "token", "sent", "renew", "resent", "done"}
      BY <3>1 DEF CInv, WireInv, EffectInv, ClientTypeOK
    <3>3. Phases[c] # "new"
      BY <3>2, PhaseOf
    <3>4. Tidings[c] # "notApplied"
      BY <3>2, ToldOf DEF Outcomes
    <3>5. executed' = [executed EXCEPT ![c] = 1]
      BY <3>1, <3>2
    <3>6. Once!Apply(c)
      BY <2>1, <3>2, <3>3, <3>4, <3>5 DEF Once!Apply
    <3> QED
      BY <3>6 DEF Once!Next
  <2> QED
    BY <1>10, <2>2, <2>3 DEF GatewayRequest
<1>11. CASE UNCHANGED clientVars
  BY <1>3, <1>11 DEF clientVars, callVars
<1> QED
  BY <1>6, <1>7, <1>8, <1>9, <1>10, <1>11 DEF ClientNext

\* Every behaviour of the client is one of the abstract calls; that each call
\* is closed is left to the model checker.
THEOREM ImplementsCallsSafely == ClientSpec => Once!SafeSpec
BY OnceInit, OnceStep, ClientInvariance, PTL DEF ClientSpec, Once!SafeSpec
=============================================================================
