----------------------------- MODULE TimeProofs -----------------------------
(***************************************************************************)
(* Theorems about TokenLifetime and Deadlines: how long a token is kept,   *)
(* for every width of the integers, and how long a call takes, for all     *)
(* deadlines.  The two share nothing but the subject.                      *)
(***************************************************************************)
EXTENDS TokenLifetime, Deadlines, TLAPS

-----------------------------------------------------------------------------
(* TokenLifetime, for every width of the integers and every buffer.        *)

Reply == [life : -Half .. Half - 1, at : Nat]

LifetimeInv ==
  /\ uptime \in 0 .. MaxClock
  /\ state \in [life : -Half .. Half - 1, at : Nat, until : Int]
  /\ panicked \in Reply
  /\ KeptAsReported /\ OnlyAbsurdLifetimesPanic

\* What the machine computes, but for a subtraction that wraps.
LEMMA Seconds ==
  ASSUME NEW life \in -Half .. Half - 1
  PROVE  /\ SecondsKept(life) \in Nat
         /\ IF life - Buffer >= -Half
            THEN SecondsKept(life) = IF life > Buffer THEN life - Buffer ELSE 0
            ELSE SecondsKept(life) >= Half - Buffer
BY LifetimeAssumption DEF SecondsKept, AsUnsigned, Larger, Wrapped

LEMMA StoreStep ==
  ASSUME LifetimeInv, NEW life \in Reports, Store(life)
  PROVE  LifetimeInv'
<1>1. /\ life \in -Half .. Half - 1 /\ uptime \in 0 .. Half - 1 /\ Half \in Nat /\ Buffer \in 1 .. Half - 1
      /\ uptime + SecondsKept(life) < Half
  BY LifetimeAssumption, Seconds DEF LifetimeInv, Store, Panics
<1>2. state' = [life |-> life, at |-> uptime, until |-> uptime + SecondsKept(life)] /\ uptime' = uptime
      /\ panicked' = panicked
  BY DEF Store
<1>3. state' \in [life : -Half .. Half - 1, at : Nat, until : Int]
  BY <1>1, <1>2, Seconds
<1>4. KeptAsReported'
  <2> SUFFICES ASSUME uptime >= Buffer
               PROVE  SecondsKept(life) = IF life > Buffer THEN life - Buffer ELSE 0
    BY <1>1, <1>2, Seconds DEF KeptAsReported
  <2>1. life - Buffer >= -Half
    BY <1>1, Seconds
  <2> QED
    BY <1>1, <2>1, Seconds
<1> QED
  BY <1>2, <1>3, <1>4 DEF LifetimeInv, OnlyAbsurdLifetimesPanic

LEMMA PanicStep ==
  ASSUME LifetimeInv, NEW life \in Reports, Panic(life)
  PROVE  LifetimeInv'
<1>1. /\ life \in -Half .. Half - 1 /\ uptime \in 0 .. Half - 1 /\ Half \in Nat /\ Buffer \in 1 .. Half - 1
  BY LifetimeAssumption DEF LifetimeInv
<1>2. panicked' = [life |-> life, at |-> uptime] /\ state' = state /\ uptime' = uptime
  BY DEF Panic
<1>3. life < Buffer - Half \/ uptime + life >= Half
  <2> SUFFICES ASSUME life - Buffer >= -Half PROVE uptime + life >= Half
    BY <1>1
  <2>1. uptime + SecondsKept(life) >= Half
    BY <1>1 DEF Panic, Panics, InRange
  <2>2. SecondsKept(life) = IF life > Buffer THEN life - Buffer ELSE 0
    BY <1>1, Seconds
  <2> QED
    BY <1>1, <2>1, <2>2
<1>4. panicked' \in Reply /\ OnlyAbsurdLifetimesPanic'
  BY <1>1, <1>2, <1>3 DEF Reply, OnlyAbsurdLifetimesPanic
<1> QED
  BY <1>2, <1>4 DEF LifetimeInv, KeptAsReported

LEMMA LifetimeInvariance == LifetimeSpec => []LifetimeInv
<1>1. LifetimeInit => LifetimeInv
  BY LifetimeAssumption DEF LifetimeInit, LifetimeInv, None, NoPanic, Reply, KeptAsReported, OnlyAbsurdLifetimesPanic
<1>2. LifetimeInv /\ [LifetimeNext]_lifetimeVars => LifetimeInv'
  <2> SUFFICES ASSUME LifetimeInv, [LifetimeNext]_lifetimeVars PROVE LifetimeInv'
    OBVIOUS
  <2>1. CASE Elapse \/ UNCHANGED lifetimeVars
    BY <2>1, LifetimeAssumption DEF Elapse, lifetimeVars, LifetimeInv, KeptAsReported, OnlyAbsurdLifetimesPanic
  <2>2. CASE Refused
    <3>1. state' \in [life : -Half .. Half - 1, at : Nat, until : Int] /\ KeptAsReported'
      BY <2>2, LifetimeAssumption DEF Refused, None, KeptAsReported
    <3> QED
      BY <2>2, <3>1 DEF Refused, LifetimeInv, OnlyAbsurdLifetimesPanic
  <2> QED
    BY <2>1, <2>2, StoreStep, PanicStep DEF LifetimeNext
<1> QED
  BY <1>1, <1>2, PTL DEF LifetimeSpec

\* The local expiry is the one TokenManager computes, wrapping included.
THEOREM LifetimeIsKept == LifetimeSpec => []KeptAsReported
<1>1. LifetimeInv => KeptAsReported
  BY DEF LifetimeInv
<1> QED
  BY <1>1, LifetimeInvariance, PTL

\* The caller's task survives every lifetime a gateway has reason to report.
THEOREM PanicsAreAbsurd == LifetimeSpec => []OnlyAbsurdLifetimesPanic
<1>1. LifetimeInv => OnlyAbsurdLifetimesPanic
  BY DEF LifetimeInv
<1> QED
  BY <1>1, LifetimeInvariance, PTL

-----------------------------------------------------------------------------
(* Deadlines, for all deadlines.                                           *)

TypeInv == /\ now \in Nat /\ timer \in Nat /\ arrived \in Nat /\ left \in Nat
           /\ sdk \in {"post", "auth", "done"} /\ again \in BOOLEAN /\ row \in BOOLEAN
           /\ gateway \in {"idle", "checking", "engine", "answered", "closed"}
           /\ answer \in {"none", "401", "200", "202"}

\* How far the POST under way has got, and by when.
PostInv ==
  sdk = "post" =>
    /\ gateway = "idle" => now <= timer + Up
    /\ gateway # "idle" => arrived <= timer + Up
    /\ Working => now <= arrived + WriteTimeout
    /\ OnTheWay => left <= arrived + WriteTimeout /\ now <= left + Down

\* Only the POST that is not challenged makes a row.
RowInv == /\ sdk = "auth" => ~row /\ gateway = "idle" /\ answer = "none"
          /\ sdk = "post" /\ (gateway \in {"idle", "checking"} \/ answer = "401") => ~row
          /\ sdk = "post" /\ gateway # "answered" => answer = "none"
          /\ sdk # "done" => result = "none"

\* The exchanges come one after the other.
CallInv ==
  /\ sdk # "done" => timer <= now /\ now <= timer + Timeout
  /\ sdk = "auth" /\ ~again => timer = 0
  /\ sdk = "post" /\ ~again => timer <= Timeout
  /\ sdk = "auth" /\ again => timer <= 2 * Timeout
  /\ sdk = "post" /\ again => timer <= 3 * Timeout

IInv == TypeInv /\ PostInv /\ RowInv /\ CallInv

LEMMA TickStep == ASSUME IInv, Tick PROVE IInv'
<1>1. TypeInv'
  BY DEF IInv, TypeInv, Tick
<1>2. PostInv'
  BY DeadlinesAssumption DEF IInv, TypeInv, PostInv, Tick, Due, Working, OnTheWay
<1>3. CallInv'
  BY DeadlinesAssumption DEF IInv, TypeInv, CallInv, Tick, Due, Expired
<1> QED
  BY <1>1, <1>2, <1>3 DEF IInv, RowInv, Tick

LEMMA GatewayStep ==
  ASSUME IInv, Arrive \/ Challenge \/ Create \/ Settle \/ Close
  PROVE  IInv'
<1>1. TypeInv'
  BY DEF IInv, TypeInv, Arrive, Challenge, Create, Settle, Close, Answers
<1>2. PostInv'
  BY DeadlinesAssumption
  DEF IInv, TypeInv, PostInv, Arrive, Challenge, Create, Settle, Close, Answers, Working, OnTheWay
<1>3. RowInv'
  BY DEF IInv, TypeInv, RowInv, Arrive, Challenge, Create, Settle, Close, Answers, Working
<1>4. CallInv'
  BY DEF IInv, TypeInv, CallInv, Arrive, Challenge, Create, Settle, Close, Answers
<1> QED
  BY <1>1, <1>2, <1>3, <1>4 DEF IInv

LEMMA SdkStep ==
  ASSUME IInv, Receive \/ Renew \/ Send \/ TokenRefused \/ GiveUp
  PROVE  IInv'
<1>1. TypeInv'
  BY DEF IInv, TypeInv, Receive, Renew, Send, TokenRefused, GiveUp, Ends, Restarted
<1>2. PostInv'
  BY DeadlinesAssumption
  DEF IInv, TypeInv, PostInv, RowInv, Receive, Renew, Send, TokenRefused, GiveUp, Ends, Restarted,
      Working, OnTheWay
<1>3. RowInv'
  BY DEF IInv, TypeInv, RowInv, Receive, Renew, Send, TokenRefused, GiveUp, Ends
<1>4. CallInv'
  <2>1. CASE Receive \/ TokenRefused \/ GiveUp
    BY <2>1 DEF CallInv, Receive, TokenRefused, GiveUp, Ends
  <2>2. CASE Renew
    <3>1. ~again /\ timer <= Timeout /\ now <= timer + Timeout
      BY <2>2 DEF IInv, TypeInv, CallInv, Renew
    <3>2. now <= 2 * Timeout /\ now <= now + Timeout /\ now <= now
      BY <3>1, DeadlinesAssumption DEF IInv, TypeInv
    <3> QED
      BY <2>2, <3>2 DEF CallInv, Renew, Restarted
  <2>3. CASE Send
    <3>1. now <= timer + Timeout /\ timer <= IF again THEN 2 * Timeout ELSE 0
      BY <2>3, DeadlinesAssumption DEF IInv, TypeInv, CallInv, Send
    <3>2. now <= (IF again THEN 3 * Timeout ELSE Timeout) /\ now <= now + Timeout /\ now <= now
      BY <3>1, DeadlinesAssumption DEF IInv, TypeInv
    <3> QED
      BY <2>3, <3>2 DEF CallInv, Send, Restarted
  <2> QED
    BY <2>1, <2>2, <2>3
<1> QED
  BY <1>1, <1>2, <1>3, <1>4 DEF IInv

LEMMA Invariance == Spec => []IInv
<1>1. Init => IInv
  <2> SUFFICES ASSUME Init PROVE IInv
    OBVIOUS
  <2>1. TypeInv
    BY DEF Init, TypeInv
  <2>2. PostInv /\ CallInv
    BY DeadlinesAssumption DEF Init, PostInv, CallInv, Working, OnTheWay
  <2>3. RowInv
    BY DEF Init, RowInv
  <2> QED
    BY <2>1, <2>2, <2>3 DEF IInv
<1>2. IInv /\ [Next]_vars => IInv'
  <2> SUFFICES ASSUME IInv, [Next]_vars PROVE IInv'
    OBVIOUS
  <2>1. CASE UNCHANGED vars
    BY <2>1
    DEF vars, IInv, TypeInv, PostInv, RowInv, CallInv, Working, OnTheWay
  <2> QED
    BY <2>1, TickStep, GatewayStep, SdkStep DEF Next
<1> QED
  BY <1>1, <1>2, PTL DEF Spec

\* Four timeouts bound a call.
THEOREM CallTakesFourTimeouts == Spec => []CallIsBounded
<1>1. IInv => CallIsBounded
  BY DeadlinesAssumption DEF IInv, TypeInv, CallInv, CallIsBounded
<1> QED
  BY <1>1, Invariance, PTL

\* The SDK waits longer than the gateway keeps a connection open, by more than
\* the way there and back.
Margin == Up + WriteTimeout + Down < Timeout

\* An exchange that is over its time has made no row: a POST with a row is
\* answered, or closed, in time.
LEMMA NoRowWhenExpired == ASSUME Margin, IInv, sdk # "done", Expired PROVE ~row
<1>1. CASE sdk = "auth"
  BY <1>1 DEF IInv, RowInv
<1>2. CASE sdk = "post"
  <2>1. now >= timer + Timeout
    BY DeadlinesAssumption DEF IInv, TypeInv, Expired
  <2>2. gateway = "idle"
    <3> SUFFICES ASSUME gateway # "idle" PROVE FALSE
      OBVIOUS
    <3>1. now <= arrived + WriteTimeout + Down /\ arrived <= timer + Up
      BY <1>2, DeadlinesAssumption DEF IInv, TypeInv, PostInv, Working, OnTheWay
    <3> QED
      BY <2>1, <3>1, DeadlinesAssumption DEF Margin, IInv, TypeInv
  <2> QED
    BY <1>2, <2>2 DEF IInv, RowInv
<1> QED
  BY <1>1, <1>2 DEF IInv, TypeInv

\* With that margin the SDK never abandons a row.
THEOREM SdkOutlastsGateway == ASSUME Margin PROVE Spec => []GatewayGivesUpFirst
<1>1. Init => GatewayGivesUpFirst
  BY DEF Init, GatewayGivesUpFirst
<1>2. IInv /\ GatewayGivesUpFirst /\ [Next]_vars => GatewayGivesUpFirst'
  <2> SUFFICES ASSUME IInv, GatewayGivesUpFirst, [Next]_vars PROVE GatewayGivesUpFirst'
    OBVIOUS
  <2>1. CASE GiveUp
    BY <2>1, NoRowWhenExpired DEF GiveUp, Ends, GatewayGivesUpFirst
  <2>2. CASE Create
    BY <2>2 DEF Create, GatewayGivesUpFirst, IInv, RowInv
  <2>3. CASE Tick \/ Arrive \/ Challenge \/ Settle \/ Close \/ UNCHANGED vars
    BY <2>3 DEF GatewayGivesUpFirst, Tick, Arrive, Challenge, Settle, Close, Answers, vars
  <2>4. CASE Receive \/ Renew \/ Send \/ TokenRefused
    BY <2>4 DEF GatewayGivesUpFirst, Receive, Renew, Send, TokenRefused, Ends
  <2> QED
    BY <2>1, <2>2, <2>3, <2>4 DEF Next
<1> QED
  BY <1>1, <1>2, Invariance, PTL DEF Spec
=============================================================================
