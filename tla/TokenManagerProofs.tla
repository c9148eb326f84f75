------------------------- MODULE TokenManagerProofs -------------------------
(***************************************************************************)
(* Theorems about TokenManager, for every set of tasks, every timeout,     *)
(* buffer and set of lifetimes.                                            *)
(*                                                                         *)
(* The safety properties are not inductive: they rest on who holds the     *)
(* lock, on the order in which tokens are issued, stored and handed out,   *)
(* and on the time an exchange has been under way.  Each of these is a     *)
(* named part of the invariant below.  With the queue of the lock they     *)
(* hold as well, and the queue is what it should be.                       *)
(***************************************************************************)
EXTENDS QueuedTokenManager, SequenceTheorems, FiniteSetTheorems, TLAPS

\* The task that awaits an exchange is the one that holds the write lock.
LockInv ==
  \A t \in Tasks : /\ pc[t] = "auth" <=> writer = t
                   /\ pc[t] = "auth" <=> auth[t].phase # "none"

\* Tokens travel in the order of issue: from the gateway to the exchange,
\* from there to the cache, from there to the tasks.
TokenInv ==
  /\ newest <= issued
  /\ cache.tok # NoToken => cache.tok = newest
  /\ \A t \in Tasks : held[t] <= newest
  /\ \A t \in Tasks : auth[t].phase = "issued" => /\ newest < auth[t].tok
                                                  /\ auth[t].tok <= issued

\* What a task holds while it asks, and when it is answered.
RenewInv ==
  \A t \in Tasks : /\ pc[t] \in {"idle", "peek"} => stale[t] = NoToken
                   /\ pc[t] \in {"idle"} \cup Asking => held[t] = stale[t]
                   /\ pc[t] = "ok" => stale[t] < held[t]

\* What the double check found is still so when the exchange ends.
ExchangeInv ==
  \A t \in Tasks : pc[t] = "auth" => ~Fresh \/ stale[t] = cache.tok

IInv == TypeOK /\ LockInv /\ TokenInv /\ RenewInv /\ ExchangeInv

\* An exchange is at most Timeout old, and a token that is still fresh is one
\* that the gateway still accepts.
ExpiryInv ==
  /\ \A t \in Tasks : auth[t].phase # "none" => /\ auth[t].at <= clock
                                                /\ clock <= auth[t].at + Timeout
  /\ \A t \in Tasks : auth[t].phase = "issued" =>
                        auth[t].at + auth[t].life <= gwExpiry[auth[t].tok]
  /\ Fresh => cache.until <= gwExpiry[cache.tok]

USE NoTaskAssumption, LifetimesAssumption, ClockAssumption, TokensAssumption

-----------------------------------------------------------------------------
(* Type correctness.                                                       *)

LEMMA NoAuthType == NoAuth \in Exchanges
BY DEF NoAuth, Exchanges, NoToken

LEMMA NewAuthType == clock \in Nat => NewAuth \in Exchanges
BY DEF NewAuth, Exchanges, NoToken

LEMMA NoCacheType == NoCache \in [tok : 0 .. MaxTokens, until : Nat]
BY DEF NoCache, NoToken

LEMMA ExchangeFields ==
  TypeOK => \A t \in Tasks : /\ auth[t].tok \in 0 .. MaxTokens
                            /\ auth[t].life \in Nat
                            /\ auth[t].at \in Nat
BY DEF TypeOK, Exchanges

LEMMA TypeInit == Init => TypeOK
BY NoAuthType, NoCacheType DEF Init, TypeOK, Tokens, NoToken

\* The local expiry of a token is an instant: expires_in - Buffer is cut off
\* at 0 (token.rs:134).
LEMMA LocalExpiryIsInstant ==
  ASSUME clock \in Nat, NEW life \in Nat
  PROVE  LocalExpiry(life) \in Nat
BY DEF LocalExpiry

\* The end of an exchange: what Return leaves to its caller is the cache.
LEMMA ReturnType ==
  ASSUME TypeOK, NEW t \in Tasks, NEW result \in {"ok"} \cup Failed, Return(t, result),
         held' \in [Tasks -> 0 .. MaxTokens], newest' \in 0 .. MaxTokens,
         cache' \in [tok : 0 .. MaxTokens, until : Nat]
  PROVE  TypeOK'
<1>1. auth' \in [Tasks -> Exchanges]
  BY NoAuthType DEF TypeOK, Return
<1>2. pc' \in [Tasks -> {"idle", "ok"} \cup Asking \cup Failed]
  BY DEF TypeOK, Return
<1>3. writer' \in Tasks \cup {NoTask}
  BY DEF TypeOK, Return, Release
<1> QED
  BY <1>1, <1>2, <1>3 DEF TypeOK, Return, gwVars

LEMMA TypeStep == TypeOK /\ [Next]_vars => TypeOK'
<1> SUFFICES ASSUME TypeOK, [Next]_vars
             PROVE  TypeOK'
  OBVIOUS
<1>0. NoToken \in 0 .. MaxTokens
  BY DEF NoToken
<1>1. CASE Tick
  BY <1>1 DEF TypeOK, Tick, gwVars, tmVars, ownVars
<1>2. ASSUME NEW t \in Tasks, Caller(t)
      PROVE  TypeOK'
  <2>1. CASE GetToken(t)
    BY <2>1 DEF TypeOK, GetToken, gwVars, tmVars, Asking
  <2>2. CASE RefreshAfterExpiry(t)
    BY <2>2 DEF TypeOK, RefreshAfterExpiry, gwVars, tmVars, Asking
  <2>3. CASE Finish(t)
    BY <1>0, <2>3 DEF TypeOK, Finish, gwVars, tmVars
  <2>4. CASE Cancel(t)
    <3>1. auth' \in [Tasks -> Exchanges]
      BY <2>4, NoAuthType DEF TypeOK, Cancel
    <3>2. writer' \in Tasks \cup {NoTask}
      BY <2>4 DEF TypeOK, Cancel, Release
    <3> QED
      BY <1>0, <2>4, <3>1, <3>2 DEF TypeOK, Cancel, gwVars
  <2> QED
    BY <1>2, <2>1, <2>2, <2>3, <2>4 DEF Caller
<1>3. ASSUME NEW t \in Tasks, Manager(t)
      PROVE  TypeOK'
  <2>0. cache.tok \in 0 .. MaxTokens
    BY DEF TypeOK
  <2>1. CASE ReadCached(t)
    BY <2>0, <2>1 DEF TypeOK, ReadCached, gwVars, tmVars
  <2>2. CASE ReadMiss(t)
    BY <2>2 DEF TypeOK, ReadMiss, gwVars, tmVars, Asking
  <2>3. CASE Reuse(t)
    BY <2>0, <2>3 DEF TypeOK, Reuse, gwVars, tmVars
  <2>4. CASE StartAuth(t)
    <3>1. auth' \in [Tasks -> Exchanges]
      BY <2>4, NewAuthType DEF TypeOK, StartAuth
    <3> QED
      BY <2>4, <3>1 DEF TypeOK, StartAuth, gwVars, Asking
  <2>5. CASE Stored(t)
    <3>1. auth[t].tok \in 0 .. MaxTokens /\ auth[t].life \in Nat
      BY DEF TypeOK, Exchanges
    <3>2. LocalExpiry(auth[t].life) \in Nat
      BY <3>1, LocalExpiryIsInstant DEF TypeOK
    <3>3. cache' \in [tok : 0 .. MaxTokens, until : Nat]
      BY <2>5, <3>1, <3>2 DEF Stored
    <3>4. held' \in [Tasks -> 0 .. MaxTokens] /\ newest' \in 0 .. MaxTokens
      BY <2>5, <3>1 DEF TypeOK, Stored
    <3> QED
      BY <2>5, <3>3, <3>4, ReturnType DEF Stored
  <2>6. CASE Refused(t)
    <3>1. UNCHANGED <<held, newest>> /\ cache' = NoCache /\ Return(t, "api")
      BY <2>6 DEF Refused
    <3> QED
      BY <3>1, NoCacheType, ReturnType DEF TypeOK, Failed
  <2>7. CASE Garbled(t) \/ Transport(t)
    <3>1. /\ UNCHANGED <<cache, held, newest>>
          /\ Return(t, "decode") \/ Return(t, "http")
      BY <2>7 DEF Garbled, Transport
    <3> QED
      BY <3>1, ReturnType DEF TypeOK, Failed
  <2> QED
    BY <1>3, <2>1, <2>2, <2>3, <2>4, <2>5, <2>6, <2>7 DEF Manager, ExchangeEnds
<1>4. ASSUME NEW t \in Tasks, Gateway(t)
      PROVE  TypeOK'
  <2>0. auth[t] \in Exchanges
    BY DEF TypeOK
  <2>1. CASE Refuse(t)
    <3>1. [auth[t] EXCEPT !.phase = "refused"] \in Exchanges
      BY <2>0 DEF Exchanges
    <3>2. auth' \in [Tasks -> Exchanges]
      BY <2>1, <3>1 DEF TypeOK, Refuse
    <3> QED
      BY <2>1, <3>2 DEF TypeOK, Refuse, gwVars, tmVars, ownVars
  <2>2. ASSUME NEW life \in Lifetimes, Issue(t, life)
        PROVE  TypeOK'
    <3>1. life \in Nat /\ clock + life \in Nat
      BY DEF TypeOK
    <3>2. issued' = issued + 1 /\ issued + 1 \in Tokens
      BY <2>2 DEF TypeOK, Issue, Tokens
    <3>3. gwExpiry' \in [Tokens -> Nat]
      BY <2>2, <3>1, <3>2 DEF TypeOK, Issue
    <3>4. [phase |-> "issued", tok |-> issued + 1, life |-> life, at |-> auth[t].at]
             \in Exchanges
      BY <2>0, <3>1, <3>2 DEF Exchanges, Tokens
    <3>5. auth' \in [Tasks -> Exchanges]
      BY <2>2, <3>4 DEF TypeOK, Issue
    <3>6. issued' \in 0 .. MaxTokens
      BY <3>2 DEF Tokens
    <3> QED
      BY <2>2, <3>3, <3>5, <3>6 DEF TypeOK, Issue, tmVars, ownVars
  <2> QED
    BY <1>4, <2>1, <2>2 DEF Gateway
<1>5. CASE UNCHANGED vars
  BY <1>5 DEF TypeOK, vars, gwVars, tmVars, ownVars
<1> QED
  BY <1>1, <1>2, <1>3, <1>4, <1>5 DEF Next

\* In every behaviour every variable keeps its type.
THEOREM TypeCorrect == Spec => []TypeOK
BY TypeInit, TypeStep, PTL DEF Spec

-----------------------------------------------------------------------------
(* The inductive invariant, one lemma per part.                            *)

LEMMA InvInit == Init => IInv
<1> SUFFICES ASSUME Init PROVE IInv
  OBVIOUS
<1>1. TypeOK
  BY TypeInit
<1>2. LockInv
  BY DEF Init, LockInv, NoAuth
<1>3. TokenInv
  BY DEF Init, TokenInv, NoAuth, NoCache, NoToken
<1>4. RenewInv
  BY DEF Init, RenewInv, NoToken
<1>5. ExchangeInv
  BY DEF Init, ExchangeInv
<1> QED
  BY <1>1, <1>2, <1>3, <1>4, <1>5 DEF IInv

\* Only the holder of the lock leaves an exchange, and it frees the lock.
LEMMA LockStep == TypeOK /\ LockInv /\ [Next]_vars => LockInv'
<1> SUFFICES ASSUME TypeOK, LockInv, [Next]_vars
             PROVE  LockInv'
  OBVIOUS
<1> USE DEF TypeOK, LockInv, NoAuth, Asking
<1>1. CASE Tick
  BY <1>1 DEF Tick, tmVars, ownVars
<1>2. ASSUME NEW t \in Tasks, Caller(t)
      PROVE  LockInv'
  <2>1. CASE GetToken(t)
    BY <2>1 DEF GetToken, tmVars
  <2>2. CASE RefreshAfterExpiry(t)
    BY <2>2 DEF RefreshAfterExpiry, tmVars
  <2>3. CASE Finish(t)
    BY <2>3 DEF Finish, tmVars, Failed
  <2>4. CASE Cancel(t)
    BY <2>4 DEF Cancel, Release
  <2> QED
    BY <1>2, <2>1, <2>2, <2>3, <2>4 DEF Caller
<1>3. ASSUME NEW t \in Tasks, Manager(t)
      PROVE  LockInv'
  <2>1. CASE ReadCached(t)
    BY <2>1 DEF ReadCached, tmVars
  <2>2. CASE ReadMiss(t)
    BY <2>2 DEF ReadMiss, tmVars
  <2>3. CASE Reuse(t)
    BY <2>3 DEF Reuse, tmVars
  <2>4. CASE StartAuth(t)
    BY <2>4 DEF StartAuth, NewAuth, LockFree
  <2>5. CASE Stored(t)
    BY <2>5 DEF Stored, Return, Release
  <2>6. CASE Refused(t)
    BY <2>6 DEF Refused, Return, Release
  <2>7. CASE Garbled(t)
    BY <2>7 DEF Garbled, Return, Release
  <2>8. CASE Transport(t)
    BY <2>8 DEF Transport, Return, Release
  <2> QED
    BY <1>3, <2>1, <2>2, <2>3, <2>4, <2>5, <2>6, <2>7, <2>8
       DEF Manager, ExchangeEnds
<1>4. ASSUME NEW t \in Tasks, Gateway(t)
      PROVE  LockInv'
  <2>1. CASE Refuse(t)
    BY <2>1 DEF Refuse, tmVars, ownVars
  <2>2. ASSUME NEW life \in Lifetimes, Issue(t, life)
        PROVE  LockInv'
    BY <2>2 DEF Issue, tmVars, ownVars
  <2> QED
    BY <1>4, <2>1, <2>2 DEF Gateway
<1>5. CASE UNCHANGED vars
  BY <1>5 DEF vars, tmVars, ownVars
<1> QED
  BY <1>1, <1>2, <1>3, <1>4, <1>5 DEF Next

\* A token is stored by the only exchange there is, so no older one follows.
LEMMA TokenInvStep ==
  TypeOK /\ LockInv /\ TokenInv /\ [Next]_vars => TokenInv'
<1> SUFFICES ASSUME TypeOK, LockInv, TokenInv, [Next]_vars
             PROVE  TokenInv'
  OBVIOUS
<1> USE DEF TypeOK, TokenInv, NoToken, NoAuth, NoCache, Asking
<1>1. CASE Tick
  BY <1>1 DEF Tick, gwVars, tmVars, ownVars
<1>2. ASSUME NEW t \in Tasks, Caller(t)
      PROVE  TokenInv'
  <2>1. CASE GetToken(t)
    BY <2>1 DEF GetToken, gwVars, tmVars
  <2>2. CASE RefreshAfterExpiry(t)
    BY <2>2 DEF RefreshAfterExpiry, gwVars, tmVars
  <2>3. CASE Finish(t)
    BY <2>3 DEF Finish, gwVars, tmVars
  <2>4. CASE Cancel(t)
    BY <2>4 DEF Cancel, gwVars
  <2> QED
    BY <1>2, <2>1, <2>2, <2>3, <2>4 DEF Caller
<1>3. ASSUME NEW t \in Tasks, Manager(t)
      PROVE  TokenInv'
  <2>1. CASE ReadCached(t)
    BY <2>1 DEF ReadCached, gwVars, tmVars, Fresh
  <2>2. CASE ReadMiss(t)
    BY <2>2 DEF ReadMiss, gwVars, tmVars
  <2>3. CASE Reuse(t)
    BY <2>3 DEF Reuse, Reusable, gwVars, tmVars
  <2>4. CASE StartAuth(t)
    BY <2>4 DEF StartAuth, NewAuth, gwVars
  <2>5. CASE Stored(t)
    <3>1. \A u \in Tasks : u # t => auth[u].phase = "none"
      BY <2>5 DEF Stored, LockInv
    <3>2. /\ auth[t].phase = "issued" /\ auth[t].tok \in Nat
          /\ newest' = auth[t].tok /\ cache'.tok = auth[t].tok
          /\ held' = [held EXCEPT ![t] = auth[t].tok]
          /\ auth' = [auth EXCEPT ![t] = NoAuth] /\ UNCHANGED issued
      BY <2>5, ExchangeFields DEF Stored, Return, gwVars
    <3>3. newest < newest' /\ newest' <= issued
      BY <3>2
    <3>4. \A u \in Tasks : held'[u] <= newest'
      BY <3>2, <3>3
    <3> QED
      BY <3>1, <3>2, <3>3, <3>4
  <2>6. CASE Refused(t)
    BY <2>6 DEF Refused, Return, gwVars
  <2>7. CASE Garbled(t)
    BY <2>7 DEF Garbled, Return, gwVars
  <2>8. CASE Transport(t)
    BY <2>8 DEF Transport, Return, gwVars
  <2> QED
    BY <1>3, <2>1, <2>2, <2>3, <2>4, <2>5, <2>6, <2>7, <2>8
       DEF Manager, ExchangeEnds
<1>4. ASSUME NEW t \in Tasks, Gateway(t)
      PROVE  TokenInv'
  <2>1. CASE Refuse(t)
    BY <2>1 DEF Refuse, gwVars, tmVars, ownVars
  <2>2. ASSUME NEW life \in Lifetimes, Issue(t, life)
        PROVE  TokenInv'
    <3>1. /\ issued' = issued + 1 /\ issued \in Nat
          /\ auth'[t].tok = issued + 1
          /\ \A u \in Tasks : u # t => auth'[u] = auth[u]
          /\ UNCHANGED <<cache, newest, held>>
      BY <2>2 DEF Issue, tmVars, ownVars
    <3>2. ASSUME NEW u \in Tasks, auth'[u].phase = "issued"
          PROVE  newest' < auth'[u].tok /\ auth'[u].tok <= issued'
      <4>1. CASE u = t
        BY <3>1, <4>1
      <4>2. CASE u # t
        BY <3>1, <3>2, <4>2, ExchangeFields
      <4> QED
        BY <4>1, <4>2
    <3> QED
      BY <3>1, <3>2
  <2> QED
    BY <1>4, <2>1, <2>2 DEF Gateway
<1>5. CASE UNCHANGED vars
  BY <1>5 DEF vars, gwVars, tmVars, ownVars
<1> QED
  BY <1>1, <1>2, <1>3, <1>4, <1>5 DEF Next

\* A task is answered with a token it did not come with: the lock holder with a
\* new one, the others with the cached one if it differs from theirs.
LEMMA RenewStep ==
  TypeOK /\ LockInv /\ TokenInv /\ RenewInv /\ [Next]_vars => RenewInv'
<1> SUFFICES ASSUME TypeOK, LockInv, TokenInv, RenewInv, [Next]_vars
             PROVE  RenewInv'
  OBVIOUS
<1> USE DEF TypeOK, TokenInv, RenewInv, NoToken, Asking, Failed
<1>1. CASE Tick
  BY <1>1 DEF Tick, tmVars, ownVars
<1>2. ASSUME NEW t \in Tasks, Caller(t)
      PROVE  RenewInv'
  <2>1. CASE GetToken(t)
    BY <2>1 DEF GetToken, tmVars
  <2>2. CASE RefreshAfterExpiry(t)
    BY <2>2 DEF RefreshAfterExpiry, tmVars
  <2>3. CASE Finish(t)
    BY <2>3 DEF Finish, tmVars
  <2>4. CASE Cancel(t)
    BY <2>4 DEF Cancel
  <2> QED
    BY <1>2, <2>1, <2>2, <2>3, <2>4 DEF Caller
<1>3. ASSUME NEW t \in Tasks, Manager(t)
      PROVE  RenewInv'
  <2>1. CASE ReadCached(t)
    BY <2>1 DEF ReadCached, Fresh
  <2>2. CASE ReadMiss(t)
    BY <2>2 DEF ReadMiss
  <2>3. CASE Reuse(t)
    BY <2>3 DEF Reuse, Reusable, Fresh
  <2>4. CASE StartAuth(t)
    BY <2>4 DEF StartAuth
  <2>5. CASE Stored(t)
    BY <2>5, ExchangeFields DEF Stored, Return
  <2>6. CASE Refused(t)
    BY <2>6 DEF Refused, Return
  <2>7. CASE Garbled(t)
    BY <2>7 DEF Garbled, Return
  <2>8. CASE Transport(t)
    BY <2>8 DEF Transport, Return
  <2> QED
    BY <1>3, <2>1, <2>2, <2>3, <2>4, <2>5, <2>6, <2>7, <2>8
       DEF Manager, ExchangeEnds
<1>4. ASSUME NEW t \in Tasks, Gateway(t)
      PROVE  RenewInv'
  <2>1. CASE Refuse(t)
    BY <2>1 DEF Refuse, tmVars, ownVars
  <2>2. ASSUME NEW life \in Lifetimes, Issue(t, life)
        PROVE  RenewInv'
    BY <2>2 DEF Issue, tmVars, ownVars
  <2> QED
    BY <1>4, <2>1, <2>2 DEF Gateway
<1>5. CASE UNCHANGED vars
  BY <1>5 DEF vars, tmVars, ownVars
<1> QED
  BY <1>1, <1>2, <1>3, <1>4, <1>5 DEF Next

\* The cache does not change under an exchange, and no token gets fresh again.
LEMMA ExchangeStep ==
  TypeOK /\ LockInv /\ ExchangeInv /\ [Next]_vars => ExchangeInv'
<1> SUFFICES ASSUME TypeOK, LockInv, ExchangeInv, [Next]_vars
             PROVE  ExchangeInv'
  OBVIOUS
<1> USE DEF TypeOK, LockInv, ExchangeInv, Fresh, Asking
<1>1. CASE Tick
  BY <1>1 DEF Tick, tmVars, ownVars
<1>2. ASSUME NEW t \in Tasks, Caller(t)
      PROVE  ExchangeInv'
  <2>1. CASE GetToken(t)
    BY <2>1 DEF GetToken, tmVars
  <2>2. CASE RefreshAfterExpiry(t)
    BY <2>2 DEF RefreshAfterExpiry, tmVars
  <2>3. CASE Finish(t)
    BY <2>3 DEF Finish, tmVars
  <2>4. CASE Cancel(t)
    BY <2>4 DEF Cancel
  <2> QED
    BY <1>2, <2>1, <2>2, <2>3, <2>4 DEF Caller
<1>3. ASSUME NEW t \in Tasks, Manager(t)
      PROVE  ExchangeInv'
  <2>1. CASE ReadCached(t)
    BY <2>1 DEF ReadCached, tmVars
  <2>2. CASE ReadMiss(t)
    BY <2>2 DEF ReadMiss, tmVars
  <2>3. CASE Reuse(t)
    BY <2>3 DEF Reuse, tmVars
  <2>4. CASE StartAuth(t)
    BY <2>4 DEF StartAuth, Reusable, NoToken
  <2>5. CASE Stored(t)
    BY <2>5 DEF Stored, Return
  <2>6. CASE Refused(t)
    BY <2>6 DEF Refused, Return
  <2>7. CASE Garbled(t)
    BY <2>7 DEF Garbled, Return
  <2>8. CASE Transport(t)
    BY <2>8 DEF Transport, Return
  <2> QED
    BY <1>3, <2>1, <2>2, <2>3, <2>4, <2>5, <2>6, <2>7, <2>8
       DEF Manager, ExchangeEnds
<1>4. ASSUME NEW t \in Tasks, Gateway(t)
      PROVE  ExchangeInv'
  <2>1. CASE Refuse(t)
    BY <2>1 DEF Refuse, tmVars, ownVars
  <2>2. ASSUME NEW life \in Lifetimes, Issue(t, life)
        PROVE  ExchangeInv'
    BY <2>2 DEF Issue, tmVars, ownVars
  <2> QED
    BY <1>4, <2>1, <2>2 DEF Gateway
<1>5. CASE UNCHANGED vars
  BY <1>5 DEF vars, tmVars, ownVars
<1> QED
  BY <1>1, <1>2, <1>3, <1>4, <1>5 DEF Next

\* Together, the parts are inductive.
LEMMA InvStep == IInv /\ [Next]_vars => IInv'
BY TypeStep, LockStep, TokenInvStep, RenewStep, ExchangeStep DEF IInv

LEMMA Invariance == Spec => []IInv
BY InvInit, InvStep, PTL DEF Spec

-----------------------------------------------------------------------------
(* The safety properties.                                                  *)

\* A renewal always yields a newer token.
THEOREM RenewalIsNewer == Spec => []RetryIsNewer
<1>1. IInv => RetryIsNewer
  BY DEF IInv, RenewInv, RetryIsNewer
<1> QED
  BY <1>1, Invariance, PTL

\* The cache never falls back behind a token that was cached or handed out.
THEOREM CacheIsNewest == Spec => []NewestCached
<1>1. IInv => NewestCached
  BY DEF IInv, TokenInv, NewestCached
<1> QED
  BY <1>1, Invariance, PTL

\* A fresh token is given up only for a task whose request was refused with it.
THEOREM FreshTokenIsKept == Spec => NoNeedlessRefresh
<1>1. IInv /\ [Next]_vars => [Needed]_vars
  <2> SUFFICES ASSUME IInv, Next, cache' # cache, Fresh
               PROVE  \E t \in Tasks : stale[t] = cache.tok
    BY DEF Needed
  <2>1. PICK t \in Tasks : Stored(t) \/ Refused(t)
    BY DEF Next, Tick, Caller, GetToken, RefreshAfterExpiry, Finish, Cancel,
           Manager, ReadCached, ReadMiss, Reuse, StartAuth, ExchangeEnds,
           Garbled, Transport, Gateway, Refuse, Issue, tmVars
  <2>2. pc[t] = "auth"
    BY <2>1 DEF Stored, Refused
  <2> QED
    BY <2>2 DEF IInv, ExchangeInv
<1> QED
  BY <1>1, Invariance, PTL DEF Spec, NoNeedlessRefresh

-----------------------------------------------------------------------------
(* Expiry, for a client whose timeout is within the refresh buffer.        *)

LEMMA ExpiryInit == Init => ExpiryInv
BY DEF Init, ExpiryInv, Fresh, NoAuth, NoCache, NoToken

\* The time an exchange takes eats into the buffer and no further.
LEMMA ExpiryStep ==
  Timeout <= Buffer /\ TypeOK /\ LockInv /\ TokenInv /\ ExpiryInv /\ [Next]_vars => ExpiryInv'
<1> SUFFICES ASSUME Timeout <= Buffer, TypeOK, LockInv, TokenInv, ExpiryInv, [Next]_vars
             PROVE  ExpiryInv'
  OBVIOUS
<1> USE DEF TypeOK, ExpiryInv, Fresh, Tokens, NoToken, NoAuth, Asking
<1>1. CASE Tick
  BY <1>1, ExchangeFields DEF Tick, gwVars, tmVars, ownVars
<1>2. ASSUME NEW t \in Tasks, Caller(t)
      PROVE  ExpiryInv'
  <2>1. CASE GetToken(t)
    BY <2>1 DEF GetToken, gwVars, tmVars
  <2>2. CASE RefreshAfterExpiry(t)
    BY <2>2 DEF RefreshAfterExpiry, gwVars, tmVars
  <2>3. CASE Finish(t)
    BY <2>3 DEF Finish, gwVars, tmVars
  <2>4. CASE Cancel(t)
    BY <2>4 DEF Cancel, gwVars
  <2> QED
    BY <1>2, <2>1, <2>2, <2>3, <2>4 DEF Caller
<1>3. ASSUME NEW t \in Tasks, Manager(t)
      PROVE  ExpiryInv'
  <2>1. CASE ReadCached(t)
    BY <2>1 DEF ReadCached, gwVars, tmVars
  <2>2. CASE ReadMiss(t)
    BY <2>2 DEF ReadMiss, gwVars, tmVars
  <2>3. CASE Reuse(t)
    BY <2>3 DEF Reuse, gwVars, tmVars
  <2>4. CASE StartAuth(t)
    <3>1. auth' = [auth EXCEPT ![t] = NewAuth]
      BY <2>4 DEF StartAuth
    <3>2. /\ auth'[t].at = clock /\ auth'[t].phase = "sent"
          /\ \A u \in Tasks : u # t => auth'[u] = auth[u]
      BY <3>1 DEF NewAuth
    <3>3. clock <= clock + Timeout
      OBVIOUS
    <3>4. UNCHANGED <<clock, gwExpiry, cache>>
      BY <2>4 DEF StartAuth, gwVars
    <3>5. ASSUME NEW u \in Tasks, auth'[u].phase # "none"
          PROVE  auth'[u].at <= clock /\ clock <= auth'[u].at + Timeout
      <4>1. CASE u = t
        BY <3>2, <3>3, <4>1
      <4>2. CASE u # t
        <5>1. auth'[u] = auth[u]
          BY <3>2, <4>2
        <5> QED
          BY <3>5, <5>1
      <4> QED
        BY <4>1, <4>2
    <3>6. ASSUME NEW u \in Tasks, auth'[u].phase = "issued"
          PROVE  auth'[u].at + auth'[u].life <= gwExpiry[auth'[u].tok]
      BY <3>2, <3>6
    <3> QED
      BY <3>4, <3>5, <3>6
  <2>5. CASE Stored(t)
    <3>1. /\ auth[t].phase = "issued"
          /\ auth[t].at \in Nat /\ auth[t].life \in Nat
      BY <2>5, ExchangeFields DEF Stored
    <3>2. clock <= auth[t].at + Timeout
      BY <3>1
    <3>3. \/ LocalExpiry(auth[t].life) <= clock
          \/ LocalExpiry(auth[t].life) <= auth[t].at + auth[t].life
      BY <3>1, <3>2 DEF LocalExpiry
    <3>4. /\ auth[t].at + auth[t].life <= gwExpiry[auth[t].tok]
          /\ gwExpiry[auth[t].tok] \in Nat
      <4>1. newest < auth[t].tok /\ auth[t].tok \in 0 .. MaxTokens
        BY <3>1, ExchangeFields DEF TokenInv
      <4>2. auth[t].tok \in Tokens
        BY <4>1
      <4> QED
        BY <3>1, <4>2
    <3>5. LocalExpiry(auth[t].life) \in Nat
      BY <3>1, LocalExpiryIsInstant
    <3>6. Fresh' => cache'.until <= gwExpiry'[cache'.tok]
      BY <2>5, <3>1, <3>3, <3>4, <3>5 DEF Stored, Return, gwVars
    <3>7. UNCHANGED <<clock, gwExpiry>> /\ auth' = [auth EXCEPT ![t] = NoAuth]
      BY <2>5 DEF Stored, Return, gwVars
    <3> QED
      BY <3>6, <3>7
  <2>6. CASE Refused(t)
    BY <2>6 DEF Refused, Return, NoCache, gwVars
  <2>7. CASE Garbled(t)
    BY <2>7 DEF Garbled, Return, gwVars
  <2>8. CASE Transport(t)
    BY <2>8 DEF Transport, Return, gwVars
  <2> QED
    BY <1>3, <2>1, <2>2, <2>3, <2>4, <2>5, <2>6, <2>7, <2>8
       DEF Manager, ExchangeEnds
<1>4. ASSUME NEW t \in Tasks, Gateway(t)
      PROVE  ExpiryInv'
  <2>1. CASE Refuse(t)
    <3>1. auth' = [auth EXCEPT ![t].phase = "refused"] /\ auth[t].phase = "sent"
      BY <2>1 DEF Refuse
    <3>2. /\ auth'[t].at = auth[t].at /\ auth'[t].phase = "refused"
          /\ \A u \in Tasks : u # t => auth'[u] = auth[u]
      BY <3>1, ExchangeFields DEF Exchanges
    <3>3. UNCHANGED <<clock, gwExpiry, cache>>
      BY <2>1 DEF Refuse, gwVars, tmVars
    <3>4. ASSUME NEW u \in Tasks, auth'[u].phase # "none"
          PROVE  auth'[u].at <= clock /\ clock <= auth'[u].at + Timeout
      <4>1. auth[u].phase # "none" /\ auth'[u].at = auth[u].at
        BY <3>1, <3>2, <3>4
      <4> QED
        BY <4>1
    <3>5. ASSUME NEW u \in Tasks, auth'[u].phase = "issued"
          PROVE  auth'[u].at + auth'[u].life <= gwExpiry[auth'[u].tok]
      <4>1. u # t
        BY <3>2, <3>5
      <4>2. auth'[u] = auth[u]
        BY <3>2, <4>1
      <4> QED
        BY <3>5, <4>2
    <3> QED
      BY <3>3, <3>4, <3>5
  <2>2. ASSUME NEW life \in Lifetimes, Issue(t, life)
        PROVE  ExpiryInv'
    <3>1. issued' = issued + 1 /\ issued + 1 \in Tokens
      BY <2>2 DEF Issue
    <3>2. gwExpiry' = [gwExpiry EXCEPT ![issued + 1] = clock + life]
      BY <2>2 DEF Issue
    <3>3. Fresh => gwExpiry'[cache.tok] = gwExpiry[cache.tok]
      BY <3>1, <3>2 DEF TokenInv
    <3>4. ASSUME NEW u \in Tasks, auth[u].phase = "issued"
          PROVE  gwExpiry'[auth[u].tok] = gwExpiry[auth[u].tok]
      <4>1. auth[u].tok \in 0 .. MaxTokens
        BY ExchangeFields
      <4>2. newest < auth[u].tok /\ auth[u].tok <= issued
        BY <3>4 DEF TokenInv
      <4> QED
        BY <3>2, <4>1, <4>2
    <3>5. auth'[t] = [phase |-> "issued", tok |-> issued + 1,
                      life |-> life, at |-> auth[t].at]
      BY <2>2 DEF Issue
    <3>6. auth[t].at <= clock /\ auth[t].at \in Nat /\ life \in Nat
      BY <2>2, ExchangeFields DEF Issue
    <3>7. auth'[t].at + auth'[t].life <= gwExpiry'[auth'[t].tok]
      BY <3>1, <3>2, <3>5, <3>6
    <3>8. \A u \in Tasks : u # t => auth'[u] = auth[u]
      BY <2>2 DEF Issue
    <3>9. UNCHANGED <<clock, cache>> /\ auth[t].phase = "sent"
      BY <2>2 DEF Issue, tmVars
    <3> QED
      <4>1. ASSUME NEW u \in Tasks, auth'[u].phase # "none"
            PROVE  auth'[u].at <= clock /\ clock <= auth'[u].at + Timeout
        <5>1. CASE u = t
          <6>1. auth'[u].at = auth[u].at
            BY <3>5, <5>1
          <6> QED
            BY <3>9, <5>1, <6>1
        <5>2. CASE u # t
          <6>1. auth'[u] = auth[u]
            BY <3>8, <5>2
          <6> QED
            BY <4>1, <6>1
        <5> QED
          BY <5>1, <5>2
      <4>2. ASSUME NEW u \in Tasks, auth'[u].phase = "issued"
            PROVE  auth'[u].at + auth'[u].life <= gwExpiry'[auth'[u].tok]
        BY <3>4, <3>7, <3>8, <4>2
      <4> QED
        BY <3>3, <3>9, <4>1, <4>2
  <2> QED
    BY <1>4, <2>1, <2>2 DEF Gateway
<1>5. CASE UNCHANGED vars
  BY <1>5 DEF vars, gwVars, tmVars, ownVars
<1> QED
  BY <1>1, <1>2, <1>3, <1>4, <1>5 DEF Next

\* A token that the manager hands out is still valid at the gateway.
THEOREM FreshTokenIsValid ==
  ASSUME Timeout <= Buffer
  PROVE  Spec => []FreshIsValid
<1>1. IInv /\ ExpiryInv => FreshIsValid
  BY DEF IInv, TypeOK, TokenInv, ExpiryInv, FreshIsValid, Fresh, Tokens, NoToken
<1>2. IInv /\ ExpiryInv /\ [Next]_vars => ExpiryInv'
  BY ExpiryStep DEF IInv
<1>3. Spec => []ExpiryInv
  BY <1>2, ExpiryInit, Invariance, PTL DEF Spec
<1> QED
  BY <1>1, <1>3, Invariance, PTL

-----------------------------------------------------------------------------
(* The token manager implements the abstract token source.                 *)

LEMMA StageOf == /\ Stage("idle") = "idle" /\ Stage("ok") = "done"
                 /\ \A at \in Asking : Stage(at) = "asking"
                 /\ \A at \in Failed : Stage(at) = "failed"
BY DEF Stage, Asking, Failed

LEMMA StageNotIdle == \A at \in {"ok"} \cup Failed \cup Asking : Stage(at) # "idle"
BY DEF Stage, Asking, Failed

LEMMA SourceInit == Init => Source!Init
BY StageOf DEF Init, Source!Init, NoToken

LEMMA SourceStep == IInv /\ [Next]_vars => [Source!Next]_(Source!vars)
<1> SUFFICES ASSUME IInv, [Next]_vars
             PROVE  [Source!Next]_(Source!vars)
  OBVIOUS
<1> DEFINE Stages == [t \in Tasks |-> Stage(pc[t])]
<1>0. TypeOK /\ {"peek", "lock", "auth"} \subseteq Asking
  BY DEF IInv, Asking
<1>1. ASSUME UNCHANGED <<pc, held, newest>>
      PROVE  UNCHANGED Source!vars
  BY <1>1 DEF Source!vars
<1>2. ASSUME NEW t \in Tasks, NEW at, pc' = [pc EXCEPT ![t] = at]
      PROVE  Stages' = [Stages EXCEPT ![t] = Stage(at)]
  BY <1>0, <1>2 DEF TypeOK
<1>3. ASSUME NEW t \in Tasks, Caller(t)
      PROVE  Source!Next
  <2>1. CASE GetToken(t)
    <3>1. Stages[t] = "idle" /\ Stages' = [Stages EXCEPT ![t] = "asking"]
      BY <2>1, <1>2, <1>0, StageOf DEF GetToken
    <3>2. Source!Ask(t)
      <4>1. UNCHANGED <<newest, held>>
        BY <2>1 DEF GetToken, tmVars
      <4> QED
        BY <3>1, <4>1 DEF Source!Ask
    <3> QED
      BY <3>2 DEF Source!Next
  <2>2. CASE RefreshAfterExpiry(t)
    <3>1. Stages[t] = "done" /\ Stages' = [Stages EXCEPT ![t] = "asking"]
      <4>1. pc[t] = "ok" /\ pc' = [pc EXCEPT ![t] = "lock"]
        BY <2>2 DEF RefreshAfterExpiry
      <4> QED
        BY <4>1, <1>0, <1>2, StageOf
    <3>2. Source!Ask(t)
      <4>1. UNCHANGED <<newest, held>>
        BY <2>2 DEF RefreshAfterExpiry, tmVars
      <4> QED
        BY <3>1, <4>1 DEF Source!Ask
    <3> QED
      BY <3>2 DEF Source!Next
  <2>3. CASE Finish(t)
    <3>1. Stages[t] # "idle" /\ Stages' = [Stages EXCEPT ![t] = "idle"]
      BY <2>3, <1>2, StageOf, StageNotIdle DEF Finish
    <3>2. Source!Leave(t)
      <4>1. held' = [held EXCEPT ![t] = 0] /\ UNCHANGED newest
        BY <2>3 DEF Finish, tmVars, NoToken
      <4> QED
        BY <3>1, <4>1 DEF Source!Leave
    <3> QED
      BY <3>2 DEF Source!Next
  <2>4. CASE Cancel(t)
    <3>1. Stages[t] # "idle" /\ Stages' = [Stages EXCEPT ![t] = "idle"]
      BY <2>4, <1>2, StageOf, StageNotIdle DEF Cancel
    <3>2. Source!Leave(t)
      <4>1. held' = [held EXCEPT ![t] = 0] /\ UNCHANGED newest
        BY <2>4 DEF Cancel, tmVars, NoToken
      <4> QED
        BY <3>1, <4>1 DEF Source!Leave
    <3> QED
      BY <3>2 DEF Source!Next
  <2> QED
    BY <1>3, <2>1, <2>2, <2>3, <2>4 DEF Caller
<1>4. ASSUME NEW t \in Tasks, Manager(t)
      PROVE  [Source!Next]_(Source!vars)
  <2>1. CASE ReadCached(t) \/ Reuse(t)
    <3>1. pc[t] \in Asking /\ cache.tok # NoToken
      BY <2>1 DEF ReadCached, Reuse, Reusable, Fresh, Asking
    <3>2. /\ newest = cache.tok
          /\ newest \in Nat /\ held[t] \in Nat /\ held[t] <= newest
          /\ held[t] = stale[t]
      BY <3>1 DEF IInv, TypeOK, TokenInv, RenewInv
    <3>3. stale[t] = NoToken \/ stale[t] # cache.tok
      BY <2>1 DEF ReadCached, Reuse, Reusable, IInv, RenewInv
    <3>4. newest > held[t]
      BY <3>1, <3>2, <3>3 DEF NoToken
    <3>5. /\ Stages[t] = "asking" /\ Stages' = [Stages EXCEPT ![t] = "done"]
          /\ held' = [held EXCEPT ![t] = newest] /\ UNCHANGED newest
      BY <2>1, <3>1, <3>2, <1>2, StageOf DEF ReadCached, Reuse, tmVars
    <3>6. Source!Share(t)
      BY <3>4, <3>5 DEF Source!Share
    <3> QED
      BY <3>6 DEF Source!Next, Source!Answer
  <2>2. CASE ReadMiss(t)
    <3>1. Stages' = Stages
      BY <2>2, <1>2, <1>0, StageOf DEF ReadMiss
    <3> QED
      BY <2>2, <3>1 DEF ReadMiss, tmVars, Source!vars
  <2>3. CASE StartAuth(t)
    <3>1. Stages' = Stages
      BY <2>3, <1>2, <1>0, StageOf DEF StartAuth
    <3> QED
      BY <2>3, <3>1 DEF StartAuth, Source!vars
  <2>4. CASE Stored(t)
    <3>1. auth[t].tok \in (newest + 1) .. MaxTokens
      BY <2>4, ExchangeFields DEF Stored, IInv, TypeOK, TokenInv
    <3>2. /\ Stages[t] = "asking" /\ Stages' = [Stages EXCEPT ![t] = "done"]
          /\ held' = [held EXCEPT ![t] = auth[t].tok] /\ newest' = auth[t].tok
      <4>1. pc[t] = "auth" /\ pc' = [pc EXCEPT ![t] = "ok"]
        BY <2>4 DEF Stored, Return
      <4>2. Stages[t] = "asking" /\ Stages' = [Stages EXCEPT ![t] = "done"]
        BY <4>1, <1>0, <1>2, StageOf
      <4> QED
        BY <2>4, <4>2 DEF Stored
    <3>3. Source!Mint(t)
      BY <3>1, <3>2 DEF Source!Mint
    <3> QED
      BY <3>3 DEF Source!Next, Source!Answer
  <2>5. CASE Refused(t) \/ Garbled(t) \/ Transport(t)
    <3>1. Source!Fail(t)
      BY <2>5, <1>2, StageOf
         DEF Refused, Garbled, Transport, Return, Source!Fail, Asking, Failed
    <3> QED
      BY <3>1 DEF Source!Next, Source!Answer
  <2> QED
    BY <1>4, <2>1, <2>2, <2>3, <2>4, <2>5 DEF Manager, ExchangeEnds
<1>5. ASSUME NEW t \in Tasks, Gateway(t)
      PROVE  UNCHANGED Source!vars
  BY <1>5, <1>1 DEF Gateway, Refuse, Issue, tmVars, ownVars
<1>6. CASE Tick \/ UNCHANGED vars
  BY <1>6, <1>1 DEF Tick, vars, tmVars, ownVars
<1> QED
  BY <1>3, <1>4, <1>5, <1>6 DEF Next

\* Every behaviour of the token manager is one of the abstract token source;
\* its liveness is left to the model checker.
THEOREM ImplementsSafely == Spec => Source!SafeSpec
BY SourceInit, SourceStep, Invariance, PTL DEF Spec, Source!SafeSpec
-----------------------------------------------------------------------------
(* The queue of the lock.                                                  *)

\* The queue holds each of the tasks that wait once.
Waiting == {t \in Tasks : pc[t] \in {"peek", "lock"}}

Distinct(q) == \A i, j \in 1 .. Len(q) : q[i] = q[j] => i = j

Holds(q, S) == q \in Seq(Tasks) /\ Distinct(q) /\ ToSet(q) = S

QueueInv == Holds(queue, Waiting)

LEMMA Elements == ASSUME NEW q \in Seq(Tasks)
                  PROVE  /\ Len(q) \in Nat
                         /\ ToSet(q) = {q[i] : i \in 1 .. Len(q)}
                         /\ \A i \in 1 .. Len(q) : q[i] \in Tasks
BY LenProperties, ElementOfSeq DEF ToSet

\* A sequence that repeats nothing is as long as its set is large.
LEMMA LengthOfOnce == ASSUME NEW q \in Seq(Tasks), Distinct(q)
                      PROVE  Len(q) = Cardinality(ToSet(q))
<1> DEFINE n == Len(q)
<1>1. n \in Nat /\ q \in [1 .. n -> ToSet(q)]
  BY Elements, LenProperties
<1>2. q \in Bijection(1 .. n, ToSet(q))
  BY <1>1, Elements DEF Distinct, Bijection, Injection, Surjection, IsInjective
<1> QED
  BY <1>1, <1>2, FS_CountingElements DEF ExistsBijection

\* A task that joins is behind all the others.
LEMMA JoinStep == ASSUME NEW q, NEW S, Holds(q, S), NEW t \in Tasks, t \notin S
                  PROVE  Holds(Joined(q, t), S \cup {t})
<1> DEFINE p == Append(q, t)
<1>1. q \in Seq(Tasks) /\ Distinct(q) /\ ToSet(q) = S
  BY DEF Holds
<1>2. /\ p \in Seq(Tasks) /\ Len(p) = Len(q) + 1 /\ Len(q) \in Nat
      /\ \A i \in 1 .. Len(q) : p[i] = q[i]
      /\ p[Len(q) + 1] = t
  BY <1>1, AppendProperties, LenProperties
<1> HIDE DEF p
<1>3. \A i \in 1 .. Len(q) : p[i] # t
  BY <1>1, <1>2, Elements
<1>4. Distinct(p)
  BY <1>1, <1>2, <1>3 DEF Distinct
<1>5. ToSet(p) = S \cup {t}
  <2>1. ToSet(p) = {p[i] : i \in 1 .. Len(q) + 1} /\ S = {q[i] : i \in 1 .. Len(q)}
    BY <1>1, <1>2, Elements
  <2>2. 1 .. Len(q) + 1 = 1 .. Len(q) \cup {Len(q) + 1}
    BY <1>2
  <2> QED
    BY <1>2, <2>1, <2>2
<1> QED
  BY <1>2, <1>4, <1>5 DEF Holds, Joined, p

\* A task that leaves, or is dropped, takes its only place with it.
LEMMA LeaveStep == ASSUME NEW q, NEW S, Holds(q, S), NEW t \in Tasks
                   PROVE  Holds(Left(q, t), S \ {t})
<1>1. q \in Seq(Tasks) /\ Distinct(q) /\ ToSet(q) = S
  BY DEF Holds
<1>2. Len(q) \in Nat /\ S = {q[i] : i \in 1 .. Len(q)} /\ \A i \in 1 .. Len(q) : q[i] \in Tasks
  BY <1>1, Elements
<1>3. CASE ~Contains(q, t)
  BY <1>1, <1>2, <1>3 DEF Left, Contains, Holds
<1>4. CASE Contains(q, t)
  <2> DEFINE k == CHOOSE i \in 1 .. Len(q) : q[i] = t
             a == SubSeq(q, 1, k - 1)
             b == SubSeq(q, k + 1, Len(q))
             p == a \o b
  <2>1. k \in 1 .. Len(q) /\ q[k] = t
    BY <1>4 DEF Contains
  <2> HIDE DEF k
  <2>2. /\ a \in Seq(Tasks) /\ Len(a) = k - 1
        /\ \A i \in 1 .. k - 1 : a[i] = q[i]
    <3>1. \A i \in 1 .. k - 1 : q[i] \in Tasks
      BY <1>2, <2>1
    <3>2. 1 \in Int /\ k - 1 \in Int
      BY <1>2, <2>1
    <3> QED
      BY <1>2, <2>1, <3>1, <3>2, SubSeqProperties
  <2>3. /\ b \in Seq(Tasks) /\ Len(b) = Len(q) - k
        /\ \A i \in 1 .. Len(q) - k : b[i] = q[k + i]
    <3>1. \A i \in k + 1 .. Len(q) : q[i] \in Tasks
      BY <1>2, <2>1
    <3>2. k + 1 \in Int /\ Len(q) \in Int
      BY <1>2, <2>1
    <3> QED
      BY <1>2, <2>1, <3>1, <3>2, SubSeqProperties
  <2> HIDE DEF a, b
  <2>4. /\ p \in Seq(Tasks) /\ Len(p) = Len(q) - 1
        /\ \A i \in 1 .. Len(q) - 1 : p[i] = IF i < k THEN q[i] ELSE q[i + 1]
    BY <1>2, <2>1, <2>2, <2>3, ConcatProperties
  <2> HIDE DEF p
  <2>5. Distinct(p)
    BY <1>1, <1>2, <2>1, <2>4 DEF Distinct
  <2>6. ToSet(p) = S \ {t}
    <3>1. ToSet(p) = {p[i] : i \in 1 .. Len(q) - 1}
      BY <2>4, Elements
    <3>2. \A i \in 1 .. Len(q) - 1 : p[i] \in S \ {t}
      BY <1>1, <1>2, <2>1, <2>4 DEF Distinct
    <3>3. \A i \in 1 .. Len(q) : i # k => \E j \in 1 .. Len(q) - 1 : p[j] = q[i]
      <4> SUFFICES ASSUME NEW i \in 1 .. Len(q), i # k PROVE \E j \in 1 .. Len(q) - 1 : p[j] = q[i]
        OBVIOUS
      <4>1. CASE i < k
        BY <1>2, <2>1, <2>4, <4>1
      <4>2. CASE i > k
        <5>1. i - 1 \in 1 .. Len(q) - 1 /\ ~(i - 1 < k) /\ (i - 1) + 1 = i
          BY <1>2, <2>1, <4>2
        <5> QED
          BY <2>4, <5>1
      <4> QED
        BY <1>2, <2>1, <4>1, <4>2
    <3>4. \A x \in S \ {t} : \E i \in 1 .. Len(q) : i # k /\ x = q[i]
      BY <1>2, <2>1
    <3>5. \A x \in S \ {t} : \E j \in 1 .. Len(q) - 1 : x = p[j]
      BY <3>3, <3>4
    <3> QED
      BY <3>1, <3>2, <3>5
  <2> QED
    BY <1>4, <2>4, <2>5, <2>6 DEF Holds, Left, RemoveAt, p, a, b, k
<1> QED
  BY <1>3, <1>4

\* Every step with the queue is a step of the token manager.
LEMMA QueuedStep == [QueuedNext]_queuedVars => [Next]_vars
BY DEF QueuedNext, queuedVars, Next, Ask, Admitted, Enter, EnterAndAskAgain, GiveUp, Elsewhere,
       Caller, Manager

\* The theorems about TokenManager hold with a queue.
THEOREM QueueKeepsTokenManager == QueuedSpec => Spec
BY QueuedStep, PTL DEF QueuedSpec, QueuedInit, Spec

LEMMA QueueInit == QueuedInit => QueueInv
<1> SUFFICES ASSUME QueuedInit PROVE QueueInv
  OBVIOUS
<1>1. queue = <<>> /\ Waiting = {}
  BY DEF QueuedInit, Init, Waiting
<1>2. <<>> \in Seq(Tasks) /\ Len(<<>>) = 0
  BY EmptySeq
<1>3. ToSet(<<>>) = {}
  <2> DEFINE e == <<>>
  <2>1. e \in Seq(Tasks) /\ Len(e) = 0
    BY <1>2
  <2> HIDE DEF e
  <2>2. ToSet(e) = {e[i] : i \in 1 .. 0}
    BY <2>1, Elements
  <2>3. ToSet(e) = {}
    BY <2>2
  <2> QED
    BY <2>3 DEF e
<1> QED
  BY <1>1, <1>2, <1>3 DEF QueueInv, Holds, Distinct

LEMMA QueueStep ==
  ASSUME TypeOK, QueueInv, [QueuedNext]_queuedVars
  PROVE  QueueInv'
<1>1. ASSUME NEW t \in Tasks, Ask(t)
      PROVE  QueueInv'
  <2>1. t \notin Waiting /\ Waiting' = Waiting \cup {t}
    BY <1>1 DEF Ask, GetToken, RefreshAfterExpiry, Waiting, TypeOK
  <2> QED
    BY <1>1, <2>1, JoinStep DEF QueueInv, Ask
<1>2. ASSUME NEW t \in Tasks, Enter(t)
      PROVE  QueueInv'
  <2>1. Waiting' = Waiting \ {t}
    BY <1>2 DEF Enter, ReadCached, Reuse, StartAuth, Waiting, TypeOK
  <2> QED
    BY <1>2, <2>1, LeaveStep DEF QueueInv, Enter
<1>3. ASSUME NEW t \in Tasks, EnterAndAskAgain(t)
      PROVE  QueueInv'
  <2>1. Waiting' = (Waiting \ {t}) \cup {t}
    BY <1>3 DEF EnterAndAskAgain, ReadMiss, Waiting, TypeOK
  <2>2. Holds(Left(queue, t), Waiting \ {t})
    BY LeaveStep DEF QueueInv
  <2>3. Holds(Joined(Left(queue, t), t), (Waiting \ {t}) \cup {t})
    BY <2>2, JoinStep
  <2> QED
    BY <1>3, <2>1, <2>3 DEF QueueInv, EnterAndAskAgain
<1>4. ASSUME NEW t \in Tasks, GiveUp(t)
      PROVE  QueueInv'
  <2>1. Waiting' = Waiting \ {t}
    BY <1>4 DEF GiveUp, Cancel, Waiting, TypeOK
  <2> QED
    BY <1>4, <2>1, LeaveStep DEF QueueInv, GiveUp
<1>5. ASSUME NEW t \in Tasks, Elsewhere(t)
      PROVE  QueueInv'
  <2>1. Waiting' = Waiting
    <3>1. CASE Finish(t)
      BY <3>1 DEF Finish, Failed, Waiting, TypeOK
    <3>2. CASE ExchangeEnds(t)
      BY <3>2 DEF ExchangeEnds, Stored, Refused, Garbled, Transport, Return, Waiting, TypeOK
    <3>3. CASE Gateway(t)
      BY <3>3 DEF Gateway, Refuse, Issue, ownVars, Waiting
    <3> QED
      BY <1>5, <3>1, <3>2, <3>3 DEF Elsewhere
  <2> QED
    BY <1>5, <2>1 DEF QueueInv, Holds, Distinct, Elsewhere
<1>6. CASE (Tick /\ UNCHANGED queue) \/ UNCHANGED queuedVars
  <2>1. Waiting' = Waiting /\ queue' = queue
    BY <1>6 DEF Tick, queuedVars, vars, ownVars, Waiting
  <2> QED
    BY <2>1 DEF QueueInv, Holds, Distinct
<1> QED
  BY <1>1, <1>2, <1>3, <1>4, <1>5, <1>6 DEF QueuedNext, Admitted

\* Whatever futures are dropped, a task that waits has one place in the queue,
\* and nobody else has any.
THEOREM QueueHoldsWaiters == QueuedSpec => []QueueIsWaiters
<1>1. QueuedSpec => []TypeOK
  BY QueueKeepsTokenManager, TypeCorrect
<1>2. QueueInv => QueueIsWaiters
  BY LengthOfOnce DEF QueueInv, Holds, Waiting, QueueIsWaiters
<1> QED
  BY <1>1, <1>2, QueueInit, QueueStep, PTL DEF QueuedSpec
=============================================================================
