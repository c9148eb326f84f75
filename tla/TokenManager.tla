---------------------------- MODULE TokenManager ----------------------------
(***************************************************************************)
(* The token manager of the SDK (src/src/token.rs): one cached bearer      *)
(* token behind a tokio RwLock, shared by every request task of a client.  *)
(*                                                                         *)
(* A task reads the cache under the read lock; when there is no token, or  *)
(* its time is up, it takes the write lock, looks again, and holds the     *)
(* lock across the whole exchange POST /api/v1/auth/token.  A task whose   *)
(* request was answered 401 token_expired goes to the write lock directly, *)
(* with the token that was refused.                                        *)
(*                                                                         *)
(* Steps end where the code awaits.  The cache is read and the read lock   *)
(* given back within one poll of the task, so readers hold no lock between *)
(* two steps and the lock is described by its writer alone.  A future may  *)
(* be dropped wherever it awaits.                                          *)
(*                                                                         *)
(* The gateway's side of the exchange is external: it answers some time    *)
(* after the request was sent, or never.  Tokens are numbered in the order *)
(* of issue, so two tokens are equal as strings when they are equal as     *)
(* numbers; 0 is no token (None).                                          *)
(***************************************************************************)
EXTENDS Integers

CONSTANTS Tasks,      \* tasks that share the client
          NoTask,     \* the lock has no writer
          Lifetimes,  \* values of expires_in the gateway may report
          Buffer,     \* REFRESH_BUFFER_SECS
          Timeout,    \* Config::timeout, which bounds every exchange
          MaxTokens,  \* bound on the number of tokens issued
          MaxClock    \* bound on the clock

ASSUME NoTaskAssumption    == NoTask \notin Tasks
ASSUME LifetimesAssumption == Lifetimes \subseteq Nat
ASSUME ClockAssumption     == /\ Buffer \in Nat
                              /\ Timeout \in Nat
                              /\ MaxClock \in Nat
ASSUME TokensAssumption    == MaxTokens \in Nat

VARIABLES
  clock,     \* tokio::time::Instant::now()
  issued,    \* gateway: number of tokens issued
  gwExpiry,  \* gateway: when each token expires
  cache,     \* TokenManager::state
  writer,    \* holder of the write lock
  pc,        \* pc[t] : where t's call into the manager stands
  held,      \* held[t] : the token the manager last returned to t's request
  stale,     \* stale[t] : the argument of refresh, 0 for None
  auth,      \* auth[t] : t's exchange with the gateway
  newest     \* history: the newest token that was ever cached

gwVars  == <<issued, gwExpiry>>
tmVars  == <<cache, writer, newest>>
ownVars == <<pc, held, stale>>
vars    == <<clock, gwVars, tmVars, ownVars, auth>>

-----------------------------------------------------------------------------
Tokens  == 1 .. MaxTokens
NoToken == 0
Asking  == {"peek", "lock", "auth"}
Failed  == {"http", "api", "decode"}   \* the variants of Error refresh returns

\* A task's exchange with the gateway: the token issued in it and its lifetime,
\* and when it began.
Exchanges == [phase : {"none", "sent", "issued", "refused"},
              tok : 0 .. MaxTokens, life : Nat, at : Nat]

NoCache == [tok |-> NoToken, until |-> 0]
NoAuth  == [phase |-> "none", tok |-> NoToken, life |-> 0, at |-> 0]
NewAuth == [phase |-> "sent", tok |-> NoToken, life |-> 0, at |-> clock]

Init == /\ clock = 0
        /\ issued = 0
        /\ gwExpiry = [k \in Tokens |-> 0]
        /\ cache = NoCache
        /\ writer = NoTask
        /\ pc = [t \in Tasks |-> "idle"]
        /\ held = [t \in Tasks |-> NoToken]
        /\ stale = [t \in Tasks |-> NoToken]
        /\ auth = [t \in Tasks |-> NoAuth]
        /\ newest = NoToken

-----------------------------------------------------------------------------
\* Instant::now() < s.expires_at, for Some(s)
Fresh == cache.tok # NoToken /\ clock < cache.until

\* Mutant: the write guard does not outlive the double check.
LockFree_Always == TRUE

LockFree == writer = NoTask

\* Mutants: the double check forgets what the caller came with; there is none.
Reusable_IgnoresStale(t) == Fresh
Reusable_Never(t) == FALSE

\* The double check under the write lock: the token that t may return without
\* an exchange of its own.
Reusable(t) == /\ cache.tok # NoToken
               /\ \/ stale[t] = NoToken /\ Fresh
                  \/ stale[t] # NoToken /\ stale[t] # cache.tok

\* Mutants: no .max(0); no buffer.
LocalExpiry_NoFloor(life)  == clock + life - Buffer
LocalExpiry_NoBuffer(life) == clock + life

\* The local expiry of a token whose reply arrives now.
LocalExpiry(life) == clock + (IF life > Buffer THEN life - Buffer ELSE 0)

\* Mutant: the lock is left taken.
Release_Never(t) == writer

\* The write guard is dropped when refresh returns or its future is dropped.
Release(t) == IF writer = t THEN NoTask ELSE writer

-----------------------------------------------------------------------------
(* The calls into the manager.                                             *)

GetToken(t) ==
  /\ pc[t] = "idle"
  /\ pc' = [pc EXCEPT ![t] = "peek"]
  /\ UNCHANGED <<clock, gwVars, tmVars, held, stale, auth>>

\* t's request was answered 401 token_expired for the token it holds.
RefreshAfterExpiry(t) ==
  /\ pc[t] = "ok"
  /\ pc' = [pc EXCEPT ![t] = "lock"]
  /\ stale' = [stale EXCEPT ![t] = held[t]]
  /\ UNCHANGED <<clock, gwVars, tmVars, held, auth>>

\* The request that needed the token is over.
Finish(t) ==
  /\ pc[t] \in {"ok"} \cup Failed
  /\ pc' = [pc EXCEPT ![t] = "idle"]
  /\ held' = [held EXCEPT ![t] = NoToken]
  /\ stale' = [stale EXCEPT ![t] = NoToken]
  /\ UNCHANGED <<clock, gwVars, tmVars, auth>>

\* The caller drops the future where it awaits a lock or the exchange.
Cancel(t) ==
  /\ pc[t] \in Asking
  /\ pc' = [pc EXCEPT ![t] = "idle"]
  /\ held' = [held EXCEPT ![t] = NoToken]
  /\ stale' = [stale EXCEPT ![t] = NoToken]
  /\ auth' = [auth EXCEPT ![t] = NoAuth]
  /\ writer' = Release(t)
  /\ UNCHANGED <<clock, gwVars, cache, newest>>

-----------------------------------------------------------------------------
(* get_token under the read lock.                                          *)

ReadCached(t) ==
  /\ pc[t] = "peek" /\ LockFree
  /\ Fresh
  /\ held' = [held EXCEPT ![t] = cache.tok]
  /\ pc' = [pc EXCEPT ![t] = "ok"]
  /\ UNCHANGED <<clock, gwVars, tmVars, stale, auth>>

\* Nothing usable is cached: refresh(None).
ReadMiss(t) ==
  /\ pc[t] = "peek" /\ LockFree
  /\ ~Fresh
  /\ pc' = [pc EXCEPT ![t] = "lock"]
  /\ UNCHANGED <<clock, gwVars, tmVars, held, stale, auth>>

-----------------------------------------------------------------------------
(* refresh(stale) under the write lock.                                    *)

\* Another task has done the work: return its token, fresh or not if the
\* caller came with a stale one.
Reuse(t) ==
  /\ pc[t] = "lock" /\ LockFree
  /\ Reusable(t)
  /\ held' = [held EXCEPT ![t] = cache.tok]
  /\ pc' = [pc EXCEPT ![t] = "ok"]
  /\ UNCHANGED <<clock, gwVars, tmVars, stale, auth>>

\* The request to the gateway is sent and awaited with the lock held.
StartAuth(t) ==
  /\ pc[t] = "lock" /\ LockFree
  /\ ~Reusable(t)
  /\ writer' = t
  /\ auth' = [auth EXCEPT ![t] = NewAuth]
  /\ pc' = [pc EXCEPT ![t] = "auth"]
  /\ UNCHANGED <<clock, gwVars, cache, newest, held, stale>>

\* The exchange is over and refresh returns: its guard is dropped.
Return(t, result) ==
  /\ pc' = [pc EXCEPT ![t] = result]
  /\ auth' = [auth EXCEPT ![t] = NoAuth]
  /\ writer' = Release(t)
  /\ UNCHANGED <<clock, gwVars, stale>>

\* The token arrives and is stored.
Stored(t) ==
  /\ pc[t] = "auth" /\ auth[t].phase = "issued"
  /\ cache' = [tok |-> auth[t].tok, until |-> LocalExpiry(auth[t].life)]
  /\ newest' = auth[t].tok
  /\ held' = [held EXCEPT ![t] = auth[t].tok]
  /\ Return(t, "ok")

\* The gateway refuses: the cached token is dropped, readable body or not.
Refused(t) ==
  /\ pc[t] = "auth" /\ auth[t].phase = "refused"
  /\ cache' = NoCache
  /\ Return(t, "api")
  /\ UNCHANGED <<held, newest>>

\* A success reply that is not a TokenResponse: the state is left alone.
Garbled(t) ==
  /\ pc[t] = "auth" /\ auth[t].phase \in {"sent", "issued"}
  /\ Return(t, "decode")
  /\ UNCHANGED <<cache, held, newest>>

\* No reply, half a reply, or none before Timeout: the state is left alone.
Transport(t) ==
  /\ pc[t] = "auth"
  /\ Return(t, "http")
  /\ UNCHANGED <<cache, held, newest>>

ExchangeEnds(t) == Stored(t) \/ Refused(t) \/ Garbled(t) \/ Transport(t)

-----------------------------------------------------------------------------
(* The gateway and the clock.                                              *)

\* The gateway issues a token.  Its lifetime runs from here, not from the
\* arrival of the reply.
Issue(t, life) ==
  /\ auth[t].phase = "sent" /\ issued < MaxTokens
  /\ issued' = issued + 1
  /\ gwExpiry' = [gwExpiry EXCEPT ![issued + 1] = clock + life]
  /\ auth' = [auth EXCEPT ![t] = [phase |-> "issued", tok |-> issued + 1,
                                  life |-> life, at |-> @.at]]
  /\ UNCHANGED <<clock, tmVars, ownVars>>

Refuse(t) ==
  /\ auth[t].phase = "sent"
  /\ auth' = [auth EXCEPT ![t].phase = "refused"]
  /\ UNCHANGED <<clock, gwVars, tmVars, ownVars>>

\* Time passes.  No exchange outlives the client's timeout.
Tick ==
  /\ clock < MaxClock
  /\ \A t \in Tasks : auth[t].phase # "none" => clock < auth[t].at + Timeout
  /\ clock' = clock + 1
  /\ UNCHANGED <<gwVars, tmVars, ownVars, auth>>

-----------------------------------------------------------------------------
\* A task's own progress inside the manager.
Manager(t) == \/ ReadCached(t) \/ ReadMiss(t)
              \/ Reuse(t) \/ StartAuth(t)
              \/ ExchangeEnds(t)

Gateway(t) == Refuse(t) \/ \E life \in Lifetimes : Issue(t, life)

Caller(t) == GetToken(t) \/ RefreshAfterExpiry(t) \/ Finish(t) \/ Cancel(t)

Next == Tick \/ \E t \in Tasks : Caller(t) \/ Manager(t) \/ Gateway(t)

(***************************************************************************)
(* Fairness.  tokio's RwLock serves its waiters in the order in which they *)
(* came: nobody waits forever for a lock that is free again and again      *)
(* (QueuedTokenManager).  The timeout of the HTTP client ends every        *)
(* exchange.  Nothing is assumed of the gateway or of the callers.         *)
(***************************************************************************)
NoStarvation(t) ==
  \A at \in {"peek", "lock"} : <>[](pc[t] = at) => <>[]~LockFree

Fairness == \A t \in Tasks : NoStarvation(t) /\ WF_vars(ExchangeEnds(t))

Spec     == Init /\ [][Next]_vars
FairSpec == Spec /\ Fairness

-----------------------------------------------------------------------------
(* Properties.                                                             *)

\* Every variable keeps its type; in particular a local expiry is an instant,
\* never one before the start of time (token.rs:134).
TypeOK ==
  /\ clock \in Nat
  /\ issued \in 0 .. MaxTokens
  /\ gwExpiry \in [Tokens -> Nat]
  /\ cache \in [tok : 0 .. MaxTokens, until : Nat]
  /\ writer \in Tasks \cup {NoTask}
  /\ pc \in [Tasks -> {"idle", "ok"} \cup Asking \cup Failed]
  /\ held \in [Tasks -> 0 .. MaxTokens]
  /\ stale \in [Tasks -> 0 .. MaxTokens]
  /\ auth \in [Tasks -> Exchanges]
  /\ newest \in 0 .. MaxTokens

\* A task that asks again because the gateway refused its token never gets
\* that token, or an older one, back (token.rs:91-93, 104-105).
RetryIsNewer ==
  \A t \in Tasks : pc[t] = "ok" /\ stale[t] # NoToken => held[t] > stale[t]

\* The cache never goes back to a token older than one it, or any request,
\* has held: late replies cannot overwrite a newer token.
NewestCached ==
  /\ cache.tok # NoToken => cache.tok = newest
  /\ \A t \in Tasks : held[t] <= newest

\* "The SDK refreshes two minutes early": a token the manager still hands out
\* has not expired at the gateway.  Holds when Timeout <= Buffer, since the
\* lifetime is counted from the arrival of the reply (token.rs:134-141).
FreshIsValid == Fresh => clock < gwExpiry[cache.tok]

\* A fresh token is replaced or dropped only on behalf of a task whose request
\* the gateway refused for that very token: tasks that find the cache empty
\* together do not each fetch a token (token.rs:101-108).
Needed == Fresh /\ cache' # cache => \E t \in Tasks : stale[t] = cache.tok

NoNeedlessRefresh == [][Needed]_vars

\* Every call into the manager returns, whatever the gateway does and whoever
\* drops a future while it holds the lock.
Served == \A t \in Tasks : pc[t] \in Asking ~> pc[t] \notin Asking

\* "drops the cached token if it is still the stale one" (token.rs:91-92): a
\* call that came with a stale token does not leave it in the cache.
StaleDropped ==
  \A t \in Tasks : stale[t] # NoToken /\ pc[t] \in Failed => cache.tok # stale[t]

-----------------------------------------------------------------------------
(* The manager implements the abstract token source.                       *)

Stage(at) == CASE at = "idle"     -> "idle"
               [] at = "ok"       -> "done"
               [] at \in Asking   -> "asking"
               [] at \in Failed   -> "failed"

Source == INSTANCE TokenSource WITH st  <- [t \in Tasks |-> Stage(pc[t])],
                                    got <- held

\* Whatever tasks, losses, refusals and timeouts do, tasks see a source that
\* hands out the newest token, a strictly newer one on a renewal, and answers
\* every request.
ImplementsTokenSource == Source!Spec
=============================================================================
