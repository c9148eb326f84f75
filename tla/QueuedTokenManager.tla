------------------------- MODULE QueuedTokenManager -------------------------
(***************************************************************************)
(* The token manager with the queue of its RwLock.  tokio::sync::RwLock is *)
(* external: who asks for the lock joins a queue, readers (`get_token`,    *)
(* src/src/token.rs:81) and writers (`refresh`, token.rs:99) alike; the    *)
(* lock goes to the first in the queue, readers in a row together; a       *)
(* future dropped while it waits leaves the queue.                         *)
(*                                                                         *)
(* TokenManager has no queue, and assumes that nobody waits forever for a  *)
(* lock that is free again and again.                                      *)
(* Here it is shown that the queue provides it, from no more than that     *)
(* tasks are polled after they were woken: weak fairness.                  *)
(***************************************************************************)
EXTENDS TokenManager, SequencesExt

VARIABLE queue   \* tasks that wait for the lock

queuedVars == <<vars, queue>>

-----------------------------------------------------------------------------
Joined(q, t) == Append(q, t)

\* Mutant: a dropped future keeps its place.
Left_Never(q, t) == q

Left(q, t) == IF Contains(q, t) THEN RemoveAt(q, CHOOSE i \in 1 .. Len(q) : q[i] = t) ELSE q

\* Mutant: the lock goes to anyone in the queue.
Turn_Any(t) == Contains(queue, t)

\* The lock, when it is free, is t's: all before it are readers, and so is t,
\* or there is none before it.
Turn(t) == \E i \in 1 .. Len(queue) :
             /\ queue[i] = t
             /\ i = 1 \/ \A j \in 1 .. i : pc[queue[j]] = "peek"

QueuedInit == Init /\ queue = <<>>

\* read().await and, with a stale token, write().await.
Ask(t) == (GetToken(t) \/ RefreshAfterExpiry(t)) /\ queue' = Joined(queue, t)

Enter(t) == Turn(t) /\ (ReadCached(t) \/ Reuse(t) \/ StartAuth(t)) /\ queue' = Left(queue, t)

\* The read guard is dropped before write().await, which starts at the end of
\* the queue.
EnterAndAskAgain(t) == Turn(t) /\ ReadMiss(t) /\ queue' = Joined(Left(queue, t), t)

GiveUp(t) == Cancel(t) /\ queue' = Left(queue, t)

Elsewhere(t) == (Finish(t) \/ ExchangeEnds(t) \/ Gateway(t)) /\ UNCHANGED queue

Admitted(t) == Enter(t) \/ EnterAndAskAgain(t)

QueuedNext == \/ Tick /\ UNCHANGED queue
              \/ \E t \in Tasks : Ask(t) \/ Admitted(t) \/ GiveUp(t) \/ Elsewhere(t)

QueuedSpec == QueuedInit /\ [][QueuedNext]_queuedVars
              /\ \A t \in Tasks : WF_queuedVars(Admitted(t)) /\ WF_vars(ExchangeEnds(t))

-----------------------------------------------------------------------------
(* Properties.                                                             *)

\* The queue holds the tasks that wait, each once; a task that sends the
\* exchange, has its answer or was dropped has no place in it (token.rs:81, 99).
QueueIsWaiters ==
  /\ ToSet(queue) = {t \in Tasks : pc[t] \in {"peek", "lock"}}
  /\ Len(queue) = Cardinality(ToSet(queue))

\* A lock with this queue is as fair as TokenManager takes it to be, so every
\* task is served, whatever futures are dropped while they wait or while they
\* hold the lock (token.rs:98-99).
ImplementsFairLock == FairSpec
=============================================================================
