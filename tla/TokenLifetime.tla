---------------------------- MODULE TokenLifetime ----------------------------
(***************************************************************************)
(* How long a token is kept (src/src/token.rs:132-141), in the arithmetic  *)
(* of the machine: expires_in is any i64 the gateway reports, the refresh  *)
(* buffer is subtracted in i64, the result is floored, cast to u64 and     *)
(* added to an Instant whose seconds are an i64 too.                       *)
(*                                                                         *)
(* One reply after another is handled, at increasing times.  TokenManager  *)
(* has the interleavings of several tasks and computes with numbers as     *)
(* they are in mathematics; here is why it may.                            *)
(***************************************************************************)
EXTENDS MachineInt

CONSTANTS Half,           \* 2^63
          OverflowChecks, \* whether the build has them
          Buffer,         \* REFRESH_BUFFER_SECS
          Reports,        \* the values of expires_in the gateway may report;
                          \* what is no i64 is Error::Decode and changes nothing
          Boot,           \* the monotonic clock when the client is made
          MaxClock        \* bound on the clock

ASSUME LifetimeAssumption ==
  /\ Half \in Nat /\ Buffer \in 1 .. Half - 1 /\ OverflowChecks \in BOOLEAN
  /\ Reports \subseteq -Half .. Half - 1 /\ MaxClock \in 0 .. Half - 1 /\ Boot \in 0 .. MaxClock

VARIABLES uptime,   \* tokio::time::Instant::now(), in seconds
          state,    \* TokenManager::state: the reported lifetime of the token,
                    \* when it arrived and expires_at
          panicked  \* the last reply whose handling panicked, and when

lifetimeVars == <<uptime, state, panicked>>

None == [life |-> 0, at |-> 0, until |-> 0]   \* expires at once, as no token does
NoPanic == [life |-> -Half, at |-> 0]

LifetimeInit == uptime = Boot /\ state = None /\ panicked = NoPanic

-----------------------------------------------------------------------------
Larger(m, n) == IF m < n THEN n ELSE m

\* i64 as u64
AsUnsigned(n) == IF n < 0 THEN n + 2 * Half ELSE n

\* Mutants: no floor; no buffer.
SecondsKept_NoFloor(life)   == AsUnsigned(Wrapped(life - Buffer, Half))
SecondsKept_NoBuffer(life)  == Larger(life, 0)

\* (expires_in - REFRESH_BUFFER_SECS).max(0) as u64
SecondsKept(life) == AsUnsigned(Larger(Wrapped(life - Buffer, Half), 0))

Panics(life) == \/ OverflowChecks /\ ~InRange(life - Buffer, Half)
                \/ uptime + SecondsKept(life) >= Half     \* Instant + Duration

-----------------------------------------------------------------------------
Elapse == uptime < MaxClock /\ uptime' = uptime + 1 /\ UNCHANGED <<state, panicked>>

Store(life) ==
  /\ ~Panics(life)
  /\ state' = [life |-> life, at |-> uptime, until |-> uptime + SecondsKept(life)]
  /\ UNCHANGED <<uptime, panicked>>

\* The panic comes before the assignment; the write guard is dropped as the
\* task unwinds, and a tokio lock is not poisoned.
Panic(life) ==
  /\ Panics(life)
  /\ panicked' = [life |-> life, at |-> uptime]
  /\ UNCHANGED <<uptime, state>>

\* Status 400 and above.
Refused == state' = None /\ UNCHANGED <<uptime, panicked>>

LifetimeNext == \/ Elapse \/ Refused
        \/ \E life \in Reports : Store(life) \/ Panic(life)

LifetimeSpec == LifetimeInit /\ [][LifetimeNext]_lifetimeVars

-----------------------------------------------------------------------------
(* Properties.                                                             *)

\* Once the machine has been up for as long as the buffer, a token is kept for
\* the reported lifetime less the buffer, and not at all if there is none left,
\* whatever the subtraction wraps to (token.rs:134).  It is what
\* TokenManager!LocalExpiry says.
KeptAsReported ==
  state.at >= Buffer =>
    state.until = state.at + IF state.life > Buffer THEN state.life - Buffer ELSE 0

\* No lifetime a gateway has reason to report makes the caller panic: those of
\* zero and more as far as the clock goes, and negative ones as long as the
\* buffer can be subtracted (token.rs:134, 140).
OnlyAbsurdLifetimesPanic ==
  panicked.life < Buffer - Half \/ panicked.at + panicked.life >= Half
=============================================================================
