------------------------------- MODULE Webhook -------------------------------
(***************************************************************************)
(* Signed webhooks (src/src/webhook.rs): the message service signs a body  *)
(* together with the time, deliveries are delayed, repeated and mixed up,  *)
(* and the receiver calls verify_payload.                                  *)
(*                                                                         *)
(* Times are pairs of seconds and a fraction, as Duration and SystemTime   *)
(* are.  The two clocks are independent, and the receiver's may be set: a  *)
(* reception may happen at any reading.  HMAC is free of collisions: a     *)
(* digest is the pair of its key and its input.  Decimal numerals and      *)
(* their parsing are the standard library's, and external.                 *)
(***************************************************************************)
EXTENDS MachineInt, Sequences, FiniteSets

CONSTANTS Bytes, Dot,     \* Dot is the byte '.'
          Stamps,         \* texts a timestamp header may hold
          Bodies,         \* request bodies
          Invalid, Parse(_), Decimal(_),
          Secret,         \* the receiver's webhook secret
          Secrets,        \* and those of others
          Spoilt,         \* signature headers that are no signature
          Half,           \* 2^63
          OverflowChecks, \* whether the build has them
          Sub,            \* fractions of a second told apart
          Clock,          \* the seconds a clock may show
          Tolerance,
          MaxSigned, MaxAccepted

Instants == [s : Clock, f : 0 .. Sub - 1]

ASSUME NumbersAssumption ==
  /\ Half \in Nat /\ Sub \in Nat \ {0} /\ OverflowChecks \in BOOLEAN
  /\ Clock \subseteq 0 .. Half - 1
  /\ Tolerance \in [s : Nat, f : 0 .. Sub - 1]
ASSUME BytesAssumption ==
  /\ Dot \in Bytes /\ Stamps \subseteq Seq(Bytes) /\ Bodies \subseteq Seq(Bytes)
  /\ Secret \in Secrets

\* A text that parses as an i64 is a numeral, and has no dot in it; to_string
\* and parse are inverse to each other.
ASSUME ParseAssumption ==
  /\ Invalid \notin Int
  /\ \A t \in Stamps : Parse(t) # Invalid =>
       /\ Parse(t) \in Int /\ InRange(Parse(t), Half)
       /\ \A i \in 1 .. Len(t) : t[i] # Dot
  /\ \A n \in Clock : Decimal(n) \in Stamps /\ Parse(Decimal(n)) = n

-----------------------------------------------------------------------------
(* Signing and verifying.                                                  *)

Version == "v1="

\* Mutant: nothing between the timestamp and the body.
Canonical_NoDot(stamp, body) == stamp \o body

Canonical(stamp, body) == stamp \o <<Dot>> \o body

Digest(key, text) == [key |-> key, text |-> text]

Signature(key, stamp, body) == <<Version, Digest(key, Canonical(stamp, body))>>

\* No signature header is a signature by accident.
ASSUME SpoiltAssumption ==
  \A x \in Spoilt : \A key \in Secrets, stamp \in Stamps, body \in Bodies :
    ~(Len(x) = 2 /\ x[1] = Version /\ x[2] = Digest(key, Canonical(stamp, body)))

\* constant_time_eq
ConstantTimeEq(a, b) == Len(a) = Len(b) /\ \A i \in 1 .. Len(a) : a[i] = b[i]

\* Mutant: only timestamps of the past are too old.
Stale_PastOnly(ts, now) == Wrapped(now.s - ts, Half) > Tolerance.s

\* Mutant: the tolerance is exclusive.
Stale_Exclusive(ts, now) == UnsignedAbs(Wrapped(now.s - ts, Half)) >= Tolerance.s

\* now - ts in i64, and as_secs() of the tolerance.
Stale(ts, now) == UnsignedAbs(Wrapped(now.s - ts, Half)) > Tolerance.s

Overflows(ts, now) == ~InRange(now.s - ts, Half)

Checked == Tolerance.s # 0 \/ Tolerance.f # 0    \* !tolerance.is_zero()

\* verify_payload
Verdict(m, now) ==
  IF Parse(m.stamp) = Invalid THEN "InvalidTimestamp"
  ELSE IF Checked /\ OverflowChecks /\ Overflows(Parse(m.stamp), now) THEN "panic"
  ELSE IF Checked /\ Stale(Parse(m.stamp), now) THEN "TimestampExpired"
  ELSE IF ~ConstantTimeEq(Signature(Secret, m.stamp, m.body), m.sig) THEN "SignatureMismatch"
  ELSE "Ok"

-----------------------------------------------------------------------------
VARIABLES signed,     \* what was signed, with whose secret and when
          accepted,   \* messages that were accepted, and when
          refused     \* genuine messages that were not accepted, and when

vars == <<signed, accepted, refused>>

\* The headers and the body a signed message is sent with.
Sent(x) == [stamp |-> x.stamp, body |-> x.body, sig |-> Signature(x.key, x.stamp, x.body)]

Genuine == {x \in signed : x.key = Secret}

Init == signed = {} /\ accepted = {} /\ refused = {}

\* sign_payload, at the service's clock.
Sign(key, body, at) ==
  /\ Cardinality(signed) < MaxSigned
  /\ signed' = signed \cup {[key |-> key, stamp |-> Decimal(at.s), body |-> body, at |-> at]}
  /\ UNCHANGED <<accepted, refused>>

\* A delivery arrives: its headers and its body each stem from some message,
\* or from none.  The first refusal of a genuine one is remembered.
Receive(m, now) ==
  /\ Cardinality(accepted) < MaxAccepted
  /\ IF Verdict(m, now) = "Ok"
     THEN /\ accepted' = accepted \cup {[msg |-> m, now |-> now]}
          /\ UNCHANGED refused
     ELSE /\ refused' = IF refused = {}
                        THEN {[of |-> x, now |-> now] : x \in {y \in Genuine : Sent(y) = m}}
                        ELSE refused
          /\ UNCHANGED accepted
  /\ UNCHANGED signed

Signatures == {Sent(x).sig : x \in signed} \cup Spoilt
Messages   == [stamp : Stamps, body : Bodies, sig : Signatures]

Next == \/ \E key \in Secrets, body \in Bodies, at \in Instants : Sign(key, body, at)
        \/ \E m \in Messages, now \in Instants : Receive(m, now)

Spec == Init /\ [][Next]_vars

-----------------------------------------------------------------------------
(* Properties.                                                             *)

\* What is accepted was signed, with the receiver's secret, exactly as it
\* arrived: neither the body nor the timestamp of another message passes, and
\* no other way to cut the canonical text into the two does (webhook.rs:249-254,
\* 262-265).
Bound == \A a \in accepted : \E x \in Genuine : x.stamp = a.msg.stamp /\ x.body = a.msg.body

\* A message can be replayed only within the window: two acceptances of one
\* message lie at most twice the tolerance apart on the receiver's clock
\* (webhook.rs:233-246), wrapping arithmetic included.
ReplayWindow ==
  Checked => \A a, b \in accepted : a.msg = b.msg => b.now.s - a.now.s <= 2 * Tolerance.s

\* a is not later than b + d.
NotAfter(a, b, d) ==
  LET f == b.f + d.f
      s == b.s + d.s + IF f >= Sub THEN 1 ELSE 0
  IN  a.s < s \/ (a.s = s /\ a.f <= IF f >= Sub THEN f - Sub ELSE f)

\* A genuine message is accepted whenever the clocks of the service and the
\* receiver, network delay included, differ by no more than the tolerance,
\* "max allowed time drift" (webhook.rs:220).
DriftTolerated ==
  \A r \in refused :
    ~(NotAfter(r.now, r.of.at, Tolerance) /\ NotAfter(r.of.at, r.now, Tolerance))
=============================================================================
