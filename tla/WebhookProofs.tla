---------------------------- MODULE WebhookProofs ----------------------------
(***************************************************************************)
(* What verify_payload guarantees for every set of timestamps, bodies and  *)
(* secrets, every width of the integers and every tolerance.               *)
(*                                                                         *)
(* The binding of timestamp and body rests on the canonical text being cut *)
(* in one way only, since a timestamp that parses has no dot in it.        *)
(***************************************************************************)
EXTENDS Webhook, SequenceTheorems, TLAPS

-----------------------------------------------------------------------------
(* The canonical text.                                                     *)

\* Where things are in the canonical text.
LEMMA CanonicalText ==
  ASSUME NEW t \in Seq(Bytes), NEW b \in Seq(Bytes)
  PROVE  /\ Len(t) \in Nat /\ Len(b) \in Nat
         /\ Canonical(t, b) \in Seq(Bytes)
         /\ Len(Canonical(t, b)) = Len(t) + 1 + Len(b)
         /\ \A i \in 1 .. Len(t) : Canonical(t, b)[i] = t[i]
         /\ Canonical(t, b)[Len(t) + 1] = Dot
         /\ \A i \in 1 .. Len(b) : Canonical(t, b)[Len(t) + 1 + i] = b[i]
<1> DEFINE d == <<Dot>>
           h == t \o d
<1>1. d \in Seq(Bytes) /\ Len(d) = 1 /\ d[1] = Dot
  BY BytesAssumption
<1> HIDE DEF d
<1>2. Len(t) \in Nat /\ Len(b) \in Nat
  BY LenProperties
<1>3. /\ h \in Seq(Bytes) /\ Len(h) = Len(t) + 1
      /\ \A i \in 1 .. Len(t) + 1 : h[i] = IF i <= Len(t) THEN t[i] ELSE d[i - Len(t)]
  <2>1. Len(t) + Len(d) = Len(t) + 1
    BY <1>1
  <2> QED
    BY <1>1, <2>1, ConcatProperties
<1>4. (\A i \in 1 .. Len(t) : h[i] = t[i]) /\ h[Len(t) + 1] = Dot
  <2>1. ~(Len(t) + 1 <= Len(t)) /\ Len(t) + 1 - Len(t) = 1 /\ Len(t) + 1 \in 1 .. Len(t) + 1
    BY <1>2
  <2> QED
    BY <1>1, <1>2, <1>3, <2>1
<1> HIDE DEF h
<1>5. /\ h \o b \in Seq(Bytes) /\ Len(h \o b) = Len(t) + 1 + Len(b)
      /\ \A i \in 1 .. Len(t) + 1 + Len(b) : (h \o b)[i] = IF i <= Len(t) + 1 THEN h[i] ELSE b[i - (Len(t) + 1)]
  <2>1. Len(h) + Len(b) = Len(t) + 1 + Len(b)
    BY <1>3
  <2>2. /\ h \o b \in Seq(Bytes) /\ Len(h \o b) = Len(h) + Len(b)
        /\ \A i \in 1 .. Len(h) + Len(b) : (h \o b)[i] = IF i <= Len(h) THEN h[i] ELSE b[i - Len(h)]
    BY <1>3, ConcatProperties
  <2>3. Len(h) = Len(t) + 1
    BY <1>3
  <2> QED
    BY <2>1, <2>2, <2>3
<1>6. ASSUME NEW i \in 1 .. Len(b) PROVE (h \o b)[Len(t) + 1 + i] = b[i]
  <2>1. /\ Len(t) + 1 + i \in 1 .. Len(t) + 1 + Len(b)
        /\ ~(Len(t) + 1 + i <= Len(t) + 1) /\ Len(t) + 1 + i - (Len(t) + 1) = i
    BY <1>2
  <2> QED
    BY <1>5, <2>1
<1>7. (\A i \in 1 .. Len(t) : (h \o b)[i] = t[i]) /\ (h \o b)[Len(t) + 1] = Dot
  <2>1. \A i \in 1 .. Len(t) + 1 : i \in 1 .. Len(t) + 1 + Len(b) /\ i <= Len(t) + 1
    BY <1>2
  <2>2. \A i \in 1 .. Len(t) + 1 : (h \o b)[i] = h[i]
    BY <1>5, <2>1
  <2>3. Len(t) + 1 \in 1 .. Len(t) + 1 /\ \A i \in 1 .. Len(t) : i \in 1 .. Len(t) + 1
    BY <1>2
  <2> QED
    BY <1>4, <2>2, <2>3
<1>8. Canonical(t, b) = h \o b
  BY DEF Canonical, h, d
<1> QED
  BY <1>2, <1>5, <1>6, <1>7, <1>8

DotFree(t) == \A i \in 1 .. Len(t) : t[i] # Dot

\* The first dot is where the timestamp ends.
LEMMA NotLonger ==
  ASSUME NEW t \in Seq(Bytes), NEW b \in Seq(Bytes), NEW u \in Seq(Bytes), NEW c \in Seq(Bytes),
         DotFree(u), Canonical(t, b) = Canonical(u, c)
  PROVE  Len(u) <= Len(t)
<1> DEFINE s == Canonical(t, b)
<1>1. Len(t) \in Nat /\ s[Len(t) + 1] = Dot
  BY CanonicalText
<1>2. Len(u) \in Nat /\ \A i \in 1 .. Len(u) : s[i] = u[i]
  <2>1. /\ Len(u) \in Nat
        /\ \A i \in 1 .. Len(u) : Canonical(u, c)[i] = u[i]
    BY CanonicalText
  <2>2. s = Canonical(u, c)
    OBVIOUS
  <2> HIDE DEF s
  <2> QED
    BY <2>1, <2>2
<1> HIDE DEF s
<1> SUFFICES ASSUME Len(t) < Len(u) PROVE FALSE
  BY <1>1, <1>2
<1>3. Len(t) + 1 \in 1 .. Len(u)
  BY <1>1, <1>2
<1> QED
  BY <1>1, <1>2, <1>3 DEF DotFree

\* The canonical text tells its timestamp and its body.
LEMMA CutInOneWay ==
  ASSUME NEW t \in Seq(Bytes), NEW b \in Seq(Bytes), NEW u \in Seq(Bytes), NEW c \in Seq(Bytes),
         DotFree(t), DotFree(u), Canonical(t, b) = Canonical(u, c)
  PROVE  t = u /\ b = c
<1> DEFINE s == Canonical(t, b)
<1>1. /\ Len(t) \in Nat /\ Len(b) \in Nat /\ Len(s) = Len(t) + 1 + Len(b)
      /\ \A i \in 1 .. Len(t) : s[i] = t[i]
      /\ \A i \in 1 .. Len(b) : s[Len(t) + 1 + i] = b[i]
  BY CanonicalText
<1>2. /\ Len(u) \in Nat /\ Len(c) \in Nat /\ Len(s) = Len(u) + 1 + Len(c)
      /\ \A i \in 1 .. Len(u) : s[i] = u[i]
      /\ \A i \in 1 .. Len(c) : s[Len(u) + 1 + i] = c[i]
  <2>1. /\ Len(u) \in Nat /\ Len(c) \in Nat
        /\ Len(Canonical(u, c)) = Len(u) + 1 + Len(c)
        /\ \A i \in 1 .. Len(u) : Canonical(u, c)[i] = u[i]
        /\ \A i \in 1 .. Len(c) : Canonical(u, c)[Len(u) + 1 + i] = c[i]
    BY CanonicalText
  <2>2. s = Canonical(u, c)
    OBVIOUS
  <2> HIDE DEF s
  <2> QED
    BY <2>1, <2>2
<1>3. Len(t) = Len(u)
  <2>1. Len(u) <= Len(t)
    BY NotLonger
  <2>2. Len(t) <= Len(u)
    BY NotLonger
  <2> QED
    BY <1>1, <1>2, <2>1, <2>2
<1> HIDE DEF s
<1>4. t = u
  BY <1>1, <1>2, <1>3, SeqEqual
<1>5. Len(b) = Len(c)
  BY <1>1, <1>2, <1>3
<1>6. \A i \in 1 .. Len(b) : b[i] = c[i]
  BY <1>1, <1>2, <1>3, <1>5
<1>7. b = c
  BY <1>5, <1>6, SeqEqual
<1> QED
  BY <1>4, <1>7

\* Comparing two signatures is comparing what was signed.
LEMMA EqualSignatures ==
  ASSUME NEW k, NEW t, NEW b, NEW l, NEW u, NEW c,
         ConstantTimeEq(Signature(k, t, b), Signature(l, u, c))
  PROVE  k = l /\ Canonical(t, b) = Canonical(u, c)
<1>1. Signature(k, t, b)[2] = Signature(l, u, c)[2]
  <2>1. Len(Signature(k, t, b)) = 2
    BY DEF Signature
  <2> QED
    BY <2>1 DEF ConstantTimeEq
<1>2. Digest(k, Canonical(t, b)) = Digest(l, Canonical(u, c))
  BY <1>1 DEF Signature
<1> QED
  BY <1>2 DEF Digest

LEMMA SameSignature ==
  ASSUME NEW k, NEW t, NEW b
  PROVE  ConstantTimeEq(Signature(k, t, b), Signature(k, t, b))
BY DEF ConstantTimeEq

-----------------------------------------------------------------------------
(* Times.                                                                  *)

LEMMA InstantFacts == ASSUME NEW at \in Instants
                      PROVE  /\ at.s \in Clock /\ at.s \in Nat /\ at.s < Half
                             /\ at.f \in 0 .. Sub - 1
<1>1. at.s \in Clock /\ at.f \in 0 .. Sub - 1
  BY DEF Instants
<1>2. at.s \in 0 .. Half - 1 /\ Half \in Nat
  BY <1>1, NumbersAssumption
<1> QED
  BY <1>1, <1>2

LEMMA Numbers == Half \in Nat /\ Sub \in Nat /\ Tolerance.s \in Nat /\ Tolerance.f \in 0 .. Sub - 1
BY NumbersAssumption

LEMMA SignedStamp == ASSUME NEW at \in Instants
                     PROVE  Decimal(at.s) \in Stamps /\ Parse(Decimal(at.s)) = at.s /\ at.s # Invalid
<1>1. at.s \in Clock /\ at.s \in Int
  BY InstantFacts
<1> QED
  BY <1>1, ParseAssumption

-----------------------------------------------------------------------------
(* The invariant: every verdict kept is the one verify_payload gave.       *)

SignedInv == \A x \in signed : /\ x.key \in Secrets /\ x.at \in Instants
                               /\ x.stamp = Decimal(x.at.s) /\ x.body \in Bodies

AcceptedInv == \A a \in accepted : /\ a.msg.stamp \in Stamps /\ a.now \in Instants
                                   /\ Verdict(a.msg, a.now) = "Ok"

RefusedInv == \A r \in refused : /\ r.of.key = Secret /\ r.of.at \in Instants
                                 /\ r.of.stamp = Decimal(r.of.at.s)
                                 /\ r.now \in Instants
                                 /\ Verdict(Sent(r.of), r.now) # "Ok"

IInv == SignedInv /\ AcceptedInv /\ RefusedInv /\ Bound

LEMMA SignStep ==
  ASSUME IInv, NEW key \in Secrets, NEW body \in Bodies, NEW at \in Instants, Sign(key, body, at)
  PROVE  IInv'
<1>1. signed \subseteq signed' /\ accepted' = accepted /\ refused' = refused
  BY DEF Sign
<1>2. SignedInv'
  BY DEF IInv, SignedInv, Sign
<1>3. AcceptedInv'
  BY <1>1 DEF IInv, AcceptedInv
<1>4. RefusedInv'
  BY <1>1 DEF IInv, RefusedInv
<1>5. Bound'
  BY <1>1 DEF IInv, Bound, Genuine
<1> QED
  BY <1>2, <1>3, <1>4, <1>5 DEF IInv

\* An accepted message carries the signature of a genuine one, which is then
\* the very message.
LEMMA AcceptedIsSigned ==
  ASSUME SignedInv, NEW m \in Messages, NEW now, Verdict(m, now) = "Ok"
  PROVE  \E x \in Genuine : x.stamp = m.stamp /\ x.body = m.body
<1>1. Parse(m.stamp) # Invalid /\ ConstantTimeEq(Signature(Secret, m.stamp, m.body), m.sig)
  BY DEF Verdict
<1>2. m.stamp \in Stamps /\ m.body \in Bodies /\ m.sig \in Signatures
  BY DEF Messages
<1>3. m.sig \notin Spoilt
  <2> SUFFICES ASSUME m.sig \in Spoilt PROVE FALSE
    OBVIOUS
  <2>1. Len(m.sig) = 2 /\ Version = m.sig[1] /\ Digest(Secret, Canonical(m.stamp, m.body)) = m.sig[2]
    BY <1>1 DEF ConstantTimeEq, Signature
  <2> QED
    BY <1>2, <2>1, SpoiltAssumption, BytesAssumption
<1>4. PICK x \in signed : m.sig = Signature(x.key, x.stamp, x.body)
  BY <1>2, <1>3 DEF Signatures, Sent
<1>5. x.key = Secret /\ Canonical(x.stamp, x.body) = Canonical(m.stamp, m.body)
  BY <1>1, <1>4, EqualSignatures
<1>6. /\ x.stamp \in Stamps /\ x.body \in Bodies /\ Parse(x.stamp) # Invalid
  <2>1. x.at \in Instants /\ x.stamp = Decimal(x.at.s) /\ x.body \in Bodies
    BY DEF SignedInv
  <2> QED
    BY <2>1, SignedStamp
<1>7. /\ x.stamp \in Seq(Bytes) /\ x.body \in Seq(Bytes) /\ DotFree(x.stamp)
      /\ m.stamp \in Seq(Bytes) /\ m.body \in Seq(Bytes) /\ DotFree(m.stamp)
  BY <1>1, <1>2, <1>6, BytesAssumption, ParseAssumption DEF DotFree
<1>8. x.stamp = m.stamp /\ x.body = m.body
  BY <1>5, <1>7, CutInOneWay
<1> QED
  BY <1>5, <1>8 DEF Genuine

LEMMA ReceiveStep ==
  ASSUME IInv, NEW m \in Messages, NEW now \in Instants, Receive(m, now)
  PROVE  IInv'
<1>1. signed' = signed
  BY DEF Receive
<1>2. SignedInv' /\ Genuine' = Genuine
  BY <1>1 DEF IInv, SignedInv, Genuine
<1>3. CASE Verdict(m, now) = "Ok"
  <2>1. accepted' = accepted \cup {[msg |-> m, now |-> now]} /\ refused' = refused
    BY <1>3 DEF Receive
  <2>2. m.stamp \in Stamps
    BY DEF Messages
  <2>3. AcceptedInv'
    BY <1>3, <2>1, <2>2 DEF IInv, AcceptedInv
  <2>4. RefusedInv'
    BY <2>1 DEF IInv, RefusedInv
  <2>5. \E x \in Genuine : x.stamp = m.stamp /\ x.body = m.body
    BY <1>3, AcceptedIsSigned DEF IInv
  <2>6. Bound'
    BY <1>2, <2>1, <2>5 DEF IInv, Bound
  <2> QED
    BY <1>2, <2>3, <2>4, <2>6 DEF IInv
<1>4. CASE Verdict(m, now) # "Ok"
  <2>1. /\ accepted' = accepted
        /\ \A r \in refused' : \/ r \in refused
                               \/ \E x \in Genuine : Sent(x) = m /\ r = [of |-> x, now |-> now]
    BY <1>4 DEF Receive
  <2>2. AcceptedInv'
    BY <2>1 DEF IInv, AcceptedInv
  <2>3. RefusedInv'
    <3> SUFFICES ASSUME NEW r \in refused'
                 PROVE  /\ r.of.key = Secret /\ r.of.at \in Instants
                        /\ r.of.stamp = Decimal(r.of.at.s)
                        /\ r.now \in Instants
                        /\ Verdict(Sent(r.of), r.now) # "Ok"
      BY DEF RefusedInv
    <3>1. CASE r \in refused
      BY <3>1 DEF IInv, RefusedInv
    <3>2. CASE \E x \in Genuine : Sent(x) = m /\ r = [of |-> x, now |-> now]
      BY <1>4, <3>2 DEF IInv, SignedInv, Genuine
    <3> QED
      BY <2>1, <3>1, <3>2
  <2>4. Bound'
    BY <1>2, <2>1 DEF IInv, Bound
  <2> QED
    BY <1>2, <2>2, <2>3, <2>4 DEF IInv
<1> QED
  BY <1>3, <1>4

LEMMA Invariance == Spec => []IInv
<1>1. Init => IInv
  BY DEF Init, IInv, SignedInv, AcceptedInv, RefusedInv, Bound
<1>2. IInv /\ [Next]_vars => IInv'
  <2> SUFFICES ASSUME IInv, [Next]_vars PROVE IInv'
    OBVIOUS
  <2>1. CASE UNCHANGED vars
    BY <2>1 DEF vars, IInv, SignedInv, AcceptedInv, RefusedInv, Bound, Genuine
  <2> QED
    BY <2>1, SignStep, ReceiveStep DEF Next
<1> QED
  BY <1>1, <1>2, PTL DEF Spec

-----------------------------------------------------------------------------
(* Theorems.                                                               *)

\* What is accepted was signed with the receiver's secret, exactly so.
THEOREM AcceptedIsBound == Spec => []Bound
<1>1. IInv => Bound
  BY DEF IInv
<1> QED
  BY <1>1, Invariance, PTL

\* The tolerance is small beside what is left of the integers at the
\* receiver's time, so that a wrapped difference is far off.
RoomLeft == \A n \in Clock : n + Tolerance.s < Half

\* A fresh timestamp lies within the tolerance, although the difference wraps.
LEMMA FreshIsNear ==
  ASSUME RoomLeft, NEW now \in Instants, NEW ts \in Int, InRange(ts, Half), ~Stale(ts, now)
  PROVE  now.s - ts <= Tolerance.s /\ ts - now.s <= Tolerance.s
<1>1. now.s \in Nat /\ now.s + Tolerance.s < Half /\ Half \in Nat /\ Tolerance.s \in Nat
  BY Numbers, InstantFacts DEF RoomLeft
<1>2. -Half <= ts /\ ts < Half
  BY DEF InRange
<1> QED
  BY <1>1, <1>2 DEF Stale, UnsignedAbs, Wrapped

\* No message is accepted twice more than twice the tolerance apart.
THEOREM ReplayIsBounded == ASSUME RoomLeft PROVE Spec => []ReplayWindow
<1>1. IInv => ReplayWindow
  <2> SUFFICES ASSUME IInv, Checked, NEW a \in accepted, NEW b \in accepted, a.msg = b.msg
               PROVE  b.now.s - a.now.s <= 2 * Tolerance.s
    BY DEF ReplayWindow
  <2> DEFINE ts == Parse(a.msg.stamp)
  <2>1. /\ a.msg.stamp \in Stamps /\ a.now \in Instants /\ b.now \in Instants
        /\ Verdict(a.msg, a.now) = "Ok" /\ Verdict(a.msg, b.now) = "Ok"
    BY DEF IInv, AcceptedInv
  <2>2. ts # Invalid /\ ~Stale(ts, a.now) /\ ~Stale(ts, b.now)
    BY <2>1 DEF Verdict
  <2>3. ts \in Int /\ InRange(ts, Half)
    BY <2>1, <2>2, ParseAssumption
  <2> HIDE DEF ts
  <2>4. ts - a.now.s <= Tolerance.s
    BY <2>1, <2>2, <2>3, FreshIsNear
  <2>5. b.now.s - ts <= Tolerance.s
    BY <2>1, <2>2, <2>3, FreshIsNear
  <2>6. a.now.s \in Int /\ b.now.s \in Int /\ Tolerance.s \in Nat
    BY <2>1, Numbers, InstantFacts
  <2> QED
    BY <2>3, <2>4, <2>5, <2>6
<1> QED
  BY <1>1, Invariance, PTL

\* A tolerance of whole seconds admits every genuine message whose drift is
\* within it, although both clocks are read in whole seconds.
THEOREM DriftIsTolerated ==
  ASSUME RoomLeft, Tolerance.f = 0
  PROVE  Spec => []DriftTolerated
<1>1. IInv => DriftTolerated
  <2> SUFFICES ASSUME IInv, NEW r \in refused,
                      NotAfter(r.now, r.of.at, Tolerance), NotAfter(r.of.at, r.now, Tolerance)
               PROVE  FALSE
    BY DEF DriftTolerated
  <2> DEFINE ts == r.of.at.s
  <2>1. /\ r.of.key = Secret /\ r.of.at \in Instants /\ r.of.stamp = Decimal(ts)
        /\ r.now \in Instants /\ Verdict(Sent(r.of), r.now) # "Ok"
    BY DEF IInv, RefusedInv
  <2>2. /\ ts \in Clock /\ ts \in Nat /\ r.now.s \in Nat /\ ts + Tolerance.s < Half
        /\ r.now.s + Tolerance.s < Half /\ Half \in Nat /\ Tolerance.s \in Nat /\ Sub \in Nat
        /\ r.of.at.f \in 0 .. Sub - 1 /\ r.now.f \in 0 .. Sub - 1
    BY <2>1, Numbers, InstantFacts DEF RoomLeft
  <2>3. Parse(Sent(r.of).stamp) = ts /\ ts # Invalid
    BY <2>1, SignedStamp DEF Sent
  <2>4. r.now.s - ts <= Tolerance.s /\ ts - r.now.s <= Tolerance.s
    BY <2>2 DEF NotAfter
  <2> HIDE DEF ts
  <2>5. ~Stale(ts, r.now) /\ ~Overflows(ts, r.now)
    BY <2>2, <2>4 DEF Stale, Overflows, InRange, Wrapped, UnsignedAbs
  <2>6. ConstantTimeEq(Signature(Secret, Sent(r.of).stamp, Sent(r.of).body), Sent(r.of).sig)
    BY <2>1, SameSignature DEF Sent
  <2> QED
    BY <2>1, <2>3, <2>5, <2>6 DEF Verdict
<1> QED
  BY <1>1, Invariance, PTL
=============================================================================
