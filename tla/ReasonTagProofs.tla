--------------------------- MODULE ReasonTagProofs ---------------------------
(***************************************************************************)
(* What reason_tag() returns, for every alphabet, every limit, every       *)
(* message and every text a tag may be surrounded with.                    *)
(*                                                                         *)
(* Candidate is unfolded along the message: lemmas say what each string    *)
(* operation returns on a text put together from known parts.  The scan is *)
(* an invariant on the prefix it has passed.                               *)
(***************************************************************************)
EXTENDS ReasonTag, LeastNumber, SequenceTheorems, TLAPS

-----------------------------------------------------------------------------
(* Least and greatest positions.                                           *)

LEMMA MinIs == ASSUME NEW S, S \subseteq Int, NEW x \in S, \A y \in S : x <= y
               PROVE  Min(S) = x
<1>1. \A z \in S : (\A y \in S : z <= y) => z = x
  OBVIOUS
<1> QED
  BY <1>1 DEF Min

LEMMA MaxIs == ASSUME NEW S, S \subseteq Int, NEW x \in S, \A y \in S : y <= x
               PROVE  Max(S) = x
<1>1. \A z \in S : (\A y \in S : z >= y) => z = x
  OBVIOUS
<1> QED
  BY <1>1 DEF Max

\* A nonempty set of positions has its least and greatest element in it.
LEMMA Ends == ASSUME NEW n \in Nat, NEW S, S \subseteq 1 .. n, S # {}
              PROVE  Min(S) \in S /\ Max(S) \in S
<1>1. S \subseteq Nat /\ S \subseteq Int /\ n \in Int /\ \A y \in S : y <= n
  OBVIOUS
<1>2. PICK x \in S : \A y \in S : x <= y
  BY <1>1, LeastNat
<1>3. PICK z \in S : \A y \in S : y <= z
  BY <1>1, GreatestInt
<1>4. Min(S) = x
  BY <1>1, <1>2, MinIs
<1>5. Max(S) = z
  BY <1>1, <1>3, MaxIs
<1> QED
  BY <1>4, <1>5

-----------------------------------------------------------------------------
(* The string operations yield texts.                                      *)

LEMMA PieceIsText == ASSUME NEW s \in Seq(Chars), NEW i \in Nat \ {0}, NEW j \in Int, j <= Len(s)
                     PROVE  SubSeq(s, i, j) \in Seq(Chars)
<1>1. \A k \in i .. j : s[k] \in Chars
  BY LenProperties, ElementOfSeq
<1> QED
  BY <1>1, SubSeqProperties

LEMMA Constants ==
  /\ RejectedPrefix \in Seq(Chars) /\ Len(RejectedPrefix) = 3
  /\ FailedInfix \in Seq(Chars) /\ Len(FailedInfix) = 4
  /\ FreeText \in Seq(Chars) /\ Len(FreeText) = 3
<1>1. {RejectedWord, FailedWord, Colon, Space} \subseteq Chars
  BY CharsAssumption DEF Chars, Alphanumeric
<1> QED
  BY <1>1 DEF RejectedPrefix, FailedInfix, FreeText

LEMMA StrippedIsText == ASSUME NEW p \in Seq(Chars), NEW s \in Seq(Chars)
                        PROVE  Stripped(p, s) \in Seq(Chars)
BY PieceIsText, LenProperties DEF Stripped

LEMMA SplitOnceIsText == ASSUME NEW p \in Seq(Chars), NEW s \in Seq(Chars)
                         PROVE  SplitOnce(p, s) \in Seq(Chars)
<1> DEFINE starts == {i \in 1 .. Len(s) : IsPrefix(p, SubSeq(s, i, Len(s)))}
<1>1. CASE starts = {}
  BY <1>1, EmptySeq DEF SplitOnce
<1>2. CASE starts # {}
  <2>1. starts \subseteq 1 .. Len(s) /\ Len(s) \in Nat /\ Len(p) \in Nat
    BY LenProperties
  <2>2. Min(starts) \in 1 .. Len(s)
    <3> HIDE DEF starts
    <3> QED
      BY <1>2, <2>1, Ends
  <2>3. SubSeq(s, Min(starts) + Len(p), Len(s)) \in Seq(Chars)
    <3> HIDE DEF starts
    <3> QED
      BY <2>1, <2>2, PieceIsText
  <2> QED
    BY <1>2, <2>3 DEF SplitOnce
<1> QED
  BY <1>1, <1>2

LEMMA FirstPieceIsText == ASSUME NEW c, NEW s \in Seq(Chars)
                          PROVE  FirstPiece(c, s) \in Seq(Chars)
<1> DEFINE at == {i \in 1 .. Len(s) : s[i] = c}
<1>1. CASE at = {}
  BY <1>1 DEF FirstPiece
<1>2. CASE at # {}
  <2>1. at \subseteq 1 .. Len(s) /\ Len(s) \in Nat
    BY LenProperties
  <2>2. Min(at) \in 1 .. Len(s)
    <3> HIDE DEF at
    <3> QED
      BY <1>2, <2>1, Ends
  <2>3. SubSeq(s, 1, Min(at) - 1) \in Seq(Chars)
    <3> HIDE DEF at
    <3> QED
      BY <2>1, <2>2, PieceIsText
  <2> QED
    BY <1>2, <2>3 DEF FirstPiece
<1> QED
  BY <1>1, <1>2

LEMMA TrimmedIsText == ASSUME NEW s \in Seq(Chars)
                       PROVE  Trimmed(s) \in Seq(Chars)
<1> DEFINE solid == {i \in 1 .. Len(s) : s[i] # Space}
<1>1. CASE solid = {}
  BY <1>1, EmptySeq DEF Trimmed
<1>2. CASE solid # {}
  <2>1. solid \subseteq 1 .. Len(s) /\ Len(s) \in Nat
    BY LenProperties
  <2>2. Min(solid) \in 1 .. Len(s) /\ Max(solid) \in 1 .. Len(s)
    <3> HIDE DEF solid
    <3> QED
      BY <1>2, <2>1, Ends
  <2>3. SubSeq(s, Min(solid), Max(solid)) \in Seq(Chars)
    <3> HIDE DEF solid
    <3> QED
      BY <2>1, <2>2, PieceIsText
  <2> QED
    BY <1>2, <2>3 DEF Trimmed
<1> QED
  BY <1>1, <1>2

LEMMA CandidateIsText == ASSUME NEW e \in ErrorReplies
                         PROVE  Candidate(e) \in Seq(Chars)
<1>1. e.text \in Seq(Chars)
  BY DEF ErrorReplies
<1>2. Rest(e) \in Seq(Chars)
  BY <1>1, Constants, StrippedIsText, SplitOnceIsText, EmptySeq DEF Rest
<1> QED
  BY <1>2, FirstPieceIsText, TrimmedIsText DEF Candidate

-----------------------------------------------------------------------------
(* What the string operations return on a text put together of parts.      *)

LEMMA StripPrefix == ASSUME NEW p \in Seq(Chars), NEW u \in Seq(Chars)
                     PROVE  IsPrefix(p, p \o u) /\ Stripped(p, p \o u) = u
<1> DEFINE s == p \o u
<1>1. /\ s \in Seq(Chars) /\ Len(s) = Len(p) + Len(u)
      /\ \A i \in 1 .. Len(s) : s[i] = IF i <= Len(p) THEN p[i] ELSE u[i - Len(p)]
      /\ Len(p) \in Nat /\ Len(u) \in Nat
  BY ConcatProperties, LenProperties
<1> HIDE DEF s
<1>2. SubSeq(p, 1, Len(p)) = SubSeq(s, 1, Len(p))
  <2>1. /\ SubSeq(p, 1, Len(p)) \in Seq(Chars) /\ SubSeq(s, 1, Len(p)) \in Seq(Chars)
        /\ Len(SubSeq(p, 1, Len(p))) = Len(p) /\ Len(SubSeq(s, 1, Len(p))) = Len(p)
        /\ \A i \in 1 .. Len(p) : SubSeq(p, 1, Len(p))[i] = p[i] /\ SubSeq(s, 1, Len(p))[i] = s[i]
    BY <1>1, SubSeqProperties, ElementOfSeq
  <2> QED
    BY <1>1, <2>1, SeqEqual
<1>3. SubSeq(s, Len(p) + 1, Len(s)) = u
  <2>1. \A i \in Len(p) + 1 .. Len(s) : s[i] \in Chars
    BY <1>1, ElementOfSeq
  <2>2. /\ SubSeq(s, Len(p) + 1, Len(s)) \in Seq(Chars)
        /\ Len(SubSeq(s, Len(p) + 1, Len(s))) = Len(u)
        /\ \A i \in 1 .. Len(u) : SubSeq(s, Len(p) + 1, Len(s))[i] = s[Len(p) + i]
    BY <1>1, <2>1, SubSeqProperties
  <2>3. ASSUME NEW i \in 1 .. Len(u) PROVE s[Len(p) + i] = u[i]
    <3>1. Len(p) + i \in 1 .. Len(s) /\ ~(Len(p) + i <= Len(p)) /\ Len(p) + i - Len(p) = i
      BY <1>1
    <3> QED
      BY <1>1, <3>1
  <2> QED
    BY <2>2, <2>3, SeqEqual
<1> QED
  BY <1>1, <1>2, <1>3 DEF IsPrefix, Stripped, s

\* A text put in front of another keeps its first symbol.
LEMMA InFront == ASSUME NEW p \in Seq(Chars), Len(p) > 0, NEW u \in Seq(Chars)
                 PROVE  /\ p \o u \in Seq(Chars) /\ (p \o u)[1] = p[1]
                        /\ Len(p \o u) \in Nat /\ Len(p \o u) = Len(p) + Len(u)
                        /\ Len(p \o u) >= Len(p)
<1>1. Len(p) \in Nat /\ Len(u) \in Nat
  BY LenProperties
<1>2. 1 \in 1 .. Len(p) + Len(u) /\ 1 <= Len(p)
  BY <1>1
<1> QED
  BY <1>1, <1>2, ConcatProperties

LEMMA SymbolInFront == ASSUME NEW o \in Chars
                       PROVE  /\ <<o>> \o FailedInfix \in Seq(Chars)
                              /\ Len(<<o>> \o FailedInfix) = 5
                              /\ (<<o>> \o FailedInfix)[1] = o
<1> DEFINE h == <<o>>
<1>1. h \in Seq(Chars) /\ Len(h) = 1 /\ h[1] = o
  OBVIOUS
<1>2. Len(h) > 0
  BY <1>1
<1>3. FailedInfix \in Seq(Chars) /\ Len(FailedInfix) = 4
  BY Constants
<1> HIDE DEF h
<1> DEFINE f == FailedInfix
<1>4. f \in Seq(Chars) /\ Len(f) = 4
  BY <1>3
<1> HIDE DEF f
<1>5. h \o f \in Seq(Chars) /\ (h \o f)[1] = h[1] /\ Len(h \o f) = Len(h) + Len(f)
  BY <1>1, <1>2, <1>4, InFront
<1>6. Len(h \o f) = 5
  BY <1>1, <1>4, <1>5
<1> QED
  BY <1>1, <1>5, <1>6 DEF h, f

\* A text without the separator is a piece of its own.
LEMMA OnePiece == ASSUME NEW c, NEW s \in Seq(Chars), \A i \in 1 .. Len(s) : s[i] # c
                  PROVE  FirstPiece(c, s) = s
BY DEF FirstPiece

\* What comes after the separator does not matter.
LEMMA PieceBefore == ASSUME NEW c, NEW t \in Seq(Chars), \A i \in 1 .. Len(t) : t[i] # c,
                            NEW v \in Seq(Chars), Len(v) > 0, v[1] = c
                     PROVE  FirstPiece(c, t \o v) = t
<1> DEFINE s  == t \o v
           at == {i \in 1 .. Len(s) : s[i] = c}
<1>1. /\ s \in Seq(Chars) /\ Len(s) = Len(t) + Len(v)
      /\ \A i \in 1 .. Len(s) : s[i] = IF i <= Len(t) THEN t[i] ELSE v[i - Len(t)]
      /\ Len(t) \in Nat /\ Len(v) \in Nat
  BY ConcatProperties, LenProperties
<1> HIDE DEF s
<1>2. Len(t) + 1 \in at /\ at \subseteq Int /\ \A i \in at : Len(t) + 1 <= i
  BY <1>1
<1>3. Min(at) = Len(t) + 1
  <2> HIDE DEF at
  <2> QED
    BY <1>1, <1>2, MinIs
<1>4. FirstPiece(c, s) = SubSeq(s, 1, Len(t))
  <2>1. FirstPiece(c, s) = SubSeq(s, 1, Min(at) - 1)
    BY <1>2 DEF FirstPiece
  <2>2. Min(at) - 1 = Len(t)
    <3> HIDE DEF at
    <3> QED
      BY <1>1, <1>3
  <2> QED
    BY <2>1, <2>2
<1>5. SubSeq(s, 1, Len(t)) = t
  <2>1. \A i \in 1 .. Len(t) : s[i] \in Chars
    BY <1>1, ElementOfSeq
  <2>2. /\ SubSeq(s, 1, Len(t)) \in Seq(Chars) /\ Len(SubSeq(s, 1, Len(t))) = Len(t)
        /\ \A i \in 1 .. Len(t) : SubSeq(s, 1, Len(t))[i] = s[i]
    BY <1>1, <2>1, SubSeqProperties
  <2> QED
    BY <1>1, <2>2, SeqEqual
<1> QED
  BY <1>4, <1>5 DEF s

\* A text that neither begins nor ends with a space is its own trim.
LEMMA NothingToTrim == ASSUME NEW s \in Seq(Chars), Len(s) > 0, s[1] # Space, s[Len(s)] # Space
                       PROVE  Trimmed(s) = s
<1> DEFINE solid == {i \in 1 .. Len(s) : s[i] # Space}
<1>1. Len(s) \in Nat
  BY LenProperties
<1>2. 1 \in solid /\ Len(s) \in solid /\ solid \subseteq 1 .. Len(s)
  BY <1>1
<1>3. Min(solid) = 1 /\ Max(solid) = Len(s)
  <2> HIDE DEF solid
  <2>1. solid \subseteq Int /\ \A i \in solid : 1 <= i /\ i <= Len(s)
    BY <1>1, <1>2
  <2> QED
    BY <1>2, <2>1, MinIs, MaxIs
<1>4. Trimmed(s) = SubSeq(s, Min(solid), Max(solid))
  BY <1>2 DEF Trimmed
<1> QED
  BY <1>3, <1>4, SubSeqFull

\* The separator of a failure comes right after the operation's name.
LEMMA SplitFailure == ASSUME NEW o \in Other, NEW u \in Seq(Chars)
                      PROVE  SplitOnce(FailedInfix, <<o>> \o FailedInfix \o u) = u
<1> DEFINE q == <<o>> \o FailedInfix
           s == q \o u
           starts == {i \in 1 .. Len(s) : IsPrefix(FailedInfix, SubSeq(s, i, Len(s)))}
<1>1. <<o>> \in Seq(Chars) /\ Len(<<o>>) = 1 /\ o # Space
  BY CharsAssumption DEF Chars
<1>2. /\ q \in Seq(Chars) /\ Len(q) = 5 /\ q[1] = o
      /\ s \in Seq(Chars) /\ Len(s) \in Nat /\ Len(s) >= 5 /\ s[1] = o
  <2>1. q \in Seq(Chars) /\ Len(q) = 5 /\ q[1] = o
    BY SymbolInFront DEF Chars
  <2>2. Len(q) > 0
    BY <2>1
  <2> HIDE DEF q
  <2> QED
    BY <2>1, <2>2, InFront
<1>3. 2 \in starts
  <2>1. s = <<o>> \o (FailedInfix \o u)
    BY <1>1, Constants, ConcatAssociative
  <2>2. FailedInfix \o u \in Seq(Chars)
    BY Constants, ConcatProperties
  <2>3. Stripped(<<o>>, s) = FailedInfix \o u
    BY <1>1, <2>1, <2>2, StripPrefix
  <2>4. SubSeq(s, 2, Len(s)) = FailedInfix \o u
    BY <1>1, <2>3 DEF Stripped
  <2>5. IsPrefix(FailedInfix, SubSeq(s, 2, Len(s)))
    BY <2>4, Constants, StripPrefix
  <2> HIDE DEF s
  <2> QED
    BY <1>2, <2>5
<1>4. 1 \notin starts
  <2> HIDE DEF s
  <2> SUFFICES ASSUME IsPrefix(FailedInfix, SubSeq(s, 1, Len(s))) PROVE FALSE
    OBVIOUS
  <2>1. SubSeq(s, 1, Len(s)) = s
    BY <1>2, SubSeqFull
  <2>2. SubSeq(FailedInfix, 1, 4) = SubSeq(s, 1, 4)
    BY <2>1, Constants DEF IsPrefix
  <2>3. SubSeq(FailedInfix, 1, 4)[1] = Space
    BY Constants, ElementOfSeq, SubSeqProperties DEF FailedInfix
  <2>4. SubSeq(s, 1, 4)[1] = o
    <3>1. \A i \in 1 .. 4 : s[i] \in Chars
      BY <1>2, ElementOfSeq
    <3> QED
      BY <1>2, <3>1, SubSeqProperties
  <2> QED
    BY <1>1, <2>2, <2>3, <2>4
<1>5. Min(starts) = 2
  <2>1. starts \subseteq Int /\ \A i \in starts : i >= 1
    OBVIOUS
  <2> HIDE DEF starts
  <2>2. \A i \in starts : 2 <= i
    BY <1>4, <2>1
  <2> QED
    BY <1>3, <2>1, <2>2, MinIs
<1>6. SplitOnce(FailedInfix, s) = SubSeq(s, 6, Len(s))
  <2>1. SplitOnce(FailedInfix, s) = SubSeq(s, Min(starts) + Len(FailedInfix), Len(s))
    BY <1>3 DEF SplitOnce
  <2>2. Min(starts) + Len(FailedInfix) = 6
    <3> HIDE DEF starts
    <3> QED
      BY <1>5, Constants
  <2> QED
    BY <2>1, <2>2
<1>7. SubSeq(s, 6, Len(s)) = u
  BY <1>2, StripPrefix DEF Stripped
<1> QED
  BY <1>6, <1>7

-----------------------------------------------------------------------------
(* What is found in the gateway's messages.                                *)

LEMMA TagText == ASSUME NEW t \in Seq(Chars), IsTag(t)
                 PROVE  /\ \A i \in 1 .. Len(t) : t[i] # Colon
                        /\ Len(t) > 0 /\ t[1] # Space /\ t[Len(t)] # Space
BY CharsAssumption, LenProperties DEF IsTag, Alphanumeric

\* Trimming what precedes the colon gives back a tag.
LEMMA TagBefore == ASSUME NEW t \in Seq(Chars), IsTag(t), NEW v \in Seq(Chars), Len(v) > 0, v[1] = Colon
                   PROVE  Trimmed(FirstPiece(Colon, t \o v)) = t
BY TagText, PieceBefore, NothingToTrim

LEMMA RejectedCandidate == ASSUME NEW t \in Tags, NEW d \in Details
                           PROVE  Candidate(RejectedReply(t, d)) = t
<1> DEFINE v == <<Colon, Space>> \o d
           e == RejectedReply(t, d)
<1>1. /\ t \in Seq(Chars) /\ IsTag(t) /\ d \in Seq(Chars)
      /\ <<Colon, Space>> \in Seq(Chars) /\ Len(<<Colon, Space>>) = 2
  BY TextsAssumption DEF Chars
<1>2. v \in Seq(Chars) /\ Len(v) > 0 /\ v[1] = Colon
  BY <1>1, ConcatProperties, LenProperties
<1>3. e.text = RejectedPrefix \o (t \o v)
  <2>1. e.text = ((RejectedPrefix \o t) \o <<Colon, Space>>) \o d
    BY DEF RejectedReply
  <2>2. e.text = (RejectedPrefix \o t) \o v
    BY <2>1, <1>1, Constants, ConcatProperties, ConcatAssociative
  <2> HIDE DEF v, e
  <2>3. (RejectedPrefix \o t) \o v = RejectedPrefix \o (t \o v)
    <3>1. RejectedPrefix \in Seq(Chars) /\ t \in Seq(Chars) /\ v \in Seq(Chars)
      BY <1>1, <1>2, Constants
    <3> QED
      BY <3>1, ConcatAssociative
  <2> QED
    BY <2>2, <2>3
<1>4. t \o v \in Seq(Chars)
  BY <1>1, <1>2, ConcatProperties
<1>5. IsPrefix(RejectedPrefix, e.text) /\ Stripped(RejectedPrefix, e.text) = t \o v
  BY <1>3, <1>4, Constants, StripPrefix
<1>6. Rest(e) = t \o v
  BY <1>5 DEF Rest, RejectedReply
<1> HIDE DEF v, e
<1>7. Candidate(e) = t
  BY <1>1, <1>2, <1>6, TagBefore DEF Candidate
<1> QED
  BY <1>7 DEF e

LEMMA FreeTextIsNoTag == ~IsTag(FreeText)
<1>1. FreeText[2] = Space /\ Len(FreeText) = 3
  BY DEF FreeText
<1> QED
  BY <1>1, CharsAssumption DEF IsTag, Alphanumeric

LEMMA FailedCandidate == ASSUME NEW op \in Operations, NEW r \in Reasons
                         PROVE  Candidate(FailedReply(op, r)) = PublicReason(r)
<1> DEFINE u == PublicReason(r)
           e == FailedReply(op, r)
<1>1. op \in Other /\ op # RejectedWord /\ r \in Seq(Chars)
  BY TextsAssumption
<1>2. u \in Seq(Chars)
  BY <1>1, Constants DEF PublicReason
<1>3. /\ \A i \in 1 .. Len(u) : u[i] # Colon
      /\ Len(u) > 0 /\ u[1] # Space /\ u[Len(u)] # Space
  <2>1. CASE IsTag(r)
    BY <2>1, <1>1, TagText DEF PublicReason
  <2>2. CASE ~IsTag(r)
    <3>1. u = FreeText
      BY <2>2 DEF PublicReason
    <3>2. Space # Colon /\ FailedWord # Colon /\ FailedWord # Space
      BY CharsAssumption DEF Alphanumeric
    <3> QED
      BY <3>1, <3>2 DEF FreeText
  <2> QED
    BY <2>1, <2>2
<1> HIDE DEF u
<1>4. e.text = <<op>> \o FailedInfix \o u /\ e.http = 400 /\ e.code = "transaction_failed"
  BY DEF FailedReply, u
<1>5. ~IsPrefix(RejectedPrefix, e.text)
  <2> DEFINE s == e.text
  <2>1. <<op>> \in Seq(Chars) /\ Len(<<op>>) = 1
    BY <1>1 DEF Chars
  <2>2. <<op>> \o FailedInfix \in Seq(Chars) /\ Len(<<op>> \o FailedInfix) = 5
        /\ (<<op>> \o FailedInfix)[1] = op
    BY <1>1, SymbolInFront DEF Chars
  <2>3. s \in Seq(Chars) /\ Len(s) >= 5 /\ Len(s) \in Nat /\ s[1] = op
    BY <1>2, <1>4, <2>2, InFront
  <2> HIDE DEF s, e
  <2> SUFFICES ASSUME IsPrefix(RejectedPrefix, s) PROVE FALSE
    BY DEF s
  <2>4. SubSeq(RejectedPrefix, 1, 3) = SubSeq(s, 1, 3)
    BY Constants DEF IsPrefix
  <2>5. SubSeq(RejectedPrefix, 1, 3)[1] = RejectedWord
    BY Constants, ElementOfSeq, SubSeqProperties DEF RejectedPrefix
  <2>6. SubSeq(s, 1, 3)[1] = op
    <3>1. \A i \in 1 .. 3 : s[i] \in Chars
      BY <2>3, ElementOfSeq
    <3> QED
      BY <2>3, <3>1, SubSeqProperties
  <2> QED
    BY <1>1, <2>4, <2>5, <2>6
<1>6. Rest(e) = u
  BY <1>1, <1>2, <1>4, <1>5, SplitFailure DEF Rest
<1> HIDE DEF e
<1>7. Candidate(e) = u
  BY <1>2, <1>3, <1>6, OnePiece, NothingToTrim DEF Candidate
<1> QED
  BY <1>7 DEF e, u

-----------------------------------------------------------------------------
(* The scan.                                                               *)

\* What is known before, during and after the scan.
StageInv ==
  /\ result = "new" => pos = 1 /\ prevUnderscore = TRUE /\ first = TRUE
  /\ result # "new" => tag = Candidate(err)
  /\ result = "scanning" => Len(tag) \in 1 .. MaxTag
  /\ Done => (result = "tag" <=> IsTag(tag))

IInv == TypeOK /\ ScanInv /\ StageInv

LEMMA RepliesAreReplies == GatewayReplies \subseteq ErrorReplies
<1>1. ASSUME NEW t \in Tags, NEW d \in Details PROVE RejectedReply(t, d) \in ErrorReplies
  <2>1. t \in Seq(Chars) /\ d \in Seq(Chars)
    BY TextsAssumption
  <2>2. <<Colon, Space>> \in Seq(Chars)
    BY DEF Chars
  <2>3. RejectedPrefix \o t \in Seq(Chars)
    BY <2>1, Constants, ConcatProperties
  <2>4. RejectedPrefix \o t \o <<Colon, Space>> \in Seq(Chars)
    BY <2>2, <2>3, ConcatProperties
  <2>5. RejectedPrefix \o t \o <<Colon, Space>> \o d \in Seq(Chars)
    BY <2>1, <2>4, ConcatProperties
  <2> QED
    BY <2>1, <2>5 DEF RejectedReply, ErrorReplies, Codes
<1>2. ASSUME NEW op \in Operations, NEW r \in Reasons PROVE FailedReply(op, r) \in ErrorReplies
  <2>1. op \in Chars /\ r \in Seq(Chars)
    BY TextsAssumption DEF Chars
  <2>2. PublicReason(r) \in Seq(Chars)
    BY <2>1, Constants DEF PublicReason
  <2>3. <<op>> \o FailedInfix \o PublicReason(r) \in Seq(Chars)
    BY <2>1, <2>2, SymbolInFront, ConcatProperties
  <2>4. (IF IsTag(r) THEN r ELSE <<>>) \in Seq(Chars)
    BY <2>1, EmptySeq
  <2> QED
    BY <2>3, <2>4 DEF FailedReply, ErrorReplies, Codes
<1> QED
  BY <1>1, <1>2 DEF GatewayReplies

LEMMA InitInv == Init => IInv
<1> SUFFICES ASSUME Init PROVE IInv
  OBVIOUS
<1>1. err \in ErrorReplies
  BY RepliesAreReplies, ForeignAssumption DEF Init
<1>2. tag = <<>> /\ pos = 1 /\ tag \in Seq(Chars) /\ Len(tag) = 0
  BY EmptySeq DEF Init
<1>3. TypeOK
  BY <1>1, <1>2 DEF Init, TypeOK
<1> QED
  BY <1>3 DEF Init, IInv, ScanInv, StageInv, Done

LEMMA ExtractStep == ASSUME IInv, Extract PROVE IInv'
<1>1. err \in ErrorReplies /\ err' = err /\ tag' = Candidate(err)
  BY DEF IInv, TypeOK, Extract
<1>2. tag' \in Seq(Chars) /\ Len(tag') \in Nat
  BY <1>1, CandidateIsText, LenProperties
<1>3. pos' = 1 /\ prevUnderscore' = TRUE /\ first' = TRUE
  BY DEF IInv, StageInv, Extract
<1>4. /\ result' \in {"scanning", "none"}
      /\ result' = "scanning" => Len(tag') \in 1 .. MaxTag
      /\ result' = "none" => ~IsTag(tag')
  <2>1. tag' # <<>> => Len(tag') \in Nat \ {0}
    BY <1>2, EmptySeq
  <2>2. tag' = <<>> => Len(tag') = 0
    BY EmptySeq
  <2> QED
    BY <1>2, <2>1, <2>2, MaxTagAssumption DEF Extract, Scannable, IsTag
<1>5. TypeOK'
  BY <1>1, <1>2, <1>3, <1>4 DEF TypeOK
<1>6. ScanInv'
  BY <1>3 DEF ScanInv
<1>7. StageInv'
  BY <1>1, <1>4 DEF StageInv, Done
<1> QED
  BY <1>5, <1>6, <1>7 DEF IInv

LEMMA ScanStep == ASSUME IInv, Scan PROVE IInv'
<1>1. /\ tag \in Seq(Chars) /\ Len(tag) \in Nat /\ pos \in 1 .. Len(tag)
      /\ err' = err /\ tag' = tag /\ pos' = pos + 1 /\ first' = FALSE
      /\ prevUnderscore' = (tag[pos] = Underscore)
      /\ result = "scanning" /\ result' = "scanning"
  BY LenProperties DEF IInv, TypeOK, Scan
<1>2. tag[pos] \in Alphanumeric \cup {Underscore}
  BY DEF Scan, Accepts, Alphanumeric
<1>3. pos = 1 => tag[pos] \in Lower
  BY <1>1 DEF IInv, ScanInv, Scan, Accepts
<1>4. pos > 1 /\ tag[pos - 1] = Underscore => tag[pos] # Underscore
  BY <1>1, CharsAssumption DEF IInv, ScanInv, Scan, Accepts, Alphanumeric
<1>5. TypeOK'
  <2>1. prevUnderscore' \in BOOLEAN
    <3>1. prevUnderscore' = (tag[pos] = Underscore)
      BY DEF Scan
    <3>2. CASE tag[pos] = Underscore
      BY <3>1, <3>2
    <3>3. CASE tag[pos] # Underscore
      BY <3>1, <3>3
    <3> QED
      BY <3>2, <3>3
  <2>2. first' \in BOOLEAN
    BY <1>1
  <2>3. Len(tag') = Len(tag) /\ pos' \in 1 .. Len(tag) + 1
    BY <1>1
  <2> QED
    BY <1>1, <2>1, <2>2, <2>3 DEF IInv, TypeOK
<1>6. ScanInv'
  <2>1. first' <=> pos' = 1
    BY <1>1
  <2>2. prevUnderscore' <=> pos' = 1 \/ tag'[pos' - 1] = Underscore
    <3>1. pos' # 1 /\ pos' - 1 = pos
      BY <1>1
    <3> QED
      BY <1>1, <3>1, Zenon
  <2>3. tag'[1] \in Lower
    BY <1>1, <1>3 DEF IInv, ScanInv
  <2>4. \A i \in 1 .. pos' - 1 : tag'[i] \in Alphanumeric \cup {Underscore}
    BY <1>1, <1>2 DEF IInv, ScanInv
  <2>5. \A i \in 2 .. pos' - 1 : tag'[i - 1] = Underscore => tag'[i] # Underscore
    BY <1>1, <1>4 DEF IInv, ScanInv
  <2> QED
    BY <2>1, <2>2, <2>3, <2>4, <2>5 DEF ScanInv
<1>7. StageInv'
  BY <1>1 DEF IInv, StageInv, Done
<1> QED
  BY <1>5, <1>6, <1>7 DEF IInv

LEMMA RefuseStep == ASSUME IInv, Refuse PROVE IInv'
<1>1. /\ tag \in Seq(Chars) /\ Len(tag) \in Nat /\ pos \in 1 .. Len(tag)
      /\ err' = err /\ tag' = tag /\ pos' = pos
      /\ result = "scanning" /\ result' = "none"
  BY LenProperties DEF IInv, TypeOK, Refuse
<1>2. ~IsTag(tag)
  <2> SUFFICES ASSUME IsTag(tag) PROVE FALSE
    OBVIOUS
  <2>1. tag[pos] \in Alphanumeric \cup {Underscore} /\ (pos = 1 => tag[pos] \in Lower)
    BY <1>1 DEF IsTag
  <2>2. tag[pos] \notin Lower /\ (tag[pos] \in Digit => first) /\ (tag[pos] = Underscore => prevUnderscore)
    BY <1>1 DEF Refuse, Accepts
  <2>3. CASE tag[pos] \in Digit
    BY <1>1, <2>1, <2>2, <2>3 DEF IInv, ScanInv
  <2>4. CASE tag[pos] = Underscore
    <3>1. pos # 1 /\ tag[pos - 1] = Underscore
      BY <1>1, <2>1, <2>2, <2>4 DEF IInv, ScanInv
    <3>2. pos \in 2 .. Len(tag)
      BY <1>1, <3>1
    <3> QED
      BY <2>4, <3>1, <3>2 DEF IsTag
  <2> QED
    BY <2>1, <2>2, <2>3, <2>4 DEF Alphanumeric
<1>3. TypeOK'
  BY <1>1 DEF IInv, TypeOK, Refuse
<1>4. ScanInv' /\ StageInv'
  BY <1>1, <1>2 DEF IInv, ScanInv, StageInv, Done
<1> QED
  BY <1>3, <1>4 DEF IInv

LEMMA FinishStep == ASSUME IInv, Finish PROVE IInv'
<1>1. /\ tag \in Seq(Chars) /\ Len(tag) \in Nat /\ pos = Len(tag) + 1
      /\ Len(tag) \in 1 .. MaxTag
      /\ err' = err /\ tag' = tag /\ pos' = pos
      /\ result = "scanning" /\ result' \in {"tag", "none"}
      /\ result' = "none" <=> prevUnderscore
  BY LenProperties DEF IInv, TypeOK, StageInv, Finish, Verdict
<1>2. prevUnderscore <=> tag[Len(tag)] = Underscore
  BY <1>1 DEF IInv, ScanInv
<1>3. result' = "tag" <=> IsTag(tag)
  <2>1. tag[1] \in Lower
    BY <1>1 DEF IInv, ScanInv
  <2>2. \A i \in 1 .. Len(tag) : tag[i] \in Alphanumeric \cup {Underscore}
    BY <1>1 DEF IInv, ScanInv
  <2>3. \A i \in 2 .. Len(tag) : tag[i - 1] = Underscore => tag[i] # Underscore
    BY <1>1 DEF IInv, ScanInv
  <2> QED
    BY <1>1, <1>2, <2>1, <2>2, <2>3 DEF IsTag
<1>4. TypeOK'
  BY <1>1 DEF IInv, TypeOK, Finish
<1>5. ScanInv' /\ StageInv'
  BY <1>1, <1>3 DEF IInv, ScanInv, StageInv, Done
<1> QED
  BY <1>4, <1>5 DEF IInv

LEMMA Invariance == Spec => []IInv
<1>1. IInv /\ [Next]_vars => IInv'
  <2> SUFFICES ASSUME IInv, [Next]_vars PROVE IInv'
    OBVIOUS
  <2>1. CASE UNCHANGED vars
    BY <2>1 DEF vars, IInv, TypeOK, ScanInv, StageInv, Done
  <2> QED
    BY <2>1, ExtractStep, ScanStep, RefuseStep, FinishStep DEF Next
<1> QED
  BY <1>1, InitInv, PTL DEF Spec

\* Type correctness, for every alphabet and every set of messages.
THEOREM TypeCorrect == Spec => []TypeOK
<1>1. IInv => TypeOK
  BY DEF IInv
<1> QED
  BY <1>1, Invariance, PTL

\* The flags sum up what the scan has passed.
THEOREM FlagsSumUp == Spec => []ScanInv
<1>1. IInv => ScanInv
  BY DEF IInv
<1> QED
  BY <1>1, Invariance, PTL

\* For every text of every length and every limit, the scanner of
\* error.rs:332-356 decides the regular expression.
THEOREM ScannerDecides == Spec => []ScannerIsExact
<1>1. IInv => ScannerIsExact
  BY DEF IInv, StageInv, ScannerIsExact
<1> QED
  BY <1>1, Invariance, PTL

\* Every tag the gateway sends arrives, whatever detail comes with it, and a
\* reason it did not make public is never taken for a tag.
THEOREM TagIsExtracted == Spec => []TagArrives
<1>1. IInv => TagArrives
  <2> SUFFICES ASSUME IInv, Done, err \in GatewayReplies
               PROVE  (result = "tag" <=> err.sent # <<>>) /\ (result = "tag" => tag = err.sent)
    BY DEF TagArrives
  <2>1. tag = Candidate(err) /\ (result = "tag" <=> IsTag(tag))
    BY DEF IInv, StageInv, Done
  <2>2. CASE \E t \in Tags, d \in Details : err = RejectedReply(t, d)
    <3>1. PICK t \in Tags, d \in Details : err = RejectedReply(t, d)
      BY <2>2
    <3>2. IsTag(t) /\ t # <<>> /\ err.sent = t
      <4>1. IsTag(t) /\ err.sent = t
        BY <3>1, TextsAssumption DEF RejectedReply
      <4>2. IsTag(<<>>) => FALSE
        BY EmptySeq DEF IsTag
      <4> QED
        BY <4>1, <4>2
    <3> QED
      BY <2>1, <3>1, <3>2, RejectedCandidate
  <2>3. CASE \E op \in Operations, r \in Reasons : err = FailedReply(op, r)
    <3>1. PICK op \in Operations, r \in Reasons : err = FailedReply(op, r)
      BY <2>3
    <3>2. tag = PublicReason(r)
      BY <2>1, <3>1, FailedCandidate
    <3>3. err.sent = IF IsTag(r) THEN r ELSE <<>>
      BY <3>1 DEF FailedReply
    <3>4. CASE IsTag(r)
      <4>1. ~IsTag(<<>>)
        BY EmptySeq DEF IsTag
      <4> QED
        BY <2>1, <3>2, <3>3, <3>4, <4>1 DEF PublicReason
    <3>5. CASE ~IsTag(r)
      BY <2>1, <3>2, <3>3, <3>5, FreeTextIsNoTag DEF PublicReason
    <3> QED
      BY <3>4, <3>5
  <2> QED
    BY <2>2, <2>3 DEF GatewayReplies
<1> QED
  BY <1>1, Invariance, PTL
=============================================================================
