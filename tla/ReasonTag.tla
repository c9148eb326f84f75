------------------------------ MODULE ReasonTag ------------------------------
(***************************************************************************)
(* The reason tag of a refused transaction (src/src/error.rs): where       *)
(* Error::reason_tag() looks for it in the message, and the scanner that   *)
(* decides whether what it found is a tag.                                 *)
(*                                                                         *)
(* A text is a sequence of symbols: a letter, a digit, a character of      *)
(* another kind, or a fixed word of a message ("Rejected", "failed").  The *)
(* gateway that writes the messages is external, as error.rs and           *)
(* reason_tag.rs describe it.                                              *)
(***************************************************************************)
EXTENDS ErrorKind, SequencesExt

CONSTANTS Underscore, Colon, Space,
          FailedWord, RejectedWord,   \* "failed", "Rejected"
          Lower,      \* 'a'..='z', and words of such letters
          Digit,      \* '0'..='9'
          Other,      \* every other symbol
          MaxTag,     \* the longest tag (64 in the code)
          Tags,       \* tags of the gateway and its verifier
          Details,    \* what follows such a tag
          Operations, \* names of operations
          Reasons,    \* what the engine gives as its reason: a tag or free text
          Foreign     \* error replies that come from anywhere else

Alphanumeric == Lower \cup Digit
Chars        == Alphanumeric \cup {Underscore, Colon, Space} \cup Other

\* ^[a-z][a-z0-9]*(?:_[a-z0-9]+)*$ , of at most MaxTag symbols.
IsTag(t) ==
  /\ Len(t) \in 1 .. MaxTag
  /\ \A i \in 1 .. Len(t) : t[i] \in Alphanumeric \cup {Underscore}
  /\ t[1] \in Lower /\ t[Len(t)] # Underscore
  /\ \A i \in 2 .. Len(t) : t[i - 1] = Underscore => t[i] # Underscore

ASSUME CharsAssumption ==
  /\ FailedWord \in Lower /\ RejectedWord \in Other /\ Colon # Space
  /\ Lower \cap Digit = {} /\ Alphanumeric \cap Other = {}
  /\ Underscore \notin {Colon, Space}
  /\ {Underscore, Colon, Space} \cap (Alphanumeric \cup Other) = {}
ASSUME MaxTagAssumption == MaxTag \in Nat
ASSUME TextsAssumption ==
  /\ Details \subseteq Seq(Chars) /\ Reasons \subseteq Seq(Chars)
  /\ Operations \subseteq Other \ {RejectedWord}
  /\ Tags \subseteq Seq(Chars) /\ \A t \in Tags : IsTag(t)

-----------------------------------------------------------------------------
(* The error replies that carry a tag, and others.                         *)

RejectedPrefix == <<RejectedWord, Colon, Space>>
FailedInfix    == <<Space, FailedWord, Colon, Space>>
FreeText       == <<FailedWord, Space, FailedWord>>   \* several words

\* "Rejected: <tag>: <detail>"
RejectedReply(t, d) ==
  [sent |-> t, http |-> 400, code |-> "invalid_parameter",
   text |-> RejectedPrefix \o t \o <<Colon, Space>> \o d]

\* "<OPERATION> failed: <tag>"; a reason that is no tag is not made public.
PublicReason(r) == IF IsTag(r) THEN r ELSE FreeText

FailedReply(op, r) ==
  [sent |-> IF IsTag(r) THEN r ELSE <<>>, http |-> 400, code |-> "transaction_failed",
   text |-> <<op>> \o FailedInfix \o PublicReason(r)]

GatewayReplies == {RejectedReply(t, d) : t \in Tags, d \in Details} \cup
                  {FailedReply(op, r) : op \in Operations, r \in Reasons}

ErrorReplies == [sent : Seq(Chars), http : Nat, code : Codes, text : Seq(Chars)]

ASSUME ForeignAssumption == Foreign \subseteq ErrorReplies

-----------------------------------------------------------------------------
(* Where the tag is looked for.                                            *)

\* s.strip_prefix(p)
Stripped(p, s) == SubSeq(s, Len(p) + 1, Len(s))

\* s.split_once(p)?.1 ; an absent result is the empty text, which is no tag.
SplitOnce(p, s) ==
  LET starts == {i \in 1 .. Len(s) : IsPrefix(p, SubSeq(s, i, Len(s)))}
  IN  IF starts = {} THEN <<>> ELSE SubSeq(s, Min(starts) + Len(p), Len(s))

\* Mutant: everything before the last separator.
FirstPiece_Last(c, s) ==
  LET at == {i \in 1 .. Len(s) : s[i] = c}
  IN  IF at = {} THEN s ELSE SubSeq(s, 1, Max(at) - 1)

\* s.split(c).next()
FirstPiece(c, s) ==
  LET at == {i \in 1 .. Len(s) : s[i] = c}
  IN  IF at = {} THEN s ELSE SubSeq(s, 1, Min(at) - 1)

\* s.trim()
Trimmed(s) ==
  LET solid == {i \in 1 .. Len(s) : s[i] # Space}
  IN  IF solid = {} THEN <<>> ELSE SubSeq(s, Min(solid), Max(solid))

Rest(e) ==
  IF e.http # 400 THEN <<>>
  ELSE IF IsPrefix(RejectedPrefix, e.text) THEN Stripped(RejectedPrefix, e.text)
  ELSE IF e.code = "transaction_failed" THEN SplitOnce(FailedInfix, e.text)
  ELSE <<>>

Candidate(e) == Trimmed(FirstPiece(Colon, Rest(e)))

-----------------------------------------------------------------------------
VARIABLES err,             \* the reply
          tag,             \* the text is_reason_tag is called with
          pos,             \* the position its loop is at
          prevUnderscore, first,
          result           \* "new", "scanning", and then "tag" or "none"

vars == <<err, tag, pos, prevUnderscore, first, result>>

TypeOK == /\ err \in ErrorReplies
          /\ tag \in Seq(Chars)
          /\ pos \in 1 .. Len(tag) + 1
          /\ prevUnderscore \in BOOLEAN /\ first \in BOOLEAN
          /\ result \in {"new", "scanning", "tag", "none"}

Init == /\ err \in GatewayReplies \cup Foreign
        /\ tag = <<>> /\ pos = 1
        /\ prevUnderscore = TRUE /\ first = TRUE
        /\ result = "new"

Scannable(t) == t # <<>> /\ Len(t) <= MaxTag

Extract == /\ result = "new"
           /\ tag' = Candidate(err)
           /\ result' = IF Scannable(tag') THEN "scanning" ELSE "none"
           /\ UNCHANGED <<err, pos, prevUnderscore, first>>

\* Mutant: the flag of the first symbol is not looked at.
Accepts_DigitFirst(c) == c \in Alphanumeric \/ (c = Underscore /\ ~prevUnderscore)

\* The arms of the match that go on.
Accepts(c) == \/ c \in Lower
              \/ c \in Digit /\ ~first
              \/ c = Underscore /\ ~prevUnderscore

Scan == /\ result = "scanning" /\ pos <= Len(tag)
        /\ Accepts(tag[pos])
        /\ prevUnderscore' = (tag[pos] = Underscore)
        /\ first' = FALSE
        /\ pos' = pos + 1
        /\ UNCHANGED <<err, tag, result>>

Refuse == /\ result = "scanning" /\ pos <= Len(tag)
          /\ ~Accepts(tag[pos])
          /\ result' = "none"
          /\ UNCHANGED <<err, tag, pos, prevUnderscore, first>>

\* Mutant: a trailing underscore passes.
Verdict_Trailing == "tag"

Verdict == IF prevUnderscore THEN "none" ELSE "tag"

Finish == /\ result = "scanning" /\ pos > Len(tag)
          /\ result' = Verdict
          /\ UNCHANGED <<err, tag, pos, prevUnderscore, first>>

Next == Extract \/ Scan \/ Refuse \/ Finish

Spec == Init /\ [][Next]_vars

-----------------------------------------------------------------------------
(* Properties.                                                             *)

\* The loop's two flags sum up the part of the text it has passed: up to pos
\* the text is one the regular expression could still accept, and
\* prev_underscore tells whether it has to go on (error.rs:338-355).
ScanInv ==
  result = "scanning" =>
    /\ first <=> pos = 1
    /\ prevUnderscore <=> pos = 1 \/ tag[pos - 1] = Underscore
    /\ pos > 1 => tag[1] \in Lower
    /\ \A i \in 1 .. pos - 1 : tag[i] \in Alphanumeric \cup {Underscore}
    /\ \A i \in 2 .. pos - 1 : tag[i - 1] = Underscore => tag[i] # Underscore

Done == result \in {"tag", "none"}

\* The one-pass scanner accepts exactly the texts of the regular expression in
\* its comment (error.rs:332-356), for whatever text a message yields.
ScannerIsExact == Done => (result = "tag" <=> IsTag(tag))

\* What the gateway put into the message is what the caller gets: the tag,
\* whatever the detail behind it contains (colons, another " failed: "), and
\* no tag where the engine's reason was not made public (error.rs:239-261).
TagArrives ==
  Done /\ err \in GatewayReplies =>
    /\ result = "tag" <=> err.sent # <<>>
    /\ result = "tag" => tag = err.sent
=============================================================================
