----------------------------- MODULE MCReasonTag -----------------------------
(***************************************************************************)
(* Instance of ReasonTag for TLC: tags of at most four symbols, and every  *)
(* reason, detail and foreign text up to a length that exceeds the limit   *)
(* and contains each separator.                                            *)
(***************************************************************************)
EXTENDS ReasonTag

SomeLower == {"x", "failed"}
SomeDigit == {"1"}
SomeOther == {"Rejected", "CALL", "?"}
SomeOperations == {"CALL"}

SomeReasons == BoundedSeq({"x", "1", "_", " "}, 5) \cup BoundedSeq({"x", ":", "failed", "?"}, 3)
SomeTags    == {t \in BoundedSeq({"x", "1", "_", "failed"}, 4) : IsTag(t)}
SomeDetails == BoundedSeq({"x", "_", ":", " "}, 1) \cup {<<"failed", ":", " ", "x">>, FailedInfix}

ForeignTexts == BoundedSeq({"x", "1", "_", ":", " ", "?"}, 3) \cup
                {RejectedPrefix \o s : s \in BoundedSeq({"x", "1", "_", ":", " ", "?"}, 3)} \cup
                {FailedInfix \o s : s \in BoundedSeq({"x", "_", ":", " "}, 2)}

SomeForeign == [sent : {<<>>}, http : {400, 403}, code : {"invalid_parameter", "transaction_failed"},
                text : ForeignTexts]
=============================================================================
