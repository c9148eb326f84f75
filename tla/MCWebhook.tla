------------------------------ MODULE MCWebhook ------------------------------
(***************************************************************************)
(* Instances of Webhook for TLC: three-bit integers, binary numerals, a    *)
(* clock of four seconds in halves.  The timestamps include one at the     *)
(* far end of the integers, one with a leading zero and two that do not    *)
(* parse.                                                                  *)
(***************************************************************************)
EXTENDS Webhook, SequencesExt

SomeBytes  == {"0", "1", "-", "."}
SomeStamps == {<<"0">>, <<"1">>, <<"1", "0">>, <<"1", "1">>, <<"0", "1">>, <<"-", "1", "0", "0">>,
               <<"-">>, <<"1", ".">>}
SomeBodies == {<<>>, <<"0">>}
SomeClock  == 0 .. 3
SomeSpoilt == {<<>>, <<Version>>}

BinaryDigits(t) == t # <<>> /\ \A i \in 1 .. Len(t) : t[i] \in {"0", "1"}
BinaryValue(t)  == FoldLeft(LAMBDA n, d : 2 * n + (IF d = "1" THEN 1 ELSE 0), 0, t)

BinaryParse(t) ==
  IF BinaryDigits(t) THEN (IF BinaryValue(t) < Half THEN BinaryValue(t) ELSE Invalid)
  ELSE IF t # <<>> /\ t[1] = "-" /\ BinaryDigits(Tail(t)) THEN -BinaryValue(Tail(t))
  ELSE Invalid

Binary(n) == CHOOSE t \in SomeStamps : BinaryParse(t) = n /\ (t[1] = "0" => t = <<"0">>)

OneSecond == [s |-> 1, f |-> 0]
=============================================================================
