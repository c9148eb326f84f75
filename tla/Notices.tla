------------------------------- MODULE Notices -------------------------------
(***************************************************************************)
(* Webhook events (src/src/webhook.rs:36-167) and the books a caller keeps *)
(* by them.                                                                *)
(*                                                                         *)
(* Transactions succeed or fail, Paratro credits what came in, and the     *)
(* message service reports it, in events of the present form or of the one *)
(* that predates `operation` and `swap_incoming`.  Events arrive in any    *)
(* order, late and more than once; parse_event reads them, and the caller  *)
(* credits its customers by the rules webhook.rs states: once per          *)
(* event_id, by transaction_type, and a swap's incoming asset by `booked`. *)
(* Paratro, the network and the caller are external.                       *)
(***************************************************************************)
EXTENDS Naturals

CONSTANT Txs

VARIABLES tx,        \* tx[t] : t's kind and state, and what became of the inflow
          mail,      \* bodies under way; they stay, to be delivered again
          delivered, \* bodies that reached the caller
          seen,      \* event_ids handled
          credits    \* credits[t] : how often the caller credited t

vars == <<tx, mail, delivered, seen, credits>>

\* A swap pays one asset and receives another; the others move one.
Swaps   == {"PROGRAM_CALL", "CONTRACT_CALL"}
Inflows == {"DEPOSIT", "INTERNAL", "X402"}
Kinds   == Swaps \cup Inflows \cup {"TRANSFER"}

Init == /\ tx \in [Txs -> [kind : Kinds, state : {"pending"}, arrived : {FALSE}, booked : {FALSE}]]
        /\ mail = {} /\ delivered = {} /\ seen = {}
        /\ credits = [t \in Txs |-> 0]

-----------------------------------------------------------------------------
(* Events.                                                                 *)

Confirming  == "transaction.confirming"
Confirmed   == "transaction.confirmed"
FailedType  == "transaction.failed"
Credited    == "transfer.credited"
SettledType == "x402.settlement.confirmed"

FinalType(x) == IF x.state = "failed" THEN FailedType
                ELSE IF x.kind = "INTERNAL" THEN Credited
                ELSE IF x.kind = "X402" THEN SettledType
                ELSE Confirmed

TransactionType(kind) == IF kind = "INTERNAL" THEN "INTERNAL"
                         ELSE IF kind \in Inflows THEN "INBOUND" ELSE "OUTBOUND"

\* SwapIncoming: whether its amount is "0", and whether it is booked.
NoLeg  == [zero |-> TRUE, booked |-> FALSE]
Leg(x) == [zero |-> ~x.arrived, booked |-> x.booked]

\* A body of the type, in the present form or in the old one.
Body(t, type, legacy) ==
  LET x == tx[t] IN
  [id |-> <<t, type>>, of |-> t, type |-> type, ttype |-> TransactionType(x.kind),
   fields |-> IF legacy THEN {} ELSE {"operation"} \cup {f \in {"swap_incoming"} :
                                        x.kind \in Swaps /\ type \in {Confirmed, FailedType}},
   leg |-> Leg(x)]

\* Mutant: the new fields are required.
Readable_All(b) == "operation" \in b.fields

\* Every other field is in every body.
Readable(b) == TRUE

\* parse_event: WebhookEvent of a body, absent fields at their defaults.
Parsed(b) ==
  [id |-> b.id, type |-> b.type, ttype |-> b.ttype,
   some |-> "swap_incoming" \in b.fields,
   leg |-> IF "swap_incoming" \in b.fields THEN b.leg ELSE NoLeg]

-----------------------------------------------------------------------------
(* Paratro.                                                                *)

Progress(t) ==
  /\ tx[t].state = "pending" /\ tx[t].kind # "INTERNAL"
  /\ \E legacy \in BOOLEAN : mail' = mail \cup {Body(t, Confirming, legacy)}
  /\ UNCHANGED <<tx, delivered, seen, credits>>

\* Confirmed; what came in is booked, but a swap's other leg may be missing or
\* be kept back, or not come in at all.
Succeed(t) ==
  /\ tx[t].state = "pending"
  /\ \E arrived, booked \in BOOLEAN :
       /\ booked => arrived
       /\ tx[t].kind \in Inflows => booked
       /\ tx[t].kind = "TRANSFER" => ~arrived
       /\ tx' = [tx EXCEPT ![t] = [@ EXCEPT !.state = "confirmed", !.arrived = arrived,
                                            !.booked = booked]]
  /\ UNCHANGED <<mail, delivered, seen, credits>>

Fail(t) ==
  /\ tx[t].state = "pending" /\ tx[t].kind \in Swaps \cup {"TRANSFER"}
  /\ tx' = [tx EXCEPT ![t].state = "failed"]
  /\ UNCHANGED <<mail, delivered, seen, credits>>

\* The one event that reports the outcome.
Report(t) ==
  /\ tx[t].state # "pending"
  /\ ~\E b \in mail : b.of = t /\ b.type # Confirming
  /\ \E legacy \in BOOLEAN : mail' = mail \cup {Body(t, FinalType(tx[t]), legacy)}
  /\ UNCHANGED <<tx, delivered, seen, credits>>

-----------------------------------------------------------------------------
(* The caller.                                                             *)

\* Mutant: what arrived is credited, booked or not.
Counts_Arrived(e) ==
  \/ e.some /\ ~e.leg.zero
  \/ ~e.some /\ e.type = Confirmed /\ e.ttype = "INBOUND"
  \/ e.type \in {Credited, SettledType}

\* The event is one to credit the customer for.
Counts(e) ==
  \/ e.some /\ e.leg.booked
  \/ ~e.some /\ e.type = Confirmed /\ e.ttype = "INBOUND"
  \/ e.type \in {Credited, SettledType}

\* The caller handles a body, for the first time or again.
Deliver(b) ==
  /\ b \in mail
  /\ delivered' = delivered \cup {b}
  /\ IF Readable(b) /\ Parsed(b).id \notin seen
     THEN /\ seen' = seen \cup {Parsed(b).id}
          /\ credits' = IF Counts(Parsed(b)) THEN [credits EXCEPT ![b.of] = @ + 1] ELSE credits
     ELSE UNCHANGED <<seen, credits>>
  /\ UNCHANGED <<tx, mail>>

Next == \/ \E t \in Txs : Progress(t) \/ Succeed(t) \/ Fail(t) \/ Report(t)
        \/ \E b \in mail : Deliver(b)

Spec == Init /\ [][Next]_vars

-----------------------------------------------------------------------------
(* Properties.                                                             *)

Booked(t) == IF tx[t].booked THEN 1 ELSE 0

\* The caller never credits a customer with what Paratro did not credit to it:
\* not an event that comes twice, not the outgoing leg of a swap, not funds
\* that arrived and were kept back (webhook.rs:134-136, 144-150).
NeverOvercredited == \A t \in Txs : credits[t] <= Booked(t)

\* An outcome that reached the caller is in its books, however early it came
\* and in whichever form; only of a swap does the old form not tell
\* (webhook.rs:100-111).
NothingMissed ==
  \A b \in delivered :
    b.type # Confirming /\ (tx[b.of].kind \in Swaps => b.fields # {}) =>
      credits[b.of] = Booked(b.of)
=============================================================================
