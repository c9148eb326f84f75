-------------------------------- MODULE Parts --------------------------------
(***************************************************************************)
(* The parts of the SDK that share no state with any other: configuration  *)
(* and URLs, the accessors of errors, lists, notices.  They are put side   *)
(* by side: a behaviour is one of one part, while the variables of the     *)
(* others keep an initial value.                                           *)
(***************************************************************************)
EXTENDS Naturals, Sequences

CONSTANTS Texts, Paths,                       \* BaseUrl's
          Statuses,                           \* ErrorAccessors'
          Lists, Sizes, DefaultSize, MaxRows, \* Paging's
          Txs                                 \* Notices'

\* Texts are sequences of symbols, and a path starts with a slash.
ASSUME TextsAssumption ==
  /\ Texts # {} /\ Texts \subseteq Seq(STRING)
  /\ \A path \in Paths : path \in Seq(STRING) /\ path # <<>> /\ path[1] = "/"

ASSUME StatusesAssumption == Statuses \subseteq Nat

ASSUME ListsAssumption ==
  /\ "wallets" \in Lists
  /\ Lists \subseteq {"wallets", "accounts", "assets", "transactions", "settlements"}
  /\ 0 \in Sizes /\ Sizes \subseteq Nat /\ DefaultSize \in Nat /\ MaxRows \in Nat

VARIABLES part,                                         \* the one that runs
          given, keys, made, base, sent,                \* BaseUrl's
          result,                                       \* ErrorAccessors'
          list, req, rows, before, asked, more, got,    \* Paging's
          tx, mail, delivered, seen, credits            \* Notices'

url   == <<given, keys, made, base, sent>>
pages == <<list, req, rows, before, asked, more, got>>
books == <<tx, mail, delivered, seen, credits>>
vars  == <<part, url, result, pages, books>>

Url    == INSTANCE BaseUrl WITH result <- made
Errors == INSTANCE ErrorAccessors
Pages  == INSTANCE Paging
Events == INSTANCE Notices

\* One initial state of each part that does not run.
UrlRests   == /\ given = (CHOOSE text \in Texts : TRUE)
              /\ keys = [key |-> FALSE, secret |-> FALSE]
              /\ Url!Init
PagesRest  == /\ list = "wallets" /\ req = [filters |-> {}, size |-> 0] /\ rows = <<>>
              /\ Pages!Init
EventsRest == /\ tx = [t \in Txs |-> [kind |-> "DEPOSIT", state |-> "pending",
                                      arrived |-> FALSE, booked |-> FALSE]]
              /\ Events!Init

Init ==
  \/ part = "url"    /\ Url!Init /\ Errors!Init /\ PagesRest  /\ EventsRest
  \/ part = "errors" /\ UrlRests /\ Errors!Init /\ PagesRest  /\ EventsRest
  \/ part = "lists"  /\ UrlRests /\ Errors!Init /\ Pages!Init /\ EventsRest
  \/ part = "events" /\ UrlRests /\ Errors!Init /\ PagesRest  /\ Events!Init

Next ==
  \/ part = "url"    /\ Url!Next    /\ UNCHANGED <<part, result, pages, books>>
  \/ part = "errors" /\ Errors!Next /\ UNCHANGED <<part, url, pages, books>>
  \/ part = "lists"  /\ Pages!Next  /\ UNCHANGED <<part, url, result, books>>
  \/ part = "events" /\ Events!Next /\ UNCHANGED <<part, url, result, pages>>

Spec == Init /\ [][Next]_vars

-----------------------------------------------------------------------------
(* The properties of the parts.                                            *)

\* Requests go to the configured authority and path (client.rs:52-55, 84-86).
RequestsGoWhereConfigured == Url!RequestsGoWhereConfigured

\* A normalized configuration makes the same client again (client.rs:33-35).
ConfigIsStable == Url!ConfigIsStable

\* No error answers to two predicates (error.rs:204-219).
OneAnswer == Errors!OneAnswer

\* Free functions, methods and status() agree (error.rs:317-328, 358-377).
AccessorsAgree == Errors!AccessorsAgree

\* Pages leave out nothing that was there at the start (transaction.rs:505-526).
NothingSkipped == Pages!NothingSkipped

\* Pages hold nothing that was not asked for (transaction.rs:505-526).
OnlyAsked == Pages!OnlyAsked

\* Nothing is credited that Paratro did not credit (webhook.rs:134-136, 144-150).
NeverOvercredited == Events!NeverOvercredited

\* Whatever reached the caller is in its books (webhook.rs:100-111).
NothingMissed == Events!NothingMissed
=============================================================================
