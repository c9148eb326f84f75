------------------------------- MODULE Paging -------------------------------
(***************************************************************************)
(* Reading a list page by page (list_wallets, list_accounts, list_assets,  *)
(* list_transactions, x402_list_settlements) while the gateway adds rows   *)
(* and settlements go from status to status.                               *)
(*                                                                         *)
(* A caller asks for pages 1, 2, ... with the same filters and page size   *)
(* until `has_more` is false.  The gateway is external.  Where a list puts *)
(* a new row is not documented: it may be anywhere.  Of a row only its id  *)
(* matters and which of the filters it fits, since each is asked with one  *)
(* value.                                                                  *)
(***************************************************************************)
EXTENDS Naturals, FiniteSets, SequencesExt

CONSTANTS Lists,        \* lists that are read
          Sizes,        \* values of page_size, Unset for none
          DefaultSize,  \* the gateway's
          MaxRows       \* bound on the rows

Unset == 0

VARIABLES list,    \* the list that is read
          req,     \* its filters that are set, and its page_size
          rows,    \* the gateway's rows, in the order of the list
          before,  \* the places of the rows that fitted when the caller began, by id
          asked,   \* the pages the caller has
          more,    \* has_more of the last of them
          got      \* ids of the rows it was given

vars == <<list, req, rows, before, asked, more, got>>

-----------------------------------------------------------------------------
(* The query of a request for a page.                                      *)

FilterNames(l) ==
  CASE l = "wallets"      -> {}
    [] l = "accounts"     -> {"wallet_id"}
    [] l = "assets"       -> {"account_id"}
    [] l = "transactions" -> {"wallet_id", "account_id", "chain"}
    [] l = "settlements"  -> {"status"}

Param(name, value) == IF value = Unset THEN {} ELSE {<<name, value>>}

Filter(name) == IF name \in req.filters THEN {<<name, "asked">>} ELSE {}

Paged(page) == Param("page", page) \cup Param("page_size", req.size)

ListWallets(page)  == Paged(page)
ListAccounts(page) == Filter("wallet_id") \cup Paged(page)
ListAssets(page)   == Filter("account_id") \cup Paged(page)

\* Mutants: a filter is not sent; the page is not.
ListTransactions_NoChain(page) == Filter("wallet_id") \cup Filter("account_id") \cup Paged(page)
ListTransactions_NoPage(page) ==
  Filter("wallet_id") \cup Filter("account_id") \cup Filter("chain") \cup Paged(Unset)

ListTransactions(page) ==
  Filter("wallet_id") \cup Filter("account_id") \cup Filter("chain") \cup Paged(page)

X402ListSettlements(page) == Filter("status") \cup Paged(page)

Query(page) == CASE list = "wallets"      -> ListWallets(page)
                 [] list = "accounts"     -> ListAccounts(page)
                 [] list = "assets"       -> ListAssets(page)
                 [] list = "transactions" -> ListTransactions(page)
                 [] list = "settlements"  -> X402ListSettlements(page)

-----------------------------------------------------------------------------
(* The gateway.                                                            *)

Value(query, name, default) ==
  LET values == {p[2] : p \in {q \in query : q[1] = name}}
  IN  IF values = {} THEN default ELSE CHOOSE v \in values : TRUE

Fits(row, names) == names \subseteq row.fits

\* The ids of the rows that fit, among the first k.
UpTo(k, names) == {rows[j].id : j \in {i \in 1 .. k : Fits(rows[i], names)}}

\* The place of row k in the list of those that fit, and the length of that list.
Place(k, names) == Cardinality(UpTo(k, names))
Total(names)    == Place(Len(rows), names)

\* The ids on page n of size rows.
Page(n, size, names) ==
  {rows[k].id : k \in {i \in DOMAIN rows : /\ Fits(rows[i], names)
                                         /\ Place(i, names) > (n - 1) * size
                                         /\ Place(i, names) <= n * size}}

Insert ==
  /\ Len(rows) < MaxRows
  /\ \E at \in 1 .. Len(rows) + 1, fits \in SUBSET FilterNames(list) :
       rows' = InsertAt(rows, at, [id |-> Len(rows) + 1, fits |-> fits])
  /\ UNCHANGED <<list, req, before, asked, more, got>>

\* A settlement enters or leaves the status asked for.
Advance ==
  /\ "status" \in FilterNames(list)
  /\ \E i \in DOMAIN rows :
       rows' = [rows EXCEPT ![i].fits = IF @ = {} THEN {"status"} ELSE {}]
  /\ UNCHANGED <<list, req, before, asked, more, got>>

-----------------------------------------------------------------------------
(* The caller.                                                             *)

Init ==
  /\ list \in Lists
  /\ req \in [filters : SUBSET FilterNames(list), size : Sizes]
  /\ \E n \in 0 .. MaxRows : \E fits \in [1 .. n -> SUBSET FilterNames(list)] :
       rows = [i \in 1 .. n |-> [id |-> i, fits |-> fits[i]]]
  /\ before = [id \in UpTo(Len(rows), req.filters) |-> Place(id, req.filters)]
  /\ asked = 0 /\ more = TRUE /\ got = {}

\* The next page, the first with or without its number.
Fetch ==
  /\ more
  /\ \E page \in {asked + 1} \cup (IF asked = 0 THEN {Unset} ELSE {}) :
       LET query == Query(page)
           n     == Value(query, "page", 1)
           size  == Value(query, "page_size", DefaultSize)
           names == {name \in FilterNames(list) : <<name, "asked">> \in query}
       IN  /\ got' = got \cup Page(n, size, names)
           /\ more' = (n * size < Total(names))
  /\ asked' = asked + 1
  /\ UNCHANGED <<list, req, rows, before>>

Next == Insert \/ Advance \/ Fetch

Spec == Init /\ [][Next]_vars

-----------------------------------------------------------------------------
(* Properties.                                                             *)

Size == IF req.size = Unset THEN DefaultSize ELSE req.size

\* However many rows are added between two pages, and wherever, a caller that
\* filters by what does not change is given every row that was there when it
\* began: it is behind by the added rows at most, and at the end it has them all
\* (transaction.rs:505-526).
NothingSkipped ==
  "status" \notin req.filters =>
    LET added == Total(req.filters) - Cardinality(DOMAIN before)
    IN  \A id \in DOMAIN before : before[id] + added <= asked * Size \/ ~more => id \in got

\* No row that does not fit is among what the caller gets, on any page.
OnlyAsked ==
  \A row \in ToSet(rows) : row.id \in got => Fits(row, req.filters \ {"status"})
=============================================================================
