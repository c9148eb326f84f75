# A TLA+ model of the Paratro MPC SDK for Rust

This directory models `paratro-sdk` 1.9.0: how one client shares a bearer token
among concurrent requests, how a request is sent, retried and reported, what a
caller may conclude from it, and how webhooks are verified and used. Paths below
are relative to the repository as it appears under `src/` (so the crate's code is
`src/src/*.rs`).

## 1. Inventory

| Part | Source | State | Operations | What makes it correct |
|---|---|---|---|---|
| Token manager | `src/src/token.rs` | `Option<TokenState>` behind a tokio `RwLock` | `get_token`, `refresh_after_expiry`, `refresh` | one exchange at a time; a refused token is never returned to the one it was refused for; a token taken for fresh is valid; the lock always comes back; no `expires_in` within reason panics |
| Request pipeline | `src/src/client.rs` | per call: token, reply | `send`, `execute`, `is_token_expired`, `decode`, and the `post*`/`get*` that build the request | a request is carried out at most once although it may be sent twice; the `Result` does not say more than is known; a call ends in bounded time |
| Transactions | `src/src/transaction.rs`, `transfer.rs` | none in the SDK; rows, `reference_id`s and the idempotency cache at the gateway | `create_transaction*`, `is_accepted`, `is_broadcast`, `get_transaction`, `list_transactions` | a caller that follows the documented recovery never pays twice and is not told "done" of an unknown outcome |
| Errors | `src/src/error.rs` | none | `kind`, `status`, `reason_tag` and its scanner, predicates, free functions | every reply falls into the class the recovery rules are written for; two accessors never contradict each other; the tag comes out of the message as it went in |
| Reason tags | `src/src/reason_tag.rs` | none | `is_known`, constant tables | the tables hold what the scanner accepts |
| Webhooks | `src/src/webhook.rs` | none | `sign_payload`, `verify_payload`, `parse_event` | accepted only when fresh and signed; no arithmetic surprise at the ends of `i64`; an event credits a customer once, in any order and form |
| Configuration | `src/src/config.rs` | `base_url`, `timeout` | `normalize_base_url`, defaults | requests go where the configuration says; the SDK's timeout above the gateway's |
| Resource wrappers | `src/src/wallet.rs`, `account.rs`, `asset.rs`, `x402.rs` | none | one request each; five of them list page by page | a list is complete although it grows while it is read |

Interaction: every wrapper calls `post*` or `get*`, which call `send`; `send`
calls `TokenManager::get_token`, then `execute`, and on `401 token_expired`
`refresh_after_expiry` and `execute` again. Tasks of one client meet only in the
token manager's lock. Outside the process there is the gateway, reached by two
HTTP clients with the same timeout, and the message service that sends webhooks.

What is hard here: interleavings of tasks around the lock and its double check;
a lock held across two awaits, in futures that may be dropped; two notions of
expiry, the SDK's and the gateway's, with a network between them; a retry of a
request that may have effects; replies that are lost after the effect;
caller-side recovery rules that depend on the wording of an error message;
machine integers fed with numbers from outside; events delivered late, twice and
out of order. `PROJECT.json` lists each hazard at its line.

## 2. Modules

    TokenSource        abstract: what tasks are promised about tokens
      ^ implements
    TokenManager  <--  MCTokenManager (TLC)
      ^ EXTENDS
      |-- QueuedTokenManager (TLC): the queue of the lock
      |     ^ EXTENDS
      |   TokenManagerProofs (TLAPS): both
      |
    Client        <--  MCClient (TLC)            ClientProofs (TLAPS)
      v implements
    CallOnce           abstract: what a call promises about its effect
      : (one request of Transactions is one such call)
    ErrorKind          Error::kind()
      ^ EXTENDS
      |-- ErrorAccessors  <-- MCErrorAccessors (TLC)
      |-- ReasonTag       <-- MCReasonTag (TLC)  ReasonTagProofs (TLAPS)
      |
    Transactions  <--  MCTransactions (TLC)      TransactionProofs (TLAPS)
      v implements
    Payments           abstract: each payment is made at most once

    MachineInt         i64: wrapping, overflow checks
      ^ EXTENDS
      |-- Webhook         <-- MCWebhook (TLC)        WebhookProofs (TLAPS)
      |-- TokenLifetime   <-- MCTokenLifetime (TLC)  TimeProofs (TLAPS)
    Deadlines             <-- MCDeadlines (TLC)      TimeProofs (TLAPS)

    BaseUrl, ErrorAccessors, Paging, Notices
      ^ INSTANCE, side by side
    Parts         <--  MCParts (TLC)             PartsProofs (TLAPS)

    LeastNumber        every set of numbers has a least (ReasonTagProofs, PartsProofs)

**TokenManager** follows `token.rs` step by step; a step ends where the code
awaits. `cache` is the `Option<TokenState>` (token 0 is `None`), `writer` the
holder of the write lock, `pc[t]` the place of task `t` in `get_token`
(`peek`: waits for the read lock) or `refresh` (`lock`: waits for the write lock,
`auth`: awaits the gateway), then the `Result` (`ok`, `http`, `api`, `decode`).
`stale[t]` is the argument of `refresh`. The read lock is taken and given back in
one poll, so no reader holds it between two steps. `auth[t]` is the exchange:
sent, token issued, or refused; an exchange of a dropped future is forgotten,
since a token the gateway issues for it later reaches nobody. `newest` is a
history variable. The gateway (`Issue`, `Refuse`) and the clock (`Tick`) are
external. Tokens are numbered by the order of issue, which assumes that the
gateway does not issue the same string twice.

`Tick` does not let an exchange outlive `Timeout`: reqwest's timeout covers the
exchange from `send` to the last byte, and the model assumes that the executor
polls a task within one clock unit of its wake-up.

**QueuedTokenManager** adds the queue of tokio's `RwLock`, in which readers and
writers wait in the order of arrival. A future dropped while it waits leaves it.

**TokenLifetime** is `refresh` from the parsed reply to the stored state, with
`expires_in` any `i64`: the subtraction in `i64`, `.max(0) as u64`, and the
addition to an `Instant`, in builds with and without overflow checks.
`TokenManager!LocalExpiry` is what it computes for a token that arrives at an
uptime of at least the buffer: at less, an `expires_in` at the bottom of `i64`
would be kept for a time the wrapped subtraction makes up, which the hypothesis
`state.at >= Buffer` of `KeptAsReported` leaves out.

**Client** adds `send`: `call[c]` is the place in `send`, `wire[c]` the request
and its reply, `executed[c]` counts how often the gateway carried the request
out, `outcome[c]` is the `Result`, in which a failed token step looks like a
failed request, as it does in the code. A request stays on the wire after the
SDK gave it up, so it may be carried out later. The gateway refuses a token it
holds to be expired before it looks at the request, may answer `token_expired`
even for one it issued recently (the README's "if the gateway still answers"),
and may fail before or after it carried the request out. The timeout of the
request itself is `RequestFails`, possible at any moment.

**TokenSource** and **CallOnce** state the promises without lock, clock and
network. `Source` maps `pc` to the abstract stages and `held` to the token
handed out; `Once` maps `outcome` to what the caller may conclude: `Ok` is
"applied", `token_expired` is "not applied, now or later", every other error is
"unknown".

**Deadlines** is one call on a clock: token exchange, request, renewal and second
request, each on a timer of its own, against a gateway that checks, creates the
row, waits for the engine and answers or closes within its budgets, over a
network with longest ways `Up` and `Down`.

**ErrorKind** is `Error::kind()` as a function of the HTTP status, the code of the
body and the wording of the message, where wording is a class: the fixed prefixes
of a 400, the two fixed messages of a 503, and the rest. **ErrorAccessors** adds
`decode`, every predicate, `status()` and the free functions, for any status with
any code and message. **ReasonTag** is `reason_tag()` and `is_reason_tag` symbol by
symbol: `Extract` looks for the tag, `Scan`, `Refuse` and `Finish` are the loop with
its two flags. The regular expression of the comment is `IsTag`.

**Transactions** is a caller that wants each of its `Intents` paid once and goes by
what the SDK reports. `order` says what the intent is and whether the caller sends
an `Idempotency-Key`; `ref`, `used`, `tx` are the caller's records; `view` is the
`Result` of its last call as the accessors (`is_accepted`, `is_broadcast`) or
`kind()` show it; `lost` remembers that a call under the present `reference_id`
ended without telling what it did. `req[c]` is one call of `create_transaction`:
what it carries and what the gateway answered. A call the caller gave up stays in
`req` and may reach the gateway later; that it takes effect at most once, its retry
after `token_expired` included, is what `CallOnce` promises, and `TokenExpires`
keeps of that retry that the request is built a second time. `rows` and `cache` are
the gateway's rows, each named by its `reference_id`, and its replay cache.

What is not SDK code is external, and taken from the comments of `transaction.rs`
and `error.rs`:

- the caller: a new `reference_id` only after `TransactionFailed` or `EngineBusy`;
  the same one again after a transport error, an unreadable body, a 5xx of unknown
  origin and `ChainRpcUnavailable`; with a key also after `Duplicate reference_id`;
  every other kind ends the intent. A caller always sets a `reference_id`, and a
  key is used for one intent only;
- the gateway: it looks for a replay, then refuses or inserts the row, then works.
  Only 2xx bodies are cached, and no entry is evicted while its caller recovers
  (the documented 24 h). A row that is `FAILED`, or held until a permit's deadline,
  never pays;
- a proxy may answer 502 or 503 with a page of its own, which `decode` turns into
  the code `unknown`.

**Payments** is the ledger such a caller wants: at most one payment per intent,
"done" and "refused" final and true.

**Webhook** is `sign_payload` and `verify_payload` between a service that signs with
its clock and a receiver whose clock may be set. A delivery combines any timestamp,
body and signature that are about. HMAC is injective: a digest is the pair of its
key and its input. `constant_time_eq` compares what it compares; its timing is not
modelled. Texts are sequences of bytes, so that cutting the canonical text elsewhere
is a possibility.

**Notices** is what the events are for: transactions succeed, fail, are credited or
kept back; events report it in the present form or in one without the newer fields;
a receiver reads them with `parse_event` and keeps books by the rules in the comments
of `webhook.rs` (once per `event_id`, by `transaction_type`, a swap by `booked`).
That the receiver works like this is external.

**BaseUrl** is `normalize_base_url`, `MpcClient::new` and `url` over texts of
symbols; how the HTTP library splits the result into authority and path is RFC 3986.
**Paging** is the five list calls with their hand-built queries, and a caller that
reads page after page while rows are added anywhere in the list. The gateway's rows
are a sequence; `Place` is where a row stands among those that fit the filters, and a
page is a range of places. `before` remembers the places of the rows that fitted when
the caller began: a row moves down by as many places as rows are put in before it.
**Parts** puts `BaseUrl`, `ErrorAccessors`, `Paging` and `Notices` side by side.

Definitions named `X_Y`, commented as mutants, are faulty variants of `X`; no
specification uses them. They exist to show that each checked property fails
when the code has that fault.

## 3. Runs

| Run | Instance | Shows |
|---|---|---|
| `token_crowd` | 3 tasks, 3 tokens, lifetimes 0 and 2, `Buffer` = `Timeout` = 1, clock to 3 (120 s units) | `FreshIsValid`: no token is handed out after its expiry at the gateway, when the timeout is within the buffer; `RetryIsNewer`, `NewestCached` and the action property `NoNeedlessRefresh` with stampedes, renewals, failures and dropped futures; types, among them that a lifetime below the buffer gives an instant |
| `token_queue` | 3 tasks, 2 tokens, weak fairness | `QueueIsWaiters`; `ImplementsFairLock`: the queue is as fair as `TokenManager` takes the lock to be; `Served`: every task is answered; `ImplementsTokenSource`, liveness included |
| `token_refresh_fails` | expected violation | the comment on `refresh_after_expiry` says the stale token is dropped; it stays when the exchange fails on the way |
| `token_slow_auth` | expected violation; 40 s units: buffer 3, timeout 5, lifetime 22 | "refreshes two minutes early" fails with the default timeout, which is longer than the buffer |
| `token_lifetime` | 4-bit integers (wrapping build), every `expires_in`, buffer 2, clock 0 to 5 | `KeptAsReported`: the lifetime less the buffer, or nothing; `OnlyAbsurdLifetimesPanic` |
| `client` | 2 calls, 3 tokens, fairness | `AtMostOnce`, `OutcomeHonest`, `SecondTokenIsNewer`, `EveryCallReturns`, `ImplementsCallOnce` |
| `deadlines` | 5 s ticks: timeout 200 s, 202 after 150 s, write timeout 180 s, 10 s there and 5 s back | `GatewayGivesUpFirst`: no call times out while its row exists; `CallIsBounded`: four timeouts |
| `transaction_recovery` | 1 intent, 2 `reference_id`s, 4 calls, 2 of the 13 errors raised before a row exists | `PaidOnce`, `ToldTruly`, `DuplicateOnlyAfterLoss`, `ReplayRecovers`, `ImplementsPayments`, with lost, late and repeated requests, engine failures and held permits |
| `reason_tag` | limit of 4 symbols; every reason, detail and foreign text up to a length beyond it | `ScanInv`, `ScannerIsExact`: the scanner is the regular expression; `TagArrives`: the tag of the gateway comes out of `reason_tag()` |
| `webhook` | 3-bit integers, clock of 4 s in halves, tolerance 1 s, 2 signed, 2 accepted | `Bound`, `ReplayWindow`, `DriftTolerated`, wrapping included |
| `parts` | texts of up to 7 symbols; 15 statuses with every code and message; 3 rows, pages of 1 and 2; 2 transactions of every kind | `RequestsGoWhereConfigured`, `ConfigIsStable`; `OneAnswer`, `AccessorsAgree`; `NothingSkipped`, `OnlyAsked`; `NeverOvercredited`, `NothingMissed` |
| `error_decode` | expected violation | a `Decode` error is documented to mean a 2xx; a 3xx with a foreign body gives one as well |

*Bounds.* `MaxTokens` = 3 lets one token be cached, refused and replaced while
another task holds it, and the replacement be replaced. A clock to 3 covers issue, a
reply `Timeout` later, local expiry and expiry at the gateway of a token of lifetime
2, with a second token after it; lifetime 0 is one below the buffer. Three tasks are
one in the exchange and two waiting with different arguments of `refresh`. Symmetry
over tasks is used in the safety runs only. The client run switches deadlock checking
off because calls are one-shot: when all are done the system stops.

The transaction run has one intent, since intents share nothing but the supply of
`reference_id`s (the theorems hold for any number). Two `reference_id`s are one that
was left and its successor. Four calls are a lost first copy, a repetition, its
successor under the new `reference_id`, and a repetition of that, each of which may
reach the gateway at any later time. Its two refusals are one that ends the intent
and one after which it is repeated; the theorems hold for every set of them. Calls are
used up, so the system stops.

Webhook texts are binary numerals: positive, negative, at the far end of the
integers, with a leading zero, and two that do not parse; `Half` = 4 puts the clock's
differences on both sides of an overflow. `reason_tag` shortens the limit of 64 to 4
and has texts on both sides of it. The `parts` share no state: each behaviour is one
of one part, and `part` says which (`EachPart` is the theorem behind that).

*Fairness.* `TokenManager` and `Client` assume that nobody waits for ever for a lock
that is free again and again (`NoStarvation`), and weak
fairness of the end of an exchange and of the steps of `send`: the HTTP client's
timeout, and an executor that polls a task it woke. The first
is not taken on trust: `QueuedTokenManager` shows that tokio's documented queue
provides it from weak fairness alone. Nothing is assumed of the gateway, of the
callers, or of the drop of futures.

## 4. Proofs

Everything below is proved by TLAPS for every value of the constants, from the named
assumptions of the modules (numbers are numbers, the "no such" values are none).

`TokenManagerProofs`: none of the properties about tokens is inductive. `IInv` adds who
holds the lock (`LockInv`: the task in the exchange, and only it), in which order
tokens travel (`TokenInv`: a token in an exchange is newer than the cached one,
which is at least as new as any a task holds), what a task holds while it asks
(`RenewInv`), and that what the double check found stays true during the exchange
(`ExchangeInv`). Each part has its own step lemma; `LockInv` is what makes
`TokenInv` hold when a token is stored, since no other exchange is under way.
From `IInv` follow `TypeCorrect`, `RenewalIsNewer`, `CacheIsNewest` and
`FreshTokenIsKept`. `FreshTokenIsValid` needs `Timeout <= Buffer` and `ExpiryInv`,
which bounds the age of an exchange; the `token_slow_auth` run shows that the
hypothesis cannot be dropped. `ImplementsSafely` is the refinement of the safety
part of `TokenSource`.

The queue comes on top. `QueueKeepsTokenManager` shows that each step of
`QueuedTokenManager` is one of `TokenManager`, so that all of this holds of the lock
with its queue as well. `QueueHoldsWaiters` is `QueueIsWaiters` for any number of
tasks; its invariant `QueueInv` says that the queue is a list without repetitions of
the tasks that wait (`Distinct`, `Waiting`), and it is the absence of repetitions that
makes a removal, at the end of a wait or when a future is dropped, remove a task
altogether.

`ClientProofs`: every step of the client is a step of the token manager or leaves
it alone (`ClientUsesTokenManager`), so the theorems above hold in it.
`WireInv` (when a request is on the wire, and with which token) and `EffectInv`
(a request that may still be carried out has not been) give `NeverTwice`,
`ResultIsHonest`, and, with the manager's `RenewInv`, `RetryCarriesNewerToken`;
`ImplementsCallsSafely` is the refinement of the safety part of `CallOnce`.

`TransactionProofs`: for every set of intents, `reference_id`s, calls and refusals,
assuming only that the three "no such" values are none of these. `PaidOnce` is not
inductive: that two rows of an intent are not both paid depends on when the caller
leaves a `reference_id`. `TxInv` adds that an intent that was submitted uses a
`reference_id` of its own (`RefInv`), which call a caller waits for (`CallInv`), and
that the row of a `reference_id` the caller left, may leave, or is about to be told
to leave is dead (`RowInv`). The last follows from lemmas about `Kind`: of all
replies only the gateway's two answers after a dead row are classified as
`TransactionFailed` or `EngineBusy`. `NeverPaidTwice` and `TypeCorrect` follow.

`TellInv` strengthens `TxInv` by what a caller may conclude from what it is told: a
`reference_id` belongs to one intent (`OwnInv`); a body given out, or cached under a key,
is about the row of its `reference_id` and true of it (`BodyInv`); so is the caller's view
(`ViewInv`); one call works for a row, and before anything was said of the row
(`EngineInv`); and while no call of an intent was lost, only the present one may still
be under way, and the row is as that call left it (`QuietInv`). `TellsTruly` and `DuplicateTellsOfLoss` follow. So does
`PaymentsAreALedger`, the whole refinement, since `Payments` states no fairness: every
step of callers, SDK, gateway and engine is one payment made, one outcome told, or a
stutter. `KeysRecover` needs `KeyInv` besides: every request of an intent has the same
key, also one built again after the token expired, and a success under a key stays
cached.

`ReasonTagProofs`: for any alphabet, texts of any length and any limit. `ScanInv` is
inductive and relates the two flags to the prefix read; with the length it gives
`ScannerDecides`. `TagIsExtracted` needs what `strip_prefix`, `split_once`, `split`
and `trim` return of a message the gateway wrote: the first separator is where the
gateway put it, because a tag contains none. Instead of induction on positions, which
the provers cannot do with an operator, `LeastNumber` proves that a set of numbers has
a least one from the well-foundedness of finite sets.

`WebhookProofs`: for any texts, clocks and width. `AcceptedIsBound`: a canonical text
is cut in one way only, at its first dot, because an accepted timestamp has none.
`ReplayIsBounded` assumes that clock plus tolerance stays below `Half` (`RoomLeft`),
so that a wrapped difference is large; `DriftIsTolerated` assumes besides that the
tolerance is whole seconds (see the remarks).

`TimeProofs`: `LifetimeIsKept` and `PanicsAreAbsurd` go through what the machine
computes (`Seconds`), for builds with and without overflow checks.
`CallTakesFourTimeouts` holds for all deadlines; `SdkOutlastsGateway` assumes `Margin`:
the way there, the gateway's write timeout and the way back together take less than
the SDK's timeout.

`PartsProofs`: `EachPart` says that a behaviour of `Parts` is one of every part, so that
each part can be reasoned about by its own next-state relation. The assumptions are
those of `Parts`: texts and paths are sequences of symbols, and a path starts with a
slash, as every path in the wrappers does (`TextsAssumption`); statuses are numbers
(`StatusesAssumption`); the lists are among the five, and a page size may be left out
(`ListsAssumption`).

- *URLs.* `UrlInv` relates the client's base URL to the text it was made of and what is
  sent to both. `ConfigurationIsStable` needs that trimming twice is trimming once
  (`TrimmedTwice`): the last symbol that is kept is no slash, so it is kept again.
  `RequestsGoThere` needs where RFC 3986 cuts the joined text (`SentIs`). A host that is
  accepted is not empty (`HostIs`), so trimming never eats into `://`, and the authority
  ends before the first slash after it, which may be the path's own. It is about
  configured URLs without query and fragment (`Plain`), as in the run.
- *Errors.* The predicates exclude each other because they are read off one value;
  `ErrorAccessorsAgree` needs more, that `ResultOK` holds of every error a call returns
  (only a status from 400 up makes an `Api` error, which is why `status()` of a `Decode`
  error is never 404, 429 or 503), and which statuses lie under each kind
  (`KindOfStatus`).
- *Lists.* `NothingSkipped` is not inductive: what a page misses depends on where rows
  stood when it was read. `Kept` adds that a row that was there at the start has moved
  down by as many places as rows were added, at most, and that the caller has every such
  row at a place it has read. Both rest on how putting in a row changes the places
  (`InsertedUpTo`: those before it keep theirs, those after it move by one or not at
  all), a lemma about cardinalities. `Asked` gives `PagesHoldOnlyAsked`: the query of each
  list carries each filter that is set (`QueryOf`).
- *Notices.* `BooksInv` says of each body under way what stays true of its transaction
  (`MailOK`: there is one final body per transaction, and it tells what the transaction
  ended in), that the `event_id`s handled are those of the bodies delivered (`SeenOK`),
  and that a transaction is credited once if its final body was handled and counts, and
  else never (`CreditsOK`). An `event_id` names its transaction and type, so that
  marking one as seen marks no other body.

*Model-checked only.* Five properties of passing runs have no theorem, because they are
about what must eventually happen, under fairness: `Served`, `EveryCallReturns`,
`ImplementsFairLock` (a fairness condition itself), and `ImplementsTokenSource` and
`ImplementsCallOnce`, whose abstract specifications include liveness. Of the last three
the safety part is proved: `QueueKeepsTokenManager`, `ImplementsSafely` and
`ImplementsCallsSafely`. All other properties of passing runs are theorems; the three
runs that end in a violation show what is not one.

## 5. Findings and remarks

Three runs end in a violation, each of a sentence in the documentation; `PROJECT.json`
quotes it. Besides, read off the code while it was modelled, without a run:

- `webhook.rs:240` compares whole seconds: a tolerance of 1.5 s refuses a message 1.5 s
  old whose seconds differ by 2, and one of 0.5 s accepts only the same second, where
  `webhook.rs:220` says "max allowed time drift". `DriftTolerated` is therefore checked
  and proved for whole seconds, as the default of 300 s is.
- `verify_payload` in a build with overflow checks panics on a timestamp at the far end
  of `i64`, before the signature is looked at (`webhook.rs:240`); in a release build
  the subtraction wraps, and such a message is refused.
- `config.rs:101` takes `https://:8080` and `https://?x` to have a host, where the
  comment at `config.rs:94-96` wants one; the first request fails in their place.
- `reason_tag.rs:7-8` says that a rejection comes "before anything was signed";
  `transaction.rs:429-435` has one after signing.
- `README.md:433` credits the customer on `transaction.confirmed`; by `webhook.rs:108`
  that event also reports outgoing transactions, and `Counts` in `Notices` looks at
  `transaction_type`.
- A list filtered by `status` can skip rows that change status between two pages;
  `NothingSkipped` excludes that filter.

## 6. What is not modelled, and the plan

Not modelled: serde declarations, constant tables and `is_known`, getters and builders
(no control of their own); the wrappers that are one request each; parsing of numerals
and UTF-8, and the timing of `constant_time_eq`; that texts are bytes in `len()` and
characters in the scanner's loop (a tag is ASCII); the eviction of a cached reply, and
a caller that sets no `reference_id`; several clients of one account, which share
nothing in the SDK. The crate root is re-exports.

In order:

1. `Notices` as a refinement of a ledger of credits: `CreditsOK` is the mapping.
2. That the refinement of `Payments` and the one of `CallOnce` compose: a call of
   `Transactions` is one call of `Client`, which so far is said in words.
