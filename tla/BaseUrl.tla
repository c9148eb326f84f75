------------------------------- MODULE BaseUrl -------------------------------
(***************************************************************************)
(* Where a client's requests go: Config::new (src/src/config.rs:53-79),    *)
(* normalize_base_url (config.rs:88-106), MpcClient::new and url           *)
(* (src/src/client.rs:36-86).                                              *)
(*                                                                         *)
(* A text is a sequence of symbols: the two schemes with their colon, the  *)
(* characters a URL is cut at, a blank, and a letter for every other.  The *)
(* generic syntax of RFC 3986, by which the HTTP library reads the result, *)
(* is external.                                                            *)
(***************************************************************************)
EXTENDS Sequences, Naturals, FiniteSetsExt, SequencesExt

CONSTANTS Texts,   \* base URLs callers configure
          Paths    \* API paths, each with its leading slash, and its query if any

VARIABLES given,   \* the base URL of the Config
          keys,    \* whether api_key and api_secret are empty
          result,  \* of MpcClient::new
          base,    \* the client's config.base_url
          sent     \* the last URL requested

vars == <<given, keys, result, base, sent>>

Slash   == "/"
Blank   == " "
Schemes == {<<"https:", Slash, Slash>>, <<"http:", Slash, Slash>>}

-----------------------------------------------------------------------------
\* Mutant: one slash is taken off.
Trimmed_One(u) == IF u # <<>> /\ Last(u) = Slash THEN Front(u) ELSE u

\* trim_end_matches('/')
Trimmed(u) == SubSeq(u, 1, Max({0} \cup {i \in 1 .. Len(u) : u[i] # Slash}))

\* The part of u before the first symbol in stops.
Before(u, stops) ==
  SubSeq(u, 1, Min({Len(u)} \cup {i - 1 : i \in {j \in 1 .. Len(u) : u[j] \in stops}}))

\* What follows the scheme, for a text that has one.
Rest(u) == SubSeq(u, 4, Len(u))

HasScheme(u) == \E s \in Schemes : IsPrefix(s, u)

HostAccepted(u) ==
  /\ HasScheme(u)
  /\ LET host == Before(Rest(u), {Slash}) IN host # <<>> /\ ~Contains(host, Blank)

-----------------------------------------------------------------------------
Init == /\ given \in Texts /\ keys \in [key : BOOLEAN, secret : BOOLEAN]
        /\ result = "none" /\ base = <<>> /\ sent = <<>>

\* MpcClient::new; the HTTP clients are built without fail.
Made(u) ==
  IF keys.key THEN "apiKey is required"
  ELSE IF keys.secret THEN "apiSecret is required"
  ELSE IF HostAccepted(Trimmed(u)) THEN "Ok" ELSE "base URL must be absolute"

NewClient ==
  /\ result = "none"
  /\ result' = Made(given)
  /\ base' = IF Made(given) = "Ok" THEN Trimmed(given) ELSE <<>>
  /\ UNCHANGED <<given, keys, sent>>

\* url(path), for a request of the client.
Request(path) ==
  /\ result = "Ok"
  /\ sent' = base \o path
  /\ UNCHANGED <<given, keys, result, base>>

\* A further client is made from client.config().
MakeAgain ==
  /\ result = "Ok"
  /\ given' = base /\ result' = Made(base) /\ base' = Trimmed(base)
  /\ UNCHANGED <<keys, sent>>

Next == NewClient \/ MakeAgain \/ \E path \in Paths : Request(path)

Spec == Init /\ [][Next]_vars

-----------------------------------------------------------------------------
(* How the result is read.                                                 *)

Ends == {Slash, "?", "#"}

Authority(u) == Before(Rest(u), Ends)
PathOf(u)    == Before(SubSeq(Rest(u), Len(Authority(u)) + 1, Len(Rest(u))), {"?", "#"})

\* The configured URL has neither query nor fragment.
Plain(u) == ~Contains(u, "?") /\ ~Contains(u, "#")

\* p is u without the slashes u ends in.
Stem(p, u) == /\ IsPrefix(p, u) /\ (p = <<>> \/ Last(p) # Slash)
              /\ \A i \in Len(p) + 1 .. Len(u) : u[i] = Slash

-----------------------------------------------------------------------------
(* Properties.                                                             *)

\* A request goes to the authority that was configured, and to the configured
\* path followed by that of the API, with one slash between them however many
\* the configured URL ends in (client.rs:52-55, 84-86).
RequestsGoWhereConfigured ==
  sent # <<>> /\ Plain(given) =>
    /\ Authority(sent) = Authority(given)
    /\ \E path \in Paths, n \in 0 .. Len(PathOf(given)) :
         LET stem == SubSeq(PathOf(given), 1, n) IN
         Stem(stem, PathOf(given)) /\ PathOf(sent) = stem \o Before(path, {"?", "#"})

\* The normalized configuration can be used again: it makes the same client
\* (client.rs:33-35).
ConfigIsStable == [][MakeAgain => result' = result /\ base' = base]_vars
=============================================================================
