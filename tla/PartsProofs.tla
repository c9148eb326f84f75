----------------------------- MODULE PartsProofs -----------------------------
(***************************************************************************)
(* Proofs about Parts: every behaviour of it is one of each part, and the  *)
(* invariants by which each part keeps what it promises, for any texts,    *)
(* statuses, lists, page sizes and transactions.                           *)
(***************************************************************************)
EXTENDS Parts, LeastNumber, SequenceTheorems, TLAPS

\* What runs is one of the parts, and the others stand still: nothing that holds
\* of a part by itself is lost where they are put together.
THEOREM EachPart == Spec => Url!Spec /\ Errors!Spec /\ Pages!Spec /\ Events!Spec
<1>1. Init => Url!Init /\ Errors!Init /\ Pages!Init /\ Events!Init
  BY DEF Init, UrlRests, PagesRest, EventsRest
<1>2. [Next]_vars => [Url!Next]_(Url!vars)
  BY DEF Next, vars, url, Url!vars
<1>3. [Next]_vars => [Errors!Next]_result
  BY DEF Next, vars
<1>4. [Next]_vars => [Pages!Next]_(Pages!vars)
  BY DEF Next, vars, pages, Pages!vars
<1>5. [Next]_vars => [Events!Next]_(Events!vars)
  BY DEF Next, vars, books, Events!vars
<1> QED
  BY <1>1, <1>2, <1>3, <1>4, <1>5, PTL
     DEF Spec, Url!Spec, Errors!Spec, Pages!Spec, Events!Spec

-----------------------------------------------------------------------------
(* URLs.                                                                   *)

Text == Seq(STRING)

\* A text is its trimmed part, and slashes.
LEMMA TrimmedIs ==
  ASSUME NEW u \in Text, NEW m \in 0 .. Len(u),
         m = 0 \/ u[m] # "/", \A i \in m + 1 .. Len(u) : u[i] = "/"
  PROVE  Url!Trimmed(u) = SubSeq(u, 1, m)
<1> DEFINE T == {0} \cup {i \in 1 .. Len(u) : u[i] # "/"}
<1>1. Len(u) \in Nat
  BY DEF Text
<1>2. m \in T /\ (\A x \in T : m >= x) /\ T \subseteq Nat
  BY <1>1
<1>3. Url!Trimmed(u) = SubSeq(u, 1, CHOOSE x \in T : \A y \in T : x >= y)
  BY Zenon DEF Url!Trimmed, Url!Max, Url!Slash
<1> HIDE DEF T
<1>4. (CHOOSE x \in T : \A y \in T : x >= y) = m
  <2> DEFINE c == CHOOSE x \in T : \A y \in T : x >= y
  <2>1. c \in T /\ \A y \in T : c >= y
    BY <1>2
  <2> HIDE DEF c
  <2>2. c \in Nat /\ m \in Nat /\ c >= m /\ m >= c
    BY <1>2, <2>1
  <2>3. c = m
    BY <2>2
  <2> QED
    BY <2>3 DEF c
<1> QED
  BY <1>3, <1>4, Zenon

\* Every text has such a place.
LEMMA TrimmedAt ==
  ASSUME NEW u \in Text
  PROVE  \E m \in 0 .. Len(u) : /\ m = 0 \/ u[m] # "/"
                                /\ \A i \in m + 1 .. Len(u) : u[i] = "/"
<1> DEFINE T == {0} \cup {i \in 1 .. Len(u) : u[i] # "/"}
<1>1. Len(u) \in Nat
  BY DEF Text
<1>2. T \subseteq Int /\ T # {} /\ \A t \in T : t <= Len(u)
  BY <1>1
<1>3. PICK m \in T : \A y \in T : y <= m
  <2> HIDE DEF T
  <2>1. PICK n \in Int : n = Len(u)
    BY <1>1
  <2> QED
    BY <1>2, <2>1, GreatestInt
<1> QED
  BY <1>1, <1>3

\* A trimmed text is trimmed.
LEMMA TrimmedTwice ==
  ASSUME NEW u \in Text
  PROVE  /\ Url!Trimmed(u) \in Text
         /\ Url!Trimmed(Url!Trimmed(u)) = Url!Trimmed(u)
<1>1. PICK m \in 0 .. Len(u) : (m = 0 \/ u[m] # "/") /\ \A i \in m + 1 .. Len(u) : u[i] = "/"
  BY TrimmedAt
<1>2. Url!Trimmed(u) = SubSeq(u, 1, m)
  BY <1>1, TrimmedIs
<1> DEFINE b == SubSeq(u, 1, m)
<1>3. b \in Text /\ Len(b) = m /\ \A i \in 1 .. m : b[i] = u[i]
  BY SubSeqProperties DEF Text
<1>4. SubSeq(b, 1, m) = b
  BY <1>3 DEF Text
<1> HIDE DEF b
<1>5. Url!Trimmed(b) = SubSeq(b, 1, m)
  <2>1. m \in 0 .. Len(b) /\ (m = 0 \/ b[m] # "/") /\ \A i \in m + 1 .. Len(b) : b[i] = "/"
    BY <1>1, <1>3
  <2> QED
    BY <1>3, <2>1, TrimmedIs
<1> QED
  BY <1>2, <1>3, <1>4, <1>5 DEF b

\* A part of a text, place by place.
LEMMA PartOf ==
  ASSUME NEW x \in Text, NEW i \in 1 .. Len(x) + 1, NEW j \in i - 1 .. Len(x)
  PROVE  /\ SubSeq(x, i, j) \in Text /\ Len(SubSeq(x, i, j)) = j - i + 1
         /\ \A h \in 1 .. j - i + 1 : SubSeq(x, i, j)[h] = x[h + i - 1]
<1>1. i \in Int /\ j \in Int /\ Len(x) \in Nat /\ \A h \in i .. j : x[h] \in STRING
  BY DEF Text
<1>2. /\ SubSeq(x, i, j) \in Seq(STRING)
      /\ Len(SubSeq(x, i, j)) = IF i <= j THEN j - i + 1 ELSE 0
      /\ \A h \in 1 .. j - i + 1 : SubSeq(x, i, j)[h] = x[i + h - 1]
  BY <1>1, SubSeqProperties
<1>3. \A h \in 1 .. j - i + 1 : i + h - 1 = h + i - 1
  BY <1>1
<1> QED
  BY <1>1, <1>2, <1>3 DEF Text

\* What comes before the first symbol in stops.
LEMMA BeforeIs ==
  ASSUME NEW u \in Text, NEW stops, NEW j \in 0 .. Len(u),
         \A i \in 1 .. j : u[i] \notin stops, j = Len(u) \/ u[j + 1] \in stops
  PROVE  Url!Before(u, stops) = SubSeq(u, 1, j)
<1> DEFINE T == {Len(u)} \cup {i - 1 : i \in {i \in 1 .. Len(u) : u[i] \in stops}}
<1>1. Len(u) \in Nat
  BY DEF Text
<1>2. j \in T
  <2>1. CASE j = Len(u)
    BY <2>1
  <2>2. CASE j # Len(u)
    <3>1. j + 1 \in {i \in 1 .. Len(u) : u[i] \in stops} /\ (j + 1) - 1 = j
      BY <2>2, <1>1
    <3> QED
      BY <3>1
  <2> QED
    BY <2>1, <2>2
<1>3. \A x \in T : x \in Nat /\ j <= x
  <2> SUFFICES ASSUME NEW i \in 1 .. Len(u), u[i] \in stops PROVE i - 1 \in Nat /\ j <= i - 1
    BY <1>1
  <2> QED
    BY <1>1
<1>4. Url!Before(u, stops) = SubSeq(u, 1, CHOOSE x \in T : \A y \in T : x <= y)
  BY Zenon DEF Url!Before, Url!Min
<1> HIDE DEF T
<1>5. (CHOOSE x \in T : \A y \in T : x <= y) = j
  <2> DEFINE c == CHOOSE x \in T : \A y \in T : x <= y
  <2>1. c \in T /\ \A y \in T : c <= y
    BY <1>2, <1>3
  <2> HIDE DEF c
  <2>2. c \in Nat /\ j \in Nat /\ c <= j /\ j <= c
    BY <1>2, <1>3, <2>1
  <2>3. c = j
    BY <2>2
  <2> QED
    BY <2>3 DEF c
<1> QED
  BY <1>4, <1>5, Zenon

-----------------------------------------------------------------------------
\* (Invariant) The client's base URL is that of the configuration, trimmed, which
\* it would accept again; and what is sent starts with it.
UrlInv ==
  /\ given \in Text
  /\ made = "Ok" => base = Url!Trimmed(given) /\ Url!Made(given) = "Ok"
  /\ made # "Ok" => sent = <<>>
  /\ sent # <<>> => \E path \in Paths : sent = base \o path

\* The client that is made of a client's configuration is the same.
LEMMA MadeAgain ==
  UrlInv /\ Url!MakeAgain => /\ made' = "Ok" /\ made' = made /\ base' = base
                             /\ given' = base /\ sent' = sent
                             /\ base = Url!Trimmed(base) /\ Url!Made(base) = "Ok"
<1> SUFFICES ASSUME UrlInv, Url!MakeAgain
             PROVE  /\ made' = "Ok" /\ made' = made /\ base' = base
                    /\ given' = base /\ sent' = sent
                    /\ base = Url!Trimmed(base) /\ Url!Made(base) = "Ok"
  OBVIOUS
<1>1. /\ made = "Ok" /\ given' = base /\ made' = Url!Made(base) /\ base' = Url!Trimmed(base)
      /\ UNCHANGED <<keys, sent>>
  BY DEF Url!MakeAgain
<1>2. base = Url!Trimmed(given) /\ Url!Made(given) = "Ok" /\ given \in Text
  BY <1>1 DEF UrlInv
<1>3. Url!Trimmed(base) = base
  BY <1>2, TrimmedTwice
<1>4. Url!Made(base) = Url!Made(given)
  BY <1>2, <1>3, Zenon DEF Url!Made
<1> QED
  BY <1>1, <1>2, <1>3, <1>4

\* Trimming twice is trimming once, so what new accepted config() can be given
\* to new again.
LEMMA UrlInvariant == Spec => []UrlInv
<1>1. Url!Init => UrlInv
  BY TextsAssumption DEF Url!Init, UrlInv, Text
<1>2. ASSUME UrlInv, [Url!Next]_(Url!vars) PROVE UrlInv'
  <2>1. CASE UNCHANGED Url!vars
    <3>1. Url!Made(given)' = Url!Made(given) /\ Url!Trimmed(given)' = Url!Trimmed(given)
      BY <2>1 DEF Url!vars, Url!Made
    <3> QED
      BY <1>2, <2>1, <3>1 DEF UrlInv, Url!vars
  <2>2. CASE Url!NewClient
    BY <1>2, <2>2 DEF UrlInv, Url!NewClient, Url!Made
  <2>3. CASE Url!MakeAgain
    <3>1. Url!Trimmed(given)' = base /\ base \in Text
      BY <1>2, <2>3, MadeAgain, TrimmedTwice DEF UrlInv, Url!MakeAgain
    <3>2. Url!Made(given)' = Url!Made(base)
      BY <2>3 DEF Url!MakeAgain, Url!Made
    <3> QED
      BY <1>2, <2>3, <3>1, <3>2, MadeAgain DEF UrlInv
  <2>4. ASSUME NEW path \in Paths, Url!Request(path) PROVE UrlInv'
    BY <1>2, <2>4 DEF UrlInv, Url!Request, Url!Made
  <2> QED
    BY <1>2, <2>1, <2>2, <2>3, <2>4 DEF Url!Next
<1> QED
  BY <1>1, <1>2, EachPart, PTL DEF Url!Spec

\* A client made of the configuration of another, which is normalized, is the
\* same client, for every base URL (client.rs:33-35, config.rs:88-106).
THEOREM ConfigurationIsStable == Spec => ConfigIsStable
<1>1. UrlInv => (Url!MakeAgain => made' = made /\ base' = base)
  BY MadeAgain
<1> QED
  BY <1>1, UrlInvariant, PTL DEF ConfigIsStable, Url!ConfigIsStable

-----------------------------------------------------------------------------
\* The authority of x, and what follows it, if k is where the authority ends.
LEMMA UrlParts ==
  ASSUME NEW x \in Text, NEW k \in 4 .. Len(x) + 1, Len(x) >= 3,
         \A i \in 4 .. k - 1 : x[i] \notin Url!Ends, k = Len(x) + 1 \/ x[k] \in Url!Ends
  PROVE  /\ Url!Authority(x) = SubSeq(x, 4, k - 1)
         /\ Url!PathOf(x) = Url!Before(SubSeq(x, k, Len(x)), {"?", "#"})
<1> DEFINE r == SubSeq(x, 4, Len(x))
           a == SubSeq(x, 4, k - 1)
           p == SubSeq(x, k, Len(x))
<1>1. Len(x) \in Nat /\ \A i \in 1 .. Len(x) : x[i] \in STRING
  BY DEF Text
<1>2. r \in Text /\ Len(r) = Len(x) - 3 /\ \A i \in 1 .. Len(x) - 3 : r[i] = x[i + 3]
  <2>1. /\ r \in Text /\ Len(r) = Len(x) - 4 + 1
        /\ \A i \in 1 .. Len(x) - 4 + 1 : r[i] = x[i + 4 - 1]
    <3>1. 4 \in 1 .. Len(x) + 1 /\ Len(x) \in 4 - 1 .. Len(x)
      BY <1>1
    <3> QED
      BY <3>1, PartOf
  <2>2. Len(x) - 4 + 1 = Len(x) - 3 /\ \A i \in 1 .. Len(x) - 3 : i + 4 - 1 = i + 3
    BY <1>1
  <2> HIDE DEF r
  <2> QED
    BY <2>1, <2>2
<1>3. a \in Text /\ Len(a) = k - 4 /\ \A i \in 1 .. k - 4 : a[i] = x[i + 3]
  <2>1. /\ a \in Text /\ Len(a) = (k - 1) - 4 + 1
        /\ \A i \in 1 .. (k - 1) - 4 + 1 : a[i] = x[i + 4 - 1]
    <3>1. 4 \in 1 .. Len(x) + 1 /\ k - 1 \in 4 - 1 .. Len(x)
      BY <1>1
    <3> QED
      BY <3>1, PartOf
  <2>2. (k - 1) - 4 + 1 = k - 4 /\ \A i \in 1 .. k - 4 : i + 4 - 1 = i + 3
    BY <1>1
  <2> HIDE DEF a
  <2> QED
    BY <2>1, <2>2
<1>4. p \in Text /\ Len(p) = Len(x) - k + 1 /\ \A i \in 1 .. Len(x) - k + 1 : p[i] = x[i + k - 1]
  <2>1. k \in 1 .. Len(x) + 1 /\ Len(x) \in k - 1 .. Len(x)
    BY <1>1
  <2> QED
    BY <2>1, PartOf
<1>5. Url!Rest(x) = r
  BY DEF Url!Rest
<1> HIDE DEF r, a, p
<1>6. Url!Before(r, Url!Ends) = SubSeq(r, 1, k - 4)
  <2>1. k - 4 \in 0 .. Len(r)
    BY <1>1, <1>2
  <2>2. \A i \in 1 .. k - 4 : r[i] \notin Url!Ends
    <3> SUFFICES ASSUME NEW i \in 1 .. k - 4 PROVE r[i] \notin Url!Ends
      OBVIOUS
    <3>1. i + 3 \in 4 .. k - 1 /\ i \in 1 .. Len(x) - 3
      BY <1>1
    <3> QED
      BY <3>1, <1>2
  <2>3. k - 4 = Len(r) \/ r[(k - 4) + 1] \in Url!Ends
    <3>1. CASE k = Len(x) + 1
      BY <3>1, <1>1, <1>2
    <3>2. CASE k # Len(x) + 1
      <4>1. k - 3 \in 1 .. Len(x) - 3 /\ (k - 4) + 1 = k - 3 /\ (k - 3) + 3 = k
        BY <3>2, <1>1
      <4> QED
        BY <3>2, <4>1, <1>2
    <3> QED
      BY <3>1, <3>2
  <2> QED
    BY <1>2, <2>1, <2>2, <2>3, BeforeIs
<1>7. SubSeq(r, 1, k - 4) = a
  <2> DEFINE s == SubSeq(r, 1, k - 4)
  <2>1. /\ s \in Text /\ Len(s) = (k - 4) - 1 + 1
        /\ \A i \in 1 .. (k - 4) - 1 + 1 : s[i] = r[i + 1 - 1]
    <3>1. 1 \in 1 .. Len(r) + 1 /\ k - 4 \in 1 - 1 .. Len(r)
      BY <1>1, <1>2
    <3> QED
      BY <3>1, <1>2, PartOf
  <2> HIDE DEF s
  <2>2. Len(s) = Len(a) /\ \A i \in 1 .. Len(s) : s[i] = a[i]
    BY <2>1, <1>1, <1>2, <1>3
  <2>3. s = a
    BY <2>1, <2>2, <1>3, SeqEqual DEF Text
  <2> QED
    BY <2>3 DEF s
<1>8. Url!Authority(x) = a
  BY <1>5, <1>6, <1>7, Zenon DEF Url!Authority
<1>9. SubSeq(r, Len(a) + 1, Len(r)) = p
  <2> DEFINE s == SubSeq(r, k - 3, Len(r))
  <2>1. /\ s \in Text /\ Len(s) = Len(r) - (k - 3) + 1
        /\ \A i \in 1 .. Len(r) - (k - 3) + 1 : s[i] = r[i + (k - 3) - 1]
    <3>1. k - 3 \in 1 .. Len(r) + 1 /\ Len(r) \in (k - 3) - 1 .. Len(r)
      BY <1>1, <1>2
    <3> QED
      BY <3>1, <1>2, PartOf
  <2> HIDE DEF s
  <2>2. Len(s) = Len(p) /\ \A i \in 1 .. Len(s) : s[i] = p[i]
    <3>1. Len(s) = Len(p)
      BY <2>1, <1>1, <1>2, <1>4
    <3>2. ASSUME NEW i \in 1 .. Len(s) PROVE s[i] = p[i]
      <4>1. /\ i \in 1 .. Len(r) - (k - 3) + 1 /\ i + (k - 3) - 1 \in 1 .. Len(x) - 3
            /\ (i + (k - 3) - 1) + 3 = i + k - 1 /\ i \in 1 .. Len(x) - k + 1
        BY <3>1, <1>1, <1>2, <1>4
      <4> QED
        BY <4>1, <2>1, <1>2, <1>4
    <3> QED
      BY <3>1, <3>2
  <2>3. s = p
    BY <2>1, <2>2, <1>4, SeqEqual DEF Text
  <2>4. Len(a) + 1 = k - 3
    BY <1>3
  <2> QED
    BY <2>3, <2>4 DEF s
<1>10. Url!PathOf(x) = Url!Before(p, {"?", "#"})
  BY <1>5, <1>8, <1>9, Zenon DEF Url!PathOf
<1> QED
  BY <1>8, <1>10 DEF a, p

\* The first symbol in stops, if there is one.
LEMMA FirstStop ==
  ASSUME NEW x \in Text, NEW stops
  PROVE  \E j \in 0 .. Len(x) : /\ \A i \in 1 .. j : x[i] \notin stops
                                /\ j = Len(x) \/ x[j + 1] \in stops
<1> DEFINE T == {i \in 1 .. Len(x) : x[i] \in stops}
<1>1. Len(x) \in Nat
  BY DEF Text
<1>2. CASE T = {}
  BY <1>1, <1>2
<1>3. CASE T # {}
  <2>1. PICK k \in T : \A i \in T : k <= i
    <3>1. T \subseteq Nat
      BY <1>1
    <3> HIDE DEF T
    <3> QED
      BY <1>3, <3>1, LeastNat
  <2>2. k - 1 \in 0 .. Len(x) /\ (k - 1) + 1 = k
    BY <1>1
  <2>3. \A i \in 1 .. k - 1 : x[i] \notin stops
    BY <1>1, <2>1
  <2> QED
    BY <2>1, <2>2, <2>3
<1> QED
  BY <1>2, <1>3

\* A URL that is accepted has a host.
LEMMA HostIs ==
  ASSUME NEW b \in Text, Url!HostAccepted(b)
  PROVE  Len(b) >= 4 /\ b[4] # "/"
<1>0. Len(b) \in Nat
  BY DEF Text
<1>1. Len(b) >= 3
  <2>1. PICK scheme \in Url!Schemes : Url!IsPrefix(scheme, b)
    BY DEF Url!HostAccepted, Url!HasScheme
  <2>2. Len(scheme) = 3
    BY DEF Url!Schemes, Url!Slash
  <2> QED
    BY <2>1, <2>2 DEF Url!IsPrefix
<1> DEFINE r == SubSeq(b, 4, Len(b))
<1>2. r \in Text /\ Len(r) = Len(b) - 3 /\ \A h \in 1 .. Len(b) - 3 : r[h] = b[h + 3]
  <2>1. 4 \in 1 .. Len(b) + 1 /\ Len(b) \in 4 - 1 .. Len(b)
    BY <1>0, <1>1
  <2>2. /\ r \in Text /\ Len(r) = Len(b) - 4 + 1
        /\ \A h \in 1 .. Len(b) - 4 + 1 : r[h] = b[h + 4 - 1]
    BY <2>1, PartOf
  <2>3. Len(b) - 4 + 1 = Len(b) - 3 /\ \A h \in 1 .. Len(b) - 3 : h + 4 - 1 = h + 3
    BY <1>0
  <2> HIDE DEF r
  <2> QED
    BY <2>2, <2>3
<1>3. Url!Before(r, {"/"}) # <<>>
  BY DEF Url!HostAccepted, Url!Rest, Url!Slash
<1> HIDE DEF r
<1>4. ~(0 = Len(r) \/ r[0 + 1] \in {"/"})
  <2> SUFFICES ASSUME 0 = Len(r) \/ r[0 + 1] \in {"/"} PROVE FALSE
    OBVIOUS
  <2>1. 0 \in 0 .. Len(r) /\ \A i \in 1 .. 0 : r[i] \notin {"/"}
    BY <1>0, <1>1, <1>2
  <2>2. Url!Before(r, {"/"}) = SubSeq(r, 1, 0)
    BY <1>2, <2>1, BeforeIs
  <2>3. SubSeq(r, 1, 0) = <<>>
    BY SubSeqEmpty
  <2> QED
    BY <1>3, <2>2, <2>3
<1>5. Len(b) >= 4
  BY <1>0, <1>1, <1>2, <1>4
<1>6. r[1] = b[4]
  BY <1>0, <1>2, <1>5
<1> QED
  BY <1>4, <1>5, <1>6

\* What is sent has the authority of the configured URL, and its path and then
\* that of the API.
LEMMA SentIs ==
  ASSUME NEW u \in Text, Url!Plain(u), Url!HostAccepted(Url!Trimmed(u)),
         NEW path \in Paths, NEW s, s = Url!Trimmed(u) \o path
  PROVE  /\ Url!Authority(s) = Url!Authority(u)
         /\ \E n \in 0 .. Len(Url!PathOf(u)) :
              /\ Url!Stem(SubSeq(Url!PathOf(u), 1, n), Url!PathOf(u))
              /\ Url!PathOf(s) = SubSeq(Url!PathOf(u), 1, n) \o Url!Before(path, {"?", "#"})
<1>1. PICK m \in 0 .. Len(u) : (m = 0 \/ u[m] # "/") /\ \A i \in m + 1 .. Len(u) : u[i] = "/"
  BY TrimmedAt
<1> DEFINE b == SubSeq(u, 1, m)
<1>2. Len(u) \in Nat /\ m \in Nat /\ m <= Len(u) /\ b = Url!Trimmed(u)
  BY <1>1, TrimmedIs DEF Text
<1>3. b \in Text /\ Len(b) = m /\ \A i \in 1 .. m : b[i] = u[i]
  BY <1>2, SubSeqProperties DEF Text
<1> HIDE DEF b
<1>4. m >= 4 /\ u[4] # "/"
  BY <1>2, <1>3, HostIs
<1>5. path \in Text /\ Len(path) \in Nat /\ Len(path) >= 1 /\ path[1] = "/"
  BY TextsAssumption DEF Text
<1>6. /\ s \in Text /\ Len(s) = m + Len(path)
      /\ \A i \in 1 .. m : s[i] = u[i]
      /\ \A i \in 1 .. Len(path) : s[m + i] = path[i]
  <2>1. s = b \o path
    BY <1>2
  <2>2. /\ b \o path \in Seq(STRING) /\ Len(b \o path) = Len(b) + Len(path)
        /\ \A i \in 1 .. Len(b) : (b \o path)[i] = b[i]
        /\ \A i \in 1 .. Len(path) : (b \o path)[Len(b) + i] = path[i]
    <3>1. b \in Seq(STRING) /\ path \in Seq(STRING)
      BY <1>3, <1>5 DEF Text
    <3> QED
      BY <3>1, ConcatProperties
  <2> DEFINE both == b \o path
  <2> HIDE DEF both
  <2>3. s = both /\ Len(b) = m /\ \A i \in 1 .. m : b[i] = u[i]
    BY <2>1, <1>3 DEF both
  <2> QED
    BY <2>2, <2>3 DEF Text, both
<1>7. s[m + 1] = "/"
  BY <1>5, <1>6
<1>8. \A i \in 1 .. Len(u) : u[i] \notin {"?", "#"}
  BY DEF Url!Plain, Url!Contains
<1>9. PICK k \in 5 .. m + 1 : s[k] = "/" /\ \A i \in 4 .. k - 1 : s[i] # "/"
  <2> DEFINE T == {i \in 4 .. m + 1 : s[i] = "/"}
  <2>1. T \subseteq Nat /\ T # {}
    <3>1. m + 1 \in 4 .. m + 1
      BY <1>2, <1>4
    <3>2. m + 1 \in T
      BY <3>1, <1>7
    <3>3. \A i \in 4 .. m + 1 : i \in Nat
      BY <1>2
    <3> QED
      BY <3>2, <3>3
  <2>2. PICK k \in T : \A i \in T : k <= i
    <3> HIDE DEF T
    <3> QED
      BY <2>1, LeastNat
  <2>3. k # 4
    <3>1. 4 \in 1 .. m
      BY <1>2, <1>4
    <3> QED
      BY <2>2, <3>1, <1>4, <1>6
  <2>4. k \in 5 .. m + 1 /\ s[k] = "/"
    <3>1. k \in 4 .. m + 1 /\ s[k] = "/"
      BY <2>2
    <3> QED
      BY <3>1, <2>3, <1>2
  <2>5. ASSUME NEW i \in 4 .. k - 1 PROVE s[i] # "/"
    <3>1. i \in 4 .. m + 1 /\ ~(k <= i)
      BY <2>4, <1>2
    <3> QED
      BY <2>2, <3>1
  <2> QED
    BY <2>4, <2>5
<1>10. \A i \in 4 .. k - 1 : u[i] = s[i] /\ s[i] \notin Url!Ends
  <2> SUFFICES ASSUME NEW i \in 4 .. k - 1 PROVE u[i] = s[i] /\ s[i] \notin Url!Ends
    OBVIOUS
  <2>1. i \in 1 .. m /\ i \in 1 .. Len(u)
    BY <1>2
  <2> QED
    BY <2>1, <1>6, <1>8, <1>9 DEF Url!Ends, Url!Slash
<1>11. k = Len(u) + 1 \/ u[k] = "/"
  <2>1. CASE k <= m
    BY <2>1, <1>2, <1>6, <1>9
  <2>2. CASE k = m + 1
    BY <2>2, <1>1, <1>2
  <2> QED
    BY <2>1, <2>2, <1>2
<1> DEFINE q == SubSeq(u, k, Len(u))
           t == SubSeq(s, k, Len(s))
<1>12. /\ Url!Authority(u) = SubSeq(u, 4, k - 1)
       /\ Url!PathOf(u) = Url!Before(q, {"?", "#"})
  <2>1. k \in 4 .. Len(u) + 1 /\ Len(u) >= 3
    BY <1>2, <1>4
  <2>2. \A i \in 4 .. k - 1 : u[i] \notin Url!Ends
    BY <1>10
  <2>3. k = Len(u) + 1 \/ u[k] \in Url!Ends
    BY <1>11 DEF Url!Ends, Url!Slash
  <2> QED
    BY <2>1, <2>2, <2>3, UrlParts
<1>13. /\ Url!Authority(s) = SubSeq(s, 4, k - 1)
       /\ Url!PathOf(s) = Url!Before(t, {"?", "#"})
  <2>1. k \in 4 .. Len(s) + 1 /\ Len(s) >= 3
    BY <1>2, <1>4, <1>5, <1>6
  <2>2. \A i \in 4 .. k - 1 : s[i] \notin Url!Ends
    BY <1>10
  <2>3. k = Len(s) + 1 \/ s[k] \in Url!Ends
    BY <1>9 DEF Url!Ends, Url!Slash
  <2> QED
    BY <1>6, <2>1, <2>2, <2>3, UrlParts
<1>14. SubSeq(s, 4, k - 1) = SubSeq(u, 4, k - 1)
  <2>1. /\ 4 \in 1 .. Len(u) + 1 /\ k - 1 \in 4 - 1 .. Len(u)
        /\ 4 \in 1 .. Len(s) + 1 /\ k - 1 \in 4 - 1 .. Len(s)
    BY <1>2, <1>4, <1>5, <1>6
  <2>2. /\ SubSeq(s, 4, k - 1) \in Text /\ SubSeq(u, 4, k - 1) \in Text
        /\ Len(SubSeq(s, 4, k - 1)) = (k - 1) - 4 + 1
        /\ Len(SubSeq(u, 4, k - 1)) = (k - 1) - 4 + 1
        /\ \A h \in 1 .. (k - 1) - 4 + 1 : /\ SubSeq(s, 4, k - 1)[h] = s[h + 4 - 1]
                                           /\ SubSeq(u, 4, k - 1)[h] = u[h + 4 - 1]
    BY <1>6, <2>1, PartOf
  <2>3. \A h \in 1 .. (k - 1) - 4 + 1 : h + 4 - 1 \in 4 .. k - 1
    BY <1>2
  <2>4. \A h \in 1 .. (k - 1) - 4 + 1 : SubSeq(s, 4, k - 1)[h] = SubSeq(u, 4, k - 1)[h]
    BY <2>2, <2>3, <1>10
  <2> QED
    BY <2>2, <2>4, SeqEqual DEF Text
<1>15. /\ q \in Text /\ Len(q) = Len(u) - k + 1
       /\ \A h \in 1 .. Len(u) - k + 1 : q[h] = u[h + k - 1]
  <2>1. k \in 1 .. Len(u) + 1 /\ Len(u) \in k - 1 .. Len(u)
    BY <1>2
  <2> QED
    BY <2>1, PartOf
<1>16. /\ t \in Text /\ Len(t) = m + Len(path) - k + 1
       /\ \A h \in 1 .. m + Len(path) - k + 1 : t[h] = s[h + k - 1]
  <2>1. k \in 1 .. Len(s) + 1 /\ Len(s) \in k - 1 .. Len(s)
    BY <1>2, <1>5, <1>6
  <2>2. /\ t \in Text /\ Len(t) = Len(s) - k + 1
        /\ \A h \in 1 .. Len(s) - k + 1 : t[h] = s[h + k - 1]
    BY <2>1, <1>6, PartOf
  <2> HIDE DEF t
  <2> QED
    BY <2>2, <1>6
<1> HIDE DEF q, t
<1>17. Url!PathOf(u) = q
  <2>1. Len(q) \in 0 .. Len(q) /\ \A i \in 1 .. Len(q) : q[i] \notin {"?", "#"}
    <3> SUFFICES ASSUME NEW i \in 1 .. Len(q) PROVE q[i] \notin {"?", "#"}
      BY <1>2, <1>15
    <3>1. i + k - 1 \in 1 .. Len(u) /\ i \in 1 .. Len(u) - k + 1
      BY <1>2, <1>15
    <3> QED
      BY <3>1, <1>8, <1>15
  <2>2. Url!Before(q, {"?", "#"}) = SubSeq(q, 1, Len(q))
    BY <2>1, <1>15, BeforeIs
  <2>3. SubSeq(q, 1, Len(q)) = q
    BY <1>15, SubSeqFull DEF Text
  <2> QED
    BY <2>2, <2>3, <1>12
<1> DEFINE n == m - k + 1
<1>18. n \in Nat /\ n <= Len(q) /\ n \in 0 .. Len(q)
  BY <1>2, <1>15
<1>19. \A h \in 1 .. n : q[h] = u[h + k - 1] /\ t[h] = q[h] /\ h + k - 1 \in 1 .. m
  <2> SUFFICES ASSUME NEW h \in 1 .. n
               PROVE  q[h] = u[h + k - 1] /\ t[h] = q[h] /\ h + k - 1 \in 1 .. m
    OBVIOUS
  <2>1. /\ h + k - 1 \in 1 .. m /\ h \in 1 .. Len(u) - k + 1
        /\ h \in 1 .. m + Len(path) - k + 1
    BY <1>2, <1>5
  <2> QED
    BY <2>1, <1>6, <1>15, <1>16
<1>20. \A h \in 1 .. Len(path) : t[n + h] = path[h]
  <2> SUFFICES ASSUME NEW h \in 1 .. Len(path) PROVE t[n + h] = path[h]
    OBVIOUS
  <2>1. n + h \in 1 .. m + Len(path) - k + 1 /\ (n + h) + k - 1 = m + h
    BY <1>2, <1>5
  <2> QED
    BY <2>1, <1>6, <1>16
<1> HIDE DEF n
<1>21. PICK j \in 0 .. Len(path) : /\ \A i \in 1 .. j : path[i] \notin {"?", "#"}
                                   /\ j = Len(path) \/ path[j + 1] \in {"?", "#"}
  BY <1>5, FirstStop
<1>22. Url!Before(path, {"?", "#"}) = SubSeq(path, 1, j)
  BY <1>5, <1>21, BeforeIs
<1>23. Len(t) = n + Len(path)
  BY <1>2, <1>5, <1>16 DEF n
<1>24. Url!PathOf(s) = SubSeq(t, 1, n + j)
  <2>1. n + j \in 0 .. Len(t)
    BY <1>5, <1>18, <1>23
  <2>2. ASSUME NEW i \in 1 .. n + j PROVE t[i] \notin {"?", "#"}
    <3>1. CASE i <= n
      <4>1. i \in 1 .. n
        BY <3>1, <1>18
      <4> QED
        BY <4>1, <1>2, <1>8, <1>19
    <3>2. CASE i > n
      <4>1. i - n \in 1 .. j /\ i - n \in 1 .. Len(path) /\ n + (i - n) = i
        BY <3>2, <1>5, <1>18
      <4> QED
        BY <4>1, <1>20, <1>21
    <3> QED
      BY <3>1, <3>2, <1>18
  <2>3. n + j = Len(t) \/ t[(n + j) + 1] \in {"?", "#"}
    <3>1. CASE j = Len(path)
      BY <3>1, <1>23
    <3>2. CASE j # Len(path)
      <4>1. j + 1 \in 1 .. Len(path) /\ n + (j + 1) = (n + j) + 1
        BY <3>2, <1>5, <1>18
      <4> QED
        BY <3>2, <4>1, <1>20, <1>21
    <3> QED
      BY <3>1, <3>2
  <2> QED
    BY <2>1, <2>2, <2>3, <1>13, <1>16, BeforeIs
<1>25. /\ SubSeq(q, 1, n) \in Text /\ Len(SubSeq(q, 1, n)) = n
       /\ \A h \in 1 .. n : SubSeq(q, 1, n)[h] = q[h]
  BY <1>15, <1>18, SubSeqProperties DEF Text
<1>26. /\ SubSeq(path, 1, j) \in Text /\ Len(SubSeq(path, 1, j)) = j
       /\ \A h \in 1 .. j : SubSeq(path, 1, j)[h] = path[h]
  BY <1>5, SubSeqProperties DEF Text
<1>27. SubSeq(t, 1, n + j) = SubSeq(q, 1, n) \o SubSeq(path, 1, j)
  <2> DEFINE stem == SubSeq(q, 1, n)
             tail == SubSeq(path, 1, j)
             both == stem \o tail
             piece == SubSeq(t, 1, n + j)
  <2>1. /\ piece \in Text /\ Len(piece) = n + j
        /\ \A h \in 1 .. n + j : piece[h] = t[h]
    <3>1. n + j \in 0 .. Len(t)
      BY <1>5, <1>18, <1>23
    <3> QED
      BY <3>1, <1>16, SubSeqProperties DEF Text
  <2> HIDE DEF stem, tail, piece
  <2>2. /\ both \in Text /\ Len(both) = n + j
        /\ \A h \in 1 .. n : both[h] = stem[h]
        /\ \A h \in 1 .. j : both[n + h] = tail[h]
    BY <1>18, <1>25, <1>26 DEF Text, stem, tail
  <2> HIDE DEF both
  <2>3. ASSUME NEW h \in 1 .. n + j PROVE piece[h] = both[h]
    <3>1. CASE h <= n
      <4>1. h \in 1 .. n
        BY <3>1, <1>18
      <4> QED
        BY <4>1, <2>1, <2>2, <1>19, <1>25 DEF stem
    <3>2. CASE h > n
      <4>1. h - n \in 1 .. j /\ h - n \in 1 .. Len(path) /\ n + (h - n) = h
        BY <3>2, <1>5, <1>18
      <4> QED
        BY <4>1, <2>1, <2>2, <1>20, <1>26 DEF tail
    <3> QED
      BY <3>1, <3>2, <1>18
  <2>4. piece = both
    BY <2>1, <2>2, <2>3, SeqEqual DEF Text
  <2> QED
    BY <2>4 DEF piece, both, stem, tail
<1>28. Url!Stem(SubSeq(q, 1, n), q)
  <2> DEFINE stem == SubSeq(q, 1, n)
  <2>1. Url!IsPrefix(stem, q)
    <3>1. SubSeq(stem, 1, n) = stem
      BY <1>25, SubSeqFull DEF Text
    <3> QED
      BY <3>1, <1>18, <1>25 DEF Url!IsPrefix
  <2>2. stem = <<>> \/ Url!Last(stem) # "/"
    <3>1. CASE n = 0
      <4>1. stem = <<>>
        BY <3>1, <1>15, SubSeqEmpty
      <4> QED
        BY <4>1
    <3>2. CASE n # 0
      <4>1. n \in 1 .. n /\ n + k - 1 = m
        BY <3>2, <1>2, <1>18 DEF n
      <4>2. stem[n] = u[m]
        BY <4>1, <1>19, <1>25
      <4> QED
        <5>1. u[m] # "/"
          BY <1>1, <1>2, <1>4
        <5>2. Len(stem) = n
          BY <1>25
        <5> HIDE DEF stem
        <5> QED
          BY <4>2, <5>1, <5>2 DEF Url!Last
    <3> QED
      BY <3>1, <3>2
  <2>3. \A i \in n + 1 .. Len(q) : q[i] = "/"
    <3> SUFFICES ASSUME NEW i \in n + 1 .. Len(q) PROVE q[i] = "/"
      OBVIOUS
    <3>1. i \in 1 .. Len(u) - k + 1 /\ i + k - 1 \in m + 1 .. Len(u)
      BY <1>2, <1>15, <1>18 DEF n
    <3> QED
      BY <3>1, <1>1, <1>15
  <2> HIDE DEF stem
  <2> QED
    BY <2>1, <2>2, <2>3, <1>25 DEF Url!Stem, Url!Slash, stem
<1> QED
  BY <1>12, <1>13, <1>14, <1>17, <1>18, <1>22, <1>24, <1>27, <1>28

\* A request goes to the authority and to the path that were configured, for
\* every base URL that MpcClient::new accepts and every path of the API
\* (client.rs:52-55, 84-86).
THEOREM RequestsGoThere == Spec => []RequestsGoWhereConfigured
<1>1. UrlInv => RequestsGoWhereConfigured
  <2> SUFFICES ASSUME UrlInv, sent # <<>>, Url!Plain(given)
               PROVE  /\ Url!Authority(sent) = Url!Authority(given)
                      /\ \E path \in Paths, n \in 0 .. Len(Url!PathOf(given)) :
                           LET stem == SubSeq(Url!PathOf(given), 1, n) IN
                           /\ Url!Stem(stem, Url!PathOf(given))
                           /\ Url!PathOf(sent) = stem \o Url!Before(path, {"?", "#"})
    BY DEF RequestsGoWhereConfigured, Url!RequestsGoWhereConfigured
  <2>1. PICK path \in Paths : sent = base \o path
    BY DEF UrlInv
  <2>2. /\ given \in Text /\ base = Url!Trimmed(given) /\ Url!HostAccepted(Url!Trimmed(given))
    BY DEF UrlInv, Url!Made
  <2>3. sent = Url!Trimmed(given) \o path
    BY <2>1, <2>2
  <2> QED
    BY <2>2, <2>3, SentIs
<1> QED
  BY <1>1, UrlInvariant, PTL

-----------------------------------------------------------------------------
(* Errors.                                                                 *)

\* (Invariant) Whatever is decoded has not failed.
ResultOK ==
  /\ result.variant \in {"Api", "Decode", "Http", "InvalidConfig", "Ok"}
  /\ result.http \in Nat
  /\ result.variant = "Api" <=> result.http >= 400

\* Every call of a client returns such a result (client.rs:191-216).
LEMMA ResultInvariant == Spec => []ResultOK
<1> USE DEF ResultOK, Errors!Silent
<1>1. Errors!Init => ResultOK
  BY DEF Errors!Init
<1>2. ASSUME ResultOK, [Errors!Next]_result PROVE ResultOK'
  <2>1. CASE UNCHANGED result
    BY <1>2, <2>1
  <2>2. CASE Errors!NoReply \/ Errors!NotSerialized
    BY <2>2 DEF Errors!NoReply, Errors!NotSerialized, Errors!Decode
  <2>3. ASSUME NEW http \in Statuses, Errors!Garbled(http) PROVE ResultOK'
    <3>1. http \in Nat
      BY StatusesAssumption
    <3> QED
      BY <2>3, <3>1 DEF Errors!Garbled, Errors!Failed, Errors!Api, Errors!Decode
  <2>4. ASSUME NEW http \in Statuses, NEW code, NEW msg, Errors!Replied(http, code, msg)
        PROVE  ResultOK'
    <3>1. http \in Nat
      BY StatusesAssumption
    <3> QED
      BY <2>4, <3>1 DEF Errors!Replied, Errors!Failed, Errors!Api
  <2> QED
    BY <1>2, <2>1, <2>2, <2>3, <2>4 DEF Errors!Next
<1> QED
  BY <1>1, <1>2, EachPart, PTL DEF Errors!Spec

\* No error answers to two predicates, whatever its status, code and message
\* (error.rs:204-219).
THEOREM ErrorsHaveOneAnswer == Spec => []OneAnswer
<1>1. OneAnswer
  BY DEF OneAnswer, Errors!OneAnswer, Errors!Is
<1> QED
  BY <1>1, PTL

\* The kind of a status that is read by itself, and of no other.
LEMMA KindOfStatus ==
  ASSUME NEW http \in Nat, NEW code, NEW msg, NEW kind, kind = Errors!Kind(http, code, msg)
  PROVE  /\ kind = "NotFound" <=> http = 404
         /\ kind = "RateLimited" <=> http = 429
         /\ kind \in {"TokenExpired", "Forbidden", "Unauthorized"} <=> http \in {401, 403}
         /\ kind \in {"EngineBusy", "ChainRpcUnavailable", "ServiceUnavailable"} <=> http = 503
<1>1. CASE http = 400
  <2>1. kind = Errors!BadRequestKind(code, msg)
    BY <1>1 DEF Errors!Kind
  <2>2. kind \in {"Rejected", "DuplicateReferenceId", "UnsupportedOperation",
                  "InsufficientBalance", "TransactionFailed", "BadRequest"}
    BY <2>1 DEF Errors!BadRequestKind
  <2> QED
    BY <1>1, <2>2
<1>2. CASE http = 503
  <2>1. kind = Errors!UnavailableKind(msg)
    BY <1>2 DEF Errors!Kind
  <2>2. kind \in {"EngineBusy", "ChainRpcUnavailable", "ServiceUnavailable"}
    BY <2>1 DEF Errors!UnavailableKind
  <2> QED
    BY <1>2, <2>2
<1>3. CASE http \notin {400, 503}
  <2>1. /\ http = 401 => kind \in {"TokenExpired", "Unauthorized"}
        /\ http = 403 => kind = "Forbidden"
        /\ http = 404 => kind = "NotFound"
        /\ http = 429 => kind = "RateLimited"
        /\ http \notin {401, 403, 404, 429}
             => kind \in {"Conflict", "EndpointRetired", "ServerError", "Other"}
    BY <1>3 DEF Errors!Kind
  <2> QED
    BY <1>3, <2>1
<1> QED
  BY <1>1, <1>2, <1>3

\* Free functions, methods and status() agree on every error a call returns,
\* for all statuses (error.rs:317-328, 358-377).
THEOREM ErrorAccessorsAgree == Spec => []AccessorsAgree
<1>1. ASSUME ResultOK PROVE AccessorsAgree
  <2> USE DEF AccessorsAgree, Errors!AccessorsAgree, Errors!IsNotFoundFn, Errors!IsRateLimitedFn,
              Errors!IsAuthErrorFn, Errors!IsServiceUnavailable, Errors!StatusIs, Errors!Is,
              Errors!KindOf, Errors!None
  <2>1. CASE result.variant = "Api"
    BY <1>1, <2>1, KindOfStatus DEF ResultOK
  <2>2. CASE result.variant # "Api"
    BY <1>1, <2>2 DEF ResultOK
  <2> QED
    BY <2>1, <2>2
<1> QED
  BY <1>1, ResultInvariant, PTL

-----------------------------------------------------------------------------
(* Lists.                                                                  *)

Row == [id : Nat \ {0}, fits : SUBSET {"wallet_id", "account_id", "chain", "status"}]

\* The rows are numbered as they come; the filters are some of the list's.
RowsOK ==
  /\ list \in Lists
  /\ req \in [filters : SUBSET Pages!FilterNames(list), size : Sizes]
  /\ asked \in Nat /\ more \in BOOLEAN
  /\ rows \in Seq(Row)
  /\ \A k \in 1 .. Len(rows) : rows[k].id <= Len(rows)
  /\ \A j, k \in 1 .. Len(rows) : rows[j].id = rows[k].id => j = k

\* Whoever asks by status asks by nothing else.
LEMMA FilterNamesOf ==
  ASSUME list \in Lists
  PROVE  /\ Pages!FilterNames(list) \subseteq {"wallet_id", "account_id", "chain", "status"}
         /\ "status" \in Pages!FilterNames(list) => Pages!FilterNames(list) = {"status"}
<1>1. list \in {"wallets", "accounts", "assets", "transactions", "settlements"}
  BY ListsAssumption
<1> QED
  BY <1>1 DEF Pages!FilterNames

\* The value of a name that the query has not, or has once.
LEMMA ValueOf ==
  ASSUME NEW query, NEW name, NEW value, NEW default
  PROVE  /\ (\A q \in query : q[1] # name) => Pages!Value(query, name, default) = default
         /\ /\ <<name, value>> \in query
            /\ \A q \in query : q[1] = name => q = <<name, value>>
            => Pages!Value(query, name, default) = value
<1> DEFINE pairs  == {q \in query : q[1] = name}
           values == {p[2] : p \in pairs}
<1>1. Pages!Value(query, name, default)
        = IF values = {} THEN default ELSE CHOOSE v \in values : TRUE
  BY Zenon DEF Pages!Value
<1>2. ASSUME <<name, value>> \in query, \A q \in query : q[1] = name => q = <<name, value>>
      PROVE  values = {value}
  <2>1. pairs = {<<name, value>>}
    BY <1>2
  <2> HIDE DEF pairs
  <2> QED
    BY <2>1
<1>3. ASSUME \A q \in query : q[1] # name PROVE values = {}
  <2>1. pairs = {}
    BY <1>3
  <2> HIDE DEF pairs
  <2> QED
    BY <2>1
<1> HIDE DEF values
<1>4. (CHOOSE v \in {value} : TRUE) = value
  OBVIOUS
<1>5. ASSUME values = {value} PROVE (CHOOSE v \in values : TRUE) = value
  BY <1>4, <1>5, Zenon
<1> QED
  BY <1>1, <1>2, <1>3, <1>5

\* A query's filters are the request's; its page and page size, too.
LEMMA QueryOf ==
  ASSUME RowsOK, NEW page \in Nat
  PROVE  /\ {name \in Pages!FilterNames(list) : <<name, "asked">> \in Pages!Query(page)}
              = req.filters
         /\ Pages!Value(Pages!Query(page), "page", 1) = IF page = 0 THEN 1 ELSE page
         /\ Pages!Value(Pages!Query(page), "page_size", DefaultSize) = Pages!Size
<1> DEFINE query == Pages!Query(page)
           asks  == {<<name, "asked">> : name \in req.filters}
<1>1. req.filters \subseteq Pages!FilterNames(list) /\ req.size \in Nat
  BY ListsAssumption DEF RowsOK
<1>2. Pages!FilterNames(list) \subseteq {"wallet_id", "account_id", "chain", "status"}
  BY FilterNamesOf DEF RowsOK
<1>3. query = asks \cup Pages!Paged(page)
  <2>0. list \in {"wallets", "accounts", "assets", "transactions", "settlements"}
    BY ListsAssumption DEF RowsOK
  <2>1. CASE list = "wallets"
    BY <1>1, <2>1 DEF Pages!Query, Pages!ListWallets, Pages!FilterNames
  <2>2. CASE list = "accounts"
    BY <1>1, <2>2 DEF Pages!Query, Pages!ListAccounts, Pages!FilterNames, Pages!Filter
  <2>3. CASE list = "assets"
    BY <1>1, <2>3 DEF Pages!Query, Pages!ListAssets, Pages!FilterNames, Pages!Filter
  <2>4. CASE list = "transactions"
    BY <1>1, <2>4 DEF Pages!Query, Pages!ListTransactions, Pages!FilterNames, Pages!Filter
  <2>5. CASE list = "settlements"
    BY <1>1, <2>5 DEF Pages!Query, Pages!X402ListSettlements, Pages!FilterNames, Pages!Filter
  <2> QED
    BY <2>0, <2>1, <2>2, <2>3, <2>4, <2>5
<1>4. Pages!Paged(page) = (IF page = 0 THEN {} ELSE {<<"page", page>>})
                            \cup (IF req.size = 0 THEN {} ELSE {<<"page_size", req.size>>})
  BY DEF Pages!Paged, Pages!Param, Pages!Unset
<1>5. \A name \in Pages!FilterNames(list) : <<name, "asked">> \in query <=> name \in req.filters
  <2> SUFFICES ASSUME NEW name \in Pages!FilterNames(list)
               PROVE  <<name, "asked">> \in query <=> name \in req.filters
    OBVIOUS
  <2>1. name # "page" /\ name # "page_size"
    BY <1>2
  <2>2. <<name, "asked">> \notin Pages!Paged(page)
    BY <2>1, <1>4
  <2> HIDE DEF query
  <2> QED
    BY <2>2, <1>3
<1>6. \A q \in query : q[1] = "page" => page # 0 /\ q = <<"page", page>>
  <2>1. \A q \in asks : q[1] # "page"
    BY <1>1, <1>2
  <2> HIDE DEF query, asks
  <2> QED
    BY <2>1, <1>3, <1>4
<1>7. \A q \in query : q[1] = "page_size" =>
                          req.size # 0 /\ q = <<"page_size", req.size>>
  <2>1. \A q \in asks : q[1] # "page_size"
    BY <1>1, <1>2
  <2> HIDE DEF query, asks
  <2> QED
    BY <2>1, <1>3, <1>4
<1> HIDE DEF query, asks
<1>8. Pages!Value(query, "page", 1) = IF page = 0 THEN 1 ELSE page
  <2>1. page # 0 => <<"page", page>> \in query
    BY <1>3, <1>4
  <2> QED
    BY <2>1, <1>6, ValueOf
<1>9. Pages!Value(query, "page_size", DefaultSize) = Pages!Size
  <2>1. Pages!Value(query, "page_size", DefaultSize)
          = IF req.size = 0 THEN DefaultSize ELSE req.size
    <3>1. req.size # 0 => <<"page_size", req.size>> \in query
      BY <1>3, <1>4
    <3> QED
      BY <3>1, <1>7, ValueOf
  <2> QED
    BY <2>1 DEF Pages!Size, Pages!Unset
<1> QED
  BY <1>5, <1>8, <1>9, <1>1 DEF query

\* A row that is put in leaves the others in their order.
LEMMA Inserted ==
  ASSUME NEW s \in Seq(Row), NEW at \in 1 .. Len(s) + 1, NEW row \in Row
  PROVE  /\ Pages!InsertAt(s, at, row) \in Seq(Row)
         /\ Len(Pages!InsertAt(s, at, row)) = Len(s) + 1
         /\ \A k \in 1 .. at - 1 : Pages!InsertAt(s, at, row)[k] = s[k]
         /\ Pages!InsertAt(s, at, row)[at] = row
         /\ \A k \in at .. Len(s) : Pages!InsertAt(s, at, row)[k + 1] = s[k]
<1> DEFINE head == SubSeq(s, 1, at - 1)
           tail == SubSeq(s, at, Len(s))
<1>1. head \in Seq(Row) /\ Len(head) = at - 1 /\ \A k \in 1 .. at - 1 : head[k] = s[k]
  BY SubSeqProperties
<1>2. /\ tail \in Seq(Row) /\ Len(tail) = Len(s) - at + 1
      /\ \A k \in 1 .. Len(s) - at + 1 : tail[k] = s[at + k - 1]
  BY SubSeqProperties
<1>3. Pages!InsertAt(s, at, row) = (head \o <<row>>) \o tail
  BY DEF Pages!InsertAt
<1> HIDE DEF head, tail
<1> DEFINE front == head \o <<row>>
<1>4. /\ front \in Seq(Row) /\ Len(front) = at
      /\ \A k \in 1 .. at - 1 : front[k] = s[k]
      /\ front[at] = row
  BY <1>1
<1> HIDE DEF front
<1>5. /\ front \o tail \in Seq(Row) /\ Len(front \o tail) = Len(s) + 1
      /\ \A k \in 1 .. at : (front \o tail)[k] = front[k]
      /\ \A k \in 1 .. Len(s) - at + 1 : (front \o tail)[at + k] = tail[k]
  <2>1. /\ front \o tail \in Seq(Row) /\ Len(front \o tail) = Len(front) + Len(tail)
        /\ \A k \in 1 .. Len(front) : (front \o tail)[k] = front[k]
        /\ \A k \in 1 .. Len(tail) : (front \o tail)[Len(front) + k] = tail[k]
    BY <1>2, <1>4, ConcatProperties
  <2> QED
    BY <2>1, <1>2, <1>4
<1>6. \A k \in at .. Len(s) : (front \o tail)[k + 1] = s[k]
  <2> SUFFICES ASSUME NEW k \in at .. Len(s) PROVE (front \o tail)[k + 1] = s[k]
    OBVIOUS
  <2>1. k + 1 - at \in 1 .. Len(s) - at + 1 /\ at + (k + 1 - at) = k + 1
        /\ at + (k + 1 - at) - 1 = k
    OBVIOUS
  <2> QED
    BY <2>1, <1>2, <1>5
<1> QED
  BY <1>3, <1>4, <1>5, <1>6 DEF front

\* Every row has a number that was given out.
LEMMA RowIds == RowsOK => /\ Len(rows) \in Nat
                          /\ \A j \in 1 .. Len(rows) :
                               rows[j] \in Row /\ rows[j].id \in 1 .. Len(rows)
<1> SUFFICES ASSUME RowsOK PROVE /\ Len(rows) \in Nat
                                 /\ \A j \in 1 .. Len(rows) :
                                      rows[j] \in Row /\ rows[j].id \in 1 .. Len(rows)
  OBVIOUS
<1>1. Len(rows) \in Nat /\ \A j \in 1 .. Len(rows) : rows[j] \in Row
  BY DEF RowsOK
<1>2. \A r \in Row : r.id \in Nat \ {0}
  BY DEF Row
<1>3. \A j \in 1 .. Len(rows) : rows[j].id \in Nat \ {0} /\ rows[j].id <= Len(rows)
  BY <1>1, <1>2 DEF RowsOK
<1> QED
  BY <1>1, <1>3

\* The ids of rows that fit are some of the numbers given out.
LEMMA UpToFinite ==
  ASSUME RowsOK, NEW names, NEW k \in 0 .. Len(rows)
  PROVE  /\ Pages!UpTo(k, names) \subseteq 1 .. Len(rows)
         /\ IsFiniteSet(Pages!UpTo(k, names))
         /\ Pages!Place(k, names) \in Nat
         /\ Pages!Place(k, names) = Cardinality(Pages!UpTo(k, names))
         /\ Pages!Place(k, names) <= Pages!Total(names)
<1>1. \A n \in 0 .. Len(rows) : Pages!UpTo(n, names) \subseteq 1 .. Len(rows)
  <2>1. \A j \in 1 .. Len(rows) : rows[j].id \in 1 .. Len(rows)
    BY RowIds
  <2>2. Len(rows) \in Nat
    BY RowIds
  <2> SUFFICES ASSUME NEW n \in 0 .. Len(rows), NEW id \in Pages!UpTo(n, names)
               PROVE  id \in 1 .. Len(rows)
    OBVIOUS
  <2>3. PICK j \in 1 .. n : id = rows[j].id
    BY DEF Pages!UpTo
  <2>4. j \in 1 .. Len(rows)
    BY <2>2
  <2> QED
    BY <2>1, <2>3, <2>4
<1>2. \A n \in 0 .. Len(rows) : /\ IsFiniteSet(Pages!UpTo(n, names))
                                /\ Cardinality(Pages!UpTo(n, names)) \in Nat
  <2>1. IsFiniteSet(1 .. Len(rows))
    BY RowIds, FS_Interval
  <2> QED
    BY <1>1, <2>1, FS_Subset, FS_CardinalityType
<1>3. \A S : Pages!Cardinality(S) = Cardinality(S)
  BY DEF Pages!Cardinality, Cardinality
<1>4. Len(rows) \in 0 .. Len(rows)
  BY DEF RowsOK
<1>5. Pages!UpTo(k, names) \subseteq Pages!UpTo(Len(rows), names)
  BY DEF Pages!UpTo, RowsOK
<1> QED
  BY <1>1, <1>2, <1>3, <1>4, <1>5, FS_Subset DEF Pages!Place, Pages!Total

-----------------------------------------------------------------------------
(* What a caller has, and what it is behind by.                            *)

LEMMA SizeIsNat == RowsOK => Pages!Size \in Nat /\ asked * Pages!Size \in Nat
<1>1. RowsOK => req.size \in Nat /\ asked \in Nat
  BY ListsAssumption DEF RowsOK
<1>2. RowsOK => Pages!Size \in Nat
  BY <1>1, ListsAssumption DEF Pages!Size, Pages!Unset
<1> QED
  BY <1>1, <1>2

\* (Invariant) What keeps a caller from missing a row: of the rows that were there
\* when it began it has those at the places it has read, and each has moved down
\* by the rows that were added at most.
Kept ==
  "status" \notin req.filters =>
    /\ IsFiniteSet(DOMAIN before) /\ \A id \in DOMAIN before : before[id] \in Nat
    /\ \A id \in DOMAIN before : \E k \in 1 .. Len(rows) :
         /\ rows[k].id = id
         /\ Pages!Place(k, req.filters) + Cardinality(DOMAIN before)
              <= before[id] + Pages!Total(req.filters)
    /\ \A k \in 1 .. Len(rows) :
         rows[k].id \in DOMAIN before
         => /\ Pages!Fits(rows[k], req.filters)
            /\ Pages!Place(k, req.filters) <= asked * Pages!Size \/ ~more => rows[k].id \in got

\* A row that has not moved past what was read is in a page that was read.
LEMMA KeptIsEnough == RowsOK /\ Kept => Pages!NothingSkipped
<1> SUFFICES ASSUME RowsOK, Kept, "status" \notin req.filters, NEW id \in DOMAIN before,
                    \/ before[id] + (Pages!Total(req.filters) - Pages!Cardinality(DOMAIN before))
                         <= asked * Pages!Size
                    \/ ~more
             PROVE  id \in got
  BY DEF Pages!NothingSkipped
<1>1. Pages!Cardinality(DOMAIN before) = Cardinality(DOMAIN before)
  BY DEF Pages!Cardinality, Cardinality
<1>2. PICK k \in 1 .. Len(rows) :
         /\ rows[k].id = id
         /\ Pages!Place(k, req.filters) + Cardinality(DOMAIN before)
              <= before[id] + Pages!Total(req.filters)
  BY DEF Kept
<1>3. /\ before[id] \in Nat /\ Cardinality(DOMAIN before) \in Nat
      /\ Pages!Place(k, req.filters) \in Nat /\ Pages!Total(req.filters) \in Nat
  BY UpToFinite, FS_CardinalityType DEF Kept, Pages!Total, RowsOK
<1>4. asked * Pages!Size \in Nat
  BY SizeIsNat
<1>5. CASE ~more
  BY <1>2, <1>5 DEF Kept
<1>6. CASE before[id] + (Pages!Total(req.filters) - Pages!Cardinality(DOMAIN before))
             <= asked * Pages!Size
  <2>1. Pages!Place(k, req.filters) <= asked * Pages!Size
    BY <1>1, <1>2, <1>3, <1>4, <1>6
  <2> QED
    BY <1>2, <2>1 DEF Kept
<1> QED
  BY <1>5, <1>6

\* (Invariant) What keeps a caller from getting what it did not ask for.
Asked ==
  /\ got \subseteq 1 .. Len(rows)
  /\ \A k \in 1 .. Len(rows) :
       rows[k].id \in got => Pages!Fits(rows[k], req.filters \ {"status"})

PagesInv == RowsOK /\ Kept /\ Asked

\* A row that is put in raises the places after it by one at most, and the
\* number of rows by as much.
LEMMA InsertedUpTo ==
  ASSUME RowsOK, NEW names, NEW at \in 1 .. Len(rows) + 1, NEW row \in Row,
         row.id = Len(rows) + 1, rows' = Pages!InsertAt(rows, at, row),
         NEW one, one = IF names \subseteq row.fits THEN 1 ELSE 0
  PROVE  /\ \A k \in 1 .. at - 1 : Pages!Place(k, names)' = Pages!Place(k, names)
         /\ \A k \in at .. Len(rows) :
              Pages!Place(k + 1, names)' = Pages!Place(k, names) + one
         /\ Pages!Total(names)' = Pages!Total(names) + one
<1> DEFINE new == Len(rows) + 1
<1>1. /\ Len(rows) \in Nat /\ rows \in Seq(Row)
      /\ \A j \in 1 .. Len(rows) : rows[j] \in Row /\ rows[j].id \in 1 .. Len(rows)
  BY RowIds DEF RowsOK
<1>2. /\ Len(rows') = new /\ rows'[at] = row
      /\ \A k \in 1 .. at - 1 : rows'[k] = rows[k]
      /\ \A k \in at .. Len(rows) : rows'[k + 1] = rows[k]
  BY <1>1, Inserted
<1>3. \A k \in 0 .. at - 1 : Pages!UpTo(k, names)' = Pages!UpTo(k, names)
  <2> SUFFICES ASSUME NEW k \in 0 .. at - 1 PROVE Pages!UpTo(k, names)' = Pages!UpTo(k, names)
    OBVIOUS
  <2>1. \A j \in 1 .. k : rows'[j] = rows[j]
    BY <1>2
  <2> QED
    BY <2>1 DEF Pages!UpTo, Pages!Fits
<1>4. \A k \in at - 1 .. Len(rows) :
        /\ one = 1 => Pages!UpTo(k + 1, names)' = Pages!UpTo(k, names) \cup {new}
        /\ one = 0 => Pages!UpTo(k + 1, names)' = Pages!UpTo(k, names)
  <2> SUFFICES ASSUME NEW k \in at - 1 .. Len(rows)
               PROVE  /\ one = 1 => Pages!UpTo(k + 1, names)' = Pages!UpTo(k, names) \cup {new}
                      /\ one = 0 => Pages!UpTo(k + 1, names)' = Pages!UpTo(k, names)
    OBVIOUS
  <2>1. ASSUME NEW id \in Pages!UpTo(k + 1, names)'
        PROVE  id \in Pages!UpTo(k, names) \/ (one = 1 /\ id = new)
    <3>1. PICK j \in 1 .. k + 1 : Pages!Fits(rows'[j], names) /\ id = rows'[j].id
      BY <2>1 DEF Pages!UpTo, Pages!Fits
    <3>2. CASE j < at
      <4>1. j \in 1 .. k /\ rows'[j] = rows[j]
        BY <3>2, <1>1, <1>2
      <4> QED
        BY <3>1, <4>1 DEF Pages!UpTo
    <3>3. CASE j = at
      BY <3>1, <3>3, <1>2 DEF Pages!Fits
    <3>4. CASE j > at
      <4>1. j - 1 \in 1 .. k /\ rows'[(j - 1) + 1] = rows[j - 1] /\ (j - 1) + 1 = j
        BY <3>4, <1>1, <1>2
      <4> QED
        BY <3>1, <4>1 DEF Pages!UpTo
    <3> QED
      BY <3>2, <3>3, <3>4
  <2>2. ASSUME NEW id \in Pages!UpTo(k, names)
        PROVE  id \in Pages!UpTo(k + 1, names)'
    <3>1. PICK j \in 1 .. k : Pages!Fits(rows[j], names) /\ id = rows[j].id
      BY <2>2 DEF Pages!UpTo
    <3>2. CASE j < at
      <4>1. j \in 1 .. k + 1 /\ rows'[j] = rows[j]
        BY <3>2, <1>1, <1>2
      <4> QED
        BY <3>1, <4>1 DEF Pages!UpTo, Pages!Fits
    <3>3. CASE j >= at
      <4>1. j + 1 \in 1 .. k + 1 /\ rows'[j + 1] = rows[j]
        BY <3>3, <1>1, <1>2
      <4> QED
        BY <3>1, <4>1 DEF Pages!UpTo, Pages!Fits
    <3> QED
      BY <3>2, <3>3
  <2>3. ASSUME one = 1 PROVE new \in Pages!UpTo(k + 1, names)'
    <3>1. at \in 1 .. k + 1 /\ Pages!Fits(rows'[at], names) /\ rows'[at].id = new
      BY <2>3, <1>1, <1>2 DEF Pages!Fits
    <3> QED
      BY <3>1 DEF Pages!UpTo, Pages!Fits
  <2>4. one = 1 => Pages!UpTo(k + 1, names)' = Pages!UpTo(k, names) \cup {new}
    BY <2>1, <2>2, <2>3
  <2>5. one = 0 => Pages!UpTo(k + 1, names)' = Pages!UpTo(k, names)
    <3>1. one = 0 => one # 1
      OBVIOUS
    <3> QED
      BY <2>1, <2>2, <3>1, Zenon
  <2> QED
    BY <2>4, <2>5
<1>5. \A k \in 0 .. Len(rows) :
        /\ Pages!UpTo(k, names) \subseteq 1 .. Len(rows) /\ IsFiniteSet(Pages!UpTo(k, names))
        /\ Pages!Place(k, names) = Cardinality(Pages!UpTo(k, names))
        /\ Pages!Place(k, names) \in Nat
  BY UpToFinite
<1>6. \A k : Pages!Place(k, names)' = Cardinality(Pages!UpTo(k, names)')
  BY DEF Pages!Place, Pages!Cardinality, Cardinality
<1>7. \A k \in at - 1 .. Len(rows) :
        Pages!Place(k + 1, names)' = Pages!Place(k, names) + one
  <2> SUFFICES ASSUME NEW k \in at - 1 .. Len(rows)
               PROVE  Pages!Place(k + 1, names)' = Pages!Place(k, names) + one
    OBVIOUS
  <2>1. k \in 0 .. Len(rows)
    BY <1>1
  <2>2. new \notin Pages!UpTo(k, names)
    BY <2>1, <1>1, <1>5
  <2>3. CASE one = 1
    <3>1. Pages!UpTo(k + 1, names)' = Pages!UpTo(k, names) \cup {new}
      BY <2>3, <1>4
    <3>2. Cardinality(Pages!UpTo(k, names) \cup {new}) = Cardinality(Pages!UpTo(k, names)) + 1
      BY <2>1, <2>2, <1>5, FS_AddElement
    <3> QED
      BY <2>1, <2>3, <3>1, <3>2, <1>5, <1>6
  <2>4. CASE one = 0
    <3>1. Pages!UpTo(k + 1, names)' = Pages!UpTo(k, names)
      BY <2>4, <1>4
    <3> QED
      BY <2>1, <2>4, <3>1, <1>5, <1>6
  <2> QED
    BY <2>3, <2>4
<1>8. \A k \in 1 .. at - 1 : Pages!Place(k, names)' = Pages!Place(k, names)
  BY <1>1, <1>3, <1>5, <1>6
<1>9. Pages!Total(names)' = Pages!Total(names) + one
  <2>1. Len(rows) \in at - 1 .. Len(rows)
    BY <1>1
  <2>2. PICK n \in at - 1 .. Len(rows) : n = Len(rows)
    BY <2>1
  <2>3. Pages!Total(names)' = Pages!Place(n + 1, names)'
    BY <1>2, <2>2 DEF Pages!Total, Pages!Place
  <2> QED
    BY <2>2, <2>3, <1>7 DEF Pages!Total
<1> QED
  BY <1>1, <1>7, <1>8, <1>9

-----------------------------------------------------------------------------
(* The steps.                                                              *)

\* At first nothing is read, and no row has moved.
LEMMA PagesInit == Pages!Init => PagesInv
<1> SUFFICES ASSUME Pages!Init PROVE PagesInv
  OBVIOUS
<1>1. list \in Lists /\ req \in [filters : SUBSET Pages!FilterNames(list), size : Sizes]
      /\ asked = 0 /\ more = TRUE /\ got = {}
  BY DEF Pages!Init
<1>2. PICK n \in 0 .. MaxRows : \E fits \in [1 .. n -> SUBSET Pages!FilterNames(list)] :
        rows = [i \in 1 .. n |-> [id |-> i, fits |-> fits[i]]]
  BY DEF Pages!Init
<1>3. PICK fits \in [1 .. n -> SUBSET Pages!FilterNames(list)] :
        rows = [i \in 1 .. n |-> [id |-> i, fits |-> fits[i]]]
  BY <1>2
<1>4. n \in Nat /\ Pages!FilterNames(list) \subseteq {"wallet_id", "account_id", "chain", "status"}
  BY <1>1, ListsAssumption, FilterNamesOf
<1>5. /\ \A i \in 1 .. n : rows[i] \in Row /\ rows[i].id = i
      /\ rows \in Seq(Row) /\ Len(rows) = n
  <2>1. \A i \in 1 .. n : fits[i] \in SUBSET {"wallet_id", "account_id", "chain", "status"}
    BY <1>3, <1>4
  <2>2. \A i \in 1 .. n : rows[i] \in Row /\ rows[i].id = i
    BY <2>1, <1>3, <1>4 DEF Row
  <2>3. rows \in [1 .. n -> Row]
    BY <2>2, <1>3
  <2> QED
    BY <2>2, <2>3, <1>4
<1>6. RowsOK
  BY <1>1, <1>4, <1>5 DEF RowsOK
<1> DEFINE names == req.filters
           all   == Pages!UpTo(Len(rows), names)
<1>7. DOMAIN before = all /\ \A id \in all : before[id] = Pages!Place(id, names)
  BY DEF Pages!Init
<1>8. /\ all \subseteq 1 .. n /\ IsFiniteSet(all) /\ Pages!Total(names) = Cardinality(all)
      /\ Cardinality(all) \in Nat
      /\ \A k \in 1 .. n :
           rows[k].id \in all => Pages!Place(k, names) \in Nat /\ Pages!Place(k, names) >= 1
  <2>1. n \in 0 .. Len(rows) /\ \A k \in 1 .. n : k \in 0 .. Len(rows)
    BY <1>4, <1>5
  <2>2. \A k \in 1 .. n : /\ Pages!Place(k, names) \in Nat
                          /\ Pages!Place(k, names) = Cardinality(Pages!UpTo(k, names))
                          /\ IsFiniteSet(Pages!UpTo(k, names))
    BY <2>1, <1>6, UpToFinite
  <2>3. ASSUME NEW k \in 1 .. n, rows[k].id \in all
        PROVE  Pages!Place(k, names) >= 1
    <3>1. PICK j \in 1 .. n : Pages!Fits(rows[j], names) /\ rows[j].id = rows[k].id
      BY <2>3, <1>5 DEF Pages!UpTo
    <3>2. j = k
      BY <3>1, <1>5
    <3>3. rows[k].id \in Pages!UpTo(k, names)
      BY <3>1, <3>2 DEF Pages!UpTo
    <3>4. Cardinality(Pages!UpTo(k, names)) # 0
      BY <3>3, <2>2, FS_EmptySet
    <3> QED
      BY <2>2, <3>4
  <2> QED
    BY <2>1, <2>2, <2>3, <1>5, <1>6, UpToFinite, FS_CardinalityType DEF Pages!Total
<1>9. Kept
  <2> SUFFICES ASSUME "status" \notin req.filters
               PROVE  /\ IsFiniteSet(all) /\ \A id \in all : before[id] \in Nat
                      /\ \A id \in all : \E k \in 1 .. n :
                           /\ rows[k].id = id
                           /\ Pages!Place(k, names) + Cardinality(all)
                                <= before[id] + Pages!Total(names)
                      /\ \A k \in 1 .. n :
                           rows[k].id \in all => /\ Pages!Fits(rows[k], names)
                                                 /\ Pages!Place(k, names) <= 0 => rows[k].id \in got
    <3>1. asked * Pages!Size = 0 /\ more
      BY <1>1, <1>6, SizeIsNat
    <3> HIDE DEF all
    <3> QED
      BY <3>1, <1>5, <1>7 DEF Kept
  <2>1. \A id \in all : id \in 1 .. n /\ rows[id].id = id
    BY <1>5, <1>8
  <2>2. \A k \in 1 .. n : rows[k].id \in all => Pages!Fits(rows[k], names)
    BY <1>5 DEF Pages!UpTo
  <2>3. \A k \in 1 .. n : rows[k].id \in all => Pages!Place(k, names) \in Nat
                                                  /\ Pages!Place(k, names) >= 1
    BY <1>8
  <2> HIDE DEF all, names
  <2> QED
    BY <2>1, <2>2, <2>3, <1>7, <1>8
<1>10. Asked
  BY <1>1 DEF Asked
<1> QED
  BY <1>6, <1>9, <1>10 DEF PagesInv

\* A row that is added moves others down by one, or none, and counts as one.
LEMMA InsertStep == PagesInv /\ Pages!Insert => PagesInv'
<1> SUFFICES ASSUME PagesInv, Pages!Insert PROVE PagesInv'
  OBVIOUS
<1> USE DEF PagesInv
<1>1. UNCHANGED <<list, req, before, asked, more, got>>
  BY DEF Pages!Insert
<1>2. PICK at \in 1 .. Len(rows) + 1, fits \in SUBSET Pages!FilterNames(list) :
        rows' = Pages!InsertAt(rows, at, [id |-> Len(rows) + 1, fits |-> fits])
  BY DEF Pages!Insert
<1>0. PICK row, moved, names, one :
        /\ row = [id |-> Len(rows) + 1, fits |-> fits]
        /\ moved = [k \in 1 .. Len(rows) |-> IF k < at THEN k ELSE k + 1]
        /\ names = req.filters
        /\ one = IF names \subseteq row.fits THEN 1 ELSE 0
  OBVIOUS
<1>3. /\ Len(rows) \in Nat /\ rows \in Seq(Row)
      /\ \A j \in 1 .. Len(rows) : rows[j] \in Row /\ rows[j].id \in 1 .. Len(rows)
  BY RowIds DEF RowsOK
<1>4. row \in Row /\ row.id = Len(rows) + 1
  BY <1>0, <1>3, FilterNamesOf DEF Row, RowsOK
<1>5. /\ rows' \in Seq(Row) /\ Len(rows') = Len(rows) + 1 /\ rows'[at] = row
      /\ \A k \in 1 .. at - 1 : rows'[k] = rows[k]
      /\ \A k \in at .. Len(rows) : rows'[k + 1] = rows[k]
  BY <1>0, <1>2, <1>3, <1>4, Inserted
<1>6. \A k \in 1 .. Len(rows) : moved[k] \in 1 .. Len(rows') /\ moved[k] # at
                                /\ rows'[moved[k]] = rows[k]
  BY <1>0, <1>3, <1>5
<1>7. \A j \in 1 .. Len(rows') : j = at \/ \E k \in 1 .. Len(rows) : j = moved[k]
  <2> SUFFICES ASSUME NEW j \in 1 .. Len(rows'), j # at
               PROVE  \E k \in 1 .. Len(rows) : j = moved[k]
    OBVIOUS
  <2>1. CASE j < at
    BY <2>1, <1>0, <1>3, <1>5
  <2>2. CASE j > at
    <3>1. j - 1 \in 1 .. Len(rows) /\ moved[j - 1] = j
      BY <2>2, <1>0, <1>3, <1>5
    <3> QED
      BY <3>1
  <2> QED
    BY <2>1, <2>2
<1>8. /\ \A k \in 1 .. Len(rows) :
           \E d \in {0, one} : Pages!Place(moved[k], names)' = Pages!Place(k, names) + d
      /\ Pages!Total(names)' = Pages!Total(names) + one
  <2>1. rows' = Pages!InsertAt(rows, at, row)
    BY <1>0, <1>2
  <2>2. /\ \A k \in 1 .. at - 1 : Pages!Place(k, names)' = Pages!Place(k, names)
        /\ \A k \in at .. Len(rows) :
             Pages!Place(k + 1, names)' = Pages!Place(k, names) + one
        /\ Pages!Total(names)' = Pages!Total(names) + one
    <3>1. RowsOK /\ one = IF names \subseteq row.fits THEN 1 ELSE 0
      BY <1>0
    <3> HIDE DEF PagesInv
    <3> QED
      BY <2>1, <3>1, <1>4, InsertedUpTo
  <2>3. ASSUME NEW k \in 1 .. Len(rows)
        PROVE  \E d \in {0, one} : Pages!Place(moved[k], names)' = Pages!Place(k, names) + d
    <3>1. CASE k < at
      <4>1. moved[k] = k /\ k \in 1 .. at - 1 /\ Pages!Place(k, names) \in Nat
        BY <3>1, <1>0, <1>3, UpToFinite
      <4> QED
        BY <4>1, <2>2
    <3>2. CASE k >= at
      BY <3>2, <1>0, <1>3, <2>2
    <3> QED
      BY <3>1, <3>2, <1>3
  <2> QED
    BY <2>2, <2>3
<1>9. RowsOK'
  <2>1. ASSUME NEW j \in 1 .. Len(rows') PROVE rows'[j].id <= Len(rows')
    <3>1. CASE j = at
      BY <3>1, <1>3, <1>4, <1>5
    <3>2. ASSUME NEW k \in 1 .. Len(rows), j = moved[k] PROVE rows'[j].id <= Len(rows')
      <4>1. rows'[j] = rows[k]
        BY <3>2, <1>6
      <4> QED
        BY <4>1, <1>3, <1>5
    <3> QED
      BY <3>1, <3>2, <1>7
  <2>2. ASSUME NEW j \in 1 .. Len(rows'), NEW k \in 1 .. Len(rows'), rows'[j].id = rows'[k].id
        PROVE  j = k
    <3>1. CASE j = at /\ k # at
      BY <2>2, <3>1, <1>3, <1>4, <1>5, <1>6, <1>7
    <3>2. CASE j # at /\ k = at
      BY <2>2, <3>2, <1>3, <1>4, <1>5, <1>6, <1>7
    <3>3. CASE j # at /\ k # at
      <4>1. PICK i \in 1 .. Len(rows) : j = moved[i]
        BY <3>3, <1>7
      <4>2. PICK h \in 1 .. Len(rows) : k = moved[h]
        BY <3>3, <1>7
      <4>3. i = h
        BY <2>2, <4>1, <4>2, <1>6 DEF RowsOK
      <4> QED
        BY <4>1, <4>2, <4>3
    <3> QED
      BY <3>1, <3>2, <3>3
  <2> QED
    BY <2>1, <2>2, <1>1, <1>5 DEF RowsOK
<1>10. Asked'
  <2>1. got' \subseteq 1 .. Len(rows')
    BY <1>1, <1>3, <1>5 DEF Asked
  <2>2. ASSUME NEW j \in 1 .. Len(rows'), rows'[j].id \in got'
        PROVE  Pages!Fits(rows'[j], req.filters \ {"status"})
    <3>1. j # at
      BY <2>2, <1>1, <1>3, <1>4, <1>5 DEF Asked
    <3>2. PICK k \in 1 .. Len(rows) : j = moved[k]
      BY <3>1, <1>7
    <3> QED
      BY <2>2, <3>2, <1>1, <1>6 DEF Asked
  <2> QED
    BY <2>1, <2>2, <1>1 DEF Asked, Pages!Fits
<1>11. Kept'
  <2> SUFFICES ASSUME "status" \notin names PROVE Kept'
    BY <1>0, <1>1 DEF Kept
  <2>1. IsFiniteSet(DOMAIN before) /\ \A id \in DOMAIN before : before[id] \in Nat
    BY <1>0 DEF Kept
  <2>2. ASSUME NEW id \in DOMAIN before
        PROVE  \E k \in 1 .. Len(rows') :
                 /\ rows'[k].id = id
                 /\ Pages!Place(k, names)' + Cardinality(DOMAIN before)
                      <= before[id] + Pages!Total(names)'
    <3>1. PICK k \in 1 .. Len(rows) :
            /\ rows[k].id = id
            /\ Pages!Place(k, names) + Cardinality(DOMAIN before)
                 <= before[id] + Pages!Total(names)
      BY <1>0 DEF Kept
    <3>2. PICK d \in {0, one} : Pages!Place(moved[k], names)' = Pages!Place(k, names) + d
      BY <1>8
    <3>3. /\ before[id] \in Nat /\ Cardinality(DOMAIN before) \in Nat
          /\ Pages!Place(k, names) \in Nat /\ Pages!Total(names) \in Nat
      BY <2>1, <1>3, UpToFinite, FS_CardinalityType DEF Pages!Total
    <3>4. Pages!Place(moved[k], names)' + Cardinality(DOMAIN before)
            <= before[id] + Pages!Total(names)'
      BY <3>1, <3>2, <3>3, <1>0, <1>8
    <3> QED
      BY <3>1, <3>4, <1>6
  <2>3. ASSUME NEW j \in 1 .. Len(rows'), rows'[j].id \in DOMAIN before
        PROVE  /\ Pages!Fits(rows'[j], names)
               /\ Pages!Place(j, names)' <= asked * Pages!Size \/ ~more => rows'[j].id \in got
    <3>1. j # at
      <4>1. PICK k \in 1 .. Len(rows) : rows[k].id = rows'[j].id
        BY <2>3, <1>0 DEF Kept
      <4> QED
        BY <4>1, <1>3, <1>4, <1>5
    <3>2. PICK k \in 1 .. Len(rows) : j = moved[k]
      BY <3>1, <1>7
    <3>3. PICK d \in {0, one} : Pages!Place(j, names)' = Pages!Place(k, names) + d
      BY <3>2, <1>8
    <3>4. /\ Pages!Fits(rows[k], names)
          /\ Pages!Place(k, names) <= asked * Pages!Size \/ ~more => rows[k].id \in got
      BY <2>3, <3>2, <1>0, <1>6 DEF Kept
    <3>5. Pages!Place(k, names) \in Nat /\ asked * Pages!Size \in Nat
      BY <1>3, UpToFinite, SizeIsNat
    <3>6. Pages!Place(k, names) <= Pages!Place(j, names)'
      BY <3>3, <3>5, <1>0
    <3>7. Pages!Place(j, names)' <= asked * Pages!Size =>
            Pages!Place(k, names) <= asked * Pages!Size
      <4>1. Pages!Place(j, names)' \in Nat
        BY <3>3, <3>5, <1>0
      <4> QED
        BY <3>5, <3>6, <4>1
    <3> QED
      BY <3>2, <3>4, <3>7, <1>6
  <2>4. Pages!Size' = Pages!Size
    BY <1>1 DEF Pages!Size
  <2> QED
    BY <2>1, <2>2, <2>3, <2>4, <1>0, <1>1 DEF Kept, Pages!Fits
<1> QED
  BY <1>9, <1>10, <1>11

\* A settlement's status is no matter to a caller that does not filter by it.
LEMMA AdvanceStep == PagesInv /\ Pages!Advance => PagesInv'
<1> SUFFICES ASSUME PagesInv, Pages!Advance PROVE PagesInv'
  OBVIOUS
<1> USE DEF PagesInv
<1>1. UNCHANGED <<list, req, before, asked, more, got>>
  BY DEF Pages!Advance
<1>2. PICK i \in DOMAIN rows :
        rows' = [rows EXCEPT ![i].fits = IF @ = {} THEN {"status"} ELSE {}]
  BY DEF Pages!Advance
<1>3. /\ Len(rows) \in Nat /\ rows \in Seq(Row) /\ i \in 1 .. Len(rows)
      /\ \A k \in 1 .. Len(rows) : rows[k] \in Row /\ rows[k].id \in 1 .. Len(rows)
  BY RowIds DEF RowsOK
<1>4. /\ rows' \in Seq(Row) /\ Len(rows') = Len(rows)
      /\ \A k \in 1 .. Len(rows) : rows'[k].id = rows[k].id
  <2>1. [rows[i] EXCEPT !.fits = IF @ = {} THEN {"status"} ELSE {}] \in Row
    BY <1>3 DEF Row
  <2>2. rows' = [rows EXCEPT ![i] = [rows[i] EXCEPT !.fits = IF @ = {} THEN {"status"} ELSE {}]]
    BY <1>2
  <2>3. [rows[i] EXCEPT !.fits = IF @ = {} THEN {"status"} ELSE {}].id = rows[i].id
    BY <1>3 DEF Row
  <2> QED
    BY <2>1, <2>2, <2>3, <1>3
<1>5. req.filters \subseteq {"status"}
  BY FilterNamesOf DEF RowsOK, Pages!Advance
<1>6. RowsOK'
  BY <1>1, <1>3, <1>4 DEF RowsOK
<1>7. Asked'
  <2>1. req.filters \ {"status"} = {}
    BY <1>5
  <2> QED
    BY <2>1, <1>1, <1>4 DEF Asked, Pages!Fits
<1>8. Kept'
  <2> SUFFICES ASSUME "status" \notin req.filters PROVE Kept'
    BY <1>1 DEF Kept
  <2>1. PICK names : names = req.filters /\ names = {}
    BY <1>5
  <2>2. \A k \in 0 .. Len(rows) : Pages!UpTo(k, names)' = Pages!UpTo(k, names)
    <3> SUFFICES ASSUME NEW k \in 0 .. Len(rows)
                 PROVE  Pages!UpTo(k, names)' = Pages!UpTo(k, names)
      OBVIOUS
    <3>1. \A j \in 1 .. k : rows'[j].id = rows[j].id
      BY <1>3, <1>4
    <3> QED
      BY <2>1, <3>1 DEF Pages!UpTo, Pages!Fits
  <2>3. \A k \in 0 .. Len(rows) : Pages!Place(k, names)' = Pages!Place(k, names)
    BY <2>2 DEF Pages!Place, Pages!Cardinality
  <2>4. Pages!Total(names)' = Pages!Total(names)
    BY <2>3, <1>3, <1>4 DEF Pages!Total
  <2>5. Pages!Size' = Pages!Size
    BY <1>1 DEF Pages!Size
  <2>6. ASSUME NEW id \in DOMAIN before
        PROVE  \E k \in 1 .. Len(rows') :
                 /\ rows'[k].id = id
                 /\ Pages!Place(k, names)' + Cardinality(DOMAIN before)
                      <= before[id] + Pages!Total(names)'
    BY <2>1, <2>3, <2>4, <1>3, <1>4 DEF Kept
  <2>7. ASSUME NEW k \in 1 .. Len(rows'), rows'[k].id \in DOMAIN before,
               Pages!Place(k, names)' <= asked * Pages!Size \/ ~more
        PROVE  rows'[k].id \in got
    BY <2>1, <2>3, <2>7, <1>3, <1>4 DEF Kept
  <2>8. \A k \in 1 .. Len(rows') : Pages!Fits(rows'[k], names)
    BY <2>1 DEF Pages!Fits
  <2> QED
    BY <2>1, <2>5, <2>6, <2>7, <2>8, <1>1 DEF Kept, Pages!Fits
<1> QED
  BY <1>6, <1>7, <1>8

\* The next page holds the places that follow those read.
LEMMA FetchStep == PagesInv /\ Pages!Fetch => PagesInv'
<1> SUFFICES ASSUME PagesInv, Pages!Fetch PROVE PagesInv'
  OBVIOUS
<1> USE DEF PagesInv
<1>1. UNCHANGED <<list, req, rows, before>> /\ asked' = asked + 1 /\ asked \in Nat
  BY DEF Pages!Fetch, RowsOK
<1>2. /\ got' = got \cup Pages!Page(asked + 1, Pages!Size, req.filters)
      /\ more' = ((asked + 1) * Pages!Size < Pages!Total(req.filters))
  <2>1. PICK page \in {asked + 1} \cup (IF asked = 0 THEN {Pages!Unset} ELSE {}) :
          LET query == Pages!Query(page)
              n     == Pages!Value(query, "page", 1)
              size  == Pages!Value(query, "page_size", DefaultSize)
              names == {name \in Pages!FilterNames(list) : <<name, "asked">> \in query}
          IN  /\ got' = got \cup Pages!Page(n, size, names)
              /\ more' = (n * size < Pages!Total(names))
    BY Zenon DEF Pages!Fetch
  <2>2. page \in Nat /\ (IF page = 0 THEN 1 ELSE page) = asked + 1
    BY <1>1 DEF Pages!Unset
  <2>3. /\ {name \in Pages!FilterNames(list) : <<name, "asked">> \in Pages!Query(page)}
             = req.filters
        /\ Pages!Value(Pages!Query(page), "page", 1) = asked + 1
        /\ Pages!Value(Pages!Query(page), "page_size", DefaultSize) = Pages!Size
    BY <2>2, QueryOf
  <2> QED
    BY <2>1, <2>3, Zenon
<1>3. /\ Len(rows) \in Nat
      /\ \A k \in 1 .. Len(rows) : rows[k] \in Row /\ rows[k].id \in 1 .. Len(rows)
  BY RowIds
<1>4. RowsOK'
  BY <1>1, <1>2 DEF RowsOK
<1>5. \A k \in 1 .. Len(rows) :
        rows[k].id \in Pages!Page(asked + 1, Pages!Size, req.filters)
          <=> /\ Pages!Fits(rows[k], req.filters)
              /\ Pages!Place(k, req.filters) > asked * Pages!Size
              /\ Pages!Place(k, req.filters) <= (asked + 1) * Pages!Size
  <2>1. (asked + 1) - 1 = asked
    BY <1>1
  <2>2. DOMAIN rows = 1 .. Len(rows)
    BY DEF RowsOK
  <2> QED
    BY <2>1, <2>2 DEF Pages!Page, RowsOK
<1>6. Asked'
  <2>1. Pages!Page(asked + 1, Pages!Size, req.filters) \subseteq 1 .. Len(rows)
    BY <1>3 DEF Pages!Page, RowsOK
  <2>2. \A k \in 1 .. Len(rows) : Pages!Fits(rows[k], req.filters)
                                    => Pages!Fits(rows[k], req.filters \ {"status"})
    BY DEF Pages!Fits
  <2> QED
    BY <2>1, <2>2, <1>1, <1>2, <1>5 DEF Asked, Pages!Fits
<1>7. Kept'
  <2> SUFFICES ASSUME "status" \notin req.filters PROVE Kept'
    BY <1>1 DEF Kept
  <2>1. /\ Pages!Size' = Pages!Size /\ Pages!Total(req.filters)' = Pages!Total(req.filters)
        /\ \A k : Pages!Place(k, req.filters)' = Pages!Place(k, req.filters)
    BY <1>1 DEF Pages!Size, Pages!Total, Pages!Place, Pages!UpTo, Pages!Fits, Pages!Cardinality
  <2>2. ASSUME NEW k \in 1 .. Len(rows), rows[k].id \in DOMAIN before,
               \/ Pages!Place(k, req.filters) <= (asked + 1) * Pages!Size
               \/ ~more'
        PROVE  rows[k].id \in got'
    <3>1. /\ Pages!Place(k, req.filters) \in Nat /\ Pages!Total(req.filters) \in Nat
          /\ Pages!Place(k, req.filters) <= Pages!Total(req.filters)
      BY <1>3, UpToFinite DEF Pages!Total
    <3>2. asked * Pages!Size \in Nat /\ (asked + 1) * Pages!Size \in Nat
      BY <1>1, SizeIsNat
    <3>3. Pages!Place(k, req.filters) <= (asked + 1) * Pages!Size
      <4>1. ~more' => ~((asked + 1) * Pages!Size < Pages!Total(req.filters))
        BY <1>2, Zenon
      <4>2. PICK p \in Nat : p = (asked + 1) * Pages!Size
        BY <3>2
      <4> QED
        BY <2>2, <3>1, <4>1, <4>2
    <3>4. CASE Pages!Place(k, req.filters) <= asked * Pages!Size
      BY <2>2, <3>4, <1>2 DEF Kept
    <3>5. CASE Pages!Place(k, req.filters) > asked * Pages!Size
      BY <2>2, <3>3, <3>5, <1>2, <1>5 DEF Kept
    <3> QED
      BY <3>1, <3>2, <3>4, <3>5
  <2> QED
    BY <2>1, <2>2, <1>1 DEF Kept, Pages!Fits
<1> QED
  BY <1>4, <1>6, <1>7

\* What happens elsewhere changes nothing.
LEMMA PagesStutter == PagesInv /\ UNCHANGED Pages!vars => PagesInv'
<1> SUFFICES ASSUME PagesInv, UNCHANGED Pages!vars PROVE PagesInv'
  OBVIOUS
<1>1. UNCHANGED <<list, req, rows, before, asked, more, got>>
  BY DEF Pages!vars
<1>2. /\ Pages!Size' = Pages!Size /\ Pages!Total(req.filters)' = Pages!Total(req.filters)
      /\ \A k : Pages!Place(k, req.filters)' = Pages!Place(k, req.filters)
  BY <1>1 DEF Pages!Size, Pages!Total, Pages!Place, Pages!UpTo, Pages!Fits, Pages!Cardinality
<1> QED
  BY <1>1, <1>2 DEF PagesInv, RowsOK, Kept, Asked, Pages!Fits

\* The steps together.
LEMMA PagesInvariant == Spec => []PagesInv
<1>1. Pages!Init => PagesInv
  BY PagesInit
<1>2. PagesInv /\ [Pages!Next]_(Pages!vars) => PagesInv'
  BY InsertStep, AdvanceStep, FetchStep, PagesStutter DEF Pages!Next
<1> QED
  BY <1>1, <1>2, EachPart, PTL DEF Pages!Spec

\* Pages leave out nothing that was there at the start, for all page sizes,
\* filters and numbers of rows, wherever rows are added (transaction.rs:505-526).
THEOREM PagesSkipNothing == Spec => []NothingSkipped
<1>1. PagesInv => NothingSkipped
  BY KeptIsEnough DEF PagesInv, NothingSkipped
<1> QED
  BY <1>1, PagesInvariant, PTL

\* Pages hold nothing that was not asked for: every filter that is set reaches
\* the gateway (transaction.rs:505-526).
THEOREM PagesHoldOnlyAsked == Spec => []OnlyAsked
<1>1. PagesInv => OnlyAsked
  <2> SUFFICES ASSUME PagesInv, NEW row \in Pages!ToSet(rows), row.id \in got
               PROVE  Pages!Fits(row, req.filters \ {"status"})
    BY DEF OnlyAsked, Pages!OnlyAsked
  <2>1. PICK k \in 1 .. Len(rows) : row = rows[k]
    BY DEF PagesInv, RowsOK, Pages!ToSet
  <2> QED
    BY <2>1 DEF PagesInv, Asked
<1> QED
  BY <1>1, PagesInvariant, PTL

-----------------------------------------------------------------------------
(* Notices.                                                                *)

Transaction == [kind : Events!Kinds, state : {"pending", "confirmed", "failed"},
                arrived : BOOLEAN, booked : BOOLEAN]

\* Only what came in is booked, and an inflow that is final is.
TxOK ==
  /\ tx \in [Txs -> Transaction]
  /\ \A t \in Txs :
       /\ tx[t].booked => tx[t].state = "confirmed" /\ tx[t].kind # "TRANSFER"
       /\ tx[t].kind \in Events!Inflows /\ tx[t].state # "pending" => tx[t].booked

Final(b) == b.type # Events!Confirming

\* A body says of its transaction what is true for good: only a final one says
\* what it ended in, and there is one of those.
MailOK ==
  /\ \A b \in mail :
       /\ b.of \in Txs /\ b.id = <<b.of, b.type>>
       /\ b.ttype = Events!TransactionType(tx[b.of].kind)
       /\ ~Final(b) => "swap_incoming" \notin b.fields
       /\ Final(b) => /\ tx[b.of].state # "pending" /\ b.type = Events!FinalType(tx[b.of])
                      /\ b.leg = Events!Leg(tx[b.of])
                      /\ "swap_incoming" \in b.fields => tx[b.of].kind \in Events!Swaps
                      /\ tx[b.of].kind \in Events!Swaps /\ b.fields # {}
                           => "swap_incoming" \in b.fields
  /\ \A b, c \in mail : Final(b) /\ Final(c) /\ b.of = c.of => b = c

\* The event_ids handled are those of the bodies that were delivered.
SeenOK == /\ delivered \subseteq mail
          /\ \A b \in delivered : b.id \in seen
          /\ \A id \in seen : \E b \in delivered : b.id = id

Earned(t) == \E b \in mail : /\ b.of = t /\ Final(b) /\ b.id \in seen
                             /\ Events!Counts(Events!Parsed(b))

\* The caller has credited a transaction once if its final event was handled and
\* says so, and else never.
CreditsOK == /\ credits \in [Txs -> Nat]
             /\ \A t \in Txs : credits[t] = IF Earned(t) THEN 1 ELSE 0

\* (Invariant)
BooksInv == TxOK /\ MailOK /\ SeenOK /\ CreditsOK

\* A final event counts if its transaction is booked, and unless it is a swap's
\* in the old form, only then.
LEMMA CountsIsBooked ==
  ASSUME TxOK, MailOK, NEW b \in mail
  PROVE  /\ Events!Counts(Events!Parsed(b)) => Final(b) /\ tx[b.of].booked
         /\ Final(b) /\ tx[b.of].booked /\ (tx[b.of].kind \in Events!Swaps => b.fields # {})
              => Events!Counts(Events!Parsed(b))
<1> DEFINE x == tx[b.of]
<1>1. /\ x.kind \in Events!Kinds /\ x.state \in {"pending", "confirmed", "failed"}
      /\ x.booked \in BOOLEAN
      /\ x.booked => x.state = "confirmed" /\ x.kind # "TRANSFER"
      /\ x.kind \in Events!Inflows /\ x.state # "pending" => x.booked
  BY DEF TxOK, MailOK, Transaction
<1>2. /\ b.ttype = Events!TransactionType(x.kind)
      /\ ~Final(b) => "swap_incoming" \notin b.fields
      /\ Final(b) => /\ x.state # "pending" /\ b.type = Events!FinalType(x)
                     /\ b.leg = Events!Leg(x)
                     /\ "swap_incoming" \in b.fields => x.kind \in Events!Swaps
                     /\ x.kind \in Events!Swaps /\ b.fields # {} => "swap_incoming" \in b.fields
  BY DEF MailOK
<1>3. Events!Counts(Events!Parsed(b)) <=>
        \/ "swap_incoming" \in b.fields /\ b.leg.booked
        \/ "swap_incoming" \notin b.fields /\ b.type = Events!Confirmed /\ b.ttype = "INBOUND"
        \/ b.type \in {Events!Credited, Events!SettledType}
  BY DEF Events!Counts, Events!Parsed
<1> HIDE DEF x
<1>4. ASSUME ~Final(b) PROVE ~Events!Counts(Events!Parsed(b))
  BY <1>2, <1>3, <1>4 DEF Final, Events!Confirming, Events!Confirmed, Events!Credited,
                          Events!SettledType
<1>5. ASSUME Final(b)
      PROVE  /\ Events!Counts(Events!Parsed(b)) => x.booked
             /\ x.booked /\ (x.kind \in Events!Swaps => b.fields # {})
                  => Events!Counts(Events!Parsed(b))
  <2>1. b.leg.booked = x.booked
    BY <1>2, <1>5 DEF Events!Leg
  <2>2. CASE x.kind \in Events!Swaps
    BY <1>1, <1>2, <1>3, <1>5, <2>1, <2>2
       DEF Events!Swaps, Events!FinalType, Events!TransactionType, Events!Inflows,
           Events!Confirmed, Events!Credited, Events!SettledType, Events!FailedType
  <2>3. CASE x.kind \in Events!Inflows
    BY <1>1, <1>2, <1>3, <1>5, <2>3
       DEF Events!Swaps, Events!FinalType, Events!TransactionType, Events!Inflows,
           Events!Confirmed, Events!Credited, Events!SettledType, Events!FailedType
  <2>4. CASE x.kind = "TRANSFER"
    BY <1>1, <1>2, <1>3, <1>5, <2>4
       DEF Events!Swaps, Events!FinalType, Events!TransactionType, Events!Inflows,
           Events!Confirmed, Events!Credited, Events!SettledType, Events!FailedType
  <2> QED
    BY <1>1, <2>2, <2>3, <2>4 DEF Events!Kinds
<1> QED
  BY <1>4, <1>5 DEF x

\* At first nothing is reported.
LEMMA BooksInit == Events!Init => BooksInv
<1> SUFFICES ASSUME Events!Init PROVE BooksInv
  OBVIOUS
<1>1. TxOK
  <2>1. tx \in [Txs -> [kind : Events!Kinds, state : {"pending"}, arrived : {FALSE},
                        booked : {FALSE}]]
    BY DEF Events!Init
  <2> QED
    BY <2>1 DEF TxOK, Transaction
<1> QED
  BY <1>1 DEF Events!Init, BooksInv, MailOK, SeenOK, CreditsOK, Earned

\* A body of another kind than the final ones leaves the credits as they are.
LEMMA ProgressStep ==
  ASSUME BooksInv, NEW t \in Txs, Events!Progress(t) PROVE BooksInv'
<1> USE DEF BooksInv
<1>1. PICK legacy \in BOOLEAN : mail' = mail \cup {Events!Body(t, Events!Confirming, legacy)}
  BY DEF Events!Progress
<1> DEFINE b == Events!Body(t, Events!Confirming, legacy)
<1>2. UNCHANGED <<tx, delivered, seen, credits>>
  BY DEF Events!Progress
<1>3. /\ b.of = t /\ b.type = Events!Confirming /\ b.id = <<t, Events!Confirming>>
      /\ b.ttype = Events!TransactionType(tx[t].kind) /\ "swap_incoming" \notin b.fields
  BY DEF Events!Body, Events!Confirming, Events!Confirmed, Events!FailedType
<1> HIDE DEF b
<1>4. ~Final(b)
  BY <1>3 DEF Final
<1>5. MailOK'
  BY <1>1, <1>2, <1>3, <1>4 DEF MailOK, b, Final
<1>6. SeenOK'
  BY <1>1, <1>2 DEF SeenOK
<1>7. \A u \in Txs : Earned(u)' <=> Earned(u)
  BY <1>1, <1>2, <1>4 DEF Earned, b, Final, Events!Counts, Events!Parsed
<1> QED
  BY <1>2, <1>5, <1>6, <1>7 DEF TxOK, CreditsOK

\* What ends a transaction is not yet in any body.
LEMMA EndStep ==
  ASSUME BooksInv, NEW t \in Txs, NEW x \in Transaction, tx[t].state = "pending",
         x.kind = tx[t].kind, x.state # "pending", tx' = [tx EXCEPT ![t] = x],
         x.booked => x.state = "confirmed" /\ x.kind # "TRANSFER",
         x.kind \in Events!Inflows => x.booked,
         UNCHANGED <<mail, delivered, seen, credits>>
  PROVE  BooksInv'
<1> USE DEF BooksInv
<1>1. /\ tx' \in [Txs -> Transaction] /\ tx'[t] = x
      /\ \A u \in Txs : u # t => tx'[u] = tx[u]
  BY DEF TxOK
<1>2. TxOK'
  BY <1>1 DEF TxOK
<1>3. MailOK'
  <2>1. \A b \in mail : Final(b) => b.of # t
    BY DEF MailOK
  <2>2. \A b \in mail : tx'[b.of].kind = tx[b.of].kind
    BY <1>1 DEF MailOK
  <2>3. \A b \in mail : Final(b) => tx'[b.of] = tx[b.of]
    BY <2>1, <1>1 DEF MailOK
  <2> QED
    BY <2>1, <2>2, <2>3 DEF MailOK, Final
<1>4. SeenOK'
  BY DEF SeenOK
<1>5. CreditsOK'
  BY DEF CreditsOK, Earned, Final, Events!Counts, Events!Parsed
<1> QED
  BY <1>2, <1>3, <1>4, <1>5

\* A transaction succeeds.
LEMMA SucceedStep ==
  ASSUME BooksInv, NEW t \in Txs, Events!Succeed(t) PROVE BooksInv'
<1>1. PICK arrived \in BOOLEAN, booked \in BOOLEAN :
        /\ booked => arrived
        /\ tx[t].kind \in Events!Inflows => booked
        /\ tx[t].kind = "TRANSFER" => ~arrived
        /\ tx' = [tx EXCEPT ![t] = [@ EXCEPT !.state = "confirmed", !.arrived = arrived,
                                             !.booked = booked]]
  BY DEF Events!Succeed
<1> DEFINE x == [tx[t] EXCEPT !.state = "confirmed", !.arrived = arrived, !.booked = booked]
<1>2. tx[t] \in Transaction
  BY DEF BooksInv, TxOK
<1>3. /\ x \in Transaction /\ x.kind = tx[t].kind /\ x.state = "confirmed"
      /\ x.booked = booked
  BY <1>2 DEF Transaction
<1>4. tx' = [tx EXCEPT ![t] = x]
  BY <1>1
<1>5. tx[t].state = "pending" /\ UNCHANGED <<mail, delivered, seen, credits>>
  BY DEF Events!Succeed
<1> HIDE DEF x
<1> QED
  BY <1>1, <1>3, <1>4, <1>5, EndStep

\* A transaction fails, and nothing is booked.
LEMMA FailStep ==
  ASSUME BooksInv, NEW t \in Txs, Events!Fail(t) PROVE BooksInv'
<1> DEFINE x == [tx[t] EXCEPT !.state = "failed"]
<1>1. /\ tx[t] \in Transaction
      /\ tx[t].booked => tx[t].state = "confirmed"
  BY DEF BooksInv, TxOK
<1>2. tx[t].state = "pending" /\ UNCHANGED <<mail, delivered, seen, credits>>
  BY DEF Events!Fail
<1>3. /\ x \in Transaction /\ x.kind = tx[t].kind /\ x.state = "failed"
      /\ ~x.booked
  BY <1>1, <1>2 DEF Transaction
<1>4. tx' = [tx EXCEPT ![t] = x]
  BY DEF Events!Fail
<1>5. x.kind \notin Events!Inflows
  BY <1>3 DEF Events!Fail, Events!Swaps, Events!Inflows
<1> HIDE DEF x
<1> QED
  BY <1>2, <1>3, <1>4, <1>5, EndStep

\* The final body is the first, and its event_id is new.
LEMMA ReportStep ==
  ASSUME BooksInv, NEW t \in Txs, Events!Report(t) PROVE BooksInv'
<1> USE DEF BooksInv
<1>1. PICK legacy \in BOOLEAN :
        mail' = mail \cup {Events!Body(t, Events!FinalType(tx[t]), legacy)}
  BY DEF Events!Report
<1> DEFINE b == Events!Body(t, Events!FinalType(tx[t]), legacy)
<1>2. /\ UNCHANGED <<tx, delivered, seen, credits>>
      /\ tx[t].state # "pending" /\ ~\E c \in mail : c.of = t /\ Final(c)
  BY DEF Events!Report, Final
<1>3. /\ b.of = t /\ b.type = Events!FinalType(tx[t]) /\ b.id = <<t, Events!FinalType(tx[t])>>
      /\ b.ttype = Events!TransactionType(tx[t].kind) /\ b.leg = Events!Leg(tx[t])
      /\ b.fields = IF legacy THEN {}
                    ELSE {"operation"} \cup {f \in {"swap_incoming"} :
                           tx[t].kind \in Events!Swaps
                           /\ Events!FinalType(tx[t]) \in {Events!Confirmed, Events!FailedType}}
  BY DEF Events!Body
<1> HIDE DEF b
<1>4. /\ "swap_incoming" \in b.fields => tx[t].kind \in Events!Swaps
      /\ tx[t].kind \in Events!Swaps /\ b.fields # {} => "swap_incoming" \in b.fields
  <2>1. tx[t].kind \in Events!Swaps
          => Events!FinalType(tx[t]) \in {Events!Confirmed, Events!FailedType}
    BY DEF Events!Swaps, Events!FinalType
  <2> QED
    BY <1>3, <2>1
<1>5. Final(b)
  BY <1>3 DEF Final, Events!FinalType, Events!Confirming, Events!Confirmed, Events!FailedType,
              Events!Credited, Events!SettledType
<1>6. MailOK'
  <2>1. mail' = mail \cup {b}
    BY <1>1 DEF b
  <2> QED
    BY <2>1, <1>2, <1>3, <1>4, <1>5 DEF MailOK, Final
<1>7. SeenOK'
  BY <1>1, <1>2 DEF SeenOK
<1>8. b.id \notin seen
  <2> SUFFICES ASSUME b.id \in seen PROVE FALSE
    OBVIOUS
  <2>1. PICK c \in mail : c.id = b.id
    BY DEF SeenOK
  <2>2. <<c.of, c.type>> = <<t, b.type>>
    BY <2>1, <1>3 DEF MailOK
  <2> QED
    BY <2>2, <1>2, <1>5 DEF Final
<1>9. \A u \in Txs : Earned(u)' <=> Earned(u)
  <2>1. mail' = mail \cup {b}
    BY <1>1 DEF b
  <2> QED
    BY <2>1, <1>2, <1>8 DEF Earned, Final, Events!Counts, Events!Parsed
<1> QED
  BY <1>2, <1>6, <1>7, <1>9 DEF TxOK, CreditsOK

\* A body is handled once, by its event_id, and a final one is the only one of its
\* transaction that counts.
LEMMA DeliverStep ==
  ASSUME BooksInv, NEW b \in mail, Events!Deliver(b) PROVE BooksInv'
<1> USE DEF BooksInv
<1>1. UNCHANGED <<tx, mail>> /\ delivered' = delivered \cup {b}
  BY DEF Events!Deliver
<1>2. /\ b.of \in Txs /\ b.id = <<b.of, b.type>> /\ Events!Parsed(b).id = b.id
  BY DEF MailOK, Events!Parsed
<1>3. TxOK' /\ MailOK'
  BY <1>1 DEF TxOK, MailOK, Final
<1>4. CASE b.id \in seen
  <2>1. UNCHANGED <<seen, credits>>
    BY <1>2, <1>4 DEF Events!Deliver
  <2>2. SeenOK'
    BY <2>1, <1>1, <1>4 DEF SeenOK
  <2>3. \A u \in Txs : Earned(u)' <=> Earned(u)
    BY <2>1, <1>1 DEF Earned, Final, Events!Counts, Events!Parsed
  <2> QED
    BY <2>1, <2>2, <2>3, <1>3 DEF CreditsOK
<1>5. CASE b.id \notin seen
  <2>1. /\ seen' = seen \cup {b.id}
        /\ credits' = IF Events!Counts(Events!Parsed(b))
                      THEN [credits EXCEPT ![b.of] = @ + 1] ELSE credits
    BY <1>2, <1>5 DEF Events!Deliver, Events!Readable
  <2>2. SeenOK'
    BY <2>1, <1>1 DEF SeenOK
  <2>3. \A c \in mail : Final(c) /\ c.id = b.id => c = b
    <3> SUFFICES ASSUME NEW c \in mail, Final(c), c.id = b.id PROVE c = b
      OBVIOUS
    <3>1. <<c.of, c.type>> = <<b.of, b.type>>
      BY DEF MailOK
    <3> QED
      BY <3>1 DEF MailOK, Final
  <2>4. CASE Events!Counts(Events!Parsed(b))
    <3>1. Final(b)
      BY <2>4, CountsIsBooked
    <3>2. ~Earned(b.of)
      BY <3>1, <1>5 DEF Earned, MailOK
    <3>3. Earned(b.of)'
      BY <3>1, <2>1, <2>4, <1>1 DEF Earned, Final, Events!Counts, Events!Parsed
    <3>4. \A u \in Txs : u # b.of => (Earned(u)' <=> Earned(u))
      <4> SUFFICES ASSUME NEW u \in Txs, u # b.of PROVE Earned(u)' <=> Earned(u)
        OBVIOUS
      <4>1. \A c \in mail : c.of = u => c.id # b.id
        <5> SUFFICES ASSUME NEW c \in mail, c.of = u, c.id = b.id PROVE FALSE
          OBVIOUS
        <5>1. <<c.of, c.type>> = <<b.of, b.type>>
          BY <1>2 DEF MailOK
        <5> QED
          BY <5>1
      <4> QED
        BY <2>1, <4>1, <1>1 DEF Earned, Final, Events!Counts, Events!Parsed
    <3>5. credits' = [credits EXCEPT ![b.of] = 1]
      <4>1. credits[b.of] = 0 /\ credits[b.of] + 1 = 1
        BY <3>2, <1>2 DEF CreditsOK
      <4>2. credits' = [credits EXCEPT ![b.of] = credits[b.of] + 1]
        BY <2>1, <2>4
      <4> QED
        BY <4>1, <4>2
    <3> QED
      BY <2>2, <3>3, <3>4, <3>5, <1>2, <1>3 DEF CreditsOK
  <2>5. CASE ~Events!Counts(Events!Parsed(b))
    <3>1. \A u \in Txs : Earned(u)' <=> Earned(u)
      BY <2>1, <2>3, <2>5, <1>1 DEF Earned, Final, Events!Counts, Events!Parsed
    <3> QED
      BY <2>1, <2>2, <2>5, <3>1, <1>3 DEF CreditsOK
  <2> QED
    BY <2>4, <2>5
<1> QED
  BY <1>4, <1>5

\* The steps together.
LEMMA BooksInvariant == Spec => []BooksInv
<1>1. Events!Init => BooksInv
  BY BooksInit
<1>2. BooksInv /\ [Events!Next]_(Events!vars) => BooksInv'
  <2>1. CASE UNCHANGED Events!vars
    BY <2>1 DEF Events!vars, BooksInv, TxOK, MailOK, SeenOK, CreditsOK, Earned, Final,
                Events!Counts, Events!Parsed
  <2> QED
    BY <2>1, ProgressStep, SucceedStep, FailStep, ReportStep, DeliverStep DEF Events!Next
<1> QED
  BY <1>1, <1>2, EachPart, PTL DEF Events!Spec

\* Nothing is credited that Paratro did not credit, for any number of
\* transactions, whatever comes twice, late or out of order
\* (webhook.rs:134-136, 144-150).
THEOREM NothingIsOvercredited == Spec => []NeverOvercredited
<1>1. BooksInv => NeverOvercredited
  <2> SUFFICES ASSUME BooksInv, NEW t \in Txs PROVE credits[t] <= Events!Booked(t)
    BY DEF NeverOvercredited, Events!NeverOvercredited
  <2>1. CASE Earned(t)
    <3>1. tx[t].booked
      BY <2>1, CountsIsBooked DEF Earned, BooksInv
    <3> QED
      BY <2>1, <3>1 DEF BooksInv, CreditsOK, Events!Booked
  <2>2. CASE ~Earned(t)
    BY <2>2 DEF BooksInv, CreditsOK, Events!Booked
  <2> QED
    BY <2>1, <2>2
<1> QED
  BY <1>1, BooksInvariant, PTL

\* Whatever outcome reached the caller is in its books (webhook.rs:100-111).
THEOREM NothingIsMissed == Spec => []NothingMissed
<1>1. BooksInv => NothingMissed
  <2> SUFFICES ASSUME BooksInv, NEW b \in delivered, Final(b),
                      tx[b.of].kind \in Events!Swaps => b.fields # {}
               PROVE  credits[b.of] = Events!Booked(b.of)
    BY DEF NothingMissed, Events!NothingMissed, Final
  <2>1. b \in mail /\ b.id \in seen /\ b.of \in Txs
    BY DEF BooksInv, SeenOK, MailOK
  <2>2. CASE tx[b.of].booked
    <3>1. Earned(b.of)
      BY <2>1, <2>2, CountsIsBooked DEF Earned, BooksInv
    <3> QED
      BY <2>1, <2>2, <3>1 DEF BooksInv, CreditsOK, Events!Booked
  <2>3. CASE ~tx[b.of].booked
    <3>1. ~Earned(b.of)
      BY <2>3, CountsIsBooked DEF Earned, BooksInv
    <3> QED
      BY <2>1, <2>3, <3>1 DEF BooksInv, CreditsOK, Events!Booked
  <2> QED
    BY <2>2, <2>3
<1> QED
  BY <1>1, BooksInvariant, PTL
=============================================================================
