--------------------------- MODULE UpstreamProofs ---------------------------
(***************************************************************************)
(* Proofs about Upstream and Credentials: whose credential goes where, and *)
(* what becomes of the user's session, for any number of requests, tokens, *)
(* providers and commands.                                                 *)
(*                                                                         *)
(* First what the functions of Credentials give; then what holds of one    *)
(* request (Good) and how each of its steps keeps it; then the invariant   *)
(* of all, one lemma per step that changes a file or a token.              *)
(***************************************************************************)
EXTENDS Upstream, WellFoundedInduction, FiniteSetTheorems, TLAPS

-----------------------------------------------------------------------------
(* The first of some values. *)

LEMMA FirstOfTwo ==
  ASSUME NEW a, NEW b
  PROVE  FirstOf(<< a, b >>) = IF a # Unset THEN a ELSE b
<1> DEFINE v == << a, b >>
           there == {i \in 1..2 : v[i] # Unset}
<1>1. DOMAIN v = 1..2 /\ v[1] = a /\ v[2] = b
  OBVIOUS
<1>2. FirstOf(v) = IF there = {} THEN Unset ELSE v[Min(there)]
  BY <1>1 DEF FirstOf
<1>3. CASE a # Unset
  <2>1. 1 \in there /\ \A y \in there : 1 <= y /\ (y <= 1 => y = 1)
    BY <1>1, <1>3
  <2>2. Min(there) = 1
    BY <2>1 DEF Min
  <2> QED
    BY <1>1, <1>2, <1>3, <2>1, <2>2
<1>4. CASE a = Unset /\ b # Unset
  <2>1. there = {2}
    BY <1>1, <1>4
  <2>2. Min(there) = 2
    BY <2>1 DEF Min
  <2> QED
    BY <1>1, <1>2, <1>4, <2>1, <2>2
<1>5. CASE a = Unset /\ b = Unset
  BY <1>1, <1>2, <1>5
<1> QED
  BY <1>3, <1>4, <1>5

\* By the subsets 1..i, of which the strict inclusion is well-founded.
LEMMA MinIsThere ==
  ASSUME NEW I \in SUBSET Nat, I # {}
  PROVE  Min(I) \in I
<1> DEFINE T == {1..i : i \in I}
<1>1. \A i \in I : IsFiniteSet(1..i)
  BY FS_Interval
<1>2. T \subseteq FiniteSubsetsOf(Nat) /\ T # {}
  <2>1. \A i \in I : 1..i \in FiniteSubsetsOf(Nat)
    BY <1>1 DEF FiniteSubsetsOf
  <2>2. PICK i \in I : TRUE
    OBVIOUS
  <2> QED
    BY <2>1, <2>2
<1>3. IsWellFoundedOn(StrictSubsetOrdering(Nat), FiniteSubsetsOf(Nat))
  BY FS_StrictSubsetOrderingWellFounded
<1>4. PICK X \in T : \A Y \in T : << Y, X >> \notin StrictSubsetOrdering(Nat)
  BY <1>2, <1>3, WFMin
<1>5. PICK x \in I : X = 1..x
  BY <1>4
<1>6. ASSUME NEW y \in I PROVE x <= y
  <2>1. << 1..y, 1..x >> \notin StrictSubsetOrdering(Nat)
    BY <1>4, <1>5
  <2>2. ~(1..y \subseteq 1..x /\ 1..y # 1..x)
    BY <2>1 DEF StrictSubsetOrdering
  <2>3. SUFFICES ASSUME y < x PROVE FALSE
    OBVIOUS
  <2>4. x \in 1..x /\ x \notin 1..y /\ 1..y \subseteq 1..x
    BY <2>3
  <2> QED
    BY <2>2, <2>4
<1> QED
  BY <1>6 DEF Min

LEMMA FirstOfSome ==
  ASSUME NEW v, DOMAIN v \subseteq Nat
  PROVE  FirstOf(v) # Unset => \E i \in DOMAIN v : FirstOf(v) = v[i]
<1> DEFINE there == {i \in DOMAIN v : v[i] # Unset}
<1>1. FirstOf(v) = IF there = {} THEN Unset ELSE v[Min(there)]
  BY DEF FirstOf
<1>2. there # {} => Min(there) \in there
  BY MinIsThere
<1> QED
  BY <1>1, <1>2

LEMMA FirstOfThree ==
  ASSUME NEW a, NEW b, NEW c
  PROVE  FirstOf(<< a, b, c >>) = IF a # Unset THEN a ELSE IF b # Unset THEN b ELSE c
<1> DEFINE v == << a, b, c >>
           there == {i \in 1..3 : v[i] # Unset}
<1>1. DOMAIN v = 1..3 /\ v[1] = a /\ v[2] = b /\ v[3] = c
  OBVIOUS
<1>2. FirstOf(v) = IF there = {} THEN Unset ELSE v[Min(there)]
  BY <1>1 DEF FirstOf
<1>3. \A i \in 1..3 : i = 1 \/ i = 2 \/ i = 3
  OBVIOUS
<1>4. there # {} => Min(there) \in there
  BY MinIsThere
<1>5. \A i, j \in there : i = Min(there) => i <= j
  <2>1. CASE 1 \in there
    <3>1. \A j \in there : 1 <= j /\ (j <= 1 => j = 1)
      OBVIOUS
    <3>2. Min(there) = 1
      BY <2>1, <3>1 DEF Min
    <3> QED
      BY <3>1, <3>2
  <2>2. CASE 1 \notin there /\ 2 \in there
    <3>1. \A j \in there : 2 <= j /\ (j <= 2 => j = 2)
      BY <1>3, <2>2
    <3>2. Min(there) = 2
      BY <2>2, <3>1 DEF Min
    <3> QED
      BY <3>1, <3>2
  <2>3. CASE 1 \notin there /\ 2 \notin there
    BY <1>3, <2>3
  <2> QED
    BY <2>1, <2>2, <2>3
<1> QED
  BY <1>1, <1>2, <1>3, <1>4, <1>5

-----------------------------------------------------------------------------
(* What a route that is found consists of. *)

\* The credential, if it is the harness', belongs to the owner of the URL.
Fair(route) ==
  route.cred # Incoming => Owner[route.url] = route.cred.of /\ route.cred.via # "profile"

LEMMA CodexRouteFair ==
  ASSUME NEW p, NEW access \in Token \union {Unset}, NEW key \in BOOLEAN
  PROVE  /\ CodexRoute(p, access, key) \in Routes
         /\ CodexRoute(p, access, key) # Refusal => Fair(CodexRoute(p, access, key))
<1> USE CredentialsAssumption DEF CredentialsAssumption
<1>1. CodexToken(access) \in Routes /\ Fair(CodexToken(access))
  BY DEF CodexToken, Route, Credential, Routes, Found, Fair
<1>2. CodexKey \in Routes /\ Fair(CodexKey)
  BY DEF CodexKey, Route, Credential, Routes, Found, Fair
<1>3. Refusal \in Routes
  BY DEF Routes
<1> QED
  BY <1>1, <1>2, <1>3 DEF CodexRoute

LEMMA PlainRouteFair ==
  ASSUME NEW harness, NEW p, NEW explicit \in BOOLEAN
  PROVE  /\ PlainRoute(harness, p, explicit) \in Routes
         /\ PlainRoute(harness, p, explicit) # Refusal =>
              PlainRoute(harness, p, explicit).cred = Incoming
<1> USE CredentialsAssumption DEF CredentialsAssumption
<1>1. ASSUME NEW url \in Url, NEW native \in BOOLEAN
      PROVE  Route(url, Incoming, native) \in Routes /\ Route(url, Incoming, native).cred = Incoming
  BY DEF Route, Incoming, Credential, Routes, Found
<1>2. Refusal \in Routes
  BY DEF Routes
<1> QED
  BY <1>1, <1>2 DEF PlainRoute

\* What is found of OpenCode is a credential of the provider that is asked for.
LEMMA OpenCodeCredentialOf ==
  ASSUME NEW c, NEW m \in OpenCodeRest, NEW p \in Provider, OpenCodeCredential(c, m, p) # Unset
  PROVE  \E via \in {"config", "oauth", "key", "env"} :
           OpenCodeCredential(c, m, p) = Credential(p, via, Unset)
<1> DEFINE cf == IF c.key[p] = "real" THEN Credential(p, "config", Unset) ELSE Unset
           au == IF m.auth[p] # "none" THEN Credential(p, m.auth[p], Unset) ELSE Unset
           en == IF p \in m.env THEN Credential(p, "env", Unset) ELSE Unset
<1>1. OpenCodeCredential(c, m, p) = FirstOf(<< cf, au, en >>)
  BY DEF OpenCodeCredential
<1>2. OpenCodeCredential(c, m, p) = IF cf # Unset THEN cf ELSE IF au # Unset THEN au ELSE en
  BY <1>1, FirstOfThree
<1>3. m.auth[p] \in {"none", "oauth", "key"}
  BY DEF OpenCodeRest
<1> QED
  BY <1>2, <1>3

\* Each URL in the files of OpenCode belongs to the provider it is written for.
FilesOf(c, m) ==
  \A p \in Provider :
    /\ c.base[p] \in Owned(p) \union {Gateway, Unset}
    /\ m.meta[p].url \in Owned(p) \union {Unset}

\* The URL for a provider belongs to it, or to the active one, when those in the
\* files belong to the providers they are written for.
LEMMA OpenCodeUpstreamOwn ==
  ASSUME NEW c \in OpenCodeConfig, NEW m \in OpenCodeRest, NEW p \in Provider \union {Unset},
         OpenCodeUpstream(c, m, p) # Unset
  PROVE  /\ c.active # Unset
         /\ OpenCodeUpstream(c, m, p) \in Url
         /\ FilesOf(c, m) => Owner[OpenCodeUpstream(c, m, p)] \in {p, c.active}
<1> USE CredentialsAssumption DEF CredentialsAssumption
<1> DEFINE now == Usable(c.base[c.active])
           kept == IF p = Unset THEN Unset ELSE OpenCodePreserved(c, m, p)
<1>1. c.active # Unset /\ c.active \in Provider
  BY DEF OpenCodeUpstream, OpenCodeConfig
<1>2. OpenCodeUpstream(c, m, p) = IF now # Unset THEN now ELSE kept
  BY <1>1, FirstOfTwo DEF OpenCodeUpstream
<1>3. ASSUME NEW q \in Provider
      PROVE  Usable(c.base[q]) # Unset => Usable(c.base[q]) = c.base[q] /\ c.base[q] \in Url
  BY DEF Usable, IsLoopback, OpenCodeConfig
<1>o. ASSUME NEW q \in Provider, FilesOf(c, m)
      PROVE  c.base[q] \in Url => Owner[c.base[q]] = q
  BY <1>o DEF FilesOf, Owned
<1>4. CASE p = Unset
  <2>1. OpenCodeUpstream(c, m, p) = now /\ now = c.base[c.active] /\ c.base[c.active] \in Url
    BY <1>1, <1>2, <1>3, <1>4
  <2> QED
    BY <1>1, <1>o, <2>1
<1>5. CASE p # Unset
  <2>1. p \in Provider
    BY <1>5
  <2>2. kept = IF m.meta[p].url # Unset THEN m.meta[p].url
               ELSE IF Usable(c.base[p]) # Unset THEN Usable(c.base[p]) ELSE OpenCodeDefault(p)
    BY <1>5, FirstOfThree DEF OpenCodePreserved
  <2>3. m.meta[p].url \in Url \union {Unset}
    BY <2>1 DEF OpenCodeRest
  <2>4. OpenCodeDefault(p) # Unset => OpenCodeDefault(p) \in Url /\ Owner[OpenCodeDefault(p)] = p
    BY DEF OpenCodeDefault
  <2>5. \A u \in Owned(p) : Owner[u] = p
    BY DEF Owned
  <2> HIDE DEF now, kept
  <2>6. now = Usable(c.base[c.active])
    BY DEF now
  <2>7. OpenCodeUpstream(c, m, p) \in Url
    BY <1>1, <1>2, <1>3, <2>1, <2>2, <2>3, <2>4, <2>6
  <2>8. ASSUME FilesOf(c, m) PROVE Owner[OpenCodeUpstream(c, m, p)] \in {p, c.active}
    <3>1. now # Unset => Owner[now] = c.active
      BY <1>1, <1>3, <1>o, <2>6, <2>8
    <3>2. m.meta[p].url # Unset => Owner[m.meta[p].url] = p
      BY <2>1, <2>5, <2>8 DEF FilesOf
    <3>3. Usable(c.base[p]) # Unset => Owner[Usable(c.base[p])] = p
      BY <1>3, <1>o, <2>1, <2>8
    <3>4. now = Unset => kept # Unset
      BY <1>2
    <3> QED
      BY <1>2, <2>2, <2>4, <3>1, <3>2, <3>3, <3>4
  <2> QED
    BY <1>1, <2>7, <2>8
<1> QED
  BY <1>4, <1>5

\* The credential, if it is the harness', belongs to the owner of the URL, or the
\* URL to the active provider, which the request is not for.
FairFor(c, p, route) ==
  route.cred # Incoming =>
    /\ route.cred.via # "profile"
    /\ \/ Owner[route.url] = route.cred.of
       \/ p # c.active /\ Owner[route.url] = c.active

LEMMA OpenCodeRouteFair ==
  ASSUME NEW c \in OpenCodeConfig, NEW m \in OpenCodeRest, NEW p \in Provider \union {Unset},
         NEW explicit \in BOOLEAN, NEW route, route = OpenCodeRoute(c, m, p, explicit)
  PROVE  /\ route \in Routes
         /\ route # Refusal /\ FilesOf(c, m) => FairFor(c, p, route)
<1> USE CredentialsAssumption DEF CredentialsAssumption
<1>1. Refusal \in Routes
  BY DEF Routes
<1>2. CASE explicit
  <2>1. ASSUME NEW url \in Url, NEW native \in BOOLEAN
        PROVE  Route(url, Incoming, native) \in Routes /\ FairFor(c, p, Route(url, Incoming, native))
    BY DEF Route, Incoming, Credential, Routes, Found, FairFor
  <2>2. OpenCodeUpstream(c, m, p) # Unset => OpenCodeUpstream(c, m, p) \in Url
    BY OpenCodeUpstreamOwn
  <2> QED
    BY <1>1, <1>2, <2>1, <2>2 DEF OpenCodeRoute, OpenCodeExplicit
<1>3. CASE ~explicit
  <2> DEFINE a == IF p = Unset THEN c.active ELSE p
             url == OpenCodeUpstream(c, m, a)
             cred == OpenCodeCredential(c, m, a)
  <2>1. route = IF a = Unset \/ url = Unset \/ cred = Unset \/ ~OpenCodeSupported(c, m)
                THEN Refusal ELSE Route(url, cred, FALSE)
    BY <1>3 DEF OpenCodeRoute, OpenCodeReused
  <2>2. a \in Provider \union {Unset}
    BY DEF OpenCodeConfig
  <2>3. SUFFICES ASSUME a \in Provider, url # Unset, cred # Unset, route = Route(url, cred, FALSE)
                 PROVE  /\ route \in Routes
                        /\ FilesOf(c, m) => FairFor(c, p, route)
    BY <1>1, <2>1, <2>2
  <2>4. PICK via \in {"config", "oauth", "key", "env"} : cred = Credential(a, via, Unset)
    BY <2>3, OpenCodeCredentialOf
  <2>5. /\ c.active # Unset /\ url \in Url
        /\ FilesOf(c, m) => Owner[url] \in {a, c.active}
    BY <2>3, OpenCodeUpstreamOwn
  <2> HIDE DEF url, cred
  <2>6. route \in Routes /\ route.cred.of = a /\ route.url = url /\ route.cred.via = via
    BY <2>3, <2>4, <2>5 DEF Route, Credential, Routes, Found
  <2>7. a = p \/ a = c.active
    OBVIOUS
  <2> HIDE DEF a
  <2> QED
    BY <2>4, <2>5, <2>6, <2>7 DEF FairFor
<1> QED
  BY <1>2, <1>3

\* A URL that can be used can be used.
LEMMA UsableAgain ==
  ASSUME NEW url \in Url \union {Unset}
  PROVE  Usable(Usable(url)) = Usable(url) /\ Usable(url) # Gateway
BY CredentialsAssumption DEF CredentialsAssumption, Usable, IsLoopback

\* Attached or not, the URL that is found is the one that is meant.
LEMMA OpenCodeRouteMeant ==
  ASSUME TypeOK, NEW c \in OpenCodeConfig, NEW m \in OpenCodeRest, NEW p \in Provider,
         NEW explicit \in BOOLEAN, NEW route, route = OpenCodeRoute(c, m, p, explicit),
         p = c.active,
         \/ c.base[p] \in {wish[p], Usable(wish[p])} /\ m.meta[p] = NothingKept
         \/ /\ c.base[p] = Gateway /\ Meant(p) # Unset
            /\ m.meta[p] = Kept(Meant(p), Usable(wish[p]) # Unset),
         NEW url, url = IF p = Codex /\ explicit THEN NativeUrl ELSE Meant(p)
  PROVE  (route # Refusal => route.url = url) /\ (explicit /\ url # Unset => route # Refusal)
<1> USE CredentialsAssumption DEF CredentialsAssumption
<1>1. p # Unset
  OBVIOUS
<1> DEFINE now == Usable(c.base[p])
           kept == OpenCodePreserved(c, m, p)
<1>2. OpenCodeUpstream(c, m, p) = IF now # Unset THEN now ELSE kept
  BY <1>1, FirstOfTwo DEF OpenCodeUpstream
<1>3. kept = IF m.meta[p].url # Unset THEN m.meta[p].url
             ELSE IF now # Unset THEN now ELSE OpenCodeDefault(p)
  BY FirstOfThree DEF OpenCodePreserved
<1>4. wish[p] \in Url \union {Unset}
  BY DEF TypeOK
<1>5. OpenCodeUpstream(c, m, p) = Meant(p)
  <2>1. CASE c.base[p] \in {wish[p], Usable(wish[p])} /\ m.meta[p] = NothingKept
    <3>1. m.meta[p].url = Unset
      BY <2>1 DEF NothingKept, Kept
    <3>2. now = Usable(wish[p])
      BY <1>4, <2>1, UsableAgain
    <3>3. Usable(wish[p]) # Unset => Usable(wish[p]) = wish[p]
      BY DEF Usable
    <3> HIDE DEF now, kept
    <3> QED
      BY <1>2, <1>3, <3>1, <3>2, <3>3 DEF Meant
  <2>2. CASE /\ c.base[p] = Gateway /\ Meant(p) # Unset
             /\ m.meta[p] = Kept(Meant(p), Usable(wish[p]) # Unset)
    <3>1. m.meta[p].url = Meant(p)
      BY <2>2 DEF Kept
    <3>2. now = Unset
      BY <2>2 DEF Usable, IsLoopback
    <3> HIDE DEF now, kept
    <3> QED
      BY <1>2, <1>3, <2>2, <3>1, <3>2
  <2> QED
    BY <2>1, <2>2
<1>6. ASSUME NEW to, NEW cred, NEW native
      PROVE  Route(to, cred, native) # Refusal /\ Route(to, cred, native).url = to
  BY DEF Route, Refusal
<1>7. CASE explicit
  <2>1. route = IF p = Codex THEN Route(NativeUrl, Incoming, TRUE)
                ELSE IF Meant(p) = Unset THEN Refusal ELSE Route(Meant(p), Incoming, FALSE)
    BY <1>5, <1>7 DEF OpenCodeRoute, OpenCodeExplicit
  <2>2. /\ Route(NativeUrl, Incoming, TRUE) # Refusal
        /\ Route(NativeUrl, Incoming, TRUE).url = NativeUrl
        /\ Route(Meant(p), Incoming, FALSE) # Refusal
        /\ Route(Meant(p), Incoming, FALSE).url = Meant(p)
    BY <1>6
  <2> QED
    BY <1>7, <2>1, <2>2
<1>8. CASE ~explicit
  <2> DEFINE cred == OpenCodeCredential(c, m, p)
  <2>1. \/ route = Refusal
        \/ route = Route(Meant(p), cred, FALSE)
    BY <1>1, <1>5, <1>8 DEF OpenCodeRoute, OpenCodeReused
  <2>2. Route(Meant(p), cred, FALSE).url = Meant(p)
    BY <1>6
  <2> HIDE DEF cred
  <2> QED
    BY <1>8, <2>1, <2>2
<1> QED
  BY <1>7, <1>8

LEMMA SelectedMatches ==
  ASSUME NEW c \in OpenClawFiles, NEW p \in Provider, SelectedProfile(c, p) # Unset
  PROVE  SelectedProfile(c, p) \in Matching(c, p)
<1> DEFINE matching == Matching(c, p)
           configured == c.entry[p].configured
           order == c.entry[p].order
           inOrder == [i \in DOMAIN order |-> IF order[i] \in matching THEN order[i] ELSE Unset]
<1>1. order \in Seq(Profile)
  BY DEF OpenClawFiles, OpenClawEntry
<1>2. DOMAIN inOrder \subseteq Nat
  BY <1>1
<1>3. FirstOf(inOrder) # Unset => FirstOf(inOrder) \in matching
  <2> HIDE DEF matching, order
  <2>1. FirstOf(inOrder) # Unset => \E i \in DOMAIN inOrder : FirstOf(inOrder) = inOrder[i]
    BY <1>2, FirstOfSome
  <2> QED
    BY <2>1
<1>4. Cardinality(matching) = 1 => (CHOOSE x \in matching : TRUE) \in matching
  BY FS_EmptySet
<1> QED
  BY <1>3, <1>4 DEF SelectedProfile

LEMMA OpenClawCredentialOf ==
  ASSUME NEW c \in OpenClawFiles, NEW p \in Provider, OpenClawCredential(c, p) # Unset
  PROVE  /\ OpenClawCredential(c, p) \in Found
         /\ OpenClawCredential(c, p).of = p
         /\ OpenClawCredential(c, p).via = "profile" =>
              c.profiles[OpenClawCredential(c, p).id].of = p
<1>1. ProfileCredential(c, p) # Unset =>
        \E x \in Matching(c, p) : ProfileCredential(c, p) = Credential(p, "profile", x)
  BY SelectedMatches DEF ProfileCredential
<1>2. CacheCredential(c, p) # Unset => CacheCredential(c, p) = Credential(p, "cache", Unset)
  BY DEF CacheCredential
<1>3. EnvCredential(c, p) # Unset => EnvCredential(c, p) = Credential(p, "env", Unset)
  BY DEF EnvCredential
<1>4. \A x \in Matching(c, p) : x \in Profile /\ c.profiles[x].of = p
  BY DEF Matching
<1>5. OpenClawCredential(c, p) \in
        {ProfileCredential(c, p), CacheCredential(c, p), EnvCredential(c, p)}
  BY FirstOfThree DEF OpenClawCredential
<1>6. CASE OpenClawCredential(c, p) = ProfileCredential(c, p)
  BY <1>1, <1>4, <1>6 DEF Credential, Found
<1>7. CASE OpenClawCredential(c, p) = CacheCredential(c, p)
  BY <1>2, <1>7 DEF Credential, Found
<1>8. CASE OpenClawCredential(c, p) = EnvCredential(c, p)
  BY <1>3, <1>8 DEF Credential, Found
<1> QED
  BY <1>5, <1>6, <1>7, <1>8

LEMMA OpenClawRouteFair ==
  ASSUME NEW c \in OpenClawStart, NEW p \in Provider \union {Unset}, NEW explicit \in BOOLEAN,
         NEW route, route = OpenClawRoute(c, p, explicit)
  PROVE  /\ route \in Routes
         /\ route # Refusal /\ route.cred # Incoming =>
              /\ IF OpenClawKept(c, p) = Unset THEN route.url = ConfiguredUrl
                 ELSE Owner[route.url] = route.cred.of
              /\ route.cred.via = "profile" => c.profiles[route.cred.id].of = route.cred.of
<1> USE CredentialsAssumption DEF CredentialsAssumption
<1>1. c \in OpenClawFiles /\ \A q \in Provider : c.entry[q].kept \in Seq(Owned(q) \union {Unset})
  BY UpstreamAssumption DEF UpstreamAssumption
<1>2. OpenClawKept(c, p) # Unset =>
        p \in Provider /\ OpenClawKept(c, p) \in Url /\ Owner[OpenClawKept(c, p)] = p
  <2>1. SUFFICES ASSUME p # Unset, FirstOf(c.entry[p].kept) # Unset
                 PROVE  FirstOf(c.entry[p].kept) \in Owned(p)
    BY DEF OpenClawKept, Owned
  <2>2. c.entry[p].kept \in Seq(Owned(p) \union {Unset})
    BY <1>1, <2>1
  <2>3. /\ DOMAIN c.entry[p].kept \subseteq Nat
        /\ \A i \in DOMAIN c.entry[p].kept : c.entry[p].kept[i] \in Owned(p) \union {Unset}
    BY <2>2
  <2> QED
    BY <2>1, <2>3, FirstOfSome
<1>3. OpenClawUrl(c, p) = IF OpenClawKept(c, p) # Unset THEN OpenClawKept(c, p) ELSE ConfiguredUrl
  BY FirstOfTwo DEF OpenClawUrl
<1>4. OpenClawUrl(c, p) \in Url
  BY <1>2, <1>3
<1>5. Refusal \in Routes
  BY DEF Routes
<1>6. CASE explicit
  <2>1. Route(OpenClawUrl(c, p), Incoming, FALSE) \in Routes
    BY <1>4 DEF Route, Incoming, Credential, Routes, Found
  <2>2. Route(OpenClawUrl(c, p), Incoming, FALSE).cred = Incoming
    BY DEF Route
  <2> QED
    BY <1>5, <1>6, <2>1, <2>2 DEF OpenClawRoute, OpenClawExplicit
<1>7. CASE ~explicit
  <2>1. SUFFICES ASSUME route # Refusal PROVE
                   /\ route \in Routes
                   /\ IF OpenClawKept(c, p) = Unset THEN route.url = ConfiguredUrl
                      ELSE Owner[route.url] = route.cred.of
                   /\ route.cred.via = "profile" =>
                        c.profiles[route.cred.id].of = route.cred.of
    BY <1>5
  <2>2. /\ OpenClawFamily(c, p) # Unset /\ OpenClawCredential(c, p) # Unset
        /\ route = Route(OpenClawUrl(c, p), OpenClawCredential(c, p), FALSE)
    BY <1>7, <2>1 DEF OpenClawRoute, OpenClawReused
  <2>3. p \in Provider
    BY <2>2 DEF OpenClawFamily
  <2>4. route.url = OpenClawUrl(c, p) /\ route.cred = OpenClawCredential(c, p)
    BY <2>2 DEF Route
  <2>5. OpenClawCredential(c, p) \in Found
    BY <1>1, <2>2, <2>3, OpenClawCredentialOf
  <2>6. route \in Routes
    BY <1>4, <2>2, <2>5 DEF Route, Routes
  <2>7. IF OpenClawKept(c, p) = Unset THEN route.url = ConfiguredUrl ELSE Owner[route.url] = p
    BY <1>2, <1>3, <2>4
  <2>8. /\ route.cred.of = p
        /\ route.cred.via = "profile" => c.profiles[route.cred.id].of = p
    <3> DEFINE cred == OpenClawCredential(c, p)
    <3>1. cred.of = p /\ (cred.via = "profile" => c.profiles[cred.id].of = p)
      BY <1>1, <2>2, <2>3, OpenClawCredentialOf
    <3>2. route.cred = cred
      BY <2>4
    <3> HIDE DEF cred, CredentialsAssumption
    <3> QED
      BY <3>1, <3>2, Zenon
  <2>9. /\ IF OpenClawKept(c, p) = Unset THEN route.url = ConfiguredUrl
           ELSE Owner[route.url] = route.cred.of
        /\ route.cred.via = "profile" => c.profiles[route.cred.id].of = route.cred.of
    <3> HIDE DEF CredentialsAssumption
    <3> QED
      BY <2>7, <2>8, Zenon
  <2> QED
    BY <2>6, <2>9
<1> HIDE DEF CredentialsAssumption
<1> QED
  BY <1>6, <1>7

-----------------------------------------------------------------------------
(* What holds of one request. *)

\* A route of a request with a credential that may go there.
OwnRoute(q, route) ==
  route.cred # Incoming =>
    /\ \/ Owner[route.url] = route.cred.of
       \/ /\ client = "opencode" /\ q.provider # q.seen.active
          /\ Owner[route.url] = q.seen.active
       \/ /\ client = "openclaw" /\ OpenClawKept(claw, q.provider) = Unset
          /\ route.url = ConfiguredUrl
    /\ route.cred.via = "profile" => claw.profiles[route.cred.id].of = route.cred.of

Own(q) == q.pc = "send" => OwnRoute(q, q.route)

UrlFor(q) == IF q.provider = Codex /\ q.ask.explicit THEN NativeUrl ELSE Meant(q.provider)

\* It has read OpenCode's files, and at a good time.
HasRead(q) ==
  /\ client = "opencode" /\ ~q.hasty /\ q.seen # Unset
  /\ q.provider = q.seen.active /\ q.provider # Unset

Right(q) ==
  HasRead(q) =>
    /\ q.pc = "send" => q.route.url = UrlFor(q)
    /\ q.ask.explicit /\ q.result = "refused" => UrlFor(q) = Unset

SeenOwn(q) ==
  client = "opencode" /\ q.seen # Unset =>
    \A p \in Provider : q.seen.base[p] \in Owned(p) \union {Gateway, Unset}

SeenNow(q) ==
  q.pc = "rest" /\ ~q.hasty => pending = NoWrite /\ q.seen.base = config.base

Good(q) == q \in RequestState /\ Place(q) /\ Own(q) /\ Right(q) /\ SeenOwn(q) /\ SeenNow(q)

AllGood == \A r \in Request : Good(req[r])

\* The types of what is not a request, and that is all of the invariant that is.
StateTypeOK ==
  /\ client \in Client
  /\ store \in Store /\ expired \subseteq Token /\ valid \subseteq Token
  /\ issued \in Token /\ mine \in Token
  /\ dropped \subseteq Token \union {Unset} /\ overtaken \in BOOLEAN
  /\ config \in OpenCodeConfig /\ rest \in OpenCodeRest /\ pending \in Writes
  /\ wish \in [Provider -> Url \union {Unset}]
  /\ claw \in OpenClawFiles \union {Unset}
  /\ left \in [commands : Nat, selects : Nat, kills : Nat]

FilesOwn ==
  \A p \in Provider :
    /\ {config.base[p], ComingBase[p]} \subseteq Owned(p) \union {Gateway, Unset}
    /\ {rest.meta[p].url, ComingMeta[p].url} \subseteq Owned(p) \union {Unset}

Parts ==
  /\ StateTypeOK /\ req \in [Request -> RequestState] /\ AllGood
  /\ client = "openclaw" => claw \in OpenClawStart
  /\ TokensInv /\ SessionInv /\ FilesOwn /\ FilesInv

LEMMA InvariantParts == IInv <=> Parts
<1>1. TypeOK <=> StateTypeOK /\ req \in [Request -> RequestState]
  BY DEF TypeOK, StateTypeOK
<1>2. CredentialIsOwn <=> \A r \in Request : Own(req[r])
  BY DEF CredentialIsOwn, Own, OwnRoute
<1>3. RouteIsUsers <=> \A r \in Request : Right(req[r])
  BY DEF RouteIsUsers, Right, HasRead, UrlFor
<1>4. OwnInv <=> FilesOwn /\ \A r \in Request : SeenOwn(req[r])
  BY DEF OwnInv, FilesOwn, SeenOwn
<1>5. ReadInv <=> \A r \in Request : SeenNow(req[r])
  BY DEF ReadInv, SeenNow
<1> QED
  BY <1>1, <1>2, <1>3, <1>4, <1>5 DEF IInv, Parts, AllGood, Good, PlaceInv

LEMMA NextParts == IInv' <=> Parts'
  BY InvariantParts, PTL

\* A request stays as it should be when the files it reads do not change, or it
\* is not reading them, or is known to have read them at a bad time.
LEMMA GoodKept ==
  ASSUME NEW q, Good(q), UNCHANGED << client, claw, wish >>,
         q.pc = "rest" /\ ~q.hasty => pending' = pending /\ config'.base = config.base
  PROVE  Good(q)'
<1>1. RequestState' = RequestState
  BY DEF RequestState
<1>2. Place(q)'
  BY DEF Good, Place
<1>3. Own(q)'
  BY DEF Good, Own, OwnRoute
<1>4. Right(q)'
  BY DEF Good, Right, HasRead, UrlFor, Meant
<1>5. SeenOwn(q)' /\ SeenNow(q)'
  BY DEF Good, SeenOwn, SeenNow
<1> QED
  BY <1>1, <1>2, <1>3, <1>4, <1>5 DEF Good

LEMMA ChangeGood ==
  ASSUME AllGood, req \in [Request -> RequestState], NEW r \in Request, NEW new, Good(new),
         req' = [req EXCEPT ![r] = new],
         UNCHANGED << client, claw, wish, pending, config >>
  PROVE  AllGood' /\ req' \in [Request -> RequestState']
<1>1. RequestState' = RequestState
  BY DEF RequestState
<1>2. req' \in [Request -> RequestState']
  BY <1>1 DEF Good
<1>3. ASSUME NEW s \in Request PROVE Good(req[s])'
  <2>1. PICK q : q = req'[s]
    OBVIOUS
  <2>2. Good(q)
    <3>1. q = new \/ q = req[s]
      BY <2>1
    <3> QED
      BY <3>1 DEF AllGood
  <2>3. Good(q)'
    BY <2>2, GoodKept
  <2> QED
    BY <2>1, <2>3
<1> QED
  BY <1>2, <1>3 DEF AllGood

LEMMA RefusalIsRoute == Refusal \in Routes
BY DEF Routes

LEMMA NewIsGood ==
  /\ NewRequest \in RequestState
  /\ NewRequest.pc = "idle" /\ NewRequest.seen = Unset /\ NewRequest.fresh = Unset
  /\ Good(NewRequest)
<1> USE UpstreamAssumption DEF UpstreamAssumption
<1>1. NewRequest \in RequestState
  BY RefusalIsRoute DEF NewRequest, RequestState, Token
<1>2. /\ NewRequest.pc = "idle" /\ NewRequest.seen = Unset /\ NewRequest.fresh = Unset
      /\ NewRequest.result = "none"
  BY DEF NewRequest
<1> QED
  BY <1>1, <1>2 DEF Good, Place, Own, Right, HasRead, SeenOwn, SeenNow

LEMMA EndsGood ==
  ASSUME NEW q \in RequestState, NEW result \in {"ok", "error", "refused", "gone"}
  PROVE  Good(Ends(q, result)) /\ Ends(q, result).pc = "done" /\ Ends(q, result).fresh = Unset
<1> DEFINE new == Ends(q, result)
<1>1. new \in RequestState
  <2>1. q.ask \in Ask \union {NoAsk}
    BY DEF RequestState
  <2>2. new = [NewRequest EXCEPT !.ask = q.ask, !.pc = "done", !.result = result]
    BY DEF Ends
  <2>3. NewRequest \in RequestState
    BY NewIsGood
  <2> HIDE DEF new
  <2> QED
    BY <2>1, <2>2, <2>3 DEF RequestState
<1>2. new.pc = "done" /\ new.seen = Unset /\ new.fresh = Unset
  BY NewIsGood DEF Ends, RequestState
<1> HIDE DEF new
<1>3. Good(new)
  BY <1>1, <1>2 DEF Good, Place, Own, Right, HasRead, SeenOwn, SeenNow
<1> QED
  BY <1>2, <1>3 DEF new

\* What a route must be for a request to be good that gets it.
Serves(q, route) ==
  /\ route \in Routes
  /\ route # Refusal => OwnRoute(q, route)
  /\ HasRead(q) =>
       /\ route # Refusal => route.url = UrlFor(q)
       /\ q.ask.explicit /\ UrlFor(q) # Unset => route # Refusal

LEMMA RoutedGood ==
  ASSUME NEW q \in RequestState, q.result = "none", SeenOwn(q), NEW route, Serves(q, route)
  PROVE  /\ Good(Routed(q, route))
         /\ Routed(q, route).pc \in {"send", "done"} /\ Routed(q, route).fresh = Unset
<1>1. CASE q.final
  BY <1>1, EndsGood DEF Routed
<1>2. CASE ~q.final /\ route = Refusal
  <2>1. Routed(q, route) = Refused(q)
    BY <1>2 DEF Routed
  <2>2. CASE client # "opencode"
    BY <2>1, <2>2, EndsGood DEF Refused
  <2>3. CASE client = "opencode"
    <3> DEFINE new == Refused(q)
    <3>1. Ends(q, "refused") \in RequestState
      BY EndsGood DEF Good
    <3>2. /\ new \in RequestState /\ new.pc = "done" /\ new.fresh = Unset
          /\ new.provider = q.provider /\ new.seen = q.seen /\ new.hasty = q.hasty
          /\ new.ask = q.ask
      BY <2>3, <3>1, NewIsGood DEF Refused, Ends, RequestState
    <3> HIDE DEF new
    <3>3. Right(new)
      BY <1>2, <2>3, <3>2 DEF Right, Serves, HasRead, UrlFor
    <3>4. Good(new)
      BY <3>2, <3>3 DEF Good, Place, Own, SeenOwn, SeenNow
    <3> QED
      BY <2>1, <3>2, <3>4 DEF new
  <2> QED
    BY <2>2, <2>3
<1>3. CASE ~q.final /\ route # Refusal
  <2> DEFINE new == Routed(q, route)
  <2>1. new = [q EXCEPT !.route = route, !.pc = "send", !.fresh = Unset,
                        !.seen = IF client = "opencode" THEN q.seen ELSE Unset]
    BY <1>3 DEF Routed
  <2>2. /\ new \in RequestState
        /\ new.route = route /\ new.pc = "send" /\ new.fresh = Unset
        /\ new.seen = IF client = "opencode" THEN q.seen ELSE Unset
        /\ new.provider = q.provider /\ new.hasty = q.hasty /\ new.ask = q.ask
        /\ new.result = "none"
    BY <2>1 DEF RequestState, Serves
  <2> HIDE DEF new
  <2>3. Own(new)
    BY <1>3, <2>2 DEF Own, OwnRoute, Serves
  <2>4. Right(new)
    BY <1>3, <2>2 DEF Right, Serves, HasRead, UrlFor
  <2>5. Place(new) /\ SeenOwn(new) /\ SeenNow(new)
    BY <1>3, <2>2 DEF Place, SeenOwn, SeenNow
  <2> QED
    BY <2>2, <2>3, <2>4, <2>5 DEF Good, new
<1> QED
  BY <1>1, <1>2, <1>3

-----------------------------------------------------------------------------
(* The steps of the requests. *)

LEMMA FirstStepFacts ==
  ASSUME NEW ask
  PROVE  /\ FirstStep(ask) \in {"store", "identify", "config", "plan"}
         /\ FirstStep(ask) = "store" => client = "codex"
         /\ FirstStep(ask) \in {"identify", "config"} => client = "opencode"
         /\ FirstStep(ask) = "plan" => client # "opencode"
BY DEF FirstStep

LEMMA ExplicitType ==
  ASSUME NEW q \in RequestState
  PROVE  q.ask.explicit \in BOOLEAN
<1>1. q.ask \in Ask \union {NoAsk}
  BY DEF RequestState
<1>2. \A a \in Ask : a.explicit \in BOOLEAN
  BY UpstreamAssumption DEF UpstreamAssumption
<1>3. NoAsk.explicit \in BOOLEAN
  BY DEF NoAsk
<1> QED
  BY <1>1, <1>2, <1>3

\* What a step of request r that writes nothing makes of it.
Turns(r, new) ==
  /\ Reads(r, new)
  /\ Good(new) /\ new.fresh = Unset /\ new.pc \notin {"truncate", "write"}
  /\ new.pc = "refresh" => req[r].pc = "store" /\ new.seen = store
  /\ req[r].pc \notin {"truncate", "write"}

LEMMA ArriveGood ==
  ASSUME Parts, NEW r \in Request, Arrive(r)
  PROVE  \E new : Turns(r, new)
<1> USE CredentialsAssumption, UpstreamAssumption DEF CredentialsAssumption, UpstreamAssumption
<1>1. PICK ask \in Ask :
        LET p == IF client = "codex" /\ ask.provider = Unset THEN Codex ELSE ask.provider
        IN Reads(r, [req[r] EXCEPT !.ask = ask, !.provider = p, !.pc = FirstStep(ask)])
  BY DEF Arrive
<1> DEFINE p == IF client = "codex" /\ ask.provider = Unset THEN Codex ELSE ask.provider
           new == [req[r] EXCEPT !.ask = ask, !.provider = p, !.pc = FirstStep(ask)]
<1>2. req[r] \in RequestState /\ Good(req[r]) /\ req[r].pc = "idle"
  BY DEF Parts, AllGood, Arrive
<1>3. p \in Provider \union {Unset}
  OBVIOUS
<1>4. /\ new \in RequestState /\ new.pc = FirstStep(ask) /\ new.seen = req[r].seen
      /\ new.fresh = req[r].fresh /\ new.result = req[r].result
  <2>1. FirstStep(ask) \in {"store", "identify", "config", "plan"}
    BY FirstStepFacts
  <2> HIDE DEF p, CredentialsAssumption, UpstreamAssumption
  <2> QED
    BY <1>2, <1>3, <2>1 DEF RequestState
<1>5. Reads(r, new)
  BY <1>1
<1>6. req[r].fresh = Unset /\ req[r].result = "none"
  BY <1>2 DEF Good, Place
<1> HIDE DEF new
<1>7. Good(new)
  BY <1>2, <1>4, <1>6, FirstStepFacts DEF Good, Place, Own, Right, HasRead, SeenOwn, SeenNow
<1>8. new.pc \in {"store", "identify", "config", "plan"}
  BY <1>4, FirstStepFacts
<1> QED
  BY <1>2, <1>4, <1>5, <1>6, <1>7, <1>8 DEF Turns

LEMMA PlanGood ==
  ASSUME Parts, NEW r \in Request, Plan(r)
  PROVE  \E new : Turns(r, new)
<1> USE CredentialsAssumption, UpstreamAssumption DEF CredentialsAssumption, UpstreamAssumption
<1> DEFINE q == req[r]
           p == IF client = "openclaw" /\ q.provider = Unset THEN claw.active ELSE q.provider
           q1 == [q EXCEPT !.provider = p]
           route == IF client = "openclaw" THEN OpenClawRoute(claw, p, q.ask.explicit)
                    ELSE PlainRoute(client, p, q.ask.explicit)
<1>1. q \in RequestState /\ Good(q) /\ q.pc = "plan" /\ Reads(r, Routed(q1, route))
  BY DEF Parts, AllGood, Plan
<1>2. client = "openclaw" => claw \in OpenClawStart /\ claw \in OpenClawFiles
  BY DEF Parts
<1>3. p \in Provider \union {Unset}
  BY <1>1, <1>2 DEF RequestState, OpenClawFiles
<1>4. q.ask.explicit \in BOOLEAN
  BY <1>1, ExplicitType
<1>5. /\ q1 \in RequestState /\ q1.provider = p /\ q1.seen = q.seen /\ q1.result = q.result
  BY <1>1, <1>3 DEF RequestState
<1>6. client # "opencode" /\ q.result = "none" /\ SeenOwn(q1)
  BY <1>1, <1>5 DEF Good, Place, SeenOwn
<1>7. Serves(q1, route)
  <2>1. CASE client = "openclaw"
    <3> HIDE DEF p, q1
    <3> QED
      BY <1>2, <1>3, <1>4, <1>5, <1>6, <2>1, OpenClawRouteFair
         DEF Serves, OwnRoute, HasRead
  <2>2. CASE client # "openclaw"
    <3> HIDE DEF p, q1
    <3> QED
      BY <1>3, <1>4, <1>6, <2>2, PlainRouteFair
         DEF Serves, OwnRoute, HasRead
  <2> QED
    BY <2>1, <2>2
<1> HIDE DEF q1, route
<1>8. /\ Good(Routed(q1, route)) /\ Routed(q1, route).fresh = Unset
      /\ Routed(q1, route).pc \in {"send", "done"}
  BY <1>5, <1>6, <1>7, RoutedGood
<1> QED
  BY <1>1, <1>8 DEF Turns

LEMMA IdentifyGood ==
  ASSUME Parts, NEW r \in Request, Identify(r)
  PROVE  \E new : Turns(r, new)
<1> DEFINE new == [req[r] EXCEPT !.provider = config.active, !.pc = "config"]
<1>1. req[r] \in RequestState /\ Good(req[r]) /\ req[r].pc = "identify" /\ Reads(r, new)
  BY DEF Parts, AllGood, Identify
<1>2. config.active \in Provider \union {Unset}
  BY DEF Parts, StateTypeOK, OpenCodeConfig
<1>3. /\ new \in RequestState /\ new.pc = "config" /\ new.seen = req[r].seen
      /\ new.fresh = req[r].fresh /\ new.result = req[r].result
  BY <1>1, <1>2 DEF RequestState
<1> HIDE DEF new
<1>4. Good(new) /\ new.fresh = Unset
  BY <1>1, <1>3 DEF Good, Place, Own, Right, HasRead, SeenOwn, SeenNow
<1> QED
  BY <1>1, <1>3, <1>4 DEF Turns

LEMMA ReadConfigGood ==
  ASSUME Parts, NEW r \in Request, ReadConfig(r)
  PROVE  \E new : Turns(r, new)
<1> DEFINE new == [req[r] EXCEPT !.seen = config, !.pc = "rest", !.hasty = pending # NoWrite]
<1>1. req[r] \in RequestState /\ Good(req[r]) /\ req[r].pc = "config" /\ Reads(r, new)
  BY DEF Parts, AllGood, ReadConfig
<1>2. config \in OpenCodeConfig
  BY DEF Parts, StateTypeOK
<1>3. client = "opencode" /\ req[r].fresh = Unset /\ req[r].result = "none"
  BY <1>1 DEF Good, Place
<1>4. /\ new \in RequestState /\ new.pc = "rest" /\ new.seen = config
      /\ new.fresh = Unset /\ new.result = "none" /\ new.hasty = (pending # NoWrite)
  BY <1>1, <1>2, <1>3 DEF RequestState
<1> HIDE DEF new
<1>5. \A p \in Provider : config.base[p] \in Owned(p) \union {Gateway, Unset}
  BY DEF Parts, FilesOwn
<1>6. Good(new)
  BY <1>2, <1>3, <1>4, <1>5 DEF Good, Place, Own, Right, HasRead, SeenOwn, SeenNow
<1> QED
  BY <1>1, <1>4, <1>6 DEF Turns

LEMMA ReadRestGood ==
  ASSUME Parts, NEW r \in Request, ReadRest(r)
  PROVE  \E new : Turns(r, new)
<1> USE UpstreamAssumption DEF UpstreamAssumption
<1> DEFINE q == req[r]
           route == OpenCodeRoute(q.seen, rest, q.provider, q.ask.explicit)
<1>1. q \in RequestState /\ Good(q) /\ q.pc = "rest" /\ Reads(r, Routed(q, route))
  BY DEF Parts, AllGood, ReadRest
<1>2. /\ q.seen \in OpenCodeConfig /\ q.seen # Unset /\ client = "opencode"
      /\ q.result = "none" /\ SeenOwn(q)
  BY <1>1 DEF Good, Place
<1>3. q.provider \in Provider \union {Unset} /\ rest \in OpenCodeRest
  BY <1>1 DEF RequestState, Parts, StateTypeOK
<1>4. q.ask.explicit \in BOOLEAN
  BY <1>1, ExplicitType
<1>5. /\ route \in Routes
      /\ route # Refusal => FairFor(q.seen, q.provider, route)
  <2>1. FilesOf(q.seen, rest)
    BY <1>2 DEF SeenOwn, Parts, FilesOwn, FilesOf
  <2> QED
    BY <1>2, <1>3, <1>4, <2>1, OpenCodeRouteFair
<1>6. ASSUME HasRead(q)
      PROVE  /\ route # Refusal => route.url = UrlFor(q)
             /\ q.ask.explicit /\ UrlFor(q) # Unset => route # Refusal
  <2>1. pending = NoWrite /\ q.seen.base = config.base
    BY <1>1, <1>6 DEF Good, SeenNow, HasRead
  <2>2. ComingBase = config.base /\ ComingMeta = rest.meta
    BY <2>1 DEF ComingBase, ComingMeta, NoWrite
  <2>3. q.provider \in Provider
    BY <1>3, <1>6 DEF HasRead
  <2>4. TypeOK
    BY DEF Parts, StateTypeOK, TypeOK
  <2>5. \/ /\ q.seen.base[q.provider] \in {wish[q.provider], Usable(wish[q.provider])}
           /\ rest.meta[q.provider] = NothingKept
        \/ /\ q.seen.base[q.provider] = Gateway /\ Meant(q.provider) # Unset
           /\ rest.meta[q.provider] = Kept(Meant(q.provider), Usable(wish[q.provider]) # Unset)
    BY <2>1, <2>2, <2>3 DEF Parts, FilesInv
  <2>6. q.provider = q.seen.active
    BY <1>6 DEF HasRead
  <2>7. /\ route = OpenCodeRoute(q.seen, rest, q.provider, q.ask.explicit)
        /\ UrlFor(q) = IF q.provider = Codex /\ q.ask.explicit THEN NativeUrl
                       ELSE Meant(q.provider)
    BY DEF UrlFor
  <2> HIDE DEF route
  <2> QED
    BY <1>2, <1>3, <1>4, <2>3, <2>4, <2>5, <2>6, <2>7, OpenCodeRouteMeant
<1> HIDE DEF route
<1>7. Serves(q, route)
  BY <1>2, <1>5, <1>6 DEF Serves, OwnRoute, FairFor
<1>8. /\ Good(Routed(q, route)) /\ Routed(q, route).fresh = Unset
      /\ Routed(q, route).pc \in {"send", "done"}
  BY <1>1, <1>2, <1>7, RoutedGood
<1> QED
  BY <1>1, <1>8 DEF Turns

\* A request of Codex that gets what the store gives.
LEMMA CodexRoutedGood ==
  ASSUME NEW q \in RequestState, q.result = "none", client = "codex",
         NEW access \in Token \union {Unset}, NEW key \in BOOLEAN
  PROVE  /\ Good(Routed(q, CodexRoute(q.provider, access, key)))
         /\ Routed(q, CodexRoute(q.provider, access, key)).fresh = Unset
         /\ Routed(q, CodexRoute(q.provider, access, key)).pc \in {"send", "done"}
<1>1. SeenOwn(q)
  BY DEF SeenOwn
<1>2. Serves(q, CodexRoute(q.provider, access, key))
  BY CodexRouteFair DEF Serves, OwnRoute, HasRead, Fair
<1> QED
  BY <1>1, <1>2, RoutedGood

LEMMA ReadStoreGood ==
  ASSUME Parts, NEW r \in Request, ReadStore(r)
  PROVE  \E new : Turns(r, new)
<1> DEFINE q == req[r]
<1>1. q \in RequestState /\ Good(q) /\ q.pc = "store"
  BY DEF Parts, AllGood, ReadStore
<1>2. store \in Store
  BY DEF Parts, StateTypeOK
<1>3. store.access \in Token \union {Unset} /\ store.key \in BOOLEAN
  BY <1>2 DEF Store
<1>4. q.result = "none" /\ q.fresh = Unset /\ client = "codex"
  BY <1>1 DEF Good, Place
<1>5. CASE Reads(r, Routed(q, Refusal))
  <2>1. SeenOwn(q) /\ Serves(q, Refusal)
    BY <1>4, RefusalIsRoute DEF SeenOwn, Serves, HasRead
  <2>2. /\ Good(Routed(q, Refusal)) /\ Routed(q, Refusal).fresh = Unset
        /\ Routed(q, Refusal).pc \in {"send", "done"}
    BY <1>1, <1>4, <2>1, RoutedGood
  <2> QED
    BY <1>1, <1>5, <2>2 DEF Turns
<1>6. CASE Reads(r, [q EXCEPT !.seen = store, !.pc = "refresh"])
  <2> DEFINE new == [q EXCEPT !.seen = store, !.pc = "refresh"]
  <2>1. /\ new \in RequestState /\ new.seen = store /\ new.pc = "refresh"
        /\ new.fresh = Unset /\ new.result = "none"
    BY <1>1, <1>2, <1>4 DEF RequestState
  <2>2. Reads(r, new)
    BY <1>6
  <2> HIDE DEF new
  <2>3. Good(new)
    BY <1>2, <1>4, <2>1 DEF Good, Place, Own, Right, HasRead, SeenOwn, SeenNow
  <2> QED
    BY <1>1, <2>1, <2>2, <2>3 DEF Turns
<1>7. CASE Reads(r, Routed(q, CodexRoute(q.provider, store.access, store.key)))
  <2> DEFINE new == Routed(q, CodexRoute(q.provider, store.access, store.key))
  <2>1. Good(new) /\ new.fresh = Unset /\ new.pc \in {"send", "done"}
    BY <1>1, <1>3, <1>4, CodexRoutedGood
  <2>2. Reads(r, new)
    BY <1>7
  <2> HIDE DEF new
  <2> QED
    BY <1>1, <2>1, <2>2 DEF Turns
<1> QED
  BY <1>5, <1>6, <1>7 DEF ReadStore

LEMMA UnrenewedGood ==
  ASSUME Parts, NEW r \in Request, req[r].pc = "refresh", NEW new \in Unrenewed(req[r])
  PROVE  Good(new) /\ new.fresh = Unset /\ new.pc \in {"send", "done"}
<1> DEFINE q == req[r]
<1>1. q \in RequestState /\ Good(q)
  BY DEF Parts, AllGood
<1>2. q.seen \in Store /\ client = "codex" /\ q.result = "none"
  BY <1>1 DEF Good, Place
<1>3. q.seen.access \in Token \union {Unset} /\ q.seen.key \in BOOLEAN
  BY <1>2 DEF Store
<1>4. \/ new = Routed(q, CodexRoute(q.provider, q.seen.access, q.seen.key))
      \/ new = Ends(q, "error")
  BY DEF Unrenewed
<1> HIDE DEF q
<1> QED
  BY <1>1, <1>2, <1>3, <1>4, CodexRoutedGood, EndsGood

LEMMA NotRefreshedGood ==
  ASSUME Parts, NEW r \in Request, NotRefreshed(r)
  PROVE  \E new : Turns(r, new)
<1>1. PICK new \in Unrenewed(req[r]) : Reads(r, new)
  BY DEF NotRefreshed
<1>2. req[r].pc = "refresh"
  BY DEF NotRefreshed
<1>3. Good(new) /\ new.fresh = Unset /\ new.pc \in {"send", "done"}
  BY <1>2, UnrenewedGood
<1> QED
  BY <1>1, <1>2, <1>3 DEF Turns

LEMMA SendGood ==
  ASSUME Parts, NEW r \in Request, Post(r) \/ Stream(r) \/ List(r)
  PROVE  \E new : Turns(r, new)
<1> DEFINE q == req[r]
<1>1. q \in RequestState /\ Good(q) /\ q.pc = "send"
  BY DEF Parts, AllGood, Post, Stream, List, Sending
<1>2. q.fresh = Unset /\ q.result = "none"
  BY <1>1 DEF Good, Place
<1>3. ASSUME NEW result \in {"ok", "error"}, Reads(r, Ends(q, result))
      PROVE  \E new : Turns(r, new)
  BY <1>1, <1>3, EndsGood DEF Turns
<1>4. CASE Again(r)
  <2> DEFINE new == [q EXCEPT !.attempt = q.attempt + 1]
  <2>1. Reads(r, new) /\ q.attempt < MaxRetries
    BY <1>4 DEF Again
  <2>2. q.attempt + 1 \in 0..MaxRetries
    BY <1>1, <2>1, UpstreamAssumption DEF RequestState, UpstreamAssumption
  <2>3. /\ new \in RequestState /\ new.pc = "send" /\ new.route = q.route /\ new.seen = q.seen
        /\ new.fresh = Unset /\ new.result = "none" /\ new.provider = q.provider
        /\ new.hasty = q.hasty /\ new.ask = q.ask
    BY <1>1, <1>2, <2>2 DEF RequestState
  <2> HIDE DEF new
  <2>4. Own(new)
    BY <1>1, <2>3 DEF Good, Own, OwnRoute
  <2>5. Right(new)
    BY <1>1, <2>3 DEF Good, Right, HasRead, UrlFor
  <2>6. Good(new)
    BY <1>1, <2>3, <2>4, <2>5 DEF Good, Place, SeenOwn, SeenNow
  <2> QED
    BY <1>1, <2>1, <2>3, <2>6 DEF Turns
<1>5. CASE Status(r)
  <2>1. CASE q.ask.explicit
    BY <1>3, <1>5, <2>1 DEF Status
  <2>2. CASE ~q.ask.explicit
    <3> DEFINE new == [q EXCEPT !.final = TRUE, !.seen = Unset, !.pc = FirstStep(q.ask)]
    <3>1. Reads(r, new)
      BY <1>5, <2>2 DEF Status
    <3>2. FirstStep(q.ask) \in {"store", "identify", "config", "plan"}
      BY FirstStepFacts
    <3>3. /\ new \in RequestState /\ new.pc = FirstStep(q.ask) /\ new.seen = Unset
          /\ new.fresh = Unset /\ new.result = "none"
      BY <1>1, <1>2, <3>2 DEF RequestState
    <3> HIDE DEF new
    <3>4. Good(new)
      BY <3>3, FirstStepFacts DEF Good, Place, Own, Right, HasRead, SeenOwn, SeenNow
    <3> QED
      BY <1>1, <3>1, <3>2, <3>3, <3>4 DEF Turns
  <2> QED
    BY <2>1, <2>2
<1>6. CASE Served(r) \/ Malformed(r) \/ Unreachable(r)
  BY <1>3, <1>6 DEF Served, Malformed, Unreachable
<1> QED
  BY <1>4, <1>5, <1>6 DEF Post, Stream, List

\* The steps of a request that write nothing.
LEMMA TurnsGood ==
  ASSUME Parts, NEW r \in Request,
         \/ Arrive(r) \/ Plan(r) \/ Identify(r) \/ ReadConfig(r) \/ ReadRest(r) \/ ReadStore(r)
         \/ NotRefreshed(r) \/ Post(r) \/ Stream(r) \/ List(r)
  PROVE  \E new : Turns(r, new)
BY ArriveGood, PlanGood, IdentifyGood, ReadConfigGood, ReadRestGood, ReadStoreGood,
   NotRefreshedGood, SendGood

\* The files of OpenCode and what a command has to write of them do not change.
LEMMA FilesUnchanged ==
  ASSUME FilesOwn, FilesInv, UNCHANGED << config, rest, pending, wish >>
  PROVE  FilesOwn' /\ FilesInv'
<1>1. ComingBase' = ComingBase /\ ComingMeta' = ComingMeta
  BY DEF ComingBase, ComingMeta
<1>2. FilesOwn'
  BY <1>1 DEF FilesOwn
<1>3. FilesInv'
  BY <1>1 DEF FilesInv, Meant
<1> QED
  BY <1>2, <1>3

LEMMA TurnsParts ==
  ASSUME Parts, NEW r \in Request, NEW new, Turns(r, new)
  PROVE  Parts'
<1>1. /\ req' = [req EXCEPT ![r] = new] /\ Good(new) /\ new.fresh = Unset
      /\ new.pc \notin {"truncate", "write"} /\ req[r].pc \notin {"truncate", "write"}
      /\ new.pc = "refresh" => new.seen = store
      /\ UNCHANGED << client, store, expired, valid, issued, mine, dropped, overtaken,
                      config, rest, pending, wish, claw, left >>
  BY DEF Turns, Reads, codex, opencode
<1>2. AllGood' /\ req' \in [Request -> RequestState']
  BY <1>1, ChangeGood DEF Parts
<1>3. StateTypeOK' /\ (client' = "openclaw" => claw' \in OpenClawStart)
  BY <1>1 DEF Parts, StateTypeOK
<1>4. FilesOwn' /\ FilesInv'
  BY <1>1, FilesUnchanged DEF Parts
<1>5. req \in [Request -> RequestState]
  BY DEF Parts
<1>6. \A s \in Request : req'[s] = IF s = r THEN new ELSE req[s]
  BY <1>1, <1>5
<1>7. TokensInv'
  BY <1>1, <1>6 DEF Parts, TokensInv
<1>8. SessionInv'
  <2>1. Writing' = Writing
    BY <1>1, <1>6 DEF Writing
  <2>2. Spent' = Spent
    BY <1>1, <2>1 DEF Spent
  <2>3. \A s \in Writing : req'[s] = req[s]
    BY <1>1, <1>6 DEF Writing
  <2> QED
    BY <1>1, <1>6, <2>1, <2>2, <2>3 DEF Parts, SessionInv
<1> QED
  BY <1>2, <1>3, <1>4, <1>7, <1>8 DEF Parts

\* The token server answers: r holds the session's new token, or it is lost.
LEMMA RotateParts ==
  ASSUME Parts, NEW r \in Request, Rotate(r)
  PROVE  Parts'
<1> DEFINE q == req[r]
           next == issued + 1
<1>1. /\ q.pc = "refresh" /\ q.seen.refresh \in valid /\ next \in Token
      /\ issued' = next /\ valid' = (valid \ {q.seen.refresh}) \union {next}
      /\ mine' = IF mine = q.seen.refresh THEN next ELSE mine
      /\ UNCHANGED << client, store, expired, overtaken, config, rest, pending, wish, claw, left >>
  BY DEF Rotate, opencode
<1>2. /\ req \in [Request -> RequestState] /\ q \in RequestState /\ Good(q) /\ client = "codex"
      /\ q.seen \in Store /\ q.result = "none"
  BY <1>1 DEF Parts, AllGood, Good, Place
<1>3. /\ mine \in Token /\ issued \in Token /\ valid \subseteq Token /\ Unset \notin Token
      /\ dropped \subseteq Token \union {Unset} /\ store \in Store
      /\ \A t \in Token : t \in Nat
  BY UpstreamAssumption DEF Parts, StateTypeOK, UpstreamAssumption, Token
<1>4. \A t \in valid \union dropped \union {store.refresh} : t # Unset => t <= issued
  BY DEF Parts, TokensInv
<1>5. next # Unset /\ next \notin valid \union dropped \union {store.refresh}
  BY <1>1, <1>3, <1>4 DEF Store
<1>6. PICK new : /\ req' = [req EXCEPT ![r] = new] /\ Good(new)
                 /\ \/ new.pc = "truncate" /\ new.fresh = next /\ dropped' = dropped
                    \/ /\ new.pc \in {"send", "done"} /\ new.fresh = Unset
                       /\ dropped' = dropped \union {next}
  <2>1. CASE req' = [req EXCEPT ![r].fresh = next, ![r].pc = "truncate"] /\ dropped' = dropped
    <3> DEFINE new == [q EXCEPT !.fresh = next, !.pc = "truncate"]
    <3>1. req' = [req EXCEPT ![r] = new]
      BY <1>2, <2>1
    <3>2. /\ new \in RequestState /\ new.pc = "truncate" /\ new.fresh = next
          /\ new.seen = q.seen /\ new.result = "none"
      BY <1>1, <1>2 DEF RequestState
    <3> HIDE DEF new
    <3>3. Good(new)
      BY <1>2, <1>5, <3>2 DEF Good, Place, Own, Right, HasRead, SeenOwn, SeenNow
    <3> QED
      BY <2>1, <3>1, <3>2, <3>3
  <2>2. CASE req' \in {[req EXCEPT ![r] = q_] : q_ \in Unrenewed(q)}
             /\ dropped' = dropped \union {next}
    <3>1. PICK new \in Unrenewed(q) : req' = [req EXCEPT ![r] = new]
      BY <2>2
    <3>2. Good(new) /\ new.fresh = Unset /\ new.pc \in {"send", "done"}
      BY <1>1, UnrenewedGood
    <3> QED
      BY <2>2, <3>1, <3>2
  <2> QED
    BY <2>1, <2>2 DEF Rotate
<1>7. \A s \in Request : req'[s] = IF s = r THEN new ELSE req[s]
  BY <1>2, <1>6
<1>8. AllGood' /\ req' \in [Request -> RequestState']
  BY <1>1, <1>2, <1>6, ChangeGood DEF Parts
<1>9. StateTypeOK' /\ (client' = "openclaw" => claw' \in OpenClawStart)
  BY <1>1, <1>3, <1>6 DEF Parts, StateTypeOK
<1>10. FilesOwn' /\ FilesInv'
  BY <1>1, FilesUnchanged DEF Parts
<1>11. TokensInv'
  <2>1. mine' \in valid'
    BY <1>1 DEF Parts, TokensInv
  <2>2. \A t \in valid' \union dropped' \union {store'.refresh} : t # Unset => t <= issued'
    <3>1. ASSUME NEW t \in valid \union dropped \union {store.refresh}, t # Unset
          PROVE  t <= next
      <4>1. t \in Token
        BY <1>3, <3>1 DEF Store
      <4> QED
        BY <1>3, <1>4, <3>1, <4>1
    <3>2. next <= next
      BY <1>3
    <3> QED
      BY <1>1, <1>6, <3>1, <3>2
  <2>3. ASSUME NEW s \in Request
        PROVE  /\ req'[s].pc = "refresh" /\ req'[s].seen.refresh # Unset =>
                    req'[s].seen.refresh <= issued'
               /\ req'[s].fresh # Unset => req'[s].fresh <= issued'
    <3>1. CASE s = r
      BY <1>1, <1>3, <1>6, <1>7, <3>1
    <3>2. CASE s # r
      <4>1. req[s] \in RequestState /\ Good(req[s])
        BY <1>2 DEF Parts, AllGood
      <4>2. req[s].pc = "refresh" => req[s].seen \in Store
        BY <4>1 DEF Good, Place
      <4>3. req[s].fresh \in Token \union {Unset}
        BY <4>1 DEF RequestState
      <4>4. req[s].pc = "refresh" => req[s].seen.refresh \in Token \union {Unset}
        BY <4>2 DEF Store
      <4>5. \A t \in Token : t <= issued => t <= issued'
        BY <1>1, <1>3
      <4>6. /\ req[s].pc = "refresh" /\ req[s].seen.refresh # Unset =>
                 req[s].seen.refresh <= issued
            /\ req[s].fresh # Unset => req[s].fresh <= issued
        BY DEF Parts, TokensInv
      <4> QED
        BY <1>7, <3>2, <4>3, <4>4, <4>5, <4>6
    <3> QED
      BY <3>1, <3>2
  <2> QED
    BY <2>1, <2>2, <2>3 DEF TokensInv
<1>12. SessionInv'
  <2>1. SUFFICES ASSUME ~overtaken PROVE SessionInv'
    BY <1>1 DEF SessionInv
  <2>2. q.seen.refresh = mine /\ ~Spent
    BY <1>1, <1>2, <2>1 DEF Parts, SessionInv
  <2>3. Writing = {} /\ mine \notin dropped /\ mine' = next
    BY <1>1, <2>2 DEF Spent
  <2>4. store.refresh \notin valid'
    <3>1. store.refresh \in {mine, Unset}
      BY <1>2, <2>1, <2>2 DEF Parts, SessionInv
    <3> QED
      BY <1>1, <1>3, <1>5, <2>2, <3>1
  <2>5. ASSUME NEW s \in Request, req'[s].pc = "refresh" PROVE req'[s].seen.refresh \notin valid'
    <3>1. s # r /\ req'[s] = req[s]
      BY <1>6, <1>7, <2>5
    <3>2. req[s].seen.refresh \in valid => req[s].seen.refresh = mine
      BY <1>2, <2>1, <2>5, <3>1 DEF Parts, SessionInv
    <3>3. req[s].seen \in Store
      BY <2>5, <3>1 DEF Parts, AllGood, Good, Place
    <3>4. req[s].seen.refresh # next
      <4>1. req[s].seen.refresh \in Token \union {Unset}
        BY <3>3 DEF Store
      <4>2. req[s].seen.refresh # Unset => req[s].seen.refresh <= issued
        BY <2>5, <3>1 DEF Parts, TokensInv
      <4> QED
        BY <1>3, <1>5, <4>1, <4>2
    <3> QED
      BY <1>1, <2>2, <3>1, <3>2, <3>4
  <2>6. CASE new.pc = "truncate" /\ new.fresh = next /\ dropped' = dropped
    <3>1. Writing' = {r}
      BY <1>7, <2>3, <2>6 DEF Writing
    <3>2. Spent'
      BY <3>1 DEF Spent
    <3>3. \A s \in Writing' : req'[s].fresh = mine' /\ mine' \notin dropped' /\ Writing' = {s}
      BY <1>5, <1>7, <2>3, <2>6, <3>1
    <3> QED
      BY <1>1, <2>4, <2>5, <3>2, <3>3 DEF SessionInv
  <2>7. CASE new.pc \in {"send", "done"} /\ dropped' = dropped \union {next}
    <3>1. Writing' = {}
      BY <1>7, <2>3, <2>7 DEF Writing
    <3>2. Spent'
      BY <2>3, <2>7 DEF Spent
    <3> QED
      BY <1>1, <2>4, <2>5, <3>1, <3>2 DEF SessionInv
  <2> QED
    BY <1>6, <2>6, <2>7
<1> QED
  BY <1>8, <1>9, <1>10, <1>11, <1>12 DEF Parts

\* The store is emptied: the session's token is with r.
LEMMA TruncateParts ==
  ASSUME Parts, NEW r \in Request, Truncate(r)
  PROVE  Parts'
<1> DEFINE new == [req[r] EXCEPT !.pc = "write"]
<1>1. /\ req[r].pc = "truncate" /\ store' = NoStore
      /\ req' = [req EXCEPT ![r].pc = "write"]
      /\ UNCHANGED << client, expired, valid, issued, mine, dropped, overtaken,
                      config, rest, pending, wish, claw, left >>
  BY DEF Truncate, opencode
<1>2. req \in [Request -> RequestState] /\ req[r] \in RequestState /\ Good(req[r])
  BY DEF Parts, AllGood
<1>3. req' = [req EXCEPT ![r] = new]
  BY <1>1, <1>2
<1>4. /\ new \in RequestState /\ new.pc = "write" /\ new.fresh = req[r].fresh
      /\ new.seen = req[r].seen /\ new.result = req[r].result
  BY <1>2 DEF RequestState
<1>5. \A s \in Request : req'[s] = IF s = r THEN new ELSE req[s]
  BY <1>2, <1>3
<1> HIDE DEF new
<1>6. Good(new)
  BY <1>1, <1>2, <1>4 DEF Good, Place, Own, Right, HasRead, SeenOwn, SeenNow
<1>7. AllGood' /\ req' \in [Request -> RequestState']
  BY <1>1, <1>2, <1>3, <1>6, ChangeGood DEF Parts
<1>8. NoStore \in Store /\ NoStore.refresh = Unset
  BY DEF NoStore, Store
<1>9. StateTypeOK' /\ (client' = "openclaw" => claw' \in OpenClawStart)
  BY <1>1, <1>8 DEF Parts, StateTypeOK
<1>10. FilesOwn' /\ FilesInv'
  BY <1>1, FilesUnchanged DEF Parts
<1>11. TokensInv'
  BY <1>1, <1>4, <1>5, <1>8 DEF Parts, TokensInv
<1>12. SessionInv'
  <2>1. Writing' = Writing
    BY <1>1, <1>4, <1>5 DEF Writing
  <2>2. Spent' = Spent
    BY <1>1, <2>1 DEF Spent
  <2>3. store'.refresh \notin valid'
    BY <1>1, <1>8, UpstreamAssumption DEF Parts, StateTypeOK, UpstreamAssumption
  <2>4. \A s \in Request : req'[s].fresh = req[s].fresh /\
                           (req'[s].pc = "refresh" => req'[s] = req[s])
    BY <1>4, <1>5
  <2> QED
    BY <1>1, <1>8, <2>1, <2>2, <2>3, <2>4 DEF Parts, SessionInv
<1> QED
  BY <1>7, <1>9, <1>10, <1>11, <1>12 DEF Parts

\* The store is written: the session's token is in it again.
LEMMA WriteParts ==
  ASSUME Parts, NEW r \in Request, Write(r)
  PROVE  Parts'
<1> DEFINE q == req[r]
           new == Routed(q, CodexRoute(q.provider, q.fresh, q.seen.key))
<1>1. /\ q.pc = "write" /\ store' = Renewed(q.seen, q.fresh)
      /\ req' = [req EXCEPT ![r] = new]
      /\ UNCHANGED << client, expired, valid, issued, mine, dropped, overtaken,
                      config, rest, pending, wish, claw, left >>
  BY DEF Write, opencode
<1>2. req \in [Request -> RequestState] /\ q \in RequestState /\ Good(q)
  BY DEF Parts, AllGood
<1>3. client = "codex" /\ q.seen \in Store /\ q.fresh # Unset /\ q.result = "none"
  BY <1>1, <1>2 DEF Good, Place
<1>4. q.fresh \in Token /\ q.seen.key \in BOOLEAN
  BY <1>2, <1>3 DEF RequestState, Store
<1>5. store' \in Store /\ store'.refresh = q.fresh
  BY <1>1, <1>3, <1>4 DEF Renewed, Store
<1>6. Good(new) /\ new.fresh = Unset /\ new.pc \in {"send", "done"}
  BY <1>2, <1>3, <1>4, CodexRoutedGood
<1>7. \A s \in Request : req'[s] = IF s = r THEN new ELSE req[s]
  BY <1>1, <1>2
<1>8. AllGood' /\ req' \in [Request -> RequestState']
  BY <1>1, <1>2, <1>6, ChangeGood DEF Parts
<1> HIDE DEF new
<1>9. StateTypeOK' /\ (client' = "openclaw" => claw' \in OpenClawStart)
  BY <1>1, <1>5 DEF Parts, StateTypeOK
<1>10. FilesOwn' /\ FilesInv'
  BY <1>1, FilesUnchanged DEF Parts
<1>11. TokensInv'
  BY <1>1, <1>3, <1>5, <1>6, <1>7 DEF Parts, TokensInv
<1>12. SessionInv'
  <2>1. SUFFICES ASSUME ~overtaken PROVE SessionInv'
    BY <1>1 DEF SessionInv
  <2>2. r \in Writing
    BY <1>1 DEF Writing
  <2>3. q.fresh = mine /\ mine \notin dropped /\ Writing = {r} /\ Spent
    BY <1>3, <2>1, <2>2 DEF Parts, SessionInv, Spent
  <2>4. Writing' = {} /\ ~Spent'
    BY <1>1, <1>6, <1>7, <2>3 DEF Writing, Spent
  <2>5. ASSUME NEW s \in Request, req'[s].pc = "refresh" PROVE req'[s].seen.refresh \notin valid'
    <3>1. req'[s] = req[s]
      BY <1>6, <1>7, <2>5
    <3> QED
      BY <1>1, <1>3, <2>1, <2>3, <2>5, <3>1 DEF Parts, SessionInv
  <2> QED
    BY <1>1, <1>5, <2>3, <2>4, <2>5 DEF SessionInv
<1> QED
  BY <1>8, <1>9, <1>10, <1>11, <1>12 DEF Parts

-----------------------------------------------------------------------------
(* The steps of the surroundings. *)

\* Requests, and what they depend on, do not change.
LEMMA RequestsUnchanged ==
  ASSUME AllGood, req \in [Request -> RequestState],
         UNCHANGED << client, claw, wish, pending, req >>, config'.base = config.base
  PROVE  AllGood' /\ req' \in [Request -> RequestState']
<1>1. RequestState' = RequestState
  BY DEF RequestState
<1>2. ASSUME NEW s \in Request PROVE Good(req[s])'
  <2>1. PICK q : q = req[s]
    OBVIOUS
  <2>2. Good(q)'
    BY <2>1, GoodKept DEF AllGood
  <2> QED
    BY <2>1, <2>2
<1> QED
  BY <1>1, <1>2 DEF AllGood

LEMMA ExpireParts ==
  ASSUME Parts, Expire
  PROVE  Parts'
<1>1. /\ expired' = expired \union {store.access} /\ store.access # Unset
      /\ UNCHANGED << client, store, valid, issued, mine, dropped, overtaken,
                      config, rest, pending, wish, claw, left, req >>
  BY DEF Expire, opencode
<1>2. AllGood' /\ req' \in [Request -> RequestState']
  BY <1>1, RequestsUnchanged DEF Parts
<1>3. StateTypeOK'
  BY <1>1 DEF Parts, StateTypeOK, Store
<1>4. FilesOwn' /\ FilesInv'
  BY <1>1, FilesUnchanged DEF Parts
<1>5. TokensInv' /\ SessionInv'
  BY <1>1 DEF Parts, TokensInv, SessionInv, Writing, Spent
<1> QED
  BY <1>1, <1>2, <1>3, <1>4, <1>5 DEF Parts

\* The user logs in: if nobody refreshes, the new session is the only one.
LEMMA LoginParts ==
  ASSUME Parts, Login
  PROVE  Parts'
<1>1. /\ issued + 1 \in Token /\ issued' = issued + 1 /\ valid' = valid \union {issued'}
      /\ mine' = issued'
      /\ store' = [access |-> issued', refresh |-> issued', key |-> FALSE]
      /\ overtaken' = (Refreshing # {})
      /\ UNCHANGED << client, expired, dropped, config, rest, pending, wish, claw, left, req >>
  BY DEF Login, opencode
<1>2. /\ issued \in Token /\ valid \subseteq Token /\ dropped \subseteq Token \union {Unset}
      /\ store \in Store /\ \A t \in Token : t \in Nat
  BY UpstreamAssumption DEF Parts, StateTypeOK, UpstreamAssumption, Token
<1>3. AllGood' /\ req' \in [Request -> RequestState']
  BY <1>1, RequestsUnchanged DEF Parts
<1>4. store' \in Store /\ store'.refresh = issued'
  BY <1>1 DEF Store
<1>5. StateTypeOK'
  BY <1>1, <1>4 DEF Parts, StateTypeOK
<1>6. FilesOwn' /\ FilesInv'
  BY <1>1, FilesUnchanged DEF Parts
<1>7. \A t \in Token : t <= issued => t <= issued'
  BY <1>1, <1>2
<1>8. TokensInv'
  <2>1. mine' \in valid'
    BY <1>1
  <2>2. \A t \in valid' \union dropped' \union {store'.refresh} : t # Unset => t <= issued'
    <3>1. \A t \in valid \union dropped : t # Unset => t \in Token /\ t <= issued
      BY <1>2 DEF Parts, TokensInv
    <3>2. issued' <= issued'
      BY <1>1, <1>2
    <3> QED
      BY <1>1, <1>4, <1>7, <3>1, <3>2
  <2>3. ASSUME NEW s \in Request
        PROVE  /\ req[s].pc = "refresh" /\ req[s].seen.refresh # Unset =>
                    req[s].seen.refresh <= issued'
               /\ req[s].fresh # Unset => req[s].fresh <= issued'
    <3>1. req[s] \in RequestState /\ Good(req[s])
      BY DEF Parts, AllGood
    <3>2. req[s].pc = "refresh" => req[s].seen \in Store
      BY <3>1 DEF Good, Place
    <3>3. req[s].pc = "refresh" => req[s].seen.refresh \in Token \union {Unset}
      BY <3>2 DEF Store
    <3>4. req[s].fresh \in Token \union {Unset}
      BY <3>1 DEF RequestState
    <3> QED
      BY <1>7, <3>3, <3>4 DEF Parts, TokensInv
  <2> QED
    BY <1>1, <2>1, <2>2, <2>3 DEF TokensInv
<1>9. SessionInv'
  <2>1. SUFFICES ASSUME Refreshing = {} PROVE SessionInv'
    BY <1>1 DEF SessionInv
  <2>2. \A s \in Request : req'[s].pc \notin {"refresh", "truncate", "write"}
    BY <1>1, <2>1 DEF Refreshing
  <2>3. Writing' = {}
    BY <2>2 DEF Writing
  <2>4. issued' \notin dropped
    BY <1>1, <1>2, UpstreamAssumption DEF Parts, TokensInv, UpstreamAssumption
  <2>5. ~Spent'
    BY <1>1, <2>3, <2>4 DEF Spent
  <2> QED
    BY <1>1, <1>4, <2>2, <2>3, <2>5 DEF SessionInv
<1> QED
  BY <1>1, <1>3, <1>5, <1>6, <1>8, <1>9 DEF Parts

\* The gateway ends: what its requests held is lost.
LEMMA KillParts ==
  ASSUME Parts, Kill
  PROVE  Parts'
<1>1. /\ left.kills > 0 /\ left' = [left EXCEPT !.kills = left.kills - 1]
      /\ dropped' = dropped \union {req[r].fresh : r \in Refreshing}
      /\ req' = [r \in Request |-> IF req[r].pc = "idle" THEN req[r] ELSE Ends(req[r], "gone")]
      /\ UNCHANGED << client, store, expired, valid, issued, mine, overtaken,
                      config, rest, pending, wish, claw >>
  BY DEF Kill, opencode
<1>2. req \in [Request -> RequestState] /\ AllGood
  BY DEF Parts
<1>3. \A r \in Request : Ends(req[r], "gone").pc = "done" /\ Ends(req[r], "gone").fresh = Unset
                         /\ Good(Ends(req[r], "gone"))
  BY <1>2, EndsGood
<1>4. \A r \in Request : /\ req'[r].pc \in {"idle", "done"} /\ Good(req'[r])
                         /\ req'[r].fresh = Unset
  <2>1. \A r \in Request : req[r].pc = "idle" => req[r].fresh = Unset
    BY <1>2 DEF AllGood, Good, Place
  <2> QED
    BY <1>1, <1>2, <1>3, <2>1 DEF AllGood
<1>5. RequestState' = RequestState
  BY <1>1 DEF RequestState
<1>6. AllGood'
  <2>1. SUFFICES ASSUME NEW s \in Request PROVE Good(req[s])'
    BY DEF AllGood
  <2>2. PICK q : q = req'[s]
    OBVIOUS
  <2>3. Good(q)'
    BY <1>1, <1>4, <2>2, GoodKept
  <2> QED
    BY <2>2, <2>3
<1>7. req' \in [Request -> RequestState']
  <2>1. \A r \in Request : req'[r] \in RequestState
    BY <1>4 DEF Good
  <2> QED
    BY <1>1, <1>5, <2>1
<1>8. \A r \in Request : req[r].fresh \in Token \union {Unset}
  BY <1>2 DEF RequestState
<1>9. StateTypeOK'
  <2>1. left' \in [commands : Nat, selects : Nat, kills : Nat]
    BY <1>1 DEF Parts, StateTypeOK
  <2>2. dropped' \subseteq Token \union {Unset}
    BY <1>1, <1>8 DEF Parts, StateTypeOK, Refreshing
  <2> QED
    BY <1>1, <2>1, <2>2 DEF Parts, StateTypeOK
<1>10. FilesOwn' /\ FilesInv'
  BY <1>1, FilesUnchanged DEF Parts
<1>11. TokensInv'
  BY <1>1, <1>4 DEF Parts, TokensInv, Refreshing
<1>12. SessionInv'
  <2>1. SUFFICES ASSUME client = "codex", ~overtaken PROVE SessionInv'
    BY <1>1 DEF SessionInv
  <2>2. Writing' = {}
    BY <1>4 DEF Writing
  <2>3. Spent' <=> Spent
    <3>1. \A r \in Request : req[r].fresh # Unset => r \in Writing
      BY <1>2 DEF AllGood, Good, Place, Writing
    <3>2. \A r \in Writing : r \in Refreshing /\ req[r].fresh = mine
      BY <2>1 DEF Parts, SessionInv, Writing, Refreshing
    <3>3. mine # Unset
      BY UpstreamAssumption DEF Parts, StateTypeOK, UpstreamAssumption
    <3>4. CASE Writing # {}
      <4>1. mine \in dropped'
        BY <1>1, <3>2, <3>4
      <4> QED
        BY <1>1, <3>4, <4>1 DEF Spent
    <3>5. CASE Writing = {}
      <4>1. \A r \in Refreshing : req[r].fresh = Unset
        BY <3>1, <3>5 DEF Refreshing
      <4>2. mine \in dropped' <=> mine \in dropped
        BY <1>1, <3>3, <4>1
      <4> QED
        BY <1>1, <2>2, <3>5, <4>2 DEF Spent
    <3> QED
      BY <3>4, <3>5
  <2> QED
    BY <1>1, <1>4, <2>1, <2>2, <2>3 DEF Parts, SessionInv
<1> QED
  BY <1>1, <1>6, <1>7, <1>9, <1>10, <1>11, <1>12 DEF Parts

\* A request that reads OpenCode's files while they change is known to.
LEMMA HastyGood ==
  ASSUME AllGood, req \in [Request -> RequestState], req' = Hasty, UNCHANGED << client, claw, wish >>
  PROVE  /\ AllGood' /\ req' \in [Request -> RequestState']
         /\ \A r \in Request : /\ req'[r].pc = req[r].pc /\ req'[r].seen = req[r].seen
                               /\ req'[r].fresh = req[r].fresh
<1>1. RequestState' = RequestState
  BY DEF RequestState
<1>2. ASSUME NEW r \in Request
      PROVE  /\ Good(req'[r]) /\ (req'[r].pc = "rest" => req'[r].hasty)
             /\ req'[r].pc = req[r].pc /\ req'[r].seen = req[r].seen
             /\ req'[r].fresh = req[r].fresh
  <2>1. req[r] \in RequestState /\ Good(req[r])
    BY DEF AllGood
  <2>2. CASE r \in Reading
    <3> DEFINE new == [req[r] EXCEPT !.hasty = TRUE]
    <3>1. req'[r] = new
      BY <2>2 DEF Hasty
    <3>2. /\ new \in RequestState /\ new.pc = "rest" /\ new.hasty /\ new.seen = req[r].seen
          /\ new.fresh = req[r].fresh /\ new.result = req[r].result /\ req[r].pc = "rest"
      BY <2>1, <2>2 DEF RequestState, Reading
    <3> HIDE DEF new
    <3>3. Good(new)
      BY <2>1, <3>2 DEF Good, Place, Own, Right, HasRead, SeenOwn, SeenNow
    <3> QED
      BY <3>1, <3>2, <3>3
  <2>3. CASE r \notin Reading
    BY <2>1, <2>3 DEF Hasty, Reading
  <2> QED
    BY <2>2, <2>3
<1>3. AllGood'
  <2>1. SUFFICES ASSUME NEW s \in Request PROVE Good(req[s])'
    BY DEF AllGood
  <2>2. PICK q : q = req'[s]
    OBVIOUS
  <2>3. Good(q)'
    BY <1>2, <2>2, GoodKept
  <2> QED
    BY <2>2, <2>3
<1>4. req' \in [Request -> RequestState']
  <2>1. \A r \in Request : req'[r] \in RequestState
    BY <1>2 DEF Good
  <2> QED
    BY <1>1, <2>1 DEF Hasty
<1> QED
  BY <1>2, <1>3, <1>4

LEMMA TokensUnchanged ==
  ASSUME TokensInv, SessionInv,
         UNCHANGED << client, store, valid, issued, mine, dropped, overtaken >>,
         \A r \in Request : /\ req'[r].pc = req[r].pc /\ req'[r].seen = req[r].seen
                            /\ req'[r].fresh = req[r].fresh
  PROVE  TokensInv' /\ SessionInv'
<1>1. Writing' = Writing
  BY DEF Writing
<1>2. Spent' = Spent
  BY <1>1 DEF Spent
<1>3. TokensInv'
  BY DEF TokensInv
<1>4. SessionInv'
  <2>1. \A r \in Writing : r \in Request
    BY DEF Writing
  <2> QED
    BY <1>1, <1>2, <2>1 DEF SessionInv
<1> QED
  BY <1>3, <1>4

\* What a command writes in the end is right for the active provider.
LEMMA CommandParts ==
  ASSUME Parts, NEW url, NEW kept, Command(url, kept),
         url \in Owned(config.active) \union {Gateway, Unset},
         kept \in KeptURL, kept.url \in Owned(config.active) \union {Unset},
         \/ url \in {wish[config.active], Usable(wish[config.active])} /\ kept = NothingKept
         \/ /\ url = Gateway /\ Meant(config.active) # Unset
            /\ kept = Kept(Meant(config.active), Usable(wish[config.active]) # Unset)
  PROVE  Parts'
<1> DEFINE p == config.active
           c == [config EXCEPT !.base[p] = url]
<1>1. /\ client = "opencode" /\ p # Unset /\ pending = NoWrite /\ left.commands > 0
      /\ left' = [left EXCEPT !.commands = left.commands - 1]
      /\ \/ config.base[p] = url /\ config' = config /\ pending' = << p, kept >>
         \/ config' = NoConfig /\ pending' = << c, p, kept >>
      /\ req' = Hasty
      /\ UNCHANGED << client, store, expired, valid, issued, mine, dropped, overtaken,
                      rest, wish, claw >>
  BY DEF Command, codex
<1>2. /\ config \in OpenCodeConfig /\ rest \in OpenCodeRest /\ p \in Provider
      /\ config.base \in [Provider -> Url \union {Gateway, Unset}]
      /\ rest.meta \in [Provider -> KeptURL]
  BY <1>1 DEF Parts, StateTypeOK, OpenCodeConfig, OpenCodeRest, KeptURL
<1>3. c \in OpenCodeConfig /\ c.base = [config.base EXCEPT ![p] = url]
  BY <1>2 DEF OpenCodeConfig, Owned
<1>4. NoConfig \in OpenCodeConfig /\ \A q \in Provider : NoConfig.base[q] = Unset
  BY DEF NoConfig, OpenCodeConfig
<1> HIDE DEF p, c
<1>5. /\ config' \in OpenCodeConfig /\ pending' \in Writes
      /\ \A q \in Provider : config'.base[q] \in {config.base[q], Unset}
  BY <1>1, <1>2, <1>3, <1>4 DEF Writes
<1>6. /\ \A q \in Provider : ComingBase'[q] = IF q = p THEN url ELSE config.base[q]
      /\ \A q \in Provider : ComingMeta'[q] = IF q = p THEN kept ELSE rest.meta[q]
  <2>1. CASE config.base[p] = url /\ config' = config /\ pending' = << p, kept >>
    <3>1. Len(pending') = 2 /\ pending'[1] = p /\ pending'[2] = kept
      BY <2>1
    <3>2. ComingBase' = config.base /\ ComingMeta' = [rest.meta EXCEPT ![p] = kept]
      BY <1>1, <2>1, <3>1 DEF ComingBase, ComingMeta
    <3> QED
      BY <1>2, <2>1, <3>2
  <2>2. CASE config' = NoConfig /\ pending' = << c, p, kept >>
    <3>1. Len(pending') = 3 /\ pending'[1] = c /\ pending'[2] = p /\ pending'[3] = kept
      BY <2>2
    <3>2. ComingBase' = c.base /\ ComingMeta' = [rest.meta EXCEPT ![p] = kept]
      BY <1>1, <3>1 DEF ComingBase, ComingMeta
    <3> QED
      BY <1>2, <1>3, <3>2
  <2> QED
    BY <1>1, <2>1, <2>2
<1>7. ComingBase = config.base /\ ComingMeta = rest.meta
  BY <1>1 DEF ComingBase, ComingMeta, NoWrite
<1>8. FilesOwn'
  BY <1>1, <1>5, <1>6 DEF Parts, FilesOwn, p
<1>9. FilesInv'
  BY <1>1, <1>6, <1>7 DEF Parts, FilesInv, Meant, p
<1>10. /\ AllGood' /\ req' \in [Request -> RequestState']
       /\ TokensInv' /\ SessionInv'
  BY <1>1, HastyGood, TokensUnchanged DEF Parts
<1>11. StateTypeOK'
  <2>1. left' \in [commands : Nat, selects : Nat, kills : Nat]
    BY <1>1 DEF Parts, StateTypeOK
  <2> QED
    BY <1>1, <1>5, <2>1 DEF Parts, StateTypeOK
<1> QED
  BY <1>1, <1>8, <1>9, <1>10, <1>11 DEF Parts

LEMMA AttachParts ==
  ASSUME Parts, Attach
  PROVE  Parts'
<1> USE CredentialsAssumption DEF CredentialsAssumption
<1> DEFINE p == config.active
           url == OpenCodePreserved(config, rest, p)
           kept == IF rest.meta[p] # NothingKept THEN rest.meta[p]
                   ELSE Kept(url, Usable(config.base[p]) # Unset)
<1>1. p # Unset /\ url # Unset /\ Command(Gateway, kept) /\ pending = NoWrite
  BY DEF Attach, Command
<1>2. /\ p \in Provider /\ rest.meta[p] \in KeptURL /\ wish[p] \in Url \union {Unset}
      /\ rest.meta[p].url \in Owned(p) \union {Unset}
      /\ config.base[p] \in Owned(p) \union {Gateway, Unset}
  BY <1>1 DEF Parts, StateTypeOK, OpenCodeConfig, OpenCodeRest, FilesOwn, KeptURL
<1>3. url = IF rest.meta[p].url # Unset THEN rest.meta[p].url
            ELSE IF Usable(config.base[p]) # Unset THEN Usable(config.base[p])
            ELSE OpenCodeDefault(p)
  BY FirstOfThree DEF OpenCodePreserved
<1>4. Usable(config.base[p]) \in Owned(p) \union {Unset}
  BY <1>2 DEF Usable, IsLoopback
<1>5. OpenCodeDefault(p) \in Owned(p) \union {Unset}
  BY DEF OpenCodeDefault, Owned
<1>6. url \in Owned(p)
  BY <1>1, <1>2, <1>3, <1>4, <1>5
<1> HIDE DEF url
<1>7. Owned(p) \subseteq Url
  BY DEF Owned
<1>8. kept \in KeptURL /\ kept.url \in Owned(p) \union {Unset}
  BY <1>2, <1>6, <1>7 DEF KeptURL, Kept
<1>9. Meant(p) # Unset /\ kept = Kept(Meant(p), Usable(wish[p]) # Unset)
  <2>1. ComingBase = config.base /\ ComingMeta = rest.meta
    BY <1>1 DEF ComingBase, ComingMeta, NoWrite
  <2>2. \/ config.base[p] \in {wish[p], Usable(wish[p])} /\ rest.meta[p] = NothingKept
        \/ /\ config.base[p] = Gateway /\ Meant(p) # Unset
           /\ rest.meta[p] = Kept(Meant(p), Usable(wish[p]) # Unset)
    BY <1>2, <2>1 DEF Parts, FilesInv
  <2>3. CASE config.base[p] \in {wish[p], Usable(wish[p])} /\ rest.meta[p] = NothingKept
    <3>1. rest.meta[p].url = Unset
      BY <2>3 DEF NothingKept, Kept
    <3>2. Usable(config.base[p]) = Usable(wish[p])
      BY <1>2, <2>3, UsableAgain
    <3>3. Usable(wish[p]) # Unset => Usable(wish[p]) = wish[p]
      BY DEF Usable
    <3>4. url = Meant(p)
      BY <1>3, <3>1, <3>2, <3>3 DEF Meant
    <3> QED
      BY <1>1, <2>3, <3>2, <3>4
  <2>4. CASE /\ config.base[p] = Gateway /\ Meant(p) # Unset
             /\ rest.meta[p] = Kept(Meant(p), Usable(wish[p]) # Unset)
    BY <2>4 DEF NothingKept, Kept
  <2> QED
    BY <2>2, <2>3, <2>4
<1> HIDE DEF kept, CredentialsAssumption
<1> QED
  BY <1>1, <1>8, <1>9, CommandParts

LEMMA DetachParts ==
  ASSUME Parts, Detach
  PROVE  Parts'
<1> USE CredentialsAssumption DEF CredentialsAssumption
<1> DEFINE p == config.active
           url == IF rest.meta[p].explicit THEN rest.meta[p].url ELSE Unset
<1>1. p # Unset /\ config.base[p] = Gateway /\ Command(url, NothingKept) /\ pending = NoWrite
  BY DEF Detach, Command
<1>2. /\ p \in Provider /\ wish[p] \in Url \union {Unset}
      /\ rest.meta[p].url \in Owned(p) \union {Unset}
  BY <1>1 DEF Parts, StateTypeOK, OpenCodeConfig, FilesOwn
<1>3. NothingKept \in KeptURL /\ NothingKept.url = Unset
  BY DEF NothingKept, KeptURL, Kept
<1>4. url = Usable(wish[p])
  <2>1. ComingBase = config.base /\ ComingMeta = rest.meta
    BY <1>1 DEF ComingBase, ComingMeta, NoWrite
  <2>2. Gateway \notin {wish[p], Usable(wish[p])}
    BY <1>2, UsableAgain
  <2>3. rest.meta[p] = Kept(Meant(p), Usable(wish[p]) # Unset)
    BY <1>1, <1>2, <2>1, <2>2 DEF Parts, FilesInv
  <2>4. rest.meta[p].url = Meant(p) /\ rest.meta[p].explicit = (Usable(wish[p]) # Unset)
    BY <2>3 DEF Kept
  <2>5. Usable(wish[p]) # Unset => Usable(wish[p]) = wish[p]
    BY DEF Usable
  <2> QED
    BY <2>4, <2>5 DEF Meant
<1>5. url \in Owned(p) \union {Gateway, Unset}
  BY <1>2
<1> HIDE DEF url, CredentialsAssumption
<1> QED
  BY <1>1, <1>3, <1>4, <1>5, CommandParts

LEMMA WritesFacts ==
  ASSUME pending \in Writes
  PROVE  /\ Len(pending) = 3 => \E c \in OpenCodeConfig, p \in Provider, k \in KeptURL :
                                  pending = << c, p, k >>
         /\ Len(pending) = 2 => \E p \in Provider, k \in KeptURL : pending = << p, k >>
<1>1. CASE pending = NoWrite
  BY <1>1 DEF NoWrite
<1>2. CASE pending \in OpenCodeConfig \X Provider \X KeptURL
  <2>1. PICK c \in OpenCodeConfig, p \in Provider, k \in KeptURL : pending = << c, p, k >>
    BY <1>2
  <2> QED
    BY <2>1
<1>3. CASE pending \in Provider \X KeptURL
  <2>1. PICK p \in Provider, k \in KeptURL : pending = << p, k >>
    BY <1>3
  <2> QED
    BY <2>1
<1> QED
  BY <1>1, <1>2, <1>3 DEF Writes

LEMMA WriteConfigParts ==
  ASSUME Parts, WriteConfig
  PROVE  Parts'
<1>1. /\ Len(pending) = 3 /\ config' = pending[1] /\ pending' = Tail(pending) /\ req' = Hasty
      /\ UNCHANGED << client, store, expired, valid, issued, mine, dropped, overtaken,
                      rest, wish, claw, left >>
  BY DEF WriteConfig, codex
<1>2. PICK c \in OpenCodeConfig, p \in Provider, k \in KeptURL : pending = << c, p, k >>
  BY <1>1, WritesFacts DEF Parts, StateTypeOK
<1>3. pending' = << p, k >>
  BY <1>1, <1>2
<1>4. /\ ComingBase = c.base /\ ComingMeta = [rest.meta EXCEPT ![p] = k]
      /\ config' = c /\ pending'[1] = p /\ pending'[2] = k /\ Len(pending') = 2
  BY <1>1, <1>2, <1>3 DEF ComingBase, ComingMeta
<1>5. ComingBase' = ComingBase /\ ComingMeta' = ComingMeta
  <2>1. ComingBase' = config'.base
    BY <1>4 DEF ComingBase
  <2>2. ComingMeta' = [rest'.meta EXCEPT ![pending'[1]] = pending'[2]]
    BY <1>4 DEF ComingMeta
  <2> QED
    BY <1>1, <1>4, <2>1, <2>2
<1>6. FilesOwn'
  BY <1>1, <1>4, <1>5 DEF Parts, FilesOwn
<1>7. FilesInv'
  BY <1>1, <1>5 DEF Parts, FilesInv, Meant
<1>8. AllGood' /\ req' \in [Request -> RequestState'] /\ TokensInv' /\ SessionInv'
  BY <1>1, HastyGood, TokensUnchanged DEF Parts
<1>9. StateTypeOK'
  BY <1>1, <1>3, <1>4 DEF Parts, StateTypeOK, Writes
<1> QED
  BY <1>1, <1>6, <1>7, <1>8, <1>9 DEF Parts

LEMMA WriteMetadataParts ==
  ASSUME Parts, WriteMetadata
  PROVE  Parts'
<1>1. /\ Len(pending) = 2 /\ rest' = [rest EXCEPT !.meta[pending[1]] = pending[2]]
      /\ pending' = NoWrite /\ req' = Hasty
      /\ UNCHANGED << client, store, expired, valid, issued, mine, dropped, overtaken,
                      config, wish, claw, left >>
  BY DEF WriteMetadata, codex
<1>2. PICK p \in Provider, k \in KeptURL : pending = << p, k >>
  BY <1>1, WritesFacts DEF Parts, StateTypeOK
<1>3. rest \in OpenCodeRest
  BY DEF Parts, StateTypeOK
<1>4. rest' \in OpenCodeRest /\ rest'.meta = [rest.meta EXCEPT ![p] = k]
  BY <1>1, <1>2, <1>3 DEF OpenCodeRest, KeptURL
<1>5. ComingBase = config.base /\ ComingMeta = rest'.meta
  BY <1>1, <1>2, <1>4 DEF ComingBase, ComingMeta
<1>6. ComingBase' = ComingBase /\ ComingMeta' = ComingMeta
  BY <1>1, <1>5 DEF ComingBase, ComingMeta, NoWrite
<1>7. FilesOwn'
  BY <1>1, <1>5, <1>6 DEF Parts, FilesOwn
<1>8. FilesInv'
  BY <1>1, <1>6 DEF Parts, FilesInv, Meant
<1>9. AllGood' /\ req' \in [Request -> RequestState'] /\ TokensInv' /\ SessionInv'
  BY <1>1, HastyGood, TokensUnchanged DEF Parts
<1>10. StateTypeOK'
  BY <1>1, <1>4 DEF Parts, StateTypeOK, Writes
<1> QED
  BY <1>1, <1>7, <1>8, <1>9, <1>10 DEF Parts

LEMMA SelectParts ==
  ASSUME Parts, NEW p \in Provider, Select(p)
  PROVE  Parts'
<1>1. /\ config' = [config EXCEPT !.active = p] /\ Len(pending) < 3 /\ left.selects > 0
      /\ left' = [left EXCEPT !.selects = left.selects - 1]
      /\ UNCHANGED << client, store, expired, valid, issued, mine, dropped, overtaken,
                      rest, pending, wish, claw, req >>
  BY DEF Select, codex
<1>2. config' \in OpenCodeConfig /\ config'.base = config.base
  BY <1>1 DEF Parts, StateTypeOK, OpenCodeConfig
<1>3. ComingBase' = ComingBase /\ ComingMeta' = ComingMeta
  BY <1>1, <1>2 DEF ComingBase, ComingMeta
<1>4. FilesOwn' /\ FilesInv'
  BY <1>1, <1>2, <1>3 DEF Parts, FilesOwn, FilesInv, Meant
<1>5. AllGood' /\ req' \in [Request -> RequestState']
  BY <1>1, <1>2, RequestsUnchanged DEF Parts
<1>6. TokensInv' /\ SessionInv'
  BY <1>1, TokensUnchanged DEF Parts
<1>7. StateTypeOK'
  BY <1>1, <1>2 DEF Parts, StateTypeOK
<1> QED
  BY <1>1, <1>4, <1>5, <1>6, <1>7 DEF Parts

-----------------------------------------------------------------------------
(* The invariant, and what follows from it. *)

LEMMA PartsInit == Init => Parts
<1> USE CredentialsAssumption, UpstreamAssumption DEF CredentialsAssumption, UpstreamAssumption
<1> SUFFICES ASSUME Init PROVE Parts
  OBVIOUS
<1>1. 0 \in Token
  BY DEF Token
<1>2. store \in Store /\ store.refresh \in {0, Unset}
  <2>1. NoStore \in Store /\ NoStore.refresh = Unset
    BY DEF NoStore, Store
  <2>2. \A s \in CodexStart : s \in [access : {0, Unset}, refresh : {0, Unset}, key : BOOLEAN]
    OBVIOUS
  <2>3. \A s \in CodexStart : s \in Store /\ s.refresh \in {0, Unset}
    BY <1>1, <2>2 DEF Store
  <2>4. store \in CodexStart \/ store = NoStore
    BY DEF Init
  <2> QED
    BY <2>1, <2>3, <2>4
<1>3. NoConfig \in OpenCodeConfig /\ NoRest \in OpenCodeRest
  BY DEF NoConfig, NoRest, OpenCodeConfig, OpenCodeRest, NothingKept, Kept
<1>4. /\ config \in OpenCodeConfig /\ rest \in OpenCodeRest
      /\ \A p \in Provider :
           config.base[p] \in Owned(p) \union {Unset} /\ rest.meta[p] = NothingKept
  <2>1. PICK files \in IF client = "opencode" THEN OpenCodeStart ELSE {<< NoConfig, NoRest >>} :
          config = files[1] /\ rest = files[2]
    BY DEF Init
  <2>2. CASE client = "opencode"
    BY <2>1, <2>2
  <2>3. CASE client # "opencode"
    <3>1. config = NoConfig /\ rest = NoRest
      BY <2>1, <2>3
    <3>2. \A p \in Provider : NoConfig.base[p] = Unset /\ NoRest.meta[p] = NothingKept
      BY DEF NoConfig, NoRest
    <3> QED
      BY <1>3, <3>1, <3>2
  <2> QED
    BY <2>2, <2>3
<1> HIDE DEF CredentialsAssumption, UpstreamAssumption
<1>5. wish \in [Provider -> Url \union {Unset}]
  <2>1. wish = config.base /\ config.base \in [Provider -> Url \union {Gateway, Unset}]
    BY <1>4 DEF Init, OpenCodeConfig
  <2>2. \A p \in Provider : config.base[p] \in Url \union {Unset}
    BY <1>4 DEF Owned
  <2> QED
    BY <2>1, <2>2
<1>6. claw \in OpenClawFiles \union {Unset} /\ (client = "openclaw" => claw \in OpenClawStart)
  BY UpstreamAssumption DEF Init, UpstreamAssumption
<1>7. left \in [commands : Nat, selects : Nat, kills : Nat]
  BY UpstreamAssumption DEF Init, UpstreamAssumption
<1>8. StateTypeOK
  BY <1>1, <1>2, <1>4, <1>5, <1>6, <1>7 DEF Init, StateTypeOK, Writes
<1>9. AllGood /\ req \in [Request -> RequestState]
  BY NewIsGood DEF Init, AllGood
<1>10. \A r \in Request : req[r].pc = "idle" /\ req[r].fresh = Unset
  BY NewIsGood DEF Init
<1>11. TokensInv
  BY <1>2, <1>10 DEF Init, TokensInv
<1>12. SessionInv
  <2>1. Writing = {} /\ ~Spent
    BY <1>10 DEF Init, Writing, Spent
  <2>2. Unset # 0
    BY <1>1, UpstreamAssumption DEF UpstreamAssumption
  <2> QED
    BY <1>2, <1>10, <2>1, <2>2 DEF Init, SessionInv
<1>13. ComingBase = config.base /\ ComingMeta = rest.meta
  BY DEF Init, ComingBase, ComingMeta, NoWrite
<1>14. FilesOwn
  <2>1. NothingKept.url = Unset
    BY DEF NothingKept, Kept
  <2> QED
    BY <1>4, <1>13, <2>1 DEF FilesOwn
<1>15. FilesInv
  BY <1>4, <1>13 DEF Init, FilesInv
<1> QED
  BY <1>6, <1>8, <1>9, <1>11, <1>12, <1>14, <1>15 DEF Parts

LEMMA PartsStep ==
  ASSUME Parts, [Next]_vars
  PROVE  Parts'
<1>1. ASSUME NEW r \in Request, Arrive(r) \/ Search(r) \/ Post(r) \/ Stream(r) \/ List(r)
      PROVE  Parts'
  <2>1. CASE Rotate(r)
    BY <2>1, RotateParts
  <2>2. CASE Truncate(r)
    BY <2>2, TruncateParts
  <2>3. CASE Write(r)
    BY <2>3, WriteParts
  <2>4. CASE \/ Arrive(r) \/ Plan(r) \/ Identify(r) \/ ReadConfig(r) \/ ReadRest(r)
             \/ ReadStore(r) \/ NotRefreshed(r) \/ Post(r) \/ Stream(r) \/ List(r)
    BY <2>4, TurnsGood, TurnsParts
  <2> QED
    BY <1>1, <2>1, <2>2, <2>3, <2>4 DEF Search
<1>2. CASE Surroundings
  BY <1>2, ExpireParts, LoginParts, AttachParts, DetachParts, WriteConfigParts,
     WriteMetadataParts, KillParts, SelectParts DEF Surroundings
<1>3. CASE UNCHANGED vars
  <2>1. /\ AllGood' /\ req' \in [Request -> RequestState'] /\ FilesOwn' /\ FilesInv'
        /\ TokensInv' /\ SessionInv'
    BY <1>3, RequestsUnchanged, FilesUnchanged, TokensUnchanged DEF Parts, vars, codex, opencode
  <2> QED
    BY <1>3, <2>1 DEF Parts, StateTypeOK, vars, codex, opencode
<1> QED
  BY <1>1, <1>2, <1>3 DEF Next

\* The inductive invariant of requests, tokens and files.
THEOREM Invariance == Spec => []IInv
<1>1. Init => Parts
  BY PartsInit
<1>2. Parts /\ [Next]_vars => Parts'
  BY PartsStep
<1> QED
  BY <1>1, <1>2, InvariantParts, PTL DEF Spec

\* Types: what a request reads is the file of its harness, and a route that is
\* found has a URL and a credential.
THEOREM TypeCorrect == Spec => []TypeOK
<1>1. IInv => TypeOK
  BY DEF IInv
<1> QED
  BY <1>1, Invariance, PTL

\* Whatever attach, detach, logins and other requests do to the files while a
\* request reads them, it carries a harness' credential to a URL of the credential's
\* provider, but for the two cases CredentialIsOwn names (provider_policy.py:282,
\* upstream_client.py:299).  That each URL in the files belongs to the provider it
\* is written for is assumed of the first files.
THEOREM CredentialsAreOwn == Spec => []CredentialIsOwn
<1>1. IInv => CredentialIsOwn
  BY DEF IInv
<1> QED
  BY <1>1, Invariance, PTL

\* Attached or not, OpenCode's requests for the active provider go to the URL the
\* user gave it or else its default, to the default or nowhere when that URL is on
\* localhost, and for Codex with a credential of their own to Codex' URL, unless a
\* file was being changed (provider_auth.py, lines 476-509).
THEOREM RoutesAreUsers == Spec => []RouteIsUsers
<1>1. IInv => RouteIsUsers
  BY DEF IInv
<1> QED
  BY <1>1, Invariance, PTL

\* However many requests renew the token of Codex at once, the session of the
\* user's last login is in the store or with the one that is about to write it.
THEOREM SessionsAreKept == Spec => []SessionKept
<1>1. IInv => SessionKept
  <2>1. SUFFICES ASSUME SessionInv, client = "codex", ~overtaken, mine \notin dropped
                 PROVE  SessionKept
    BY DEF IInv, SessionKept
  <2>2. CASE Spent
    <3>1. PICK r \in Writing : TRUE
      BY <2>1, <2>2 DEF Spent
    <3>2. r \in Request /\ req[r].pc \in {"truncate", "write"} /\ req[r].fresh = mine
      BY <2>1, <3>1 DEF SessionInv, Writing
    <3> QED
      BY <3>2 DEF SessionKept
  <2>3. CASE ~Spent
    BY <2>1, <2>3 DEF SessionInv, SessionKept
  <2> QED
    BY <2>2, <2>3
<1> QED
  BY <1>1, Invariance, PTL
=============================================================================
