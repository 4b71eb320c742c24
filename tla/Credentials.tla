---------------------------- MODULE Credentials ----------------------------
(***************************************************************************)
(* How the gateway finds the provider, the URL and the credential for a    *)
(* request (core/provider_auth.py, core/provider_policy.py): from the      *)
(* files of the harness the request comes from.  Pure definitions, over    *)
(* what has been read of these files.                                      *)
(*                                                                         *)
(* A URL is a value with an owner, the provider it belongs to.  That a     *)
(* URL is on localhost is membership in Local; the two tests for that in   *)
(* the code agree on these.  The URL of the gateway is one value.          *)
(***************************************************************************)
EXTENDS Naturals, Sequences, FiniteSets, SequencesExt

CONSTANTS
  Provider, OpenAI, Anthropic, \* the providers, and two the code knows by name
  Codex,         \* PROVIDER_OPENAI_CODEX
  Profile,       \* the auth profiles of OpenClaw
  Url,           \* the base URLs of providers
  Owner,         \* the provider of each
  DefaultUrl,    \* OPENAI_COMPAT_BASE_URL
  NativeUrl,     \* the base URL of Codex
  ConfiguredUrl, \* the upstream URL of the gateway's own configuration
  Local,         \* the URLs on localhost
  Gateway,       \* the gateway's URL, on localhost too
  Family,        \* the API families
  Supported,     \* those OpenClaw may use
  Unset          \* nothing there

ASSUME CredentialsAssumption ==
  /\ {OpenAI, Anthropic, Codex} \subseteq Provider
  /\ Owner \in [Url -> Provider]
  /\ {DefaultUrl, NativeUrl, ConfiguredUrl} \subseteq Url \ Local
  /\ Owner[DefaultUrl] = OpenAI /\ Owner[NativeUrl] = Codex
  /\ Local \subseteq Url
  /\ Supported \subseteq Family
  /\ Gateway \notin Url
  /\ Unset \notin Provider \union Profile \union Url \union Family \union {Gateway}

\* The base URLs of a provider.
Owned(p) == {u \in Url : Owner[u] = p}

\* What is found: a credential of a provider, and how it was found.
Credential(p, via, id) == [of |-> p, via |-> via, id |-> id]

\* The request is refused with a status of 400.
Refusal == [to |-> "nobody"]

\* The request goes to url with cred.
Route(url, cred, native) ==
  [to |-> "upstream", url |-> url, cred |-> cred, native |-> native]

\* The client's own credential, which the request brings with it.
Incoming == Credential(Unset, "incoming", Unset)

\* The first of a sequence of values that is there.
FirstOf(values) ==
  LET there == {i \in DOMAIN values : values[i] # Unset} IN
  IF there = {} THEN Unset ELSE values[Min(there)]

IsLoopback(url) == url \in Local \union {Gateway}

\* A base URL that can be used upstream.
Usable(url) == IF IsLoopback(url) THEN Unset ELSE url

-----------------------------------------------------------------------------
(* Codex: auth.json. *)

\* An API key of Codex' is one of OpenAI's, for OpenAI's public URL.
CodexKey == Route(DefaultUrl, Credential(OpenAI, "key", Unset), FALSE)

\* Mutant of CodexToken: the token goes to OpenAI's public URL.
CodexTokenPublic(access) == Route(DefaultUrl, Credential(Codex, "token", access), FALSE)

CodexToken(access) == Route(NativeUrl, Credential(Codex, "token", access), TRUE)

\* What the store gives a request for provider p, when the access token is
\* access or missing.  Tokens are for Codex' own URL only.
CodexRoute(p, access, key) ==
  IF p = Codex /\ access # Unset THEN CodexToken(access)
  ELSE IF p \in {Codex, OpenAI} /\ access = Unset /\ key THEN CodexKey
  ELSE Refusal

-----------------------------------------------------------------------------
(* OpenCode: opencode.json (config), its route metadata, the auth store, and *)
(* the variables its cache of models names (rest).  Its state file, which is *)
(* asked when the configuration has no model, is left out: there is no URL   *)
(* for a provider that is found there.                                       *)

OpenCodeConfig ==
  [active : Provider \union {Unset},
   base : [Provider -> Url \union {Gateway, Unset}],
   key : [Provider -> {"none", "placeholder", "real"}]]

\* A missing file, and one that is being written, read like an empty one.
NoConfig == [active |-> Unset, base |-> [p \in Provider |-> Unset],
             key |-> [p \in Provider |-> "none"]]

\* The URL that attach kept of a provider, and whether the user had set it.
Kept(url, explicit) == [url |-> url, explicit |-> explicit]

NothingKept == Kept(Unset, FALSE)

OpenCodeRest ==
  [meta : [Provider -> [url : Url \union {Unset}, explicit : BOOLEAN]],
   auth : [Provider -> {"none", "oauth", "key"}],
   env : SUBSET Provider]

OpenCodeDefault(p) == IF p = OpenAI THEN DefaultUrl ELSE Unset

\* Mutant of OpenCodePreserved: the metadata is not asked.
OpenCodePreservedNow(config, rest, p) ==
  FirstOf(<< Usable(config.base[p]), OpenCodeDefault(p) >>)

\* The URL the user gave a provider: as attach kept it, or as it stands.
OpenCodePreserved(config, rest, p) ==
  FirstOf(<< rest.meta[p].url, Usable(config.base[p]), OpenCodeDefault(p) >>)

\* The URL to use for p.  The configured one is that of the active provider,
\* whichever provider the request is for.
OpenCodeUpstream(config, rest, p) ==
  IF config.active = Unset THEN Unset
  ELSE FirstOf(<< Usable(config.base[config.active]),
                  IF p = Unset THEN Unset ELSE OpenCodePreserved(config, rest, p) >>)

\* OpenCode's own OAuth for OpenAI cannot be routed.
OpenCodeSupported(config, rest) ==
  config.active = OpenAI => rest.auth[OpenAI] # "oauth"

\* The credentials of p, the first found: configuration, auth store, variable.
\* The placeholder attach may have left is not one.
OpenCodeCredential(config, rest, p) ==
  FirstOf(<< IF config.key[p] = "real" THEN Credential(p, "config", Unset) ELSE Unset,
             IF rest.auth[p] # "none" THEN Credential(p, rest.auth[p], Unset) ELSE Unset,
             IF p \in rest.env THEN Credential(p, "env", Unset) ELSE Unset >>)

\* A request with a credential of its own needs only a URL.
OpenCodeExplicit(config, rest, p) ==
  LET url == OpenCodeUpstream(config, rest, p) IN
  IF p = Codex THEN Route(NativeUrl, Incoming, TRUE)
  ELSE IF url = Unset THEN Refusal
  ELSE Route(url, Incoming, FALSE)

\* Without a provider the active one is taken again, from what is read now.
OpenCodeReused(config, rest, asked) ==
  LET p == IF asked = Unset THEN config.active ELSE asked
      url == OpenCodeUpstream(config, rest, p)
      cred == OpenCodeCredential(config, rest, p)
  IN IF p = Unset \/ url = Unset \/ cred = Unset \/ ~OpenCodeSupported(config, rest)
     THEN Refusal
     ELSE Route(url, cred, FALSE)

OpenCodeRoute(config, rest, p, explicit) ==
  IF explicit THEN OpenCodeExplicit(config, rest, p)
  ELSE OpenCodeReused(config, rest, p)

-----------------------------------------------------------------------------
(* OpenClaw: openclaw.json, the models cache, its route metadata, and the    *)
(* auth profiles.                                                            *)

\* Of a provider: its family as the metadata, the configuration and the cache
\* have it, the URLs attach kept, the profile configured, the order of profiles,
\* and the key in the cache.
OpenClawEntry ==
  [family : Seq(Family \union {Unset}),
   kept : Seq(Url \union {Unset}),
   configured : Profile \union {Unset},
   order : Seq(Profile),
   cacheKey : {"none", "placeholder", "real"}]

OpenClawFiles ==
  [active : Provider \union {Unset},
   entry : [Provider -> OpenClawEntry],
   profiles : [Profile -> [of : Provider, usable : BOOLEAN] \union {Unset}],
   env : SUBSET Provider]

Matching(claw, p) ==
  {x \in Profile : claw.profiles[x] # Unset /\ claw.profiles[x].of = p}

\* The auth profile of p: the configured one, else the first of the order, else
\* the only one there is.
SelectedProfile(claw, p) ==
  LET matching == Matching(claw, p)
      configured == claw.entry[p].configured
      order == claw.entry[p].order
      inOrder == [i \in DOMAIN order |-> IF order[i] \in matching THEN order[i] ELSE Unset]
  IN CASE configured # Unset -> IF configured \in matching THEN configured ELSE Unset
       [] configured = Unset /\ order # << >> -> FirstOf(inOrder)
       [] OTHER -> IF Cardinality(matching) = 1 THEN CHOOSE x \in matching : TRUE ELSE Unset

ProfileCredential(claw, p) ==
  LET profile == SelectedProfile(claw, p) IN
  IF profile # Unset /\ claw.profiles[profile].usable
  THEN Credential(p, "profile", profile) ELSE Unset

CacheCredential(claw, p) ==
  IF claw.entry[p].cacheKey = "real" THEN Credential(p, "cache", Unset) ELSE Unset

\* Only for two providers the code knows a variable.
EnvCredential(claw, p) ==
  IF p \in claw.env \intersect {OpenAI, Anthropic} THEN Credential(p, "env", Unset) ELSE Unset

OpenClawCredential(claw, p) ==
  FirstOf(<< ProfileCredential(claw, p), CacheCredential(claw, p), EnvCredential(claw, p) >>)

OpenClawFamily(claw, p) == IF p = Unset THEN Unset ELSE FirstOf(claw.entry[p].family)

OpenClawKept(claw, p) == IF p = Unset THEN Unset ELSE FirstOf(claw.entry[p].kept)

\* Without a URL kept for the provider the gateway's own configuration decides.
OpenClawUrl(claw, p) == FirstOf(<< OpenClawKept(claw, p), ConfiguredUrl >>)

OpenClawUnsupported(claw, p) == p = Codex \/ OpenClawFamily(claw, p) \in Family \ Supported

\* Without a family only a request with a credential of its own goes on.
OpenClawExplicit(claw, p) ==
  IF OpenClawUnsupported(claw, p) THEN Refusal
  ELSE Route(OpenClawUrl(claw, p), Incoming, FALSE)

OpenClawReused(claw, p) ==
  IF \/ OpenClawUnsupported(claw, p) \/ OpenClawFamily(claw, p) = Unset
     \/ OpenClawCredential(claw, p) = Unset
  THEN Refusal
  ELSE Route(OpenClawUrl(claw, p), OpenClawCredential(claw, p), FALSE)

OpenClawRoute(claw, p, explicit) ==
  IF explicit THEN OpenClawExplicit(claw, p) ELSE OpenClawReused(claw, p)

-----------------------------------------------------------------------------
(* Requests that bring a credential of their own to a harness without files. *)

\* The gateway's own configuration serves clients it does not know; a client it
\* knows needs a route.
PlainRoute(client, p, explicit) ==
  IF ~explicit THEN Refusal
  ELSE IF p = Codex THEN Route(NativeUrl, Incoming, TRUE)
  ELSE IF p = OpenAI THEN Route(DefaultUrl, Incoming, FALSE)
  ELSE IF client = "unknown" THEN Route(ConfiguredUrl, Incoming, FALSE)
  ELSE Refusal
=============================================================================
