------------------------------ MODULE Upstream ------------------------------
(***************************************************************************)
(* The call of a provider (core/upstream_client.py): each request finds    *)
(* its route and credential in the files of its harness, renews an expired *)
(* token of Codex, and is sent, again after an error that may pass.        *)
(*                                                                         *)
(* A request runs in a thread of its own; nothing locks the files, which   *)
(* the harness, the controller (attach, detach) and other requests write   *)
(* meanwhile.  Each read of a file and each half of a write is a step.     *)
(* The token server and the provider are external: the server takes each   *)
(* refresh token once and answers with the next; an answer may be lost.    *)
(*                                                                         *)
(* Tokens are numbers; the access and the refresh token of an answer have  *)
(* the same.  All requests of a behaviour come from one client.            *)
(***************************************************************************)
EXTENDS Credentials

CONSTANTS
  Request,
  Client,       \* the clients a behaviour may have
  Sends,        \* bound on the requests of each: the set it may send
  Ask,          \* what a request may be: its provider, credential and kind
  CodexStart, OpenCodeStart, OpenClawStart, \* the files before the first request
  MaxRetries,
  MaxToken,     \* bound on the tokens the server gives out
  MaxCommands,  \* bound on the commands of the controller
  MaxSelects,   \* bound on the models the user selects
  MaxKills      \* bound on the gateway's ends

Token == 0..MaxToken

\* The files were written by the harness and its user: the token of Codex is
\* that of the first login, nothing is attached, and a base URL, configured or
\* kept, is one of the provider it is written for.
ASSUME UpstreamAssumption ==
  /\ Client \subseteq {"codex", "opencode", "openclaw", "claude_code", "unknown"}
  /\ Ask \subseteq [provider : Provider \union {Unset}, explicit : BOOLEAN,
                    kind : {"json", "stream", "models"}]
  /\ Sends \in [Client -> SUBSET Request]
  /\ {MaxRetries, MaxToken, MaxCommands, MaxSelects, MaxKills} \subseteq Nat
  /\ Unset \notin Token /\ Unset \notin OpenCodeConfig
  /\ CodexStart \subseteq [access : {0, Unset}, refresh : {0, Unset}, key : BOOLEAN]
  /\ \A f \in OpenCodeStart :
       /\ f[1] \in OpenCodeConfig /\ f[2] \in OpenCodeRest
       /\ \A p \in Provider :
            f[1].base[p] \in Owned(p) \union {Unset} /\ f[2].meta[p] = NothingKept
  /\ \A f \in OpenClawStart :
       /\ f \in OpenClawFiles
       /\ \A p \in Provider :
            f.entry[p].kept \in Seq(Owned(p) \union {Unset})

VARIABLES
  client,
  store,    \* auth.json of Codex
  expired,  \* the access tokens that are too old
  valid,    \* the refresh tokens the server accepts
  issued,   \* the last token it gave out
  config,   \* opencode.json
  rest,     \* the other files of OpenCode
  pending,  \* the metadata a command of the controller has yet to write
  claw,     \* the files of OpenClaw
  req,      \* the requests
  left,     \* commands, selections and kills that may still happen
  mine,     \* the refresh token of the user's last login
  dropped,  \* tokens that were lost on their way to the store
  overtaken, \* the user logged in while an older session was refreshed
  wish      \* the base URL the user gave each provider of OpenCode

codex    == << store, expired, valid, issued, mine, dropped, overtaken >>
opencode == << config, rest, pending, wish >>
vars     == << client, codex, opencode, claw, req, left >>

NoAsk == [provider |-> Unset, explicit |-> FALSE, kind |-> "json"]

\* auth.json that is missing, half written, or has nothing in it.
NoStore == [access |-> Unset, refresh |-> Unset, key |-> FALSE]

NoRest == [meta |-> [p \in Provider |-> NothingKept],
           auth |-> [p \in Provider |-> "none"], env |-> {}]

\* seen: the file read last; fresh: the token the server answered with;
\* final: the request has failed and only looks at its credential again;
\* hasty: a file it read was being changed.
NewRequest == [ask |-> NoAsk, pc |-> "idle", provider |-> Unset, seen |-> Unset,
               fresh |-> Unset, route |-> Refusal, attempt |-> 0,
               final |-> FALSE, hasty |-> FALSE, result |-> "none"]

\* No files to write, or those a command of the controller has yet to write:
\* the configuration, and the metadata of a provider.
NoWrite == << >>

Init ==
  /\ client \in Client
  /\ store \in IF client = "codex" THEN CodexStart ELSE {NoStore}
  /\ \E files \in IF client = "opencode" THEN OpenCodeStart ELSE {<< NoConfig, NoRest >>} :
       config = files[1] /\ rest = files[2]
  /\ claw \in IF client = "openclaw" THEN OpenClawStart ELSE {Unset}
  /\ expired = {} /\ valid = {0} /\ issued = 0
  /\ pending = NoWrite /\ wish = config.base
  /\ req = [r \in Request |-> NewRequest]
  /\ left = [commands |-> MaxCommands, selects |-> MaxSelects, kills |-> MaxKills]
  /\ mine = 0 /\ dropped = {} /\ overtaken = FALSE

-----------------------------------------------------------------------------
(* Finding the route. *)

\* Request r changes, the files do not.
Reads(r, new) ==
  /\ req' = [req EXCEPT ![r] = new]
  /\ UNCHANGED << client, codex, opencode, claw, left >>

\* Of a request that has ended only what it asked and its result count, and,
\* for the properties, what OpenCode's had read when it was refused.
Ends(q, result) == [NewRequest EXCEPT !.ask = q.ask, !.pc = "done", !.result = result]

Refused(q) ==
  IF client # "opencode" THEN Ends(q, "refused")
  ELSE [Ends(q, "refused") EXCEPT !.provider = q.provider, !.seen = q.seen, !.hasty = q.hasty]

\* The route is found: the request is sent, refused, or was only looking again.
Routed(q, route) ==
  IF q.final THEN Ends(q, "error")
  ELSE IF route = Refusal THEN Refused(q)
  ELSE [q EXCEPT !.route = route, !.pc = "send", !.fresh = Unset,
                 !.seen = IF client = "opencode" THEN @ ELSE Unset]

\* Where the search begins.  A provider Codex' store has nothing for is refused
\* before the store is read.
FirstStep(ask) ==
  CASE client = "codex" /\ ~ask.explicit -> "store"
    [] client = "opencode" -> IF ask.provider = Unset THEN "identify" ELSE "config"
    [] OTHER -> "plan"

Arrive(r) ==
  /\ req[r].pc = "idle" /\ r \in Sends[client]
  /\ \E ask \in Ask :
       LET p == IF client = "codex" /\ ask.provider = Unset THEN Codex ELSE ask.provider
       IN Reads(r, [req[r] EXCEPT !.ask = ask, !.provider = p, !.pc = FirstStep(ask)])

\* OpenClaw's files, which no step below changes, or none at all.
Plan(r) ==
  LET q == req[r]
      p == IF client = "openclaw" /\ q.provider = Unset THEN claw.active ELSE q.provider IN
  /\ q.pc = "plan"
  /\ Reads(r, Routed([q EXCEPT !.provider = p],
                     IF client = "openclaw" THEN OpenClawRoute(claw, p, q.ask.explicit)
                     ELSE PlainRoute(client, p, q.ask.explicit)))

\* The request names no provider: OpenCode's active one is meant.
Identify(r) ==
  /\ req[r].pc = "identify"
  /\ Reads(r, [req[r] EXCEPT !.provider = config.active, !.pc = "config"])

ReadConfig(r) ==
  /\ req[r].pc = "config"
  /\ Reads(r, [req[r] EXCEPT !.seen = config, !.pc = "rest", !.hasty = pending # NoWrite])

ReadRest(r) ==
  LET q == req[r] IN
  /\ q.pc = "rest"
  /\ Reads(r, Routed(q, OpenCodeRoute(q.seen, rest, q.provider, q.ask.explicit)))

\* auth.json is read, and a token that has expired is to be renewed.
ReadStore(r) ==
  LET q == req[r] IN
  /\ q.pc = "store"
  /\ Reads(r, IF q.provider \notin {Codex, OpenAI} THEN Routed(q, Refusal)
              ELSE IF store.access \in expired /\ store.refresh # Unset
              THEN [q EXCEPT !.seen = store, !.pc = "refresh"]
              ELSE Routed(q, CodexRoute(q.provider, store.access, store.key)))

\* Without an answer the old token is used; a connection that stalls in the
\* answer raises an error nobody expects.
Unrenewed(q) == {Routed(q, CodexRoute(q.provider, q.seen.access, q.seen.key)),
                 Ends(q, "error")}

\* The token server takes the refresh token; its answer arrives, or is lost.
Rotate(r) ==
  LET q == req[r]
      new == issued + 1 IN
  /\ q.pc = "refresh" /\ q.seen.refresh \in valid /\ new \in Token
  /\ issued' = new
  /\ valid' = (valid \ {q.seen.refresh}) \union {new}
  /\ mine' = IF mine = q.seen.refresh THEN new ELSE mine
  /\ \/ /\ req' = [req EXCEPT ![r].fresh = new, ![r].pc = "truncate"]
        /\ UNCHANGED dropped
     \/ /\ req' \in {[req EXCEPT ![r] = q_] : q_ \in Unrenewed(q)}
        /\ dropped' = dropped \union {new}
  /\ UNCHANGED << client, store, expired, overtaken, opencode, claw, left >>

\* It does not take the token, or cannot be reached.
NotRefreshed(r) ==
  /\ req[r].pc = "refresh"
  /\ \E new \in Unrenewed(req[r]) : Reads(r, new)

\* write_text empties the file first.
Truncate(r) ==
  /\ req[r].pc = "truncate"
  /\ store' = NoStore
  /\ req' = [req EXCEPT ![r].pc = "write"]
  /\ UNCHANGED << client, expired, valid, issued, mine, dropped, overtaken, opencode,
                  claw, left >>

\* Mutant of Renewed: the refresh token is kept.
RenewedAccess(seen, fresh) == [seen EXCEPT !.access = fresh]

\* What was read, with the new tokens.
Renewed(seen, fresh) == [seen EXCEPT !.access = fresh, !.refresh = fresh]

Write(r) ==
  LET q == req[r] IN
  /\ q.pc = "write"
  /\ store' = Renewed(q.seen, q.fresh)
  /\ req' = [req EXCEPT ![r] = Routed(q, CodexRoute(q.provider, q.fresh, q.seen.key))]
  /\ UNCHANGED << client, expired, valid, issued, mine, dropped, overtaken, opencode,
                  claw, left >>

Search(r) ==
  \/ Plan(r) \/ Identify(r) \/ ReadConfig(r) \/ ReadRest(r) \/ ReadStore(r)
  \/ Rotate(r) \/ NotRefreshed(r) \/ Truncate(r) \/ Write(r)

-----------------------------------------------------------------------------
(* The attempts. *)

Served(r) == Reads(r, Ends(req[r], "ok"))

\* The answer is not a JSON object.
Malformed(r) == Reads(r, Ends(req[r], "error"))

\* A status of 502 to 504, a connection that fails, or a timeout.
Again(r) ==
  /\ req[r].attempt < MaxRetries
  /\ Reads(r, [req[r] EXCEPT !.attempt = @ + 1])

\* Mutant of Status: the request is sent with what is found then.
StatusResend(r) ==
  LET q == req[r] IN
  Reads(r, IF q.ask.explicit THEN Ends(q, "error")
           ELSE [q EXCEPT !.seen = Unset, !.pc = FirstStep(q.ask)])

\* A status of 400 or more that stands: the credential that was taken from the
\* harness is looked at again, as in the first place.
Status(r) ==
  LET q == req[r] IN
  Reads(r, IF q.ask.explicit THEN Ends(q, "error")
           ELSE [q EXCEPT !.final = TRUE, !.seen = Unset, !.pc = FirstStep(q.ask)])

\* An attempt fails without an answer, and there is no other.
Unreachable(r) == Reads(r, Ends(req[r], "error"))

Sending(r, kind) == req[r].pc = "send" /\ req[r].ask.kind = kind

Post(r) ==
  /\ Sending(r, "json")
  /\ Served(r) \/ Malformed(r) \/ Again(r) \/ Status(r) \/ Unreachable(r)

Stream(r) ==
  /\ Sending(r, "stream")
  /\ Served(r) \/ Again(r) \/ Status(r) \/ Unreachable(r)

\* A list of models is asked for once.
List(r) ==
  /\ Sending(r, "models")
  /\ Served(r) \/ Malformed(r) \/ Status(r) \/ Unreachable(r)

-----------------------------------------------------------------------------
(* The surroundings. *)

\* An access token grows old.
Expire ==
  /\ client = "codex" /\ store.access \notin expired \union {Unset}
  /\ expired' = expired \union {store.access}
  /\ UNCHANGED << client, store, valid, issued, mine, dropped, overtaken, opencode, claw,
                  req, left >>

Refreshing == {r \in Request : req[r].pc \in {"refresh", "truncate", "write"}}

\* The user logs in to Codex.
Login ==
  /\ client = "codex" /\ issued + 1 \in Token
  /\ issued' = issued + 1
  /\ valid' = valid \union {issued'}
  /\ mine' = issued'
  /\ store' = [access |-> issued', refresh |-> issued', key |-> FALSE]
  /\ overtaken' = (Refreshing # {})
  /\ UNCHANGED << client, expired, dropped, opencode, claw, req, left >>

\* Requests that read OpenCode's files now.
Reading == {r \in Request : req[r].pc = "rest"}

Hasty == [r \in Request |-> IF r \in Reading THEN [req[r] EXCEPT !.hasty = TRUE] ELSE req[r]]

\* A command of the controller for the active provider, as in Controller: the
\* configuration is emptied and written, then the metadata.
Command(new, kept) ==
  /\ client = "opencode" /\ config.active # Unset /\ pending = NoWrite
  /\ left.commands > 0 /\ left' = [left EXCEPT !.commands = @ - 1]
  /\ IF config.base[config.active] = new
     THEN config' = config /\ pending' = << config.active, kept >>
     ELSE /\ config' = NoConfig
          /\ pending' = << [config EXCEPT !.base[config.active] = new], config.active, kept >>
  /\ req' = Hasty
  /\ UNCHANGED << client, codex, rest, wish, claw >>

Attach ==
  LET p == config.active
      url == OpenCodePreserved(config, rest, p) IN
  /\ p # Unset /\ url # Unset /\ OpenCodeSupported(config, rest)
  /\ Command(Gateway, IF rest.meta[p] # NothingKept THEN rest.meta[p]
                      ELSE Kept(url, Usable(config.base[p]) # Unset))

Detach ==
  LET p == config.active IN
  /\ p # Unset /\ config.base[p] = Gateway
  /\ Command(IF rest.meta[p].explicit THEN rest.meta[p].url ELSE Unset, NothingKept)

WriteConfig ==
  /\ Len(pending) = 3
  /\ config' = pending[1]
  /\ pending' = Tail(pending)
  /\ req' = Hasty
  /\ UNCHANGED << client, codex, rest, wish, claw, left >>

WriteMetadata ==
  /\ Len(pending) = 2
  /\ rest' = [rest EXCEPT !.meta[pending[1]] = pending[2]]
  /\ pending' = NoWrite
  /\ req' = Hasty
  /\ UNCHANGED << client, codex, config, wish, claw, left >>

\* The user selects a model of another provider.
Select(p) ==
  /\ client = "opencode" /\ p # config.active /\ Len(pending) < 3
  /\ left.selects > 0 /\ left' = [left EXCEPT !.selects = @ - 1]
  /\ config' = [config EXCEPT !.active = p]
  /\ UNCHANGED << client, codex, rest, pending, wish, claw, req >>

\* The gateway ends, and with it its requests.
Kill ==
  /\ left.kills > 0 /\ left' = [left EXCEPT !.kills = @ - 1]
  /\ \E r \in Request : req[r].pc \notin {"idle", "done"}
  /\ dropped' = dropped \union {req[r].fresh : r \in Refreshing}
  /\ req' = [r \in Request |-> IF req[r].pc = "idle" THEN req[r] ELSE Ends(req[r], "gone")]
  /\ UNCHANGED << client, store, expired, valid, issued, mine, overtaken, opencode, claw >>

Surroundings ==
  \/ Expire \/ Login \/ Attach \/ Detach \/ WriteConfig \/ WriteMetadata \/ Kill
  \/ \E p \in Provider : Select(p)

Next ==
  \/ \E r \in Request : Arrive(r) \/ Search(r) \/ Post(r) \/ Stream(r) \/ List(r)
  \/ Surroundings

\* Threads go on, and calls of the token server and of the provider time out,
\* but for the answer to a stream: httpx gets no timeout for that.
Fairness ==
  \A r \in Request : WF_vars(Search(r)) /\ WF_vars(Post(r)) /\ WF_vars(List(r))

Spec == Init /\ [][Next]_vars

FairSpec == Spec /\ Fairness
-----------------------------------------------------------------------------
(* What is to be shown. *)

\* A request that takes its credential from the harness carries one of the
\* provider the URL belongs to, whatever the others did to the files meanwhile,
\* but for two cases: OpenCode's request for a provider that is not the active one
\* may go to the active one's URL (provider_policy.py:282), and OpenClaw's without
\* a URL kept goes to the gateway's own (upstream_client.py:299).  No third URL
\* gets it.  A profile is one of its provider.
CredentialIsOwn ==
  \A r \in Request :
    LET q == req[r]
        route == q.route IN
    q.pc = "send" /\ route.cred # Incoming =>
      /\ \/ Owner[route.url] = route.cred.of
         \/ /\ client = "opencode" /\ q.provider # q.seen.active
            /\ Owner[route.url] = q.seen.active
         \/ /\ client = "openclaw" /\ OpenClawKept(claw, q.provider) = Unset
            /\ route.url = ConfiguredUrl
      /\ route.cred.via = "profile" => claw.profiles[route.cred.id].of = route.cred.of

\* The URL meant for a provider, if there is one: that of the user, or else the
\* default.  A URL on localhost is taken for the gateway's, and is like none
\* (provider_policy.py, lines 136-138).
Meant(p) == IF Usable(wish[p]) = Unset THEN OpenCodeDefault(p) ELSE wish[p]

\* Attached or not, and however often: a request of OpenCode for the active
\* provider goes to the URL the user gave that provider, and is not refused for
\* the want of one, unless a file was being changed while it was read.  Two things
\* the user may not expect are part of it: a URL on localhost is never used, but
\* the default in its place, or the request is refused; and a request for Codex
\* with a credential of its own goes to Codex' URL (provider_auth.py, lines
\* 476-486).
RouteIsUsers ==
  \A r \in Request :
    LET q == req[r]
        url == IF q.provider = Codex /\ q.ask.explicit THEN NativeUrl ELSE Meant(q.provider) IN
    /\ client = "opencode" /\ ~q.hasty /\ q.seen # Unset
    /\ q.provider = q.seen.active /\ q.provider # Unset
    => /\ q.pc = "send" => q.route.url = url
       /\ q.ask.explicit /\ q.result = "refused" => url = Unset

\* The session of the user's last login is in the store, or with the request
\* that is about to write it; it is lost only with an answer that was lost, with
\* the gateway, or to a login while an older session was being renewed.
SessionKept ==
  \/ client # "codex" \/ overtaken \/ mine \in dropped
  \/ store.refresh \in {mine, Unset}
  \/ \E r \in Request : req[r].pc \in {"truncate", "write"} /\ req[r].fresh = mine

\* A request that does not wait for a stream ends.
RequestsEnd ==
  \A r \in Request :
    req[r].pc # "idle" /\ req[r].ask.kind # "stream" ~> req[r].pc = "done"
-----------------------------------------------------------------------------
(* The inductive invariant of the proofs in UpstreamProofs. *)

Store == [access : Token \union {Unset}, refresh : Token \union {Unset}, key : BOOLEAN]

Found ==
  [of : Provider \union {Unset},
   via : {"incoming", "key", "token", "config", "oauth", "env", "profile", "cache"},
   id : Token \union Profile \union {Unset}]

Routes == {Refusal} \union [to : {"upstream"}, url : Url, cred : Found, native : BOOLEAN]

RequestState ==
  [ask : Ask \union {NoAsk},
   pc : {"idle", "plan", "identify", "config", "rest", "store", "refresh", "truncate",
         "write", "send", "done"},
   provider : Provider \union {Unset},
   seen : {Unset} \union IF client = "opencode" THEN OpenCodeConfig ELSE Store,
   fresh : Token \union {Unset},
   route : Routes,
   attempt : 0..MaxRetries,
   final : BOOLEAN,
   hasty : BOOLEAN,
   result : {"none", "ok", "error", "refused", "gone"}]

\* What a command has still to write; the metadata of a provider in the end.
KeptURL == [url : Url \union {Unset}, explicit : BOOLEAN]

Writes ==
  {NoWrite} \union (OpenCodeConfig \X Provider \X KeptURL) \union (Provider \X KeptURL)

TypeOK ==
  /\ client \in Client
  /\ store \in Store /\ expired \subseteq Token /\ valid \subseteq Token
  /\ issued \in Token /\ mine \in Token
  /\ dropped \subseteq Token \union {Unset} /\ overtaken \in BOOLEAN
  /\ config \in OpenCodeConfig /\ rest \in OpenCodeRest /\ pending \in Writes
  /\ wish \in [Provider -> Url \union {Unset}]
  /\ claw \in OpenClawFiles \union {Unset}
  /\ req \in [Request -> RequestState]
  /\ left \in [commands : Nat, selects : Nat, kills : Nat]

\* Each place of a request is one of its harness, and what it read is of that.
Place(q) ==
  /\ q.pc \in {"store", "refresh", "truncate", "write"} => client = "codex"
  /\ q.pc \in {"refresh", "truncate", "write"} => q.seen \in Store
  /\ q.pc \in {"identify", "config", "rest"} => client = "opencode"
  /\ q.pc = "plan" => client # "opencode"
  /\ q.pc = "rest" => q.seen \in OpenCodeConfig
  /\ q.pc \in {"truncate", "write"} <=> q.fresh # Unset
  /\ q.pc = "send" => q.route # Refusal
  /\ q.pc # "done" => q.result = "none"

PlaceInv ==
  /\ \A r \in Request : Place(req[r])
  /\ client = "openclaw" => claw \in OpenClawStart

\* All tokens there are were issued, and the user's last is accepted.
TokensInv ==
  /\ mine \in valid
  /\ \A t \in valid \union dropped \union {store.refresh} : t # Unset => t <= issued
  /\ \A r \in Request :
       /\ req[r].pc = "refresh" /\ req[r].seen.refresh # Unset => req[r].seen.refresh <= issued
       /\ req[r].fresh # Unset => req[r].fresh <= issued

Writing == {r \in Request : req[r].pc \in {"truncate", "write"}}

\* The token of the user's session has been answered with and is not in the store.
Spent == mine \in dropped \/ Writing # {}

\* Who may still have an accepted token has the user's, unless that is spent.
SessionInv ==
  client = "codex" /\ ~overtaken =>
    /\ store.refresh \in valid => store.refresh = mine /\ ~Spent
    /\ \A r \in Request :
         req[r].pc = "refresh" /\ req[r].seen.refresh \in valid =>
           req[r].seen.refresh = mine /\ ~Spent
    /\ \A r \in Writing : req[r].fresh = mine /\ mine \notin dropped /\ Writing = {r}
    /\ ~Spent => store.refresh \in {mine, Unset}

\* The files as they are when the command that is under way has ended.
ComingBase == IF Len(pending) = 3 THEN pending[1].base ELSE config.base

ComingMeta ==
  CASE Len(pending) = 3 -> [rest.meta EXCEPT ![pending[2]] = pending[3]]
    [] Len(pending) = 2 -> [rest.meta EXCEPT ![pending[1]] = pending[2]]
    [] OTHER -> rest.meta

\* URLs are written to the entries of their own providers.
OwnInv ==
  \A p \in Provider :
    /\ {config.base[p], ComingBase[p]} \subseteq Owned(p) \union {Gateway, Unset}
    /\ {rest.meta[p].url, ComingMeta[p].url} \subseteq Owned(p) \union {Unset}
    /\ \A r \in Request :
         client = "opencode" /\ req[r].seen # Unset =>
           req[r].seen.base[p] \in Owned(p) \union {Gateway, Unset}

\* A provider has the URL the user gave it, which detach drops if it is on
\* localhost, or it is attached and the URL meant is kept.
FilesInv ==
  \A p \in Provider :
    \/ ComingBase[p] \in {wish[p], Usable(wish[p])} /\ ComingMeta[p] = NothingKept
    \/ /\ ComingBase[p] = Gateway /\ Meant(p) # Unset
       /\ ComingMeta[p] = Kept(Meant(p), Usable(wish[p]) # Unset)

\* What a request has read of the configuration goes with the metadata.
ReadInv ==
  \A r \in Request :
    req[r].pc = "rest" /\ ~req[r].hasty =>
      pending = NoWrite /\ req[r].seen.base = config.base

IInv ==
  /\ TypeOK /\ PlaceInv /\ TokensInv /\ SessionInv
  /\ OwnInv /\ FilesInv /\ ReadInv /\ CredentialIsOwn /\ RouteIsUsers
=============================================================================
