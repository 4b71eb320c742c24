# A TLA+ development for the modeio middleware

The middleware is a local gateway between agent clients (Codex, Claude Code,
OpenCode, OpenClaw) and the providers of their models. It runs plugins on
requests, responses and streamed events, keeps a journal of the traffic, serves
a dashboard that shows the traffic and edits the plugins, and has a command line
that starts the gateway and routes clients through it.

Paths below are relative to `src/`; `mw/` stands for `modeio_middleware/`.

## 1. Inventory

### The gateway process

| Part | State | Operations | Hard behaviour |
|---|---|---|---|
| Gateway controller, `mw/runtime_control.py` | current engine and its generation, counts of users per engine, retired engines | borrow, release, update a profile's plugins, inventory, shutdown | requests borrow in threads of a pool while updates swap the engine on the event loop; a replaced engine must live until its last user is gone and then be shut down once |
| Configuration store, `mw/runtime_config_store.py` | the configuration file | read, replace atomically | file, engine and generation must agree after failures and restarts |
| Runtime pool, `mw/runtime/manager.py` | entries per runtime key, `in_use`, a Condition | acquire with deadline, release, shutdown | lost wakeups, deadlock between profiles, retired runtimes, processes that exit |
| Stdio runtime, `mw/runtime/supervisor.py`, `stdio_jsonrpc.py` | process, pipes, lock, next id | initialize, call a hook, shutdown | late answers, lines read ahead, full pipes, a plugin that ignores signals |
| Engine and hook pipeline, `mw/core/engine.py`, `plugin_manager.py`, `pipeline_orchestrator.py`, `stream_orchestrator.py`, `stream_relay.py` | one request: leased plugins, body, decision, trace | pre-request, upstream call, post-response, stream hooks, finish | failing plugins in each hook, streams blocked half-way, clients that disconnect at a yield |
| Request journal, `mw/core/observability/` | traces in flight, a deque of records with an index, subscribers | start, finish, list by cursor, publish | threads that finish together, eviction under a reader, slow subscribers |
| Monitoring API, `mw/monitoring/api.py` | none of its own | list events, live stream, plugin inventory and update | coroutines and threads share the journal |
| Upstream client, `mw/core/upstream_*.py` | none kept between requests | plan a route, call the provider, retry, map errors | files that change between two reads; a retry of a request that was served |
| Provider credentials, `mw/core/provider_auth.py`, `client_auth.py`, policy `provider_policy.py` | the clients' credential files; only Codex' is written | find a credential and its URL, renew Codex' token | renewals that race; a kill after the refresh token was used up; a credential next to another provider's URL |
| Configuration resolver, `mw/core/config_resolver.py`, `mw/registry/resolver.py`, `mw/plugin_catalog*.py`, `plugin_host.py` | none kept after load | merge base, preset, profile and request overrides | precedence; what a request may not override |
| Payload codec, `mw/core/payload_*.py` | the payload and body of a request under way | normalize, apply operations, denormalize | an edit that touches what it does not name; an operation that fails after others took effect |
| Plugin protocol and events, `mw/protocol/`, `mw/core/sse.py` | a parser's partial event | validate, split events | events cut at any byte |
| HTTP transport, `mw/http_transport.py`, connectors | none of its own | parse, route, relay | streams that never start |
| Redaction plugin, `mw/plugins/redact*.py` | the placeholders of a request | shield the request, restore the answer | edits by plugins before and after it; placeholders cut by a stream's events |

### The command line

| Part | State | Operations | Hard behaviour |
|---|---|---|---|
| Controller service, `mw/cli/controller_service.py` | `controller.json`: settings and enabled harnesses | enable, disable, start, stop, restart | several files and a process change in one command that may fail or be killed anywhere |
| Process manager, `mw/cli/controller_process.py` | `controller.pid` and the process | start, stop, status | a process that dies, never answers, or is left without a record |
| Setup of clients, `mw/cli/setup_lib/`, `harness_adapters/` | the clients' own configuration, route metadata, backups | attach, detach, inspect | the user's settings must come back; OpenClaw has two files, the metadata and two lots of backups to keep in step |

### The dashboard (`dashboard/src`)

| Part | State | Operations | Hard behaviour |
|---|---|---|---|
| Plugin workspace, `features/plugins/` | inventory, draft, pending update | fetch, edit, save, refresh | several tabs, stale inventories, answers out of order |
| Traffic page, `features/traffic/` | list, live connection, refresh timer | fetch, hear, refresh | events that overtake answers, dropped events |

### How they interact

A request thread borrows an engine from the gateway controller, leases the
runtimes of its profile's plugins from that engine's pool, calls them over
their stdio supervisors, each of which may edit the normalized payload, finds the
client's own credential and calls the provider, and hands its record to the
journal, which tells the live subscribers. A dashboard lists the journal and
listens to it, and replaces the plugins of a profile through the controller,
which writes the file and swaps the engine. The command line starts the process
and points the clients at it, in the same files the gateway reads credentials and
the users' URLs from.

## 2. Modules

One module per component; a module `XProofs` holds the theorems about `X`
(DashboardProofs those about ProfileUpdates and Journal, RequestProofs those about
RequestPipeline and PayloadEdits), a module `MCX` what TLC needs to instantiate it.
Mutants, definitions with the comment "Mutant of ...", are plausible bugs that each
property is tested against; nothing uses them in the specifications.

* **RuntimePool** (`mw/runtime/manager.py`, with the threads of
  `plugin_manager.py` that lease). Everything between taking and leaving the
  Condition is one action (`AcquireIdle`, `AcquireNew`, `AcquireFails`,
  `AcquireWaits`, `AcquireTimesOut`, `Release`, `Shutdown`); `Condition.wait`
  is the set `waiting`, and `notify_all` empties it. `runtime.shutdown()` runs
  outside the lock and has actions of its own (`CloseRetired`, `CloseHalted`).
  Processes may exit at any time, constructors may fail.
* **EngineSwap** (`mw/runtime_control.py`). An engine is its generation.
  `Borrow`, `Release`, `Update`, `Shutdown` are the critical sections; shutting
  down an engine is a later step of whoever took it out.
* **LeaseTable**, the abstract specification of both: resources are held, and
  retired only while nobody holds them. RuntimePool (exclusive leases) and
  EngineSwap (shared ones) implement it (`ImplementsLeaseTable`).
* **ProfileUpdates** (`mw/runtime_control.py`, `runtime_config_store.py`,
  `dashboard/src/features/plugins`). Gateway, file and dashboard tabs with
  inventories, drafts and messages under way. A plugin section is the set of
  edits it contains, so that "nothing is lost" is set inclusion. A conflict makes the
  tab fetch the new inventory and keep its draft, as in the code, so that it may save
  the draft again (`Save`); nothing merges the two. A request without a generation,
  which the gateway accepts (`runtime_control.py:158`), is left out of `Expected`: the
  dashboard always sends one.
* **StdioSupervisor** (`mw/runtime/supervisor.py`, `stdio_jsonrpc.py`). One
  process, its two pipes, the buffer of the text stream, a user and a closer
  that compete for the lock, and a plugin that may do anything: answer late,
  write junk or half a line, stop reading, ignore SIGTERM.
* **RequestPipeline** (`mw/core/engine.py` and the modules of the table). One
  request of four kinds (JSON, stream, two hook events), each plugin with a
  mode, grants, hooks, and an answer or failure chosen anew in every hook. A
  body is the set of plugins whose edits it carries.
* **Journal** (`mw/core/observability`, `mw/monitoring/api.py`). Threads that
  finish requests, the bounded deque and its index, a reader that walks the
  listing by cursor, live subscribers with bounded queues.
* **TrafficPage** extends Journal with the traffic page: its fetches, its live
  connection and its refresh timer. TanStack Query is external: invalidating
  a query cancels a fetch under way and fetches again, but does not cancel a
  first fetch that has no data yet.
* **Controller** (`mw/cli/controller_service.py`, `controller_process.py`,
  `controller_state.py`, `setup_lib/opencode.py`, `setup_lib/claude.py`). One
  command at a time; each write of a file, signal and look at a process is a
  step, between which the command may be killed and the gateway may exit. A
  command is a list of jobs (attach, detach) and a `pc`; a failure turns what
  was changed into the jobs that undo it. The user edits OpenCode's
  configuration between commands.

* **Credentials** (`mw/core/provider_auth.py`, `client_auth.py`,
  `provider_policy.py`) says, for the files as they are, which credential and which
  URL a request of Codex, Claude Code, OpenCode, OpenClaw or an unknown client
  gets: functions of the state, without one of their own.
* **Upstream** (`mw/core/upstream_client.py`, `upstream_strategy.py`,
  `upstream_plan.py`, `upstream_transport.py`) makes them into requests: each read
  of a file is a step (`Search`), so that attach, detach, logins, token renewals and
  a kill may come between two of them; then the token is renewed, and the call is
  made and made again after errors. The credential server keeps a session per
  refresh token, which it takes once.
* **OpenClaw** (`setup_lib/openclaw*.py`, `harness_adapters/openclaw.py`,
  `provider_policy.py`). The configuration and the models cache, each with an entry
  per provider, the route metadata and the backups, under enable, start, disable
  and their rollback; each write of a file is a step, between which the command may
  be killed. The user selects providers and edits entries between commands.
* **PayloadCodec** (`mw/core/payload_codec.py`, `payload_mutations.py`,
  `payload_types.py`): how a body of one of the three APIs is read into a timeline of
  units, what an operation does to it, and how it is written back. A body is a head
  (system prompt or instructions) and slots: a slot is a text, a tool call, a tool
  result or what the codec does not look into; a text is a sequence of pieces. Which
  roles make an instruction, a prompt or an observation differs between the three. A
  timeline is a function from ids to units: 0 is the head's, 1, 2, ... those of the
  slots, -1, -2, ... inserted contexts, in the order they were inserted. The list the
  code keeps has the body's units by their ids and the contexts side by side, in front
  of the first prompt or of everything; `InFront` has what follows from that place. A
  list of operations is a recursive function of its prefixes (`Progress`).
* **RedactPlugin** (`mw/plugins/redact.py`, `redact_utils.py`): the rewrites it asks
  for, and the tokens it hands out, as functions of payload and body.
* **PayloadEdits** (`mw/core/plugin_manager.py`, `engine.py`, `stream_relay.py`)
  composes the two: the plugins of a profile edit a request one after another, then
  the response or the events of its stream, and each sees what the one before left.
  `PayloadAssumption` says of the inputs that an editor's text can be told from what
  was there and has neither secrets nor tokens (`EditorOp`), and that tokens come only
  from redact: of a request none arrives, of an answer none that was not sent.

## 3. Runs

| Run | Instance | States | What it asks |
|---|---|---|---|
| `pool_leases` | 2 threads, 2 pools of 1, 3 runtimes, opposite orders, fairness | 231,132 | exclusive leases, bound of the pool, single retirement, no lost wakeup, no process without an owner, refinement of LeaseTable, every request ends, shutdown reaches all |
| `swap_updates` | 3 threads, 4 generations, fairness | 3,847 | accounting of engines, refinement (no shutdown under a request), old engines close |
| `updates_tabs` | 3 tabs, 3 edits, 1 restart | 2,245,307 | an accepted update undoes of others only what the tab was shown after a conflict, engine runs the file |
| `updates_restart` | 2 tabs, 3 edits, 1 restart | | **violated**: see Findings |
| `stdio_calls` | 4 calls, pipes of 2, fairness of the host alone | 202,928 | own answers; calls and shutdowns end unless a call is stalled for ever |
| `pipeline_requests` | 2 plugins, 3 chunks, fairness | 2,300,000 | vetted upstream bodies, true records, cleanup, blocked stays blocked, policies, requests end |
| `journal_walks` | 3 requests, deque of 2, pages of 1 or 2, 1 client | 4,900,000 | walks by cursor |
| `traffic_page` | 2 requests, deque of 2, queue of 1, list of 1, fairness | 115,568 | the page follows the journal |
| `controller_commands` | 2 harnesses, 2 ports, 3 settings, 3 processes, 2 providers, 1 kill, 1 edit | 10,400,000 | the user's URL, files and record, rollback, processes on record, backups |
| `upstream_requests` | 2 requests of Codex or 1 of another of five clients, 3 providers, 4 tokens, 3 commands, 1 selection, 1 kill, 1 retry, fairness | 583,000 | no credential at another provider's URL but in two cases, the user's route, sessions kept, requests end |
| `openclaw_commands` | 2 files, 2 providers, 2 ports (symmetric), 2 kills, 2 edits | 9,700,000 | a detach at any port gives back what is routed to it, files follow the record, no URL is lost |
| `payload_plugins` | 3 APIs, two slots a body and one an event, two or three plugins, lists of up to two operations | 100,872 | what is shown is sent, instructions are only added to, exact untouched units are unchanged, secrets shielded and restored where texts are written |

Why the bounds are enough to be interesting. Two pools with opposite orders give
the deadlock that the deadline must break, and a second runtime of one plugin
replaces one that exited or was retired; the safety properties of the pool are
proved for all pool sizes, threads and profiles besides. Four generations give an
engine that is retired while an older one is. Three tabs give a writer, a reader and
a stale one. Pipes of two messages fill up in four calls. Two plugins give one that
acts after another has blocked, edited or failed. A deque of two with three requests
evicts under a reader. One kill at each place, followed by any sequence of commands,
covers a crash and its repair; OpenClaw gets two, since the second may meet what the
first left in three files; three processes are one that is left, one that dies
and one that starts. Two requests of Codex race for one refresh token; one retry
is enough to fail twice. Two slots are one that is edited and one that must not be;
every pair of the slots an API has is an instance, and the contents tell a secret, a
plain word and a written one apart. Three plugins are an edit before redact and one
after it.

Bounds in guards: `Runtime` (identities to create), `MaxGeneration`, `Edit`
(each made once), `MaxRestarts`, `MaxCalls`, `MaxEvents`, `Request`, `MaxKills`,
`MaxEdits`, `MaxRetries`, `MaxToken`, `MaxCommands`, `MaxSelects`, `Sends`.
`CHECK_DEADLOCK FALSE` stands where a behaviour may have served all its requests or
used up such a bound; `pool_leases`, `controller_commands` and
`openclaw_commands` check deadlock.
Symmetry is used only in runs without liveness properties, over sets whose members no
definition tells apart.

### Fairness

* RuntimePool: weak fairness of each step of a thread inside the code and of the
  passing of its deadline (`DeadlinePasses`). Arrivals, exits and shutdown are
  not fair: nothing makes them happen.
* EngineSwap: weak fairness of giving back and of shutting down what was taken
  out. That a request gives its engine back is what RequestPipeline shows.
* StdioSupervisor: the lock is a `threading.Lock`, so its takers get strong
  fairness; what the host does once it may is weakly fair, and so is the
  select timeout, which is part of `Call`. Of the plugin nothing is assumed
  (`HostFairSpec`): it may stop at any point, or write for ever.
* RequestPipeline: weak fairness of `Next`: one thread runs one request, and the
  upstream and the plugins come to some end (their calls have timeouts).
* Upstream: weak fairness of reading the files, of calls that are answered at once
  and of listings, each of which has a timeout. Not of streamed calls: the code waits
  for their head without a limit (`read=None`), and `RequestsEnd` leaves them out.
* TrafficPage: weak fairness of threads, of the live coroutine, of delivery, of
  the timer; not of opening, closing or losing a connection.

## 4. Findings

`updates_restart` (`mw/runtime_control.py:59`): the generation starts at 1 in every
process, so a tab that outlives a restart may hold a generation that names another
section, and its update silently undoes one that was saved. The check is there to
refuse it (`runtime_control.py:164`: "plugin configuration is stale; refresh and try
again").

Other things the models show, each named where a property leaves it out:

* A stdio plugin that lives and stops reading: the write of a request to the full pipe
  is under no timeout and holds the lock that shutdown needs
  (`mw/runtime/supervisor.py:163`), although `MODEIO_PLUGIN_PROTOCOL.md:176` has the
  host enforce the budget of a hook. So does one that stops in the middle of a line:
  `select` sees its beginning, `readline` waits for its end (line 141). `CallsEnd` and
  `ShutdownEnds` hold but for these two states (`Stalled`) and no other; without the
  exception TLC finds the call, and the shutdown behind it, that never end.
* After a 409 the dashboard fetches the new inventory and keeps the draft
  (`features/plugins/controller.ts:185`). The message asks the user to review, but a
  second click on Save sends the old draft with the new generation, and undoes the
  other tab's update. `NothingIsLost` bounds what is undone so by what that inventory
  had shown the tab.
* Plugins are leased before the `try` (`mw/core/engine.py:390`), so one that cannot be
  started crashes the request under every policy (answer `"crash"`), although
  `MODEIO_PLUGIN_PROTOCOL.md:188` has it handled by `on_plugin_error`.
* An edit of a `tool_result` is written to `text` while the codec and the provider read
  `content`, and an edit of an item with `input` to `content`
  (`mw/core/payload_codec.py:985`, `SetsAside`): it is accepted and never reaches the
  provider, although `README.md:18` says it is denormalized. This holds of redact's
  edits too: it finds the secret of a `tool_result`, its rewrite is accepted, and the
  provider is sent `content` with the secret. `Shielded` says both.
* Any edit rebuilds the whole body: arguments that are no JSON, calls without a name
  and structured outputs come out rewritten (`IsExact`). A string among the items of a
  Responses request makes every edit of it fail. Contexts come out in the opposite
  order, and are dropped in responses and events.
* redact works on the body that arrived and so sets back what plugins before it
  edited. It does not look into arguments of calls, Anthropic's system prompt, or
  tokens cut in two by events.
* OpenClaw: a kill in the middle of a change of the port leaves the two files at
  different ports, and `disable` then restores one and removes the metadata both need
  (`forgotten`, `left`). Two kills do so in a way that is harder to see: the first
  between the two files of a detach, the second between configuration and metadata of an
  attach at another port. The entry then tells the old port, to which the next attach of
  any provider routes the cache, so that the files differ although no command was killed
  between them. The proof of `GivesBack` found this: as it was first stated, with the
  files compared to each other and not to the entry, it held with one kill and failed
  with two. Whether `enable` had created a provider is forgotten by the next attach, so
  the provider stays, without a URL (`mw/core/provider_policy.py:495`).
* OpenCode's route is that of its active provider, also for a request that names another
  one, whose credential then goes to the active provider's URL
  (`mw/core/provider_policy.py:282`); OpenClaw's request without a kept URL goes to the
  configured one (`mw/core/upstream_client.py:299`). `CredentialIsOwn` names these two
  cases, and shows that the credential goes to no third URL. A stalled answer of the
  token server raises a timeout nobody catches. The loser of two renewals goes on with
  the token that has expired. A kill after the refresh token was used up and before the
  new one is written ends the session.
* A stream whose first chunk is never taken runs no `finally`: leases, upstream
  connection and trace stay (stage `"dropped"` of RequestPipeline, `live =
  "dropped"` of Journal). A request refused before its trace is finished counts
  as in flight for ever.
* Records are numbered and appended in two critical sections, so the deque may be
  out of order; a walk that meets it so may skip or repeat (`reader.ordered`).
* A user who edits while an inventory is under way may send an old draft with a
  new generation (`hasty`).
* After a call has timed out, every later call of the runtime finds the answer of
  the one before.
* Attach of Claude Code removes no hook (`setup_lib/claude.py:55-97`): after a change
  of the port, or a failed `enable` at another one, the hook of the other port stays,
  and `disable` removes only that of the recorded one. `FilesFollowRecord` admits such
  leftovers (`outdated`) and no other hook.
* OpenClaw: `disable` is given the recorded port (`controller_service.py:465`) and skips
  a provider routed to another (`openclaw_routes.py:113-119`). One that was attached at
  an earlier port, and was not the selected one when OpenClaw was attached at the new
  port, stays at a gateway that is gone. Its entry stays as well: a detach at that port
  would give it back, which is what `GivesBack` asks.
* A base URL on localhost is taken for the gateway's own: OpenCode's requests go to the
  provider's default in its place, or are refused where there is none. Those for Codex
  with a credential of their own go to Codex' URL whatever the user gave
  (`mw/core/provider_auth.py:476-486`).
* A provider that is deselected while it is routed
  stays routed. A kill before `controller.pid` is written leaves a gateway that
  no later command finds.

## 5. Proofs

Checked by TLAPS for every value of the constants that satisfies the named
assumption of the module (finite sets where cardinalities are used, positive
sizes, model values distinct). Each module proves an inductive invariant `IInv` (one
lemma per conjunct, in it one step per action), from which the properties follow;
TLC checked each `IInv` on the instance of the run before it was proved.

* **RuntimePoolProofs.** `IInv` is types, `Bookkeeping`, `ExclusiveLeases`, `PoolBound`
  and `RetiredOnce`. None of the last three is inductive alone: that an idle entry is
  held by nobody needs `in_use` to equal the number of holders, and that needs every
  held runtime to be in the table until shutdown (`Bookkeeping`). `NoLostWakeup` follows
  with a second induction: what could end a wait also empties `waiting`, and a full pool
  stays full otherwise. `LiveProcessOwned` takes a third: a process that runs and whose
  constructor did not raise is in the table or in the hands of a caller of `shutdown()`
  until it is told to stop. `RuntimesAreLeased` is the refinement of LeaseTable: each
  step is a lease, a release, a retirement, the stop, or nothing to it; `Bookkeeping`
  gives that what a prune or a release retires is held by nobody.
* **EngineSwapProofs.** `CountsExact` (each count is the cardinality of the set of
  borrowers) and `EnginesAccounted` (each generation is current, retired with
  users, about to be shut down by exactly one, or shut down) support one another:
  release finds an engine to shut down by its count. `EnginesAreLeased` is the same
  refinement with shared leases: a count that falls to 0 empties the set of holders.
* **DashboardProofs** holds the theorems about the two pages of the dashboard, which
  share no variable. ProfileUpdates: until a restart, and with users who wait, every
  inventory with the current generation has the current section, and every request
  with it contains that section but for what its tab was shown after a conflict
  (`InStep`): so what is accepted undoes nothing else.
  `EngineRunsFile` holds through failures and restarts. Journal (names with J):
  `WalkGoesOn` says what a walk half-way has got and has yet to get of what was
  recorded when it began; appending in order and evicting at the end keep it.
* **StdioSupervisorProofs.** Ids are unique among what is in the pipes
  (`Identified`), so an answer with the id of a call is its own, for any plugin.
  That calls stay in step before a timeout counts what is under way: with a
  plugin that writes one line per request there is never more than one message.
* **RequestProofs** has two parts with no variable in common. RequestPipeline: one
  conjunct per question (`HookRuns`, `Records`, `Stops`, `Causes`) ties what is true of
  the data to the stage the request has reached; the five safety properties follow.
  PayloadEdits (names with P), for bodies and texts of any length, any list of
  operations and any order of plugins:
  - `IsEdition` says what edits may have made of the timeline that arrived: its units
    are there with their kinds, those the audit does not list are unchanged, contexts
    are -1, ..., -n without a gap, one for each in the audit. `OperatedIs` and `StepIs`
    prove it of one operation, `ListIs` of every prefix of a list.
  - `BodyInv`: the body is what arrived, or the payload denormalized. With `SetSlotIs`,
    that a unit is read again from the slot it was written to and that an unchanged one
    leaves an exact slot alone, it gives `EditsAreSent`, `InstructionsKept` and
    `UntouchedKept`: all three speak of the body, edits of the timeline.
  - `EditedInv`: an accepted edit is in the audit and in the timeline. Later edits may
    add to it or replace it by another editor's; only redact takes it out.
  - `TokenInv`: every token, wherever it is, has an entry by which it is restored. It
    must speak of the body and of what was sent, since the answer repeats from there.
  - `SourceInv`: the secrets redact can still find in the timeline, and the tokens, are
    those of the body that arrived. redact works on that body, so it would miss others,
    and answers nothing at all when it finds none.
  - `RedactInv`: what its turn left in the texts it writes; with `BodyInv` it gives
    `Shielded` and `Restored` (`CarriedIs`: what is written of a unit is its text, in
    its slot or in the field beside), with `SourceInv` and `TokenInv` it is established.

  What holds of each prefix of a list is an induction over the list, done in first-order
  logic: the sets `1..i` are well-founded by inclusion, so a least prefix for which it
  failed would have one before it (`Induction`), and the recursive function `Progress` is
  shown to exist in the same way (`ProgressIs`).
* **ControllerProofs.** What a command has still to do is in its jobs, so the proof
  speaks of them as sets: `CommandInv` says which jobs a command can have at each place,
  and that what it changed is exactly what a rollback would undo. `UrlInv` has, for each
  provider, what the metadata, the write under way and the backups know of the user's
  URL, and gives `KeepsUsersUrl` and `UrlNotLost`; `GatewayInv` follows each process
  from its start to the record of it, and gives `GatewaysRecorded`; `FilesInv` says,
  between two jobs, which harness is at the old URL, which at the new one and which is
  detached, and, with `FreshInv` for the hooks of Claude Code that are no leftovers,
  gives `FilesFollowRecord` when no job is left. The rollback needs the first to know
  what it goes back to.
* **OpenClawProofs.** `RouteInv` ties the two files to the entry of the metadata: the
  configuration of a provider is routed to the port its entry tells and has its API,
  and the cache, if it is routed, too. It is needed for everything else: that detach,
  which decides by the configuration alone which entries to remove, never removes one
  the cache still needs (`DetachInv`), and that a new entry has the family of the old
  one, under which the cache was patched (`GiveInv`). `GiveInv` says that an entry,
  whether in the metadata or about to be written, tells what the user had, and gives
  `GivesBack`; `DisabledInv` and `EnabledInv` give `FilesFollowRecord`; `GhostInv` is
  about the exceptions. `UrlNotLost` is proved from the backups alone (`BackedUp`).
* **UpstreamProofs.** The lemmas about Credentials say what a route consists of, from
  the first value that is there of a list of any length (`FirstOf`: that there is a
  first one is the well-foundedness of inclusion on the finite sets `1..i`). `SessionInv`
  says that of the accepted tokens only the user's is in the store or in hand, and none
  once it is spent: so one request at most writes, and what it writes is the session;
  `SessionKept` follows. `FilesInv` says of the files as they will be when the command
  under way has ended that each provider has the URL the user gave it, or is attached
  with that kept; `ReadInv`, that a request which was not hasty has read the two files
  of one such moment, although it reads them in two steps and the user selects models
  in between: `RouteIsUsers` follows from both, and `CredentialIsOwn` with `OwnInv`, that
  no URL gets to the entry of another provider; its two cases are read off the route
  functions. Assumed of the files before the first
  request: nothing is attached, Codex' token is that of the first login, and a URL
  belongs to the provider it is configured for (a proxy that serves two providers is
  two values).

The theorems also give what no run repeats: types of all states of the ten modules,
`NoRetireWhileLeased`, `CountsExact` and `NoShutdownWhileLeased`, `IndexMatches`,
`InStepUntilTimeout` and `ShutdownKills`.

Every invariant and every action property that a run checks is proved. Checked by TLC
only: liveness (`EveryRequestEnds`, `ShutdownReachesAll`, `OldEnginesClose`, `CallsEnd`,
`ShutdownEnds`, `RequestEnds`, `PageFollows`, `RequestsEnd`). Liveness under fairness,
ENABLED and RECURSIVE operators are out of the prover's reach, and so are the library's
induction theorems, which take an operator as a parameter; the modules declare no
RECURSIVE operator. What a recursive function computes is proved only where a property
needs it: for the lists of operations above and for `FirstOf`.

## 6. Not modelled

* Threads that are interrupted by signals; the memory model below a lock.
* In RequestPipeline: payloads, headers, the provider's protocol. `can_block` is
  true of both connectors and therefore not a variable.
* In the journal: updates of a trace in flight, diffs, statistics.
* In the controller and OpenClaw: two commands at once (nothing locks the files), a pid
  that is used again while `controller.pid` names it, a kill inside `write_json_file`,
  two backups in one second, `force_remove`, path overrides; a user who edits
  while a command runs. Codex is attached by a command the user runs. `models.mode` of
  OpenClaw's configuration, which attach sets to `merge` and nothing restores.
* In Upstream and Credentials: headers, suffixes of URLs, the rewriting of payloads and
  models for Codex, OpenCode's state file, the renewal of OpenClaw's Codex tokens, which
  cannot be reached since such a route is refused before, and the health store, which
  nothing reads.
* In PayloadCodec and RedactPlugin: Claude Code's hooks, whose connector refuses patches;
  lists with members that are no objects; `replace_observation` with attributes only,
  which never reaches a body; patterns and the spelling of placeholders.
* In the traffic page: an error of the live connection closes it for good, and
  what is recorded between the first list and the subscription is shown only
  with the next trace; `PageFollows` leaves both out.
* The parts PROJECT.json lists as `not_modelled`, with their reasons.

## 7. Plan

Done, in this order: RuntimePool, EngineSwap, LeaseTable, ProfileUpdates,
StdioSupervisor, RequestPipeline, Journal, TrafficPage, Controller; Credentials,
Upstream, OpenClaw, PayloadCodec, RedactPlugin and PayloadEdits; then the proofs of
section 5, the refinements of LeaseTable, Controller, OpenClaw and Upstream, and
PayloadEdits last.

Next, most important first:

1. RequestPipeline: that the leases it holds are those RuntimePool gives out, by one
   more refinement of LeaseTable.
2. The parts not modelled yet that keep state of their own: the configuration resolver
   and the parser of server-sent events.
