-------------------------- MODULE RequestPipeline --------------------------
(***************************************************************************)
(* One request through an engine (core/engine.py): the plugins of its      *)
(* profile are leased, hooks run before and after the upstream call or, on *)
(* a stream, at its start, at every event and at its end, the client gets  *)
(* its answer and the request journal a record.                            *)
(*                                                                         *)
(* A body is known by the plugins whose edits it carries.  The request's   *)
(* thread is the only one to touch this state; what is concurrent is the   *)
(* client, who may disconnect, the upstream, which may fail, and whatever  *)
(* makes a plugin fail.                                                    *)
(***************************************************************************)
EXTENDS Naturals, Sequences

CONSTANTS
  N,         \* plugins of the profile, numbered in their order
  Hooks,     \* the hooks each plugin supports
  MaxEvents  \* bound on the chunks that a stream has before it must end

Plugin == 1 .. N

StreamHook == {"post_stream_start", "post_stream_event", "post_stream_end"}

Hook == {"pre_request", "post_response"} \union StreamHook

ASSUME RequestPipelineAssumption ==
  /\ N \in Nat
  /\ Hooks \in [Plugin -> SUBSET Hook]
  /\ MaxEvents \in Nat

\* Provider requests, and the two events of the Claude hook connector.
Kind == {"json", "stream", "prompt", "stop"}

Policy == {"fail_open", "warn", "fail_safe"}

VARIABLES
  \* what the request asks for and its profile grants
  kind, policy,
  mode,        \* of each plugin
  grants,      \* what each plugin may do: "patch", "block"
  \* the request's thread
  stage,
  hook,        \* the hook that runs, or ran last
  todo,        \* plugins it has yet to invoke
  leases,      \* active_plugins: the plugins whose runtime is leased
  blocked,     \* result.blocked
  edits,       \* result.body
  after,       \* where a yielding stream goes on
  connection,  \* to the upstream of a stream: "none", "open" or "closed"
  answer,      \* what the client got
  chunks,      \* of the stream
  \* the request journal
  trace,       \* "none", "open" (in flight) or "closed"
  flag,        \* trace.blocked or trace.stream_blocked
  status,      \* of the record
  \* history
  effect,      \* what each plugin came to in this run of the hook
  failed,      \* a plugin has failed in a hook
  unavailable  \* a plugin's runtime could not be had

setup == << kind, policy, mode, grants >>

stream == << after, connection, chunks >>

journal == << trace, flag, status >>

vars == << kind, policy, mode, grants, stage, hook, todo, leases, blocked, edits,
           after, connection, answer, chunks, trace, flag, status, effect, failed,
           unavailable >>

Init ==
  /\ kind \in Kind
  /\ policy \in Policy
  /\ mode \in [Plugin -> {"observe", "assist", "enforce"}]
  /\ grants \in [Plugin -> SUBSET {"patch", "block"}]
  /\ stage = "received"
  /\ hook = "pre_request"
  /\ todo = {}
  /\ leases = {}
  /\ blocked = FALSE
  /\ edits = {}
  /\ after = "closing"
  /\ connection = "none"
  /\ answer = "none"
  /\ chunks = << >>
  /\ trace = "none"
  /\ flag = FALSE
  /\ status = "none"
  /\ effect = [p \in Plugin |-> "none"]
  /\ failed = FALSE
  /\ unavailable = FALSE

-----------------------------------------------------------------------------
(* The start. *)

\* The request is malformed, before it has a trace.
Reject ==
  /\ stage = "received"
  /\ answer' = "invalid"
  /\ stage' = "over"
  /\ UNCHANGED << setup, hook, todo, leases, blocked, edits, stream, journal, effect,
                  failed, unavailable >>

\* parse_http_request and _journal_start.
Parse ==
  /\ stage = "received"
  /\ trace' = "open"
  /\ todo' = Plugin
  /\ stage' = "resolving"
  /\ UNCHANGED << setup, hook, leases, blocked, edits, stream, answer, flag, status,
                  effect, failed, unavailable >>

IsFirst(p) == \A q \in todo : p <= q

IsLast(p) == \A q \in todo : q <= p

\* The next plugin is enabled and its runtime leased, or it is not enabled.
Resolve ==
  /\ stage = "resolving"
  /\ \E p \in todo :
       /\ IsFirst(p)
       /\ leases' \in {leases, leases \union {p}}
       /\ todo' = todo \ {p}
  /\ UNCHANGED << setup, stage, hook, blocked, edits, stream, answer, journal, effect,
                  failed, unavailable >>

\* Mutant of AfterFailedStart: what was leased before stays leased.
AfterFailedStartKept == leases

AfterFailedStart == {}

\* _start_invocation raises, outside the engine's try: a MiddlewareError for a
\* profile or override it does not accept, which the transport answers, ...  The
\* trace stays open: the request counts as in flight from then on.
Misconfigured ==
  /\ stage = "resolving"
  /\ leases' = AfterFailedStart
  /\ answer' = "invalid"
  /\ stage' = "over"
  /\ UNCHANGED << setup, hook, todo, blocked, edits, stream, journal, effect,
                  failed, unavailable >>

\* ... or what the runtime manager raises, which nothing handles.
Unavailable ==
  /\ stage = "resolving" /\ todo # {}
  /\ leases' = AfterFailedStart
  /\ answer' = "crash"
  /\ unavailable' = TRUE
  /\ stage' = "over"
  /\ UNCHANGED << setup, hook, todo, blocked, edits, stream, journal, effect, failed >>

-----------------------------------------------------------------------------
(* A run of a hook. *)

Supporting(h) == {p \in leases : h \in Hooks[p]}

StartHook(h) ==
  /\ stage' = "hooks"
  /\ hook' = h
  /\ todo' = Supporting(h)
  /\ blocked' = FALSE
  /\ edits' = {}
  /\ effect' = [p \in Plugin |-> "none"]

\* A Claude "stop" has its response with it.
Begin ==
  /\ stage = "resolving" /\ todo = {}
  /\ StartHook(IF kind = "stop" THEN "post_response" ELSE "pre_request")
  /\ UNCHANGED << setup, leases, stream, answer, journal, failed, unavailable >>

\* The plugin that is invoked next.
Turn(p) == IF hook = "pre_request" THEN IsFirst(p) ELSE IsLast(p)

\* Both connectors can block; the Claude hooks cannot patch.

MayPatch(p) ==
  /\ "patch" \in grants[p]
  /\ kind \in {"json", "stream"}
  /\ mode[p] # "observe"

MayBlock(p) == "block" \in grants[p] /\ mode[p] = "enforce"

\* _apply_action_controls: what is not granted is downgraded.
Effective(p, action) ==
  IF \/ action = "modify" /\ ~MayPatch(p)
     \/ action = "block" /\ ~MayBlock(p)
  THEN "warn" ELSE action

\* Mutant of Remaining: the plugin stays in the loop.
RemainingSame(p) == todo

Remaining(p) == todo \ {p}

\* Mutant of Edited: what the plugin may do is not asked.
EditedAnyway(p, action) == IF action = "modify" THEN {edits, edits \union {p}} ELSE {edits}

\* A rewrite that cannot be applied leaves the body as it is.  The hooks at the
\* start and the end of a stream have no body.
Edited(p, action) ==
  IF Effective(p, action) = "modify" /\ hook \notin {"post_stream_start", "post_stream_end"}
  THEN {edits, edits \union {p}} ELSE {edits}

Running == stage = "hooks" /\ ~blocked

RunHook ==
  /\ Running
  /\ \E p \in todo, action \in {"allow", "warn", "modify", "block"} :
       /\ Turn(p)
       /\ effect' = [effect EXCEPT ![p] = Effective(p, action)]
       /\ edits' \in Edited(p, action)
       /\ blocked' = (Effective(p, action) = "block")
       /\ todo' = Remaining(p)
  /\ UNCHANGED << setup, stage, hook, leases, stream, answer, journal, failed,
                  unavailable >>

\* Mutant of FailureBlocks: only a warning under every policy.
FailureBlocksNever == FALSE

FailureBlocks == policy = "fail_safe"

\* The hook raises, times out or returns what cannot be understood.
FailHook ==
  /\ Running
  /\ \E p \in todo :
       /\ Turn(p)
       /\ effect' = [effect EXCEPT ![p] = "error"]
       /\ todo' = Remaining(p)
  /\ blocked' = FailureBlocks
  /\ failed' = TRUE
  /\ UNCHANGED << setup, stage, hook, leases, edits, stream, answer, journal,
                  unavailable >>

Done(h) == stage = "hooks" /\ hook = h /\ (todo = {} \/ blocked)

-----------------------------------------------------------------------------
(* What becomes of the request after a hook. *)

\* Mutant of Outcome: a block in the trace is not looked at.
OutcomeByError(f, error) == IF error THEN "error" ELSE "completed"

\* _finalize_record.
Outcome(f, error) == IF f THEN "blocked" ELSE IF error THEN "error" ELSE "completed"

\* The answer, the record and, in the finally, the leases.
Finish(a, error) ==
  /\ answer' = a
  /\ trace' = "closed"
  /\ flag' = (flag \/ blocked)
  /\ status' = Outcome(flag \/ blocked, error)
  /\ leases' = {}
  /\ stage' = "over"

AfterPre ==
  /\ Done("pre_request")
  /\ IF blocked \/ kind = "prompt"
     THEN /\ Finish(IF blocked THEN "blocked" ELSE "ok", blocked /\ kind # "prompt")
     ELSE /\ stage' = "upstream"
          /\ UNCHANGED << leases, answer, journal >>
  /\ UNCHANGED << setup, hook, todo, blocked, edits, stream, effect, failed, unavailable >>

\* The upstream answers.
UpstreamAnswers ==
  /\ stage = "upstream"
  /\ StartHook(IF kind = "stream" THEN "post_stream_start" ELSE "post_response")
  /\ connection' = IF kind = "stream" THEN "open" ELSE connection
  /\ UNCHANGED << setup, leases, after, answer, chunks, journal, failed, unavailable >>

\* It does not, or the answer cannot be normalised.
UpstreamFails ==
  /\ stage = "upstream"
  /\ Finish("failed", TRUE)
  /\ UNCHANGED << setup, hook, todo, blocked, edits, stream, effect, failed, unavailable >>

AfterPost ==
  /\ Done("post_response")
  /\ Finish(IF blocked THEN "blocked" ELSE "ok", blocked /\ kind # "stop")
  /\ UNCHANGED << setup, hook, todo, blocked, edits, stream, effect, failed, unavailable >>

\* The stream is refused and closed, or goes back to the transport.
AfterStreamStart ==
  /\ Done("post_stream_start")
  /\ IF blocked
     THEN Finish("blocked", TRUE) /\ connection' = "closed"
     ELSE /\ answer' = "stream"
          /\ stage' = "returned"
          /\ UNCHANGED << leases, journal, connection >>
  /\ UNCHANGED << setup, hook, todo, blocked, edits, after, chunks, effect, failed,
                  unavailable >>

-----------------------------------------------------------------------------
(* The stream: iter_transformed_sse_stream. *)

\* The transport takes the first chunk; if the client is gone before that, the
\* generator is dropped and no part of it ever runs.
StartStream ==
  /\ stage = "returned"
  /\ stage' \in {"relaying", "dropped"}
  /\ UNCHANGED << setup, hook, todo, leases, blocked, edits, stream, answer, journal,
                  effect, failed, unavailable >>

\* Yield chunks, then go on at s.
Yield(c, s) ==
  /\ chunks' = chunks \o c
  /\ after' = s
  /\ stage' = "yielding"

\* An event without data goes to the client as it is.
Comment ==
  /\ stage = "relaying"
  /\ Len(chunks) < MaxEvents
  /\ Yield(<< "comment" >>, "relaying")
  /\ UNCHANGED << setup, hook, todo, leases, blocked, edits, connection, answer, journal,
                  effect, failed, unavailable >>

\* Any other event goes to the hooks; "done" is the last.
Event ==
  /\ stage = "relaying"
  /\ \E last \in BOOLEAN :
       /\ Len(chunks) >= MaxEvents => last
       /\ after' = IF last THEN "post_stream_end" ELSE "relaying"
  /\ StartHook("post_stream_event")
  /\ UNCHANGED << setup, leases, connection, answer, chunks, journal, failed, unavailable >>

\* The upstream has no more.
EventsEnd ==
  /\ stage = "relaying"
  /\ StartHook("post_stream_end")
  /\ UNCHANGED << setup, leases, stream, answer, journal, failed, unavailable >>

\* It breaks off, or an event cannot be normalised.
Break ==
  /\ stage = "relaying"
  /\ stage' = "closing"
  /\ UNCHANGED << setup, hook, todo, leases, blocked, edits, stream, answer, journal,
                  effect, failed, unavailable >>

\* Mutant of AfterBlock: the loop is not left.
AfterBlockOn == after

AfterBlock == "post_stream_end"

AfterEvent ==
  /\ Done("post_stream_event")
  /\ IF blocked
     THEN Yield(<< "error", "done" >>, AfterBlock)
     ELSE Yield(<< IF after = "relaying" THEN "event" ELSE "done" >>, after)
  /\ flag' = (flag \/ blocked)
  /\ UNCHANGED << setup, hook, todo, leases, blocked, edits, connection, answer, trace,
                  status, effect, failed, unavailable >>

AfterEnd ==
  /\ Done("post_stream_end")
  /\ IF blocked
     THEN Yield(<< "error", "done" >>, "closing")
     ELSE stage' = "closing" /\ UNCHANGED << after, chunks >>
  /\ flag' = (flag \/ blocked)
  /\ UNCHANGED << setup, hook, todo, leases, blocked, edits, connection, answer, trace,
                  status, effect, failed, unavailable >>

\* The client has taken the chunk.
Resume ==
  /\ stage = "yielding"
  /\ IF after = "post_stream_end"
     THEN StartHook("post_stream_end")
     ELSE stage' = after /\ UNCHANGED << hook, todo, blocked, edits, effect >>
  /\ UNCHANGED << setup, leases, stream, answer, journal, failed, unavailable >>

\* The client is gone: the generator is closed at its yield.
Disconnect ==
  /\ stage = "yielding"
  /\ stage' = "closing"
  /\ UNCHANGED << setup, hook, todo, leases, blocked, edits, stream, answer, journal,
                  effect, failed, unavailable >>

\* The finally: close, then on_finish.
Close ==
  /\ stage = "closing"
  /\ connection' = "closed"
  /\ trace' = "closed"
  /\ status' = Outcome(flag, FALSE)
  /\ leases' = {}
  /\ stage' = "over"
  /\ UNCHANGED << setup, hook, todo, blocked, edits, after, answer, chunks, flag, effect,
                  failed, unavailable >>

-----------------------------------------------------------------------------
Start == Reject \/ Parse \/ Resolve \/ Misconfigured \/ Unavailable \/ Begin

Relay == Comment \/ Event \/ EventsEnd \/ Break \/ AfterEvent \/ AfterEnd \/ Resume
           \/ Disconnect \/ Close

Next ==
  \/ Start
  \/ RunHook \/ FailHook
  \/ AfterPre \/ UpstreamAnswers \/ UpstreamFails \/ AfterPost
  \/ AfterStreamStart \/ StartStream \/ Relay

Spec == Init /\ [][Next]_vars

\* The thread runs on; upstream calls end by their timeout.
FairSpec == Spec /\ WF_vars(Next)

-----------------------------------------------------------------------------
(* Properties. *)

Effect == {"none", "allow", "warn", "modify", "block", "error"}

TypeOK ==
  /\ kind \in Kind
  /\ policy \in Policy
  /\ mode \in [Plugin -> {"observe", "assist", "enforce"}]
  /\ grants \in [Plugin -> SUBSET {"patch", "block"}]
  /\ stage \in {"received", "resolving", "hooks", "upstream", "returned", "relaying",
                "yielding", "closing", "over", "dropped"}
  /\ hook \in Hook
  /\ todo \subseteq Plugin
  /\ leases \subseteq Plugin
  /\ blocked \in BOOLEAN
  /\ edits \subseteq Plugin
  /\ after \in {"relaying", "post_stream_end", "closing"}
  /\ connection \in {"none", "open", "closed"}
  /\ answer \in {"none", "invalid", "crash", "failed", "blocked", "ok", "stream"}
  /\ chunks \in Seq({"comment", "event", "error", "done"})
  /\ trace \in {"none", "open", "closed"}
  /\ flag \in BOOLEAN
  /\ status \in {"none", "completed", "blocked", "error"}
  /\ effect \in [Plugin -> Effect]
  /\ failed \in BOOLEAN
  /\ unavailable \in BOOLEAN

Halts(e) == e = "block" \/ (e = "error" /\ policy = "fail_safe")

\* Nothing goes upstream that a plugin has not passed: every leased plugin that
\* has the hook has run, none of them stopped the request, and the body carries
\* edits only of plugins that may edit (engine.py, lines 398-412).
UpstreamGetsVetted ==
  stage = "upstream" =>
    /\ \A p \in leases : "pre_request" \in Hooks[p] => effect[p] # "none"
    /\ \A p \in Plugin : ~Halts(effect[p])
    /\ \A p \in edits : effect[p] = "modify" /\ "patch" \in grants[p]
                              /\ mode[p] # "observe"

ErrorSent == \E i \in DOMAIN chunks : chunks[i] = "error"

\* The client was told that a plugin blocked.
ToldBlocked == answer = "blocked" \/ ErrorSent

MayBlockSome == \E p \in Plugin : "block" \in grants[p] /\ mode[p] = "enforce"

\* The record of a finished request says what its client was told
\* (service.py, lines 323-405).
RecordTellsAnswer ==
  trace = "closed" =>
    /\ status = "blocked" <=> ToldBlocked
    /\ status = "error" <=> answer = "failed"
    /\ status = "completed" => answer \in {"ok", "stream"}

\* Whichever way a request ends, its plugins are given back and its upstream
\* stream is closed (engine.py, lines 489-491; stream_relay.py, lines 128-134).
CleanedUp == stage = "over" => leases = {} /\ connection # "open"

\* Once a stream was blocked no event of the upstream reaches the client.
BlockedStaysBlocked ==
  \A i, j \in DOMAIN chunks : i < j /\ chunks[i] = "error" => chunks[j] # "event"

\* Under fail_safe a plugin's failure stops the request, wherever it happens, and
\* under the other policies it never does (plugin_manager.py, lines 339-370).
FailuresFollowPolicy ==
  /\ failed /\ policy = "fail_safe" /\ stage \in {"over", "dropped"} => ToldBlocked
  /\ ToldBlocked => (failed /\ policy = "fail_safe") \/ MayBlockSome

\* Every request comes to an end, unless its stream was never begun.
RequestEnds == stage = "received" ~> stage \in {"over", "dropped"}

-----------------------------------------------------------------------------
(* The inductive invariant of the proofs. *)

\* The client has no answer yet; it has got the head of a stream.

Answering ==
  \/ stage \in {"received", "resolving", "upstream"}
  \/ stage = "hooks" /\ hook \in {"pre_request", "post_response", "post_stream_start"}

Streaming ==
  \/ stage \in {"returned", "relaying", "yielding", "closing", "dropped"}
  \/ stage = "hooks" /\ hook \in {"post_stream_event", "post_stream_end"}

\* A run of a hook: who has run and who has not, and what came of it.
HookRuns ==
  /\ stage = "hooks" =>
       /\ todo \subseteq Supporting(hook)
       /\ \A p \in Plugin : effect[p] = "none" \/ p \notin todo
       /\ \A p \in Supporting(hook) \ todo : effect[p] # "none"
       /\ \A p \in edits : effect[p] = "modify" /\ MayPatch(p)
       /\ ~blocked => \A p \in Plugin : ~Halts(effect[p])
  /\ stage \in {"received", "resolving", "upstream"} => ~blocked

\* What the journal and the client know while the request runs.
Records ==
  /\ Answering => answer = "none" /\ chunks = << >> /\ ~flag
  /\ Answering => trace = IF stage = "received" THEN "none" ELSE "open"
  /\ stage = "received" => leases = {}
  /\ Streaming => answer = "stream" /\ (flag <=> ErrorSent) /\ trace = "open"
  /\ connection = "open" => Streaming \/ (stage = "hooks" /\ hook = "post_stream_start")

\* Where a stream may be once it was blocked.
Stops ==
  ErrorSent =>
    /\ stage \notin {"returned", "relaying"}
    /\ ~(stage = "hooks" /\ hook = "post_stream_event")
    /\ ~(stage = "yielding" /\ after = "relaying")

\* Every block has a cause, and under fail_safe every failure leads to one.
Causes ==
  /\ failed /\ policy = "fail_safe" => ToldBlocked \/ (stage = "hooks" /\ blocked)
  /\ ToldBlocked \/ (stage = "hooks" /\ blocked) =>
       (failed /\ policy = "fail_safe") \/ MayBlockSome

IInv ==
  /\ TypeOK
  /\ HookRuns /\ UpstreamGetsVetted
  /\ Records /\ RecordTellsAnswer /\ CleanedUp
  /\ Stops /\ BlockedStaysBlocked
  /\ Causes
=============================================================================
