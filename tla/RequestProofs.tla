--------------------------- MODULE RequestProofs ---------------------------
(***************************************************************************)
(* Proofs about a request's way through the gateway: its control           *)
(* (RequestPipeline), for every number of plugins and hooks and streams of *)
(* any length; then its content (PayloadEdits), for bodies of any length,  *)
(* every order of plugins and every list of operations.  The two have no   *)
(* variable in common, and the second part uses nothing of the first.      *)
(***************************************************************************)
EXTENDS RequestPipeline, PayloadEdits, FiniteSetTheorems, TLAPS

Chunk == {"comment", "event", "error", "done"}

\* What a stream yields at a time.
Portion == {<< "comment" >>, << "event" >>, << "done" >>, << "error", "done" >>}

Refusal == << "error", "done" >>

\* A portion brings an error exactly if it is the refusal, and no event follows
\* an error if none is yielded after one.
LEMMA Yielded ==
  ASSUME chunks \in Seq(Chunk), NEW c \in Portion, chunks' = chunks \o c
  PROVE  /\ chunks' \in Seq(Chunk)
         /\ ErrorSent' <=> ErrorSent \/ c = Refusal
         /\ BlockedStaysBlocked /\ (ErrorSent => c # << "event" >>) => BlockedStaysBlocked'
<1>1. /\ Len(chunks) \in Nat /\ DOMAIN chunks = 1 .. Len(chunks)
      /\ c \in Seq(Chunk) /\ Len(c) \in 1 .. 2
      /\ c[1] = "error" <=> c = Refusal
      /\ c[1] = "event" <=> c = << "event" >>
      /\ Len(c) = 2 => c[2] = "done"
  BY DEF Portion, Chunk, Refusal
<1>2. /\ chunks' \in Seq(Chunk)
      /\ DOMAIN chunks' = 1 .. Len(chunks) + Len(c)
      /\ \A i \in 1 .. Len(chunks) : chunks'[i] = chunks[i]
      /\ \A i \in 1 .. Len(c) : chunks'[Len(chunks) + i] = c[i]
  BY <1>1
<1>3. /\ Len(chunks) + 1 \in DOMAIN chunks' /\ chunks'[Len(chunks) + 1] = c[1]
      /\ \A i \in DOMAIN chunks' :
           \/ i \in DOMAIN chunks /\ chunks'[i] = chunks[i]
           \/ i = Len(chunks) + 1
           \/ i = Len(chunks) + 2 /\ chunks'[i] = "done"
      /\ \A i \in DOMAIN chunks : i \in DOMAIN chunks' /\ chunks'[i] = chunks[i]
  <2>1. Len(chunks) + 1 \in DOMAIN chunks' /\ chunks'[Len(chunks) + 1] = c[1]
    BY <1>1, <1>2
  <2>2. \A i \in DOMAIN chunks : i \in DOMAIN chunks' /\ chunks'[i] = chunks[i]
    BY <1>1, <1>2
  <2>3. CASE Len(c) = 1
    BY <1>1, <1>2, <2>1, <2>2, <2>3
  <2>4. CASE Len(c) = 2
    <3>1. chunks'[Len(chunks) + 2] = "done"
      BY <1>1, <1>2, <2>4
    <3>2. \A i \in DOMAIN chunks' :
            i \in DOMAIN chunks \/ i = Len(chunks) + 1 \/ i = Len(chunks) + 2
      BY <1>1, <1>2, <2>4
    <3> QED
      BY <2>1, <2>2, <3>1, <3>2
  <2> QED
    BY <1>1, <2>3, <2>4
<1>4. ErrorSent' <=> ErrorSent \/ c = Refusal
  <2>1. ErrorSent => ErrorSent'
    BY <1>3 DEF ErrorSent
  <2>2. c = Refusal => ErrorSent'
    BY <1>1, <1>3 DEF ErrorSent
  <2>3. ErrorSent' => ErrorSent \/ c = Refusal
    BY <1>1, <1>3 DEF ErrorSent
  <2> QED
    BY <2>1, <2>2, <2>3
<1>5. ASSUME BlockedStaysBlocked, ErrorSent => c # << "event" >>
      PROVE  BlockedStaysBlocked'
  <2> SUFFICES ASSUME NEW i \in DOMAIN chunks', NEW j \in DOMAIN chunks', i < j,
                      chunks'[i] = "error", chunks'[j] = "event"
               PROVE  FALSE
    BY DEF BlockedStaysBlocked
  <2>1. i \in Nat /\ j \in Nat
    BY <1>1, <1>2
  <2>2. CASE j \in DOMAIN chunks
    <3>1. i \in DOMAIN chunks
      BY <1>1, <2>1, <2>2
    <3> QED
      BY <1>3, <1>5, <2>2, <3>1 DEF BlockedStaysBlocked
  <2>3. CASE j \notin DOMAIN chunks
    <3>1. j = Len(chunks) + 1 /\ c = << "event" >>
      BY <1>1, <1>3, <2>3
    <3>2. i \in DOMAIN chunks
      BY <1>1, <1>3, <2>1, <3>1
    <3> QED
      BY <1>3, <1>5, <3>1, <3>2 DEF ErrorSent
  <2> QED
    BY <2>2, <2>3
<1> QED
  BY <1>2, <1>4, <1>5

-----------------------------------------------------------------------------
(* Types. *)

\* A request begins with values of their types.
LEMMA TypeInit == Init => TypeOK
<1> SUFFICES ASSUME Init PROVE TypeOK
  OBVIOUS
<1>1. blocked \in BOOLEAN /\ flag \in BOOLEAN /\ failed \in BOOLEAN /\ unavailable \in BOOLEAN
  BY DEF Init
<1>2. chunks \in Seq(Chunk)
  BY DEF Init
<1> QED
  BY <1>1, <1>2 DEF Init, TypeOK, Effect, Hook, StreamHook, Chunk

\* The hook that starts is a hook, and only plugins of the request run it.
LEMMA HookType ==
  ASSUME TypeOK
  PROVE  \A h \in Hook : StartHook(h) =>
           /\ stage' = "hooks" /\ hook' = h /\ todo' \subseteq Plugin /\ blocked' = FALSE
           /\ edits' = {} /\ effect' \in [Plugin -> Effect]
BY DEF StartHook, Supporting, TypeOK, Effect

\* No step leaves the types.
LEMMA TypeStep ==
  ASSUME TypeOK, [Next]_vars
  PROVE  TypeOK'
<1> USE DEF setup, stream, journal, TypeOK
<1>0. /\ \A h \in {"pre_request", "post_response", "post_stream_start", "post_stream_event",
                   "post_stream_end"} : h \in Hook
  BY DEF Hook, StreamHook
<1>1. CASE Start
  <2>1. CASE Reject \/ Parse \/ Misconfigured \/ Unavailable
    <3>1. /\ todo' \subseteq Plugin /\ leases' \subseteq Plugin
          /\ stage' \in {"resolving", "over"} /\ answer' \in {"none", answer, "invalid", "crash"}
          /\ trace' \in {trace, "open"} /\ unavailable' \in BOOLEAN
      BY <2>1 DEF Reject, Parse, Misconfigured, Unavailable, AfterFailedStart
    <3>2. UNCHANGED << kind, policy, mode, grants, hook, blocked, edits, after, connection,
                       chunks, flag, status, effect, failed >>
      BY <2>1 DEF Reject, Parse, Misconfigured, Unavailable
    <3> QED
      BY <3>1, <3>2
  <2>2. CASE Resolve
    BY <2>2 DEF Resolve
  <2>3. CASE Begin
    <3>1. PICK h \in Hook : StartHook(h)
      BY <1>0, <2>3 DEF Begin
    <3>2. UNCHANGED << kind, policy, mode, grants, leases, after, connection, answer, chunks,
                       trace, flag, status, failed, unavailable >>
      BY <2>3 DEF Begin
    <3>3. /\ stage' = "hooks" /\ hook' = h /\ todo' \subseteq Plugin /\ blocked' = FALSE
          /\ edits' = {} /\ effect' \in [Plugin -> Effect]
      BY <3>1, HookType
    <3>4. blocked' \in BOOLEAN /\ flag' \in BOOLEAN /\ failed' \in BOOLEAN /\ unavailable' \in BOOLEAN
      BY <3>2, <3>3
    <3> QED
      BY <3>2, <3>3, <3>4
  <2> QED
    BY <1>1, <2>1, <2>2, <2>3 DEF Start
<1>2. CASE RunHook
  <2>1. PICK p \in todo, action \in {"allow", "warn", "modify", "block"} :
          /\ effect' = [effect EXCEPT ![p] = Effective(p, action)]
          /\ edits' \in Edited(p, action)
          /\ blocked' = (Effective(p, action) = "block")
          /\ todo' = Remaining(p)
    BY <1>2 DEF RunHook
  <2>2. /\ Effective(p, action) \in Effect
        /\ edits' \subseteq Plugin /\ todo' \subseteq Plugin
    BY <2>1 DEF Effective, Edited, Remaining, Effect
  <2>3. effect' \in [Plugin -> Effect] /\ blocked' \in BOOLEAN
    BY <2>1, <2>2
  <2> QED
    BY <1>2, <2>2, <2>3 DEF RunHook
<1>3. CASE FailHook
  <2>1. effect' \in [Plugin -> Effect] /\ todo' \subseteq Plugin
    BY <1>3 DEF FailHook, Remaining, Effect
  <2>2. blocked' \in BOOLEAN /\ failed' \in BOOLEAN
    BY <1>3 DEF FailHook, FailureBlocks
  <2> QED
    BY <1>3, <2>1, <2>2 DEF FailHook
<1>4. CASE AfterPre \/ UpstreamFails \/ AfterPost \/ AfterStreamStart
  <2>1. flag' \in BOOLEAN /\ status' \in {"none", "completed", "blocked", "error"}
    BY <1>4 DEF AfterPre, UpstreamFails, AfterPost, AfterStreamStart, Finish, Outcome
  <2> QED
    BY <1>4, <2>1 DEF AfterPre, UpstreamFails, AfterPost, AfterStreamStart, Finish
<1>5. CASE UpstreamAnswers
  <2>1. PICK h \in Hook : StartHook(h)
    BY <1>0, <1>5 DEF UpstreamAnswers
  <2> QED
    BY <1>5, <2>1, HookType DEF UpstreamAnswers
<1>6. CASE StartStream \/ Break \/ Disconnect \/ Close
  BY <1>6 DEF StartStream, Break, Disconnect, Close, Outcome
<1>7. CASE Comment
  BY <1>7, Yielded DEF Comment, Yield, Portion, Chunk
<1>8. CASE Event \/ EventsEnd \/ Resume
  <2>1. CASE Resume /\ after # "post_stream_end"
    BY <2>1 DEF Resume
  <2>2. CASE Event \/ EventsEnd \/ (Resume /\ after = "post_stream_end")
    <3>1. PICK h \in Hook : StartHook(h)
      BY <1>0, <2>2 DEF Event, EventsEnd, Resume
    <3>2. /\ after' \in {after, "relaying", "post_stream_end"}
          /\ UNCHANGED << kind, policy, mode, grants, leases, connection, answer, chunks,
                          trace, flag, status, failed, unavailable >>
      BY <2>2 DEF Event, EventsEnd, Resume
    <3>3. /\ stage' = "hooks" /\ hook' = h /\ todo' \subseteq Plugin /\ blocked' = FALSE
          /\ edits' = {} /\ effect' \in [Plugin -> Effect]
      BY <3>1, HookType
    <3>4. blocked' \in BOOLEAN /\ flag' \in BOOLEAN /\ failed' \in BOOLEAN /\ unavailable' \in BOOLEAN
      BY <3>2, <3>3
    <3> QED
      BY <3>2, <3>3, <3>4
  <2> QED
    BY <1>8, <2>1, <2>2
<1>9. CASE AfterEvent \/ AfterEnd
  <2>1. chunks' = chunks \/ \E c \in Portion : chunks' = chunks \o c
    BY <1>9 DEF AfterEvent, AfterEnd, Yield, Portion
  <2>2. chunks' \in Seq(Chunk)
    BY <2>1, Yielded DEF Chunk
  <2>3. flag' \in BOOLEAN /\ stage' \in {"yielding", "closing"}
        /\ after' \in {"relaying", "post_stream_end", "closing"}
    BY <1>9 DEF AfterEvent, AfterEnd, Yield, AfterBlock
  <2> QED
    BY <1>9, <2>2, <2>3 DEF AfterEvent, AfterEnd, Chunk
<1>10. CASE UNCHANGED vars
  BY <1>10 DEF vars
<1> QED
  BY <1>1, <1>2, <1>3, <1>4, <1>5, <1>6, <1>7, <1>8, <1>9, <1>10 DEF Next, Relay

-----------------------------------------------------------------------------
(* A run of a hook. *)

\* The steps that change neither a run of a hook nor what it is about.
Aside ==
  \/ Reject \/ Misconfigured \/ Unavailable \/ UpstreamFails \/ AfterPost \/ AfterStreamStart
  \/ StartStream \/ Comment \/ Break \/ AfterEvent \/ AfterEnd \/ Disconnect \/ Close
  \/ (Resume /\ after # "post_stream_end")

\* The steps that begin one.
Starting == Begin \/ UpstreamAnswers \/ Event \/ EventsEnd \/ (Resume /\ after = "post_stream_end")

\* The steps of a request, by what of the record and the stream they touch.
LEMMA Steps ==
  ASSUME [Next]_vars
  PROVE  \/ Aside \/ Starting \/ Parse \/ Resolve \/ RunHook \/ FailHook \/ AfterPre
         \/ UNCHANGED vars
BY DEF Next, Start, Relay, Aside, Starting

\* A hook runs at the place of the pipeline that its phase says, and only a vetted body
\* goes upstream.
LEMMA HookStep ==
  ASSUME TypeOK, TypeOK', HookRuns, UpstreamGetsVetted, [Next]_vars
  PROVE  HookRuns' /\ UpstreamGetsVetted'
<1> USE DEF setup, stream, journal
<1>1. CASE Aside
  <2>1. stage' \in {"returned", "relaying", "dropped", "yielding", "closing", "over"}
    BY <1>1 DEF Aside, Reject, Misconfigured, Unavailable, UpstreamFails, AfterPost,
         AfterStreamStart, Finish, StartStream, Comment, Yield, Break, AfterEvent, AfterEnd,
         Disconnect, Close, Resume, TypeOK
  <2> QED
    BY <2>1 DEF HookRuns, UpstreamGetsVetted
<1>2. CASE Starting
  <2>1. /\ stage' = "hooks" /\ blocked' = FALSE /\ edits' = {} /\ leases' = leases
        /\ todo' = {p \in leases : hook' \in Hooks[p]}
        /\ effect' = [p \in Plugin |-> "none"]
    BY <1>2 DEF Starting, Begin, UpstreamAnswers, Event, EventsEnd, Resume, StartHook, Supporting
  <2> QED
    BY <2>1 DEF HookRuns, UpstreamGetsVetted, Supporting, Halts, TypeOK
<1>3. CASE Parse \/ Resolve
  BY <1>3 DEF Parse, Resolve, HookRuns, UpstreamGetsVetted
<1>4. CASE RunHook
  <2>1. PICK p \in todo, action \in {"allow", "warn", "modify", "block"} :
          /\ effect' = [effect EXCEPT ![p] = Effective(p, action)]
          /\ edits' \in Edited(p, action)
          /\ blocked' = (Effective(p, action) = "block")
          /\ todo' = Remaining(p)
    BY <1>4 DEF RunHook
  <2>2. /\ stage = "hooks" /\ ~blocked /\ p \in Plugin
        /\ UNCHANGED << kind, policy, mode, grants, stage, hook, leases >>
    BY <1>4, <2>1 DEF RunHook, Running, TypeOK
  <2>3. /\ Effective(p, action) \in {"allow", "warn", "modify", "block"}
        /\ Effective(p, action) = "modify" => MayPatch(p)
    BY DEF Effective
  <2>4. \A q \in Plugin : effect'[q] = IF q = p THEN Effective(p, action) ELSE effect[q]
    BY <2>1, <2>2 DEF TypeOK
  <2>5. edits' \subseteq edits \union {p} /\ (p \in edits' => Effective(p, action) = "modify")
    BY <2>1, <2>2 DEF Edited, HookRuns
  <2>6. \A q \in edits' : effect'[q] = "modify" /\ MayPatch(q)'
    BY <2>2, <2>3, <2>4, <2>5 DEF HookRuns, MayPatch, TypeOK
  <2>7. /\ todo' = todo \ {p} /\ todo' \subseteq Supporting(hook)'
        /\ \A q \in Plugin : effect'[q] = "none" \/ q \notin todo'
        /\ \A q \in Supporting(hook)' \ todo' : effect'[q] # "none"
    BY <2>1, <2>2, <2>3, <2>4 DEF HookRuns, Remaining, Supporting, TypeOK
  <2>8. ~blocked' => \A q \in Plugin : ~Halts(effect[q])' 
    BY <2>1, <2>2, <2>3, <2>4 DEF HookRuns, Halts
  <2> QED
    BY <2>2, <2>6, <2>7, <2>8 DEF HookRuns, UpstreamGetsVetted, Halts
<1>5. CASE FailHook
  <2>1. PICK p \in todo :
          /\ effect' = [effect EXCEPT ![p] = "error"]
          /\ todo' = Remaining(p)
    BY <1>5 DEF FailHook
  <2>2. /\ stage = "hooks" /\ ~blocked /\ p \in Plugin
        /\ blocked' = (policy = "fail_safe")
        /\ UNCHANGED << kind, policy, mode, grants, stage, hook, leases, edits >>
    BY <1>5, <2>1 DEF FailHook, Running, FailureBlocks, TypeOK
  <2>3. \A q \in Plugin : effect'[q] = IF q = p THEN "error" ELSE effect[q]
    BY <2>1, <2>2 DEF TypeOK
  <2>4. \A q \in edits' : effect'[q] = "modify" /\ MayPatch(q)'
    BY <2>1, <2>2, <2>3 DEF HookRuns, MayPatch, TypeOK
  <2>5. /\ todo' = todo \ {p} /\ todo' \subseteq Supporting(hook)'
        /\ \A q \in Plugin : effect'[q] = "none" \/ q \notin todo'
        /\ \A q \in Supporting(hook)' \ todo' : effect'[q] # "none"
    BY <2>1, <2>2, <2>3 DEF HookRuns, Remaining, Supporting, TypeOK
  <2>6. ~blocked' => \A q \in Plugin : ~Halts(effect[q])'
    BY <2>2, <2>3 DEF HookRuns, Halts
  <2> QED
    BY <2>2, <2>4, <2>5, <2>6 DEF HookRuns, UpstreamGetsVetted
<1>6. CASE AfterPre
  <2>1. CASE blocked \/ kind = "prompt"
    BY <1>6, <2>1 DEF AfterPre, Finish, HookRuns, UpstreamGetsVetted
  <2>2. CASE ~blocked /\ kind # "prompt"
    <3>1. /\ stage = "hooks" /\ hook = "pre_request" /\ todo = {}
          /\ stage' = "upstream"
          /\ UNCHANGED << kind, policy, mode, grants, leases, edits, effect, blocked >>
      BY <1>6, <2>2 DEF AfterPre, Done
    <3>2. /\ \A p \in leases : "pre_request" \in Hooks[p] => effect[p] # "none"
          /\ \A p \in Plugin : ~Halts(effect[p])
          /\ \A p \in edits : effect[p] = "modify" /\ MayPatch(p)
      BY <2>2, <3>1 DEF HookRuns, Supporting
    <3> QED
      BY <2>2, <3>1, <3>2 DEF HookRuns, UpstreamGetsVetted, Halts, MayPatch
  <2> QED
    BY <2>1, <2>2
<1>7. CASE UNCHANGED vars
  BY <1>7 DEF vars, HookRuns, UpstreamGetsVetted, Supporting, MayPatch, Halts
<1> QED
  BY <1>1, <1>2, <1>3, <1>4, <1>5, <1>6, <1>7, Steps

-----------------------------------------------------------------------------
(* The record and the answer. *)

\* An empty stream has no error in it.
LEMMA NoError == chunks = << >> => ~ErrorSent
BY DEF ErrorSent

\* The steps that end a request, or refuse its stream, after a hook.
LEMMA EndStep ==
  ASSUME TypeOK, HookRuns, Records,
         AfterPre \/ UpstreamFails \/ AfterPost \/ AfterStreamStart
  PROVE  Records' /\ RecordTellsAnswer' /\ CleanedUp'
<1> USE DEF setup, stream, journal
<1>1. /\ stage # "received" /\ Answering /\ answer = "none" /\ chunks = << >> /\ ~flag
      /\ trace = "open" /\ ~ErrorSent
  BY NoError DEF AfterPre, UpstreamFails, AfterPost, AfterStreamStart, Done, Answering, Records
<1>2. chunks' = chunks /\ ~ErrorSent'
  BY <1>1 DEF AfterPre, UpstreamFails, AfterPost, AfterStreamStart, ErrorSent
<1>3. ASSUME NEW a \in {"ok", "blocked", "failed"}, NEW e \in BOOLEAN, Finish(a, e),
             a = "blocked" <=> blocked, ~blocked => (e <=> a = "failed"), connection' # "open"
      PROVE  Records' /\ RecordTellsAnswer' /\ CleanedUp'
  <2>1. /\ answer' = a /\ trace' = "closed" /\ leases' = {} /\ stage' = "over"
        /\ status' = IF blocked THEN "blocked" ELSE IF e THEN "error" ELSE "completed"
    BY <1>1, <1>3 DEF Finish, Outcome
  <2>2. Records' /\ CleanedUp'
    BY <1>3, <2>1 DEF Records, Answering, Streaming, CleanedUp
  <2>3. ToldBlocked' <=> blocked
    BY <1>2, <1>3, <2>1 DEF ToldBlocked
  <2>4. RecordTellsAnswer'
    BY <1>3, <2>1, <2>3 DEF RecordTellsAnswer
  <2> QED
    BY <2>2, <2>4
<1>4. connection # "open" \/ AfterStreamStart
  BY DEF Records, Streaming, AfterPre, UpstreamFails, AfterPost, Done
<1>5. CASE UpstreamFails
  <2>1. ~blocked /\ Finish("failed", TRUE) /\ connection' = connection
    BY <1>5 DEF UpstreamFails, HookRuns
  <2>2. connection # "open"
    BY <1>5 DEF UpstreamFails, Records, Streaming
  <2> QED
    BY <1>3, <2>1, <2>2
<1>6. CASE AfterPost
  <2>1. /\ Finish(IF blocked THEN "blocked" ELSE "ok", blocked /\ kind # "stop")
        /\ connection' = connection
    BY <1>6 DEF AfterPost
  <2>2. connection # "open"
    BY <1>6 DEF AfterPost, Done, Records, Streaming
  <2> QED
    BY <1>3, <2>1, <2>2
<1>7. CASE AfterPre
  <2>1. connection' = connection /\ connection # "open"
    BY <1>7 DEF AfterPre, Done, Records, Streaming
  <2>2. CASE blocked \/ kind = "prompt"
    <3>1. Finish(IF blocked THEN "blocked" ELSE "ok", blocked /\ kind # "prompt")
      BY <1>7, <2>2 DEF AfterPre
    <3> QED
      BY <1>3, <2>1, <3>1
  <2>3. CASE ~(blocked \/ kind = "prompt")
    <3>1. stage' = "upstream" /\ UNCHANGED << answer, trace, flag, status >>
      BY <1>7, <2>3 DEF AfterPre
    <3> QED
      BY <1>1, <1>2, <2>1, <3>1 DEF Records, Answering, Streaming, RecordTellsAnswer, CleanedUp
  <2> QED
    BY <2>2, <2>3
<1>8. CASE AfterStreamStart
  <2>1. CASE blocked
    <3>1. Finish("blocked", TRUE) /\ connection' = "closed"
      BY <1>8, <2>1 DEF AfterStreamStart
    <3> QED
      BY <1>3, <2>1, <3>1
  <2>2. CASE ~blocked
    <3>1. stage' = "returned" /\ answer' = "stream" /\ UNCHANGED << trace, flag >>
      BY <1>8, <2>2 DEF AfterStreamStart
    <3> QED
      BY <1>1, <1>2, <3>1 DEF Records, Answering, Streaming, RecordTellsAnswer, CleanedUp
  <2> QED
    BY <2>1, <2>2
<1> QED
  BY <1>5, <1>6, <1>7, <1>8

\* The journal's record keeps telling the answer, and what ended is cleaned up.
LEMMA RecordStep ==
  ASSUME TypeOK, HookRuns, Records, RecordTellsAnswer, CleanedUp, [Next]_vars
  PROVE  Records' /\ RecordTellsAnswer' /\ CleanedUp'
<1> USE DEF setup, stream, journal
<1>1. CASE AfterPre \/ UpstreamFails \/ AfterPost \/ AfterStreamStart
  BY <1>1, EndStep
<1>2. CASE Reject \/ Misconfigured \/ Unavailable
  <2>1. /\ stage \in {"received", "resolving"} /\ stage' = "over" /\ leases' = {}
        /\ UNCHANGED << trace, connection >>
    BY <1>2 DEF Reject, Misconfigured, Unavailable, AfterFailedStart, Records
  <2> QED
    BY <2>1 DEF Records, Answering, Streaming, RecordTellsAnswer, CleanedUp
<1>3. CASE Parse \/ Resolve \/ Begin \/ UpstreamAnswers
  <2>1. /\ Answering /\ Answering' /\ stage' # "received" /\ trace' = "open"
        /\ UNCHANGED << answer, chunks, flag >>
        /\ connection' = "open" => stage' = "hooks" /\ hook' = "post_stream_start"
    BY <1>3 DEF Parse, Resolve, Begin, UpstreamAnswers, StartHook, Records, Answering, Streaming
  <2> QED
    BY <2>1 DEF Records, Answering, Streaming, RecordTellsAnswer, CleanedUp
<1>4. CASE RunHook \/ FailHook \/ UNCHANGED vars
  <2>1. UNCHANGED << stage, hook, leases, connection, answer, chunks, trace, flag, status >>
    BY <1>4 DEF RunHook, FailHook, vars
  <2> QED
    BY <2>1 DEF Records, Answering, Streaming, ErrorSent, ToldBlocked, RecordTellsAnswer, CleanedUp
<1>5. CASE StartStream \/ Event \/ EventsEnd \/ Break \/ Resume \/ Disconnect
  <2>1. Streaming /\ Streaming' /\ UNCHANGED << answer, chunks, trace, flag >>
    BY <1>5 DEF StartStream, Event, EventsEnd, Break, Resume, Disconnect, StartHook, Streaming,
         TypeOK
  <2> QED
    BY <2>1 DEF Records, Answering, Streaming, ErrorSent, RecordTellsAnswer, CleanedUp
<1>6. CASE Comment \/ AfterEvent \/ AfterEnd
  <2>1. Streaming /\ stage' \in {"yielding", "closing"} /\ UNCHANGED << answer, trace >>
    BY <1>6 DEF Comment, AfterEvent, AfterEnd, Done, Yield, Streaming
  <2>2. \/ flag' = flag /\ (chunks' = chunks \/ \E c \in Portion : c # Refusal /\ chunks' = chunks \o c)
        \/ flag' = TRUE /\ chunks' = chunks \o Refusal
    BY <1>6 DEF Comment, AfterEvent, AfterEnd, Yield, Portion, Refusal, TypeOK
  <2>3. flag' <=> ErrorSent'
    <3>1. flag <=> ErrorSent
      BY <2>1 DEF Records
    <3>2. chunks' = chunks => (ErrorSent' <=> ErrorSent)
      BY DEF ErrorSent
    <3>3. \A c \in Portion : chunks' = chunks \o c => (ErrorSent' <=> ErrorSent \/ c = Refusal)
      BY Yielded DEF TypeOK, Chunk
    <3> QED
      BY <2>2, <3>1, <3>2, <3>3 DEF Portion, Refusal
  <2> QED
    BY <2>1, <2>3 DEF Records, Answering, Streaming, RecordTellsAnswer, CleanedUp
<1>7. CASE Close
  <2>1. /\ Streaming /\ stage' = "over" /\ connection' = "closed" /\ leases' = {}
        /\ trace' = "closed" /\ answer' = "stream" /\ (flag <=> ErrorSent)
        /\ status' = IF flag THEN "blocked" ELSE "completed"
        /\ ErrorSent' <=> ErrorSent
    BY <1>7 DEF Close, Streaming, Records, Outcome, ErrorSent
  <2> QED
    BY <2>1 DEF Records, Answering, Streaming, ToldBlocked, RecordTellsAnswer, CleanedUp
<1> QED
  BY <1>1, <1>2, <1>3, <1>4, <1>5, <1>6, <1>7 DEF Next, Start, Relay

-----------------------------------------------------------------------------
(* A blocked stream. *)

\* What a step does to the chunks.
LEMMA Chunks ==
  ASSUME TypeOK, [Next]_vars
  PROVE  \/ chunks' = chunks
         \/ Comment /\ chunks' = chunks \o << "comment" >>
         \/ /\ AfterEvent
            /\ \E c \in Portion : chunks' = chunks \o c /\ (c = Refusal <=> blocked)
         \/ AfterEnd /\ blocked /\ chunks' = chunks \o Refusal
<1> USE DEF setup, stream, journal
<1>1. CASE AfterEvent
  BY <1>1 DEF AfterEvent, Yield, Portion, Refusal
<1>2. CASE AfterEnd
  BY <1>2 DEF AfterEnd, Yield, Refusal
<1>3. CASE Comment
  BY <1>3 DEF Comment, Yield
<1>4. ASSUME ~AfterEvent, ~AfterEnd, ~Comment PROVE chunks' = chunks
  BY <1>4 DEF Next, Start, Relay, Reject, Parse, Resolve, Misconfigured, Unavailable, Begin,
       RunHook, FailHook, AfterPre, UpstreamAnswers, UpstreamFails, AfterPost, AfterStreamStart,
       StartStream, Event, EventsEnd, Break, Resume, Disconnect, Close, vars
<1> QED
  BY <1>1, <1>2, <1>3, <1>4

\* A stopped stream stays stopped.
LEMMA StopStep ==
  ASSUME TypeOK, Records, Stops, BlockedStaysBlocked, [Next]_vars
  PROVE  Stops' /\ BlockedStaysBlocked'
<1> USE DEF setup, stream, journal
<1>1. /\ << "comment" >> \in Portion /\ << "comment" >> # Refusal
      /\ << "comment" >> # << "event" >> /\ Refusal \in Portion /\ Refusal # << "event" >>
  BY DEF Portion, Refusal
<1>2. chunks' = chunks => (ErrorSent' <=> ErrorSent) /\ BlockedStaysBlocked'
  BY DEF ErrorSent, BlockedStaysBlocked
<1>3. \A c \in Portion : chunks' = chunks \o c =>
        /\ ErrorSent' <=> ErrorSent \/ c = Refusal
        /\ (ErrorSent => c # << "event" >>) => BlockedStaysBlocked'
  BY Yielded DEF TypeOK, Chunk
<1>4. Answering => ~ErrorSent
  BY NoError DEF Records
<1>5. CASE AfterEvent
  <2>1. ~ErrorSent /\ stage' = "yielding"
    BY <1>5 DEF AfterEvent, Done, Stops, Yield
  <2>2. blocked => after' = "post_stream_end"
    BY <1>5 DEF AfterEvent, Yield, AfterBlock
  <2>3. \E c \in Portion : chunks' = chunks \o c /\ (c = Refusal <=> blocked)
    BY <1>5 DEF AfterEvent, Yield, Portion, Refusal
  <2> QED
    BY <1>3, <2>1, <2>2, <2>3 DEF Stops
<1>6. CASE AfterEnd
  <2>1. \/ stage' = "closing"
        \/ stage' = "yielding" /\ after' = "closing"
    BY <1>6 DEF AfterEnd, Yield
  <2>2. chunks' = chunks \/ chunks' = chunks \o Refusal
    BY <1>6 DEF AfterEnd, Yield, Refusal
  <2> QED
    BY <1>1, <1>2, <1>3, <2>1, <2>2 DEF Stops
<1>7. CASE Comment
  <2>1. ~ErrorSent /\ chunks' = chunks \o << "comment" >>
    BY <1>7 DEF Comment, Stops, Yield
  <2> QED
    BY <1>1, <1>3, <2>1 DEF Stops
<1>8. ASSUME ~AfterEvent, ~AfterEnd, ~Comment PROVE Stops'
  <2>1. chunks' = chunks
    BY <1>8, Chunks
  <2>2. CASE Answering
    BY <1>2, <1>4, <2>1, <2>2 DEF Stops
  <2>3. CASE RunHook \/ FailHook \/ UNCHANGED vars
    <3>1. UNCHANGED << stage, hook, after >>
      BY <2>3 DEF RunHook, FailHook, vars
    <3> QED
      BY <1>2, <2>1, <3>1 DEF Stops
  <2>4. CASE StartStream \/ Event \/ EventsEnd \/ Break \/ Resume \/ Disconnect \/ Close
    <3>1. \/ stage' \in {"closing", "dropped", "over"}
          \/ stage' = "hooks" /\ hook' = "post_stream_end"
          \/ ~ErrorSent
      BY <2>4 DEF StartStream, Event, EventsEnd, Break, Resume, Disconnect, Close, StartHook,
           Stops, TypeOK
    <3> QED
      BY <1>2, <2>1, <3>1 DEF Stops
  <2>5. CASE Start \/ AfterPre \/ UpstreamAnswers \/ UpstreamFails \/ AfterPost \/ AfterStreamStart
    <3>1. Answering
      BY <2>5 DEF Start, Reject, Parse, Resolve, Misconfigured, Unavailable, Begin, AfterPre,
           UpstreamAnswers, UpstreamFails, AfterPost, AfterStreamStart, Done, Answering
    <3> QED
      BY <2>2, <3>1
  <2> QED
    BY <1>8, <2>3, <2>4, <2>5 DEF Next, Relay
<1> QED
  BY <1>2, <1>5, <1>6, <1>7, <1>8, Chunks

-----------------------------------------------------------------------------
(* Why requests are blocked. *)

\* Every stop has the cause that the policy gives it.
LEMMA CauseStep ==
  ASSUME TypeOK, HookRuns, Records, Causes, [Next]_vars
  PROVE  Causes'
<1> USE DEF setup, stream, journal
<1>1. UNCHANGED << policy, mode, grants >> /\ (MayBlockSome' <=> MayBlockSome)
  <2>1. UNCHANGED << policy, mode, grants >>
    BY DEF Next, Start, Relay, Reject, Parse, Resolve, Misconfigured, Unavailable, Begin,
       RunHook, FailHook, AfterPre, UpstreamAnswers, UpstreamFails, AfterPost, AfterStreamStart,
       StartStream, Comment, Event, EventsEnd, Break, AfterEvent, AfterEnd, Resume, Disconnect,
       Close, vars
  <2> QED
    BY <2>1 DEF MayBlockSome
<1>2. chunks' = chunks => (ErrorSent' <=> ErrorSent)
  BY DEF ErrorSent
<1>3. CASE RunHook
  <2>1. PICK p \in todo, action \in {"allow", "warn", "modify", "block"} :
          blocked' = (Effective(p, action) = "block")
    BY <1>3 DEF RunHook
  <2>2. /\ ~blocked /\ stage' = "hooks"
        /\ UNCHANGED << answer, chunks, failed >>
    BY <1>3 DEF RunHook, Running
  <2>3. blocked' => MayBlockSome
    BY <2>1 DEF Effective, MayBlock, MayBlockSome, TypeOK
  <2> QED
    BY <1>1, <1>2, <2>2, <2>3 DEF Causes, ToldBlocked
<1>4. CASE FailHook
  <2>1. /\ ~blocked /\ stage' = "hooks" /\ failed' /\ (blocked' <=> policy = "fail_safe")
        /\ UNCHANGED << answer, chunks >>
    BY <1>4 DEF FailHook, Running, FailureBlocks
  <2> QED
    BY <1>1, <1>2, <2>1 DEF Causes, ToldBlocked
<1>5. CASE Start \/ UpstreamAnswers \/ StartStream \/ Event \/ EventsEnd \/ Break \/ Resume
             \/ Disconnect \/ Close
  <2>1. /\ stage # "hooks" /\ (stage' = "hooks" => ~blocked')
        /\ chunks' = chunks /\ failed' = failed
    BY <1>5 DEF Start, Reject, Parse, Resolve, Misconfigured, Unavailable, Begin,
         UpstreamAnswers, StartStream, Event, EventsEnd, Break, Resume, Disconnect, Close, StartHook,
         TypeOK
  <2>2. answer' = "blocked" <=> answer = "blocked"
    BY <1>5 DEF Start, Reject, Parse, Resolve, Misconfigured, Unavailable, Begin,
         UpstreamAnswers, StartStream, Event, EventsEnd, Break, Resume, Disconnect, Close,
         Records, Answering
  <2> QED
    BY <1>1, <1>2, <2>1, <2>2 DEF Causes, ToldBlocked
<1>6. CASE AfterPre \/ UpstreamFails \/ AfterPost \/ AfterStreamStart
  <2>1. Answering /\ ~ToldBlocked
    BY <1>6, NoError DEF AfterPre, UpstreamFails, AfterPost, AfterStreamStart, Done, Answering,
         Records, ToldBlocked
  <2>2. /\ stage' # "hooks" /\ chunks' = chunks /\ failed' = failed
        /\ answer' = "blocked" <=> stage = "hooks" /\ blocked
    BY <1>6, <2>1 DEF AfterPre, UpstreamFails, AfterPost, AfterStreamStart, Done, Finish, Records
  <2> QED
    BY <1>1, <1>2, <2>1, <2>2 DEF Causes, ToldBlocked
<1>7. CASE Comment \/ AfterEvent \/ AfterEnd
  <2>1. /\ stage' # "hooks" /\ UNCHANGED << answer, failed >>
        /\ stage = "hooks" <=> ~Comment
    BY <1>7 DEF Comment, AfterEvent, AfterEnd, Done, Yield
  <2>2. ErrorSent' <=> ErrorSent \/ (stage = "hooks" /\ blocked)
    <3>1. \A c \in Portion : chunks' = chunks \o c => (ErrorSent' <=> ErrorSent \/ c = Refusal)
      BY Yielded DEF TypeOK, Chunk
    <3>2. CASE Comment
      BY <2>1, <3>1, <3>2 DEF Comment, Yield, Portion, Refusal
    <3>3. CASE AfterEvent
      <4>1. \E c \in Portion : chunks' = chunks \o c /\ (c = Refusal <=> blocked)
        BY <3>3 DEF AfterEvent, Yield, Portion, Refusal
      <4> QED
        BY <3>1, <3>3, <4>1 DEF AfterEvent, Done
    <3>4. CASE AfterEnd
      <4>1. IF blocked THEN chunks' = chunks \o Refusal ELSE chunks' = chunks
        BY <3>4 DEF AfterEnd, Yield, Refusal
      <4>2. Refusal \in Portion
        BY DEF Refusal, Portion
      <4> QED
        BY <1>2, <3>1, <3>4, <4>1, <4>2 DEF AfterEnd, Done
    <3> QED
      BY <1>7, <3>2, <3>3, <3>4
  <2> QED
    BY <1>1, <2>1, <2>2 DEF Causes, ToldBlocked
<1>8. CASE UNCHANGED vars
  BY <1>1, <1>2, <1>8 DEF vars, Causes, ToldBlocked
<1> QED
  BY <1>3, <1>4, <1>5, <1>6, <1>7, <1>8 DEF Next, Relay

-----------------------------------------------------------------------------
(* The theorems. *)

\* The inductive invariant holds of every behaviour, for every number of plugins.
THEOREM Invariance == Spec => []IInv
<1>1. Init => IInv
  <2> SUFFICES ASSUME Init PROVE IInv
    OBVIOUS
  <2>1. TypeOK
    BY TypeInit
  <2>2. /\ stage = "received" /\ chunks = << >> /\ ~blocked /\ ~flag /\ ~failed /\ ~ErrorSent
        /\ trace = "none" /\ answer = "none" /\ leases = {} /\ connection = "none"
    BY NoError DEF Init
  <2>3. HookRuns /\ UpstreamGetsVetted /\ Records /\ RecordTellsAnswer /\ CleanedUp
    BY <2>2 DEF HookRuns, UpstreamGetsVetted, Records, Answering, Streaming, RecordTellsAnswer,
         CleanedUp
  <2>4. Stops /\ BlockedStaysBlocked /\ Causes
    BY <2>2 DEF Stops, BlockedStaysBlocked, Causes, ToldBlocked
  <2> QED
    BY <2>1, <2>3, <2>4 DEF IInv
<1>2. IInv /\ [Next]_vars => IInv'
  BY TypeStep, HookStep, RecordStep, StopStep, CauseStep DEF IInv
<1> QED
  BY <1>1, <1>2, PTL DEF Spec

\* Every variable keeps its type.
THEOREM TypeCorrect == Spec => []TypeOK
<1>1. IInv => TypeOK
  BY DEF IInv
<1> QED
  BY <1>1, Invariance, PTL

\* What goes upstream has passed every leased plugin's pre_request hook, and
\* carries edits of plugins that may edit only.
THEOREM VettedUpstream == Spec => []UpstreamGetsVetted
<1>1. IInv => UpstreamGetsVetted
  BY DEF IInv
<1> QED
  BY <1>1, Invariance, PTL

\* The journal's record says what the client was told.
THEOREM RecordsAreTrue == Spec => []RecordTellsAnswer
<1>1. IInv => RecordTellsAnswer
  BY DEF IInv
<1> QED
  BY <1>1, Invariance, PTL

\* A finished request holds no plugin and no upstream stream.
THEOREM NothingIsKept == Spec => []CleanedUp
<1>1. IInv => CleanedUp
  BY DEF IInv
<1> QED
  BY <1>1, Invariance, PTL

\* No upstream event reaches the client after a block, however long the stream.
THEOREM NoEventAfterBlock == Spec => []BlockedStaysBlocked
<1>1. IInv => BlockedStaysBlocked
  BY DEF IInv
<1> QED
  BY <1>1, Invariance, PTL

\* A plugin's failure stops a request under fail_safe, and under no other policy.
THEOREM PolicyDecides == Spec => []FailuresFollowPolicy
<1>1. IInv => FailuresFollowPolicy
  BY DEF IInv, Causes, FailuresFollowPolicy, ToldBlocked, Records
<1> QED
  BY <1>1, Invariance, PTL


(***************************************************************************)
(* Lists of operations.                                                    *)
(***************************************************************************)

\* By the sets 1..i, of which strict inclusion is well-founded: the least number that
\* is missing would have one before it that is missing too.
LEMMA Induction ==
  ASSUME NEW L \in Nat, NEW S, 0 \in S, \A n \in 0..(L - 1) : n \in S => n + 1 \in S
  PROVE  \A n \in 0..L : n \in S
<1> SUFFICES ASSUME (0..L) \ S # {} PROVE FALSE
  OBVIOUS
<1> DEFINE T == {1..i : i \in (0..L) \ S}
<1>1. T \subseteq FiniteSubsetsOf(Nat) /\ T # {}
  <2>1. \A i \in Nat : IsFiniteSet(1..i)
    BY FS_Interval
  <2> QED
    BY <2>1 DEF FiniteSubsetsOf
<1>2. PICK X \in T : \A Y \in T : << Y, X >> \notin StrictSubsetOrdering(Nat)
  <2>1. IsWellFoundedOn(StrictSubsetOrdering(Nat), FiniteSubsetsOf(Nat))
    BY FS_StrictSubsetOrderingWellFounded
  <2> QED
    BY <1>1, <2>1, WFMin
<1>3. PICK x \in (0..L) \ S : X = 1..x
  BY <1>2
<1>4. x - 1 \in (0..L) \ S
  <2>1. x # 0 /\ x - 1 \in 0..(L - 1)
    BY <1>3
  <2> QED
    BY <1>3, <2>1
<1>5. << 1..(x - 1), 1..x >> \in StrictSubsetOrdering(Nat)
  <2>1. x \in 1..x /\ x \notin 1..(x - 1) /\ 1..(x - 1) \subseteq 1..x
    BY <1>3, <1>4
  <2>2. 1..(x - 1) \in SUBSET Nat /\ 1..x \in SUBSET Nat
    BY <1>3, <1>4
  <2> QED
    BY <2>1, <2>2 DEF StrictSubsetOrdering
<1> QED
  BY <1>2, <1>3, <1>4, <1>5

Outset(p) == [ok |-> TRUE, timeline |-> p.timeline, audit |-> p.audit]

\* The recursive function of Progress is what its definition says.
LEMMA ProgressIs ==
  ASSUME NEW p, NEW ops, Len(ops) \in Nat
  PROVE  /\ Progress(p, ops)[0] = Outset(p)
         /\ \A n \in 0..(Len(ops) - 1) :
              Progress(p, ops)[n + 1] = Operated(Progress(p, ops)[n], ops[n + 1])
<1> DEFINE L == Len(ops)
           Is(f, m) == f = [n \in 0..m |-> IF n = 0 THEN Outset(p) ELSE Operated(f[n - 1], ops[n])]
           S == {m \in Nat : \E f : Is(f, m)}
<1>1. 0 \in S
  <2>1. Is([n \in 0..0 |-> Outset(p)], 0)
    OBVIOUS
  <2> QED
    BY <2>1
<1>2. ASSUME NEW m \in 0..(L - 1), m \in S PROVE m + 1 \in S
  <2>1. PICK f : Is(f, m)
    BY <1>2
  <2> DEFINE g == [n \in 0..(m + 1) |-> IF n = m + 1 THEN Operated(f[m], ops[m + 1]) ELSE f[n]]
  <2>2. ASSUME NEW n \in 0..(m + 1)
        PROVE  g[n] = IF n = 0 THEN Outset(p) ELSE Operated(g[n - 1], ops[n])
    <3>1. CASE n = m + 1
      BY <3>1, <1>2
    <3>2. CASE n # m + 1
      <4>1. n \in 0..m /\ g[n] = f[n]
        BY <3>2, <1>2
      <4>2. f[n] = IF n = 0 THEN Outset(p) ELSE Operated(f[n - 1], ops[n])
        BY <4>1, <2>1
      <4>3. n # 0 => n - 1 \in 0..m /\ n - 1 # m + 1 /\ g[n - 1] = f[n - 1]
        BY <4>1, <1>2
      <4> QED
        BY <4>1, <4>2, <4>3
    <3> QED
      BY <3>1, <3>2
  <2>3. Is(g, m + 1)
    BY <2>2, Zenon
  <2>4. m + 1 \in Nat
    BY <1>2
  <2> QED
    BY <2>3, <2>4, Zenon
<1>3. L \in S
  <2>1. \A m \in 0..(L - 1) : m \in S => m + 1 \in S
    BY <1>2
  <2> HIDE DEF S
  <2>2. \A n \in 0..L : n \in S
    BY <1>1, <2>1, Induction
  <2> QED
    BY <2>2
<1>4. Is(Progress(p, ops), L)
  BY <1>3, Zenon DEF Progress, Outset
<1> HIDE DEF S
<1>5. \A n \in 0..L : Progress(p, ops)[n] = IF n = 0 THEN Outset(p) ELSE Operated(Progress(p, ops)[n - 1], ops[n])
  BY <1>4, Zenon
<1> QED
  BY <1>5

(***************************************************************************)
(* Sequences and sets.                                                     *)
(***************************************************************************)

\* The members of a concatenation are those of both lists.
LEMMA ToSetConcat ==
  ASSUME NEW S, NEW s \in Seq(S), NEW t \in Seq(S)
  PROVE  s \o t \in Seq(S) /\ ToSet(s \o t) = ToSet(s) \union ToSet(t)
<1>1. /\ s \o t \in Seq(S) /\ DOMAIN (s \o t) = 1..(Len(s) + Len(t))
      /\ DOMAIN s = 1..Len(s) /\ DOMAIN t = 1..Len(t)
  OBVIOUS
<1>2. \A i \in DOMAIN s : i \in DOMAIN (s \o t) /\ (s \o t)[i] = s[i]
  BY <1>1
<1>3. \A i \in DOMAIN t : i + Len(s) \in DOMAIN (s \o t) /\ (s \o t)[i + Len(s)] = t[i]
  BY <1>1
<1>4. \A i \in DOMAIN (s \o t) : i \notin DOMAIN s => i - Len(s) \in DOMAIN t /\ (s \o t)[i] = t[i - Len(s)]
  BY <1>1
<1>5. ASSUME NEW x \in ToSet(s \o t) PROVE x \in ToSet(s) \union ToSet(t)
  <2>1. PICK i \in DOMAIN (s \o t) : x = (s \o t)[i]
    BY <1>5 DEF ToSet
  <2>2. CASE i \in DOMAIN s
    BY <2>1, <2>2, <1>2 DEF ToSet
  <2>3. CASE i \notin DOMAIN s
    BY <2>1, <2>3, <1>4 DEF ToSet
  <2> QED
    BY <2>2, <2>3
<1>6. ToSet(s) \subseteq ToSet(s \o t)
  BY <1>2 DEF ToSet
<1>7. ToSet(t) \subseteq ToSet(s \o t)
  BY <1>3 DEF ToSet
<1> QED
  BY <1>1, <1>5, <1>6, <1>7

\* A set's enumeration has each of its members, once.
LEMMA SetToSeqIs ==
  ASSUME NEW S, IsFiniteSet(S)
  PROVE  /\ SetToSeq(S) \in Seq(S) /\ ToSet(SetToSeq(S)) = S
         /\ \A i, j \in DOMAIN SetToSeq(S) : SetToSeq(S)[i] = SetToSeq(S)[j] => i = j
<1> DEFINE n == Cardinality(S)
<1>1. n \in Nat /\ ExistsBijection(1..n, S)
  BY FS_CardinalityType
<1>2. \E f \in [1..n -> S] : IsInjective(f)
  BY <1>1 DEF ExistsBijection, Bijection, Injection, IsInjective
<1>3. SetToSeq(S) \in [1..n -> S] /\ IsInjective(SetToSeq(S))
  BY <1>2, Zenon DEF SetToSeq
<1>4. SetToSeq(S) \in Seq(S) /\ DOMAIN SetToSeq(S) = 1..n
  BY <1>1, <1>3
<1>5. SetToSeq(S) \in Injection(1..n, S)
  BY <1>3 DEF Injection, IsInjective
<1>6. IsFiniteSet(1..n) /\ Cardinality(1..n) = n
  BY <1>1, FS_Interval
<1>7. SetToSeq(S) \in Surjection(1..n, S)
  BY <1>5, <1>6, FS_Injection
<1> QED
  BY <1>3, <1>4, <1>7 DEF ToSet, IsInjective, Surjection

(***************************************************************************)
(* Bodies and their timelines.                                             *)
(***************************************************************************)

TextForms == {"text", "item", "output", "tool_result", "input", "output_text"}

\* What a slot is decides what kind of unit it can be normalized to.
LEMMA KindIs ==
  ASSUME NEW e, NEW p \in Phase, NEW b, IsBody(e, p, b), NEW i \in DOMAIN b.slots
  PROVE  LET k == UnitKind(e, p, b.slots, b.slots[i])
             f == b.slots[i].form
         IN /\ k \in Kinds \union {"none"}
            /\ k = "action" => f = "call"
            /\ k = "media_ref" => f = "media"
            /\ k \in Kinds \ {"action", "media_ref"} => f \in TextForms
            /\ k = "instruction" => f = "text"
<1> DEFINE s == b.slots[i]
<1>1. s.form \in Forms(e, p) /\ e \in Endpoint
  BY DEF IsBody
<1>2. /\ RoleKind(s.role) \in {"instruction", "prompt", "observation", "response"}
      /\ ResponsesRoleKind(s.role) \in {"instruction", "prompt", "response"}
      /\ AnthropicRoleKind(s.role) \in {"instruction", "prompt", "response"}
  BY DEF RoleKind, ResponsesRoleKind, AnthropicRoleKind
<1>3. CASE p = "stream_event"
  BY <1>3 DEF UnitKind, StreamKind, Kinds, TextForms
<1>4. CASE p # "stream_event" /\ e = "chat_completions"
  <2>1. s.form \in {"text", "call", "media"}
    BY <1>1, <1>4 DEF Forms, Phase
  <2>2. UnitKind(e, p, b.slots, s) \in {ChatKind(s), ChatResponseKind(s)}
    BY <1>4 DEF UnitKind, RequestKind, ResponseKind, Phase
  <2> QED
    BY <1>2, <2>1, <2>2 DEF ChatKind, ChatResponseKind, Kinds, TextForms
<1>5. CASE p # "stream_event" /\ e = "anthropic_messages"
  <2>1. s.form \in {"text", "call", "tool_result", "media"}
    BY <1>1, <1>5 DEF Forms, Phase
  <2>2. UnitKind(e, p, b.slots, s) = AnthropicKind(s)
    BY <1>5 DEF UnitKind, RequestKind, ResponseKind, Phase
  <2> QED
    BY <1>2, <2>1, <2>2 DEF AnthropicKind, Kinds, TextForms
<1>6. CASE p = "request" /\ e = "responses"
  <2>1. s.form \in {"text", "item", "call", "output", "input", "media", "opaque"}
    BY <1>1, <1>6 DEF Forms
  <2>2. UnitKind(e, p, b.slots, s) = ResponsesInputKind(s)
    BY <1>6 DEF UnitKind, RequestKind
  <2> QED
    BY <1>2, <2>1, <2>2 DEF ResponsesInputKind, Kinds, TextForms
<1>7. CASE p = "response" /\ e = "responses"
  <2>1. s.form \in {"text", "call", "output", "output_text", "media", "opaque"}
    BY <1>1, <1>7 DEF Forms
  <2>2. UnitKind(e, p, b.slots, s) = ResponsesOutputKind(b.slots, s)
    BY <1>7 DEF UnitKind, ResponseKind
  <2>3. s.form = "output_text" => ResponsesOutputKind(b.slots, s) \in {"none", "response"}
    BY DEF ResponsesOutputKind
  <2> QED
    BY <2>1, <2>2, <2>3 DEF ResponsesOutputKind, Kinds, TextForms
<1> QED
  BY <1>1, <1>3, <1>4, <1>5, <1>6, <1>7 DEF Phase, Endpoint

\* A slot's unit has the slot's id and kind, and is a version of itself.
LEMMA UnitIs ==
  ASSUME NEW id \in Int, NEW k \in Kinds, NEW s,
         s.text \in Seq(Piece), s.name \in Name, s.args \in Arguments
  PROVE  /\ Unit(id, k, s) \in SemanticUnit /\ Unit(id, k, s).id = id /\ Unit(id, k, s).kind = k
         /\ IsVersion(Unit(id, k, s), Unit(id, k, s))
<1>1. Parsed(s.args) \in SUBSET Piece
  <2>1. RawKey \in Piece
    BY DEF RawKey, Piece
  <2> QED
    BY <2>1 DEF Parsed, Arguments
<1>2. Ensured(s) \in Seq(Piece)
  BY DEF Ensured
<1>3. EnsuredName(s) \in Name /\ EnsuredName(s) # NoName /\ NoName \in Name
  BY DEF EnsuredName, NoName, Name, Slot
<1>4. Unit(id, k, s) \in SemanticUnit
  BY <1>1, <1>2, <1>3 DEF Unit, SemanticUnit
<1>5. /\ Unit(id, k, s).id = id /\ Unit(id, k, s).kind = k
      /\ Unit(id, k, s).writable = (k \in {"prompt", "response", "observation", "action"})
      /\ k \notin {"action", "media_ref"} => Unit(id, k, s).name = NoName /\ Unit(id, k, s).args = {}
      /\ k \in {"action", "media_ref"} => Unit(id, k, s).text = << >>
      /\ k = "action" => Unit(id, k, s).name # NoName
  BY <1>3 DEF Unit
<1> HIDE DEF Unit
<1> QED
  BY <1>4, <1>5 DEF IsVersion, HasText

\* A text slot holds a text and no arguments.
LEMMA TextSlotIs ==
  ASSUME NEW text \in Seq(Piece)
  PROVE  LET s == TextSlot("text", "system", text)
         IN /\ s \in Slot /\ s.text = text /\ s.form = "text" /\ s.plain = TRUE
            /\ s.args = NoArgs
<1>1. NoArgs \in Arguments
  BY DEF NoArgs, Arguments
<1>2. NoName \in Name
  BY DEF NoName, Name
<1> QED
  BY <1>1, <1>2 DEF TextSlot, Opaque, Slot, Form, Role

\* The timeline of a body has a unit for its head and for each slot of a kind.
LEMMA NormalizeIs ==
  ASSUME NEW e, NEW p, NEW b, IsBody(e, p, b)
  PROVE  LET t == Normalize(e, p, b)
             KindAt(i) == UnitKind(e, p, b.slots, b.slots[i])
         IN /\ DOMAIN b.slots = 1..Len(b.slots) /\ Len(b.slots) \in Nat
            /\ DOMAIN t \subseteq {0} \union DOMAIN b.slots
            /\ \A id \in DOMAIN b.slots : id \in DOMAIN t <=> KindAt(id) # "none"
            /\ \A id \in DOMAIN t : id > 0 => id \in DOMAIN b.slots /\ t[id] = Unit(id, KindAt(id), b.slots[id])
            /\ 0 \in DOMAIN t <=> b.head.is # "none"
            /\ 0 \in DOMAIN t => t[0] = Unit(0, "instruction", TextSlot("text", "system", b.head.text))
<1>1. DOMAIN b.slots = 1..Len(b.slots) /\ Len(b.slots) \in Nat
  BY DEF IsBody, NativeBody
<1> HIDE DEF IsBody
<1> QED
  BY <1>1 DEF Normalize

\* A timeline as a body has it that arrives.
IsArrived(t) ==
  /\ DOMAIN t \subseteq Nat
  /\ \A id \in DOMAIN t : t[id].id = id /\ IsVersion(t[id], t[id])

\* What Normalize returns is a timeline with no context and finitely many units.
LEMMA ArrivedIs ==
  ASSUME NEW e, NEW p \in Phase, NEW b, IsBody(e, p, b)
  PROVE  IsArrived(Normalize(e, p, b)) /\ IsFiniteSet(DOMAIN Normalize(e, p, b))
<1> DEFINE t == Normalize(e, p, b)
<1>1. DOMAIN t \subseteq 0..Len(b.slots) /\ Len(b.slots) \in Nat
  BY NormalizeIs
<1>2. ASSUME NEW id \in DOMAIN t PROVE t[id].id = id /\ IsVersion(t[id], t[id])
  <2>1. CASE id = 0
    <3>1. b.head.text \in Seq(Piece)
      BY DEF IsBody, NativeBody
    <3>2. t[0] = Unit(0, "instruction", TextSlot("text", "system", b.head.text))
      BY <2>1, NormalizeIs
    <3>3. TextSlot("text", "system", b.head.text) \in Slot
      BY <3>1, TextSlotIs
    <3> QED
      BY <2>1, <3>2, <3>3, UnitIs DEF Kinds, Slot
  <2>2. CASE id # 0
    <3>1. id > 0 /\ id \in Int
      BY <1>1, <2>2
    <3>2. /\ id \in DOMAIN b.slots /\ t[id] = Unit(id, UnitKind(e, p, b.slots, b.slots[id]), b.slots[id])
          /\ UnitKind(e, p, b.slots, b.slots[id]) # "none"
      BY <1>2, <3>1, NormalizeIs
    <3>3. UnitKind(e, p, b.slots, b.slots[id]) \in Kinds
      BY <3>2, KindIs
    <3>4. b.slots[id] \in Slot
      BY <3>2 DEF IsBody, NativeBody
    <3>5. b.slots[id].text \in Seq(Piece) /\ b.slots[id].name \in Name /\ b.slots[id].args \in Arguments
      BY <3>4 DEF Slot
    <3> HIDE DEF t
    <3> QED
      BY <3>1, <3>2, <3>3, <3>5, UnitIs
  <2> QED
    BY <2>1, <2>2
<1>3. IsFiniteSet(DOMAIN t)
  <2>1. IsFiniteSet(0..Len(b.slots))
    BY <1>1, FS_Interval
  <2> QED
    BY <1>1, <2>1, FS_Subset
<1> QED
  BY <1>1, <1>2, <1>3 DEF IsArrived

(***************************************************************************)
(* Operations on a payload.                                                *)
(***************************************************************************)

Fits(o) == o \in SemanticOp /\ (o.op = "insert_context" => o.text = << Context >>)

\* A context is an instruction that no operation may write.
LEMMA ContextIs ==
  /\ \A id \in Int :
       /\ ContextUnit(id) \in SemanticUnit /\ ContextUnit(id).kind = "instruction"
       /\ ~ContextUnit(id).writable /\ ContextUnit(id).text = << Context >>
       /\ ContextUnit(id).args = {}
  /\ Context \in Piece /\ << Context >> \in Seq(Piece)
<1>1. Context \in Piece
  BY DEF Context, Piece
<1>2. << Context >> \in Seq(Piece)
  BY <1>1
<1>3. TextSlot("text", "system", << Context >>) \in Slot
  BY <1>2, TextSlotIs
<1>4. ASSUME NEW id \in Int
      PROVE  /\ ContextUnit(id) \in SemanticUnit
             /\ ContextUnit(id).kind = "instruction"
             /\ ~ContextUnit(id).writable /\ ContextUnit(id).text = << Context >>
             /\ ContextUnit(id).args = {}
  <2>1. ContextUnit(id) \in SemanticUnit
    BY <1>3, UnitIs DEF ContextUnit, Slot, Kinds
  <2>2. TextSlot("text", "system", << Context >>).plain = TRUE /\ TextSlot("text", "system", << Context >>).text = << Context >>
    BY <1>2, TextSlotIs
  <2> QED
    BY <2>1, <2>2 DEF ContextUnit, Unit, Ensured
<1> QED
  BY <1>1, <1>2, <1>4

\* The timeline that arrived is an edition of itself, with nothing in the audit.
LEMMA EditionOfArrived ==
  ASSUME NEW t, IsArrived(t)
  PROVE  IsEdition([timeline |-> t, audit |-> {}], t)
<1> DEFINE p == [timeline |-> t, audit |-> {}]
<1>1. Contexts(p.timeline) = {} /\ Cardinality({}) = 0 /\ (-0)..(-1) = {}
  BY FS_EmptySet DEF Contexts, IsArrived
<1>2. p.timeline = t /\ p.audit = {}
  OBVIOUS
<1> HIDE DEF p
<1>3. IsEdition(p, t)
  BY <1>1, <1>2 DEF IsEdition, IsArrived
<1> QED
  BY <1>3 DEF p

\* How many contexts a payload has, from their ids.
LEMMA CountIs ==
  ASSUME NEW n \in Nat
  PROVE  Cardinality((-n)..(-1)) = n /\ IsFiniteSet((-n)..(-1))
<1>1. -n \in Int /\ -1 \in Int
  OBVIOUS
<1>2. Cardinality((-n)..(-1)) = IF -n > -1 THEN 0 ELSE -1 - (-n) + 1
  BY <1>1, FS_Interval
<1>3. IsFiniteSet((-n)..(-1))
  BY <1>1, FS_Interval
<1> QED
  BY <1>2, <1>3

\* What the ids of an edition are, and its units.
LEMMA EditionIs ==
  ASSUME NEW t, IsArrived(t), NEW p, IsEdition(p, t)
  PROVE  /\ DOMAIN p.timeline \subseteq Int
         /\ \A id \in DOMAIN p.timeline :
              /\ p.timeline[id] \in SemanticUnit
              /\ id < 0 => p.timeline[id] = ContextUnit(id)
              /\ id >= 0 => id \in DOMAIN t /\ IsVersion(p.timeline[id], t[id])
              /\ p.timeline[id].writable => id \in DOMAIN t
<1> DEFINE n == Cardinality(Contexts(p.timeline))
<1>1. n \in Nat /\ DOMAIN p.timeline = DOMAIN t \union (-n)..(-1) /\ DOMAIN t \subseteq Nat
  BY DEF IsEdition, IsArrived
<1>2. ASSUME NEW id \in DOMAIN p.timeline
      PROVE  /\ p.timeline[id] \in SemanticUnit
             /\ id < 0 => p.timeline[id] = ContextUnit(id)
             /\ id >= 0 => id \in DOMAIN t /\ IsVersion(p.timeline[id], t[id])
             /\ p.timeline[id].writable => id \in DOMAIN t
  <2>1. CASE id \in DOMAIN t
    <3>1. IsVersion(p.timeline[id], t[id]) /\ id >= 0
      BY <1>1, <2>1 DEF IsEdition
    <3>2. p.timeline[id] \in SemanticUnit
      BY <3>1 DEF IsVersion
    <3> QED
      BY <2>1, <3>1, <3>2, <1>1
  <2>2. CASE id \notin DOMAIN t
    <3>1. id \in (-n)..(-1)
      BY <1>1, <2>2
    <3>2. p.timeline[id] = ContextUnit(id) /\ id < 0 /\ id \in Int
      BY <3>1, <1>1 DEF IsEdition
    <3> QED
      BY <3>2, ContextIs
  <2> QED
    BY <2>1, <2>2
<1>3. DOMAIN p.timeline \subseteq Int
  BY <1>1
<1> QED
  BY <1>2, <1>3

\* The target is one unit, and never a context.
LEMMA TargetIs ==
  ASSUME NEW t, IsArrived(t), NEW p, IsEdition(p, t), NEW o \in SemanticOp
  PROVE  /\ Target(p.timeline, o) \subseteq DOMAIN p.timeline
         /\ \A i, j \in Target(p.timeline, o) : i = j
<1>1. DOMAIN p.timeline \subseteq Int
  BY EditionIs
<1>2. \A i, j \in o.unit : i = j
  BY DEF SemanticOp
<1> QED
  BY <1>1, <1>2 DEF Target

\* It is the same unit in every edition of what arrived.
LEMMA TargetStays ==
  ASSUME NEW t, IsArrived(t), NEW p, IsEdition(p, t), NEW q, IsEdition(q, t),
         NEW o \in SemanticOp, NEW id \in DOMAIN t, id \in Target(p.timeline, o)
  PROVE  id \in Target(q.timeline, o)
<1>1. id \in DOMAIN q.timeline
  BY DEF IsEdition
<1>2. CASE o.unit # {}
  BY <1>1, <1>2 DEF Target
<1>3. CASE o.unit = {}
  <2> DEFINE C(u) == { i \in DOMAIN u.timeline : /\ View(u.timeline[i]) = o.view
                                                 /\ u.timeline[i].writable
                                                 /\ o.view \in AllowedViews(o.op) }
  <2>1. \A u : o.unit = {} => Target(u.timeline, o) = { i \in C(u) : \A j \in C(u) : j <= i }
    BY DEF Target
  <2>2. ASSUME NEW u, IsEdition(u, t)
        PROVE  C(u) = { i \in DOMAIN t : View(t[i]) = o.view /\ t[i].writable /\ o.view \in AllowedViews(o.op) }
    <3>1. \A i \in DOMAIN t : /\ i \in DOMAIN u.timeline /\ u.timeline[i].kind = t[i].kind
                              /\ u.timeline[i].writable = t[i].writable
      BY <2>2 DEF IsEdition, IsArrived, IsVersion
    <3>2. \A i \in DOMAIN t : View(u.timeline[i]) = View(t[i])
      BY <3>1, Zenon DEF View
    <3>3. \A i \in DOMAIN u.timeline : u.timeline[i].writable => i \in DOMAIN t
      BY <2>2, EditionIs
    <3> QED
      BY <3>1, <3>2, <3>3
  <2>3. C(p) = C(q)
    BY <2>2
  <2> QED
    BY <1>3, <2>1, <2>3
<1> QED
  BY <1>2, <1>3

\* What an edit makes of a unit it applies to.
LEMMA EditedUnitIs ==
  ASSUME NEW base, NEW unit, IsVersion(unit, base), NEW o \in SemanticOp,
         o.op # "insert_context", Applies(unit, o)
  PROVE  /\ unit.writable /\ IsVersion(EditedUnit(unit, o), base)
         /\ TextOf(EditedUnit(unit, o)) \subseteq TextOf(unit) \union ToSet(o.text) \union o.args
         /\ Written \in ToSet(o.text) /\ Written \in o.args => Written \in TextOf(EditedUnit(unit, o))
<1>1. /\ o.op \in SemanticOps \ {"insert_context"} /\ o.text \in Seq(Piece) /\ o.args \in SUBSET Piece
      /\ unit \in SemanticUnit /\ unit.text \in Seq(Piece) /\ unit.args \in SUBSET Piece
  BY DEF SemanticOp, IsVersion, SemanticUnit
<1>2. /\ unit.writable = (unit.kind \in {"prompt", "response", "observation", "action"})
      /\ unit.kind \in Kinds
  BY DEF IsVersion, SemanticUnit
<1>3. CASE o.op \in TextOps \union {"replace_observation"}
  <2>1. unit.writable /\ HasText(unit)
    BY <1>1, <1>2, <1>3 DEF Applies, HasText, TextOps, Kinds, SemanticOps, ActionOps
  <2>2. PICK text \in {o.text \o unit.text, unit.text \o o.text, o.text} :
          EditedUnit(unit, o) = [unit EXCEPT !.text = text]
    <3>1. CASE o.op = "prepend_text"
      BY <3>1 DEF EditedUnit
    <3>2. CASE o.op = "append_text"
      BY <3>2 DEF EditedUnit
    <3>3. CASE o.op \in {"replace_text", "replace_observation"}
      BY <3>3 DEF EditedUnit
    <3> QED
      BY <1>3, <3>1, <3>2, <3>3 DEF TextOps
  <2>3. /\ text \in Seq(Piece) /\ ToSet(text) \subseteq ToSet(o.text) \union ToSet(unit.text)
        /\ ToSet(o.text) \subseteq ToSet(text)
    <3>1. o.text \o unit.text \in Seq(Piece) /\ ToSet(o.text \o unit.text) = ToSet(o.text) \union ToSet(unit.text)
      BY <1>1, ToSetConcat
    <3>2. unit.text \o o.text \in Seq(Piece) /\ ToSet(unit.text \o o.text) = ToSet(unit.text) \union ToSet(o.text)
      BY <1>1, ToSetConcat
    <3> QED
      BY <1>1, <2>2, <3>1, <3>2
  <2>4. /\ EditedUnit(unit, o) \in SemanticUnit
        /\ EditedUnit(unit, o).text = text /\ EditedUnit(unit, o).args = unit.args
        /\ EditedUnit(unit, o).id = unit.id /\ EditedUnit(unit, o).kind = unit.kind
        /\ EditedUnit(unit, o).writable = unit.writable /\ EditedUnit(unit, o).name = unit.name
    BY <1>1, <2>2, <2>3 DEF SemanticUnit
  <2>5. IsVersion(EditedUnit(unit, o), base)
    BY <2>1, <2>4 DEF IsVersion, HasText
  <2> QED
    BY <2>1, <2>3, <2>4, <2>5 DEF TextOf
<1>4. CASE o.op \in ActionOps
  <2>1. unit.kind = "action" /\ unit.writable /\ ~HasText(unit)
    BY <1>2, <1>4 DEF Applies, HasText, ActionOps, TextOps
  <2>2. PICK args \in {unit.args \union o.args, o.args}, name \in {unit.name, "replaced"} :
          EditedUnit(unit, o) = [unit EXCEPT !.args = args, !.name = name]
    <3>1. CASE o.op = "patch_action_args"
      <4>1. EditedUnit(unit, o) = [unit EXCEPT !.args = unit.args \union o.args]
        BY <3>1 DEF EditedUnit
      <4>2. EditedUnit(unit, o) = [unit EXCEPT !.args = unit.args \union o.args, !.name = unit.name]
        BY <4>1, <1>1 DEF SemanticUnit
      <4> QED
        BY <4>2
    <3>2. CASE o.op = "replace_action"
      <4>1. EditedUnit(unit, o) = [unit EXCEPT !.name = "replaced", !.args = o.args]
        BY <3>2 DEF EditedUnit
      <4>2. EditedUnit(unit, o) = [unit EXCEPT !.args = o.args, !.name = "replaced"]
        BY <4>1, <1>1 DEF SemanticUnit
      <4> QED
        BY <4>2
    <3> QED
      BY <1>4, <3>1, <3>2 DEF ActionOps
  <2>3. unit.name # NoName /\ "replaced" # NoName /\ "replaced" \in Name /\ unit.name \in Name
    BY <1>1, <2>1 DEF IsVersion, NoName, Name, SemanticUnit
  <2>4. args \in SUBSET Piece
    BY <1>1, <2>2
  <2>5. /\ EditedUnit(unit, o) \in SemanticUnit
        /\ EditedUnit(unit, o).text = unit.text /\ EditedUnit(unit, o).args = args
        /\ EditedUnit(unit, o).id = unit.id /\ EditedUnit(unit, o).kind = unit.kind
        /\ EditedUnit(unit, o).writable = unit.writable /\ EditedUnit(unit, o).name = name
    BY <1>1, <2>2, <2>3, <2>4 DEF SemanticUnit
  <2>6. IsVersion(EditedUnit(unit, o), base)
    BY <2>1, <2>2, <2>3, <2>5 DEF IsVersion, HasText
  <2> QED
    BY <2>1, <2>2, <2>5, <2>6 DEF TextOf
<1> QED
  BY <1>1, <1>3, <1>4 DEF SemanticOps

(***************************************************************************)
(* What one operation does, if it can be applied.                          *)
(***************************************************************************)

\* v is u after o, which edits unit id.
IsEdit(u, v, o, id) ==
  Target(u.timeline, o) = {id} /\ Applies(u.timeline[id], o) /\ v = EditUnits(u, {id}, o)

\* An operation that is accepted inserts a context, or edits one unit that arrived.
LEMMA OperatedIs ==
  ASSUME NEW t, IsArrived(t), NEW u, u.ok, IsEdition(u, t),
         NEW o, Fits(o), Operated(u, o).ok
  PROVE  /\ o.op = "insert_context" => Operated(u, o) = InsertContext(u, o)
         /\ o.op # "insert_context" =>
              \E id \in DOMAIN t : IsEdit(u, Operated(u, o), o, id)
<1>1. CASE o.op = "insert_context"
  BY <1>1 DEF Operated
<1>2. CASE o.op # "insert_context"
  <2> DEFINE ids == Target(u.timeline, o)
  <2>1. o \in SemanticOp /\ o.op \in SemanticOps
    BY DEF Fits, SemanticOp
  <2>2. ids \subseteq DOMAIN u.timeline /\ \A i, j \in ids : i = j
    BY <2>1, TargetIs
  <2>3. PICK id \in ids : Applies(u.timeline[id], o)
    <3>1. ~(\E id \in ids : Applies(u.timeline[id], o)) => Operated(u, o).ok = FALSE
      BY <1>2 DEF Operated
    <3> QED
      BY <3>1
  <2>4. ids = {id}
    BY <2>2, <2>3
  <2>5. Operated(u, o) = EditUnits(u, ids, o)
    BY <1>2, <2>3 DEF Operated
  <2>6. id \in DOMAIN t
    <3>1. id \in DOMAIN u.timeline /\ u.timeline[id] \in SemanticUnit
      BY <2>2, <2>3, EditionIs
    <3>2. id \notin DOMAIN t => u.timeline[id] = ContextUnit(id) /\ id \in Int
      BY <3>1, EditionIs
    <3>3. id \notin DOMAIN t => u.timeline[id].kind = "instruction" /\ ~u.timeline[id].writable
      BY <3>2, ContextIs
    <3> QED
      BY <2>1, <2>3, <3>3, <1>2 DEF Applies, SemanticOps
  <2> QED
    BY <1>2, <2>3, <2>4, <2>5, <2>6 DEF IsEdit
<1> QED
  BY <1>1, <1>2

\* Editing a unit changes it alone, and lists it in the audit.
LEMMA EditUnitsIs ==
  ASSUME NEW t, IsArrived(t), NEW u, IsEdition(u, t),
         NEW o \in SemanticOp, o.op # "insert_context", NEW id \in DOMAIN t, Applies(u.timeline[id], o)
  PROVE  LET v == EditUnits(u, {id}, o)
         IN /\ v.ok /\ IsEdition(v, t)
            /\ v.audit = u.audit \union {id} /\ DOMAIN v.timeline = DOMAIN u.timeline
            /\ \A i \in DOMAIN u.timeline :
                 v.timeline[i] = IF i = id THEN EditedUnit(u.timeline[i], o) ELSE u.timeline[i]
<1> DEFINE v == EditUnits(u, {id}, o)
           n == Cardinality(Contexts(u.timeline))
<1>1. /\ v.ok /\ v.audit = u.audit \union {id}
      /\ DOMAIN v.timeline = DOMAIN u.timeline
      /\ \A i \in DOMAIN u.timeline :
           v.timeline[i] = IF i = id THEN EditedUnit(u.timeline[i], o) ELSE u.timeline[i]
  BY DEF EditUnits
<1>2. IsEdition(v, t)
  <2>1. Contexts(v.timeline) = Contexts(u.timeline)
    BY <1>1 DEF Contexts
  <2>2. id \in Nat /\ DOMAIN t \subseteq Nat
    BY DEF IsArrived
  <2>3. n \in Nat /\ id \in DOMAIN u.timeline /\ id \notin (-n)..(-1) /\ (-n)..(-1) \subseteq DOMAIN u.timeline
    BY <2>2 DEF IsEdition
  <2>4. \A i \in (-n)..(-1) : v.timeline[i] = ContextUnit(i)
    BY <1>1, <2>3 DEF IsEdition
  <2>5. IsVersion(EditedUnit(u.timeline[id], o), t[id])
    BY EditedUnitIs DEF IsEdition
  <2>6. \A i \in DOMAIN t : IsVersion(v.timeline[i], t[i])
    BY <1>1, <2>5 DEF IsEdition
  <2>7. \A i \in DOMAIN t \ v.audit : v.timeline[i] = t[i]
    BY <1>1 DEF IsEdition
  <2>8. v.audit \subseteq DOMAIN v.timeline /\ { i \in v.audit : i < 0 } = (-n)..(-1)
    <3>1. { i \in v.audit : i < 0 } = { i \in u.audit : i < 0 }
      BY <1>1, <2>2
    <3> QED
      BY <1>1, <2>3, <3>1 DEF IsEdition
  <2>9. Contexts(u.timeline) = (-n)..(-1) /\ DOMAIN u.timeline = DOMAIN t \union (-n)..(-1)
    BY DEF IsEdition
  <2> HIDE DEF v
  <2> QED
    BY <1>1, <2>1, <2>3, <2>4, <2>6, <2>7, <2>8, <2>9 DEF IsEdition
<1> QED
  BY <1>1, <1>2

\* Inserting a context takes the next negative id and leaves what arrived as it is.
LEMMA InsertContextIs ==
  ASSUME NEW t, IsArrived(t), NEW u, IsEdition(u, t),
         NEW o \in SemanticOp, o.text = << Context >>
  PROVE  LET v == InsertContext(u, o)
         IN /\ v.ok /\ IsEdition(v, t)
            /\ u.audit \subseteq v.audit
            /\ \A i \in DOMAIN t : i \in DOMAIN u.timeline /\ v.timeline[i] = u.timeline[i]
<1> DEFINE v == InsertContext(u, o)
           n == Cardinality(Contexts(u.timeline))
           next == -1 - n
<1>1. /\ n \in Nat /\ Contexts(u.timeline) = (-n)..(-1) /\ DOMAIN u.timeline = DOMAIN t \union (-n)..(-1)
      /\ DOMAIN t \subseteq Nat
  BY DEF IsEdition, IsArrived
<1>2. /\ next \in Int /\ next < 0 /\ next \notin DOMAIN u.timeline
      /\ (-(n + 1))..(-1) = (-n)..(-1) \union {next} /\ n + 1 \in Nat
      /\ \A i \in DOMAIN t : i # next
  BY <1>1
<1>3. /\ v.ok /\ v.audit = u.audit \union {next}
      /\ DOMAIN v.timeline = DOMAIN u.timeline \union {next}
      /\ \A i \in DOMAIN v.timeline : v.timeline[i] = IF i = next THEN ContextUnit(next) ELSE u.timeline[i]
  BY DEF InsertContext, ContextUnit
<1>4. IsEdition(v, t)
  <2>1. Contexts(v.timeline) = (-(n + 1))..(-1)
    BY <1>1, <1>2, <1>3 DEF Contexts
  <2>2. Cardinality(Contexts(v.timeline)) = n + 1
    BY <1>2, <2>1, CountIs
  <2>3. DOMAIN v.timeline = DOMAIN t \union (-(n + 1))..(-1)
    BY <1>1, <1>2, <1>3
  <2>4. \A i \in (-(n + 1))..(-1) : v.timeline[i] = ContextUnit(i)
    BY <1>1, <1>2, <1>3, <2>3 DEF IsEdition
  <2>5. \A i \in DOMAIN t : i # next /\ i \in DOMAIN u.timeline /\ i \in DOMAIN v.timeline
    BY <1>1, <1>2, <2>3
  <2>6. \A i \in DOMAIN t : IsVersion(v.timeline[i], t[i])
    BY <1>3, <2>5 DEF IsEdition
  <2>7. \A i \in DOMAIN t \ v.audit : v.timeline[i] = t[i]
    BY <1>3, <2>5 DEF IsEdition
  <2>8. v.audit \subseteq DOMAIN v.timeline
    BY <1>3 DEF IsEdition
  <2>9. { i \in v.audit : i < 0 } = (-(n + 1))..(-1)
    <3>1. { i \in u.audit : i < 0 } = (-n)..(-1)
      BY DEF IsEdition
    <3> QED
      BY <1>2, <1>3, <3>1
  <2> HIDE DEF v
  <2> QED
    BY <1>2, <2>1, <2>2, <2>3, <2>4, <2>6, <2>7, <2>8, <2>9 DEF IsEdition
<1> HIDE DEF next
<1> QED
  BY <1>1, <1>2, <1>3, <1>4


(***************************************************************************)
(* What a list of operations does, if all of it can be applied.            *)
(***************************************************************************)

\* What operation o does to the units of the body, from u to v; p is the payload
\* before the first operation.
Stepped(u, v, o, p, t) ==
  /\ u.audit \subseteq v.audit
  /\ IF o.op = "insert_context"
     THEN \A i \in DOMAIN t : v.timeline[i] = u.timeline[i]
     ELSE \E id \in DOMAIN t :
            /\ Target(p.timeline, o) = {id} /\ Applies(u.timeline[id], o) /\ id \in v.audit
            /\ \A i \in DOMAIN t :
                 v.timeline[i] = IF i = id THEN EditedUnit(u.timeline[i], o) ELSE u.timeline[i]

\* An accepted operation makes an edition of an edition.
LEMMA StepIs ==
  ASSUME NEW t, IsArrived(t), NEW p, IsEdition(p, t), NEW u, u.ok, IsEdition(u, t),
         NEW o, Fits(o), Operated(u, o).ok
  PROVE  IsEdition(Operated(u, o), t) /\ Stepped(u, Operated(u, o), o, p, t)
<1>1. o \in SemanticOp
  BY DEF Fits
<1>2. CASE o.op = "insert_context"
  <2>1. Operated(u, o) = InsertContext(u, o) /\ o.text = << Context >>
    BY <1>2, OperatedIs DEF Fits
  <2> QED
    BY <1>1, <1>2, <2>1, InsertContextIs DEF Stepped
<1>3. CASE o.op # "insert_context"
  <2>0. PICK id \in DOMAIN t : IsEdit(u, Operated(u, o), o, id)
    BY <1>3, OperatedIs
  <2>1. /\ Target(u.timeline, o) = {id} /\ Applies(u.timeline[id], o)
        /\ Operated(u, o) = EditUnits(u, {id}, o)
    BY <2>0 DEF IsEdit
  <2>2. Target(p.timeline, o) = {id}
    <3>1. id \in Target(p.timeline, o)
      BY <1>1, <2>1, TargetStays
    <3> QED
      BY <1>1, <3>1, TargetIs
  <2>3. DOMAIN t \subseteq DOMAIN u.timeline
    BY DEF IsEdition
  <2> DEFINE v == EditUnits(u, {id}, o)
  <2>4. /\ IsEdition(v, t) /\ v.audit = u.audit \union {id}
        /\ \A i \in DOMAIN u.timeline :
             v.timeline[i] = IF i = id THEN EditedUnit(u.timeline[i], o) ELSE u.timeline[i]
    BY <1>1, <1>3, <2>1, EditUnitsIs
  <2> HIDE DEF v
  <2>5. Stepped(u, v, o, p, t)
    BY <1>3, <2>1, <2>2, <2>3, <2>4 DEF Stepped
  <2> QED
    BY <2>1, <2>4, <2>5 DEF v
<1> QED
  BY <1>2, <1>3

\* After an operation that cannot be applied the list fails.
LEMMA AllApplied ==
  ASSUME NEW p, NEW ops, Len(ops) \in Nat, Applied(p, ops).ok
  PROVE  \A n \in 0..Len(ops) : Progress(p, ops)[n].ok
<1> DEFINE L == Len(ops)
           U(n) == Progress(p, ops)[n]
<1> SUFFICES ASSUME NEW m \in 0..L, ~U(m).ok PROVE FALSE
  OBVIOUS
<1> DEFINE S == {k \in Nat : ~U(m + k).ok}
<1>1. 0 \in S
  OBVIOUS
<1>2. ASSUME NEW k \in 0..((L - m) - 1), k \in S PROVE k + 1 \in S
  <2>1. m + k \in 0..(L - 1) /\ m + (k + 1) = (m + k) + 1 /\ k + 1 \in Nat
    BY <1>2
  <2>2. U((m + k) + 1) = Operated(U(m + k), ops[(m + k) + 1])
    BY <2>1, ProgressIs
  <2>3. U((m + k) + 1) = U(m + k)
    BY <1>2, <2>2 DEF Operated
  <2> QED
    BY <1>2, <2>1, <2>3
<1>3. \A k \in 0..(L - m) : k \in S
  <2>1. L - m \in Nat /\ \A k \in 0..((L - m) - 1) : k \in S => k + 1 \in S
    BY <1>2
  <2> HIDE DEF S
  <2> QED
    BY <1>1, <2>1, Induction
<1>4. L - m \in 0..(L - m) /\ m + (L - m) = L
  OBVIOUS
<1> QED
  BY <1>3, <1>4 DEF Applied

\* Operations that all fit, from a payload that is an edition of t.
IsList(p, ops, t) ==
  /\ IsArrived(t) /\ IsEdition(p, t) /\ Len(ops) \in Nat
  /\ \A j \in 1..Len(ops) : Fits(ops[j])
  /\ Applied(p, ops).ok

\* While a list of operations is applied, each prefix of it has made an edition.
LEMMA ListIs ==
  ASSUME NEW p, NEW ops, NEW t, IsList(p, ops, t)
  PROVE  /\ \A n \in 0..Len(ops) : IsEdition(Progress(p, ops)[n], t)
         /\ \A n \in 0..(Len(ops) - 1) :
              Stepped(Progress(p, ops)[n], Progress(p, ops)[n + 1], ops[n + 1], p, t)
<1> DEFINE L == Len(ops)
           U(n) == Progress(p, ops)[n]
           S == {n \in Nat : IsEdition(U(n), t)}
<1>0. IsArrived(t) /\ IsEdition(p, t) /\ L \in Nat /\ \A j \in 1..L : Fits(ops[j])
  BY DEF IsList
<1>1. \A n \in 0..L : U(n).ok
  BY <1>0, AllApplied DEF IsList
<1>2. U(0) = Outset(p) /\ \A n \in 0..(L - 1) : U(n + 1) = Operated(U(n), ops[n + 1])
  BY <1>0, ProgressIs
<1>3. 0 \in S
  <2>1. U(0).timeline = p.timeline /\ U(0).audit = p.audit
    BY <1>2 DEF Outset
  <2> QED
    BY <1>0, <2>1 DEF IsEdition
<1>4. ASSUME NEW n \in 0..(L - 1), IsEdition(U(n), t)
      PROVE  IsEdition(U(n + 1), t) /\ Stepped(U(n), U(n + 1), ops[n + 1], p, t)
  <2>1. n \in 0..L /\ n + 1 \in 0..L /\ n + 1 \in 1..L /\ n + 1 \in Nat
    BY <1>0
  <2>2. /\ U(n).ok /\ U(n + 1).ok /\ Fits(ops[n + 1])
        /\ U(n + 1) = Operated(U(n), ops[n + 1])
    BY <1>0, <1>1, <1>2, <2>1
  <2> HIDE DEF U
  <2> QED
    BY <1>0, <1>4, <2>2, StepIs
<1>5. \A n \in 0..L : n \in S
  <2>1. \A n \in 0..(L - 1) : n \in S => n + 1 \in S
    BY <1>4
  <2> HIDE DEF S
  <2> QED
    BY <1>0, <1>3, <2>1, Induction
<1> QED
  BY <1>0, <1>4, <1>5

\* The units that operations of a list name.
Named(p, ops) ==
  UNION { Target(p.timeline, ops[j]) : j \in { k \in DOMAIN ops : ops[k].op # "insert_context" } }

\* The audit lists them, and all it listed before.
LEMMA ListAudit ==
  ASSUME NEW p, NEW ops, NEW t, IsList(p, ops, t), DOMAIN ops = 1..Len(ops)
  PROVE  /\ IsEdition(Applied(p, ops), t)
         /\ Named(p, ops) \subseteq DOMAIN t
         /\ \A id \in Named(p, ops) : t[id].writable
         /\ p.audit \union Named(p, ops) \subseteq Applied(p, ops).audit
<1> DEFINE L == Len(ops)
           U(n) == Progress(p, ops)[n]
           Until(n) == UNION { Target(p.timeline, ops[j]) : j \in { k \in 1..n : ops[k].op # "insert_context" } }
           S == {n \in Nat : p.audit \union Until(n) \subseteq U(n).audit
                        /\ Until(n) \subseteq { id \in DOMAIN t : t[id].writable }}
<1>0. L \in Nat /\ U(0) = Outset(p)
  BY ProgressIs DEF IsList
<1>1. 0 \in S
  BY <1>0 DEF Outset
<1>2. ASSUME NEW n \in 0..(L - 1), n \in S PROVE n + 1 \in S
  <2>1. Stepped(U(n), U(n + 1), ops[n + 1], p, t)
    BY ListIs
  <2>2. 1..(n + 1) = 1..n \union {n + 1} /\ n + 1 \in Nat
    BY <1>0
  <2>3. Until(n + 1) = Until(n) \union (IF ops[n + 1].op # "insert_context" THEN Target(p.timeline, ops[n + 1]) ELSE {})
    BY <2>2
  <2>4. ASSUME ops[n + 1].op # "insert_context", NEW id \in Target(p.timeline, ops[n + 1])
        PROVE  id \in DOMAIN t /\ t[id].writable /\ id \in U(n + 1).audit
    <3>1. id \in DOMAIN t /\ Applies(U(n).timeline[id], ops[n + 1]) /\ id \in U(n + 1).audit
      BY <2>1, <2>4 DEF Stepped
    <3>2. n \in 0..L /\ n + 1 \in 1..L
      BY <1>0
    <3>3. IsVersion(U(n).timeline[id], t[id]) /\ IsVersion(t[id], t[id])
      BY <3>1, <3>2, ListIs DEF IsEdition, IsList, IsArrived
    <3>4. ops[n + 1] \in SemanticOp
      BY <3>2 DEF IsList, Fits
    <3> HIDE DEF U
    <3>5. U(n).timeline[id].writable
      BY <2>4, <3>1, <3>3, <3>4, EditedUnitIs
    <3> QED
      BY <3>1, <3>3, <3>5 DEF IsVersion
  <2>5. U(n).audit \subseteq U(n + 1).audit
    BY <2>1 DEF Stepped
  <2> HIDE DEF U, Until
  <2> QED
    BY <1>2, <2>2, <2>3, <2>4, <2>5
<1>3. \A n \in 0..L : n \in S
  <2>1. \A n \in 0..(L - 1) : n \in S => n + 1 \in S
    BY <1>2
  <2> HIDE DEF S
  <2> QED
    BY <1>0, <1>1, <2>1, Induction
<1>4. L \in 0..L /\ Until(L) = Named(p, ops)
  BY <1>0 DEF Named
<1>5. IsEdition(Applied(p, ops), t)
  BY <1>4, ListIs DEF Applied
<1> QED
  BY <1>3, <1>4, <1>5 DEF Applied

\* Where the pieces of a unit come from.
LEMMA ListPieces ==
  ASSUME NEW p, NEW ops, NEW t, IsList(p, ops, t), NEW id \in DOMAIN t, NEW G,
         TextOf(p.timeline[id]) \subseteq G,
         \A j \in 1..Len(ops) : ops[j].op # "insert_context" => ToSet(ops[j].text) \union ops[j].args \subseteq G
  PROVE  TextOf(Applied(p, ops).timeline[id]) \subseteq G
<1> DEFINE L == Len(ops)
           U(n) == Progress(p, ops)[n]
           S == {n \in Nat : TextOf(U(n).timeline[id]) \subseteq G}
<1>0. L \in Nat /\ U(0) = Outset(p) /\ \A j \in 1..L : Fits(ops[j])
  BY ProgressIs DEF IsList
<1>1. 0 \in S
  BY <1>0 DEF Outset
<1>2. ASSUME NEW n \in 0..(L - 1), n \in S PROVE n + 1 \in S
  <2>1. /\ Stepped(U(n), U(n + 1), ops[n + 1], p, t) /\ n \in 0..L
        /\ n + 1 \in Nat /\ n + 1 \in 1..L
    BY <1>0, ListIs
  <2>2. IsVersion(U(n).timeline[id], t[id])
    BY <2>1, ListIs DEF IsEdition
  <2>3. /\ Fits(ops[n + 1])
        /\ ops[n + 1].op # "insert_context" => ToSet(ops[n + 1].text) \union ops[n + 1].args \subseteq G
    BY <1>0, <2>1
  <2> DEFINE o == ops[n + 1]
             u == U(n)
             v == U(n + 1)
  <2> HIDE DEF U, o, u, v
  <2>4. CASE v.timeline[id] = u.timeline[id]
    BY <1>2, <2>1, <2>4 DEF u, v
  <2>5. CASE v.timeline[id] # u.timeline[id]
    <3>1. o.op # "insert_context" /\ Applies(u.timeline[id], o) /\ v.timeline[id] = EditedUnit(u.timeline[id], o)
      BY <2>1, <2>5 DEF Stepped, o, u, v
    <3>2. TextOf(v.timeline[id]) \subseteq TextOf(u.timeline[id]) \union ToSet(o.text) \union o.args
      <4>1. o \in SemanticOp /\ IsVersion(u.timeline[id], t[id])
        BY <2>2, <2>3 DEF Fits, o, u
      <4> QED
        BY <3>1, <4>1, EditedUnitIs
    <3> QED
      BY <1>2, <2>1, <2>3, <3>1, <3>2 DEF o, u, v
  <2> QED
    BY <2>4, <2>5
<1>3. \A n \in 0..L : n \in S
  <2>1. \A n \in 0..(L - 1) : n \in S => n + 1 \in S
    BY <1>2
  <2> HIDE DEF S
  <2> QED
    BY <1>0, <1>1, <2>1, Induction
<1>4. L \in 0..L
  BY <1>0
<1> QED
  BY <1>3, <1>4 DEF Applied

\* What an editor writes stays in the unit: each later operation writes its own.
LEMMA ListWritten ==
  ASSUME NEW p, NEW ops, NEW t, IsList(p, ops, t), DOMAIN ops = 1..Len(ops), NEW id \in DOMAIN t,
         \A j \in 1..Len(ops) : ops[j].op # "insert_context" => Written \in ToSet(ops[j].text) /\ Written \in ops[j].args,
         Written \in TextOf(p.timeline[id]) \/ id \in Named(p, ops)
  PROVE  Written \in TextOf(Applied(p, ops).timeline[id])
<1> DEFINE L == Len(ops)
           U(n) == Progress(p, ops)[n]
           Until(n) == UNION { Target(p.timeline, ops[j]) : j \in { k \in 1..n : ops[k].op # "insert_context" } }
           S == {n \in Nat : Written \in TextOf(p.timeline[id]) \/ id \in Until(n) => Written \in TextOf(U(n).timeline[id])}
<1>0. L \in Nat /\ U(0) = Outset(p) /\ \A j \in 1..L : Fits(ops[j])
  BY ProgressIs DEF IsList
<1>1. 0 \in S
  BY <1>0 DEF Outset
<1>2. ASSUME NEW n \in 0..(L - 1), n \in S PROVE n + 1 \in S
  <2>1. /\ Stepped(U(n), U(n + 1), ops[n + 1], p, t) /\ n \in 0..L
        /\ n + 1 \in Nat /\ n + 1 \in 1..L
    BY <1>0, ListIs
  <2>2. IsVersion(U(n).timeline[id], t[id])
    BY <2>1, ListIs DEF IsEdition
  <2>3. /\ Fits(ops[n + 1])
        /\ ops[n + 1].op # "insert_context" => Written \in ToSet(ops[n + 1].text) /\ Written \in ops[n + 1].args
    BY <1>0, <2>1
  <2>4. 1..(n + 1) = 1..n \union {n + 1}
    BY <1>0
  <2>5. Until(n + 1) = Until(n) \union (IF ops[n + 1].op # "insert_context" THEN Target(p.timeline, ops[n + 1]) ELSE {})
    BY <2>4
  <2> DEFINE o == ops[n + 1]
             u == U(n)
             v == U(n + 1)
  <2> HIDE DEF U, o, u, v, Until
  <2>6. CASE o.op # "insert_context" /\ id \in Target(p.timeline, o)
    <3>1. Applies(u.timeline[id], o) /\ v.timeline[id] = EditedUnit(u.timeline[id], o)
      BY <2>1, <2>6 DEF Stepped, o, u, v
    <3>2. o \in SemanticOp /\ IsVersion(u.timeline[id], t[id]) /\ Written \in ToSet(o.text) /\ Written \in o.args
      BY <2>2, <2>3, <2>6 DEF Fits, o, u
    <3>3. Written \in TextOf(v.timeline[id])
      BY <2>6, <3>1, <3>2, EditedUnitIs
    <3> QED
      BY <2>1, <3>3 DEF v
  <2>7. CASE ~(o.op # "insert_context" /\ id \in Target(p.timeline, o))
    <3>1. v.timeline[id] = u.timeline[id]
      BY <2>1, <2>7 DEF Stepped, o, u, v
    <3>2. id \in Until(n + 1) => id \in Until(n)
      BY <2>5, <2>7 DEF o
    <3> QED
      BY <1>2, <2>1, <3>1, <3>2 DEF u, v
  <2> QED
    BY <2>6, <2>7
<1>3. \A n \in 0..L : n \in S
  <2>1. \A n \in 0..(L - 1) : n \in S => n + 1 \in S
    BY <1>2
  <2> HIDE DEF S
  <2> QED
    BY <1>0, <1>1, <2>1, Induction
<1>4. L \in 0..L /\ Until(L) = Named(p, ops)
  BY <1>0 DEF Named
<1> QED
  BY <1>3, <1>4 DEF Applied

(***************************************************************************)
(* The operations of redact: the text of `redone' for each unit that shows *)
(* another.                                                                *)
(***************************************************************************)

\* `redone' has the units t has.
IsRedone(redone, t) ==
  /\ IsArrived(redone) /\ IsArrived(t) /\ DOMAIN redone = DOMAIN t /\ IsFiniteSet(DOMAIN t)
  /\ \A id \in DOMAIN t : redone[id].kind = t[id].kind

IsRewrite(o, id, p, redone) ==
  /\ Fits(o) /\ o.op = "replace_text" /\ o.args = {} /\ o.text = redone[id].text
  /\ Target(p.timeline, o) = {id}

\* The operations that redact returns rewrite each differing unit, and no other.
LEMMA RewritesAre ==
  ASSUME NEW t, NEW p, IsEdition(p, t), NEW redone, IsRedone(redone, t)
  PROVE  LET ops == Rewrites(p, redone)
             D == Differing(p, redone)
         IN /\ D \subseteq DOMAIN t
            /\ Len(ops) \in Nat /\ DOMAIN ops = 1..Len(ops)
            /\ \A j \in 1..Len(ops) : \E id \in D : IsRewrite(ops[j], id, p, redone)
            /\ \A id \in D : \E j \in 1..Len(ops) : IsRewrite(ops[j], id, p, redone)
            /\ Named(p, ops) = D
<1> DEFINE ops == Rewrites(p, redone)
           D == Differing(p, redone)
           ids == SetToSeq(D)
<1>1. D \subseteq DOMAIN t /\ D \subseteq DOMAIN p.timeline /\ DOMAIN t \subseteq Nat
  BY DEF Differing, IsRedone, IsArrived
<1>2. IsFiniteSet(D)
  BY <1>1, FS_Subset DEF IsRedone
<1>3. ids \in Seq(D) /\ ToSet(ids) = D
  BY <1>2, SetToSeqIs
<1>4. Len(ids) \in Nat /\ DOMAIN ids = 1..Len(ids) /\ \A j \in 1..Len(ids) : ids[j] \in D
  BY <1>3
<1>5. ops = [j \in 1..Len(ids) |-> [op |-> "replace_text", view |-> "none", unit |-> {ids[j]},
                                    text |-> redone[ids[j]].text, args |-> {}]]
  BY <1>4, Zenon DEF Rewrites
<1> HIDE DEF ops, ids, D
<1>6. Len(ops) = Len(ids) /\ DOMAIN ops = 1..Len(ops) /\ Len(ops) \in Nat
  BY <1>4, <1>5
<1>7. ASSUME NEW j \in 1..Len(ops)
      PROVE  ids[j] \in D /\ IsRewrite(ops[j], ids[j], p, redone)
  <2>1. /\ ops[j] = [op |-> "replace_text", view |-> "none", unit |-> {ids[j]},
                     text |-> redone[ids[j]].text, args |-> {}]
        /\ ids[j] \in D
    BY <1>4, <1>5, <1>6
  <2>2. /\ ops[j].op = "replace_text" /\ ops[j].unit = {ids[j]} /\ ops[j].text = redone[ids[j]].text
        /\ ops[j].args = {} /\ ops[j].view = "none"
    BY <2>1
  <2>3. ids[j] \in DOMAIN redone /\ ids[j] \in DOMAIN p.timeline /\ ids[j] \in Int
    BY <1>1, <2>1 DEF IsRedone
  <2>4. redone[ids[j]].text \in Seq(Piece)
    BY <2>3 DEF IsRedone, IsArrived, IsVersion, SemanticUnit
  <2>5. "replace_text" \in SemanticOps /\ "none" \in Views /\ {ids[j]} \in SUBSET Int /\ {} \in SUBSET Piece
    BY <2>3 DEF SemanticOps, TextOps, Views
  <2>6. ops[j] \in SemanticOp
    BY <2>1, <2>4, <2>5 DEF SemanticOp
  <2>7. Target(p.timeline, ops[j]) = {ids[j]}
    BY <2>2, <2>3 DEF Target
  <2> QED
    BY <2>1, <2>2, <2>6, <2>7 DEF Fits, IsRewrite
<1>8. \A id \in D : \E j \in 1..Len(ops) : id = ids[j]
  BY <1>3, <1>4, <1>6 DEF ToSet
<1>9. Named(p, ops) = D
  <2>1. { k \in DOMAIN ops : ops[k].op # "insert_context" } = 1..Len(ops)
    BY <1>6, <1>7 DEF IsRewrite
  <2>2. Named(p, ops) \subseteq D
    BY <1>7, <2>1 DEF Named, IsRewrite
  <2>3. D \subseteq Named(p, ops)
    BY <1>7, <1>8, <2>1 DEF Named, IsRewrite
  <2> QED
    BY <2>2, <2>3
<1>10. \A id \in D : \E j \in 1..Len(ops) : IsRewrite(ops[j], id, p, redone)
  BY <1>7, <1>8
<1>11. \A j \in 1..Len(ops) : \E id \in D : IsRewrite(ops[j], id, p, redone)
  BY <1>7
<1> QED
  BY <1>1, <1>6, <1>9, <1>10, <1>11 DEF ops, D

\* Its texts are those of `redone'; nothing else is changed.
LEMMA RewrittenIs ==
  ASSUME NEW t, NEW p, IsEdition(p, t), NEW redone, IsRedone(redone, t),
         Applied(p, Rewrites(p, redone)).ok, NEW id \in DOMAIN t
  PROVE  LET unit == Applied(p, Rewrites(p, redone)).timeline[id]
         IN IF id \in Differing(p, redone) THEN unit = [p.timeline[id] EXCEPT !.text = redone[id].text]
            ELSE unit = p.timeline[id]
<1> DEFINE ops == Rewrites(p, redone)
           D == Differing(p, redone)
           L == Len(ops)
           U(n) == Progress(p, ops)[n]
           Until(n) == UNION { Target(p.timeline, ops[j]) : j \in 1..n }
           Then == [p.timeline[id] EXCEPT !.text = redone[id].text]
           S == {n \in Nat : U(n).timeline[id] = IF id \in Until(n) THEN Then ELSE p.timeline[id]}
<1>1. /\ L \in Nat /\ DOMAIN ops = 1..L
      /\ \A j \in 1..L : \E i \in D : IsRewrite(ops[j], i, p, redone)
      /\ \A i \in D : \E j \in 1..L : IsRewrite(ops[j], i, p, redone)
  BY RewritesAre
<1>2. IsArrived(t)
  BY DEF IsRedone
<1>3. IsList(p, ops, t) /\ U(0) = Outset(p)
  <2>1. \A j \in 1..L : Fits(ops[j])
    BY <1>1 DEF IsRewrite
  <2> QED
    BY <1>1, <1>2, <2>1, ProgressIs DEF IsList
<1>4. 0 \in S
  BY <1>3 DEF Outset
<1> HIDE DEF ops, D
<1>5. ASSUME NEW n \in 0..(L - 1), n \in S PROVE n + 1 \in S
  <2>1. /\ Stepped(U(n), U(n + 1), ops[n + 1], p, t)
        /\ n + 1 \in Nat /\ n + 1 \in 1..L
    BY <1>1, <1>3, ListIs
  <2>2. 1..(n + 1) = 1..n \union {n + 1}
    BY <1>1
  <2>3. Until(n + 1) = Until(n) \union Target(p.timeline, ops[n + 1])
    BY <2>2
  <2>4. PICK i \in D : /\ ops[n + 1].op = "replace_text" /\ ops[n + 1].text = redone[i].text
                       /\ Target(p.timeline, ops[n + 1]) = {i}
    BY <1>1, <2>1 DEF IsRewrite
  <2>5. U(n + 1).timeline[id] = IF id = i THEN EditedUnit(U(n).timeline[id], ops[n + 1]) ELSE U(n).timeline[id]
    BY <2>1, <2>4 DEF Stepped
  <2>6. id = i => EditedUnit(U(n).timeline[id], ops[n + 1]) = [U(n).timeline[id] EXCEPT !.text = redone[id].text]
    BY <2>4 DEF EditedUnit
  <2>7. [Then EXCEPT !.text = redone[id].text] = Then
    <3>1. p.timeline[id] \in SemanticUnit
      BY DEF IsEdition, IsVersion
    <3> QED
      BY <3>1 DEF SemanticUnit
  <2> HIDE DEF U, Until, Then
  <2>8. CASE id = i
    <3>1. U(n).timeline[id] \in {Then, p.timeline[id]} /\ id \in Until(n + 1)
      BY <1>5, <2>3, <2>4, <2>8
    <3>2. U(n + 1).timeline[id] = Then
      BY <2>5, <2>6, <2>7, <2>8, <3>1 DEF Then
    <3> QED
      BY <2>1, <3>1, <3>2
  <2>9. CASE id # i
    BY <1>5, <2>1, <2>3, <2>4, <2>5, <2>9
  <2> QED
    BY <2>8, <2>9
<1>6. \A n \in 0..L : n \in S
  <2>1. \A n \in 0..(L - 1) : n \in S => n + 1 \in S
    BY <1>5
  <2> HIDE DEF S
  <2> QED
    BY <1>1, <1>4, <2>1, Induction
<1>7. L \in 0..L
  BY <1>1
<1>8. id \in Until(L) <=> id \in D
  <2>1. ASSUME NEW j \in 1..L, id \in Target(p.timeline, ops[j]) PROVE id \in D
    BY <1>1, <2>1 DEF IsRewrite
  <2>2. ASSUME id \in D PROVE \E j \in 1..L : id \in Target(p.timeline, ops[j])
    BY <1>1, <2>2 DEF IsRewrite
  <2> QED
    BY <2>1, <2>2
<1> QED
  BY <1>6, <1>7, <1>8 DEF Applied, ops, D

(***************************************************************************)
(* The bodies redact reads its texts from.                                 *)
(***************************************************************************)

\* What the kinds of the units depend on.
SameShape(b, c) ==
  /\ b.head.is = c.head.is /\ DOMAIN b.slots = DOMAIN c.slots
  /\ \A i \in DOMAIN b.slots :
       b.slots[i].form = c.slots[i].form /\ b.slots[i].role = c.slots[i].role

\* Two bodies of one shape normalize to timelines with the same units, whatever their
\* texts.
LEMMA SameKinds ==
  ASSUME NEW e \in Endpoint, NEW p \in Phase, NEW b, IsBody(e, p, b), NEW c, IsBody(e, p, c),
         SameShape(b, c)
  PROVE  IsRedone(Normalize(e, p, c), Normalize(e, p, b))
<1> DEFINE t == Normalize(e, p, b)
           redone == Normalize(e, p, c)
<1>1. ASSUME NEW i \in DOMAIN b.slots
      PROVE  UnitKind(e, p, c.slots, c.slots[i]) = UnitKind(e, p, b.slots, b.slots[i])
  <2> DEFINE r == b.slots[i]
             s == c.slots[i]
  <2>1. /\ r.form = s.form /\ RoleKind(r.role) = RoleKind(s.role)
        /\ ResponsesRoleKind(r.role) = ResponsesRoleKind(s.role)
        /\ AnthropicRoleKind(r.role) = AnthropicRoleKind(s.role)
    BY DEF SameShape
  <2>2. (\E j \in DOMAIN c.slots : c.slots[j].form \in {"call", "output", "text"})
        = (\E j \in DOMAIN b.slots : b.slots[j].form \in {"call", "output", "text"})
    BY DEF SameShape
  <2> HIDE DEF r, s
  <2>3. StreamKind(s) = StreamKind(r)
    BY <2>1, Zenon DEF StreamKind
  <2>4. ChatKind(s) = ChatKind(r) /\ ChatResponseKind(s) = ChatResponseKind(r)
    BY <2>1, Zenon DEF ChatKind, ChatResponseKind
  <2>5. AnthropicKind(s) = AnthropicKind(r)
    BY <2>1, Zenon DEF AnthropicKind
  <2>6. ResponsesInputKind(s) = ResponsesInputKind(r)
    BY <2>1, Zenon DEF ResponsesInputKind
  <2>7. ResponsesOutputKind(c.slots, s) = ResponsesOutputKind(b.slots, r)
    BY <2>1, <2>2, Zenon DEF ResponsesOutputKind
  <2>8. UnitKind(e, p, c.slots, s) = UnitKind(e, p, b.slots, r)
    BY <2>3, <2>4, <2>5, <2>6, <2>7, Zenon DEF UnitKind, RequestKind, ResponseKind
  <2> QED
    BY <2>8 DEF r, s
<1>2. IsArrived(t) /\ IsArrived(redone) /\ IsFiniteSet(DOMAIN t)
  BY ArrivedIs
<1>3. DOMAIN t = DOMAIN redone
  <2>1. \A id : id \in DOMAIN t <=> id \in DOMAIN redone
    BY <1>1, NormalizeIs DEF SameShape
  <2> QED
    BY <2>1
<1>4. ASSUME NEW id \in DOMAIN t PROVE redone[id].kind = t[id].kind
  <2>1. CASE id > 0
    <3>1. /\ t[id] = Unit(id, UnitKind(e, p, b.slots, b.slots[id]), b.slots[id])
          /\ redone[id] = Unit(id, UnitKind(e, p, c.slots, c.slots[id]), c.slots[id])
          /\ id \in DOMAIN b.slots
      BY <1>3, <2>1, NormalizeIs
    <3> QED
      BY <1>1, <3>1 DEF Unit
  <2>2. CASE id = 0
    <3>1. /\ t[0] = Unit(0, "instruction", TextSlot("text", "system", b.head.text))
          /\ redone[0] = Unit(0, "instruction", TextSlot("text", "system", c.head.text))
      BY <1>3, <2>2, NormalizeIs
    <3> QED
      BY <2>2, <3>1 DEF Unit
  <2> QED
    BY <1>2, <2>1, <2>2 DEF IsArrived
<1> QED
  BY <1>2, <1>3, <1>4 DEF IsRedone

\* The text of a unit that has one.
LEMMA UnitText ==
  ASSUME NEW e, NEW p \in Phase, NEW b, IsBody(e, p, b), NEW id \in DOMAIN Normalize(e, p, b), id > 0
  PROVE  /\ id \in DOMAIN b.slots /\ b.slots[id] \in Slot
         /\ Normalize(e, p, b)[id].text =
              IF HasText(Normalize(e, p, b)[id]) /\ b.slots[id].plain THEN b.slots[id].text ELSE << >>
<1> DEFINE k == UnitKind(e, p, b.slots, b.slots[id])
<1>1. id \in DOMAIN b.slots /\ Normalize(e, p, b)[id] = Unit(id, k, b.slots[id])
  BY NormalizeIs
<1>2. b.slots[id] \in Slot
  BY <1>1 DEF IsBody, NativeBody
<1> HIDE DEF k
<1> QED
  BY <1>1, <1>2 DEF Unit, HasText, Ensured

\* Of a shielded piece no secret is left, and a token comes of a secret of its own.
LEMMA ShieldPieceIs ==
  ASSUME NEW piece \in Piece
  PROVE  /\ ShieldPiece(piece) \in Piece /\ ~IsSecret(ShieldPiece(piece))
         /\ ShieldPiece(piece).kind = "token" => piece.kind = "token" \/ (IsSecret(piece) /\ ShieldPiece(piece).of = piece.of)
BY DEF ShieldPiece, Piece, IsSecret, Token

\* A text is shielded piece by piece.
LEMMA ShieldTextIs ==
  ASSUME NEW text \in Seq(Piece)
  PROVE  ShieldText(text) \in Seq(Piece) /\ ToSet(ShieldText(text)) = { ShieldPiece(piece) : piece \in ToSet(text) }
<1>1. DOMAIN text = 1..Len(text) /\ Len(text) \in Nat /\ \A i \in 1..Len(text) : text[i] \in Piece
  OBVIOUS
<1>2. \A i \in 1..Len(text) : ShieldPiece(text[i]) \in Piece
  BY <1>1, ShieldPieceIs
<1>3. ShieldText(text) = [i \in 1..Len(text) |-> ShieldPiece(text[i])]
  BY <1>1 DEF ShieldText
<1>4. ShieldText(text) \in Seq(Piece)
  BY <1>1, <1>2, <1>3
<1>5. ToSet(ShieldText(text)) = { ShieldPiece(piece) : piece \in ToSet(text) }
  BY <1>1, <1>3 DEF ToSet
<1> QED
  BY <1>4, <1>5

\* Shielding a slot changes nothing of it but the text that redact reads.
LEMMA ShieldSlotIs ==
  ASSUME NEW s \in Slot
  PROVE  /\ ShieldSlot(s) \in Slot /\ ShieldSlot(s).form = s.form /\ ShieldSlot(s).role = s.role
         /\ ShieldSlot(s).plain = s.plain /\ ShieldSlot(s).added = s.added
         /\ ShieldSlot(s).text = IF IsShielded(s) THEN ShieldText(s.text) ELSE s.text
<1>1. ShieldText(s.text) \in Seq(Piece)
  BY ShieldTextIs DEF Slot
<1>2. CASE IsShielded(s)
  <2>1. ShieldSlot(s) = [s EXCEPT !.text = ShieldText(s.text)]
    BY <1>2 DEF ShieldSlot
  <2> QED
    BY <1>1, <1>2, <2>1 DEF Slot
<1>3. CASE ~IsShielded(s)
  BY <1>3 DEF ShieldSlot
<1> QED
  BY <1>2, <1>3

\* A body with the texts of shield in it has the same units.
LEMMA ShieldBodyIs ==
  ASSUME NEW e \in Endpoint, NEW b, IsBody(e, "request", b)
  PROVE  IsBody(e, "request", ShieldBody(e, b)) /\ SameShape(b, ShieldBody(e, b))
<1> DEFINE c == ShieldBody(e, b)
           head == IF e = "responses" THEN [b.head EXCEPT !.text = ShieldText(@)] ELSE b.head
           slots == [i \in DOMAIN b.slots |-> ShieldSlot(b.slots[i])]
<1>1. /\ b.head \in [is : {"none", "text", "blocks"}, text : Seq(Piece)]
      /\ b.slots \in Seq(Slot) /\ DOMAIN b.slots = 1..Len(b.slots) /\ Len(b.slots) \in Nat
  BY DEF IsBody, NativeBody
<1>2. ShieldText(b.head.text) \in Seq(Piece)
  BY <1>1, ShieldTextIs
<1>3. head \in [is : {"none", "text", "blocks"}, text : Seq(Piece)] /\ head.is = b.head.is
  BY <1>1, <1>2
<1>4. \A i \in DOMAIN b.slots : b.slots[i] \in Slot
  BY <1>1
<1>5. \A i \in DOMAIN b.slots :
        /\ ShieldSlot(b.slots[i]) \in Slot /\ ShieldSlot(b.slots[i]).form = b.slots[i].form
        /\ ShieldSlot(b.slots[i]).role = b.slots[i].role /\ ShieldSlot(b.slots[i]).plain = b.slots[i].plain
        /\ ShieldSlot(b.slots[i]).added = b.slots[i].added
  BY <1>4, ShieldSlotIs
<1>6. slots \in Seq(Slot) /\ DOMAIN slots = DOMAIN b.slots
  BY <1>1, <1>5
<1>7. c = [head |-> head, slots |-> slots]
  BY DEF ShieldBody
<1> HIDE DEF c, head
<1>8. c \in NativeBody /\ c.slots = slots /\ c.head = head
  BY <1>3, <1>6, <1>7 DEF NativeBody
<1>9. SameShape(b, c)
  BY <1>3, <1>5, <1>6, <1>8 DEF SameShape
<1>10. IsBody(e, "request", c)
  <2>1. \A i \in DOMAIN c.slots :
          /\ c.slots[i].form = b.slots[i].form /\ c.slots[i].plain = b.slots[i].plain
          /\ c.slots[i].added = b.slots[i].added
    BY <1>5, <1>8
  <2> HIDE DEF slots
  <2> QED
    BY <1>6, <1>8, <2>1 DEF IsBody
<1> QED
  BY <1>9, <1>10 DEF c

\* What shield makes of the texts of a request.
LEMMA Shields ==
  ASSUME NEW e \in Endpoint, NEW b, IsBody(e, "request", b), Tokens(b) = {},
         NEW id \in DOMAIN Normalize(e, "request", b), id > 0
  PROVE  \A piece \in ToSet(Normalize(e, "request", ShieldBody(e, b))[id].text) :
           /\ IsShielded(b.slots[id]) => ~IsSecret(piece)
           /\ piece.kind = "token" => piece.of \in Entries(e, b)
<1> DEFINE c == ShieldBody(e, b)
           redone == Normalize(e, "request", c)
           s == b.slots[id]
           R == \A piece \in ToSet(redone[id].text) :
                  (IsShielded(s) => ~IsSecret(piece)) /\ (piece.kind = "token" => piece.of \in Entries(e, b))
<1>1. IsBody(e, "request", c) /\ "request" \in Phase
  BY ShieldBodyIs DEF Phase
<1>2. id \in DOMAIN redone
  BY <1>1, ShieldBodyIs, SameKinds DEF IsRedone
<1>3. id \in DOMAIN b.slots /\ s \in Slot /\ redone[id].text \in {c.slots[id].text, << >>}
  BY <1>1, <1>2, UnitText
<1>4. c.slots[id] = ShieldSlot(s)
  BY <1>3 DEF ShieldBody
<1>5. ToSet(s.text) \subseteq Pieces(b) /\ s.text \in Seq(Piece)
  BY <1>3 DEF Pieces, Slot
<1>6. \A piece \in ToSet(s.text) : piece.kind # "token"
  BY <1>5 DEF Tokens
<1>7. ToSet(<< >>) = {}
  BY DEF ToSet
<1>8. ASSUME IsShielded(s) PROVE R
  <2>1. c.slots[id].text = ShieldText(s.text)
    BY <1>3, <1>4, <1>8, ShieldSlotIs
  <2>2. \A piece \in ToSet(s.text) : piece \in Piece /\ IsSecret(piece) => piece.of \in Entries(e, b)
    <3>1. \A piece \in ToSet(s.text) : piece \in Piece
      BY <1>5 DEF ToSet
    <3>2. s.text \in { b.slots[i].text : i \in { j \in DOMAIN b.slots : IsShielded(b.slots[j]) } }
      BY <1>3, <1>8
    <3> QED
      BY <3>1, <3>2 DEF Entries
  <2>3. \A piece \in ToSet(ShieldText(s.text)) : ~IsSecret(piece) /\ (piece.kind = "token" => piece.of \in Entries(e, b))
    <3>1. \A piece \in ToSet(s.text) : piece \in Piece
      BY <1>5 DEF ToSet
    <3> QED
      BY <1>5, <1>6, <2>2, <3>1, ShieldTextIs, ShieldPieceIs
  <2> HIDE DEF c, redone, s
  <2> QED
    BY <1>3, <1>7, <2>1, <2>3
<1>9. ASSUME ~IsShielded(s) PROVE R
  <2>1. c.slots[id].text = s.text
    BY <1>3, <1>4, <1>9, ShieldSlotIs
  <2> HIDE DEF c, redone, s
  <2> QED
    BY <1>3, <1>6, <1>7, <1>9, <2>1
<1> QED
  BY <1>8, <1>9

\* A text is restored piece by piece.
LEMMA RestoreTextIs ==
  ASSUME NEW text \in Seq(Piece), NEW known
  PROVE  /\ RestoreText(text, known) \in Seq(Piece)
         /\ ToSet(RestoreText(text, known)) = { RestorePiece(piece, known) : piece \in ToSet(text) }
<1>1. DOMAIN text = 1..Len(text) /\ Len(text) \in Nat /\ \A i \in 1..Len(text) : text[i] \in Piece
  OBVIOUS
<1>2. \A piece \in Piece : RestorePiece(piece, known) \in Piece
  BY DEF RestorePiece, Piece, Secret
<1>3. RestoreText(text, known) = [i \in 1..Len(text) |-> RestorePiece(text[i], known)]
  BY <1>1 DEF RestoreText
<1>4. RestoreText(text, known) \in Seq(Piece)
  BY <1>1, <1>2, <1>3
<1>5. ToSet(RestoreText(text, known)) = { RestorePiece(piece, known) : piece \in ToSet(text) }
  BY <1>1, <1>3 DEF ToSet
<1> QED
  BY <1>4, <1>5

\* Restoring a slot changes nothing of it but its text and arguments.
LEMMA RestoreSlotIs ==
  ASSUME NEW s \in Slot, NEW known
  PROVE  /\ RestoreSlot(s, known) \in Slot /\ RestoreSlot(s, known).form = s.form
         /\ RestoreSlot(s, known).role = s.role /\ RestoreSlot(s, known).plain = s.plain
         /\ RestoreSlot(s, known).added = s.added
         /\ RestoreSlot(s, known).text = RestoreText(s.text, known)
<1>1. RestoreText(s.text, known) \in Seq(Piece)
  BY RestoreTextIs DEF Slot
<1>2. RestoreArgs(s.args, known) \in Arguments
  <2>1. \A piece \in Piece : RestorePiece(piece, known) \in Piece
    BY DEF RestorePiece, Piece, Secret
  <2>2. s.args \in Arguments /\ s.args.pieces \in SUBSET Piece
    BY DEF Slot, Arguments
  <2>3. RestoreArgs(s.args, known) = [s.args EXCEPT !.pieces = { RestorePiece(piece, known) : piece \in s.args.pieces }]
    BY DEF RestoreArgs
  <2>4. { RestorePiece(piece, known) : piece \in s.args.pieces } \in SUBSET Piece
    BY <2>1, <2>2
  <2> QED
    BY <2>2, <2>3, <2>4 DEF Arguments
<1>3. RestoreSlot(s, known) = [s EXCEPT !.text = RestoreText(s.text, known), !.args = RestoreArgs(s.args, known)]
  BY DEF RestoreSlot
<1> QED
  BY <1>1, <1>2, <1>3 DEF Slot

\* Restoring a body keeps its shape.
LEMMA RestoreBodyIs ==
  ASSUME NEW e \in Endpoint, NEW p, NEW b, IsBody(e, p, b), NEW known
  PROVE  /\ IsBody(e, p, RestoreBody(b, known)) /\ SameShape(b, RestoreBody(b, known))
         /\ RestoreBody(b, known).slots = [i \in DOMAIN b.slots |-> RestoreSlot(b.slots[i], known)]
<1> DEFINE c == RestoreBody(b, known)
           slots == [i \in DOMAIN b.slots |-> RestoreSlot(b.slots[i], known)]
<1>1. b \in NativeBody /\ b.slots \in Seq(Slot) /\ DOMAIN b.slots = 1..Len(b.slots) /\ Len(b.slots) \in Nat
  BY DEF IsBody, NativeBody
<1>2. c = [b EXCEPT !.slots = slots]
  BY Zenon DEF RestoreBody
<1>3. \A i \in DOMAIN b.slots :
        /\ RestoreSlot(b.slots[i], known) \in Slot /\ RestoreSlot(b.slots[i], known).form = b.slots[i].form
        /\ RestoreSlot(b.slots[i], known).role = b.slots[i].role
        /\ RestoreSlot(b.slots[i], known).plain = b.slots[i].plain
        /\ RestoreSlot(b.slots[i], known).added = b.slots[i].added
  BY <1>1, RestoreSlotIs
<1>4. slots \in Seq(Slot) /\ DOMAIN slots = DOMAIN b.slots
  BY <1>1, <1>3
<1> HIDE DEF c
<1>5. c \in NativeBody /\ c.slots = slots /\ c.head = b.head
  <2> HIDE DEF slots
  <2> QED
    BY <1>1, <1>2, <1>4 DEF NativeBody
<1>6. SameShape(b, c)
  BY <1>3, <1>4, <1>5 DEF SameShape
<1>7. IsBody(e, p, c)
  <2>1. \A i \in DOMAIN c.slots :
          /\ c.slots[i].form = b.slots[i].form /\ c.slots[i].plain = b.slots[i].plain
          /\ c.slots[i].added = b.slots[i].added
    BY <1>3, <1>5
  <2> HIDE DEF slots
  <2> QED
    BY <1>4, <1>5, <2>1 DEF IsBody
<1> QED
  BY <1>5, <1>6, <1>7 DEF c

\* What restoring makes of the texts of a reply, whose tokens are all known.
LEMMA Restores ==
  ASSUME NEW e \in Endpoint, NEW p \in Phase, NEW b, IsBody(e, p, b), NEW known,
         \A piece \in Pieces(b) : piece.kind = "token" => piece.of \in known,
         NEW id \in DOMAIN Normalize(e, p, b), id > 0
  PROVE  \A piece \in ToSet(Normalize(e, p, RestoreBody(b, known))[id].text) : piece.kind # "token"
<1> DEFINE c == RestoreBody(b, known)
           redone == Normalize(e, p, c)
           s == b.slots[id]
<1>1. IsBody(e, p, c)
  BY RestoreBodyIs
<1>2. id \in DOMAIN redone
  <2>1. SameShape(b, c)
    BY RestoreBodyIs
  <2>2. IsRedone(redone, Normalize(e, p, b))
    BY <1>1, <2>1, SameKinds
  <2> QED
    BY <2>2 DEF IsRedone
<1>3. id \in DOMAIN b.slots /\ s \in Slot /\ redone[id].text \in {c.slots[id].text, << >>}
  BY <1>1, <1>2, UnitText
<1>4. c.slots[id].text = RestoreText(s.text, known)
  <2>1. c.slots = [i \in DOMAIN b.slots |-> RestoreSlot(b.slots[i], known)]
    BY RestoreBodyIs
  <2>2. c.slots[id] = RestoreSlot(s, known)
    BY <1>3, <2>1
  <2> QED
    BY <1>3, <2>2, RestoreSlotIs
<1>5. ToSet(s.text) \subseteq Pieces(b) /\ s.text \in Seq(Piece)
  BY <1>3 DEF Pieces, Slot
<1>6. \A piece \in ToSet(s.text) : RestorePiece(piece, known).kind # "token"
  BY <1>5 DEF RestorePiece, Secret
<1>7. \A piece \in ToSet(RestoreText(s.text, known)) : piece.kind # "token"
  BY <1>5, <1>6, RestoreTextIs
<1>8. ToSet(<< >>) = {}
  BY DEF ToSet
<1>9. \A piece \in ToSet(redone[id].text) : piece.kind # "token"
  <2> HIDE DEF c, redone, s
  <2> QED
    BY <1>3, <1>4, <1>7, <1>8
<1> QED
  BY <1>9

\* What there is to restore makes another body.
LEMMA RestoredSame ==
  ASSUME NEW e \in Endpoint, NEW p, NEW b, IsBody(e, p, b), NEW known, RestoreBody(b, known) = b,
         NEW i \in DOMAIN b.slots, NEW piece \in ToSet(b.slots[i].text),
         piece.kind = "token" => piece.of \in known
  PROVE  piece.kind # "token"
<1>1. b.slots[i] \in Slot
  BY DEF IsBody, NativeBody
<1>2. RestoreText(b.slots[i].text, known) = b.slots[i].text
  <2>1. b.slots = [j \in DOMAIN b.slots |-> RestoreSlot(b.slots[j], known)]
    BY RestoreBodyIs
  <2>2. b.slots[i] = RestoreSlot(b.slots[i], known)
    BY <2>1
  <2> QED
    BY <1>1, <2>2, RestoreSlotIs
<1>3. PICK j \in DOMAIN b.slots[i].text : piece = b.slots[i].text[j]
  BY DEF ToSet
<1>4. RestorePiece(piece, known) = piece
  BY <1>2, <1>3 DEF RestoreText
<1> QED
  BY <1>4 DEF RestorePiece, Secret

(***************************************************************************)
(* Denormalization.                                                        *)
(***************************************************************************)

\* The forms of the texts each endpoint has.
LEMMA TextKindIs ==
  ASSUME NEW e, NEW p \in Phase, NEW b, IsBody(e, p, b), NEW i \in DOMAIN b.slots,
         UnitKind(e, p, b.slots, b.slots[i]) \in Kinds \ {"action", "media_ref"}
  PROVE  LET f == b.slots[i].form
         IN /\ e = "chat_completions" => f = "text"
            /\ e = "anthropic_messages" => f \in {"text", "tool_result"}
            /\ e = "responses" => f \in TextForms \ {"tool_result"} /\ (p # "request" => f # "input")
<1> DEFINE s == b.slots[i]
<1>1. s.form \in Forms(e, p) /\ e \in Endpoint
  BY DEF IsBody
<1>2. s.form \in TextForms
  BY KindIs
<1>3. CASE p = "stream_event"
  <2>1. s.form = "text"
    BY <1>3 DEF UnitKind, StreamKind, Kinds
  <2> QED
    BY <2>1 DEF TextForms
<1>4. CASE p # "stream_event" /\ e = "chat_completions"
  BY <1>1, <1>2, <1>4 DEF Forms, Phase, TextForms
<1>5. CASE p # "stream_event" /\ e = "anthropic_messages"
  BY <1>1, <1>2, <1>5 DEF Forms, Phase, TextForms
<1>6. CASE p = "request" /\ e = "responses"
  BY <1>1, <1>2, <1>6 DEF Forms, TextForms
<1>7. CASE p = "response" /\ e = "responses"
  BY <1>1, <1>2, <1>7 DEF Forms, TextForms
<1> QED
  BY <1>1, <1>3, <1>4, <1>5, <1>6, <1>7 DEF Phase, Endpoint

\* What is written in the slot of a unit, an edited one or not.
IsSet(e, p, s, r, unit, base) ==
  /\ r \in Slot /\ r.form = s.form /\ (s.plain => r.plain)
  /\ unit.kind = "instruction" => r = s
  /\ unit = base /\ IsExact(s) => r = s
  /\ s.form \notin SetsAside => Unit(unit.id, unit.kind, r) = unit
  /\ s.form \in SetsAside /\ HasText(unit) => r.text = s.text /\ r.added \in {s.added, {unit.text}}
  /\ ToSet(r.text) \union r.args.pieces \subseteq ToSet(s.text) \union s.args.pieces \union TextOf(unit)

\* A unit written back to its slot is read from it again, and an unchanged unit leaves
\* an exact slot as it was.
LEMMA SetSlotIs ==
  ASSUME NEW e \in Endpoint, NEW p \in Phase, NEW b, IsBody(e, p, b), NEW i \in DOMAIN b.slots,
         NEW unit, IsVersion(unit, Normalize(e, p, b)[i]), i \in DOMAIN Normalize(e, p, b)
  PROVE  IsSet(e, p, b.slots[i], SetSlot(e, p, b.slots[i], unit), unit, Normalize(e, p, b)[i])
<1> DEFINE s == b.slots[i]
           r == SetSlot(e, p, s, unit)
           k == UnitKind(e, p, b.slots, s)
           base == Normalize(e, p, b)[i]
<1>1. i > 0 /\ i \in Int
  BY NormalizeIs
<1>2. base = Unit(i, k, s) /\ k \in Kinds
  <2>1. base = Unit(i, k, s) /\ k # "none"
    BY <1>1, NormalizeIs
  <2> QED
    BY <2>1, KindIs
<1>3. /\ b.slots \in Seq(Slot) /\ s.form \in Forms(e, p)
      /\ s.plain \/ s.form \in {"output", "tool_result"}
  BY DEF IsBody, NativeBody
<1>4. s \in Slot
  BY <1>3
<1>5. /\ unit \in SemanticUnit /\ unit.id = i /\ unit.kind = k
      /\ unit.writable = (k \in {"prompt", "response", "observation", "action"})
      /\ ~unit.writable => unit = base
  <2>1. base.id = i /\ base.kind = k
    BY <1>2 DEF Unit
  <2> QED
    BY <2>1 DEF IsVersion
<1>6. unit = [id |-> i, kind |-> k, writable |-> unit.writable, text |-> unit.text, name |-> unit.name, args |-> unit.args]
  BY <1>5 DEF SemanticUnit
<1>7. /\ k \notin {"action", "media_ref"} => unit.name = NoName /\ unit.args = {}
      /\ k \in {"action", "media_ref"} => unit.text = << >>
      /\ k = "action" => unit.name # NoName
  BY <1>5 DEF IsVersion, HasText
<1> HIDE DEF r, s, k, base
<1>8. ASSUME k = "media_ref" PROVE IsSet(e, p, s, r, unit, base)
  <2>1. r = s /\ unit = base
    BY <1>5, <1>8 DEF r, SetSlot, HasText
  <2>2. Unit(i, k, s) = unit
    BY <1>2, <2>1
  <2> QED
    BY <1>4, <1>5, <1>8, <2>1, <2>2 DEF IsSet
<1>9. ASSUME k = "action" PROVE IsSet(e, p, s, r, unit, base)
  <2>1. r = [s EXCEPT !.name = unit.name, !.args = Json(unit.args)]
    BY <1>5, <1>9 DEF r, SetSlot, HasText, SetAnthropicAction, SetCall, Dumped
  <2>2. unit.name \in Name /\ unit.args \in SUBSET Piece /\ Json(unit.args) \in Arguments
    BY <1>5 DEF SemanticUnit, Json, Arguments
  <2>3. /\ r \in Slot /\ r.form = s.form /\ r.plain = s.plain /\ r.text = s.text
        /\ r.name = unit.name /\ r.args = Json(unit.args)
    BY <1>4, <2>1, <2>2 DEF Slot
  <2>4. ASSUME unit = base, IsExact(s) PROVE r = s
    <3>1. s.form = "call"
      BY <1>9, KindIs DEF k, s
    <3>2. s.name # NoName /\ s.args.wire = "json"
      BY <2>4, <3>1 DEF IsExact
    <3>3. unit.name = s.name /\ unit.args = s.args.pieces
      BY <1>2, <1>9, <2>4, <3>2 DEF Unit, EnsuredName, Parsed
    <3>4. Json(s.args.pieces) = s.args
      BY <1>4, <3>2 DEF Slot, Arguments, Json
    <3> QED
      BY <1>4, <2>1, <3>3, <3>4 DEF Slot
  <2>5. Unit(i, k, r) = unit
    <3>1. EnsuredName(r) = unit.name
      BY <1>7, <1>9, <2>3 DEF EnsuredName
    <3>2. Parsed(r.args) = unit.args
      BY <2>3 DEF Parsed, Json
    <3>3. unit.writable = TRUE /\ unit.text = << >>
      BY <1>5, <1>7, <1>9
    <3> QED
      BY <1>6, <1>9, <3>1, <3>2, <3>3 DEF Unit
  <2>6. r.args.pieces = unit.args
    BY <2>3 DEF Json
  <2>7. ~HasText(unit)
    BY <1>5, <1>9 DEF HasText
  <2> QED
    BY <1>5, <1>9, <2>3, <2>4, <2>5, <2>6, <2>7 DEF IsSet, TextOf
<1>10. ASSUME k \notin {"action", "media_ref"} PROVE IsSet(e, p, s, r, unit, base)
  <2>1. HasText(unit) /\ unit.text \in Seq(Piece)
    BY <1>5, <1>10 DEF HasText, SemanticUnit
  <2>2. /\ e = "chat_completions" => s.form = "text"
        /\ e = "anthropic_messages" => s.form \in {"text", "tool_result"}
        /\ e = "responses" => s.form \in TextForms \ {"tool_result"} /\ (p # "request" => s.form # "input")
    BY <1>2, <1>10, TextKindIs DEF k, s
  <2>3. CASE s.form \in SetsAside
    <3>1. r = [s EXCEPT !.added = {unit.text}]
      BY <1>5, <1>10, <2>1, <2>2, <2>3
      DEF r, SetSlot, SetAnthropicBlock, SetResponsesInput, SetsAside, Endpoint, TextForms
    <3>2. /\ r \in Slot /\ r.form = s.form /\ r.plain = s.plain /\ r.text = s.text /\ r.args = s.args
          /\ r.added = {unit.text}
      BY <1>4, <2>1, <3>1 DEF Slot
    <3>3. k # "instruction"
      BY <2>3, KindIs DEF k, s, SetsAside
    <3> QED
      BY <1>5, <2>3, <3>2, <3>3 DEF IsSet, IsExact
  <2>4. CASE s.form \notin SetsAside
    <3>1. s.form \in TextForms /\ (~s.plain => s.form = "output" /\ e = "responses")
      BY <1>3, <2>2, <2>4 DEF TextForms, SetsAside, Endpoint
    <3>2. r \in {[s EXCEPT !.text = unit.text], [s EXCEPT !.text = unit.text, !.plain = TRUE]} /\ r.plain = TRUE
      <4>1. CASE e = "chat_completions"
        <5>1. r = [s EXCEPT !.text = unit.text]
          BY <1>5, <1>10, <2>1, <4>1 DEF r, SetSlot, SetMessageText
        <5> QED
          BY <1>4, <3>1, <4>1, <5>1 DEF Slot
      <4>2. CASE e = "anthropic_messages"
        <5>1. r = [s EXCEPT !.text = unit.text]
          BY <1>5, <1>10, <2>1, <2>4, <4>2 DEF r, SetSlot, SetAnthropicBlock, SetsAside
        <5> QED
          BY <1>4, <3>1, <4>2, <5>1 DEF Slot
      <4>3. CASE e = "responses"
        <5>1. r = [s EXCEPT !.text = unit.text, !.plain = TRUE]
          BY <1>5, <1>10, <2>1, <2>4, <4>3
          DEF r, SetSlot, SetResponsesInput, SetResponsesOutput, SetsAside
        <5> QED
          BY <1>4, <5>1 DEF Slot
      <4> QED
        BY <4>1, <4>2, <4>3 DEF Endpoint
    <3>3. r \in Slot /\ r.form = s.form /\ r.text = unit.text /\ r.args = s.args
      BY <1>4, <2>1, <3>2 DEF Slot
    <3>4. ASSUME s.plain, unit.text = s.text PROVE r = s
      <4>1. [s EXCEPT !.text = s.text] = s /\ s.plain = TRUE
        BY <1>4, <3>4 DEF Slot
      <4>2. [s EXCEPT !.text = s.text, !.plain = TRUE] = s
        BY <1>4, <4>1 DEF Slot
      <4> QED
        BY <3>2, <3>4, <4>1, <4>2
    <3>5. unit = base => unit.text = IF s.plain THEN s.text ELSE << >>
      BY <1>2, <1>10 DEF Unit, Ensured
    <3>6. unit.kind = "instruction" => unit = base /\ s.plain
      <4>1. k = "instruction" => s.form = "text"
        BY KindIs DEF k, s
      <4> QED
        BY <1>5, <3>1, <4>1
    <3>7. IsExact(s) => s.plain
      BY <3>1 DEF IsExact
    <3>8. Unit(i, k, r) = unit
      <4>1. Ensured(r) = unit.text
        BY <3>2, <3>3 DEF Ensured
      <4> QED
        BY <1>5, <1>6, <1>7, <1>10, <4>1 DEF Unit
    <3>9. ToSet(r.text) \union r.args.pieces \subseteq ToSet(s.text) \union s.args.pieces \union TextOf(unit)
      BY <3>3 DEF TextOf
    <3>10. (s.plain => r.plain) /\ (unit.kind = "instruction" => r = s) /\ (unit = base /\ IsExact(s) => r = s)
      BY <3>2, <3>4, <3>5, <3>6, <3>7
    <3> QED
      BY <1>5, <2>4, <3>3, <3>8, <3>9, <3>10 DEF IsSet
  <2> QED
    BY <2>3, <2>4
<1> QED
  BY <1>8, <1>9, <1>10 DEF r, s, k, base

\* The contexts a body is sent with: a response or an event has no place for them.
Inserts(p, timeline) == IF p = "request" THEN Cardinality(Contexts(timeline)) ELSE 0

\* `out' is body b with the units of a timeline in it.
IsRebuilt(e, p, b, timeline, out) ==
  LET n == Inserts(p, timeline)
      shift == IF e = "chat_completions" THEN n ELSE 0
  IN /\ out \in NativeBody /\ Len(out.slots) = Len(b.slots) + shift
     /\ \A i \in 1..shift : out.slots[i] = TextSlot("text", "system", << Context >>)
     /\ IF e # "chat_completions" /\ n > 0
        THEN out.head = HeadText([i \in 1..n |-> Context] \o b.head.text)
        ELSE out.head = b.head
     /\ \A i \in DOMAIN b.slots :
          out.slots[i + shift] = IF i \in DOMAIN timeline THEN SetSlot(e, p, b.slots[i], timeline[i]) ELSE b.slots[i]

\* What is put in front is one context for each that was inserted.
LEMMA InFrontIs ==
  ASSUME NEW t, IsArrived(t), NEW pl, IsEdition(pl, t)
  PROVE  InFront(pl.timeline) = [i \in 1..Cardinality(Contexts(pl.timeline)) |-> Context]
<1> DEFINE timeline == pl.timeline
           n == Cardinality(Contexts(timeline))
           HasPrompt == \E id \in DOMAIN timeline : timeline[id].kind = "prompt"
<1>1. n \in Nat /\ \A id \in (-n)..(-1) : timeline[id] = ContextUnit(id)
  BY DEF IsEdition
<1>2. \A id \in (-n)..(-1) : timeline[id].text = << Context >>
  BY <1>1, ContextIs
<1>3. InFront(timeline) = [i \in 1..n |-> timeline[IF HasPrompt THEN i - n - 1 ELSE -i].text[1]]
  BY Zenon DEF InFront
<1> HIDE DEF HasPrompt, n
<1>4. ASSUME NEW i \in 1..n PROVE timeline[IF HasPrompt THEN i - n - 1 ELSE -i].text[1] = Context
  <2>1. (IF HasPrompt THEN i - n - 1 ELSE -i) \in (-n)..(-1)
    BY <1>1
  <2> QED
    BY <1>2, <2>1
<1>5. InFront(timeline) = [i \in 1..n |-> Context]
  BY <1>3, <1>4
<1> QED
  BY <1>5 DEF n

\* Rebuilding writes the units to their slots and keeps the head.
LEMMA RebuiltIs ==
  ASSUME NEW e \in Endpoint, NEW p \in Phase, NEW b, IsBody(e, p, b),
         NEW pl, IsEdition(pl, Normalize(e, p, b))
  PROVE  LET out == Rebuilt(e, p, b, pl.timeline)
         IN /\ out \in NativeBody /\ Len(out.slots) = Len(b.slots) /\ out.head = b.head
            /\ DOMAIN out.slots = DOMAIN b.slots
            /\ \A i \in DOMAIN b.slots :
                 out.slots[i] = IF i \in DOMAIN pl.timeline THEN SetSlot(e, p, b.slots[i], pl.timeline[i]) ELSE b.slots[i]
<1> DEFINE out == Rebuilt(e, p, b, pl.timeline)
           t == Normalize(e, p, b)
           slot(i) == IF i \in DOMAIN pl.timeline THEN SetSlot(e, p, b.slots[i], pl.timeline[i]) ELSE b.slots[i]
           slots == [i \in DOMAIN b.slots |-> slot(i)]
<1>1. out = [b EXCEPT !.slots = slots]
  BY Zenon DEF Rebuilt
<1>2. b \in NativeBody /\ b.slots \in Seq(Slot) /\ DOMAIN b.slots = 1..Len(b.slots) /\ Len(b.slots) \in Nat
  BY DEF IsBody, NativeBody
<1>3. IsArrived(t)
  BY ArrivedIs
<1>4. ASSUME NEW i \in DOMAIN b.slots PROVE slot(i) \in Slot
  <2>1. CASE i \in DOMAIN pl.timeline
    <3>1. i \in DOMAIN t /\ IsVersion(pl.timeline[i], t[i])
      BY <1>2, <1>3, <2>1, EditionIs
    <3>2. IsSet(e, p, b.slots[i], SetSlot(e, p, b.slots[i], pl.timeline[i]), pl.timeline[i], t[i])
      BY <3>1, SetSlotIs
    <3> QED
      BY <2>1, <3>2 DEF IsSet
  <2>2. CASE i \notin DOMAIN pl.timeline
    BY <1>2, <2>2
  <2> QED
    BY <2>1, <2>2
<1> HIDE DEF slot
<1>5. slots \in Seq(Slot) /\ DOMAIN slots = DOMAIN b.slots /\ Len(slots) = Len(b.slots)
  BY <1>2, <1>4
<1>6. \A i \in DOMAIN b.slots : slots[i] = slot(i)
  OBVIOUS
<1> HIDE DEF slots, out
<1>7. out \in NativeBody /\ out.slots = slots /\ out.head = b.head
  BY <1>1, <1>2, <1>5 DEF NativeBody
<1> QED
  BY <1>5, <1>6, <1>7 DEF slot, out

\* `out' is body b with n contexts in front of it.
IsPrefixed(e, n, b, out) ==
  LET shift == IF e = "chat_completions" THEN n ELSE 0
  IN /\ out \in NativeBody /\ Len(out.slots) = Len(b.slots) + shift
     /\ \A i \in 1..shift : out.slots[i] = TextSlot("text", "system", << Context >>)
     /\ IF e # "chat_completions" /\ n > 0
        THEN out.head = HeadText([i \in 1..n |-> Context] \o b.head.text)
        ELSE out.head = b.head
     /\ \A i \in DOMAIN b.slots : out.slots[i + shift] = b.slots[i]

\* Contexts are put in front of the slots, or of the head's text.
LEMMA WithContextsIs ==
  ASSUME NEW e, NEW b \in NativeBody, NEW n \in Nat
  PROVE  IsPrefixed(e, n, b, WithContexts(e, b, [i \in 1..n |-> Context]))
<1> DEFINE front == [i \in 1..n |-> Context]
           out == WithContexts(e, b, front)
<1>1. b.slots \in Seq(Slot) /\ b.head \in [is : {"none", "text", "blocks"}, text : Seq(Piece)]
  BY DEF NativeBody
<1>2. CASE e = "chat_completions"
  <2> DEFINE c == TextSlot("text", "system", << Context >>)
             before == [i \in 1..n |-> c]
  <2>1. out = [b EXCEPT !.slots = before \o b.slots]
    BY <1>2 DEF WithContexts
  <2>2. c \in Slot
    BY ContextIs, TextSlotIs
  <2> HIDE DEF c, out
  <2>3. before \in Seq(Slot) /\ Len(before) = n
    BY <2>2
  <2>4. /\ before \o b.slots \in Seq(Slot) /\ Len(before \o b.slots) = n + Len(b.slots)
        /\ \A i \in 1..n : (before \o b.slots)[i] = c
        /\ \A i \in DOMAIN b.slots : (before \o b.slots)[i + n] = b.slots[i]
    BY <1>1, <2>3
  <2>5. out \in NativeBody /\ out.slots = before \o b.slots /\ out.head = b.head
    <3> HIDE DEF before
    <3> QED
      BY <2>1, <2>4 DEF NativeBody
  <2> HIDE DEF before
  <2>6. IsPrefixed(e, n, b, out)
    BY <1>1, <1>2, <2>4, <2>5 DEF IsPrefixed, c
  <2> QED
    BY <2>6 DEF out
<1>3. CASE e # "chat_completions" /\ n = 0
  <2>1. front = << >>
    BY <1>3
  <2>2. out = b
    BY <1>3, <2>1, Zenon DEF WithContexts
  <2>3. \A i \in DOMAIN b.slots : i + 0 = i
    BY <1>1
  <2> HIDE DEF out
  <2>4. IsPrefixed(e, n, b, out)
    BY <1>1, <1>3, <2>2, <2>3 DEF IsPrefixed
  <2> QED
    BY <2>4 DEF out
<1>4. CASE e # "chat_completions" /\ n > 0
  <2>1. front # << >> /\ front \in Seq(Piece)
    BY <1>4, ContextIs
  <2>2. out = [b EXCEPT !.head = HeadText(front \o b.head.text)]
    BY <1>4, <2>1 DEF WithContexts
  <2>3. front \o b.head.text \in Seq(Piece)
    BY <1>1, <2>1
  <2>4. HeadText(front \o b.head.text) \in [is : {"none", "text", "blocks"}, text : Seq(Piece)]
    BY <2>3 DEF HeadText
  <2> HIDE DEF out, front
  <2>5. out \in NativeBody /\ out.slots = b.slots /\ out.head = HeadText(front \o b.head.text)
    BY <2>2, <2>4 DEF NativeBody
  <2>6. \A i \in DOMAIN b.slots : i + 0 = i
    BY <1>1
  <2>7. IsPrefixed(e, n, b, out)
    BY <1>1, <1>4, <2>5, <2>6 DEF IsPrefixed, front
  <2> QED
    BY <2>7 DEF out, front
<1> QED
  BY <1>2, <1>3, <1>4

\* A payload that can be denormalized makes that body.
LEMMA DenormalizedIs ==
  ASSUME NEW e \in Endpoint, NEW p \in Phase, NEW b, IsBody(e, p, b),
         NEW pl, IsEdition(pl, Normalize(e, p, b)),
         NEW out, Denormalize(e, p, b, pl.timeline) = Body(out)
  PROVE  IsRebuilt(e, p, b, pl.timeline, out)
<1> DEFINE tl == pl.timeline
           R == Rebuilt(e, p, b, tl)
           n == Cardinality(Contexts(tl))
<1>1. \A x, y : Body(x) = Body(y) => x = y
  BY DEF Body
<1>2. \A x, y : Error(x) # Body(y)
  BY DEF Body, Error
<1>3. n \in Nat /\ IsArrived(Normalize(e, p, b))
  BY ArrivedIs DEF IsEdition
<1>4. /\ R \in NativeBody /\ Len(R.slots) = Len(b.slots) /\ R.head = b.head
      /\ DOMAIN R.slots = DOMAIN b.slots
      /\ \A i \in DOMAIN b.slots :
           R.slots[i] = IF i \in DOMAIN tl THEN SetSlot(e, p, b.slots[i], tl[i]) ELSE b.slots[i]
  BY RebuiltIs
<1>5. CASE p = "request"
  <2>1. out = WithContexts(e, R, InFront(tl))
    <3>1. Denormalize(e, p, b, tl) = DenormalizeRequest(e, b, tl)
      BY <1>5 DEF Denormalize
    <3>2. DenormalizeRequest(e, b, tl) \in {Error(b), Body(WithContexts(e, R, InFront(tl)))}
      BY <1>5, Zenon DEF DenormalizeRequest
    <3> QED
      BY <1>1, <1>2, <3>1, <3>2, Zenon
  <2>2. InFront(tl) = [i \in 1..n |-> Context]
    BY <1>3, InFrontIs
  <2> HIDE DEF R, n
  <2>3. IsPrefixed(e, n, R, out)
    BY <1>3, <1>4, <2>1, <2>2, WithContextsIs
  <2>4. Inserts(p, tl) = n
    BY <1>5 DEF Inserts, n
  <2> QED
    BY <1>4, <2>3, <2>4 DEF IsRebuilt, IsPrefixed
<1>6. CASE p # "request"
  <2>1. out = R
    <3>1. CASE p = "response"
      BY <1>1, <3>1 DEF Denormalize, DenormalizeResponse
    <3>2. CASE p = "stream_event"
      <4>1. Denormalize(e, p, b, tl) = DenormalizeStream(e, b, tl)
        BY <3>2 DEF Denormalize
      <4>2. DenormalizeStream(e, b, tl) \in {Error(b), Body(R)}
        BY <3>2, Zenon DEF DenormalizeStream
      <4> QED
        BY <1>1, <1>2, <4>1, <4>2, Zenon
    <3> QED
      BY <1>6, <3>1, <3>2 DEF Phase
  <2>2. Inserts(p, tl) = 0
    BY <1>6 DEF Inserts
  <2>3. Len(R.slots) = Len(R.slots) + 0 /\ \A i \in DOMAIN b.slots : i + 0 = i
    <3>1. DOMAIN b.slots = 1..Len(b.slots) /\ Len(b.slots) \in Nat
      BY NormalizeIs
    <3> QED
      BY <1>4, <3>1
  <2> HIDE DEF R
  <2> QED
    BY <1>4, <2>1, <2>2, <2>3 DEF IsRebuilt
<1> QED
  BY <1>5, <1>6

\* The pieces of a body are those of its head and of its slots.
LEMMA PiecesAre ==
  ASSUME NEW b
  PROVE  /\ ToSet(b.head.text) \subseteq Pieces(b)
         /\ \A i \in DOMAIN b.slots : ToSet(b.slots[i].text) \union b.slots[i].args.pieces \subseteq Pieces(b)
         /\ \A piece \in Pieces(b) :
              \/ piece \in ToSet(b.head.text)
              \/ \E i \in DOMAIN b.slots : piece \in ToSet(b.slots[i].text) \union b.slots[i].args.pieces
<1> DEFINE texts == { b.slots[i].text : i \in DOMAIN b.slots } \union { b.head.text }
           T == UNION { ToSet(text) : text \in texts }
           A == UNION { b.slots[i].args.pieces : i \in DOMAIN b.slots }
<1>1. Pieces(b) = T \union A
  BY Zenon DEF Pieces
<1>2. ASSUME NEW piece \in T
      PROVE  piece \in ToSet(b.head.text) \/ \E i \in DOMAIN b.slots : piece \in ToSet(b.slots[i].text)
  <2>1. PICK text \in texts : piece \in ToSet(text)
    BY <1>2
  <2> QED
    BY <2>1
<1>3. ToSet(b.head.text) \subseteq T
  <2>1. b.head.text \in texts
    OBVIOUS
  <2> HIDE DEF texts
  <2> QED
    BY <2>1
<1>4. ASSUME NEW i \in DOMAIN b.slots PROVE ToSet(b.slots[i].text) \subseteq T
  <2>1. b.slots[i].text \in texts
    OBVIOUS
  <2> HIDE DEF texts
  <2> QED
    BY <2>1
<1>5. ASSUME NEW i \in DOMAIN b.slots PROVE b.slots[i].args.pieces \subseteq A
  OBVIOUS
<1>6. ASSUME NEW piece \in A PROVE \E i \in DOMAIN b.slots : piece \in b.slots[i].args.pieces
  OBVIOUS
<1> HIDE DEF T, A
<1> QED
  BY <1>1, <1>2, <1>3, <1>4, <1>5, <1>6

\* Where the pieces of a body that is sent come from.
LEMMA RebuiltPieces ==
  ASSUME NEW e \in Endpoint, NEW p \in Phase, NEW b, IsBody(e, p, b),
         NEW pl, IsEdition(pl, Normalize(e, p, b)),
         NEW out, IsRebuilt(e, p, b, pl.timeline, out), NEW piece \in Pieces(out)
  PROVE  piece = Context \/ piece \in Pieces(b) \/ \E id \in DOMAIN pl.timeline : piece \in TextOf(pl.timeline[id])
<1> DEFINE n == Inserts(p, pl.timeline)
           shift == IF e = "chat_completions" THEN n ELSE 0
           t == Normalize(e, p, b)
           Goal == piece = Context \/ piece \in Pieces(b) \/ \E id \in DOMAIN pl.timeline : piece \in TextOf(pl.timeline[id])
<1>1. n \in Nat /\ shift \in Nat /\ IsArrived(t)
  BY ArrivedIs DEF Inserts, IsEdition
<1>2. b.slots \in Seq(Slot) /\ Len(b.slots) \in Nat /\ DOMAIN b.slots = 1..Len(b.slots) /\ b.head.text \in Seq(Piece)
  BY DEF IsBody, NativeBody
<1>3. out \in NativeBody /\ DOMAIN out.slots = 1..(Len(b.slots) + shift)
  <2>1. out \in NativeBody /\ Len(out.slots) = Len(b.slots) + shift
    BY DEF IsRebuilt
  <2>2. out.slots \in Seq(Slot)
    BY <2>1 DEF NativeBody
  <2> HIDE DEF shift
  <2> QED
    BY <2>1, <2>2
<1>4. ToSet(b.head.text) \subseteq Pieces(b)
  BY PiecesAre
<1>5. ASSUME piece \in ToSet(out.head.text) PROVE Goal
  <2> DEFINE front == [i \in 1..n |-> Context]
  <2>1. out.head.text = b.head.text \/ out.head.text = front \o b.head.text
    <3>1. out.head = b.head \/ out.head = HeadText(front \o b.head.text)
      BY DEF IsRebuilt
    <3>2. HeadText(front \o b.head.text).text = front \o b.head.text
      BY DEF HeadText
    <3> QED
      BY <3>1, <3>2
  <2>2. front \in Seq(Piece) /\ \A x \in ToSet(front) : x = Context
    <3>1. front \in Seq(Piece)
      BY <1>1, ContextIs
    <3> QED
      BY <3>1 DEF ToSet
  <2> HIDE DEF front
  <2>3. ToSet(front \o b.head.text) = ToSet(front) \union ToSet(b.head.text)
    BY <1>2, <2>2, ToSetConcat
  <2> QED
    BY <1>4, <1>5, <2>1, <2>2, <2>3
<1>6. ASSUME NEW j \in DOMAIN out.slots, piece \in ToSet(out.slots[j].text) \union out.slots[j].args.pieces
      PROVE  Goal
  <2>1. CASE j <= shift
    <3>1. out.slots[j] = TextSlot("text", "system", << Context >>)
      <4>1. j \in 1..shift
        BY <1>1, <1>2, <1>3, <2>1
      <4> QED
        BY <4>1 DEF IsRebuilt
    <3>2. out.slots[j].text = << Context >> /\ out.slots[j].args = NoArgs
      BY <3>1, ContextIs, TextSlotIs
    <3> QED
      BY <1>6, <3>2 DEF ToSet, NoArgs
  <2>2. CASE j > shift
    <3> DEFINE i == j - shift
    <3>1. i \in DOMAIN b.slots /\ i + shift = j
      BY <1>1, <1>2, <1>3, <2>2
    <3> HIDE DEF i
    <3>2. out.slots[j] = IF i \in DOMAIN pl.timeline THEN SetSlot(e, p, b.slots[i], pl.timeline[i]) ELSE b.slots[i]
      BY <3>1 DEF IsRebuilt
    <3>3. ToSet(b.slots[i].text) \union b.slots[i].args.pieces \subseteq Pieces(b)
      BY <3>1, PiecesAre
    <3>4. CASE i \in DOMAIN pl.timeline
      <4>1. i \in DOMAIN t /\ IsVersion(pl.timeline[i], t[i])
        BY <1>1, <1>2, <3>1, <3>4, EditionIs
      <4>2. IsSet(e, p, b.slots[i], SetSlot(e, p, b.slots[i], pl.timeline[i]), pl.timeline[i], t[i])
        BY <3>1, <4>1, SetSlotIs
      <4>3. ToSet(out.slots[j].text) \union out.slots[j].args.pieces
            \subseteq ToSet(b.slots[i].text) \union b.slots[i].args.pieces \union TextOf(pl.timeline[i])
        BY <3>2, <3>4, <4>2 DEF IsSet
      <4> QED
        BY <1>6, <3>3, <3>4, <4>3
    <3>5. CASE i \notin DOMAIN pl.timeline
      BY <1>6, <3>2, <3>3, <3>5
    <3> QED
      BY <3>4, <3>5
  <2> QED
    BY <1>1, <1>3, <2>1, <2>2
<1>7. piece \in ToSet(out.head.text) \/ \E j \in DOMAIN out.slots : piece \in ToSet(out.slots[j].text) \union out.slots[j].args.pieces
  BY PiecesAre
<1> QED
  BY <1>5, <1>6, <1>7

(***************************************************************************)
(* The steps.                                                              *)
(***************************************************************************)

\* A list of operations takes effect as a whole or not at all.
LEMMA MutatedIs ==
  ASSUME phase \in Phase, NEW ops
  PROVE  LET m == Mutated(ops)
         IN \/ /\ ops # << >> /\ Applied(payload, ops).ok /\ m.ok
               /\ m.payload = Saved(Applied(payload, ops))
               /\ Denormalize(endpoint, phase, native, m.payload.timeline) = Body(m.body)
            \/ m.payload = payload /\ m.body = body /\ (m.ok <=> ops = << >>)
<1> DEFINE updated == Applied(payload, ops)
           sending == Denormalize(endpoint, phase, native, updated.timeline)
<1>1. sending.ok => sending = Body(sending.body)
  <2>1. \A x : ~Error(x).ok /\ Body(x) = Body(Body(x).body)
    BY DEF Error, Body
  <2>2. \E x : sending \in {Error(x), Body(x)}
    BY Zenon DEF Denormalize, DenormalizeRequest, DenormalizeResponse, DenormalizeStream, Phase
  <2> QED
    BY <2>1, <2>2
<1> HIDE DEF sending, updated
<1>2. CASE ops # << >> /\ updated.ok /\ sending.ok
  <2>1. Mutated(ops) = [ok |-> TRUE, payload |-> Saved(updated), body |-> sending.body]
    BY <1>2, Zenon DEF Mutated, Source, updated, sending
  <2>2. Saved(updated).timeline = updated.timeline
    BY DEF Saved
  <2> QED
    BY <1>1, <1>2, <2>1, <2>2 DEF updated, sending
<1>3. CASE ~(ops # << >> /\ updated.ok /\ sending.ok)
  <2>1. Mutated(ops) = [ok |-> ops = << >>, payload |-> payload, body |-> body]
    BY <1>3, Zenon DEF Mutated, Source, updated, sending
  <2>2. Mutated(ops).payload = payload /\ Mutated(ops).body = body /\ Mutated(ops).ok = (ops = << >>)
    BY <2>1
  <2> QED
    BY <2>2
<1> QED
  BY <1>2, <1>3

\* How operations change the payload and the body, if they do.
Changes(ops) ==
  \/ /\ ops # << >> /\ Mutated(ops).ok /\ IsList(payload, ops, Arrived)
     /\ payload' = Saved(Applied(payload, ops))
  \/ payload' = payload /\ body' = body /\ (Mutated(ops).ok <=> ops = << >>)

\* Operations that are applied, and those that are refused, leave an edition and the body
\* that it denormalizes to.
LEMMA MutateIs ==
  ASSUME PIInv, NEW ops, NEW plugin, Mutate(plugin, ops),
         Len(ops) \in Nat, DOMAIN ops = 1..Len(ops), \A j \in 1..Len(ops) : Fits(ops[j])
  PROVE  /\ Arrived' = Arrived /\ Changes(ops)
         /\ queue' \in Seq({"editor", "redact"})
         /\ body' \in NativeBody /\ IsEdition(payload', Arrived) /\ BodyInv'
         /\ \A piece \in Pieces(body') :
              \/ piece = Context \/ piece \in Pieces(native) \/ piece \in Pieces(body)
              \/ \E id \in DOMAIN payload'.timeline : piece \in TextOf(payload'.timeline[id])
<1>1. /\ endpoint \in Endpoint /\ phase \in Phase /\ IsBody(endpoint, phase, native) /\ body \in NativeBody
      /\ queue \in Seq({"editor", "redact"}) /\ IsEdition(payload, Arrived) /\ BodyInv
  BY DEF PIInv, PTypeOK
<1>2. /\ queue # << >> /\ queue' = Tail(queue) /\ payload' = Mutated(ops).payload /\ body' = Mutated(ops).body
      /\ UNCHANGED << endpoint, order, phase, native, sent >>
  BY DEF Mutate
<1>3. Arrived' = Arrived
  BY <1>2 DEF Arrived
<1>4. queue' \in Seq({"editor", "redact"})
  BY <1>1, <1>2
<1>5. IsArrived(Arrived)
  BY <1>1, ArrivedIs DEF Arrived
<1> DEFINE Rest == /\ Changes(ops) /\ body' \in NativeBody /\ IsEdition(payload', Arrived) /\ BodyInv'
                   /\ \A piece \in Pieces(body') :
                        \/ piece = Context \/ piece \in Pieces(native) \/ piece \in Pieces(body)
                        \/ \E id \in DOMAIN payload'.timeline : piece \in TextOf(payload'.timeline[id])
<1>6. ASSUME ops # << >>, Applied(payload, ops).ok, Mutated(ops).ok,
             payload' = Saved(Applied(payload, ops)),
             Denormalize(endpoint, phase, native, payload'.timeline) = Body(body')
      PROVE  Rest
  <2>1. IsList(payload, ops, Arrived)
    BY <1>1, <1>5, <1>6 DEF IsList
  <2>2. IsEdition(Applied(payload, ops), Arrived)
    BY <2>1, ListAudit
  <2>3. payload'.timeline = Applied(payload, ops).timeline /\ payload'.audit = Applied(payload, ops).audit
    BY <1>6 DEF Saved
  <2>4. IsEdition(payload', Arrived)
    BY <2>2, <2>3 DEF IsEdition
  <2>5. IsRebuilt(endpoint, phase, native, payload'.timeline, body')
    BY <1>1, <1>6, <2>4, DenormalizedIs DEF Arrived
  <2>6. body' \in NativeBody
    BY <2>5 DEF IsRebuilt
  <2>7. \A piece \in Pieces(body') :
          \/ piece = Context \/ piece \in Pieces(native)
          \/ \E id \in DOMAIN payload'.timeline : piece \in TextOf(payload'.timeline[id])
    BY <1>1, <2>4, <2>5, RebuiltPieces DEF Arrived
  <2>8. BodyInv'
    BY <1>2, <1>6 DEF BodyInv
  <2> QED
    BY <1>6, <2>1, <2>4, <2>6, <2>7, <2>8 DEF Changes
<1>7. ASSUME payload' = payload, body' = body, Mutated(ops).ok <=> ops = << >> PROVE Rest
  <2>1. BodyInv'
    BY <1>1, <1>2, <1>7 DEF BodyInv, Shown
  <2> QED
    BY <1>1, <1>7, <2>1 DEF Changes
<1>8. Rest
  <2> HIDE DEF Rest
  <2> QED
    BY <1>1, <1>2, <1>6, <1>7, MutatedIs
<1> QED
  BY <1>3, <1>4, <1>8

\* The pieces of a version with a text are those of its text.
LEMMA VersionText ==
  ASSUME NEW unit, NEW base, IsVersion(unit, base)
  PROVE  HasText(unit) => TextOf(unit) = ToSet(unit.text)
BY DEF IsVersion, TextOf

\* A version of a call or a medium has no text.
LEMMA VersionNoText ==
  ASSUME NEW unit, NEW base, IsVersion(unit, base), ~HasText(unit)
  PROVE  ToSet(unit.text) = {}
BY DEF IsVersion, ToSet

\* What an edit makes of the texts.
LEMMA EditIs ==
  ASSUME PIInv, PayloadAssumption, Edit, NEW id \in DOMAIN Arrived
  PROVE  /\ \A piece \in TextOf(payload'.timeline[id]) :
              piece \in TextOf(payload.timeline[id]) \/ piece.kind \notin {"secret", "token"}
         /\ \A piece \in ToSet(payload'.timeline[id].text) :
              piece \in ToSet(payload.timeline[id].text) \/ piece.kind \notin {"secret", "token"}
<1>1. PICK ops \in Operation : Mutate("editor", ops)
  BY DEF Edit
<1>2. /\ Len(ops) \in Nat /\ DOMAIN ops = 1..Len(ops)
      /\ \A j \in 1..Len(ops) : ops[j] \in EditorOp /\ Fits(ops[j])
  <2>1. ops \in Seq(EditorOp)
    BY <1>1 DEF PayloadAssumption
  <2>2. \A o \in EditorOp : Fits(o)
    BY DEF EditorOp, Fits
  <2> QED
    BY <2>1, <2>2
<1>3. Changes(ops) /\ IsEdition(payload', Arrived) /\ IsEdition(payload, Arrived)
  BY <1>1, <1>2, MutateIs DEF PIInv
<1> DEFINE unit == payload.timeline[id]
           new == payload'.timeline[id]
<1>4. ASSUME NEW piece \in TextOf(new) PROVE piece \in TextOf(unit) \/ piece.kind \notin {"secret", "token"}
  <2>1. CASE payload' = payload
    BY <1>4, <2>1
  <2>2. CASE IsList(payload, ops, Arrived) /\ payload' = Saved(Applied(payload, ops))
    <3> DEFINE Of(j) == IF ops[j].op # "insert_context" THEN ToSet(ops[j].text) \union ops[j].args ELSE {}
               Ours == UNION { Of(j) : j \in 1..Len(ops) }
               G == TextOf(unit) \union Ours
    <3>1. \A j \in 1..Len(ops) : ops[j].op # "insert_context" => ToSet(ops[j].text) \union ops[j].args \subseteq G
      <4>1. \A j \in 1..Len(ops) : Of(j) \subseteq Ours
        OBVIOUS
      <4> HIDE DEF Ours
      <4> QED
        BY <4>1
    <3>2. \A x \in Ours : x.kind \notin {"secret", "token"}
      BY <1>2 DEF EditorOp
    <3>3. new = Applied(payload, ops).timeline[id]
      BY <2>2 DEF Saved
    <3> HIDE DEF Ours
    <3>4. TextOf(Applied(payload, ops).timeline[id]) \subseteq G
      BY <2>2, <3>1, ListPieces
    <3> QED
      BY <1>4, <3>2, <3>3, <3>4
  <2> QED
    BY <1>3, <2>1, <2>2 DEF Changes
<1>5. IsVersion(unit, Arrived[id]) /\ IsVersion(new, Arrived[id])
  BY <1>3 DEF IsEdition
<1>6. HasText(unit) <=> HasText(new)
  BY <1>5 DEF IsVersion, HasText
<1>7. ASSUME NEW piece \in ToSet(new.text) PROVE piece \in ToSet(unit.text) \/ piece.kind \notin {"secret", "token"}
  <2> HIDE DEF unit, new
  <2>1. HasText(new) /\ TextOf(new) = ToSet(new.text)
    BY <1>5, <1>7, VersionText, VersionNoText
  <2>2. TextOf(unit) = ToSet(unit.text)
    BY <1>5, <1>6, <2>1, VersionText
  <2> QED
    BY <1>4, <1>7, <2>1, <2>2
<1> QED
  BY <1>4, <1>7

\* The units that can be written are in the slots.
LEMMA WritableSlot ==
  ASSUME NEW e, NEW p \in Phase, NEW b, IsBody(e, p, b), NEW id \in DOMAIN Normalize(e, p, b),
         Normalize(e, p, b)[id].writable
  PROVE  id > 0 /\ id \in DOMAIN b.slots
<1>1. id \in Nat
  BY ArrivedIs DEF IsArrived
<1>2. id # 0
  <2>1. id = 0 => Normalize(e, p, b)[id] = Unit(0, "instruction", TextSlot("text", "system", b.head.text))
    BY NormalizeIs
  <2>2. ~Unit(0, "instruction", TextSlot("text", "system", b.head.text)).writable
    BY DEF Unit
  <2> QED
    BY <2>1, <2>2
<1>3. id > 0
  BY <1>1, <1>2
<1> QED
  BY <1>3, NormalizeIs

\* The units an operation is accepted for are those that the list names.
LEMMA RewrittenNamed ==
  ASSUME NEW ops
  PROVE  /\ Rewritten(ops) = Named(payload, ops)
         /\ ops = << >> => Rewritten(ops) = {}
BY DEF Rewritten, Named

\* The units an editor was the last to rewrite are those of a slot.
LEMMA EditedUnits ==
  ASSUME PIInv
  PROVE  IsArrived(Arrived) /\ \A id \in edited : id > 0 /\ id \in DOMAIN Arrived
<1>1. IsArrived(Arrived)
  BY ArrivedIs DEF PIInv, PTypeOK, Arrived
<1>2. ASSUME NEW id \in edited PROVE id > 0 /\ id \in DOMAIN Arrived
  <2>1. id > 0 /\ id \in DOMAIN payload.timeline /\ IsEdition(payload, Arrived)
    BY <1>2 DEF PIInv, EditedInv, IsEdition
  <2>2. id \in Int
    BY <1>1, <2>1, EditionIs
  <2> QED
    BY <1>1, <2>1, <2>2, EditionIs
<1> QED
  BY <1>1, <1>2

\* The pieces of the units that are known make the pieces of the body that are.
LEMMA KnownBody ==
  ASSUME PIInv, NEW ops, NEW plugin, Mutate(plugin, ops),
         Len(ops) \in Nat, DOMAIN ops = 1..Len(ops), \A j \in 1..Len(ops) : Fits(ops[j]),
         entries \subseteq entries',
         phase = "request" => entries' \in {{}, Entries(endpoint, native)},
         \A id \in DOMAIN Arrived : \A piece \in TextOf(payload'.timeline[id]) :
           piece.kind = "token" => piece.of \in entries'
  PROVE  TokenInv'
<1>1. /\ Arrived' = Arrived /\ IsEdition(payload', Arrived) /\ IsArrived(Arrived)
      /\ \A piece \in Pieces(body') :
           \/ piece = Context \/ piece \in Pieces(native) \/ piece \in Pieces(body)
           \/ \E id \in DOMAIN payload'.timeline : piece \in TextOf(payload'.timeline[id])
  BY MutateIs, EditedUnits
<1>2. UNCHANGED << endpoint, phase, native, sent >>
  BY DEF Mutate
<1>3. \A piece \in Pieces(native) \union Pieces(body) \union sent : piece.kind = "token" => piece.of \in entries'
  BY DEF PIInv, TokenInv, IsKnown
<1>4. ASSUME NEW id \in DOMAIN payload'.timeline, NEW piece \in TextOf(payload'.timeline[id])
      PROVE  piece.kind = "token" => piece.of \in entries'
  <2>1. CASE id \in DOMAIN Arrived
    BY <1>4, <2>1
  <2>2. CASE id \notin DOMAIN Arrived
    <3>1. id \in Int /\ id < 0 /\ payload'.timeline[id] = ContextUnit(id)
      BY <1>1, <1>4, <2>2, EditionIs
    <3>2. TextOf(payload'.timeline[id]) = {Context}
      BY <3>1, ContextIs DEF TextOf, ToSet
    <3> QED
      BY <1>4, <3>2 DEF Context
  <2> QED
    BY <2>1, <2>2
<1>5. \A piece \in Pieces(body') : piece.kind = "token" => piece.of \in entries'
  BY <1>1, <1>3, <1>4 DEF Context
<1>6. phase = "request" => Tokens(native) = {}
  BY DEF PIInv, TokenInv
<1> QED
  BY <1>2, <1>3, <1>4, <1>5, <1>6 DEF TokenInv, IsKnown

\* The invariant is kept by an editor's turn.
LEMMA EditPreserves ==
  ASSUME PIInv, PayloadAssumption, Edit
  PROVE  PIInv'
<1>1. PICK ops \in Operation :
        /\ Mutate("editor", ops) /\ UNCHANGED << entries, redacted >>
        /\ edited' = IF Mutated(ops).ok THEN edited \union Rewritten(ops) ELSE edited
  BY DEF Edit
<1>2. /\ Len(ops) \in Nat /\ DOMAIN ops = 1..Len(ops)
      /\ \A j \in 1..Len(ops) : ops[j] \in EditorOp /\ Fits(ops[j])
  <2>1. ops \in Seq(EditorOp)
    BY <1>1 DEF PayloadAssumption
  <2>2. \A o \in EditorOp : Fits(o)
    BY DEF EditorOp, Fits
  <2> QED
    BY <2>1, <2>2
<1>3. /\ Arrived' = Arrived /\ Changes(ops) /\ queue' \in Seq({"editor", "redact"})
      /\ body' \in NativeBody /\ IsEdition(payload', Arrived) /\ BodyInv'
  BY <1>1, <1>2, MutateIs
<1>4. UNCHANGED << endpoint, order, phase, native, sent >>
  BY <1>1 DEF Mutate
<1>5. PTypeOK' /\ IsEdition(payload, Arrived)'
  BY <1>1, <1>3, <1>4 DEF PIInv, PTypeOK
<1>6. \A id \in DOMAIN Arrived :
        /\ \A piece \in TextOf(payload'.timeline[id]) :
             piece \in TextOf(payload.timeline[id]) \/ piece.kind \notin {"secret", "token"}
        /\ \A piece \in ToSet(payload'.timeline[id].text) :
             piece \in ToSet(payload.timeline[id].text) \/ piece.kind \notin {"secret", "token"}
  BY EditIs
<1>7. EditedInv'
  <2>1. CASE payload' = payload /\ (Mutated(ops).ok <=> ops = << >>)
    <3>1. edited' = edited
      BY <1>1, <2>1, RewrittenNamed
    <3> QED
      BY <2>1, <3>1 DEF PIInv, EditedInv
  <2>2. CASE IsList(payload, ops, Arrived) /\ payload' = Saved(Applied(payload, ops)) /\ Mutated(ops).ok
    <3>1. edited' = edited \union Named(payload, ops)
      BY <1>1, <2>2, RewrittenNamed
    <3>2. /\ Named(payload, ops) \subseteq DOMAIN Arrived /\ \A id \in Named(payload, ops) : Arrived[id].writable
          /\ payload.audit \union Named(payload, ops) \subseteq payload'.audit
      <4>1. /\ Named(payload, ops) \subseteq DOMAIN Arrived /\ \A id \in Named(payload, ops) : Arrived[id].writable
            /\ payload.audit \union Named(payload, ops) \subseteq Applied(payload, ops).audit
        BY <1>2, <2>2, ListAudit
      <4>2. payload'.audit = Applied(payload, ops).audit
        BY <2>2 DEF Saved
      <4> QED
        BY <4>1, <4>2
    <3>3. ASSUME NEW id \in edited'
          PROVE  id \in payload'.audit /\ id > 0 /\ Written \in TextOf(payload'.timeline[id])
      <4>1. id \in DOMAIN Arrived /\ id > 0 /\ id \in payload'.audit
        <5>1. CASE id \in edited
          BY <3>2, <5>1, EditedUnits DEF PIInv, EditedInv
        <5>2. CASE id \in Named(payload, ops)
          <6>1. id \in DOMAIN Arrived /\ Arrived[id].writable
            BY <3>2, <5>2
          <6>2. id > 0
            BY <6>1, WritableSlot DEF Arrived, PIInv, PTypeOK
          <6> QED
            BY <3>2, <5>2, <6>1, <6>2
        <5> QED
          BY <3>1, <3>3, <5>1, <5>2
      <4>2. \A j \in 1..Len(ops) : ops[j].op # "insert_context" => Written \in ToSet(ops[j].text) /\ Written \in ops[j].args
        BY <1>2 DEF EditorOp
      <4>3. Written \in TextOf(payload.timeline[id]) \/ id \in Named(payload, ops)
        BY <3>1, <3>3 DEF PIInv, EditedInv
      <4>4. Written \in TextOf(Applied(payload, ops).timeline[id])
        BY <1>2, <2>2, <4>1, <4>2, <4>3, ListWritten
      <4>5. payload'.timeline = Applied(payload, ops).timeline
        BY <2>2 DEF Saved
      <4> QED
        BY <4>1, <4>4, <4>5
    <3> QED
      BY <3>3 DEF EditedInv
  <2> QED
    BY <1>3, <2>1, <2>2 DEF Changes
<1>8. TokenInv'
  <2>1. \A id \in DOMAIN Arrived : \A piece \in TextOf(payload'.timeline[id]) :
          piece.kind = "token" => piece.of \in entries'
    <3>1. \A id \in DOMAIN Arrived : \A piece \in TextOf(payload.timeline[id]) :
            piece.kind = "token" => piece.of \in entries
      BY DEF PIInv, TokenInv, IsKnown, IsEdition
    <3> QED
      BY <1>1, <1>6, <3>1
  <2>2. phase = "request" => entries' \in {{}, Entries(endpoint, native)}
    BY <1>1 DEF PIInv, TokenInv
  <2> QED
    BY <1>1, <1>2, <2>1, <2>2, KnownBody
<1>9. SourceInv'
  <2>1. SourceInv
    BY DEF PIInv
  <2> QED
    BY <1>3, <1>4, <1>6, <2>1 DEF SourceInv, IsSecret
<1>10. RedactInv'
  <2>1. RedactInv
    BY DEF PIInv
  <2> QED
    BY <1>1, <1>3, <1>4, <1>6, <2>1 DEF RedactInv, IsSecret
<1> QED
  BY <1>3, <1>5, <1>7, <1>8, <1>9, <1>10 DEF PIInv

\* What redact's operations make of a payload, when they replace the texts of `redone'.
LEMMA RedactIs ==
  ASSUME PIInv, NEW redone, IsRedone(redone, Arrived), Redact(Rewrites(payload, redone))
  PROVE  /\ Arrived' = Arrived /\ PTypeOK' /\ IsEdition(payload, Arrived)' /\ BodyInv' /\ EditedInv'
         /\ \A id \in DOMAIN Arrived :
              /\ payload'.timeline[id] # payload.timeline[id] =>
                   /\ Arrived[id].writable /\ HasText(Arrived[id])
                   /\ payload'.timeline[id] = [payload.timeline[id] EXCEPT !.text = redone[id].text]
              /\ redacted' /\ Arrived[id].writable /\ HasText(Arrived[id])
                   => payload'.timeline[id].text = redone[id].text
<1> DEFINE ops == Rewrites(payload, redone)
           D == Differing(payload, redone)
<1>1. /\ Mutate("redact", ops) /\ redacted' = Mutated(ops).ok
      /\ edited' = IF Mutated(ops).ok THEN edited \ Rewritten(ops) ELSE edited
  BY DEF Redact
<1>2. IsEdition(payload, Arrived)
  BY DEF PIInv
<1>3. /\ D \subseteq DOMAIN Arrived /\ Len(ops) \in Nat /\ DOMAIN ops = 1..Len(ops)
      /\ Named(payload, ops) = D
      /\ \A j \in 1..Len(ops) : \E id \in D : IsRewrite(ops[j], id, payload, redone)
      /\ \A id \in D : \E j \in 1..Len(ops) : IsRewrite(ops[j], id, payload, redone)
  BY <1>2, RewritesAre
<1>4. \A j \in 1..Len(ops) : Fits(ops[j])
  BY <1>3 DEF IsRewrite
<1> HIDE DEF ops
<1>5. /\ Arrived' = Arrived /\ Changes(ops) /\ queue' \in Seq({"editor", "redact"})
      /\ body' \in NativeBody /\ IsEdition(payload', Arrived) /\ BodyInv'
  BY <1>1, <1>3, <1>4, MutateIs
<1>6. UNCHANGED << endpoint, order, phase, native, sent >>
  BY <1>1 DEF Mutate
<1>7. Mutated(ops).ok \in BOOLEAN
  BY Zenon DEF Mutated
<1>8. PTypeOK'
  BY <1>1, <1>5, <1>6, <1>7 DEF PIInv, PTypeOK
<1>9. \A id \in DOMAIN Arrived :
        /\ redone[id].kind = Arrived[id].kind
        /\ redone[id].writable = Arrived[id].writable /\ (HasText(redone[id]) <=> HasText(Arrived[id]))
  BY DEF IsRedone, IsArrived, IsVersion, HasText
<1>10. \A id \in D : Arrived[id].writable /\ HasText(Arrived[id])
  BY <1>3, <1>9 DEF Differing
<1>11. \A id \in DOMAIN Arrived :
         id \notin D /\ Arrived[id].writable /\ HasText(Arrived[id]) => payload.timeline[id].text = redone[id].text
  <2>1. DOMAIN redone = DOMAIN Arrived /\ DOMAIN Arrived \subseteq DOMAIN payload.timeline
    BY <1>2 DEF IsRedone, IsEdition
  <2> QED
    BY <1>9, <2>1 DEF Differing
<1>12. \A id \in DOMAIN Arrived : payload.timeline[id] \in SemanticUnit
  BY <1>2 DEF IsEdition, IsVersion
<1> HIDE DEF D
<1> DEFINE Texts2(id) ==
             /\ payload'.timeline[id] # payload.timeline[id] =>
                  /\ Arrived[id].writable /\ HasText(Arrived[id])
                  /\ payload'.timeline[id] = [payload.timeline[id] EXCEPT !.text = redone[id].text]
             /\ redacted' /\ Arrived[id].writable /\ HasText(Arrived[id])
                  => payload'.timeline[id].text = redone[id].text
<1>13. CASE payload' = payload /\ (Mutated(ops).ok <=> ops = << >>)
  <2>1. redacted' => D = {}
    <3>1. ops = << >> => 1..Len(ops) = {}
      OBVIOUS
    <3> QED
      BY <1>1, <1>3, <1>13, <3>1
  <2>2. edited' = edited
    BY <1>1, <1>13, RewrittenNamed
  <2>3. EditedInv'
    BY <1>13, <2>2 DEF PIInv, EditedInv
  <2>4. \A id \in DOMAIN Arrived : Texts2(id)
    BY <1>11, <1>13, <2>1
  <2> QED
    BY <1>5, <1>6, <1>8, <2>3, <2>4
<1>14. CASE IsList(payload, ops, Arrived) /\ payload' = Saved(Applied(payload, ops)) /\ Mutated(ops).ok
  <2>1. Applied(payload, ops).ok
    BY <1>14 DEF IsList
  <2>2. payload'.timeline = Applied(payload, ops).timeline /\ payload'.audit = Applied(payload, ops).audit
    BY <1>14 DEF Saved
  <2>3. \A id \in DOMAIN Arrived :
          payload'.timeline[id] = IF id \in D THEN [payload.timeline[id] EXCEPT !.text = redone[id].text]
                                  ELSE payload.timeline[id]
    BY <1>2, <2>1, <2>2, RewrittenIs DEF ops, D
  <2>4. edited' = edited \ D
    BY <1>1, <1>3, <1>14, RewrittenNamed
  <2>5. payload.audit \subseteq payload'.audit
    BY <1>3, <1>14, <2>2, ListAudit
  <2>6. EditedInv'
    <3>1. ASSUME NEW id \in edited'
          PROVE  id \in payload'.audit /\ id > 0 /\ Written \in TextOf(payload'.timeline[id])
      <4>1. id \in edited /\ id \notin D /\ id \in DOMAIN Arrived
        BY <2>4, <3>1, EditedUnits
      <4>2. payload'.timeline[id] = payload.timeline[id]
        BY <2>3, <4>1
      <4>3. id \in payload.audit /\ id > 0 /\ Written \in TextOf(payload.timeline[id])
        BY <4>1 DEF PIInv, EditedInv
      <4> QED
        BY <2>5, <4>2, <4>3
    <3> QED
      BY <3>1 DEF EditedInv
  <2>7. ASSUME NEW id \in DOMAIN Arrived PROVE Texts2(id)
    <3>1. CASE id \in D
      <4>1. payload'.timeline[id] = [payload.timeline[id] EXCEPT !.text = redone[id].text]
        BY <2>3, <3>1
      <4>2. payload'.timeline[id].text = redone[id].text
        BY <1>12, <4>1 DEF SemanticUnit
      <4> QED
        BY <1>10, <3>1, <4>1, <4>2
    <3>2. CASE id \notin D
      <4>1. payload'.timeline[id] = payload.timeline[id]
        BY <2>3, <3>2
      <4> QED
        BY <1>11, <3>2, <4>1
    <3> QED
      BY <3>1, <3>2
  <2> QED
    BY <1>5, <1>6, <1>8, <2>6, <2>7
<1> QED
  BY <1>5, <1>13, <1>14 DEF Changes

\* A turn of redact that finds nothing to do.
LEMMA RedactNothing ==
  ASSUME PIInv, Redact(<< >>)
  PROVE  /\ Arrived' = Arrived /\ PTypeOK' /\ IsEdition(payload, Arrived)' /\ BodyInv' /\ EditedInv'
         /\ payload' = payload /\ body' = body /\ redacted'
<1> DEFINE ops == << >>
<1>1. /\ Mutate("redact", ops) /\ redacted' = Mutated(ops).ok
      /\ edited' = IF Mutated(ops).ok THEN edited \ Rewritten(ops) ELSE edited
  BY DEF Redact
<1>2. Len(ops) = 0 /\ DOMAIN ops = 1..0 /\ 1..0 = {}
  OBVIOUS
<1>3. /\ Arrived' = Arrived /\ Changes(ops) /\ queue' \in Seq({"editor", "redact"})
      /\ body' \in NativeBody /\ IsEdition(payload', Arrived) /\ BodyInv'
  BY <1>1, <1>2, MutateIs
<1>4. UNCHANGED << endpoint, order, phase, native, sent >>
  BY <1>1 DEF Mutate
<1>5. payload' = payload /\ body' = body /\ Mutated(ops).ok
  BY <1>3 DEF Changes
<1>6. Mutated(ops).ok \in BOOLEAN
  BY Zenon DEF Mutated
<1>7. edited' = edited /\ redacted' = TRUE
  BY <1>1, <1>5, <1>6, RewrittenNamed
<1>8. PTypeOK'
  BY <1>3, <1>4, <1>7 DEF PIInv, PTypeOK
<1>9. EditedInv'
  BY <1>5, <1>7 DEF PIInv, EditedInv
<1> QED
  BY <1>3, <1>4, <1>5, <1>7, <1>8, <1>9

\* After redact's turn each unit is as it was, or has a text of which the pieces are
\* known to be what they may be.
LEMMA RedactedUnit ==
  ASSUME NEW unit, NEW base, IsVersion(unit, base), HasText(base), NEW text,
         NEW new
  PROVE  new = [unit EXCEPT !.text = text] => new.text = text /\ TextOf(new) = ToSet(text)
<1>1. unit \in SemanticUnit /\ unit.args = {}
  BY DEF IsVersion, HasText
<1>2. new = [unit EXCEPT !.text = text] => new.text = text /\ new.args = {}
  BY <1>1 DEF SemanticUnit
<1> QED
  BY <1>2 DEF TextOf

\* The invariant is kept by redact's turn at a request.
LEMMA ShieldPreserves ==
  ASSUME PIInv, Shield
  PROVE  PIInv'
<1> DEFINE known == Entries(endpoint, native)
           redone == Normalize(endpoint, "request", ShieldBody(endpoint, native))
<1>1. /\ phase = "request" /\ entries' = known
      /\ Redact(ShieldRewrites(endpoint, payload, native))
  BY DEF Shield
<1>2. /\ endpoint \in Endpoint /\ IsBody(endpoint, "request", native) /\ Tokens(native) = {}
      /\ entries \subseteq known /\ IsEdition(payload, Arrived) /\ IsArrived(Arrived)
      /\ Arrived = Normalize(endpoint, "request", native)
  BY <1>1, EditedUnits DEF PIInv, PTypeOK, TokenInv, Arrived
<1>3. UNCHANGED << endpoint, phase, native, sent >>
  BY <1>1 DEF Redact, Mutate
<1>4. \A id \in DOMAIN Arrived : IsVersion(payload.timeline[id], Arrived[id])
  BY <1>2 DEF IsEdition
<1>5. \A id \in DOMAIN Arrived : \A piece \in TextOf(payload.timeline[id]) : piece.kind = "token" => piece.of \in known
  BY <1>2 DEF PIInv, TokenInv, IsKnown, IsEdition
<1>6. \A id \in DOMAIN Arrived : id > 0 =>
        \A piece \in ToSet(payload.timeline[id].text) :
          IsSecret(piece) /\ IsShielded(native.slots[id]) => piece.of \in known
  BY <1>1 DEF PIInv, SourceInv
<1>7. CASE known = {}
  <2>1. Redact(<< >>)
    BY <1>1, <1>7 DEF ShieldRewrites
  <2>2. /\ Arrived' = Arrived /\ PTypeOK' /\ IsEdition(payload, Arrived)' /\ BodyInv' /\ EditedInv'
        /\ payload' = payload
    BY <2>1, RedactNothing
  <2>3. TokenInv'
    <3>1. Mutate("redact", << >>)
      BY <2>1 DEF Redact
    <3>2. Len(<< >>) = 0 /\ DOMAIN << >> = 1..0 /\ 1..0 = {}
      OBVIOUS
    <3> HIDE DEF known
    <3>3. \A id \in DOMAIN Arrived : \A piece \in TextOf(payload'.timeline[id]) :
            piece.kind = "token" => piece.of \in entries'
      BY <1>1, <1>5, <2>2
    <3>4. entries \subseteq entries' /\ entries' \in {{}, Entries(endpoint, native)}
      BY <1>1, <1>2 DEF known
    <3> QED
      BY <3>1, <3>2, <3>3, <3>4, KnownBody
  <2>4. SourceInv' /\ RedactInv'
    BY <1>1, <1>3, <1>6, <1>7, <2>2 DEF SourceInv, RedactInv
  <2> QED
    BY <2>2, <2>3, <2>4 DEF PIInv
<1>8. CASE known # {}
  <2>1. Redact(Rewrites(payload, redone))
    BY <1>1, <1>8 DEF ShieldRewrites
  <2>2. IsRedone(redone, Arrived)
    <3>1. IsBody(endpoint, "request", ShieldBody(endpoint, native)) /\ SameShape(native, ShieldBody(endpoint, native))
      BY <1>2, ShieldBodyIs
    <3>2. "request" \in Phase
      BY DEF Phase
    <3> QED
      BY <1>2, <3>1, <3>2, SameKinds
  <2>3. \A id \in DOMAIN Arrived : id > 0 =>
          \A piece \in ToSet(redone[id].text) :
            /\ IsShielded(native.slots[id]) => ~IsSecret(piece)
            /\ piece.kind = "token" => piece.of \in known
    BY <1>2, Shields
  <2> HIDE DEF redone, known
  <2>4. /\ Arrived' = Arrived /\ PTypeOK' /\ IsEdition(payload, Arrived)' /\ BodyInv' /\ EditedInv'
        /\ \A id \in DOMAIN Arrived :
             /\ payload'.timeline[id] # payload.timeline[id] =>
                  /\ Arrived[id].writable /\ HasText(Arrived[id])
                  /\ payload'.timeline[id] = [payload.timeline[id] EXCEPT !.text = redone[id].text]
             /\ redacted' /\ Arrived[id].writable /\ HasText(Arrived[id])
                  => payload'.timeline[id].text = redone[id].text
    BY <2>1, <2>2, RedactIs
  <2>5. \A id \in DOMAIN Arrived : Arrived[id].writable => id > 0
    BY <1>2, WritableSlot DEF Phase
  <2>6. \A id \in DOMAIN Arrived : payload'.timeline[id] # payload.timeline[id] =>
          /\ id > 0 /\ payload'.timeline[id].text = redone[id].text
          /\ TextOf(payload'.timeline[id]) = ToSet(redone[id].text)
    <3>1. ASSUME NEW id \in DOMAIN Arrived, payload'.timeline[id] # payload.timeline[id]
          PROVE  /\ id > 0 /\ payload'.timeline[id].text = redone[id].text
                 /\ TextOf(payload'.timeline[id]) = ToSet(redone[id].text)
      <4>1. /\ HasText(Arrived[id]) /\ id > 0 /\ IsVersion(payload.timeline[id], Arrived[id])
            /\ payload'.timeline[id] = [payload.timeline[id] EXCEPT !.text = redone[id].text]
        BY <1>4, <2>4, <2>5, <3>1
      <4> QED
        BY <4>1, RedactedUnit
    <3> QED
      BY <3>1
  <2>7. TokenInv'
    <3>1. Mutate("redact", Rewrites(payload, redone))
      BY <2>1 DEF Redact
    <3>2. /\ Len(Rewrites(payload, redone)) \in Nat
          /\ DOMAIN Rewrites(payload, redone) = 1..Len(Rewrites(payload, redone))
          /\ \A j \in 1..Len(Rewrites(payload, redone)) : Fits(Rewrites(payload, redone)[j])
      BY <1>2, <2>2, RewritesAre DEF IsRewrite
    <3>3. ASSUME NEW id \in DOMAIN Arrived, NEW piece \in TextOf(payload'.timeline[id])
          PROVE  piece.kind = "token" => piece.of \in entries'
      <4>1. CASE payload'.timeline[id] = payload.timeline[id]
        BY <1>1, <1>5, <3>3, <4>1
      <4>2. CASE payload'.timeline[id] # payload.timeline[id]
        BY <1>1, <2>3, <2>6, <3>3, <4>2
      <4> QED
        BY <4>1, <4>2
    <3>4. entries \subseteq entries' /\ entries' \in {{}, Entries(endpoint, native)}
      BY <1>1, <1>2 DEF known
    <3> QED
      BY <3>1, <3>2, <3>3, <3>4, KnownBody
  <2>8. SourceInv'
    <3>1. ASSUME NEW id \in DOMAIN Arrived, id > 0, NEW piece \in ToSet(payload'.timeline[id].text),
                 IsSecret(piece), IsShielded(native.slots[id])
          PROVE  piece.of \in known
      <4>1. CASE payload'.timeline[id] = payload.timeline[id]
        BY <1>6, <3>1, <4>1
      <4>2. CASE payload'.timeline[id] # payload.timeline[id]
        BY <2>3, <2>6, <3>1, <4>2
      <4> QED
        BY <4>1, <4>2
    <3> QED
      BY <1>1, <1>3, <2>4, <3>1 DEF SourceInv, known
  <2>9. RedactInv'
    BY <1>1, <1>3, <2>3, <2>4 DEF RedactInv
  <2> QED
    BY <2>4, <2>7, <2>8, <2>9 DEF PIInv
<1> QED
  BY <1>7, <1>8

\* The invariant is kept by redact's turn at a response or an event.
LEMMA RestorePreserves ==
  ASSUME PIInv, Restore
  PROVE  PIInv'
<1> DEFINE restored == RestoreBody(native, entries)
           redone == Normalize(endpoint, phase, restored)
<1>1. /\ phase # "request" /\ entries' = entries
      /\ Redact(RestoreRewrites(endpoint, phase, payload, native, entries))
  BY DEF Restore
<1>2. /\ endpoint \in Endpoint /\ phase \in Phase /\ IsBody(endpoint, phase, native)
      /\ IsEdition(payload, Arrived) /\ IsArrived(Arrived)
      /\ \A piece \in Pieces(native) : piece.kind = "token" => piece.of \in entries
  BY <1>1, EditedUnits DEF PIInv, PTypeOK, TokenInv, IsKnown
<1>3. UNCHANGED << endpoint, phase, native, sent >>
  BY <1>1 DEF Redact, Mutate
<1>4. \A id \in DOMAIN Arrived : IsVersion(payload.timeline[id], Arrived[id])
  BY <1>2 DEF IsEdition
<1>5. \A id \in DOMAIN Arrived : \A piece \in TextOf(payload.timeline[id]) : piece.kind = "token" => piece.of \in entries
  BY <1>2 DEF PIInv, TokenInv, IsKnown, IsEdition
<1>6. \A id \in DOMAIN Arrived : id > 0 =>
        \A piece \in ToSet(payload.timeline[id].text) : piece.kind = "token" => piece \in ToSet(native.slots[id].text)
  BY <1>1 DEF PIInv, SourceInv
<1>7. \A id \in DOMAIN Arrived : id > 0 => id \in DOMAIN native.slots
  BY <1>2, NormalizeIs DEF Arrived
<1>8. CASE restored = native
  <2>1. Redact(<< >>)
    BY <1>1, <1>8 DEF RestoreRewrites
  <2>2. /\ Arrived' = Arrived /\ PTypeOK' /\ IsEdition(payload, Arrived)' /\ BodyInv' /\ EditedInv'
        /\ payload' = payload
    BY <2>1, RedactNothing
  <2>3. TokenInv'
    <3>1. Mutate("redact", << >>)
      BY <2>1 DEF Redact
    <3>2. Len(<< >>) = 0 /\ DOMAIN << >> = 1..0 /\ 1..0 = {}
      OBVIOUS
    <3>3. \A id \in DOMAIN Arrived : \A piece \in TextOf(payload'.timeline[id]) :
            piece.kind = "token" => piece.of \in entries'
      BY <1>1, <1>5, <2>2
    <3> QED
      BY <1>1, <3>1, <3>2, <3>3, KnownBody
  <2>4. SourceInv'
    BY <1>1, <1>3, <1>6, <2>2 DEF SourceInv
  <2>5. ASSUME NEW id \in DOMAIN Arrived, id > 0, NEW piece \in ToSet(payload.timeline[id].text)
        PROVE  piece.kind # "token"
    <3>1. piece.kind = "token" => piece \in ToSet(native.slots[id].text) /\ piece.of \in entries
      BY <1>5, <1>6, <2>5 DEF TextOf
    <3> QED
      BY <1>2, <1>7, <1>8, <2>5, <3>1, RestoredSame
  <2>6. RedactInv'
    BY <1>1, <1>3, <2>2, <2>5 DEF RedactInv
  <2> QED
    BY <2>2, <2>3, <2>4, <2>6 DEF PIInv
<1>9. CASE restored # native
  <2>1. Redact(Rewrites(payload, redone))
    BY <1>1, <1>9 DEF RestoreRewrites
  <2>2. IsRedone(redone, Arrived)
    <3>1. IsBody(endpoint, phase, restored) /\ SameShape(native, restored)
      BY <1>2, RestoreBodyIs
    <3> QED
      BY <1>2, <3>1, SameKinds DEF Arrived
  <2>3. \A id \in DOMAIN Arrived : id > 0 => \A piece \in ToSet(redone[id].text) : piece.kind # "token"
    BY <1>2, Restores DEF Arrived
  <2> HIDE DEF redone
  <2>4. /\ Arrived' = Arrived /\ PTypeOK' /\ IsEdition(payload, Arrived)' /\ BodyInv' /\ EditedInv'
        /\ \A id \in DOMAIN Arrived :
             /\ payload'.timeline[id] # payload.timeline[id] =>
                  /\ Arrived[id].writable /\ HasText(Arrived[id])
                  /\ payload'.timeline[id] = [payload.timeline[id] EXCEPT !.text = redone[id].text]
             /\ redacted' /\ Arrived[id].writable /\ HasText(Arrived[id])
                  => payload'.timeline[id].text = redone[id].text
    BY <2>1, <2>2, RedactIs
  <2>5. \A id \in DOMAIN Arrived : Arrived[id].writable => id > 0
    BY <1>2, WritableSlot DEF Arrived
  <2>6. \A id \in DOMAIN Arrived : payload'.timeline[id] # payload.timeline[id] =>
          /\ id > 0 /\ payload'.timeline[id].text = redone[id].text
          /\ TextOf(payload'.timeline[id]) = ToSet(redone[id].text)
    <3>1. ASSUME NEW id \in DOMAIN Arrived, payload'.timeline[id] # payload.timeline[id]
          PROVE  /\ id > 0 /\ payload'.timeline[id].text = redone[id].text
                 /\ TextOf(payload'.timeline[id]) = ToSet(redone[id].text)
      <4>1. /\ HasText(Arrived[id]) /\ id > 0 /\ IsVersion(payload.timeline[id], Arrived[id])
            /\ payload'.timeline[id] = [payload.timeline[id] EXCEPT !.text = redone[id].text]
        BY <1>4, <2>4, <2>5, <3>1
      <4> QED
        BY <4>1, RedactedUnit
    <3> QED
      BY <3>1
  <2>7. TokenInv'
    <3>1. Mutate("redact", Rewrites(payload, redone))
      BY <2>1 DEF Redact
    <3>2. /\ Len(Rewrites(payload, redone)) \in Nat
          /\ DOMAIN Rewrites(payload, redone) = 1..Len(Rewrites(payload, redone))
          /\ \A j \in 1..Len(Rewrites(payload, redone)) : Fits(Rewrites(payload, redone)[j])
      BY <1>2, <2>2, RewritesAre DEF IsRewrite
    <3>3. ASSUME NEW id \in DOMAIN Arrived, NEW piece \in TextOf(payload'.timeline[id])
          PROVE  piece.kind = "token" => piece.of \in entries'
      <4>1. CASE payload'.timeline[id] = payload.timeline[id]
        BY <1>1, <1>5, <3>3, <4>1
      <4>2. CASE payload'.timeline[id] # payload.timeline[id]
        BY <2>3, <2>6, <3>3, <4>2
      <4> QED
        BY <4>1, <4>2
    <3> QED
      BY <1>1, <3>1, <3>2, <3>3, KnownBody
  <2>8. SourceInv'
    <3>1. ASSUME NEW id \in DOMAIN Arrived, id > 0, NEW piece \in ToSet(payload'.timeline[id].text), piece.kind = "token"
          PROVE  piece \in ToSet(native.slots[id].text)
      <4>1. CASE payload'.timeline[id] = payload.timeline[id]
        BY <1>6, <3>1, <4>1
      <4>2. CASE payload'.timeline[id] # payload.timeline[id]
        BY <2>3, <2>6, <3>1, <4>2
      <4> QED
        BY <4>1, <4>2
    <3> QED
      BY <1>1, <1>3, <2>4, <3>1 DEF SourceInv
  <2>9. RedactInv'
    BY <1>1, <1>3, <2>3, <2>4 DEF RedactInv
  <2> QED
    BY <2>4, <2>7, <2>8, <2>9 DEF PIInv
<1> QED
  BY <1>8, <1>9

\* Where the pieces of the units come from that arrive.
LEMMA ArrivedPieces ==
  ASSUME NEW e, NEW p \in Phase, NEW b, IsBody(e, p, b), NEW id \in DOMAIN Normalize(e, p, b)
  PROVE  /\ \A piece \in TextOf(Normalize(e, p, b)[id]) : piece = RawKey \/ piece \in Pieces(b)
         /\ id > 0 => ToSet(Normalize(e, p, b)[id].text) \subseteq ToSet(b.slots[id].text)
<1> DEFINE t == Normalize(e, p, b)
<1>0. ToSet(<< >>) = {}
  BY DEF ToSet
<1>1. CASE id > 0
  <2> DEFINE s == b.slots[id]
             k == UnitKind(e, p, b.slots, s)
  <2>1. id \in DOMAIN b.slots /\ s \in Slot /\ t[id] = Unit(id, k, s)
    BY <1>1, UnitText, NormalizeIs
  <2>2. t[id].text \in {s.text, << >>}
    BY <1>1, UnitText
  <2>3. ToSet(s.text) \union s.args.pieces \subseteq Pieces(b)
    BY <2>1, PiecesAre
  <2> HIDE DEF s, k
  <2>4. t[id].args \subseteq s.args.pieces \union {RawKey}
    <3>1. Unit(id, k, s).args \in {Parsed(s.args), {}}
      BY DEF Unit
    <3>2. Parsed(s.args) \subseteq s.args.pieces \union {RawKey}
      BY <2>1 DEF Parsed, Slot, Arguments
    <3> QED
      BY <2>1, <3>1, <3>2
  <2> HIDE DEF t
  <2>5. \A piece \in TextOf(t[id]) : piece = RawKey \/ piece \in Pieces(b)
    BY <1>0, <2>2, <2>3, <2>4 DEF TextOf
  <2>6. ToSet(t[id].text) \subseteq ToSet(s.text)
    BY <1>0, <2>2
  <2> QED
    BY <2>5, <2>6 DEF t, s
<1>2. CASE id = 0
  <2>1. t[0] = Unit(0, "instruction", TextSlot("text", "system", b.head.text))
    BY <1>2, NormalizeIs
  <2>2. b.head.text \in Seq(Piece)
    BY DEF IsBody, NativeBody
  <2>3. t[0].text = b.head.text /\ t[0].args = {}
    <3> DEFINE s == TextSlot("text", "system", b.head.text)
    <3>1. s.text = b.head.text /\ s.plain = TRUE
      BY <2>2, TextSlotIs
    <3> HIDE DEF s
    <3>2. Unit(0, "instruction", s).text = b.head.text /\ Unit(0, "instruction", s).args = {}
      BY <3>1 DEF Unit, Ensured
    <3> QED
      BY <2>1, <3>2 DEF s
  <2>4. ToSet(b.head.text) \subseteq Pieces(b)
    BY PiecesAre
  <2> HIDE DEF t
  <2>5. \A piece \in TextOf(t[id]) : piece = RawKey \/ piece \in Pieces(b)
    BY <1>2, <2>3, <2>4 DEF TextOf
  <2> QED
    BY <1>2, <2>5 DEF t
<1>3. id \in Nat
  BY ArrivedIs DEF IsArrived
<1> QED
  BY <1>1, <1>2, <1>3

\* The beginning of a phase.
AtOutset ==
  /\ endpoint \in Endpoint /\ phase \in Phase /\ IsBody(endpoint, phase, native)
  /\ body = native /\ payload = Shown(endpoint, phase, native)
  /\ order \in Seq({"editor", "redact"}) /\ queue \in Seq({"editor", "redact"})
  /\ redacted = FALSE /\ edited = {}
  /\ \A piece \in Pieces(native) \union sent : IsKnown(piece)
  /\ phase = "request" => Tokens(native) = {} /\ entries \in {{}, Entries(endpoint, native)}

\* The invariant holds of every body that was just received.
LEMMA OutsetIs == AtOutset => PIInv
<1> SUFFICES ASSUME AtOutset PROVE PIInv
  OBVIOUS
<1>1. /\ endpoint \in Endpoint /\ phase \in Phase /\ IsBody(endpoint, phase, native)
      /\ body = native /\ payload = Shown(endpoint, phase, native)
  BY DEF AtOutset
<1>2. payload = [timeline |-> Arrived, audit |-> {}] /\ payload.timeline = Arrived /\ payload.audit = {}
  BY <1>1 DEF Shown, Arrived
<1>3. IsEdition(payload, Arrived)
  <2>1. IsArrived(Arrived)
    BY <1>1, ArrivedIs DEF Arrived
  <2> QED
    BY <1>2, <2>1, EditionOfArrived
<1>4. PTypeOK
  BY <1>1 DEF AtOutset, PTypeOK, IsBody
<1>5. BodyInv
  BY <1>1 DEF BodyInv
<1>6. EditedInv /\ RedactInv
  BY DEF AtOutset, EditedInv, RedactInv
<1>7. \A id \in DOMAIN Arrived :
        /\ \A piece \in TextOf(Arrived[id]) : piece = RawKey \/ piece \in Pieces(native)
        /\ id > 0 => ToSet(Arrived[id].text) \subseteq ToSet(native.slots[id].text)
        /\ id > 0 => id \in DOMAIN native.slots
  BY <1>1, ArrivedPieces, NormalizeIs DEF Arrived
<1>8. TokenInv
  <2>1. IsKnown(RawKey)
    BY DEF IsKnown, RawKey
  <2> QED
    BY <1>1, <1>2, <1>7, <2>1 DEF AtOutset, TokenInv
<1>9. SourceInv
  <2>1. ASSUME phase = "request", NEW id \in DOMAIN Arrived, id > 0, NEW piece \in ToSet(Arrived[id].text),
               IsSecret(piece), IsShielded(native.slots[id])
        PROVE  piece.of \in Entries(endpoint, native)
    <3>1. piece \in ToSet(native.slots[id].text) /\ id \in DOMAIN native.slots
      BY <1>7, <2>1
    <3>2. native.slots[id].text \in { native.slots[i].text : i \in { j \in DOMAIN native.slots : IsShielded(native.slots[j]) } }
      BY <2>1, <3>1
    <3> QED
      BY <2>1, <3>1, <3>2 DEF Entries
  <2>2. \A id \in DOMAIN Arrived : id > 0 => \A piece \in ToSet(Arrived[id].text) : piece \in ToSet(native.slots[id].text)
    BY <1>7
  <2> QED
    BY <1>2, <2>1, <2>2 DEF SourceInv
<1> QED
  BY <1>3, <1>4, <1>5, <1>6, <1>8, <1>9 DEF PIInv

\* The invariant holds at first.
LEMMA PInitInv == ASSUME PayloadAssumption PROVE PInit => PIInv
<1> SUFFICES ASSUME PInit PROVE AtOutset
  BY OutsetIs
<1>1. PICK r \in Request : endpoint = r.endpoint /\ native = r.body /\ body = r.body /\ payload = Shown(r.endpoint, "request", r.body)
  BY DEF PInit
<1>2. IsBody(endpoint, "request", native) /\ Tokens(native) = {} /\ order \in Seq({"editor", "redact"})
  BY <1>1 DEF PayloadAssumption, PInit
<1>3. \A piece \in Pieces(native) : IsKnown(piece)
  BY <1>2 DEF Tokens, IsKnown
<1>4. endpoint \in Endpoint
  BY <1>2 DEF IsBody
<1> QED
  BY <1>1, <1>2, <1>3, <1>4 DEF PInit, AtOutset, Phase

\* The invariant holds of a response or an event received with known tokens.
LEMMA ReceivePreserves ==
  ASSUME PIInv, PayloadAssumption, NEW p \in {"response", "stream_event"}, Receive(p),
         \A piece \in sent' : piece.kind = "token" => piece.of \in entries
  PROVE  PIInv'
<1>1. PICK r \in Reply :
        /\ r.endpoint = endpoint /\ r.phase = p /\ Tokens(r.body) \subseteq sent'
        /\ native' = r.body /\ body' = r.body /\ payload' = Shown(endpoint, p, r.body)
  BY DEF Receive
<1>2. /\ phase' = p /\ queue' = Reverse(order) /\ redacted' = FALSE /\ edited' = {}
      /\ UNCHANGED << endpoint, order, entries >>
  BY DEF Receive
<1>3. IsBody(endpoint, p, native')
  BY <1>1 DEF PayloadAssumption
<1>4. endpoint \in Endpoint /\ order \in Seq({"editor", "redact"})
  BY DEF PIInv, PTypeOK
<1>5. Reverse(order) \in Seq({"editor", "redact"})
  <2>1. Len(order) \in Nat /\ \A i \in 1..Len(order) : order[i] \in {"editor", "redact"} /\ (Len(order) - i) + 1 \in 1..Len(order)
    BY <1>4
  <2> QED
    BY <2>1 DEF Reverse
<1>6. \A piece \in Pieces(native') \union sent' : piece.kind = "token" => piece.of \in entries'
  BY <1>1, <1>2 DEF Tokens
<1>7. AtOutset'
  BY <1>1, <1>2, <1>3, <1>4, <1>5, <1>6 DEF AtOutset, IsKnown, Phase
<1>8. AtOutset' => PIInv'
  BY OutsetIs, PTL
<1> QED
  BY <1>7, <1>8

\* The invariant is kept by every step.
LEMMA PNextInv == ASSUME PIInv, PayloadAssumption, [PNext]_pvars PROVE PIInv'
<1>1. ASSUME Edit PROVE PIInv'
  BY <1>1, EditPreserves
<1>2. ASSUME Shield PROVE PIInv'
  BY <1>2, ShieldPreserves
<1>3. ASSUME Restore PROVE PIInv'
  BY <1>3, RestorePreserves
<1>4. ASSUME Answer PROVE PIInv'
  <2>1. PICK p \in {"response", "stream_event"} : Receive(p)
    BY <1>4 DEF Answer
  <2>2. \A piece \in sent' : piece.kind = "token" => piece.of \in entries
    BY <1>4 DEF Answer, Tokens, PIInv, TokenInv, IsKnown
  <2> QED
    BY <2>1, <2>2, ReceivePreserves
<1>5. ASSUME NextEvent PROVE PIInv'
  <2>1. Receive("stream_event") /\ sent' = sent
    BY <1>5 DEF NextEvent
  <2>2. \A piece \in sent' : piece.kind = "token" => piece.of \in entries
    BY <2>1 DEF PIInv, TokenInv, IsKnown
  <2> QED
    BY <2>1, <2>2, ReceivePreserves
<1>6. ASSUME UNCHANGED pvars PROVE PIInv'
  BY <1>6 DEF pvars, PIInv, PTypeOK, Arrived, BodyInv, Shown, EditedInv, TokenInv, IsKnown, SourceInv, RedactInv
<1> QED
  BY <1>1, <1>2, <1>3, <1>4, <1>5, <1>6 DEF PNext

\* PIInv is inductive.
THEOREM PInvariance == PSpec => []PIInv
<1>1. PInit => PIInv
  BY PInitInv, PayloadAssumption
<1>2. PIInv /\ [PNext]_pvars => PIInv'
  BY PNextInv, PayloadAssumption
<1> QED
  BY <1>1, <1>2, PTL DEF PSpec

(***************************************************************************)
(* The properties.                                                         *)
(***************************************************************************)

\* The body that will be handed on, as one with the payload's units in it.
LEMMA BodyIs ==
  ASSUME PIInv
  PROVE  /\ Inserted \in Nat /\ Shift = (IF endpoint = "chat_completions" THEN Inserted ELSE 0)
         /\ Len(body.slots) = Len(native.slots) + Shift
         /\ \A i \in 1..Shift : body.slots[i] = TextSlot("text", "system", << Context >>)
         /\ IF endpoint # "chat_completions" /\ Inserted > 0
            THEN body.head = HeadText([i \in 1..Inserted |-> Context] \o native.head.text)
            ELSE body.head = native.head
         /\ \A i \in DOMAIN native.slots :
              IF i \in DOMAIN payload.timeline
              THEN i \in DOMAIN Arrived /\ IsSet(endpoint, phase, native.slots[i], At(i), payload.timeline[i], Arrived[i])
              ELSE At(i) = native.slots[i]
<1>1. /\ endpoint \in Endpoint /\ phase \in Phase /\ IsBody(endpoint, phase, native)
      /\ IsEdition(payload, Arrived) /\ IsArrived(Arrived)
  BY EditedUnits DEF PIInv, PTypeOK
<1>2. Inserted = Inserts(phase, payload.timeline) /\ Inserted \in Nat
  <2>1. { id \in payload.audit : id < 0 } = Contexts(payload.timeline)
    BY <1>1 DEF IsEdition
  <2>2. Cardinality(Contexts(payload.timeline)) \in Nat
    BY <1>1 DEF IsEdition
  <2> QED
    BY <2>1, <2>2 DEF Inserted, Inserts
<1>3. DOMAIN native.slots = 1..Len(native.slots) /\ Len(native.slots) \in Nat
  BY <1>1, NormalizeIs
<1>4. \A i \in DOMAIN native.slots : i \in DOMAIN payload.timeline =>
        i \in DOMAIN Arrived /\ IsVersion(payload.timeline[i], Arrived[i])
  BY <1>1, <1>3, EditionIs
<1>5. CASE payload = Shown(endpoint, phase, native) /\ body = native
  <2>1. payload.timeline = Arrived /\ payload.audit = {}
    BY <1>5 DEF Shown, Arrived
  <2>2. Inserted = 0 /\ Shift = 0
    <3>1. { id \in payload.audit : id < 0 } = {}
      BY <2>1
    <3>2. Inserted = 0
      BY <3>1, FS_EmptySet DEF Inserted
    <3> QED
      BY <3>2 DEF Shift
  <2>3. \A i \in DOMAIN native.slots : At(i) = native.slots[i]
    BY <1>3, <1>5, <2>2 DEF At
  <2>4. ASSUME NEW i \in DOMAIN native.slots, i \in DOMAIN Arrived
        PROVE  IsSet(endpoint, phase, native.slots[i], native.slots[i], Arrived[i], Arrived[i])
    <3> DEFINE s == native.slots[i]
               k == UnitKind(endpoint, phase, native.slots, s)
    <3>1. Arrived[i] = Unit(i, k, s) /\ s \in Slot
      BY <1>1, <1>3, <2>4, NormalizeIs, UnitText DEF Arrived
    <3> HIDE DEF s, k
    <3>2. Unit(i, k, s).id = i /\ Unit(i, k, s).kind = k
      BY DEF Unit
    <3>3. IsSet(endpoint, phase, s, s, Arrived[i], Arrived[i])
      BY <3>1, <3>2 DEF IsSet
    <3> QED
      BY <3>3 DEF s
  <2>5. 1..0 = {} /\ Len(native.slots) = Len(native.slots) + 0
    BY <1>3
  <2> QED
    BY <1>2, <1>5, <2>1, <2>2, <2>3, <2>4, <2>5
<1>6. CASE Denormalize(endpoint, phase, native, payload.timeline) = Body(body)
  <2>1. IsRebuilt(endpoint, phase, native, payload.timeline, body)
    BY <1>1, <1>6, DenormalizedIs DEF Arrived
  <2>2. /\ Len(body.slots) = Len(native.slots) + Shift
        /\ \A i \in 1..Shift : body.slots[i] = TextSlot("text", "system", << Context >>)
        /\ IF endpoint # "chat_completions" /\ Inserted > 0
           THEN body.head = HeadText([i \in 1..Inserted |-> Context] \o native.head.text)
           ELSE body.head = native.head
        /\ \A i \in DOMAIN native.slots :
             At(i) = IF i \in DOMAIN payload.timeline
                     THEN SetSlot(endpoint, phase, native.slots[i], payload.timeline[i]) ELSE native.slots[i]
    BY <1>2, <2>1 DEF IsRebuilt, Shift, At
  <2>3. ASSUME NEW i \in DOMAIN native.slots, i \in DOMAIN payload.timeline
        PROVE  /\ i \in DOMAIN Arrived
               /\ IsSet(endpoint, phase, native.slots[i], At(i), payload.timeline[i], Arrived[i])
    <3>1. i \in DOMAIN Arrived /\ IsVersion(payload.timeline[i], Arrived[i])
      BY <1>4, <2>3
    <3>2. At(i) = SetSlot(endpoint, phase, native.slots[i], payload.timeline[i])
      BY <2>2, <2>3
    <3> QED
      BY <1>1, <3>1, <3>2, SetSlotIs DEF Arrived
  <2> QED
    BY <1>2, <2>2, <2>3 DEF Shift
<1> QED
  BY <1>5, <1>6 DEF PIInv, BodyInv

\* Units by their ids.
LEMMA UnitsAre ==
  ASSUME PIInv, NEW unit \in Units, unit.id > 0
  PROVE  /\ unit.id \in DOMAIN native.slots /\ unit.id \in DOMAIN payload.timeline
         /\ unit = payload.timeline[unit.id] /\ unit.id \in DOMAIN Arrived
         /\ IsVersion(unit, Arrived[unit.id])
<1>1. PICK id \in DOMAIN payload.timeline : unit = payload.timeline[id]
  BY DEF Units
<1>2. IsArrived(Arrived) /\ IsEdition(payload, Arrived)
  BY EditedUnits DEF PIInv
<1>3. id \in Int /\ (id < 0 => unit = ContextUnit(id)) /\ (id >= 0 => id \in DOMAIN Arrived /\ IsVersion(unit, Arrived[id]))
  BY <1>1, <1>2, EditionIs
<1>4. id < 0 => unit.id = id
  BY <1>3 DEF ContextUnit, Unit
<1>5. id >= 0 /\ id \in DOMAIN Arrived /\ IsVersion(unit, Arrived[id])
  BY <1>3, <1>4
<1>6. unit.id = id
  BY <1>2, <1>5 DEF IsVersion, IsArrived
<1>7. id \in DOMAIN native.slots
  BY <1>5, <1>6, NormalizeIs DEF Arrived, PIInv, PTypeOK
<1> QED
  BY <1>1, <1>5, <1>6, <1>7

\* A unit is written where it is read, so that an edit of the timeline is in the body.
LEMMA EditsAreSentFollows == PIInv => EditsAreSent
<1> SUFFICES ASSUME PIInv PROVE EditsAreSent
  OBVIOUS
<1>1. ASSUME NEW unit \in Units, unit.id > 0, native.slots[unit.id].form \notin SetsAside
      PROVE  Unit(unit.id, unit.kind, At(unit.id)) = unit
  BY <1>1, BodyIs, UnitsAre DEF IsSet
<1>2. ASSUME NEW id \in edited, native.slots[id].form \notin SetsAside
      PROVE  HasEdit(At(id))
  <2>1. id > 0 /\ id \in DOMAIN Arrived /\ Written \in TextOf(payload.timeline[id]) /\ IsArrived(Arrived)
    BY <1>2, EditedUnits DEF PIInv, EditedInv
  <2>2. id \in DOMAIN payload.timeline /\ IsVersion(payload.timeline[id], Arrived[id]) /\ Arrived[id].id = id
    BY <2>1 DEF PIInv, IsEdition, IsArrived
  <2> DEFINE unit == payload.timeline[id]
             s == At(id)
  <2>3. unit \in Units /\ unit.id = id
    BY <2>2 DEF Units, IsVersion
  <2>4. Unit(id, unit.kind, s) = unit
    BY <1>1, <1>2, <2>1, <2>3
  <2>5. s \in Slot
    <3>1. id \in DOMAIN native.slots
      BY <2>1, <2>3, UnitsAre
    <3> QED
      BY <2>2, <3>1, BodyIs DEF IsSet
  <2>6. TextOf(unit) \subseteq ToSet(s.text) \union s.args.pieces \union {RawKey}
    <3> HIDE DEF s, unit
    <3>1. Unit(id, unit.kind, s).text \in {s.text, << >>} /\ Unit(id, unit.kind, s).args \in {Parsed(s.args), {}}
      BY DEF Unit, Ensured
    <3>2. Parsed(s.args) \subseteq s.args.pieces \union {RawKey}
      BY <2>5 DEF Parsed, Slot, Arguments
    <3>3. ToSet(<< >>) = {}
      BY DEF ToSet
    <3>4. unit.text \in {s.text, << >>} /\ unit.args \in {Parsed(s.args), {}}
      BY <2>4, <3>1
    <3> QED
      BY <3>2, <3>3, <3>4 DEF TextOf
  <2>7. Written # RawKey
    BY DEF Written, RawKey
  <2> QED
    BY <2>1, <2>6, <2>7 DEF HasEdit
<1> QED
  BY <1>1, <1>2 DEF EditsAreSent

\* Instructions are written back as they came, behind the contexts.
LEMMA InstructionsKeptFollows == PIInv => InstructionsKept
<1> SUFFICES ASSUME PIInv PROVE InstructionsKept
  OBVIOUS
<1>1. ASSUME NEW unit \in Units, unit.id > 0, unit.kind = "instruction"
      PROVE  At(unit.id) = native.slots[unit.id]
  BY <1>1, BodyIs, UnitsAre DEF IsSet
<1> QED
  BY <1>1, BodyIs DEF InstructionsKept

\* A unit that the audit does not list is written back as it arrived.
LEMMA UntouchedKeptFollows == PIInv => UntouchedKept
<1> SUFFICES ASSUME PIInv, NEW i \in DOMAIN native.slots, i \notin payload.audit, IsExact(native.slots[i])
             PROVE  At(i) = native.slots[i]
  BY DEF UntouchedKept
<1>1. CASE i \in DOMAIN payload.timeline
  <2>1. i \in DOMAIN Arrived /\ IsSet(endpoint, phase, native.slots[i], At(i), payload.timeline[i], Arrived[i])
    BY <1>1, BodyIs
  <2>2. payload.timeline[i] = Arrived[i]
    BY <2>1 DEF PIInv, IsEdition
  <2> QED
    BY <2>1, <2>2 DEF IsSet
<1>2. CASE i \notin DOMAIN payload.timeline
  BY <1>2, BodyIs
<1> QED
  BY <1>1, <1>2

\* The text of a slot is that of the unit that was written to it.
LEMMA SlotText ==
  ASSUME PIInv, NEW unit \in Units, unit.id > 0, HasText(unit),
         native.slots[unit.id].form \notin SetsAside, native.slots[unit.id].plain
  PROVE  At(unit.id).text = payload.timeline[unit.id].text
<1> DEFINE id == unit.id
           s == At(id)
<1>1. /\ id \in DOMAIN native.slots /\ id \in DOMAIN payload.timeline /\ unit = payload.timeline[id]
      /\ IsSet(endpoint, phase, native.slots[id], s, unit, Arrived[id])
  BY UnitsAre, BodyIs
<1>2. Unit(id, unit.kind, s) = unit /\ s.plain
  BY <1>1 DEF IsSet
<1> HIDE DEF s
<1>3. Unit(id, unit.kind, s).text = s.text
  BY <1>2 DEF Unit, HasText, Ensured
<1> QED
  BY <1>1, <1>2, <1>3 DEF s

\* What is written of the text of a unit is in the timeline, whatever the form; what
\* was beside the SetsAside forms stays.
LEMMA CarriedIs ==
  ASSUME PIInv, NEW unit \in TextUnits, native.slots[unit.id].plain \/ native.slots[unit.id].form \in SetsAside
  PROVE  /\ Carried(unit) \subseteq ToSet(payload.timeline[unit.id].text)
         /\ native.slots[unit.id].form \in SetsAside => At(unit.id).text = native.slots[unit.id].text
         /\ unit.id \in DOMAIN Arrived /\ Arrived[unit.id].writable /\ HasText(Arrived[unit.id])
<1> DEFINE id == unit.id
           s == native.slots[id]
<1>1. unit \in Units /\ id > 0 /\ unit.writable /\ HasText(unit)
  BY DEF TextUnits
<1>2. /\ id \in DOMAIN native.slots /\ id \in DOMAIN payload.timeline /\ unit = payload.timeline[id]
      /\ id \in DOMAIN Arrived /\ IsVersion(unit, Arrived[id])
      /\ IsSet(endpoint, phase, s, At(id), unit, Arrived[id])
  BY <1>1, UnitsAre, BodyIs
<1>3. Arrived[id].writable /\ HasText(Arrived[id])
  BY <1>1, <1>2, EditedUnits DEF IsVersion, IsArrived, HasText
<1>4. CASE s.form \in SetsAside
  <2>1. At(id).text = s.text /\ At(id).added \in {s.added, {unit.text}}
    BY <1>1, <1>2, <1>4 DEF IsSet
  <2>2. s.added = {}
    BY <1>2 DEF PIInv, PTypeOK, IsBody
  <2>3. ASSUME NEW text \in At(id).added PROVE text = payload.timeline[id].text
    BY <1>2, <2>1, <2>2
  <2>4. Carried(unit) = UNION { ToSet(text) : text \in At(id).added }
    BY <1>4 DEF Carried
  <2> QED
    BY <1>2, <1>3, <2>1, <2>3, <2>4
<1>5. CASE s.form \notin SetsAside
  <2>1. Carried(unit) = ToSet(At(id).text)
    BY <1>5 DEF Carried
  <2>2. At(id).text = payload.timeline[id].text
    BY <1>1, <1>5, SlotText
  <2> QED
    BY <1>2, <1>3, <1>5, <2>1, <2>2
<1> QED
  BY <1>4, <1>5

\* A text without a secret in the timeline is one without a secret in the body.
LEMMA ShieldedFollows == PIInv => Shielded
<1> SUFFICES ASSUME PIInv, phase = "request", redacted, NEW unit \in TextUnits,
                    IsShielded(native.slots[unit.id])
             PROVE  /\ \A piece \in Carried(unit) : ~IsSecret(piece)
                    /\ native.slots[unit.id].form \in SetsAside
                         => At(unit.id).text = native.slots[unit.id].text
  BY DEF Shielded
<1>1. unit.id > 0 /\ unit.id \in DOMAIN native.slots
  BY UnitsAre DEF TextUnits
<1>2. native.slots[unit.id].plain \/ native.slots[unit.id].form \in SetsAside
  BY <1>1 DEF PIInv, PTypeOK, IsBody, IsShielded, SetsAside
<1> QED
  BY <1>1, <1>2, CarriedIs DEF PIInv, RedactInv

\* A text without a token in the timeline is one without a token in the body.
LEMMA RestoredFollows == PIInv => Restored
<1> SUFFICES ASSUME PIInv, phase # "request", redacted, NEW unit \in TextUnits,
                    native.slots[unit.id].plain
             PROVE  /\ \A piece \in Carried(unit) : piece.kind # "token"
                    /\ native.slots[unit.id].form \in SetsAside
                         => At(unit.id).text = native.slots[unit.id].text
  BY DEF Restored
<1>1. unit.id > 0
  BY DEF TextUnits
<1> QED
  BY <1>1, CarriedIs DEF PIInv, RedactInv

\* The type invariant: the bodies stay bodies, whatever is inserted and rewritten.
THEOREM PTypeCorrect == PSpec => []PTypeOK
BY PInvariance, PTL DEF PIInv

\* For every list of operations, body and order of plugins: the payload shown is the
\* body handed on, and every accepted edit is in it.  Except for the SetsAside forms,
\* where an edit goes to a field nobody reads, and for the units that redact rewrote
\* afterwards: it sets them back to what it made of the body that arrived, and an
\* editor's text in them is lost.
THEOREM EditsSent == PSpec => []EditsAreSent
BY PInvariance, EditsAreSentFollows, PTL

\* Instructions are never rewritten, and a context is in front of them exactly once.
THEOREM InstructionsStay == PSpec => []InstructionsKept
BY PInvariance, InstructionsKeptFollows, PTL

\* What no operation names comes back as it arrived, however often it is rebuilt, if
\* IsExact holds of it.  What it leaves out does change though nobody edited it:
\* arguments that are no JSON object or a fragment of one, calls without a name,
\* outputs that are no strings, and the SetsAside forms.
THEOREM UntouchedStays == PSpec => []UntouchedKept
BY PInvariance, UntouchedKeptFollows, PTL

\* After redact's turn no text that it reads is written with a secret it can find,
\* whoever edits before it or after it.  In a tool_result that is not the text the
\* provider reads: its content is sent with the secret, as it came.
THEOREM SecretsShielded == PSpec => []Shielded
BY PInvariance, ShieldedFollows, PTL

\* After redact's turn no token is left where the text of a unit that it may write is
\* written, for the client; outputs that are no strings, arguments of calls and the
\* content of the SetsAside forms keep theirs.
THEOREM TokensRestored == PSpec => []Restored
BY PInvariance, RestoredFollows, PTL
=============================================================================
