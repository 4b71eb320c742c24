-------------------------- MODULE StdioSupervisor --------------------------
(***************************************************************************)
(* One stdio plugin runtime: the JSON-RPC calls on its process             *)
(* (runtime/supervisor.py, runtime/stdio_jsonrpc.py).  A runtime has one   *)
(* user at a time, the request that leases it (RuntimePool), and one       *)
(* closer, the thread that shuts it down once it left the pool or its      *)
(* engine stopped; these two contend for the supervisor's lock.            *)
(*                                                                         *)
(* A message is known by the id the host gave it and by the call it        *)
(* belongs to.  stdin and stdout are pipes with room for PipeSize          *)
(* messages; a line read from stdout passes through the buffer of the text *)
(* stream, which select does not see.                                      *)
(***************************************************************************)
EXTENDS Naturals, Sequences, Functions

CONSTANTS
  MaxCalls,   \* bound on the calls of a behaviour, that of the closer included
  PipeSize    \* messages a pipe holds

ASSUME StdioSupervisorAssumption ==
  /\ MaxCalls \in Nat
  /\ PipeSize \in Nat \ {0}

Actor == {"user", "closer"}

VARIABLES
  \* the host
  pc,        \* where each actor is; "idle" outside a call
  lock,      \* who holds _lock, or "none"
  nextId,    \* _next_id
  callId,    \* request_id of each actor's call
  outcome,   \* what each actor's last call came to
  buffer,    \* what the text stream has read ahead
  runtime,   \* "starting", "ready" or "broken": the constructor's progress
  piped,     \* the pipes are not closed
  \* the plugin
  alive,     \* process.poll() is None
  stdin,     \* requests in the pipe to the plugin
  work,      \* the request it works on, as a sequence of at most one
  stdout,    \* what it has written and the host not read
  \* history
  calls,     \* calls that got an id
  callNo,    \* which of them each actor makes
  taken,     \* the call whose answer each actor's last call returned
  gaveUp,    \* a call has ended before its answer was read
  unruly     \* the plugin has written something else than one line per call

plugin == << alive, stdin, work, stdout >>

vars == << pc, lock, nextId, callId, outcome, buffer, runtime, piped, alive,
           stdin, work, stdout, calls, callNo, taken, gaveUp, unruly >>

\* One line of the plugin: an answer, or something else ("junk"); a "half" is the
\* beginning of an answer, and the answer itself comes after it, as its end.
Line(m, kind) == [id |-> m.id, call |-> m.call, kind |-> kind]

Junk == [id |-> 0, call |-> 0, kind |-> "junk"]

Init ==
  /\ pc = [a \in Actor |-> "idle"]
  /\ lock = "none"
  /\ nextId = 1
  /\ callId = [a \in Actor |-> 0]
  /\ outcome = [a \in Actor |-> "none"]
  /\ buffer = << >>
  /\ runtime = "starting"
  /\ piped = TRUE
  /\ alive = TRUE
  /\ stdin = << >>
  /\ work = << >>
  /\ stdout = << >>
  /\ calls = 0
  /\ callNo = [a \in Actor |-> 0]
  /\ taken = [a \in Actor |-> 0]
  /\ gaveUp = FALSE
  /\ unruly = FALSE

-----------------------------------------------------------------------------
(* The user: initialize, by the constructor, then one hook after another. *)

UserCalls ==
  /\ pc["user"] = "idle"
  /\ runtime = "ready" \/ (runtime = "starting" /\ outcome["user"] = "none")
  /\ calls + 1 < MaxCalls
  /\ pc' = [pc EXCEPT !["user"] = "lock"]
  /\ outcome' = [outcome EXCEPT !["user"] = "none"]
  /\ UNCHANGED << lock, nextId, callId, buffer, runtime, piped, plugin, calls,
                  callNo, taken, gaveUp, unruly >>

\* The constructor returns, or raises: initialize failed or its result names a
\* protocol version that is not supported.
Constructed ==
  /\ runtime = "starting"
  /\ pc["user"] = "idle" /\ outcome["user"] # "none"
  /\ runtime' \in IF outcome["user"] = "result" THEN {"ready", "broken"} ELSE {"broken"}
  /\ UNCHANGED << pc, lock, nextId, callId, outcome, buffer, piped, plugin, calls,
                  callNo, taken, gaveUp, unruly >>

-----------------------------------------------------------------------------
(* A call. *)

\* Where an actor goes when its call is over.
After(a) == IF a = "user" THEN "idle" ELSE "stop"

\* call returns or raises: the lock is left.
Return(a, o) ==
  /\ pc' = [pc EXCEPT ![a] = After(a)]
  /\ outcome' = [outcome EXCEPT ![a] = o]
  /\ lock' = "none"

EnterDead(a) ==
  /\ pc[a] = "lock" /\ lock = "none"
  /\ ~alive
  /\ Return(a, "dead")
  /\ UNCHANGED << nextId, callId, buffer, runtime, piped, plugin, calls, callNo,
                  taken, gaveUp, unruly >>

\* Mutant of FollowingId: the id advances with answers only.
FollowingIdAnswered == IF outcome["user"] = "result" THEN nextId + 1 ELSE nextId

FollowingId == nextId + 1

Enter(a) ==
  /\ pc[a] = "lock" /\ lock = "none"
  /\ alive
  /\ lock' = a
  /\ callId' = [callId EXCEPT ![a] = nextId]
  /\ nextId' = FollowingId
  /\ calls' = calls + 1
  /\ callNo' = [callNo EXCEPT ![a] = calls + 1]
  /\ pc' = [pc EXCEPT ![a] = "write"]
  /\ UNCHANGED << outcome, buffer, runtime, piped, plugin, taken, gaveUp, unruly >>

\* write and flush block while the pipe is full, and raise when nobody is left to
\* read it.
Write(a) ==
  /\ pc[a] = "write"
  /\ alive /\ Len(stdin) < PipeSize
  /\ stdin' = Append(stdin, [id |-> callId[a], call |-> callNo[a]])
  /\ pc' = [pc EXCEPT ![a] = "select"]
  /\ UNCHANGED << lock, nextId, callId, outcome, buffer, runtime, piped, alive,
                  work, stdout, calls, callNo, taken, gaveUp, unruly >>

WriteFails(a) ==
  /\ pc[a] = "write"
  /\ ~alive
  /\ Return(a, "dead")
  /\ UNCHANGED << nextId, callId, buffer, runtime, piped, plugin, calls, callNo,
                  taken, gaveUp, unruly >>

\* What select sees of the process's stdout: data in the pipe, or its end.
Readable == stdout # << >> \/ ~alive

Select(a) ==
  /\ pc[a] = "select"
  /\ Readable
  /\ pc' = [pc EXCEPT ![a] = "read"]
  /\ UNCHANGED << lock, nextId, callId, outcome, buffer, runtime, piped, plugin,
                  calls, callNo, taken, gaveUp, unruly >>

\* Mutant of Expires: select gets no timeout.
ExpiresNever == FALSE

Expires == ~Readable

TimesOut(a) ==
  /\ pc[a] = "select"
  /\ Expires
  /\ Return(a, "timeout")
  /\ gaveUp' = TRUE
  /\ UNCHANGED << nextId, callId, buffer, runtime, piped, plugin, calls, callNo, taken, unruly >>

Halves(s) == {i \in DOMAIN s : s[i].kind = "half"}

\* The lines that the buffer holds, by the place of their last element.
LineEnds == DOMAIN buffer \ Halves(buffer)

\* readline has no whole line and reads on, up to all there is in the pipe.
ReadChunk(a) ==
  /\ pc[a] = "read"
  /\ piped
  /\ LineEnds = {}
  /\ \E n \in 1 .. Len(stdout) :
       /\ buffer' = buffer \o SubSeq(stdout, 1, n)
       /\ stdout' = SubSeq(stdout, n + 1, Len(stdout))
  /\ UNCHANGED << pc, lock, nextId, callId, outcome, runtime, piped, alive, stdin,
                  work, calls, callNo, taken, gaveUp, unruly >>

\* Mutant of Matches: the id of an answer is not compared.
MatchesAny(a, line) == TRUE

Matches(a, line) == line.id = callId[a]

\* What the call makes of a line.
Verdict(a, line) ==
  IF line.kind = "junk" THEN "junk"
  ELSE IF ~Matches(a, line) THEN "mismatch"
  ELSE IF line.kind = "error" THEN "refused" ELSE "result"

Rest(i) == SubSeq(buffer, i + 1, Len(buffer))

ReadLine(a) ==
  /\ pc[a] = "read"
  /\ piped
  /\ \E i \in LineEnds :
       /\ \A j \in 1 .. i - 1 : j \in Halves(buffer)
       /\ Return(a, Verdict(a, buffer[i]))
       /\ taken' = [taken EXCEPT ![a] = buffer[i].call]
       /\ buffer' = Rest(i)
  /\ UNCHANGED << nextId, callId, runtime, piped, plugin, calls, callNo, gaveUp, unruly >>

\* stdout has ended, or the closer has closed it under the user.
ReadEnd(a) ==
  /\ pc[a] = "read"
  /\ IF piped
     THEN ~alive /\ stdout = << >> /\ LineEnds = {} /\ buffer' = << >>
     ELSE UNCHANGED buffer
  /\ Return(a, IF piped /\ buffer # << >> THEN "junk" ELSE "dead")
  /\ UNCHANGED << nextId, callId, runtime, piped, plugin, calls, callNo, taken, gaveUp, unruly >>

Call(a) ==
  \/ EnterDead(a) \/ Enter(a) \/ Write(a) \/ WriteFails(a) \/ Select(a)
  \/ TimesOut(a) \/ ReadChunk(a) \/ ReadLine(a) \/ ReadEnd(a)

-----------------------------------------------------------------------------
(* The closer: shutdown. *)

\* The pool hands a runtime to one caller of shutdown, once, when it is built.
Shutdown ==
  /\ runtime = "ready"
  /\ pc["closer"] = "idle"
  /\ pc' = [pc EXCEPT !["closer"] = IF alive THEN "lock" ELSE "stop"]
  /\ UNCHANGED << lock, nextId, callId, outcome, buffer, runtime, piped, plugin,
                  calls, callNo, taken, gaveUp, unruly >>

\* terminate, when the plugin did not exit by itself.
Terminate ==
  /\ pc["closer"] = "stop"
  /\ pc' = [pc EXCEPT !["closer"] = IF alive THEN "wait" ELSE "close"]
  /\ UNCHANGED << lock, nextId, callId, outcome, buffer, runtime, piped, plugin,
                  calls, callNo, taken, gaveUp, unruly >>

Killed == FALSE

\* wait(timeout=2) returns, or kill.
Wait ==
  /\ pc["closer"] = "wait"
  /\ alive' = Killed
  /\ stdin' = << >>
  /\ work' = << >>
  /\ pc' = [pc EXCEPT !["closer"] = "close"]
  /\ UNCHANGED << lock, nextId, callId, outcome, buffer, runtime, piped, stdout,
                  calls, callNo, taken, gaveUp, unruly >>

\* Closing stdout waits for a readline that is under way.
ClosePipes ==
  /\ pc["closer"] = "close"
  /\ pc["user"] # "read"
  /\ piped' = FALSE
  /\ pc' = [pc EXCEPT !["closer"] = "done"]
  /\ UNCHANGED << lock, nextId, callId, outcome, buffer, runtime, plugin, calls,
                  callNo, taken, gaveUp, unruly >>

Close == Shutdown \/ Terminate \/ Wait \/ ClosePipes

-----------------------------------------------------------------------------
(* The plugin process, outside src/ except for the bundled example. *)

host == << pc, lock, nextId, callId, outcome, buffer, runtime, piped, calls,
           callNo, taken, gaveUp >>

PluginReads ==
  /\ alive
  /\ work = << >> /\ stdin # << >>
  /\ work' = << Head(stdin) >>
  /\ stdin' = Tail(stdin)
  /\ UNCHANGED << host, alive, stdout, unruly >>

PluginAnswers ==
  /\ alive
  /\ work # << >> /\ Len(stdout) < PipeSize
  /\ \E kind \in {"result", "error"} : stdout' = Append(stdout, Line(work[1], kind))
  /\ work' = << >>
  /\ UNCHANGED << host, alive, stdin, unruly >>

\* The beginning of an answer.
PluginBegins ==
  /\ unruly' = TRUE
  /\ alive
  /\ work # << >> /\ Len(stdout) < PipeSize
  /\ Halves(stdout \o buffer) = {}
  /\ stdout' = Append(stdout, Line(work[1], "half"))
  /\ UNCHANGED << host, alive, stdin, work >>

\* A request it ignores, as the example does with one that it cannot parse.
PluginSkips ==
  /\ alive
  /\ work # << >>
  /\ work' = << >>
  /\ UNCHANGED << host, alive, stdin, stdout, unruly >>

\* A log line, or a line that is no JSON object.
PluginChatters ==
  /\ unruly' = TRUE
  /\ alive
  /\ work = << >> /\ Len(stdout) < PipeSize
  /\ stdout' = Append(stdout, Junk)
  /\ UNCHANGED << host, alive, stdin, work >>

\* What it wrote can still be read.
PluginExits ==
  /\ alive
  /\ alive' = FALSE
  /\ stdin' = << >>
  /\ work' = << >>
  /\ UNCHANGED << host, stdout, unruly >>

Plugin ==
  \/ PluginReads \/ PluginBegins \/ PluginAnswers \/ PluginSkips
  \/ PluginChatters \/ PluginExits

Next ==
  \/ UserCalls \/ Constructed
  \/ \E a \in Actor : Call(a)
  \/ Close
  \/ Plugin

Spec == Init /\ [][Next]_vars

\* Threads run and time passes.  The lock goes to a waiter in the end.  Of the
\* plugin nothing is assumed.
HostFairness ==
  /\ \A a \in Actor : SF_vars(EnterDead(a)) /\ SF_vars(Enter(a)) /\ WF_vars(Call(a))
  /\ WF_vars(Constructed)
  /\ WF_vars(Terminate) /\ WF_vars(Wait) /\ WF_vars(ClosePipes)

HostFairSpec == Spec /\ HostFairness

-----------------------------------------------------------------------------
(* Properties. *)

Message == [id : Nat, call : Nat]

AnyLine == [id : Nat, call : Nat, kind : {"result", "error", "junk", "half"}]

TypeOK ==
  /\ pc \in [Actor -> {"idle", "lock", "write", "select", "read", "stop", "wait", "close", "done"}]
  /\ lock \in Actor \union {"none"}
  /\ nextId \in Nat
  /\ callId \in [Actor -> Nat]
  /\ outcome \in [Actor -> {"none", "result", "refused", "timeout", "mismatch", "junk", "dead"}]
  /\ buffer \in Seq(AnyLine)
  /\ runtime \in {"starting", "ready", "broken"}
  /\ piped \in BOOLEAN
  /\ alive \in BOOLEAN
  /\ stdin \in Seq(Message)
  /\ work \in Seq(Message)
  /\ stdout \in Seq(AnyLine)
  /\ calls \in Nat
  /\ callNo \in [Actor -> Nat]
  /\ taken \in [Actor -> Nat]
  /\ gaveUp \in BOOLEAN
  /\ unruly \in BOOLEAN

\* What the ids are worth: they count the calls, so an answer that has the id of a
\* call is the answer to it.
Numbered(m) == m.id = m.call

Calling(a) == pc[a] \in {"write", "select", "read"}

Identified ==
  /\ nextId = calls + 1
  /\ \A m \in Range(stdin) \union Range(work) \union Range(stdout) \union Range(buffer) :
       Numbered(m)
  /\ \A a \in Actor :
       /\ callId[a] = callNo[a]
       /\ Calling(a) \/ pc[a] = "lock" => outcome[a] = "none"
  /\ pc["closer"] = "idle" => outcome["closer"] = "none"

\* _lock: one actor at a time has a call under way.
OneCall == \A a \in Actor : Calling(a) <=> lock = a

\* What is in the pipes, and with the plugin, that the host has not read.
Pending == Len(stdin) + Len(work) + Len(stdout) + Len(buffer)

\* Without chatter, and until a call gives up, all that is pending belongs to the
\* call under way; once the process is gone what it left may stay unread.
InStep ==
  ~unruly /\ ~gaveUp =>
    /\ \A m \in Range(stdout) \union Range(buffer) : m.kind \in {"result", "error"}
    /\ lock = "none" /\ alive => Pending = 0
    /\ \A a \in Actor :
         /\ pc[a] = "write" => Pending = 0
         /\ pc[a] \in {"select", "read"} =>
              /\ Pending <= 1
              /\ \A m \in Range(stdin) \union Range(work) \union Range(stdout)
                           \union Range(buffer) : m.id = callId[a]

\* A hook never acts on the answer to another call, although calls give up and
\* their answers come late (supervisor.py, lines 123-126 and 188-193).
OwnAnswer == \A a \in Actor : outcome[a] = "result" => taken[a] = callNo[a]

\* Only a call that was given up puts the runtime out of step: with a plugin that
\* writes one line per call, no call gets another one's answer before that.
InStepUntilTimeout ==
  ~unruly /\ ~gaveUp => \A a \in Actor : outcome[a] \notin {"mismatch", "junk"}

\* A shutdown ends with the process gone, whatever the plugin does with it.
ShutdownKills == pc["closer"] = "done" => ~alive

\* The process is gone before the pipes are closed.
ClosedAfter == pc["closer"] \in {"close", "done"} \/ ~piped => ~alive

\* The inductive invariant of the proofs.
IInv ==
  /\ TypeOK
  /\ OneCall
  /\ Identified
  /\ OwnAnswer
  /\ InStep
  /\ InStepUntilTimeout
  /\ ClosedAfter

\* A call waits for a living plugin where the host sets no timeout: for room in a
\* full stdin (line 163), or in readline for the end of a line that has begun
\* (line 141).
Stalled(a) ==
  /\ alive
  /\ \/ pc[a] = "write" /\ Len(stdin) >= PipeSize
     \/ pc[a] = "read" /\ piped /\ LineEnds = {} /\ stdout = << >>

\* Every call comes back, whatever the plugin writes or leaves out: the timeout of
\* a hook is enforced (supervisor.py, lines 128-139).  The only call that does not
\* is one that is stalled and stays so for ever: its plugin has stopped reading
\* its requests, or has stopped in the middle of a line, and lives on.
CallsEnd == \A a \in Actor : []<>~Calling(a) \/ <>[]Stalled(a)

\* A shutdown that wants the lock comes to its end, also while a request still
\* calls the plugin, unless a call, that request's or its own, is stalled for ever.
ShutdownEnds ==
  \/ pc["closer"] = "lock" ~> pc["closer"] = "done"
  \/ \E a \in Actor : <>[]Stalled(a)
=============================================================================
