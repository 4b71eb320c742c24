----------------------------- MODULE Controller -----------------------------
(***************************************************************************)
(* The command line controller (cli/): enable, disable, start, stop and    *)
(* restart.  A command edits the configuration files of the harnesses it   *)
(* routes through the gateway, starts or stops the gateway's process, and  *)
(* keeps what it did in two files of its own, controller.json and          *)
(* controller.pid.                                                         *)
(*                                                                         *)
(* Each write of a file, each signal and each look at a process is a step. *)
(* Between two of them the command may be killed (or end with an error     *)
(* that nobody catches), and the gateway may exit.  One command runs at a  *)
(* time (nothing locks the files), and between commands the user may edit  *)
(* the configuration of OpenCode.  Left out: a kill inside the write of a  *)
(* file, and a backup that replaces another of the same second.            *)
(*                                                                         *)
(* Two harnesses stand for the two kinds of attachment: Claude Code, whose *)
(* settings hold a set of hook URLs, and OpenCode, whose providers have a  *)
(* base URL that attach replaces and detach restores.  The URL of the      *)
(* gateway is represented by its port.                                     *)
(***************************************************************************)
EXTENDS Naturals, Sequences, FiniteSets, SequencesExt

CONSTANTS
  Provider,  \* the providers in the configuration of OpenCode
  Upstream,  \* the base URLs the user may give a provider
  Local,     \* those that begin with http://127.0.0.1 or http://localhost
  Default,   \* the base URL OpenCode uses for a provider without one
  Unset,     \* no base URL
  FirstBase, \* the base URLs before the first command
  FirstActive, \* the provider of the model selected then
  Port,      \* the ports of the gateway
  Setting,   \* what a command may ask for: a port, and remote administration
  FirstSetting, \* the settings of a controller without controller.json
  Pid,       \* the processes of the gateway
  None,      \* no process
  MaxKills,  \* bound on the commands that are killed
  MaxEdits   \* bound on the user's edits

ASSUME ControllerAssumption ==
  /\ Local \subseteq Upstream
  /\ FirstActive \in Provider
  /\ Unset \notin Upstream \union Port
  /\ Upstream \intersect Port = {}
  /\ {Default, FirstBase} \subseteq [Provider -> Upstream \union {Unset}]
  /\ Setting \subseteq [port : Port, admin : BOOLEAN]
  /\ FirstSetting \in Setting
  /\ None \notin Pid
  /\ {MaxKills, MaxEdits} \subseteq Nat
  /\ IsFiniteSet(Pid) /\ Cardinality(Pid) > MaxKills + 1

VARIABLES
  record,   \* controller.json: the settings and the enabled harnesses
  pidfile,  \* controller.pid
  gateway,  \* each process of the gateway: its port, and whether it serves
  hooks,    \* the hook URLs of the gateway in the settings of Claude Code
  outdated, \* history: those that may be left there of an earlier URL or a kill
  active,   \* the provider of the model selected in OpenCode
  base,     \* the base URL of each provider in OpenCode's configuration
  meta,     \* the route metadata file beside it
  backup,   \* the user's URLs in the backups of that configuration
  cmd,      \* the command that runs
  kills, edits, \* how many commands were killed, and edits made
  wish,      \* the base URL the user gave each provider
  stray,     \* files may disagree since a kill or an edit
  left,      \* the providers that a kill or the user may have left routed
  forgotten, \* the providers whose URL the metadata may not tell
  lost       \* the gateways that a killed command left

files == << hooks, outdated, active, base, meta, backup >>
user  == << wish, edits, stray, left, forgotten >>
procs == << gateway, lost >>
vars  == << record, pidfile, procs, files, cmd, kills, user >>

Harness == {"claude", "opencode"}

\* The harnesses of a set in order: controller.json is written sorted.
Sorted(S) ==
  LET first == IF "claude" \in S THEN << "claude" >> ELSE << >>
  IN IF "opencode" \in S THEN Append(first, "opencode") ELSE first

\* One call of an adapter.
Job == [do : {"attach", "detach"}, harness : Harness, port : Port]

NoEntry == [url |-> Unset, explicit |-> FALSE]

\* An entry of the route metadata: originalBaseUrl and hadExplicitBaseUrl.
Entry == [url : Upstream, explicit : BOOLEAN] \union {NoEntry}

NoPid == [pid |-> None, setting |-> FirstSetting]

\* No metadata to write, or the provider and its new entry.
NoWrite == << >>

Command ==
  [op : {"none", "enable", "disable", "disable_all", "start", "stop", "restart"},
   harness : Harness, setting : Setting,
   pc : {"idle", "sync", "undo", "drop", "look", "stop", "clear", "spawn", "poll",
         "report", "giveup", "save"},
   jobs : Seq(Job), write : {NoWrite} \union (Provider \X Entry),
   changed : Seq(Job), child : Pid \union {None}]

Idle == [op |-> "none", harness |-> "claude", setting |-> FirstSetting,
         pc |-> "idle", jobs |-> << >>, write |-> NoWrite, changed |-> << >>,
         child |-> None]

Alive(q) == q # None /\ gateway[q] # None

Serving(port) == [port |-> port, serves |-> TRUE] \in {gateway[q] : q \in Pid}

Init ==
  /\ record = [setting |-> FirstSetting, enabled |-> {}]
  /\ pidfile = NoPid
  /\ gateway = [q \in Pid |-> None]
  /\ hooks = {} /\ outdated = {} /\ active = FirstActive
  /\ base = FirstBase
  /\ meta = [p \in Provider |-> NoEntry]
  /\ backup = [p \in Provider |-> {}]
  /\ cmd = Idle /\ kills = 0 /\ edits = 0
  /\ wish = base /\ stray = FALSE /\ left = {} /\ forgotten = {} /\ lost = {}

-----------------------------------------------------------------------------
(* The files of the harnesses. *)

\* Mutant of Original: metadata is not asked.
OriginalNow(p) ==
  IF base[p] \in Upstream \ Local THEN [url |-> base[p], explicit |-> TRUE]
  ELSE [url |-> Default[p], explicit |-> FALSE]

\* The URL to keep for a provider, and whether the user had set it.
\* Metadata comes first; a local URL is taken for the gateway's.
Original(p) ==
  IF meta[p] # NoEntry THEN meta[p]
  ELSE IF base[p] \in Upstream \ Local THEN [url |-> base[p], explicit |-> TRUE]
  ELSE [url |-> Default[p], explicit |-> FALSE]

\* What detach puts back.
Restored(entry) == IF entry.explicit THEN entry.url ELSE Unset

\* Mutant of BackedUp: no copy is made.
BackedUpNever == backup

\* The configuration is copied before it is written.
BackedUp == [p \in Provider |-> backup[p] \union ({base[p]} \intersect Upstream)]

\* The head of the jobs is done, up to a write of metadata.
Done(changed, write) ==
  cmd' = [cmd EXCEPT
    !.jobs = IF write = NoWrite THEN Tail(@) ELSE @,
    !.write = write,
    !.changed = IF changed /\ cmd.pc = "sync" THEN Append(@, Head(cmd.jobs)) ELSE @]

\* The harness of the next job is h, and the last one wrote its metadata.
NextJob(h, do) ==
  /\ cmd.pc \in {"sync", "undo", "drop"} /\ cmd.write = NoWrite
  /\ cmd.jobs # << >> /\ Head(cmd.jobs).harness = h /\ Head(cmd.jobs).do = do

\* Hooks at other URLs stay (claude.py, lines 55-97).
AttachClaude ==
  LET port == Head(cmd.jobs).port IN
  /\ NextJob("claude", "attach")
  /\ hooks' = hooks \union {port}
  /\ outdated' = outdated \union (hooks \ {port})
  /\ Done(port \notin hooks, NoWrite)
  /\ UNCHANGED << active, base, meta, backup >>

DetachClaude ==
  LET port == Head(cmd.jobs).port IN
  /\ NextJob("claude", "detach")
  /\ hooks' = hooks \ {port}
  /\ outdated' = outdated \ {port}
  /\ Done(port \in hooks, NoWrite)
  /\ UNCHANGED << active, base, meta, backup >>

\* With no URL to keep attach does nothing: enable and start then fail (see
\* Refused), and a rollback goes on.
AttachOpenCode ==
  LET port == Head(cmd.jobs).port
      entry == Original(active)
      known == entry.url # Unset
      changed == known /\ base[active] # port IN
  /\ NextJob("opencode", "attach")
  /\ known \/ cmd.pc = "undo"
  /\ base' = IF known THEN [base EXCEPT ![active] = port] ELSE base
  /\ backup' = IF changed THEN BackedUp ELSE backup
  /\ Done(changed, IF known THEN << active, entry >> ELSE NoWrite)
  /\ UNCHANGED << hooks, outdated, active, meta >>

\* Only the provider that is selected now is looked at.
DetachOpenCode ==
  LET changed == base[active] = Head(cmd.jobs).port IN
  /\ NextJob("opencode", "detach")
  /\ IF changed
     THEN /\ base' = [base EXCEPT ![active] = Restored(meta[active])]
          /\ backup' = BackedUp
          /\ Done(TRUE, << active, NoEntry >>)
     ELSE /\ UNCHANGED << base, backup >>
          /\ Done(FALSE, NoWrite)
  /\ UNCHANGED << hooks, outdated, active, meta >>

WriteMetadata ==
  /\ cmd.write # NoWrite
  /\ meta' = [meta EXCEPT ![cmd.write[1]] = cmd.write[2]]
  /\ cmd' = [cmd EXCEPT !.write = NoWrite, !.jobs = Tail(@)]
  /\ UNCHANGED << hooks, outdated, active, base, backup >>

FileStep ==
  /\ \/ AttachClaude \/ DetachClaude
     \/ AttachOpenCode \/ DetachOpenCode \/ WriteMetadata
  /\ UNCHANGED << record, pidfile, procs, kills, user >>

-----------------------------------------------------------------------------
(* The commands. *)

\* Attach or detach the harnesses named, one after another.
Each(do, names, port) ==
  [i \in DOMAIN names |-> [do |-> do, harness |-> names[i], port |-> port]]

Enabled == Sorted(record.enabled)

\* The jobs of enable: the harness, and the others if the URL changes.
ToAttach(h, setting) ==
  LET others == setting.port # record.setting.port
      before == Sorted(IF others THEN record.enabled ELSE record.enabled \intersect {h})
  IN Each("attach",
          IF h \in record.enabled THEN before ELSE Append(before, h),
          setting.port)

\* Mutant of Undo: it does not matter whether the harness was enabled before.
UndoDetaches(job) == [job EXCEPT !.do = "detach"]

\* What undoes a job that changed a file.
Undo(job) ==
  IF job.harness \in record.enabled
  THEN [job EXCEPT !.port = record.setting.port]
  ELSE [job EXCEPT !.do = "detach"]

Undone ==
  LET jobs == Reverse(cmd.changed) IN [i \in DOMAIN jobs |-> Undo(jobs[i])]

Run(op, h, setting, pc, jobs) ==
  /\ cmd = Idle
  /\ cmd' = [Idle EXCEPT !.op = op, !.harness = h, !.setting = setting,
                         !.pc = pc, !.jobs = jobs]
  /\ UNCHANGED << record, pidfile, procs, files, kills, user >>

Enable(h, setting) == Run("enable", h, setting, "sync", ToAttach(h, setting))

Start(setting) ==
  /\ record.enabled # {}
  /\ Run("start", "claude", setting, "sync", Each("attach", Enabled, setting.port))

Disable(h) ==
  /\ h \in record.enabled
  /\ Run("disable", h, record.setting, "drop",
         Each("detach", << h >>, record.setting.port))

DisableAll ==
  Run("disable_all", "claude", record.setting, "drop",
      Each("detach", Enabled, record.setting.port))

Stop == Run("stop", "claude", record.setting, "stop", << >>)

Restart(setting) == Run("restart", "claude", setting, "stop", << >>)

Goto(pc) == cmd' = [cmd EXCEPT !.pc = pc]

\* The command fails: what it attached is undone.
Fail == cmd' = [cmd EXCEPT !.pc = "undo", !.jobs = Undone, !.changed = << >>]

\* A harness is not ready, or attach cannot route it.  Claude Code always is.
Refused ==
  /\ cmd.pc = "sync" /\ cmd.write = NoWrite
  /\ cmd.jobs # << >> /\ Head(cmd.jobs).harness = "opencode"
  /\ Fail
  /\ UNCHANGED << record, pidfile, procs, files, kills, user >>

JobsDone ==
  /\ cmd.pc \in {"sync", "undo", "drop"} /\ cmd.jobs = << >>
  /\ CASE cmd.pc = "sync" -> Goto("look")
       [] cmd.pc = "undo" -> cmd' = Idle
       [] cmd.pc = "drop" -> Goto("save")
  /\ UNCHANGED << record, pidfile, procs, files, kills, user >>

\* controller.json is replaced, at the end of enable and start, and before
\* disable stops the gateway.
NextRecord ==
  CASE cmd.op = "enable" ->
         [setting |-> cmd.setting, enabled |-> record.enabled \union {cmd.harness}]
    [] cmd.op = "start" -> [record EXCEPT !.setting = cmd.setting]
    [] cmd.op = "disable" -> [record EXCEPT !.enabled = @ \ {cmd.harness}]
    [] cmd.op = "disable_all" -> [record EXCEPT !.enabled = {}]

Save ==
  /\ cmd.pc = "save"
  /\ record' = NextRecord
  /\ IF \/ cmd.op = "disable_all"
        \/ cmd.op = "disable" /\ NextRecord.enabled = {}
     THEN Goto("stop")
     ELSE cmd' = Idle
  /\ stray' = (stray /\ cmd.op # "start")
  /\ UNCHANGED << pidfile, procs, files, kills, wish, edits, left, forgotten >>

-----------------------------------------------------------------------------
(* The gateway's process. *)

\* GatewayProcessManager.start looks at the process of the last command.  A
\* gateway that serves may still be too busy to answer in time.
Look ==
  LET q == pidfile.pid IN
  /\ cmd.pc = "look"
  /\ \/ /\ Alive(q) /\ Serving(pidfile.setting.port)
        /\ pidfile.setting = cmd.setting
        /\ Goto("save") /\ UNCHANGED pidfile
     \/ Alive(q) /\ Goto("stop") /\ UNCHANGED pidfile
     \/ ~Alive(q) /\ Goto("spawn") /\ pidfile' = NoPid
  /\ UNCHANGED << record, procs, files, kills, user >>

\* Mutant of Terminate: the process is left alone.
TerminateNothing(q) == UNCHANGED << gateway, lost >>

\* The process is told to stop, then killed if need be.
Terminate(q) ==
  /\ gateway' = [p \in Pid |-> IF p = q THEN None ELSE gateway[p]]
  /\ lost' = lost \ {q}

StopProcess ==
  /\ cmd.pc = "stop"
  /\ Terminate(pidfile.pid)
  /\ Goto("clear")
  /\ UNCHANGED << record, pidfile, files, kills, user >>

\* After stop: start goes on, restart begins, the others are done.
ClearPid ==
  /\ cmd.pc = "clear"
  /\ pidfile' = NoPid
  /\ IF cmd.op \in {"enable", "start"} THEN Goto("spawn")
     ELSE IF cmd.op = "restart" /\ record.enabled # {}
     THEN cmd' = [cmd EXCEPT !.op = "start", !.pc = "sync",
                    !.jobs = Each("attach", Enabled, cmd.setting.port)]
     ELSE cmd' = Idle
  /\ UNCHANGED << record, procs, files, kills, user >>

Spawn ==
  /\ cmd.pc = "spawn"
  /\ \E q \in Pid :
       /\ ~Alive(q) /\ q # pidfile.pid
       /\ gateway' = [gateway EXCEPT ![q] = [port |-> cmd.setting.port, serves |-> FALSE]]
       /\ cmd' = [cmd EXCEPT !.child = q, !.pc = "poll"]
  /\ UNCHANGED << record, pidfile, lost, files, kills, user >>

\* The health URL is answered, by whichever process has the port.
PollHealthy ==
  /\ cmd.pc = "poll" /\ Alive(cmd.child) /\ Serving(cmd.setting.port)
  /\ pidfile' = [pid |-> cmd.child, setting |-> cmd.setting]
  /\ Goto("report")
  /\ UNCHANGED << record, procs, files, kills, user >>

\* The process has exited, or the time for its start is over.
PollEnds ==
  /\ cmd.pc = "poll"
  /\ Terminate(cmd.child)
  /\ Goto("giveup")
  /\ UNCHANGED << record, pidfile, files, kills, user >>

\* The status start returns: a process that died meanwhile is forgotten.
Report ==
  /\ cmd.pc = "report"
  /\ pidfile' = IF Alive(pidfile.pid) THEN pidfile ELSE NoPid
  /\ Goto("save")
  /\ UNCHANGED << record, procs, files, kills, user >>

GiveUp ==
  /\ cmd.pc = "giveup"
  /\ pidfile' = NoPid
  /\ Fail
  /\ UNCHANGED << record, procs, files, kills, user >>

\* A new process takes its port, or exits when another has it.
Bind(q) ==
  /\ Alive(q) /\ ~gateway[q].serves
  /\ IF Serving(gateway[q].port)
     THEN Terminate(q)
     ELSE gateway' = [gateway EXCEPT ![q].serves = TRUE] /\ UNCHANGED lost
  /\ UNCHANGED << record, pidfile, files, cmd, kills, user >>

Exit(q) ==
  /\ Alive(q)
  /\ Terminate(q)
  /\ UNCHANGED << record, pidfile, files, cmd, kills, user >>

-----------------------------------------------------------------------------
(* The surroundings: a kill of the command, and the user of OpenCode. *)

Routed == {p \in Provider : base[p] \in Port}

Pending == IF cmd.write = NoWrite THEN {} ELSE {cmd.write[1]}

Kill ==
  /\ cmd # Idle /\ kills < MaxKills
  /\ kills' = kills + 1
  /\ cmd' = Idle
  /\ stray' = TRUE /\ left' = left \union Routed
  /\ forgotten' = forgotten \union Pending
  /\ lost' = {q \in Pid : Alive(q) /\ q # pidfile.pid}
  /\ outdated' = outdated \union hooks
  /\ UNCHANGED << record, pidfile, gateway, hooks, active, base, meta, backup, wish, edits >>

\* The user selects a model of another provider.
Select(p) ==
  /\ cmd = Idle /\ p # active /\ edits < MaxEdits
  /\ edits' = edits + 1
  /\ active' = p
  /\ stray' = (stray \/ "opencode" \in record.enabled)
  /\ left' = left \union ({active} \intersect Routed)
  /\ UNCHANGED << record, pidfile, procs, hooks, outdated, base, meta, backup, cmd,
                  kills, wish, forgotten >>

\* The user sets or removes the base URL of a provider.
Edit(p, url) ==
  /\ cmd = Idle /\ url # base[p] /\ edits < MaxEdits
  /\ edits' = edits + 1
  /\ base' = [base EXCEPT ![p] = url]
  /\ wish' = [wish EXCEPT ![p] = url]
  /\ stray' = (stray \/ "opencode" \in record.enabled)
  /\ forgotten' = IF meta[p] = NoEntry
                  THEN forgotten \ {p} ELSE forgotten \union {p}
  /\ UNCHANGED << record, pidfile, procs, hooks, outdated, active, meta, backup, cmd,
                  kills, left >>

-----------------------------------------------------------------------------
ProcessStep ==
  \/ Look \/ StopProcess \/ ClearPid \/ Spawn \/ PollHealthy \/ PollEnds
  \/ Report \/ GiveUp

CommandStep == FileStep \/ Refused \/ JobsDone \/ Save \/ ProcessStep

Next ==
  \/ \E h \in Harness, s \in Setting : Enable(h, s)
  \/ \E s \in Setting : Start(s) \/ Restart(s)
  \/ \E h \in Harness : Disable(h)
  \/ DisableAll \/ Stop
  \/ CommandStep
  \/ \E q \in Pid : Bind(q) \/ Exit(q)
  \/ Kill
  \/ \E p \in Provider : Select(p)
  \/ \E p \in Provider, url \in Upstream \union {Unset} : Edit(p, url)

Spec == Init /\ [][Next]_vars
-----------------------------------------------------------------------------
(* Properties. *)

TypeOK ==
  /\ record \in [setting : Setting, enabled : SUBSET Harness]
  /\ pidfile \in [pid : Pid \union {None}, setting : Setting]
  /\ gateway \in [Pid -> [port : Port, serves : BOOLEAN] \union {None}]
  /\ hooks \subseteq Port /\ outdated \subseteq Port
  /\ active \in Provider
  /\ base \in [Provider -> Upstream \union Port \union {Unset}]
  /\ meta \in [Provider -> Entry]
  /\ backup \in [Provider -> SUBSET Upstream]
  /\ cmd \in Command
  /\ kills \in 0..MaxKills /\ edits \in 0..MaxEdits
  /\ wish \in [Provider -> Upstream \union {Unset}]
  /\ stray \in BOOLEAN
  /\ left \subseteq Provider /\ forgotten \subseteq Provider /\ lost \subseteq Pid

\* What the metadata says of a provider, when the write under way is done.
Told(p) == IF p \in Pending THEN cmd.write[2] ELSE meta[p]

\* Detach will give a provider back the base URL the user gave it: through any
\* number of enables, changes of port, failed commands and their rollbacks, the
\* metadata remembers what the user had set, or that nothing was set
\* (opencode.py, lines 153-175 and 428-447).  Not so for a local URL, for a
\* provider the user edits while it is routed, or after a kill between the
\* writes of the two files.
KeepsUsersUrl ==
  \A p \in Provider \ forgotten :
    \/ wish[p] \in Local
    \/ wish[p] = IF base[p] \in Port THEN Restored(Told(p)) ELSE base[p]

\* The port at which controller.json has Claude Code attached, if it has.
ClaudePort == IF "claude" \in record.enabled THEN {record.setting.port} ELSE {}

\* Between commands, what controller.json says and what the harnesses' files say
\* agree, also after commands that failed at any harness or at the gateway's start
\* (rollback, controller_service.py, lines 227-259).  An enabled harness is
\* attached at the recorded URL, and a start that succeeds repairs what a kill or
\* an edit left.  One that is not enabled is not attached, but for OpenCode's
\* providers that a kill or the user left routed, and for hooks of Claude Code at
\* an earlier URL: attach at a new one, and its rollback, remove none of the old
\* one (claude.py, lines 55-97), and disable only that of the recorded one.
FilesFollowRecord ==
  cmd = Idle =>
    /\ ~stray => ClaudePort \subseteq hooks
    /\ hooks \subseteq ClaudePort \union outdated
    /\ ~stray /\ "opencode" \in record.enabled => base[active] = record.setting.port
    /\ "opencode" \notin record.enabled => Routed \subseteq left

\* Between commands, the only gateway that runs is the one controller.pid names,
\* with the settings controller.json has, unless a command was killed: no
\* sequence of starts, changes of settings, failures and exits leaves a process
\* that stop would not find (controller_process.py, lines 234-361).
GatewaysRecorded ==
  cmd = Idle =>
    /\ \A q \in Pid : Alive(q) => q = pidfile.pid \/ q \in lost
    /\ ~stray /\ pidfile.pid # None => pidfile.setting = record.setting

\* Wherever a command is killed and whatever the user edits, the URL the user
\* gave a provider is in the configuration, in its metadata or in a backup
\* (opencode.py, lines 346-361 and 449-462).
UrlNotLost ==
  \A p \in Provider :
    wish[p] \in {Unset, base[p], meta[p].url} \union backup[p]
-----------------------------------------------------------------------------
(* The inductive invariant, which implies the four properties.              *)

HarnessesOf(jobs) == {job.harness : job \in ToSet(jobs)}

\* enable and start, and until when what they attach stays.
Changes == cmd.op \in {"enable", "start"}

Syncs == Changes /\ cmd.pc # "undo"

\* disable and disable_all, until controller.json is written.
Drops == cmd.pc \in {"drop", "save"} /\ cmd.op \in {"disable", "disable_all"}

\* The harnesses the command attaches, and those it detaches.
Targets ==
  IF cmd.op = "start" THEN record.enabled
  ELSE {cmd.harness} \union
         (IF cmd.setting.port # record.setting.port THEN record.enabled ELSE {})

Removed == IF cmd.op = "disable" THEN {cmd.harness} ELSE record.enabled

\* What each of the jobs left may be.
Planned(job) ==
  IF cmd.pc = "sync"
  THEN job.do = "attach" /\ job.port = cmd.setting.port /\ job.harness \in Targets
  ELSE IF cmd.pc = "undo"
  THEN IF job.harness \in record.enabled
       THEN job.do = "attach" /\ job.port = record.setting.port
       ELSE job.do = "detach" /\ job.port = cmd.setting.port
  ELSE job.do = "detach" /\ job.port = record.setting.port /\ job.harness \in Removed

\* What a command has, at each of its steps.
CommandInv ==
  /\ cmd.pc = "idle" <=> cmd = Idle
  /\ cmd.pc \in {"sync", "undo", "look", "spawn", "poll", "report", "giveup"} => Changes
  /\ cmd.pc = "drop" => Drops
  /\ cmd.pc = "save" => Changes \/ Drops
  /\ cmd.op = "disable" /\ Drops => cmd.harness \in record.enabled
  /\ cmd.pc \notin {"sync", "undo", "drop"} => cmd.jobs = << >>
  /\ ~Syncs => cmd.changed = << >>
  /\ cmd.write # NoWrite =>
       cmd.jobs # << >> /\ Head(cmd.jobs).harness = "opencode" /\ cmd.write[1] = active
  /\ \A job \in ToSet(cmd.jobs) : Planned(job)
  /\ \A job \in ToSet(cmd.changed) :
       job.do = "attach" /\ job.port = cmd.setting.port /\ job.harness \in Targets

\* What is known of the user's URLs, at each step of a command.
UrlInv ==
  \A p \in Provider :
    /\ wish[p] \in {Unset, base[p]} \union backup[p]
    /\ p \notin forgotten =>
         /\ base[p] \notin Port => Told(p) = NoEntry
         /\ \/ wish[p] \in Local
            \/ wish[p] = IF base[p] \in Port THEN Restored(Told(p)) ELSE base[p]

\* The settings of the gateway are those asked for, and not recorded yet.
Reported == cmd.pc = "report" \/ (cmd.pc = "save" /\ Changes)

GatewayInv ==
  /\ \A q \in Pid : Alive(q) => \/ q = pidfile.pid \/ q \in lost
                                \/ (cmd.pc = "poll" /\ q = cmd.child)
  /\ cmd.pc \in {"spawn", "poll", "giveup"} => pidfile.pid = None
  /\ cmd.pc = "clear" => ~Alive(pidfile.pid)
  /\ Reported => pidfile.pid = None \/ pidfile.setting = cmd.setting
  /\ ~stray /\ ~Reported => pidfile.pid = None \/ pidfile.setting = record.setting

HooksRecorded == ~stray /\ "claude" \in record.enabled => record.setting.port \in hooks

\* The providers routed through the gateway, and not by a kill or the user.
Exposed == Routed \ left

\* Only the provider selected is, at the recorded port.
ExposedRecorded ==
  \A p \in Exposed :
    "opencode" \in record.enabled /\ p = active /\ base[p] = record.setting.port

BaseRecorded ==
  /\ ~stray /\ "opencode" \in record.enabled => base[active] = record.setting.port
  /\ ExposedRecorded

\* It was attached by the command that runs, and its metadata is written.
BaseChanged ==
  base[active] = cmd.setting.port /\ Told(active) # NoEntry /\ Exposed \subseteq {active}

Attached(h) ==
  IF h = "claude" THEN cmd.setting.port \in hooks ELSE base[active] = cmd.setting.port

\* A harness that a command changed will be undone, unless the command succeeds.
FilesInv ==
  /\ (Drops /\ "claude" \in Removed) \/ HooksRecorded
  /\ IF Drops /\ "opencode" \in Removed
     THEN /\ ExposedRecorded
          /\ ("opencode" \in HarnessesOf(cmd.jobs) /\ cmd.write = NoWrite) \/ Exposed = {}
     ELSE \/ BaseRecorded
          \/ Syncs /\ "opencode" \in HarnessesOf(cmd.changed) /\ BaseChanged
          \/ /\ cmd.pc = "undo" /\ cmd.write = NoWrite
             /\ "opencode" \in HarnessesOf(cmd.jobs) /\ BaseChanged
  /\ Syncs => \A h \in Targets :
       \/ Attached(h)
       \/ /\ cmd.pc = "sync" /\ h \in HarnessesOf(cmd.jobs)
          /\ h = "opencode" => cmd.write = NoWrite

\* The hooks that are no leftovers.
Fresh == hooks \ outdated

\* They are at the recorded port, or at the port of a command that will undo them
\* unless it succeeds, which then has attached Claude Code there.
FreshInv ==
  /\ IF Drops /\ "claude" \in Removed
     THEN \/ "claude" \in HarnessesOf(cmd.jobs) /\ Fresh \subseteq {record.setting.port}
          \/ Fresh = {}
     ELSE \/ Fresh \subseteq ClaudePort
          \/ /\ Fresh \subseteq {cmd.setting.port}
             /\ \/ Syncs /\ "claude" \in HarnessesOf(cmd.changed)
                \/ cmd.pc = "undo" /\ "claude" \in HarnessesOf(cmd.jobs)
  /\ Syncs /\ "claude" \in Targets =>
       \/ Fresh \subseteq {cmd.setting.port}
       \/ cmd.pc = "sync" /\ "claude" \in HarnessesOf(cmd.jobs)

IInv == TypeOK /\ CommandInv /\ UrlInv /\ GatewayInv /\ FilesInv /\ FreshInv
=============================================================================
