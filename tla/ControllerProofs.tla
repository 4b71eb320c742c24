-------------------------- MODULE ControllerProofs --------------------------
(***************************************************************************)
(* Proofs about Controller, for every set of providers, URLs, ports and    *)
(* processes, and every number of commands, kills and edits.               *)
(***************************************************************************)
EXTENDS Controller, TLAPS

-----------------------------------------------------------------------------
(* Sequences of jobs, and the sets of their elements. *)

LEMMA TailElements ==
  ASSUME NEW S, NEW s \in Seq(S), s # << >>
  PROVE  /\ Tail(s) \in Seq(S)
         /\ Head(s) \in S
         /\ ToSet(s) = {Head(s)} \union ToSet(Tail(s))
<1>1. /\ DOMAIN s = 1 .. Len(s) /\ Len(s) \in Nat \ {0} /\ Head(s) = s[1]
      /\ Tail(s) \in Seq(S) /\ Head(s) \in S
      /\ DOMAIN Tail(s) = 1 .. Len(s) - 1
      /\ \A i \in 1 .. Len(s) - 1 : Tail(s)[i] = s[i + 1]
  OBVIOUS
<1>2. \A i \in DOMAIN s : s[i] \in {Head(s)} \union ToSet(Tail(s))
  <2> SUFFICES ASSUME NEW i \in DOMAIN s, i # 1
               PROVE  s[i] \in ToSet(Tail(s))
    BY <1>1
  <2>1. i - 1 \in DOMAIN Tail(s) /\ Tail(s)[i - 1] = s[i]
    BY <1>1
  <2> QED
    BY <2>1 DEF ToSet
<1>3. \A i \in DOMAIN Tail(s) : i + 1 \in DOMAIN s /\ Tail(s)[i] = s[i + 1]
  BY <1>1
<1>4. ToSet(Tail(s)) \subseteq ToSet(s)
  BY <1>3 DEF ToSet
<1>5. Head(s) \in ToSet(s)
  BY <1>1 DEF ToSet
<1>6. ToSet(s) \subseteq {Head(s)} \union ToSet(Tail(s))
  BY <1>2 DEF ToSet
<1> QED
  BY <1>1, <1>4, <1>5, <1>6

LEMMA AppendElements ==
  ASSUME NEW S, NEW s \in Seq(S), NEW e \in S
  PROVE  /\ Append(s, e) \in Seq(S)
         /\ ToSet(Append(s, e)) = ToSet(s) \union {e}
<1>1. /\ DOMAIN s = 1 .. Len(s) /\ Len(s) \in Nat
      /\ Append(s, e) \in Seq(S)
      /\ DOMAIN Append(s, e) = 1 .. Len(s) + 1
      /\ Append(s, e)[Len(s) + 1] = e
      /\ \A i \in 1 .. Len(s) : Append(s, e)[i] = s[i]
  OBVIOUS
<1>2. DOMAIN Append(s, e) = DOMAIN s \union {Len(s) + 1}
  BY <1>1
<1> QED
  BY <1>1, <1>2 DEF ToSet

LEMMA ReverseElements ==
  ASSUME NEW S, NEW s \in Seq(S)
  PROVE  /\ Reverse(s) \in Seq(S)
         /\ ToSet(Reverse(s)) = ToSet(s)
<1>1. DOMAIN s = 1 .. Len(s) /\ Len(s) \in Nat /\ \A i \in 1 .. Len(s) : s[i] \in S
  OBVIOUS
<1>2. Reverse(s) = [i \in 1 .. Len(s) |-> s[(Len(s) - i) + 1]]
  BY DEF Reverse
<1>3. \A i \in 1 .. Len(s) : (Len(s) - i) + 1 \in 1 .. Len(s)
  BY <1>1
<1>4. Reverse(s) \in Seq(S)
  BY <1>1, <1>2, <1>3
<1>5. \A i \in 1 .. Len(s) : (Len(s) - ((Len(s) - i) + 1)) + 1 = i
  BY <1>1
<1>6. \A i \in 1 .. Len(s) : Reverse(s)[(Len(s) - i) + 1] = s[i]
  BY <1>2, <1>3, <1>5
<1>7. ToSet(s) \subseteq ToSet(Reverse(s))
  <2>1. DOMAIN Reverse(s) = 1 .. Len(s)
    BY <1>2
  <2> QED
    BY <1>1, <1>3, <1>6, <2>1 DEF ToSet
<1>8. ToSet(Reverse(s)) \subseteq ToSet(s)
  BY <1>1, <1>2, <1>3 DEF ToSet
<1> QED
  BY <1>4, <1>7, <1>8

LEMMA EmptyElements == ToSet(<< >>) = {} /\ \A S : << >> \in Seq(S)
BY DEF ToSet

\* The harnesses of a set, in order.
LEMMA SortedElements ==
  ASSUME NEW S \in SUBSET Harness
  PROVE  Sorted(S) \in Seq(Harness) /\ ToSet(Sorted(S)) = S
<1> DEFINE first == IF "claude" \in S THEN << "claude" >> ELSE << >>
<1>1. first \in Seq(Harness) /\ ToSet(first) = S \intersect {"claude"}
  <2>1. CASE "claude" \in S
    <3>1. first = << "claude" >> /\ DOMAIN first = {1}
      BY <2>1
    <3>2. ToSet(first) = {first[i] : i \in {1}} /\ first[1] = "claude"
      BY <3>1 DEF ToSet
    <3>3. first \in Seq(Harness)
      <4>1. \A h \in Harness : << h >> \in Seq(Harness)
        OBVIOUS
      <4> QED
        BY <3>1, <4>1 DEF Harness
    <3> QED
      BY <2>1, <3>2, <3>3
  <2>2. CASE "claude" \notin S
    <3>1. first = << >>
      BY <2>2
    <3> QED
      BY <2>2, <3>1, EmptyElements
  <2> QED
    BY <2>1, <2>2
<1>2. Sorted(S) = IF "opencode" \in S THEN Append(first, "opencode") ELSE first
  BY DEF Sorted
<1> HIDE DEF first
<1>3. /\ Append(first, "opencode") \in Seq(Harness)
      /\ ToSet(Append(first, "opencode")) = ToSet(first) \union {"opencode"}
  <2>1. "opencode" \in Harness
    BY DEF Harness
  <2> QED
    BY <1>1, <2>1, AppendElements
<1> QED
  BY <1>1, <1>2, <1>3 DEF Harness

LEMMA EachElements ==
  ASSUME NEW do \in {"attach", "detach"}, NEW names \in Seq(Harness), NEW port \in Port
  PROVE  /\ Each(do, names, port) \in Seq(Job)
         /\ ToSet(Each(do, names, port)) =
              {[do |-> do, harness |-> h, port |-> port] : h \in ToSet(names)}
<1>1. DOMAIN names = 1 .. Len(names) /\ Len(names) \in Nat
  OBVIOUS
<1>2. \A i \in DOMAIN names : [do |-> do, harness |-> names[i], port |-> port] \in Job
  BY DEF Job
<1>3. Each(do, names, port) \in Seq(Job)
  BY <1>1, <1>2 DEF Each
<1> QED
  BY <1>3 DEF Each, ToSet

LEMMA ToAttachElements ==
  ASSUME TypeOK, NEW h \in Harness, NEW setting \in Setting
  PROVE  /\ ToAttach(h, setting) \in Seq(Job)
         /\ ToSet(ToAttach(h, setting)) =
              {[do |-> "attach", harness |-> g, port |-> setting.port] :
                 g \in {h} \union (IF setting.port # record.setting.port
                                  THEN record.enabled ELSE {})}
<1> DEFINE others == setting.port # record.setting.port
           before == Sorted(IF others THEN record.enabled
                            ELSE record.enabled \intersect {h})
           names  == IF h \in record.enabled THEN before ELSE Append(before, h)
<1>1. record.enabled \in SUBSET Harness /\ setting.port \in Port
  BY ControllerAssumption DEF TypeOK, ControllerAssumption
<1>2. (IF others THEN record.enabled ELSE record.enabled \intersect {h}) \in SUBSET Harness
  BY <1>1
<1>3. /\ before \in Seq(Harness)
      /\ ToSet(before) = IF others THEN record.enabled ELSE record.enabled \intersect {h}
  BY <1>2, SortedElements
<1>4. ToAttach(h, setting) = Each("attach", names, setting.port)
  BY DEF ToAttach
<1> HIDE DEF before
<1>5. Append(before, h) \in Seq(Harness) /\ ToSet(Append(before, h)) = ToSet(before) \union {h}
  BY <1>3, AppendElements
<1>6. /\ names \in Seq(Harness)
      /\ ToSet(names) = {h} \union (IF others THEN record.enabled ELSE {})
  BY <1>3, <1>5
<1> HIDE DEF names
<1>7. "attach" \in {"attach", "detach"}
  OBVIOUS
<1> QED
  BY <1>1, <1>4, <1>6, <1>7, EachElements

\* What undoes the jobs of a command, in the opposite order.
LEMMA UndoneElements ==
  ASSUME TypeOK
  PROVE  /\ Undone \in Seq(Job)
         /\ ToSet(Undone) = {Undo(job) : job \in ToSet(cmd.changed)}
<1>1. cmd.changed \in Seq(Job) /\ record.setting.port \in Port
  BY ControllerAssumption DEF TypeOK, Command, ControllerAssumption
<1> DEFINE jobs == Reverse(cmd.changed)
<1>2. jobs \in Seq(Job) /\ ToSet(jobs) = ToSet(cmd.changed)
  BY <1>1, ReverseElements
<1>3. Undone = [i \in DOMAIN jobs |-> Undo(jobs[i])]
  BY DEF Undone
<1> HIDE DEF jobs
<1>4. ASSUME NEW job \in Job PROVE Undo(job) \in Job
  BY <1>1 DEF Undo, Job
<1>5. DOMAIN jobs = 1 .. Len(jobs) /\ Len(jobs) \in Nat /\ \A i \in DOMAIN jobs : jobs[i] \in Job
  BY <1>2
<1>6. Undone \in Seq(Job)
  BY <1>3, <1>4, <1>5
<1>7. ToSet(Undone) = {Undo(jobs[i]) : i \in DOMAIN jobs}
  BY <1>3 DEF ToSet
<1>8. ToSet(jobs) = {jobs[i] : i \in DOMAIN jobs}
  BY DEF ToSet
<1> QED
  BY <1>2, <1>6, <1>7, <1>8

-----------------------------------------------------------------------------
LEMMA TypeInit == Init => TypeOK
<1> SUFFICES ASSUME Init PROVE TypeOK
  OBVIOUS
<1>1. NoEntry \in Entry /\ {} \subseteq Port
  BY DEF Entry
<1>2. Idle \in Command
  <2>1. << >> \in Seq(Job)
    OBVIOUS
  <2> QED
    BY <2>1, ControllerAssumption DEF Idle, Command, NoWrite, Harness, ControllerAssumption
<1>3. pidfile \in [pid : Pid \union {None}, setting : Setting]
  BY ControllerAssumption DEF Init, NoPid, ControllerAssumption
<1>4. base \in [Provider -> Upstream \union {Unset}] /\ wish = base
  BY ControllerAssumption DEF Init, ControllerAssumption
<1>5. base \in [Provider -> Upstream \union Port \union {Unset}]
  BY <1>4
<1>6. /\ record \in [setting : Setting, enabled : SUBSET Harness]
      /\ gateway \in [Pid -> [port : Port, serves : BOOLEAN] \union {None}]
      /\ active \in Provider /\ hooks \subseteq Port /\ outdated \subseteq Port
  BY ControllerAssumption DEF Init, ControllerAssumption
<1>7. /\ meta \in [Provider -> Entry] /\ backup \in [Provider -> SUBSET Upstream]
      /\ left \subseteq Provider /\ forgotten \subseteq Provider /\ lost \subseteq Pid
  BY <1>1 DEF Init
<1>8. kills \in 0 .. MaxKills /\ edits \in 0 .. MaxEdits /\ stray \in BOOLEAN
  <2>1. MaxKills \in Nat /\ MaxEdits \in Nat
    BY ControllerAssumption DEF ControllerAssumption
  <2>2. kills = 0 /\ edits = 0
    BY DEF Init
  <2>3. kills \in 0 .. MaxKills /\ edits \in 0 .. MaxEdits
    BY <2>1, <2>2
  <2>4. stray \in BOOLEAN
    BY DEF Init
  <2> QED
    BY <2>3, <2>4
<1>9. cmd \in Command
  BY <1>2 DEF Init
<1> QED
  BY <1>3, <1>4, <1>5, <1>6, <1>7, <1>8, <1>9 DEF TypeOK

\* The entry attach keeps is an entry, and one that tells a URL unless OpenCode
\* has none for the provider.
LEMMA OriginalType ==
  ASSUME TypeOK, NEW p \in Provider, Original(p).url # Unset
  PROVE  Original(p) \in Entry /\ Original(p) # NoEntry
<1>1. /\ meta[p] \in Entry /\ Default[p] \in Upstream \union {Unset}
      /\ Unset \notin Upstream
  BY ControllerAssumption DEF TypeOK, ControllerAssumption
<1>2. CASE meta[p] # NoEntry
  BY <1>1, <1>2 DEF Original
<1>3. CASE meta[p] = NoEntry /\ base[p] \in Upstream \ Local
  <2>1. Original(p) = [url |-> base[p], explicit |-> TRUE]
    BY <1>3 DEF Original
  <2> QED
    BY <1>1, <1>3, <2>1 DEF Entry, NoEntry
<1>4. CASE meta[p] = NoEntry /\ base[p] \notin Upstream \ Local
  <2>1. Original(p) = [url |-> Default[p], explicit |-> FALSE]
    BY <1>4 DEF Original
  <2> QED
    BY <1>1, <2>1 DEF Entry, NoEntry
<1> QED
  BY <1>2, <1>3, <1>4

LEMMA RestoredType ==
  ASSUME NEW entry \in Entry
  PROVE  Restored(entry) \in Upstream \union {Unset}
BY DEF Restored, Entry, NoEntry

\* A command moves to one of its steps, or its job is done.
LEMMA GotoEffect ==
  ASSUME TypeOK, NEW pc, Goto(pc),
         pc \in {"idle", "sync", "undo", "drop", "look", "stop", "clear", "spawn", "poll",
                "report", "giveup", "save"}
  PROVE  /\ cmd' \in Command /\ cmd'.pc = pc /\ cmd'.op = cmd.op
         /\ cmd'.harness = cmd.harness /\ cmd'.setting = cmd.setting
         /\ cmd'.jobs = cmd.jobs /\ cmd'.write = cmd.write
         /\ cmd'.changed = cmd.changed /\ cmd'.child = cmd.child
<1>1. cmd \in Command /\ cmd' = [cmd EXCEPT !.pc = pc]
  BY DEF TypeOK, Goto
<1> QED
  BY <1>1 DEF Command

LEMMA IdleEffect ==
  /\ Idle \in Command /\ Idle.pc = "idle" /\ Idle.op = "none" /\ Idle.jobs = << >>
  /\ Idle.write = NoWrite /\ Idle.changed = << >>
<1>1. << >> \in Seq(Job)
  OBVIOUS
<1> QED
  BY <1>1, ControllerAssumption DEF Idle, Command, NoWrite, Harness, ControllerAssumption

LEMMA DoneEffect ==
  ASSUME TypeOK, cmd.jobs # << >>, NEW changed \in BOOLEAN,
         NEW write \in {NoWrite} \union (Provider \X Entry), Done(changed, write)
  PROVE  /\ cmd' \in Command /\ cmd'.pc = cmd.pc /\ cmd'.op = cmd.op
         /\ cmd'.harness = cmd.harness /\ cmd'.setting = cmd.setting
         /\ cmd'.child = cmd.child /\ cmd'.write = write
         /\ cmd'.jobs = IF write = NoWrite THEN Tail(cmd.jobs) ELSE cmd.jobs
         /\ cmd'.changed = IF changed /\ cmd.pc = "sync"
                           THEN Append(cmd.changed, Head(cmd.jobs)) ELSE cmd.changed
<1>1. cmd \in Command /\ cmd.jobs \in Seq(Job) /\ cmd.changed \in Seq(Job)
  BY DEF TypeOK, Command
<1> DEFINE jobs == IF write = NoWrite THEN Tail(cmd.jobs) ELSE cmd.jobs
           did  == IF changed /\ cmd.pc = "sync"
                   THEN Append(cmd.changed, Head(cmd.jobs)) ELSE cmd.changed
<1>2. jobs \in Seq(Job) /\ did \in Seq(Job)
  BY <1>1, TailElements, AppendElements
<1>3. cmd' = [cmd EXCEPT !.jobs = jobs, !.write = write, !.changed = did]
  BY <1>1 DEF Done, Command
<1> HIDE DEF jobs, did
<1>4. cmd' \in Command /\ cmd'.jobs = jobs /\ cmd'.changed = did /\ cmd'.write = write
  BY <1>1, <1>2, <1>3 DEF Command
<1>5. /\ cmd'.pc = cmd.pc /\ cmd'.op = cmd.op /\ cmd'.child = cmd.child
      /\ cmd'.harness = cmd.harness /\ cmd'.setting = cmd.setting
  BY <1>1, <1>3 DEF Command
<1> QED
  BY <1>4, <1>5 DEF jobs, did

LEMMA FailEffect ==
  ASSUME TypeOK, Fail
  PROVE  /\ cmd' \in Command /\ cmd'.pc = "undo" /\ cmd'.op = cmd.op
         /\ cmd'.harness = cmd.harness /\ cmd'.setting = cmd.setting
         /\ cmd'.write = cmd.write /\ cmd'.jobs = Undone /\ cmd'.changed = << >>
<1>1. cmd \in Command /\ << >> \in Seq(Job) /\ Undone \in Seq(Job)
  BY UndoneElements DEF TypeOK
<1>2. cmd' = [cmd EXCEPT !.pc = "undo", !.jobs = Undone, !.changed = << >>]
  BY DEF Fail
<1> QED
  BY <1>1, <1>2 DEF Command

LEMMA RunEffect ==
  ASSUME NEW op \in {"enable", "disable", "disable_all", "start", "stop", "restart"},
         NEW h \in Harness, NEW setting \in Setting, NEW pc \in {"sync", "drop", "stop"},
         NEW jobs \in Seq(Job), Run(op, h, setting, pc, jobs)
  PROVE  /\ cmd = Idle
         /\ cmd' \in Command /\ cmd'.op = op /\ cmd'.harness = h /\ cmd'.setting = setting
         /\ cmd'.pc = pc /\ cmd'.jobs = jobs /\ cmd'.write = NoWrite
         /\ cmd'.changed = << >>
         /\ UNCHANGED << record, pidfile, procs, files, kills, user >>
<1>1. /\ cmd = Idle /\ Idle \in Command
      /\ cmd' = [Idle EXCEPT !.op = op, !.harness = h, !.setting = setting,
                             !.pc = pc, !.jobs = jobs]
      /\ UNCHANGED << record, pidfile, procs, files, kills, user >>
  BY IdleEffect DEF Run
<1>2. /\ cmd' \in Command /\ cmd'.op = op /\ cmd'.harness = h /\ cmd'.setting = setting
      /\ cmd'.pc = pc /\ cmd'.jobs = jobs
      /\ cmd'.write = Idle.write /\ cmd'.changed = Idle.changed
  BY <1>1 DEF Command
<1> QED
  BY <1>1, <1>2, IdleEffect

\* The commands that a user may give, each with its jobs.
LEMMA RunCases ==
  ASSUME TypeOK,
         \/ \E h \in Harness, s \in Setting : Enable(h, s)
         \/ \E s \in Setting : Start(s) \/ Restart(s)
         \/ \E h \in Harness : Disable(h)
         \/ DisableAll \/ Stop
  PROVE  /\ cmd = Idle /\ cmd' \in Command /\ cmd'.pc \in {"sync", "drop", "stop"}
         /\ cmd'.write = NoWrite /\ cmd'.changed = << >>
         /\ UNCHANGED << record, pidfile, procs, files, kills, user >>
         /\ cmd'.pc = "sync" => /\ cmd'.op \in {"enable", "start"}
                                /\ ToSet(cmd'.jobs) =
                                     {[do |-> "attach", harness |-> h, port |-> cmd'.setting.port] :
                                        h \in Targets'}
         /\ cmd'.pc = "drop" => /\ cmd'.op \in {"disable", "disable_all"}
                                /\ cmd'.op = "disable" => cmd'.harness \in record.enabled
                                /\ ToSet(cmd'.jobs) =
                                     {[do |-> "detach", harness |-> h, port |-> record.setting.port] :
                                        h \in Removed'}
         /\ cmd'.pc = "stop" => cmd'.op \in {"stop", "restart"} /\ cmd'.jobs = << >>
<1>1. /\ record.enabled \in SUBSET Harness /\ record.setting \in Setting
      /\ record.setting.port \in Port /\ \A s \in Setting : s.port \in Port
  BY ControllerAssumption DEF TypeOK, ControllerAssumption
<1>2. /\ Enabled \in Seq(Harness) /\ ToSet(Enabled) = record.enabled
      /\ "claude" \in Harness /\ << >> \in Seq(Job)
  BY <1>1, SortedElements DEF Enabled, Harness
<1>3. ASSUME NEW h \in Harness, NEW s \in Setting, Enable(h, s)
      PROVE  /\ cmd = Idle /\ cmd' \in Command /\ cmd'.pc = "sync" /\ cmd'.op = "enable"
             /\ cmd'.write = NoWrite /\ cmd'.changed = << >>
             /\ UNCHANGED << record, pidfile, procs, files, kills, user >>
             /\ ToSet(cmd'.jobs) =
                  {[do |-> "attach", harness |-> g, port |-> cmd'.setting.port] :
                     g \in Targets'}
  <2>1. /\ ToAttach(h, s) \in Seq(Job)
        /\ ToSet(ToAttach(h, s)) =
             {[do |-> "attach", harness |-> g, port |-> s.port] :
                g \in {h} \union (IF s.port # record.setting.port
                                 THEN record.enabled ELSE {})}
    BY <1>1, ToAttachElements
  <2>2. Run("enable", h, s, "sync", ToAttach(h, s))
    BY <1>3 DEF Enable
  <2>3. /\ cmd = Idle /\ cmd' \in Command /\ cmd'.pc = "sync" /\ cmd'.op = "enable"
        /\ cmd'.harness = h /\ cmd'.setting = s
        /\ cmd'.jobs = ToAttach(h, s) /\ cmd'.write = NoWrite /\ cmd'.changed = << >>
        /\ UNCHANGED << record, pidfile, procs, files, kills, user >>
    BY <2>1, <2>2, RunEffect
  <2>4. Targets' = {h} \union (IF s.port # record.setting.port THEN record.enabled ELSE {})
    BY <2>3 DEF Targets
  <2> QED
    BY <2>1, <2>3, <2>4
<1>4. ASSUME NEW s \in Setting, Start(s)
      PROVE  /\ cmd = Idle /\ cmd' \in Command /\ cmd'.pc = "sync" /\ cmd'.op = "start"
             /\ cmd'.write = NoWrite /\ cmd'.changed = << >>
             /\ UNCHANGED << record, pidfile, procs, files, kills, user >>
             /\ ToSet(cmd'.jobs) =
                  {[do |-> "attach", harness |-> g, port |-> cmd'.setting.port] :
                     g \in Targets'}
  <2> DEFINE jobs == Each("attach", Enabled, s.port)
  <2>1. /\ jobs \in Seq(Job)
        /\ ToSet(jobs) = {[do |-> "attach", harness |-> g, port |-> s.port] :
                            g \in record.enabled}
    BY <1>1, <1>2, EachElements
  <2>2. Run("start", "claude", s, "sync", jobs)
    BY <1>4 DEF Start
  <2> HIDE DEF jobs
  <2>3. /\ cmd = Idle /\ cmd' \in Command /\ cmd'.pc = "sync" /\ cmd'.op = "start"
        /\ cmd'.setting = s
        /\ cmd'.jobs = jobs /\ cmd'.write = NoWrite /\ cmd'.changed = << >>
        /\ UNCHANGED << record, pidfile, procs, files, kills, user >>
    BY <1>2, <2>1, <2>2, RunEffect
  <2>4. Targets' = record.enabled
    BY <2>3 DEF Targets
  <2> QED
    BY <2>1, <2>3, <2>4
<1>5. ASSUME NEW h \in Harness, Disable(h)
      PROVE  /\ cmd = Idle /\ cmd' \in Command /\ cmd'.pc = "drop" /\ cmd'.op = "disable"
             /\ cmd'.harness \in record.enabled
             /\ cmd'.write = NoWrite /\ cmd'.changed = << >>
             /\ UNCHANGED << record, pidfile, procs, files, kills, user >>
             /\ ToSet(cmd'.jobs) =
                  {[do |-> "detach", harness |-> g, port |-> record.setting.port] :
                     g \in Removed'}
  <2> DEFINE jobs == Each("detach", << h >>, record.setting.port)
  <2>1. << h >> \in Seq(Harness) /\ ToSet(<< h >>) = {h}
    <3>1. DOMAIN << h >> = {1} /\ << h >>[1] = h /\ << h >> \in Seq(Harness)
      OBVIOUS
    <3> QED
      BY <3>1 DEF ToSet
  <2>2. /\ jobs \in Seq(Job)
        /\ ToSet(jobs) = {[do |-> "detach", harness |-> g, port |-> record.setting.port] :
                            g \in {h}}
    <3>1. /\ jobs \in Seq(Job)
          /\ ToSet(jobs) = {[do |-> "detach", harness |-> g, port |-> record.setting.port] :
                            g \in ToSet(<< h >>)}
      BY <1>1, <2>1, EachElements
    <3> QED
      BY <2>1, <3>1
  <2>3. Run("disable", h, record.setting, "drop", jobs) /\ h \in record.enabled
    BY <1>5 DEF Disable
  <2> HIDE DEF jobs
  <2>4. /\ cmd = Idle /\ cmd' \in Command /\ cmd'.pc = "drop" /\ cmd'.op = "disable"
        /\ cmd'.harness = h
        /\ cmd'.jobs = jobs /\ cmd'.write = NoWrite /\ cmd'.changed = << >>
        /\ UNCHANGED << record, pidfile, procs, files, kills, user >>
    BY <1>1, <2>2, <2>3, RunEffect
  <2>5. Removed' = {h}
    BY <2>4 DEF Removed
  <2> QED
    BY <2>2, <2>3, <2>4, <2>5
<1>6. ASSUME DisableAll
      PROVE  /\ cmd = Idle /\ cmd' \in Command /\ cmd'.pc = "drop" /\ cmd'.op = "disable_all"
             /\ cmd'.write = NoWrite /\ cmd'.changed = << >>
             /\ UNCHANGED << record, pidfile, procs, files, kills, user >>
             /\ ToSet(cmd'.jobs) =
                  {[do |-> "detach", harness |-> g, port |-> record.setting.port] :
                     g \in Removed'}
  <2> DEFINE jobs == Each("detach", Enabled, record.setting.port)
  <2>1. /\ jobs \in Seq(Job)
        /\ ToSet(jobs) = {[do |-> "detach", harness |-> g, port |-> record.setting.port] :
                            g \in record.enabled}
    BY <1>1, <1>2, EachElements
  <2>2. Run("disable_all", "claude", record.setting, "drop", jobs)
    BY <1>6 DEF DisableAll
  <2> HIDE DEF jobs
  <2>3. /\ cmd = Idle /\ cmd' \in Command /\ cmd'.pc = "drop" /\ cmd'.op = "disable_all"
        /\ cmd'.jobs = jobs /\ cmd'.write = NoWrite /\ cmd'.changed = << >>
        /\ UNCHANGED << record, pidfile, procs, files, kills, user >>
    BY <1>1, <1>2, <2>1, <2>2, RunEffect
  <2>4. Removed' = record.enabled
    BY <2>3 DEF Removed
  <2> QED
    BY <2>1, <2>3, <2>4
<1>7. ASSUME NEW op \in {"stop", "restart"}, NEW s \in Setting,
             Run(op, "claude", s, "stop", << >>)
      PROVE  /\ cmd = Idle /\ cmd' \in Command /\ cmd'.pc = "stop" /\ cmd'.op = op
             /\ cmd'.write = NoWrite /\ cmd'.changed = << >> /\ cmd'.jobs = << >>
             /\ UNCHANGED << record, pidfile, procs, files, kills, user >>
  BY <1>2, <1>7, RunEffect
<1>8. CASE \E h \in Harness, s \in Setting : Enable(h, s)
  BY <1>3, <1>8
<1>9. CASE \E s \in Setting : Start(s)
  BY <1>4, <1>9
<1>10. CASE \E h \in Harness : Disable(h)
  BY <1>5, <1>10
<1>11. CASE DisableAll
  BY <1>6, <1>11
<1>12. CASE Stop \/ \E s \in Setting : Restart(s)
  <2>1. \E op \in {"stop", "restart"}, s \in Setting : Run(op, "claude", s, "stop", << >>)
    BY <1>1, <1>12 DEF Stop, Restart
  <2> QED
    BY <1>7, <2>1
<1> QED
  BY <1>8, <1>9, <1>10, <1>11, <1>12

\* The job that a step of the files does.
LEMMA JobFacts ==
  ASSUME TypeOK, NEW h, NEW do, NextJob(h, do)
  PROVE  /\ cmd.pc \in {"sync", "undo", "drop"} /\ cmd.write = NoWrite
         /\ cmd.jobs # << >> /\ Head(cmd.jobs) \in ToSet(cmd.jobs)
         /\ Head(cmd.jobs).harness = h /\ Head(cmd.jobs).do = do
         /\ Head(cmd.jobs).port \in Port
<1>1. cmd.jobs \in Seq(Job)
  BY DEF TypeOK, Command
<1>2. /\ cmd.pc \in {"sync", "undo", "drop"} /\ cmd.write = NoWrite /\ cmd.jobs # << >>
      /\ Head(cmd.jobs).harness = h /\ Head(cmd.jobs).do = do
  BY DEF NextJob
<1>3. Head(cmd.jobs) \in ToSet(cmd.jobs) /\ Head(cmd.jobs) \in Job
  BY <1>1, <1>2, TailElements
<1> QED
  BY <1>2, <1>3 DEF Job

LEMMA BackedUpType ==
  ASSUME TypeOK
  PROVE  BackedUp \in [Provider -> SUBSET Upstream]
BY DEF TypeOK, BackedUp

\* What a step of attach or detach does to the files, and to the command.
LEMMA AttachOpenCodeEffect ==
  ASSUME TypeOK, AttachOpenCode
  PROVE  LET port == Head(cmd.jobs).port
             known == Original(active).url # Unset
             changed == known /\ base[active] # port
             write == IF known THEN << active, Original(active) >> ELSE NoWrite IN
         /\ known \/ cmd.pc = "undo"
         /\ write \in {NoWrite} \union (Provider \X Entry)
         /\ Done(changed, write) /\ changed \in BOOLEAN
         /\ base' = IF known THEN [base EXCEPT ![active] = port] ELSE base
         /\ backup' = IF changed THEN BackedUp ELSE backup
         /\ UNCHANGED << hooks, outdated, active, meta >>
<1> DEFINE port == Head(cmd.jobs).port
           known == Original(active).url # Unset
           changed == known /\ base[active] # port
           write == IF known THEN << active, Original(active) >> ELSE NoWrite
<1>1. write \in {NoWrite} \union (Provider \X Entry)
  <2>1. active \in Provider
    BY DEF TypeOK
  <2> QED
    BY <2>1, OriginalType
<1>2. /\ known \/ cmd.pc = "undo"
      /\ Done(changed, write)
      /\ base' = IF known THEN [base EXCEPT ![active] = port] ELSE base
      /\ backup' = IF changed THEN BackedUp ELSE backup
      /\ UNCHANGED << hooks, outdated, active, meta >>
  BY DEF AttachOpenCode
<1>3. changed \in BOOLEAN
  OBVIOUS
<1> QED
  BY <1>1, <1>2, <1>3

LEMMA DetachOpenCodeEffect ==
  ASSUME TypeOK, DetachOpenCode
  PROVE  LET port == Head(cmd.jobs).port
             changed == base[active] = port
             write == IF changed THEN << active, NoEntry >> ELSE NoWrite IN
         /\ write \in {NoWrite} \union (Provider \X Entry)
         /\ Done(changed, write) /\ changed \in BOOLEAN
         /\ base' = IF changed THEN [base EXCEPT ![active] = Restored(meta[active])] ELSE base
         /\ Restored(meta[active]) \in Upstream \union {Unset}
         /\ backup' = IF changed THEN BackedUp ELSE backup
         /\ UNCHANGED << hooks, outdated, active, meta >>
<1> DEFINE port == Head(cmd.jobs).port
           changed == base[active] = port
           write == IF changed THEN << active, NoEntry >> ELSE NoWrite
<1>1. active \in Provider /\ meta[active] \in Entry /\ NoEntry \in Entry
  BY DEF TypeOK, Entry
<1>2. write \in {NoWrite} \union (Provider \X Entry)
  BY <1>1
<1>3. /\ Done(changed, write)
      /\ base' = IF changed THEN [base EXCEPT ![active] = Restored(meta[active])] ELSE base
      /\ backup' = IF changed THEN BackedUp ELSE backup
      /\ UNCHANGED << hooks, outdated, active, meta >>
  <2>1. CASE changed
    BY <2>1 DEF DetachOpenCode
  <2>2. CASE ~changed
    BY <2>2 DEF DetachOpenCode
  <2> QED
    BY <2>1, <2>2
<1>4. Restored(meta[active]) \in Upstream \union {Unset}
  BY <1>1, RestoredType
<1>5. changed \in BOOLEAN
  OBVIOUS
<1> QED
  BY <1>2, <1>3, <1>4, <1>5

LEMMA WriteMetadataEffect ==
  ASSUME TypeOK, CommandInv, WriteMetadata
  PROVE  /\ cmd.write \in Provider \X Entry /\ cmd.write[1] = active
         /\ meta' = [meta EXCEPT ![active] = cmd.write[2]]
         /\ cmd.jobs # << >> /\ Head(cmd.jobs).harness = "opencode"
         /\ cmd.pc \in {"sync", "undo", "drop"}
         /\ cmd' \in Command /\ cmd'.pc = cmd.pc /\ cmd'.op = cmd.op
         /\ cmd'.harness = cmd.harness /\ cmd'.setting = cmd.setting
         /\ cmd'.child = cmd.child /\ cmd'.write = NoWrite
         /\ cmd'.jobs = Tail(cmd.jobs) /\ cmd'.changed = cmd.changed
         /\ UNCHANGED << hooks, outdated, active, base, backup >>
<1>1. cmd \in Command /\ cmd.jobs \in Seq(Job)
  BY DEF TypeOK, Command
<1>2. /\ cmd.write # NoWrite /\ meta' = [meta EXCEPT ![cmd.write[1]] = cmd.write[2]]
      /\ cmd' = [cmd EXCEPT !.write = NoWrite, !.jobs = Tail(cmd.jobs)]
      /\ UNCHANGED << hooks, outdated, active, base, backup >>
  BY <1>1 DEF WriteMetadata, Command
<1>3. /\ cmd.jobs # << >> /\ Head(cmd.jobs).harness = "opencode" /\ cmd.write[1] = active
      /\ cmd.pc \in {"sync", "undo", "drop"}
  BY <1>2 DEF CommandInv
<1>4. Tail(cmd.jobs) \in Seq(Job)
  BY <1>1, <1>3, TailElements
<1>5. cmd.write \in Provider \X Entry
  BY <1>1, <1>2 DEF Command
<1> QED
  BY <1>1, <1>2, <1>3, <1>4, <1>5 DEF Command

-----------------------------------------------------------------------------
(* Type correctness. *)

LEMMA TypeFileStep ==
  ASSUME TypeOK, CommandInv, FileStep
  PROVE  TypeOK'
<1>1. UNCHANGED << record, pidfile, gateway, lost, kills, wish, edits, stray, left, forgotten >>
  BY DEF FileStep, procs, user
<1>2. NoWrite \in {NoWrite} \union (Provider \X Entry) /\ active \in Provider
  BY DEF TypeOK
<1>3. CASE AttachClaude
  <2>1. Head(cmd.jobs).port \in Port /\ cmd.jobs # << >>
    BY <1>3, JobFacts DEF AttachClaude
  <2>2. /\ hooks' = hooks \union {Head(cmd.jobs).port}
        /\ outdated' = outdated \union (hooks \ {Head(cmd.jobs).port})
        /\ Done(Head(cmd.jobs).port \notin hooks, NoWrite)
        /\ UNCHANGED << active, base, meta, backup >>
    BY <1>3 DEF AttachClaude
  <2>3. (Head(cmd.jobs).port \notin hooks) \in BOOLEAN
    OBVIOUS
  <2>4. cmd' \in Command
    BY <1>2, <2>1, <2>2, <2>3, DoneEffect
  <2> QED
    BY <1>1, <2>1, <2>2, <2>4 DEF TypeOK
<1>4. CASE DetachClaude
  <2>1. cmd.jobs # << >>
    BY <1>4, JobFacts DEF DetachClaude
  <2>2. /\ hooks' = hooks \ {Head(cmd.jobs).port}
        /\ outdated' = outdated \ {Head(cmd.jobs).port}
        /\ Done(Head(cmd.jobs).port \in hooks, NoWrite)
        /\ UNCHANGED << active, base, meta, backup >>
    BY <1>4 DEF DetachClaude
  <2>3. (Head(cmd.jobs).port \in hooks) \in BOOLEAN
    OBVIOUS
  <2>4. cmd' \in Command
    BY <1>2, <2>1, <2>2, <2>3, DoneEffect
  <2> QED
    BY <1>1, <2>2, <2>4 DEF TypeOK
<1>5. CASE AttachOpenCode
  <2>1. Head(cmd.jobs).port \in Port /\ cmd.jobs # << >>
    BY <1>5, JobFacts DEF AttachOpenCode
  <2>2. cmd' \in Command
    BY <1>5, <2>1, AttachOpenCodeEffect, DoneEffect
  <2>3. /\ base' = base \/ base' = [base EXCEPT ![active] = Head(cmd.jobs).port]
        /\ backup' = backup \/ backup' = BackedUp
        /\ UNCHANGED << hooks, outdated, active, meta >>
    BY <1>5, AttachOpenCodeEffect
  <2>4. base' \in [Provider -> Upstream \union Port \union {Unset}]
    BY <2>1, <2>3 DEF TypeOK
  <2>5. backup' \in [Provider -> SUBSET Upstream]
    BY <2>3, BackedUpType DEF TypeOK
  <2> QED
    BY <1>1, <2>2, <2>3, <2>4, <2>5 DEF TypeOK
<1>6. CASE DetachOpenCode
  <2>1. cmd.jobs # << >>
    BY <1>6, JobFacts DEF DetachOpenCode
  <2>2. cmd' \in Command
    BY <1>6, <2>1, DetachOpenCodeEffect, DoneEffect
  <2>3. /\ base' = base \/ base' = [base EXCEPT ![active] = Restored(meta[active])]
        /\ Restored(meta[active]) \in Upstream \union {Unset}
        /\ backup' = backup \/ backup' = BackedUp
        /\ UNCHANGED << hooks, outdated, active, meta >>
    BY <1>6, DetachOpenCodeEffect
  <2>4. base' \in [Provider -> Upstream \union Port \union {Unset}]
    BY <2>3 DEF TypeOK
  <2>5. backup' \in [Provider -> SUBSET Upstream]
    BY <2>3, BackedUpType DEF TypeOK
  <2> QED
    BY <1>1, <2>2, <2>3, <2>4, <2>5 DEF TypeOK
<1>7. CASE WriteMetadata
  <2>1. /\ cmd.write \in Provider \X Entry /\ cmd' \in Command
        /\ meta' = [meta EXCEPT ![active] = cmd.write[2]]
        /\ UNCHANGED << hooks, outdated, active, base, backup >>
    BY <1>7, WriteMetadataEffect
  <2>2. cmd.write[2] \in Entry
    BY <2>1
  <2>3. meta' \in [Provider -> Entry]
    BY <2>1, <2>2 DEF TypeOK
  <2> QED
    BY <1>1, <2>1, <2>3 DEF TypeOK
<1> QED
  BY <1>3, <1>4, <1>5, <1>6, <1>7 DEF FileStep

LEMMA NextRecordType ==
  ASSUME TypeOK, cmd.op \in {"enable", "start", "disable", "disable_all"}
  PROVE  /\ NextRecord \in [setting : Setting, enabled : SUBSET Harness]
         /\ NextRecord.setting = IF Changes THEN cmd.setting ELSE record.setting
         /\ NextRecord.enabled =
              CASE cmd.op = "enable" -> record.enabled \union {cmd.harness}
                [] cmd.op = "start" -> record.enabled
                [] cmd.op = "disable" -> record.enabled \ {cmd.harness}
                [] cmd.op = "disable_all" -> {}
<1>1. /\ record \in [setting : Setting, enabled : SUBSET Harness]
      /\ cmd.harness \in Harness /\ cmd.setting \in Setting
  BY DEF TypeOK, Command
<1>2. CASE cmd.op = "enable"
  <2>1. NextRecord = [setting |-> cmd.setting, enabled |-> record.enabled \union {cmd.harness}]
    BY <1>2 DEF NextRecord
  <2> QED
    BY <1>1, <1>2, <2>1 DEF Changes
<1>3. CASE cmd.op = "start"
  <2>1. NextRecord = [record EXCEPT !.setting = cmd.setting]
    BY <1>3 DEF NextRecord
  <2> QED
    BY <1>1, <1>3, <2>1 DEF Changes
<1>4. CASE cmd.op = "disable"
  <2>1. NextRecord = [record EXCEPT !.enabled = record.enabled \ {cmd.harness}]
    BY <1>1, <1>4 DEF NextRecord
  <2> QED
    BY <1>1, <1>4, <2>1 DEF Changes
<1>5. CASE cmd.op = "disable_all"
  <2>1. NextRecord = [record EXCEPT !.enabled = {}]
    BY <1>5 DEF NextRecord
  <2> QED
    BY <1>1, <1>5, <2>1 DEF Changes
<1> QED
  BY <1>2, <1>3, <1>4, <1>5

\* After a stop: the gateway is started again, the harnesses are attached again,
\* or the command is over.
LEMMA ClearPidEffect ==
  ASSUME TypeOK, CommandInv, ClearPid
  PROVE  /\ cmd.pc = "clear" /\ cmd.jobs = << >> /\ cmd.write = NoWrite
         /\ pidfile' = NoPid
         /\ UNCHANGED << record, gateway, lost, files, kills, user >>
         /\ \/ Changes /\ Goto("spawn")
            \/ /\ ~Changes /\ cmd' \in Command /\ cmd'.pc = "sync" /\ cmd'.op = "start"
               /\ cmd'.setting = cmd.setting /\ cmd'.write = NoWrite
               /\ cmd'.changed = cmd.changed
               /\ ToSet(cmd'.jobs) =
                    {[do |-> "attach", harness |-> h, port |-> cmd.setting.port] :
                       h \in record.enabled}
            \/ ~Changes /\ cmd' = Idle
<1>1. /\ cmd.pc = "clear" /\ pidfile' = NoPid
      /\ UNCHANGED << record, gateway, lost, files, kills, user >>
  BY DEF ClearPid, procs
<1>2. cmd.jobs = << >> /\ cmd.write = NoWrite
  BY <1>1 DEF CommandInv
<1>3. CASE Changes
  BY <1>1, <1>2, <1>3 DEF ClearPid, Changes
<1>4. CASE ~Changes /\ cmd' = Idle
  BY <1>1, <1>2, <1>4
<1>5. CASE ~Changes /\ cmd' # Idle
  <2> DEFINE jobs == Each("attach", Enabled, cmd.setting.port)
  <2>1. cmd' = [cmd EXCEPT !.op = "start", !.pc = "sync", !.jobs = jobs]
    <3>1. cmd.op \notin {"enable", "start"}
      BY <1>5 DEF Changes
    <3> QED
      BY <1>5, <3>1 DEF ClearPid
  <2>2. /\ cmd \in Command /\ cmd.setting.port \in Port /\ record.enabled \in SUBSET Harness
    BY ControllerAssumption DEF TypeOK, Command, ControllerAssumption
  <2>3. Enabled \in Seq(Harness) /\ ToSet(Enabled) = record.enabled
    BY <2>2, SortedElements DEF Enabled
  <2>4. /\ jobs \in Seq(Job)
        /\ ToSet(jobs) = {[do |-> "attach", harness |-> h, port |-> cmd.setting.port] :
                            h \in record.enabled}
    BY <2>2, <2>3, EachElements
  <2> HIDE DEF jobs
  <2>5. /\ cmd' \in Command /\ cmd'.pc = "sync" /\ cmd'.op = "start" /\ cmd'.jobs = jobs
        /\ cmd'.setting = cmd.setting /\ cmd'.write = cmd.write /\ cmd'.changed = cmd.changed
    BY <2>1, <2>2, <2>4 DEF Command
  <2> QED
    BY <1>1, <1>2, <1>5, <2>4, <2>5
<1> QED
  BY <1>3, <1>4, <1>5

\* The gateway's processes, and who is alive, after a process is terminated.
LEMMA TerminateEffect ==
  ASSUME TypeOK, NEW q, Terminate(q)
  PROVE  /\ gateway' \in [Pid -> [port : Port, serves : BOOLEAN] \union {None}]
         /\ lost' = lost \ {q}
         /\ \A p \in Pid : gateway'[p] = IF p = q THEN None ELSE gateway[p]
BY DEF TypeOK, Terminate

LEMMA TypeProcessStep ==
  ASSUME TypeOK, CommandInv, Refused \/ JobsDone \/ Save \/ ProcessStep
  PROVE  TypeOK'
<1>1. UNCHANGED << files, wish, edits, kills, left, forgotten >>
  BY DEF Refused, JobsDone, Save, ProcessStep, Look, StopProcess, ClearPid, Spawn,
         PollHealthy, PollEnds, Report, GiveUp, user
<1>2. NoPid \in [pid : Pid \union {None}, setting : Setting]
  BY ControllerAssumption DEF NoPid, ControllerAssumption
<1>3. SUFFICES /\ cmd' \in Command
               /\ record' \in [setting : Setting, enabled : SUBSET Harness]
               /\ pidfile' \in [pid : Pid \union {None}, setting : Setting]
               /\ gateway' \in [Pid -> [port : Port, serves : BOOLEAN] \union {None}]
               /\ stray' \in BOOLEAN /\ lost' \subseteq Pid
  BY <1>1 DEF TypeOK, files
<1>4. CASE Refused
  BY <1>4, FailEffect DEF Refused, TypeOK, procs, user
<1>5. CASE JobsDone
  <2>1. UNCHANGED << record, pidfile, procs, user >>
    BY <1>5 DEF JobsDone
  <2>2. cmd' \in Command
    BY <1>5, GotoEffect, IdleEffect DEF JobsDone
  <2> QED
    BY <2>1, <2>2 DEF TypeOK, procs, user
<1>6. CASE Save
  <2>1. /\ record' = NextRecord /\ UNCHANGED << pidfile, gateway, lost >>
        /\ stray' = (stray /\ cmd.op # "start") /\ cmd.pc = "save"
    BY <1>6 DEF Save, procs
  <2>2. cmd' \in Command
    BY <1>6, GotoEffect, IdleEffect DEF Save
  <2>3. cmd.op \in {"enable", "start", "disable", "disable_all"}
    BY <2>1 DEF CommandInv, Changes, Drops
  <2>4. stray' \in BOOLEAN
    BY <2>1
  <2> QED
    BY <2>1, <2>2, <2>3, <2>4, NextRecordType DEF TypeOK
<1>7. CASE Look
  <2>1. UNCHANGED << record, gateway, lost, stray >> /\ pidfile' \in {pidfile, NoPid}
    BY <1>7 DEF Look, procs, user
  <2>2. cmd' \in Command
    BY <1>7, GotoEffect DEF Look
  <2> QED
    BY <1>2, <2>1, <2>2 DEF TypeOK
<1>8. CASE StopProcess
  <2>1. UNCHANGED << record, pidfile, stray >> /\ Terminate(pidfile.pid) /\ Goto("clear")
    BY <1>8 DEF StopProcess, user
  <2> QED
    BY <2>1, TerminateEffect, GotoEffect DEF TypeOK
<1>9. CASE ClearPid
  <2>1. cmd' \in Command
    BY <1>9, ClearPidEffect, GotoEffect, IdleEffect
  <2>2. UNCHANGED << record, gateway, lost, stray >> /\ pidfile' = NoPid
    BY <1>9 DEF ClearPid, procs, user
  <2> QED
    BY <1>2, <2>1, <2>2 DEF TypeOK
<1>10. CASE Spawn
  <2>1. PICK q \in Pid :
          /\ gateway' = [gateway EXCEPT ![q] = [port |-> cmd.setting.port, serves |-> FALSE]]
          /\ cmd' = [cmd EXCEPT !.child = q, !.pc = "poll"]
    BY <1>10 DEF Spawn
  <2>2. UNCHANGED << record, pidfile, lost, stray >>
    BY <1>10 DEF Spawn, user
  <2>3. cmd \in Command /\ cmd.setting.port \in Port
    BY ControllerAssumption DEF TypeOK, Command, ControllerAssumption
  <2>4. cmd' \in Command
    BY <2>1, <2>3 DEF Command
  <2>5. [port |-> cmd.setting.port, serves |-> FALSE] \in [port : Port, serves : BOOLEAN]
    BY <2>3
  <2> QED
    BY <2>1, <2>2, <2>4, <2>5 DEF TypeOK
<1>11. CASE PollHealthy
  <2>1. /\ UNCHANGED << record, gateway, lost, stray >> /\ Goto("report")
        /\ pidfile' = [pid |-> cmd.child, setting |-> cmd.setting]
    BY <1>11 DEF PollHealthy, procs, user
  <2>2. cmd.child \in Pid \union {None} /\ cmd.setting \in Setting
    BY DEF TypeOK, Command
  <2> QED
    BY <2>1, <2>2, GotoEffect DEF TypeOK
<1>12. CASE PollEnds
  <2>1. UNCHANGED << record, pidfile, stray >> /\ Terminate(cmd.child) /\ Goto("giveup")
    BY <1>12 DEF PollEnds, user
  <2> QED
    BY <2>1, TerminateEffect, GotoEffect DEF TypeOK
<1>13. CASE Report
  <2>1. UNCHANGED << record, gateway, lost, stray >> /\ pidfile' \in {pidfile, NoPid}
    BY <1>13 DEF Report, procs, user
  <2>2. cmd' \in Command
    BY <1>13, GotoEffect DEF Report
  <2> QED
    BY <1>2, <2>1, <2>2 DEF TypeOK
<1>14. CASE GiveUp
  <2>1. UNCHANGED << record, gateway, lost, stray >> /\ pidfile' = NoPid /\ Fail
    BY <1>14 DEF GiveUp, procs, user
  <2> QED
    BY <1>2, <2>1, FailEffect DEF TypeOK
<1> QED
  BY <1>4, <1>5, <1>6, <1>7, <1>8, <1>9, <1>10, <1>11, <1>12, <1>13, <1>14 DEF ProcessStep

\* The steps that are not the command's: a gateway's, a kill, an edit.
LEMMA TypeOtherStep ==
  ASSUME TypeOK,
         \/ \E q \in Pid : Bind(q) \/ Exit(q)
         \/ Kill
         \/ \E p \in Provider : Select(p)
         \/ \E p \in Provider, url \in Upstream \union {Unset} : Edit(p, url)
  PROVE  TypeOK'
<1>1. MaxKills \in Nat /\ MaxEdits \in Nat
  BY ControllerAssumption DEF ControllerAssumption
<1>2. ASSUME NEW q \in Pid, Bind(q) \/ Exit(q) PROVE TypeOK'
  <2>1. UNCHANGED << record, pidfile, files, cmd, kills, user >>
    BY <1>2 DEF Bind, Exit
  <2>2. \/ Terminate(q)
        \/ /\ Alive(q) /\ gateway' = [gateway EXCEPT ![q].serves = TRUE]
           /\ UNCHANGED lost
    BY <1>2 DEF Bind, Exit
  <2>3. /\ gateway' \in [Pid -> [port : Port, serves : BOOLEAN] \union {None}]
        /\ lost' \subseteq Pid
    <3>1. CASE Terminate(q)
      BY <3>1, TerminateEffect DEF TypeOK
    <3>2. CASE ~Terminate(q)
      <4>1. /\ gateway[q] \in [port : Port, serves : BOOLEAN]
            /\ gateway' = [gateway EXCEPT ![q].serves = TRUE] /\ UNCHANGED lost
        BY <2>2, <3>2 DEF Alive, TypeOK
      <4>2. [gateway[q] EXCEPT !.serves = TRUE] \in [port : Port, serves : BOOLEAN]
        BY <4>1
      <4>3. gateway' = [gateway EXCEPT ![q] = [gateway[q] EXCEPT !.serves = TRUE]]
        BY <4>1
      <4> QED
        BY <4>1, <4>2, <4>3 DEF TypeOK
    <3> QED
      BY <3>1, <3>2
  <2> QED
    BY <2>1, <2>3 DEF TypeOK, files, user
<1>3. CASE Kill
  <2>1. /\ UNCHANGED << record, pidfile, gateway, hooks, active, base, meta, backup, wish, edits >>
        /\ outdated' = outdated \union hooks
        /\ cmd' = Idle /\ kills' = kills + 1 /\ kills < MaxKills
        /\ lost' = {q \in Pid : Alive(q) /\ q # pidfile.pid}
        /\ left' = left \union Routed /\ forgotten' = forgotten \union Pending
    BY <1>3 DEF Kill
  <2>2. kills' \in 0 .. MaxKills
    BY <1>1, <2>1 DEF TypeOK
  <2>3. Routed \subseteq Provider /\ Pending \subseteq Provider
    <3>1. cmd.write \in {NoWrite} \union (Provider \X Entry)
      BY DEF TypeOK, Command
    <3> QED
      BY <3>1 DEF Routed, Pending
  <2>4. stray' \in BOOLEAN
    BY <1>3 DEF Kill
  <2> QED
    BY <2>1, <2>2, <2>3, <2>4, IdleEffect DEF TypeOK, files
<1>4. ASSUME NEW p \in Provider, Select(p) PROVE TypeOK'
  <2>1. /\ UNCHANGED << record, pidfile, procs, hooks, outdated, base, meta, backup, cmd, kills,
                        wish, forgotten >>
        /\ active' = p /\ edits' = edits + 1 /\ edits < MaxEdits
        /\ left' = left \union ({active} \intersect Routed)
    BY <1>4 DEF Select
  <2>2. edits' \in 0 .. MaxEdits
    BY <1>1, <2>1 DEF TypeOK
  <2>3. left' \subseteq Provider
    BY <2>1 DEF Routed, TypeOK
  <2>4. stray' \in BOOLEAN
    BY <1>4 DEF Select, TypeOK
  <2> QED
    BY <2>1, <2>2, <2>3, <2>4 DEF TypeOK, procs
<1>5. ASSUME NEW p \in Provider, NEW url \in Upstream \union {Unset}, Edit(p, url)
      PROVE  TypeOK'
  <2>1. /\ UNCHANGED << record, pidfile, procs, hooks, outdated, active, meta, backup, cmd, kills, left >>
        /\ base' = [base EXCEPT ![p] = url] /\ wish' = [wish EXCEPT ![p] = url]
        /\ edits' = edits + 1 /\ edits < MaxEdits
        /\ forgotten' \subseteq forgotten \union {p}
    BY <1>5 DEF Edit
  <2>2. edits' \in 0 .. MaxEdits
    BY <1>1, <2>1 DEF TypeOK
  <2>3. forgotten' \subseteq Provider
    BY <2>1 DEF TypeOK
  <2>4. stray' \in BOOLEAN
    BY <1>5 DEF Edit, TypeOK
  <2> QED
    BY <2>1, <2>2, <2>3, <2>4 DEF TypeOK, procs
<1> QED
  BY <1>2, <1>3, <1>4, <1>5

\* No step leaves the types.
LEMMA TypeStep ==
  ASSUME TypeOK, CommandInv, [Next]_vars
  PROVE  TypeOK'
<1>1. CASE \/ \E h \in Harness, s \in Setting : Enable(h, s)
           \/ \E s \in Setting : Start(s) \/ Restart(s)
           \/ \E h \in Harness : Disable(h)
           \/ DisableAll \/ Stop
  BY <1>1, RunCases DEF TypeOK, procs, files, user
<1>2. CASE CommandStep
  BY <1>2, TypeFileStep, TypeProcessStep DEF CommandStep
<1>3. CASE UNCHANGED vars
  BY <1>3 DEF vars, procs, files, user, TypeOK
<1> QED
  BY <1>1, <1>2, <1>3, TypeOtherStep DEF Next

-----------------------------------------------------------------------------
(* What a command has, at each of its steps. *)

\* A step within one part of a command changes nothing of what it is to do.
LEMMA SameCommand ==
  ASSUME record' = record, cmd'.pc = cmd.pc, cmd'.op = cmd.op,
         cmd'.harness = cmd.harness, cmd'.setting = cmd.setting
  PROVE  /\ Targets' = Targets /\ Removed' = Removed
         /\ Changes' = Changes /\ Syncs' = Syncs /\ Drops' = Drops
         /\ \A job : Planned(job)' = Planned(job)
BY DEF Targets, Removed, Changes, Syncs, Drops, Planned

LEMMA DoneStep ==
  ASSUME TypeOK, CommandInv, UNCHANGED << record, active >>,
         NEW h, NEW do, NextJob(h, do),
         NEW changed \in BOOLEAN, NEW write \in {NoWrite} \union (Provider \X Entry),
         write # NoWrite => h = "opencode" /\ write[1] = active,
         Done(changed, write)
  PROVE  CommandInv'
<1>1. /\ cmd.pc \in {"sync", "undo", "drop"} /\ cmd.write = NoWrite
      /\ cmd.jobs # << >> /\ Head(cmd.jobs) \in ToSet(cmd.jobs)
      /\ Head(cmd.jobs).harness = h
  BY JobFacts
<1>2. /\ cmd'.pc = cmd.pc /\ cmd'.op = cmd.op
      /\ cmd'.harness = cmd.harness /\ cmd'.setting = cmd.setting /\ cmd'.write = write
      /\ cmd'.jobs = IF write = NoWrite THEN Tail(cmd.jobs) ELSE cmd.jobs
      /\ cmd'.changed = IF changed /\ cmd.pc = "sync"
                        THEN Append(cmd.changed, Head(cmd.jobs)) ELSE cmd.changed
  BY <1>1, DoneEffect
<1>3. /\ Targets' = Targets /\ Removed' = Removed
      /\ Changes' = Changes /\ Syncs' = Syncs /\ Drops' = Drops
      /\ \A job : Planned(job)' = Planned(job)
  BY <1>2, SameCommand
<1>4. cmd.jobs \in Seq(Job) /\ cmd.changed \in Seq(Job) /\ Head(cmd.jobs) \in Job
  BY <1>1, TailElements DEF TypeOK, Command
<1>5. \A job \in ToSet(cmd'.jobs) : Planned(job)'
  <2>1. ToSet(cmd'.jobs) \subseteq ToSet(cmd.jobs)
    BY <1>1, <1>2, <1>4, TailElements
  <2> QED
    BY <1>3, <2>1 DEF CommandInv
<1>6. \A job \in ToSet(cmd'.changed) :
        job.do = "attach" /\ job.port = cmd'.setting.port /\ job.harness \in Targets'
  <2>1. ASSUME cmd.pc = "sync"
        PROVE  /\ Head(cmd.jobs).do = "attach" /\ Head(cmd.jobs).port = cmd.setting.port
               /\ Head(cmd.jobs).harness \in Targets
    BY <1>1, <2>1 DEF CommandInv, Planned
  <2>2. ToSet(cmd'.changed) \subseteq
          ToSet(cmd.changed) \union (IF cmd.pc = "sync" THEN {Head(cmd.jobs)} ELSE {})
    BY <1>2, <1>4, AppendElements
  <2> QED
    BY <1>2, <1>3, <2>1, <2>2 DEF CommandInv
<1>7. ~Syncs => cmd'.changed = << >>
  <2>1. cmd.pc = "sync" => Syncs
    BY DEF CommandInv, Syncs
  <2> QED
    BY <1>2, <2>1 DEF CommandInv
<1>8. cmd'.pc # "idle" /\ cmd' # Idle
  BY <1>1, <1>2, IdleEffect
<1>9. write # NoWrite =>
        cmd'.jobs # << >> /\ Head(cmd'.jobs).harness = "opencode" /\ cmd'.write[1] = active'
  BY <1>1, <1>2
<1>10. /\ cmd'.pc \in {"sync", "undo"} => Changes'
       /\ cmd'.pc = "drop" => Drops'
       /\ cmd'.op = "disable" /\ Drops' => cmd'.harness \in record'.enabled
  BY <1>2, <1>3 DEF CommandInv
<1> QED
  BY <1>1, <1>2, <1>3, <1>5, <1>6, <1>7, <1>8, <1>9, <1>10 DEF CommandInv

LEMMA CommandFileStep ==
  ASSUME TypeOK, CommandInv, FileStep
  PROVE  CommandInv'
<1>1. record' = record /\ active \in Provider
  BY DEF FileStep, TypeOK
<1>2. CASE AttachClaude
  <2>1. /\ NextJob("claude", "attach") /\ Done(Head(cmd.jobs).port \notin hooks, NoWrite)
        /\ active' = active /\ (Head(cmd.jobs).port \notin hooks) \in BOOLEAN
    BY <1>2 DEF AttachClaude
  <2> QED
    BY <1>1, <2>1, DoneStep
<1>3. CASE DetachClaude
  <2>1. /\ NextJob("claude", "detach") /\ Done(Head(cmd.jobs).port \in hooks, NoWrite)
        /\ active' = active /\ (Head(cmd.jobs).port \in hooks) \in BOOLEAN
    BY <1>3 DEF DetachClaude
  <2> QED
    BY <1>1, <2>1, DoneStep
<1>4. CASE AttachOpenCode
  <2> DEFINE known == Original(active).url # Unset
             changed == known /\ base[active] # Head(cmd.jobs).port
             write == IF known THEN << active, Original(active) >> ELSE NoWrite
  <2>1. NextJob("opencode", "attach")
    BY <1>4 DEF AttachOpenCode
  <2>2. /\ write \in {NoWrite} \union (Provider \X Entry) /\ active' = active
        /\ Done(changed, write) /\ changed \in BOOLEAN
    BY <1>4, AttachOpenCodeEffect
  <2>3. write # NoWrite => write[1] = active
    OBVIOUS
  <2> HIDE DEF changed, write
  <2> QED
    BY <1>1, <2>1, <2>2, <2>3, DoneStep
<1>5. CASE DetachOpenCode
  <2> DEFINE changed == base[active] = Head(cmd.jobs).port
             write == IF changed THEN << active, NoEntry >> ELSE NoWrite
  <2>1. NextJob("opencode", "detach")
    BY <1>5 DEF DetachOpenCode
  <2>2. /\ write \in {NoWrite} \union (Provider \X Entry) /\ active' = active
        /\ Done(changed, write) /\ changed \in BOOLEAN
    BY <1>5, DetachOpenCodeEffect
  <2>3. write # NoWrite => write[1] = active
    OBVIOUS
  <2> HIDE DEF changed, write
  <2> QED
    BY <1>1, <2>1, <2>2, <2>3, DoneStep
<1>6. CASE WriteMetadata
  <2>1. /\ cmd.jobs # << >> /\ cmd.pc \in {"sync", "undo", "drop"}
        /\ cmd'.pc = cmd.pc /\ cmd'.op = cmd.op
        /\ cmd'.harness = cmd.harness /\ cmd'.setting = cmd.setting
        /\ cmd'.write = NoWrite /\ active' = active
        /\ cmd'.jobs = Tail(cmd.jobs) /\ cmd'.changed = cmd.changed
    BY <1>6, WriteMetadataEffect
  <2>2. /\ Targets' = Targets /\ Removed' = Removed
        /\ Changes' = Changes /\ Syncs' = Syncs /\ Drops' = Drops
        /\ \A job : Planned(job)' = Planned(job)
    BY <1>1, <2>1, SameCommand
  <2>3. \A job \in ToSet(cmd'.jobs) : Planned(job)'
    <3>1. cmd.jobs \in Seq(Job)
      BY DEF TypeOK, Command
    <3>2. ToSet(cmd'.jobs) \subseteq ToSet(cmd.jobs)
      BY <2>1, <3>1, TailElements
    <3> QED
      BY <2>2, <3>2 DEF CommandInv
  <2>4. cmd'.pc # "idle" /\ cmd' # Idle
    BY <2>1, IdleEffect
  <2> QED
    BY <1>1, <2>1, <2>2, <2>3, <2>4 DEF CommandInv
<1> QED
  BY <1>2, <1>3, <1>4, <1>5, <1>6 DEF FileStep

LEMMA IdleStep ==
  ASSUME cmd' = Idle
  PROVE  CommandInv'
<1>1. /\ cmd'.pc = "idle" /\ cmd'.op = "none" /\ cmd'.jobs = << >> /\ cmd'.write = NoWrite
      /\ cmd'.changed = << >>
  BY IdleEffect
<1>2. ToSet(cmd'.jobs) = {} /\ ToSet(cmd'.changed) = {}
  BY <1>1, EmptyElements
<1>3. ~Changes' /\ ~Syncs' /\ ~Drops'
  BY <1>1 DEF Changes, Syncs, Drops
<1> QED
  BY <1>1, <1>2, <1>3 DEF CommandInv

\* A command without jobs goes on.
LEMMA GotoStep ==
  ASSUME TypeOK, CommandInv, UNCHANGED << record, active >>,
         NEW pc \in {"look", "save", "stop", "clear", "spawn", "poll", "report", "giveup"},
         cmd'.pc = pc, cmd'.op = cmd.op, cmd'.harness = cmd.harness,
         cmd'.setting = cmd.setting, cmd'.jobs = << >>, cmd'.write = NoWrite,
         cmd'.changed = cmd.changed,
         cmd.pc # "undo",
         pc \in {"look", "spawn", "poll", "report", "giveup"} => Changes,
         pc = "save" => Changes \/ (cmd.pc = "drop" /\ Drops)
  PROVE  CommandInv'
<1>1. /\ Targets' = Targets /\ Changes' = Changes /\ Syncs' = Changes
      /\ Drops' = (pc = "save" /\ cmd.op \in {"disable", "disable_all"})
  BY DEF Targets, Changes, Syncs, Drops
<1>2. cmd'.pc # "idle" /\ cmd' # Idle
  BY IdleEffect
<1>3. ToSet(cmd'.jobs) = {}
  BY EmptyElements
<1>4. Syncs <=> Changes
  BY DEF Syncs
<1>5. cmd'.op = "disable" /\ Drops' => cmd'.harness \in record'.enabled
  BY <1>1 DEF CommandInv, Drops, Changes
<1>6. pc = "save" => Changes' \/ Drops'
  BY <1>1 DEF Drops
<1> QED
  BY <1>1, <1>2, <1>3, <1>4, <1>5, <1>6 DEF CommandInv

\* What a command attached is planned to be undone.
LEMMA FailStep ==
  ASSUME TypeOK, CommandInv, UNCHANGED << record, active >>, Fail,
         Syncs, cmd.write = NoWrite
  PROVE  CommandInv'
<1>1. /\ cmd'.pc = "undo" /\ cmd'.op = cmd.op
      /\ cmd'.harness = cmd.harness /\ cmd'.setting = cmd.setting
      /\ cmd'.write = NoWrite /\ cmd'.jobs = Undone /\ cmd'.changed = << >>
  BY FailEffect
<1>2. Changes' /\ ~Drops' /\ ~Syncs' /\ cmd' # Idle
  BY <1>1, IdleEffect DEF Changes, Syncs, Drops
<1>3. ToSet(cmd'.jobs) = {Undo(job) : job \in ToSet(cmd.changed)} /\ ToSet(cmd'.changed) = {}
  BY <1>1, UndoneElements, EmptyElements
<1>4. \A job \in ToSet(cmd.changed) : job \in Job
  BY DEF TypeOK, Command, ToSet
<1>5. ASSUME NEW job \in ToSet(cmd.changed), NEW undone, undone = Undo(job)
      PROVE  Planned(undone)'
  <2>1. job \in Job /\ job.do = "attach" /\ job.port = cmd.setting.port
    BY <1>4 DEF CommandInv
  <2>2. CASE job.harness \in record.enabled
    <3>1. undone = [job EXCEPT !.port = record.setting.port]
      BY <1>5, <2>2 DEF Undo
    <3>2. /\ undone.harness = job.harness /\ undone.do = "attach"
          /\ undone.port = record.setting.port
      BY <2>1, <3>1 DEF Job
    <3> QED
      BY <1>1, <2>2, <3>2 DEF Planned
  <2>3. CASE job.harness \notin record.enabled
    <3>1. undone = [job EXCEPT !.do = "detach"]
      BY <1>5, <2>3 DEF Undo
    <3>2. /\ undone.harness = job.harness /\ undone.do = "detach"
          /\ undone.port = cmd.setting.port
      BY <2>1, <3>1 DEF Job
    <3> QED
      BY <1>1, <2>3, <3>2 DEF Planned
  <2> QED
    BY <2>2, <2>3
<1>6. \A job \in ToSet(cmd'.jobs) : Planned(job)'
  BY <1>3, <1>5
<1> QED
  BY <1>1, <1>2, <1>3, <1>6 DEF CommandInv

LEMMA CommandProcessStep ==
  ASSUME TypeOK, CommandInv, Refused \/ JobsDone \/ Save \/ ProcessStep
  PROVE  CommandInv'
<1>1. active' = active
  BY DEF Refused, JobsDone, Save, ProcessStep, Look, StopProcess, ClearPid, Spawn,
         PollHealthy, PollEnds, Report, GiveUp, files
<1>2. ASSUME NEW pc, Goto(pc), record' = record,
             pc \in {"look", "save", "stop", "clear", "spawn", "poll", "report", "giveup"},
             cmd.jobs = << >>, cmd.pc # "undo",
             pc \in {"look", "spawn", "poll", "report", "giveup"} => Changes,
             pc = "save" => Changes \/ (cmd.pc = "drop" /\ Drops)
      PROVE  CommandInv'
  <2>1. cmd.write = NoWrite
    BY <1>2 DEF CommandInv
  <2>2. /\ cmd'.pc = pc /\ cmd'.op = cmd.op /\ cmd'.harness = cmd.harness
        /\ cmd'.setting = cmd.setting /\ cmd'.jobs = << >> /\ cmd'.write = NoWrite
        /\ cmd'.changed = cmd.changed
    BY <1>2, <2>1, GotoEffect
  <2> QED
    BY <1>1, <1>2, <2>2, GotoStep
<1>3. CASE Refused
  <2>1. cmd.pc = "sync" /\ cmd.write = NoWrite /\ Fail /\ record' = record
    BY <1>3 DEF Refused
  <2>2. Syncs
    BY <2>1 DEF CommandInv, Syncs
  <2> QED
    BY <1>1, <2>1, <2>2, FailStep
<1>4. CASE JobsDone
  <2>1. cmd.jobs = << >> /\ record' = record /\ cmd.pc \in {"sync", "undo", "drop"}
    BY <1>4 DEF JobsDone
  <2>2. CASE cmd.pc = "sync"
    <3>1. Goto("look") /\ Changes
      BY <1>4, <2>2 DEF JobsDone, CommandInv
    <3> QED
      BY <1>2, <2>1, <2>2, <3>1
  <2>3. CASE cmd.pc = "undo"
    BY <1>4, <2>3, IdleStep DEF JobsDone
  <2>4. CASE cmd.pc = "drop"
    <3>1. Goto("save") /\ Drops
      BY <1>4, <2>4 DEF JobsDone, CommandInv
    <3> QED
      BY <1>2, <2>1, <2>4, <3>1
  <2> QED
    BY <2>1, <2>2, <2>3, <2>4
<1>5. CASE Save
  <2>1. cmd.pc = "save" /\ cmd.jobs = << >> /\ cmd.write = NoWrite
    BY <1>5 DEF Save, CommandInv
  <2>2. CASE cmd' = Idle
    BY <2>2, IdleStep
  <2>3. CASE cmd' # Idle
    <3>1. Goto("stop") /\ cmd.op \in {"disable_all", "disable"}
      BY <1>5, <2>3 DEF Save
    <3>2. /\ cmd'.pc = "stop" /\ cmd'.op = cmd.op /\ cmd'.jobs = << >>
          /\ cmd'.write = NoWrite /\ cmd'.changed = cmd.changed
      BY <2>1, <3>1, GotoEffect
    <3>3. ~Changes /\ ~Syncs /\ ~Changes' /\ ~Syncs' /\ ~Drops'
      BY <3>1, <3>2 DEF Changes, Syncs, Drops
    <3>4. cmd'.changed = << >>
      BY <3>2, <3>3 DEF CommandInv
    <3>5. ToSet(cmd'.jobs) = {} /\ ToSet(cmd'.changed) = {}
      BY <3>2, <3>4, EmptyElements
    <3>6. cmd'.pc # "idle"
      BY <3>2
    <3> QED
      BY <2>3, <3>2, <3>3, <3>4, <3>5, <3>6 DEF CommandInv
  <2> QED
    BY <2>2, <2>3
<1>6. CASE Look
  <2>1. cmd.pc = "look" /\ record' = record
    BY <1>6 DEF Look
  <2>2. Changes /\ cmd.jobs = << >>
    BY <2>1 DEF CommandInv
  <2>3. Goto("save") \/ Goto("stop") \/ Goto("spawn")
    BY <1>6 DEF Look
  <2> QED
    BY <1>2, <2>1, <2>2, <2>3
<1>7. CASE StopProcess
  <2>1. cmd.pc = "stop" /\ record' = record /\ Goto("clear")
    BY <1>7 DEF StopProcess
  <2>2. cmd.jobs = << >>
    BY <2>1 DEF CommandInv
  <2> QED
    BY <1>2, <2>1, <2>2
<1>8. CASE ClearPid
  <2>1. cmd.pc = "clear" /\ cmd.jobs = << >> /\ record' = record
    BY <1>8, ClearPidEffect
  <2>2. CASE cmd' = Idle
    BY <2>2, IdleStep
  <2>3. CASE Changes /\ Goto("spawn")
    BY <1>2, <2>1, <2>3
  <2>4. CASE cmd' # Idle /\ ~Changes
    <3>1. /\ cmd'.pc = "sync" /\ cmd'.op = "start"
          /\ cmd'.setting = cmd.setting /\ cmd'.write = NoWrite
          /\ cmd'.changed = cmd.changed
          /\ ToSet(cmd'.jobs) =
               {[do |-> "attach", harness |-> h, port |-> cmd.setting.port] :
                  h \in record.enabled}
      BY <1>8, <2>4, ClearPidEffect
    <3>2. cmd.changed = << >>
      BY <2>4 DEF CommandInv, Syncs
    <3>3. Changes' /\ ~Drops' /\ Targets' = record.enabled
      BY <2>1, <3>1 DEF Changes, Drops, Targets
    <3>4. \A job \in ToSet(cmd'.jobs) : Planned(job)'
      BY <3>1, <3>3 DEF Planned
    <3>5. ToSet(cmd'.changed) = {} /\ cmd'.pc # "idle"
      BY <3>1, <3>2, EmptyElements
    <3> QED
      BY <2>4, <3>1, <3>2, <3>3, <3>4, <3>5 DEF CommandInv
  <2> QED
    BY <1>8, <2>2, <2>3, <2>4, ClearPidEffect
<1>9. CASE Spawn
  <2>1. PICK q \in Pid : cmd' = [cmd EXCEPT !.child = q, !.pc = "poll"]
    BY <1>9 DEF Spawn
  <2>2. cmd.pc = "spawn" /\ record' = record
    BY <1>9 DEF Spawn
  <2>3. Changes /\ cmd.jobs = << >> /\ cmd.write = NoWrite
    BY <2>2 DEF CommandInv
  <2>4. /\ cmd'.pc = "poll" /\ cmd'.op = cmd.op /\ cmd'.harness = cmd.harness
        /\ cmd'.setting = cmd.setting /\ cmd'.jobs = << >> /\ cmd'.write = NoWrite
        /\ cmd'.changed = cmd.changed
    BY <2>1, <2>3 DEF TypeOK, Command
  <2> QED
    BY <1>1, <2>2, <2>3, <2>4, GotoStep
<1>10. CASE PollHealthy
  <2>1. cmd.pc = "poll" /\ record' = record /\ Goto("report")
    BY <1>10 DEF PollHealthy
  <2>2. Changes /\ cmd.jobs = << >>
    BY <2>1 DEF CommandInv
  <2> QED
    BY <1>2, <2>1, <2>2
<1>11. CASE PollEnds
  <2>1. cmd.pc = "poll" /\ record' = record /\ Goto("giveup")
    BY <1>11 DEF PollEnds
  <2>2. Changes /\ cmd.jobs = << >>
    BY <2>1 DEF CommandInv
  <2> QED
    BY <1>2, <2>1, <2>2
<1>12. CASE Report
  <2>1. cmd.pc = "report" /\ record' = record /\ Goto("save")
    BY <1>12 DEF Report
  <2>2. Changes /\ cmd.jobs = << >>
    BY <2>1 DEF CommandInv
  <2> QED
    BY <1>2, <2>1, <2>2
<1>13. CASE GiveUp
  <2>1. cmd.pc = "giveup" /\ record' = record /\ Fail
    BY <1>13 DEF GiveUp
  <2>2. Syncs /\ cmd.jobs = << >>
    BY <2>1 DEF CommandInv, Syncs
  <2>3. cmd.write = NoWrite
    BY <2>2 DEF CommandInv
  <2> QED
    BY <1>1, <2>1, <2>2, <2>3, FailStep
<1> QED
  BY <1>3, <1>4, <1>5, <1>6, <1>7, <1>8, <1>9, <1>10, <1>11, <1>12, <1>13 DEF ProcessStep

LEMMA CommandInvStep ==
  ASSUME TypeOK, CommandInv, [Next]_vars
  PROVE  CommandInv'
<1>1. CASE \/ \E h \in Harness, s \in Setting : Enable(h, s)
           \/ \E s \in Setting : Start(s) \/ Restart(s)
           \/ \E h \in Harness : Disable(h)
           \/ DisableAll \/ Stop
  <2>1. /\ cmd'.pc \in {"sync", "drop", "stop"} /\ cmd'.write = NoWrite
        /\ cmd'.changed = << >> /\ record' = record /\ active' = active
        /\ cmd'.pc = "sync" => /\ cmd'.op \in {"enable", "start"}
                               /\ ToSet(cmd'.jobs) =
                                    {[do |-> "attach", harness |-> h, port |-> cmd'.setting.port] :
                                       h \in Targets'}
        /\ cmd'.pc = "drop" => /\ cmd'.op \in {"disable", "disable_all"}
                               /\ cmd'.op = "disable" => cmd'.harness \in record.enabled
                               /\ ToSet(cmd'.jobs) =
                                    {[do |-> "detach", harness |-> h, port |-> record.setting.port] :
                                       h \in Removed'}
        /\ cmd'.pc = "stop" => cmd'.op \in {"stop", "restart"} /\ cmd'.jobs = << >>
    BY <1>1, RunCases DEF files
  <2>2. cmd'.pc # "idle" /\ cmd' # Idle /\ ToSet(cmd'.changed) = {}
    BY <2>1, IdleEffect, EmptyElements
  <2>3. \A job \in ToSet(cmd'.jobs) : Planned(job)'
    <3>1. CASE cmd'.pc = "sync"
      BY <2>1, <3>1 DEF Planned
    <3>2. CASE cmd'.pc = "drop"
      BY <2>1, <3>2 DEF Planned
    <3>3. CASE cmd'.pc = "stop"
      BY <2>1, <3>3, EmptyElements
    <3> QED
      BY <2>1, <3>1, <3>2, <3>3
  <2>4. /\ cmd'.pc = "sync" => Changes' /\ Syncs'
        /\ cmd'.pc = "drop" => Drops'
        /\ cmd'.op = "disable" /\ Drops' => cmd'.harness \in record'.enabled
    <3>1. cmd'.op = "disable" /\ Drops' => cmd'.pc = "drop"
      BY <2>1 DEF Drops
    <3>2. cmd'.pc = "sync" => Changes' /\ Syncs'
      BY <2>1 DEF Changes, Syncs
    <3>3. cmd'.pc = "drop" => Drops'
      BY <2>1 DEF Drops
    <3> QED
      BY <2>1, <3>1, <3>2, <3>3
  <2> QED
    BY <2>1, <2>2, <2>3, <2>4 DEF CommandInv
<1>2. CASE CommandStep
  BY <1>2, CommandFileStep, CommandProcessStep DEF CommandStep
<1>3. ASSUME UNCHANGED << record, cmd, active >> PROVE CommandInv'
  BY <1>3 DEF CommandInv, Planned, Targets, Removed, Changes, Syncs, Drops
<1>4. CASE \/ \E q \in Pid : Bind(q) \/ Exit(q)
           \/ UNCHANGED vars
           \/ \E p \in Provider, url \in Upstream \union {Unset} : Edit(p, url)
  BY <1>3, <1>4 DEF Bind, Exit, vars, files, Edit
<1>5. CASE Kill
  BY <1>5, IdleStep DEF Kill
<1>6. CASE \E p \in Provider : Select(p)
  BY <1>6, IdleStep DEF Select
<1> QED
  BY <1>1, <1>2, <1>4, <1>5, <1>6 DEF Next

LEMMA CommandInvInit == Init => CommandInv
<1> SUFFICES ASSUME Init PROVE CommandInv
  OBVIOUS
<1>1. /\ cmd = Idle /\ cmd.pc = "idle" /\ cmd.op = "none" /\ cmd.jobs = << >>
      /\ cmd.write = NoWrite /\ cmd.changed = << >>
  BY IdleEffect DEF Init
<1> QED
  BY <1>1, EmptyElements DEF CommandInv, Changes, Drops

-----------------------------------------------------------------------------
(* The URLs of the user. *)

\* Ports are no URLs of the user's.
LEMMA PortsAreApart ==
  /\ \A port \in Port : port \notin Upstream \union {Unset}
  /\ Unset \notin Upstream /\ Local \subseteq Upstream
BY ControllerAssumption DEF ControllerAssumption

LEMMA UrlInit == Init => UrlInv
<1> SUFFICES ASSUME Init PROVE UrlInv
  OBVIOUS
<1>1. /\ wish = base /\ forgotten = {} /\ base \in [Provider -> Upstream \union {Unset}]
      /\ meta = [p \in Provider |-> NoEntry] /\ cmd.write = NoWrite
  BY IdleEffect, ControllerAssumption DEF Init, ControllerAssumption
<1>2. ASSUME NEW p \in Provider PROVE Told(p) = NoEntry /\ base[p] \notin Port /\ wish[p] = base[p]
  BY <1>1, PortsAreApart DEF Told, Pending
<1> QED
  BY <1>2 DEF UrlInv

\* With no write of metadata under way, the file tells the URLs.
LEMMA ToldByFile ==
  ASSUME cmd.write = NoWrite
  PROVE  \A p : Told(p) = meta[p]
BY DEF Told, Pending

\* With one under way, the write does, for the provider selected.
LEMMA ToldByWrite ==
  ASSUME cmd.write # NoWrite
  PROVE  \A p : Told(p) = IF p = cmd.write[1] THEN cmd.write[2] ELSE meta[p]
BY DEF Told, Pending

LEMMA UrlFrame ==
  ASSUME UrlInv, UNCHANGED << wish, base, meta, backup, forgotten >>, cmd'.write = cmd.write
  PROVE  UrlInv'
BY DEF UrlInv, Told, Pending

\* The copy made before a write keeps every URL that is in the configuration.
LEMMA BackedUpKeeps ==
  ASSUME TypeOK, UrlInv, NEW p \in Provider
  PROVE  /\ backup[p] \subseteq BackedUp[p]
         /\ wish[p] \in {Unset} \union BackedUp[p]
<1>1. BackedUp[p] = backup[p] \union ({base[p]} \intersect Upstream)
  BY DEF BackedUp
<1>2. wish[p] \in {Unset, base[p]} \union backup[p] /\ wish[p] \in Upstream \union {Unset}
  BY DEF UrlInv, TypeOK
<1> QED
  BY <1>1, <1>2

\* What attach remembers of the provider selected is what the user gave it.
LEMMA OriginalIsWish ==
  ASSUME TypeOK, UrlInv, cmd.write = NoWrite, active \notin forgotten
  PROVE  wish[active] \in Local \/ wish[active] = Restored(Original(active))
<1>1. /\ active \in Provider /\ meta[active] \in Entry
      /\ base[active] \in Upstream \union Port \union {Unset}
  BY DEF TypeOK
<1>2. /\ base[active] \notin Port => meta[active] = NoEntry
      /\ \/ wish[active] \in Local
         \/ wish[active] = IF base[active] \in Port THEN Restored(meta[active]) ELSE base[active]
  BY <1>1, ToldByFile DEF UrlInv
<1>3. CASE meta[active] # NoEntry
  BY <1>2, <1>3 DEF Original
<1>4. CASE meta[active] = NoEntry /\ base[active] \in Port
  <2>1. Original(active) = [url |-> Default[active], explicit |-> FALSE]
    BY <1>4, PortsAreApart DEF Original
  <2>2. Restored(Original(active)) = Unset /\ Restored(meta[active]) = Unset
    BY <1>4, <2>1 DEF Restored, NoEntry
  <2> QED
    BY <1>2, <1>4, <2>2
<1>5. CASE meta[active] = NoEntry /\ base[active] \in Upstream \ Local
  <2>1. Original(active) = [url |-> base[active], explicit |-> TRUE]
    BY <1>5 DEF Original
  <2>2. Restored(Original(active)) = base[active]
    BY <2>1 DEF Restored
  <2>3. base[active] \notin Port
    BY <1>5, PortsAreApart
  <2> QED
    BY <1>2, <2>2, <2>3
<1>6. CASE meta[active] = NoEntry /\ base[active] \in Local
  <2>1. base[active] \notin Port
    BY <1>6, PortsAreApart
  <2> QED
    BY <1>2, <1>6, <2>1
<1>7. CASE meta[active] = NoEntry /\ base[active] = Unset
  <2>1. Original(active) = [url |-> Default[active], explicit |-> FALSE]
    BY <1>7, PortsAreApart DEF Original
  <2>2. Restored(Original(active)) = Unset
    BY <2>1 DEF Restored
  <2>3. base[active] \notin Port
    BY <1>7, PortsAreApart
  <2> QED
    BY <1>2, <1>7, <2>2, <2>3
<1> QED
  BY <1>1, <1>3, <1>4, <1>5, <1>6, <1>7

LEMMA UrlAttach ==
  ASSUME TypeOK, UrlInv, AttachOpenCode, UNCHANGED << wish, forgotten >>
  PROVE  UrlInv'
<1> DEFINE port == Head(cmd.jobs).port
           known == Original(active).url # Unset
           changed == known /\ base[active] # port
<1>1. port \in Port /\ cmd.write = NoWrite /\ cmd.jobs # << >> /\ active \in Provider
  BY JobFacts DEF AttachOpenCode, TypeOK
<1>2. /\ base' = IF known THEN [base EXCEPT ![active] = port] ELSE base
      /\ backup' = IF changed THEN BackedUp ELSE backup
      /\ meta' = meta
      /\ cmd'.write = IF known THEN << active, Original(active) >> ELSE NoWrite
  BY <1>1, AttachOpenCodeEffect, DoneEffect
<1>3. CASE ~known
  BY <1>1, <1>2, <1>3, UrlFrame
<1>4. CASE known
  <2> SUFFICES ASSUME NEW p \in Provider
               PROVE  /\ wish[p] \in {Unset, base'[p]} \union backup'[p]
                      /\ p \notin forgotten =>
                           /\ base'[p] \notin Port => Told(p)' = NoEntry
                           /\ \/ wish[p] \in Local
                              \/ wish[p] = IF base'[p] \in Port
                                           THEN Restored(Told(p)') ELSE base'[p]
    BY DEF UrlInv, Restored
  <2>1. base'[p] = IF p = active THEN port ELSE base[p]
    BY <1>2, <1>4 DEF TypeOK
  <2>2. Told(p)' = IF p = active THEN Original(active) ELSE meta[p]
    BY <1>2, <1>4 DEF Told, Pending, NoWrite
  <2>3. Told(p) = meta[p]
    BY <1>1, ToldByFile
  <2>4. wish[p] \in {Unset, base'[p]} \union backup'[p]
    <3>1. CASE changed
      BY <1>2, <3>1, BackedUpKeeps
    <3>2. CASE ~changed
      <4>1. base'[p] = base[p] /\ backup' = backup
        BY <1>2, <1>4, <2>1, <3>2
      <4> QED
        BY <4>1 DEF UrlInv
    <3> QED
      BY <3>1, <3>2
  <2>5. CASE p = active
    <3>1. base'[p] \in Port /\ Told(p)' = Original(active)
      BY <1>1, <2>1, <2>2, <2>5
    <3>2. p \notin forgotten => wish[p] \in Local \/ wish[p] = Restored(Original(active))
      BY <1>1, <2>5, OriginalIsWish
    <3> QED
      BY <2>4, <3>1, <3>2
  <2>6. CASE p # active
    BY <2>1, <2>2, <2>3, <2>4, <2>6 DEF UrlInv
  <2> QED
    BY <2>5, <2>6
<1> QED
  BY <1>3, <1>4

LEMMA UrlDetach ==
  ASSUME TypeOK, UrlInv, DetachOpenCode, UNCHANGED << wish, forgotten >>
  PROVE  UrlInv'
<1> DEFINE port == Head(cmd.jobs).port
           changed == base[active] = port
           given == Restored(meta[active])
<1>1. port \in Port /\ cmd.write = NoWrite /\ cmd.jobs # << >> /\ active \in Provider
  BY JobFacts DEF DetachOpenCode, TypeOK
<1>2. /\ base' = IF changed THEN [base EXCEPT ![active] = given] ELSE base
      /\ given \in Upstream \union {Unset}
      /\ backup' = IF changed THEN BackedUp ELSE backup
      /\ meta' = meta
      /\ cmd'.write = IF changed THEN << active, NoEntry >> ELSE NoWrite
  BY <1>1, DetachOpenCodeEffect, DoneEffect
<1> HIDE DEF given
<1>3. CASE ~changed
  BY <1>1, <1>2, <1>3, UrlFrame
<1>4. CASE changed
  <2> SUFFICES ASSUME NEW p \in Provider
               PROVE  /\ wish[p] \in {Unset, base'[p]} \union backup'[p]
                      /\ p \notin forgotten =>
                           /\ base'[p] \notin Port => Told(p)' = NoEntry
                           /\ \/ wish[p] \in Local
                              \/ wish[p] = IF base'[p] \in Port
                                           THEN Restored(Told(p)') ELSE base'[p]
    BY DEF UrlInv, Restored
  <2>1. base'[p] = IF p = active THEN given ELSE base[p]
    BY <1>2, <1>4 DEF TypeOK
  <2>2. Told(p)' = IF p = active THEN NoEntry ELSE meta[p]
    BY <1>2, <1>4 DEF Told, Pending, NoWrite
  <2>3. Told(p) = meta[p]
    BY <1>1, ToldByFile
  <2>4. wish[p] \in {Unset, base'[p]} \union backup'[p]
    BY <1>2, <1>4, BackedUpKeeps
  <2>5. CASE p = active
    <3>1. base'[p] \notin Port /\ Told(p)' = NoEntry
      BY <1>2, <2>1, <2>2, <2>5, PortsAreApart
    <3>2. p \notin forgotten => wish[p] \in Local \/ wish[p] = given
      BY <1>1, <1>4, <2>3, <2>5 DEF UrlInv, given
    <3> QED
      BY <2>1, <2>4, <2>5, <3>1, <3>2
  <2>6. CASE p # active
    BY <2>1, <2>2, <2>3, <2>4, <2>6 DEF UrlInv
  <2> QED
    BY <2>5, <2>6
<1> QED
  BY <1>3, <1>4

LEMMA UrlWrite ==
  ASSUME TypeOK, CommandInv, UrlInv, WriteMetadata, UNCHANGED << wish, forgotten >>
  PROVE  UrlInv'
<1>1. /\ cmd.write \in Provider \X Entry /\ cmd.write[1] = active
      /\ meta' = [meta EXCEPT ![active] = cmd.write[2]] /\ cmd'.write = NoWrite
      /\ UNCHANGED << base, backup >> /\ active \in Provider
  BY WriteMetadataEffect DEF TypeOK
<1>2. cmd.write # NoWrite
  BY DEF WriteMetadata
<1>3. \A p \in Provider : Told(p)' = Told(p)
  <2>1. \A p \in Provider : Told(p)' = meta'[p]
    BY <1>1 DEF Told, Pending
  <2>2. \A p \in Provider : meta'[p] = IF p = active THEN cmd.write[2] ELSE meta[p]
    BY <1>1 DEF TypeOK
  <2> QED
    BY <1>1, <1>2, <2>1, <2>2, ToldByWrite
<1> QED
  BY <1>1, <1>3 DEF UrlInv, Restored

LEMMA UrlKill ==
  ASSUME UrlInv, Kill
  PROVE  UrlInv'
<1>1. /\ UNCHANGED << wish, base, meta, backup >> /\ cmd'.write = NoWrite
      /\ forgotten' = forgotten \union Pending
  BY IdleEffect DEF Kill, files
<1>2. \A p \in Provider : p \notin Pending => Told(p)' = Told(p)
  BY <1>1 DEF Told, Pending
<1> QED
  BY <1>1, <1>2 DEF UrlInv, Restored

LEMMA UrlEdit ==
  ASSUME TypeOK, UrlInv, NEW p \in Provider, NEW url \in Upstream \union {Unset}, Edit(p, url)
  PROVE  UrlInv'
<1>1. /\ base' = [base EXCEPT ![p] = url] /\ wish' = [wish EXCEPT ![p] = url]
      /\ UNCHANGED << meta, backup, cmd >> /\ cmd.write = NoWrite
      /\ forgotten' = IF meta[p] = NoEntry THEN forgotten \ {p} ELSE forgotten \union {p}
  BY IdleEffect DEF Edit
<1>2. /\ \A q \in Provider : base'[q] = IF q = p THEN url ELSE base[q]
      /\ \A q \in Provider : wish'[q] = IF q = p THEN url ELSE wish[q]
  BY <1>1 DEF TypeOK
<1>3. \A q \in Provider : Told(q) = meta[q] /\ Told(q)' = meta[q]
  BY <1>1, ToldByFile DEF Told, Pending
<1>4. url \notin Port
  BY PortsAreApart
<1> QED
  BY <1>1, <1>2, <1>3, <1>4 DEF UrlInv, Restored

\* No step of a command writes an entry of the metadata and forgets to.
LEMMA UrlProcessStep ==
  ASSUME TypeOK, CommandInv, UrlInv, Refused \/ JobsDone \/ Save \/ ProcessStep
  PROVE  UrlInv'
<1>1. UNCHANGED << wish, base, meta, backup, forgotten >>
  BY DEF Refused, JobsDone, Save, ProcessStep, Look, StopProcess, ClearPid, Spawn,
         PollHealthy, PollEnds, Report, GiveUp, files, user
<1>2. ASSUME NEW pc, Goto(pc),
             pc \in {"look", "save", "stop", "clear", "spawn", "poll", "report", "giveup"}
      PROVE  cmd'.write = cmd.write
  BY <1>2, GotoEffect
<1>3. CASE Refused \/ GiveUp
  BY <1>1, <1>3, FailEffect, UrlFrame DEF Refused, GiveUp
<1>4. CASE JobsDone
  <2>1. cmd.write = NoWrite
    BY <1>4 DEF JobsDone, CommandInv
  <2> QED
    BY <1>1, <1>2, <1>4, <2>1, IdleEffect, UrlFrame DEF JobsDone
<1>5. CASE Save
  <2>1. cmd.write = NoWrite
    BY <1>5 DEF Save, CommandInv
  <2> QED
    BY <1>1, <1>2, <1>5, <2>1, IdleEffect, UrlFrame DEF Save
<1>6. CASE Look \/ StopProcess \/ PollHealthy \/ PollEnds \/ Report
  <2>1. cmd'.write = cmd.write
    BY <1>2, <1>6 DEF Look, StopProcess, PollHealthy, PollEnds, Report
  <2> QED
    BY <1>1, <2>1, UrlFrame
<1>7. CASE ClearPid
  <2>1. cmd'.write = cmd.write
    BY <1>2, <1>7, ClearPidEffect, IdleEffect
  <2> QED
    BY <1>1, <2>1, UrlFrame
<1>8. CASE Spawn
  <2>1. PICK q \in Pid : cmd' = [cmd EXCEPT !.child = q, !.pc = "poll"]
    BY <1>8 DEF Spawn
  <2>2. cmd'.write = cmd.write
    BY <2>1 DEF TypeOK, Command
  <2> QED
    BY <1>1, <2>2, UrlFrame
<1> QED
  BY <1>3, <1>4, <1>5, <1>6, <1>7, <1>8 DEF ProcessStep

LEMMA UrlStep ==
  ASSUME TypeOK, CommandInv, UrlInv, [Next]_vars
  PROVE  UrlInv'
<1>1. CASE \/ \E h \in Harness, s \in Setting : Enable(h, s)
           \/ \E s \in Setting : Start(s) \/ Restart(s)
           \/ \E h \in Harness : Disable(h)
           \/ DisableAll \/ Stop
  <2>1. /\ UNCHANGED << wish, base, meta, backup, forgotten >>
        /\ cmd = Idle /\ cmd'.write = NoWrite
    BY <1>1, RunCases DEF files, user
  <2> QED
    BY <2>1, IdleEffect, UrlFrame
<1>2. CASE FileStep
  <2>1. UNCHANGED << wish, forgotten >>
    BY <1>2 DEF FileStep, user
  <2>2. CASE AttachClaude
    <3>1. cmd.jobs # << >> /\ cmd.write = NoWrite
      BY <2>2, JobFacts DEF AttachClaude
    <3>2. /\ Done(Head(cmd.jobs).port \notin hooks, NoWrite)
          /\ (Head(cmd.jobs).port \notin hooks) \in BOOLEAN
          /\ UNCHANGED << base, meta, backup >>
      BY <2>2 DEF AttachClaude
    <3>3. cmd'.write = NoWrite
      BY <3>1, <3>2, DoneEffect
    <3> QED
      BY <2>1, <3>1, <3>2, <3>3, UrlFrame
  <2>3. CASE DetachClaude
    <3>1. cmd.jobs # << >> /\ cmd.write = NoWrite
      BY <2>3, JobFacts DEF DetachClaude
    <3>2. /\ Done(Head(cmd.jobs).port \in hooks, NoWrite)
          /\ (Head(cmd.jobs).port \in hooks) \in BOOLEAN
          /\ UNCHANGED << base, meta, backup >>
      BY <2>3 DEF DetachClaude
    <3>3. cmd'.write = NoWrite
      BY <3>1, <3>2, DoneEffect
    <3> QED
      BY <2>1, <3>1, <3>2, <3>3, UrlFrame
  <2> QED
    BY <1>2, <2>1, <2>2, <2>3, UrlAttach, UrlDetach, UrlWrite DEF FileStep
<1>3. CASE Refused \/ JobsDone \/ Save \/ ProcessStep
  BY <1>3, UrlProcessStep
<1>4. CASE \/ \E q \in Pid : Bind(q) \/ Exit(q)
           \/ \E p \in Provider : Select(p)
           \/ UNCHANGED vars
  <2>1. UNCHANGED << wish, base, meta, backup, forgotten, cmd >>
    BY <1>4 DEF Bind, Exit, Select, vars, files, user
  <2> QED
    BY <2>1, UrlFrame
<1>5. CASE Kill
  BY <1>5, UrlKill
<1>6. CASE \E p \in Provider, url \in Upstream \union {Unset} : Edit(p, url)
  BY <1>6, UrlEdit
<1> QED
  BY <1>1, <1>2, <1>3, <1>4, <1>5, <1>6 DEF Next, CommandStep

-----------------------------------------------------------------------------
(* The processes of the gateway. *)

LEMMA GatewayInit == Init => GatewayInv
<1> SUFFICES ASSUME Init PROVE GatewayInv
  OBVIOUS
<1>1. pidfile.pid = None /\ cmd.pc = "idle" /\ \A q \in Pid : ~Alive(q)
  BY IdleEffect DEF Init, NoPid, Alive
<1> QED
  BY <1>1 DEF GatewayInv, Reported

LEMMA GatewayFrame ==
  ASSUME GatewayInv, UNCHANGED << gateway, lost, pidfile, record >>,
         stray => stray',
         cmd.pc \notin {"report", "save", "poll"} \/ cmd' = cmd,
         cmd'.pc \notin {"report", "save", "poll", "spawn", "giveup", "clear"} \/ cmd' = cmd
  PROVE  GatewayInv'
BY DEF GatewayInv, Reported, Changes, Alive

\* A step of the files leaves the command where it is.
LEMMA FileStepFacts ==
  ASSUME TypeOK, CommandInv, FileStep
  PROVE  /\ cmd.pc \in {"sync", "undo", "drop"} /\ cmd'.pc = cmd.pc /\ cmd'.op = cmd.op
         /\ cmd'.harness = cmd.harness /\ cmd'.setting = cmd.setting
         /\ active' = active
         /\ UNCHANGED << record, pidfile, gateway, lost, kills, wish, edits, stray, left, forgotten >>
<1>1. /\ NoWrite \in {NoWrite} \union (Provider \X Entry)
      /\ UNCHANGED << record, pidfile, gateway, lost, kills, wish, edits, stray, left, forgotten >>
  BY DEF FileStep, procs, user
<1>2. CASE AttachClaude
  <2>1. cmd.jobs # << >> /\ cmd.pc \in {"sync", "undo", "drop"}
    BY <1>2, JobFacts DEF AttachClaude
  <2>2. /\ Done(Head(cmd.jobs).port \notin hooks, NoWrite)
        /\ (Head(cmd.jobs).port \notin hooks) \in BOOLEAN /\ active' = active
    BY <1>2 DEF AttachClaude
  <2> QED
    BY <1>1, <2>1, <2>2, DoneEffect
<1>3. CASE DetachClaude
  <2>1. cmd.jobs # << >> /\ cmd.pc \in {"sync", "undo", "drop"}
    BY <1>3, JobFacts DEF DetachClaude
  <2>2. /\ Done(Head(cmd.jobs).port \in hooks, NoWrite)
        /\ (Head(cmd.jobs).port \in hooks) \in BOOLEAN /\ active' = active
    BY <1>3 DEF DetachClaude
  <2> QED
    BY <1>1, <2>1, <2>2, DoneEffect
<1>4. CASE AttachOpenCode
  <2>1. cmd.jobs # << >> /\ cmd.pc \in {"sync", "undo", "drop"}
    BY <1>4, JobFacts DEF AttachOpenCode
  <2> QED
    BY <1>1, <1>4, <2>1, AttachOpenCodeEffect, DoneEffect
<1>5. CASE DetachOpenCode
  <2>1. cmd.jobs # << >> /\ cmd.pc \in {"sync", "undo", "drop"}
    BY <1>5, JobFacts DEF DetachOpenCode
  <2> QED
    BY <1>1, <1>5, <2>1, DetachOpenCodeEffect, DoneEffect
<1>6. CASE WriteMetadata
  BY <1>1, <1>6, WriteMetadataEffect
<1> QED
  BY <1>2, <1>3, <1>4, <1>5, <1>6 DEF FileStep

LEMMA GatewayProcessStep ==
  ASSUME TypeOK, CommandInv, GatewayInv, Refused \/ JobsDone \/ Save \/ ProcessStep
  PROVE  GatewayInv'
<1>1. None \notin Pid /\ NoPid.pid = None
  BY ControllerAssumption DEF ControllerAssumption, NoPid
<1>2. CASE Refused
  <2>1. /\ cmd.pc = "sync" /\ cmd'.pc = "undo"
        /\ UNCHANGED << gateway, lost, pidfile, record >> /\ stray' = stray
    BY <1>2, FailEffect DEF Refused, procs, user
  <2> QED
    BY <2>1, GatewayFrame
<1>3. CASE JobsDone
  <2>1. UNCHANGED << gateway, lost, pidfile, record >> /\ stray' = stray
    BY <1>3 DEF JobsDone, procs, user
  <2>2. CASE cmd.pc = "drop"
    <3>1. Goto("save") /\ Drops /\ ~Changes
      BY <1>3, <2>2 DEF JobsDone, CommandInv, Drops, Changes
    <3>2. cmd'.pc = "save" /\ ~Changes'
      BY <3>1, GotoEffect DEF Changes
    <3> QED
      BY <2>1, <2>2, <3>2 DEF GatewayInv, Reported, Alive
  <2>3. CASE cmd.pc # "drop"
    <3>1. /\ cmd.pc \in {"sync", "undo"}
          /\ (cmd.pc = "sync" /\ Goto("look")) \/ cmd' = Idle
      BY <1>3, <2>3 DEF JobsDone
    <3>2. cmd'.pc \in {"look", "idle"}
      BY <3>1, GotoEffect, IdleEffect
    <3> QED
      BY <2>1, <3>1, <3>2, GatewayFrame
  <2> QED
    BY <2>2, <2>3
<1>4. CASE Save
  <2>1. /\ UNCHANGED << gateway, lost, pidfile >> /\ record' = NextRecord
        /\ cmd.pc = "save" /\ stray' = (stray /\ cmd.op # "start")
        /\ cmd' = Idle \/ (Goto("stop") /\ cmd.op \in {"disable_all", "disable"})
    BY <1>4 DEF Save, procs
  <2>2. cmd'.pc \in {"idle", "stop"}
    BY <2>1, GotoEffect, IdleEffect
  <2>3. Changes \/ cmd.op \in {"disable", "disable_all"}
    BY <2>1 DEF CommandInv, Drops
  <2>4. record'.setting = IF Changes THEN cmd.setting ELSE record.setting
    BY <2>1, <2>3, NextRecordType DEF Changes
  <2>5. ~Changes => stray' = stray
    BY <2>1 DEF Changes, TypeOK
  <2>6. pidfile.pid = None \/ stray' \/ pidfile.setting = record'.setting
    BY <2>1, <2>4, <2>5 DEF GatewayInv, Reported
  <2> QED
    BY <2>1, <2>2, <2>6 DEF GatewayInv, Reported, Alive
<1>5. CASE Look
  <2>1. /\ UNCHANGED << gateway, lost, record, stray >> /\ cmd.pc = "look"
    BY <1>5 DEF Look, procs, user
  <2>2. Changes
    BY <2>1 DEF CommandInv
  <2>3. CASE pidfile.setting = cmd.setting /\ Goto("save") /\ UNCHANGED pidfile
    <3>1. cmd'.pc = "save" /\ cmd'.setting = cmd.setting /\ Changes'
      BY <2>2, <2>3, GotoEffect DEF Changes
    <3> QED
      BY <2>1, <2>3, <3>1 DEF GatewayInv, Reported, Alive
  <2>4. CASE Goto("stop") /\ UNCHANGED pidfile
    <3>1. cmd'.pc = "stop"
      BY <2>4, GotoEffect
    <3> QED
      BY <2>1, <2>4, <3>1, GatewayFrame
  <2>5. CASE ~Alive(pidfile.pid) /\ Goto("spawn") /\ pidfile' = NoPid
    <3>1. cmd'.pc = "spawn"
      BY <2>5, GotoEffect
    <3> QED
      BY <1>1, <2>1, <2>5, <3>1 DEF GatewayInv, Reported, Alive
  <2> QED
    BY <1>5, <2>3, <2>4, <2>5 DEF Look
<1>6. CASE StopProcess
  <2>1. /\ UNCHANGED << pidfile, record, stray >> /\ cmd.pc = "stop" /\ cmd'.pc = "clear"
        /\ Terminate(pidfile.pid)
    BY <1>6, GotoEffect DEF StopProcess, user
  <2>2. /\ \A p \in Pid : gateway'[p] = IF p = pidfile.pid THEN None ELSE gateway[p]
        /\ lost' = lost \ {pidfile.pid} /\ pidfile.pid \in Pid \union {None}
    BY <2>1, TerminateEffect DEF TypeOK
  <2> QED
    BY <2>1, <2>2 DEF GatewayInv, Reported, Alive
<1>7. CASE ClearPid
  <2>1. /\ UNCHANGED << gateway, lost, record, stray >> /\ pidfile' = NoPid
        /\ cmd.pc = "clear" /\ cmd'.pc \in {"spawn", "sync", "idle"}
    BY <1>7, ClearPidEffect, GotoEffect, IdleEffect DEF procs, user
  <2> QED
    BY <1>1, <2>1 DEF GatewayInv, Reported, Alive
<1>8. CASE Spawn
  <2>1. PICK q \in Pid :
          /\ gateway' = [gateway EXCEPT ![q] = [port |-> cmd.setting.port, serves |-> FALSE]]
          /\ cmd' = [cmd EXCEPT !.child = q, !.pc = "poll"]
    BY <1>8 DEF Spawn
  <2>2. cmd'.pc = "poll" /\ cmd'.child = q /\ cmd.pc = "spawn"
    BY <1>8, <2>1 DEF Spawn, TypeOK, Command
  <2>3. UNCHANGED << pidfile, lost, record, stray >>
    BY <1>8 DEF Spawn, user
  <2>4. \A p \in Pid : p # q => gateway'[p] = gateway[p]
    BY <2>1 DEF TypeOK
  <2> QED
    BY <2>2, <2>3, <2>4 DEF GatewayInv, Reported, Alive
<1>9. CASE PollHealthy
  <2>1. /\ UNCHANGED << gateway, lost, record, stray >> /\ cmd.pc = "poll"
        /\ pidfile' = [pid |-> cmd.child, setting |-> cmd.setting] /\ Goto("report")
    BY <1>9 DEF PollHealthy, procs, user
  <2>2. cmd'.pc = "report" /\ cmd'.setting = cmd.setting
    BY <2>1, GotoEffect
  <2>3. pidfile'.pid = cmd.child /\ pidfile'.setting = cmd.setting
    BY <2>1
  <2> QED
    BY <2>1, <2>2, <2>3 DEF GatewayInv, Reported, Alive
<1>10. CASE PollEnds
  <2>1. /\ UNCHANGED << pidfile, record, stray >> /\ cmd.pc = "poll" /\ cmd'.pc = "giveup"
        /\ Terminate(cmd.child)
    BY <1>10, GotoEffect DEF PollEnds, user
  <2>2. /\ \A p \in Pid : gateway'[p] = IF p = cmd.child THEN None ELSE gateway[p]
        /\ lost' = lost \ {cmd.child}
    BY <2>1, TerminateEffect
  <2> QED
    BY <2>1, <2>2 DEF GatewayInv, Reported, Alive
<1>11. CASE Report
  <2>1. /\ UNCHANGED << gateway, lost, record, stray >> /\ cmd.pc = "report" /\ Goto("save")
        /\ pidfile' = IF Alive(pidfile.pid) THEN pidfile ELSE NoPid
    BY <1>11 DEF Report, procs, user
  <2>2. cmd'.pc = "save" /\ cmd'.setting = cmd.setting /\ Changes'
    BY <2>1, GotoEffect DEF Changes, CommandInv
  <2> QED
    BY <1>1, <2>1, <2>2 DEF GatewayInv, Reported, Alive
<1>12. CASE GiveUp
  <2>1. /\ UNCHANGED << gateway, lost, record, stray >> /\ cmd.pc = "giveup"
        /\ pidfile' = NoPid /\ cmd'.pc = "undo"
    BY <1>12, FailEffect DEF GiveUp, procs, user
  <2> QED
    BY <1>1, <2>1 DEF GatewayInv, Reported, Alive
<1> QED
  BY <1>2, <1>3, <1>4, <1>5, <1>6, <1>7, <1>8, <1>9, <1>10, <1>11, <1>12 DEF ProcessStep

LEMMA GatewayStep ==
  ASSUME TypeOK, CommandInv, GatewayInv, [Next]_vars
  PROVE  GatewayInv'
<1>1. CASE \/ \E h \in Harness, s \in Setting : Enable(h, s)
           \/ \E s \in Setting : Start(s) \/ Restart(s)
           \/ \E h \in Harness : Disable(h)
           \/ DisableAll \/ Stop
  <2>1. /\ UNCHANGED << gateway, lost, pidfile, record >> /\ stray' = stray
        /\ cmd = Idle /\ cmd'.pc \in {"sync", "drop", "stop"}
    BY <1>1, RunCases DEF procs, user
  <2> QED
    BY <2>1, IdleEffect, GatewayFrame
<1>2. CASE FileStep
  BY <1>2, FileStepFacts, GatewayFrame
<1>3. CASE Refused \/ JobsDone \/ Save \/ ProcessStep
  BY <1>3, GatewayProcessStep
<1>4. ASSUME NEW q \in Pid, Bind(q) \/ Exit(q) PROVE GatewayInv'
  <2>1. UNCHANGED << record, pidfile, cmd, stray >>
    BY <1>4 DEF Bind, Exit, user
  <2>2. /\ \A p \in Pid : Alive(p)' => Alive(p) /\ (p \in lost => p \in lost')
        /\ pidfile.pid # None /\ Alive(pidfile.pid)' => Alive(pidfile.pid)
    <3>1. CASE Terminate(q)
      <4>1. /\ \A p \in Pid : gateway'[p] = IF p = q THEN None ELSE gateway[p]
            /\ lost' = lost \ {q} /\ pidfile.pid \in Pid \union {None}
        BY <3>1, TerminateEffect DEF TypeOK
      <4> QED
        BY <2>1, <4>1 DEF Alive
    <3>2. CASE ~Terminate(q)
      <4>1. /\ Alive(q) /\ gateway' = [gateway EXCEPT ![q].serves = TRUE] /\ lost' = lost
        BY <1>4, <3>2 DEF Bind, Exit
      <4>2. /\ \A p \in Pid : p # q => gateway'[p] = gateway[p]
            /\ pidfile.pid \in Pid \union {None}
        BY <4>1 DEF TypeOK
      <4> QED
        BY <2>1, <4>1, <4>2 DEF Alive
    <3> QED
      BY <3>1, <3>2
  <2>3. ~Alive(pidfile.pid) => ~Alive(pidfile.pid)'
    BY <2>1, <2>2 DEF Alive
  <2> QED
    BY <2>1, <2>2, <2>3 DEF GatewayInv, Reported, Changes
<1>5. CASE Kill
  <2>1. /\ UNCHANGED << record, pidfile, gateway >> /\ stray' /\ cmd'.pc = "idle"
        /\ lost' = {q \in Pid : Alive(q) /\ q # pidfile.pid}
    BY <1>5, IdleEffect DEF Kill
  <2> QED
    BY <2>1 DEF GatewayInv, Reported, Alive
<1>6. CASE \/ \E p \in Provider : Select(p)
           \/ \E p \in Provider, url \in Upstream \union {Unset} : Edit(p, url)
  <2>1. UNCHANGED << record, pidfile, gateway, lost, cmd >> /\ (stray => stray')
    BY <1>6 DEF Select, Edit, procs
  <2> QED
    BY <2>1, GatewayFrame
<1>7. CASE UNCHANGED vars
  <2>1. UNCHANGED << record, pidfile, gateway, lost, cmd, stray >>
    BY <1>7 DEF vars, procs, user
  <2> QED
    BY <2>1, GatewayFrame
<1> QED
  BY <1>1, <1>2, <1>3, <1>4, <1>5, <1>6, <1>7 DEF Next, CommandStep

-----------------------------------------------------------------------------
(* The files of the harnesses, and controller.json. *)

LEMMA FilesInit == Init => FilesInv
<1> SUFFICES ASSUME Init PROVE FilesInv
  OBVIOUS
<1>1. /\ record.enabled = {} /\ cmd.op = "none"
      /\ base \in [Provider -> Upstream \union {Unset}]
  BY IdleEffect, ControllerAssumption DEF Init, ControllerAssumption
<1>2. Exposed = {}
  BY <1>1, PortsAreApart DEF Exposed, Routed
<1>3. ~Drops /\ ~Syncs
  BY <1>1 DEF Drops, Syncs, Changes
<1> QED
  BY <1>1, <1>2, <1>3 DEF FilesInv, HooksRecorded, BaseRecorded, ExposedRecorded

\* The harnesses of the jobs left, of those done, and of those that undo them.
LEMMA HarnessesLeft ==
  ASSUME NEW jobs \in Seq(Job), jobs # << >>
  PROVE  HarnessesOf(jobs) = {Head(jobs).harness} \union HarnessesOf(Tail(jobs))
BY TailElements DEF HarnessesOf

LEMMA HarnessesDone ==
  ASSUME NEW jobs \in Seq(Job), NEW job \in Job
  PROVE  HarnessesOf(Append(jobs, job)) = HarnessesOf(jobs) \union {job.harness}
BY AppendElements DEF HarnessesOf

LEMMA HarnessesNamed ==
  ASSUME NEW jobs, NEW S,
         \A h \in S : \E job \in ToSet(jobs) : job.harness = h,
         \A job \in ToSet(jobs) : job.harness \in S
  PROVE  HarnessesOf(jobs) = S
BY DEF HarnessesOf

LEMMA HarnessesEmpty == HarnessesOf(<< >>) = {}
BY EmptyElements DEF HarnessesOf

LEMMA HarnessesUndone ==
  ASSUME TypeOK
  PROVE  HarnessesOf(Undone) = HarnessesOf(cmd.changed)
<1>1. \A job \in ToSet(cmd.changed) : job \in Job
  BY DEF TypeOK, Command, ToSet
<1>2. \A job \in ToSet(cmd.changed) : Undo(job).harness = job.harness
  BY <1>1 DEF Undo, Job
<1> QED
  BY <1>2, UndoneElements DEF HarnessesOf

LEMMA TargetsType ==
  ASSUME TypeOK
  PROVE  Targets \subseteq Harness /\ Removed \subseteq Harness
BY DEF TypeOK, Command, Targets, Removed

\* Between commands, and when a command has nothing to undo.
LEMMA FilesRecorded ==
  ASSUME FilesInv, ~Drops, ~Syncs, cmd.pc = "undo" => cmd.jobs = << >> \/ cmd.write # NoWrite
  PROVE  HooksRecorded /\ BaseRecorded
BY HarnessesEmpty DEF FilesInv

LEMMA FilesSettled ==
  ASSUME HooksRecorded, BaseRecorded, ~Drops, ~Syncs
  PROVE  FilesInv
BY DEF FilesInv

\* A step between the parts of a command that touch the files.
LEMMA FilesFrame ==
  ASSUME FilesInv, UNCHANGED << record, hooks, base, active, meta, left, stray >>,
         cmd'.op = cmd.op, cmd'.harness = cmd.harness, cmd'.setting = cmd.setting,
         cmd'.changed = cmd.changed, cmd'.write = cmd.write,
         cmd.jobs = << >>, cmd'.jobs = << >>,
         cmd.pc # "undo", cmd'.pc # "undo", Drops' <=> Drops
  PROVE  FilesInv'
<1>1. /\ Targets' = Targets /\ Removed' = Removed /\ (Syncs' <=> Syncs)
      /\ (HooksRecorded' <=> HooksRecorded) /\ (BaseRecorded' <=> BaseRecorded)
      /\ (ExposedRecorded' <=> ExposedRecorded) /\ (BaseChanged' <=> BaseChanged)
      /\ Exposed' = Exposed
  BY DEF Targets, Removed, Syncs, Changes, HooksRecorded, BaseRecorded, ExposedRecorded,
         BaseChanged, Exposed, Routed, Told, Pending
<1>2. \A h : Attached(h)' <=> Attached(h)
  BY DEF Attached
<1>3. HarnessesOf(cmd.jobs) = {} /\ HarnessesOf(cmd'.jobs) = {}
  BY HarnessesEmpty
<1> QED
  BY <1>1, <1>2, <1>3 DEF FilesInv

\* The jobs of a step that attaches or detaches h.
LEMMA NextJobFacts ==
  ASSUME TypeOK, CommandInv, NEW h, NEW do, NextJob(h, do)
  PROVE  /\ cmd.jobs \in Seq(Job) /\ cmd.changed \in Seq(Job) /\ Head(cmd.jobs) \in Job
         /\ HarnessesOf(cmd.jobs) = {h} \union HarnessesOf(Tail(cmd.jobs))
         /\ cmd.pc = "sync" => /\ do = "attach" /\ Head(cmd.jobs).port = cmd.setting.port
                               /\ h \in Targets /\ Syncs /\ ~Drops
         /\ cmd.pc = "undo" =>
              /\ ~Syncs /\ ~Drops
              /\ IF h \in record.enabled
                 THEN do = "attach" /\ Head(cmd.jobs).port = record.setting.port
                 ELSE do = "detach" /\ Head(cmd.jobs).port = cmd.setting.port
         /\ cmd.pc = "drop" => /\ do = "detach" /\ Head(cmd.jobs).port = record.setting.port
                               /\ h \in Removed /\ ~Syncs /\ Drops
<1>1. /\ cmd.pc \in {"sync", "undo", "drop"} /\ cmd.jobs # << >>
      /\ Head(cmd.jobs) \in ToSet(cmd.jobs)
      /\ Head(cmd.jobs).harness = h /\ Head(cmd.jobs).do = do
  BY JobFacts
<1>2. cmd.jobs \in Seq(Job) /\ cmd.changed \in Seq(Job)
  BY DEF TypeOK, Command
<1>3. Head(cmd.jobs) \in Job /\ HarnessesOf(cmd.jobs) = {h} \union HarnessesOf(Tail(cmd.jobs))
  BY <1>1, <1>2, TailElements, HarnessesLeft
<1>4. Planned(Head(cmd.jobs))
  BY <1>1 DEF CommandInv
<1>5. /\ cmd.pc = "sync" => Syncs /\ ~Drops
      /\ cmd.pc = "undo" => ~Syncs /\ ~Drops
      /\ cmd.pc = "drop" => ~Syncs /\ Drops
  BY DEF CommandInv, Syncs, Changes, Drops
<1> QED
  BY <1>1, <1>2, <1>3, <1>4, <1>5 DEF Planned

LEMMA FilesClaude ==
  ASSUME TypeOK, CommandInv, FilesInv, AttachClaude \/ DetachClaude, FileStep
  PROVE  FilesInv'
<1> DEFINE port == Head(cmd.jobs).port
<1>1. /\ cmd'.pc = cmd.pc /\ cmd'.op = cmd.op /\ cmd'.harness = cmd.harness
      /\ cmd'.setting = cmd.setting /\ cmd.pc \in {"sync", "undo", "drop"}
      /\ UNCHANGED << record, stray, left >>
  BY FileStepFacts
<1>2. PICK do \in {"attach", "detach"}, changed \in BOOLEAN :
        /\ NextJob("claude", do) /\ Done(changed, NoWrite)
        /\ hooks' = IF do = "attach" THEN hooks \union {port} ELSE hooks \ {port}
        /\ UNCHANGED << active, base, meta, backup >>
  <2>1. CASE AttachClaude
    <3>1. /\ NextJob("claude", "attach") /\ Done(port \notin hooks, NoWrite)
          /\ hooks' = hooks \union {port} /\ UNCHANGED << active, base, meta, backup >>
      BY <2>1 DEF AttachClaude
    <3>2. (port \notin hooks) \in BOOLEAN
      OBVIOUS
    <3> HIDE DEF port
    <3> QED
      BY <3>1, <3>2
  <2>2. CASE DetachClaude
    <3>1. /\ NextJob("claude", "detach") /\ Done(port \in hooks, NoWrite)
          /\ hooks' = hooks \ {port} /\ UNCHANGED << active, base, meta, backup >>
      BY <2>2 DEF DetachClaude
    <3>2. (port \in hooks) \in BOOLEAN
      OBVIOUS
    <3> HIDE DEF port
    <3> QED
      BY <3>1, <3>2
  <2> QED
    BY <2>1, <2>2
<1>3. cmd.write = NoWrite /\ cmd.jobs # << >>
  BY <1>2, JobFacts
<1>4. /\ cmd'.write = NoWrite /\ cmd'.jobs = Tail(cmd.jobs)
      /\ cmd'.changed \in {cmd.changed, Append(cmd.changed, Head(cmd.jobs))}
  <2>1. NoWrite \in {NoWrite} \union (Provider \X Entry)
    OBVIOUS
  <2> QED
    BY <1>2, <1>3, <2>1, DoneEffect
<1>5. /\ cmd.jobs \in Seq(Job) /\ cmd.changed \in Seq(Job) /\ Head(cmd.jobs) \in Job
      /\ HarnessesOf(cmd.jobs) = {"claude"} \union HarnessesOf(Tail(cmd.jobs))
      /\ cmd.pc = "sync" => do = "attach" /\ port = cmd.setting.port /\ Syncs /\ ~Drops
      /\ cmd.pc = "undo" => ("claude" \notin record.enabled <=> do = "detach") /\ ~Syncs /\ ~Drops
      /\ cmd.pc = "drop" => do = "detach" /\ "claude" \in Removed /\ ~Syncs /\ Drops
  BY <1>2, NextJobFacts
<1> HIDE DEF port
<1>6. HarnessesOf(cmd.changed) \subseteq HarnessesOf(cmd'.changed)
  BY <1>4, <1>5, HarnessesDone
<1>7. /\ Targets' = Targets /\ Removed' = Removed /\ Syncs' = Syncs /\ Drops' = Drops
  BY <1>1, SameCommand
<1>8. /\ (BaseRecorded' <=> BaseRecorded) /\ (BaseChanged' <=> BaseChanged)
      /\ (ExposedRecorded' <=> ExposedRecorded) /\ Exposed' = Exposed
      /\ (Attached("opencode")' <=> Attached("opencode"))
  BY <1>1, <1>2, <1>3, <1>4 DEF BaseRecorded, ExposedRecorded, BaseChanged, Exposed, Routed,
     Told, Pending, Attached
<1>9. "opencode" \in HarnessesOf(cmd'.jobs) <=> "opencode" \in HarnessesOf(cmd.jobs)
  BY <1>4, <1>5
<1>10. (Drops' /\ "claude" \in Removed') \/ HooksRecorded'
  <2>1. CASE do = "attach"
    <3>1. HooksRecorded
      BY <1>1, <1>5, <2>1 DEF FilesInv
    <3> QED
      BY <1>1, <1>2, <2>1, <3>1 DEF HooksRecorded
  <2>2. CASE do = "detach"
    <3>1. CASE cmd.pc = "undo"
      BY <1>1, <1>5, <2>2, <3>1 DEF HooksRecorded
    <3>2. CASE cmd.pc = "drop"
      BY <1>5, <1>7, <3>2
    <3> QED
      BY <1>1, <1>5, <2>2, <3>1, <3>2
  <2> QED
    BY <1>2, <2>1, <2>2
<1>11. IF Drops' /\ "opencode" \in Removed'
       THEN /\ ExposedRecorded'
            /\ ("opencode" \in HarnessesOf(cmd'.jobs) /\ cmd'.write = NoWrite) \/ Exposed' = {}
       ELSE \/ BaseRecorded'
            \/ Syncs' /\ "opencode" \in HarnessesOf(cmd'.changed) /\ BaseChanged'
            \/ /\ cmd'.pc = "undo" /\ cmd'.write = NoWrite
               /\ "opencode" \in HarnessesOf(cmd'.jobs) /\ BaseChanged'
  BY <1>1, <1>4, <1>6, <1>7, <1>8, <1>9 DEF FilesInv
<1>12. ASSUME Syncs', NEW h \in Targets'
       PROVE  \/ Attached(h)'
              \/ /\ cmd'.pc = "sync" /\ h \in HarnessesOf(cmd'.jobs)
                 /\ h = "opencode" => cmd'.write = NoWrite
  <2>1. cmd.pc = "sync" /\ h \in Targets /\ Syncs
    BY <1>1, <1>5, <1>7, <1>12
  <2>2. CASE h = "claude"
    BY <1>1, <1>2, <1>5, <2>1, <2>2 DEF Attached
  <2>3. CASE h = "opencode"
    BY <1>1, <1>4, <1>8, <1>9, <2>1, <2>3 DEF FilesInv
  <2> QED
    BY <2>1, <2>2, <2>3, TargetsType DEF Harness
<1> QED
  BY <1>10, <1>11, <1>12 DEF FilesInv

\* The providers routed, when the URL of the one selected is changed.
LEMMA ExposedChange ==
  ASSUME TypeOK, NEW url, base' = [base EXCEPT ![active] = url], left' = left
  PROVE  /\ base'[active] = url /\ active \in Provider
         /\ \A p \in Provider : p # active => base'[p] = base[p]
         /\ Exposed' \subseteq Exposed \union {active}
         /\ url \notin Port => Exposed' = Exposed \ {active}
<1>1. /\ active \in Provider
      /\ \A p \in Provider : base'[p] = IF p = active THEN url ELSE base[p]
  BY DEF TypeOK
<1>2. Exposed' = {p \in Provider : base'[p] \in Port /\ p \notin left}
  BY DEF Exposed, Routed
<1>3. Exposed = {p \in Provider : base[p] \in Port /\ p \notin left}
  BY DEF Exposed, Routed
<1> QED
  BY <1>1, <1>2, <1>3

\* At most the provider selected is exposed, whatever the command does.
LEMMA ExposedSelected ==
  ASSUME FilesInv
  PROVE  Exposed \subseteq {active}
BY DEF FilesInv, BaseRecorded, ExposedRecorded, BaseChanged

LEMMA FilesAttach ==
  ASSUME TypeOK, CommandInv, FilesInv, AttachOpenCode, FileStep
  PROVE  FilesInv'
<1> DEFINE port == Head(cmd.jobs).port
           known == Original(active).url # Unset
           changed == known /\ base[active] # port
<1>1. /\ cmd'.pc = cmd.pc /\ cmd'.op = cmd.op /\ cmd'.harness = cmd.harness
      /\ cmd'.setting = cmd.setting /\ cmd.pc \in {"sync", "undo", "drop"}
      /\ UNCHANGED << record, stray, left >>
  BY FileStepFacts
<1>2. NextJob("opencode", "attach") /\ cmd.write = NoWrite /\ cmd.jobs # << >>
  BY JobFacts DEF AttachOpenCode
<1>3. /\ known \/ cmd.pc = "undo"
      /\ base' = IF known THEN [base EXCEPT ![active] = port] ELSE base
      /\ cmd'.write = IF known THEN << active, Original(active) >> ELSE NoWrite
      /\ cmd'.jobs = IF known THEN cmd.jobs ELSE Tail(cmd.jobs)
      /\ cmd'.changed = IF changed /\ cmd.pc = "sync"
                        THEN Append(cmd.changed, Head(cmd.jobs)) ELSE cmd.changed
      /\ UNCHANGED << hooks, outdated, active, meta >>
  BY <1>2, AttachOpenCodeEffect, DoneEffect DEF NoWrite
<1>4. /\ cmd.jobs \in Seq(Job) /\ cmd.changed \in Seq(Job) /\ Head(cmd.jobs) \in Job
      /\ "opencode" \in HarnessesOf(cmd.jobs) /\ ~Drops
      /\ cmd.pc = "sync" => port = cmd.setting.port /\ Syncs
      /\ cmd.pc = "undo" =>
           "opencode" \in record.enabled /\ port = record.setting.port /\ ~Syncs
      /\ cmd.pc \in {"sync", "undo"}
  BY <1>1, <1>2, NextJobFacts
<1>5. /\ active \in Provider
      /\ known => Original(active) # NoEntry
      /\ ~known => meta[active] = NoEntry
  <2>1. active \in Provider /\ meta[active] \in Entry /\ Unset \notin Upstream
    BY PortsAreApart DEF TypeOK
  <2>2. meta[active] # NoEntry => known
    BY <2>1 DEF Original, Entry
  <2> QED
    BY <2>1, <2>2, OriginalType
<1> HIDE DEF port, known
<1>6. /\ Targets' = Targets /\ Removed' = Removed /\ Syncs' = Syncs /\ Drops' = Drops
  BY <1>1, SameCommand
<1>7. HooksRecorded'
  BY <1>1, <1>3, <1>4 DEF FilesInv, HooksRecorded
<1>8. Told(active) = meta[active]
  BY <1>2, ToldByFile
<1>9. CASE ~known
  <2>1. cmd.pc = "undo" /\ ~BaseChanged
    BY <1>3, <1>5, <1>8, <1>9 DEF BaseChanged
  <2>2. BaseRecorded
    BY <1>4, <2>1 DEF FilesInv
  <2>3. BaseRecorded'
    BY <1>1, <1>3, <1>9, <2>2 DEF BaseRecorded, ExposedRecorded, Exposed, Routed
  <2> QED
    BY <1>4, <1>6, <1>7, <2>1, <2>3 DEF FilesInv
<1>10. CASE known
  <2>1. /\ base'[active] = port /\ \A p \in Provider : p # active => base'[p] = base[p]
        /\ Exposed' \subseteq {active}
    BY <1>1, <1>3, <1>10, ExposedChange, ExposedSelected
  <2>2. Told(active)' = Original(active)
    BY <1>3, <1>10 DEF Told, Pending, NoWrite
  <2>3. CASE cmd.pc = "undo"
    <3>1. BaseRecorded'
      BY <1>1, <1>3, <1>4, <2>1, <2>3 DEF BaseRecorded, ExposedRecorded
    <3> QED
      BY <1>4, <1>6, <1>7, <2>3, <3>1 DEF FilesInv
  <2>4. CASE cmd.pc = "sync"
    <3>1. BaseChanged'
      BY <1>1, <1>3, <1>4, <1>5, <1>10, <2>1, <2>2, <2>4 DEF BaseChanged
    <3>2. BaseRecorded' \/ "opencode" \in HarnessesOf(cmd'.changed)
      <4>1. CASE changed
        <5>1. Head(cmd.jobs).harness = "opencode"
          BY <1>2, JobFacts
        <5> QED
          BY <1>3, <1>4, <2>4, <4>1, <5>1, HarnessesDone
      <4>2. CASE ~changed
        <5>1. base' = base /\ cmd'.changed = cmd.changed
          BY <1>3, <1>10, <2>1, <4>2 DEF TypeOK
        <5>2. BaseRecorded \/ "opencode" \in HarnessesOf(cmd.changed)
          BY <1>4, <2>4 DEF FilesInv
        <5>3. BaseRecorded => BaseRecorded'
          BY <1>1, <1>3, <5>1 DEF BaseRecorded, ExposedRecorded, Exposed, Routed
        <5> QED
          BY <5>1, <5>2, <5>3
      <4> QED
        BY <4>1, <4>2
    <3>3. Attached("opencode")'
      BY <1>1, <1>3, <1>4, <2>1, <2>4 DEF Attached
    <3>4. ASSUME NEW h \in Targets'
          PROVE  \/ Attached(h)'
                 \/ cmd'.pc = "sync" /\ h \in HarnessesOf(cmd'.jobs) /\ h # "opencode"
      <4>1. CASE h = "opencode"
        BY <3>3, <4>1
      <4>2. CASE h = "claude"
        <5>1. Attached(h)' <=> Attached(h)
          BY <1>1, <1>3, <4>2 DEF Attached
        <5> QED
          BY <1>1, <1>3, <1>4, <1>6, <1>10, <2>4, <3>4, <4>2, <5>1 DEF FilesInv
      <4> QED
        BY <1>6, <3>4, <4>1, <4>2, TargetsType DEF Harness
    <3> QED
      BY <1>4, <1>6, <1>7, <2>4, <3>1, <3>2, <3>4 DEF FilesInv
  <2> QED
    BY <1>4, <2>3, <2>4
<1> QED
  BY <1>9, <1>10

LEMMA FilesDetach ==
  ASSUME TypeOK, CommandInv, FilesInv, DetachOpenCode, FileStep
  PROVE  FilesInv'
<1> DEFINE port == Head(cmd.jobs).port
           changed == base[active] = port
           given == Restored(meta[active])
<1>1. /\ cmd'.pc = cmd.pc /\ cmd'.op = cmd.op /\ cmd'.harness = cmd.harness
      /\ cmd'.setting = cmd.setting /\ cmd.pc \in {"sync", "undo", "drop"}
      /\ UNCHANGED << record, stray, left >>
  BY FileStepFacts
<1>2. NextJob("opencode", "detach") /\ cmd.write = NoWrite /\ cmd.jobs # << >> /\ port \in Port
  BY JobFacts DEF DetachOpenCode
<1>3. /\ base' = IF changed THEN [base EXCEPT ![active] = given] ELSE base
      /\ given \in Upstream \union {Unset}
      /\ cmd'.write = IF changed THEN << active, NoEntry >> ELSE NoWrite
      /\ cmd'.jobs = IF changed THEN cmd.jobs ELSE Tail(cmd.jobs)
      /\ UNCHANGED << hooks, outdated, active, meta >>
  BY <1>2, DetachOpenCodeEffect, DoneEffect DEF NoWrite
<1>4. /\ "opencode" \in HarnessesOf(cmd.jobs) /\ ~Syncs
      /\ cmd.pc = "undo" =>
           "opencode" \notin record.enabled /\ port = cmd.setting.port /\ ~Drops
      /\ cmd.pc = "drop" =>
           port = record.setting.port /\ "opencode" \in Removed /\ Drops
      /\ cmd.pc \in {"undo", "drop"}
  BY <1>1, <1>2, NextJobFacts
<1> HIDE DEF port, given
<1>5. /\ Targets' = Targets /\ Removed' = Removed /\ ~Syncs' /\ (Drops' <=> Drops)
  BY <1>1, <1>4, SameCommand
<1>6. HooksRecorded' <=> HooksRecorded
  BY <1>1, <1>3 DEF HooksRecorded
<1>7. Exposed' = {}
  <2>1. CASE changed
    BY <1>1, <1>3, <2>1, ExposedChange, ExposedSelected, PortsAreApart
  <2>2. CASE ~changed
    <3>1. Exposed' = Exposed
      BY <1>1, <1>3, <2>2 DEF Exposed, Routed
    <3>2. CASE cmd.pc = "undo"
      <4>1. BaseRecorded
        BY <1>4, <2>2, <3>2 DEF FilesInv, BaseChanged
      <4> QED
        BY <1>4, <3>1, <3>2, <4>1 DEF BaseRecorded, ExposedRecorded
    <3>3. CASE cmd.pc = "drop"
      <4>1. ExposedRecorded
        BY <1>4, <3>3 DEF FilesInv
      <4> QED
        BY <1>4, <2>2, <3>1, <3>3, <4>1 DEF ExposedRecorded
    <3> QED
      BY <1>4, <3>2, <3>3
  <2> QED
    BY <2>1, <2>2
<1>8. ExposedRecorded'
  BY <1>7 DEF ExposedRecorded
<1>9. CASE cmd.pc = "undo"
  <2>1. BaseRecorded'
    BY <1>1, <1>4, <1>8, <1>9 DEF BaseRecorded
  <2> QED
    BY <1>4, <1>5, <1>6, <1>9, <2>1 DEF FilesInv
<1>10. CASE cmd.pc = "drop"
  BY <1>4, <1>5, <1>6, <1>7, <1>8, <1>10 DEF FilesInv
<1> QED
  BY <1>4, <1>9, <1>10

LEMMA FilesWrite ==
  ASSUME TypeOK, CommandInv, FilesInv, WriteMetadata, FileStep
  PROVE  FilesInv'
<1>1. /\ cmd.write \in Provider \X Entry /\ cmd.write[1] = active /\ active \in Provider
      /\ meta' = [meta EXCEPT ![active] = cmd.write[2]]
      /\ cmd.jobs # << >> /\ Head(cmd.jobs).harness = "opencode"
      /\ cmd'.write = NoWrite /\ cmd'.jobs = Tail(cmd.jobs) /\ cmd'.changed = cmd.changed
      /\ UNCHANGED << hooks, active, base >>
  BY WriteMetadataEffect DEF TypeOK
<1>2. /\ cmd'.pc = cmd.pc /\ cmd'.op = cmd.op /\ cmd'.harness = cmd.harness
      /\ cmd'.setting = cmd.setting /\ cmd.pc \in {"sync", "undo", "drop"}
      /\ UNCHANGED << record, stray, left >>
  BY FileStepFacts
<1>3. cmd.write # NoWrite
  BY DEF WriteMetadata
<1>4. HarnessesOf(cmd.jobs) = {"opencode"} \union HarnessesOf(cmd'.jobs)
  <2>1. cmd.jobs \in Seq(Job)
    BY DEF TypeOK, Command
  <2> QED
    BY <1>1, <2>1, HarnessesLeft
<1>5. /\ Targets' = Targets /\ Removed' = Removed /\ Syncs' = Syncs /\ Drops' = Drops
  BY <1>2, SameCommand
<1>6. Told(active)' = Told(active)
  <2>1. Told(active)' = meta'[active] /\ meta'[active] = cmd.write[2]
    BY <1>1 DEF Told, Pending, TypeOK
  <2> QED
    BY <1>1, <1>3, <2>1, ToldByWrite
<1>7. /\ (HooksRecorded' <=> HooksRecorded) /\ (BaseRecorded' <=> BaseRecorded)
      /\ (BaseChanged' <=> BaseChanged) /\ (ExposedRecorded' <=> ExposedRecorded)
      /\ Exposed' = Exposed
  BY <1>1, <1>2, <1>6 DEF HooksRecorded, BaseRecorded, BaseChanged, ExposedRecorded, Exposed, Routed
<1>8. \A h : Attached(h)' <=> Attached(h)
  BY <1>1, <1>2 DEF Attached
<1>9. Drops /\ "opencode" \in Removed => Exposed = {}
  BY <1>3 DEF FilesInv
<1>10. ASSUME Syncs', NEW h \in Targets'
       PROVE  \/ Attached(h)'
              \/ cmd'.pc = "sync" /\ h \in HarnessesOf(cmd'.jobs)
  BY <1>2, <1>3, <1>4, <1>5, <1>8, <1>10 DEF FilesInv
<1> QED
  BY <1>1, <1>2, <1>3, <1>4, <1>5, <1>7, <1>9, <1>10 DEF FilesInv

\* What enable and start save is what they attached.
LEMMA FilesSaveChanges ==
  ASSUME TypeOK, CommandInv, FilesInv, Save, Changes
  PROVE  FilesInv'
<1>1. /\ cmd.pc = "save" /\ record' = NextRecord /\ stray' = (stray /\ cmd.op # "start")
      /\ cmd' = Idle \/ cmd.op \in {"disable", "disable_all"}
      /\ UNCHANGED << hooks, base, active, left >>
  BY DEF Save, files
<1>2. /\ record'.setting = cmd.setting
      /\ record'.enabled = Targets \union record.enabled
      /\ cmd' = Idle /\ cmd.op \in {"enable", "start"}
  BY <1>1, NextRecordType DEF Changes, Targets
<1>3. Syncs /\ ~Drops /\ ~Syncs' /\ ~Drops'
  BY <1>1, <1>2, IdleEffect DEF Syncs, Drops, Changes
<1>4. \A h \in Targets : Attached(h)
  BY <1>1, <1>3 DEF FilesInv
<1>5. \A h \in record.enabled \ Targets :
        record.setting.port = cmd.setting.port /\ (stray' => stray) /\ (stray => stray')
  BY <1>1, <1>2 DEF Targets, TypeOK
<1>6. HooksRecorded'
  <2>1. CASE "claude" \in Targets
    <3>1. cmd.setting.port \in hooks
      BY <1>4, <2>1 DEF Attached
    <3> QED
      BY <1>1, <1>2, <3>1 DEF HooksRecorded
  <2>2. CASE "claude" \in record.enabled \ Targets
    <3>1. HooksRecorded
      BY <1>3 DEF FilesInv
    <3> QED
      BY <1>1, <1>2, <1>5, <2>2, <3>1 DEF HooksRecorded
  <2>3. CASE "claude" \notin record.enabled \union Targets
    BY <1>2, <2>3 DEF HooksRecorded
  <2> QED
    BY <2>1, <2>2, <2>3
<1>7. Exposed' = Exposed
  BY <1>1 DEF Exposed, Routed
<1>8. CASE "opencode" \in Targets
  <2>1. base[active] = cmd.setting.port /\ Exposed \subseteq {active}
    BY <1>4, <1>8, ExposedSelected DEF Attached
  <2>2. BaseRecorded'
    BY <1>1, <1>2, <1>7, <1>8, <2>1 DEF BaseRecorded, ExposedRecorded
  <2> QED
    BY <1>3, <1>6, <2>2 DEF FilesInv
<1>9. CASE "opencode" \notin Targets
  <2>1. "opencode" \notin HarnessesOf(cmd.changed)
    BY <1>9 DEF CommandInv, HarnessesOf
  <2>2. BaseRecorded
    BY <1>1, <1>3, <2>1 DEF FilesInv
  <2>3. CASE "opencode" \in record.enabled
    <3>1. record.setting.port = cmd.setting.port /\ (stray => stray')
      BY <1>5, <1>9, <2>3
    <3>2. BaseRecorded'
      BY <1>1, <1>2, <1>7, <2>2, <2>3, <3>1 DEF BaseRecorded, ExposedRecorded
    <3> QED
      BY <1>3, <1>6, <3>2 DEF FilesInv
  <2>4. CASE "opencode" \notin record.enabled
    <3>1. Exposed = {} /\ "opencode" \notin record'.enabled
      BY <1>2, <1>9, <2>2, <2>4 DEF BaseRecorded, ExposedRecorded
    <3>2. BaseRecorded'
      BY <1>7, <3>1 DEF BaseRecorded, ExposedRecorded
    <3> QED
      BY <1>3, <1>6, <3>2 DEF FilesInv
  <2> QED
    BY <2>3, <2>4
<1> QED
  BY <1>8, <1>9

\* What disable and disable_all save is what they detached.
LEMMA FilesSaveDrops ==
  ASSUME TypeOK, CommandInv, FilesInv, Save, Drops
  PROVE  FilesInv'
<1>1. /\ cmd.pc = "save" /\ record' = NextRecord /\ stray' = (stray /\ cmd.op # "start")
      /\ cmd' = Idle \/ Goto("stop")
      /\ UNCHANGED << hooks, base, active, left >>
      /\ cmd.op \in {"disable", "disable_all"}
  BY DEF Save, files, Drops
<1>2. /\ record'.setting = record.setting
      /\ record'.enabled = record.enabled \ Removed
      /\ stray => stray'
  <2>1. stray => stray'
    BY <1>1
  <2>2. record'.setting = record.setting /\ record'.enabled = record.enabled \ Removed
    BY <1>1, NextRecordType DEF Changes, Removed
  <2> QED
    BY <2>1, <2>2
<1>3. ~Syncs' /\ ~Drops'
  BY <1>1, IdleEffect, GotoEffect DEF Syncs, Drops, Changes
<1>4. HooksRecorded'
  BY <1>1, <1>2 DEF FilesInv, HooksRecorded
<1>5. cmd.jobs = << >> /\ Exposed' = Exposed
  BY <1>1 DEF CommandInv, Exposed, Routed
<1>6. CASE "opencode" \in Removed
  <2>1. Exposed' = {}
    BY <1>5, <1>6, HarnessesEmpty DEF FilesInv
  <2>2. BaseRecorded'
    BY <1>2, <1>6, <2>1 DEF BaseRecorded, ExposedRecorded
  <2> QED
    BY <1>3, <1>4, <2>2 DEF FilesInv
<1>7. CASE "opencode" \notin Removed
  <2>1. ~Syncs
    BY <1>1 DEF Syncs, Changes
  <2>2. BaseRecorded
    BY <1>1, <1>7, <2>1 DEF FilesInv
  <2>3. BaseRecorded'
    BY <1>1, <1>2, <1>5, <1>7, <2>2 DEF BaseRecorded, ExposedRecorded
  <2> QED
    BY <1>3, <1>4, <2>3 DEF FilesInv
<1> QED
  BY <1>6, <1>7

\* A failed command plans to undo what it changed.
LEMMA FilesFail ==
  ASSUME TypeOK, CommandInv, FilesInv, Fail, Syncs, cmd.write = NoWrite,
         UNCHANGED << record, hooks, base, active, meta, left, stray >>
  PROVE  FilesInv'
<1>1. /\ cmd'.pc = "undo" /\ cmd'.op = cmd.op /\ cmd'.harness = cmd.harness
      /\ cmd'.setting = cmd.setting /\ cmd'.write = NoWrite
      /\ HarnessesOf(cmd'.jobs) = HarnessesOf(cmd.changed)
  BY FailEffect, HarnessesUndone
<1>2. ~Drops /\ ~Syncs' /\ ~Drops'
  BY <1>1 DEF Syncs, Drops, Changes
<1>3. /\ (HooksRecorded' <=> HooksRecorded) /\ (BaseRecorded' <=> BaseRecorded)
      /\ (BaseChanged' <=> BaseChanged)
  BY <1>1 DEF HooksRecorded, BaseRecorded, ExposedRecorded, BaseChanged, Exposed, Routed,
         Told, Pending
<1> QED
  BY <1>1, <1>2, <1>3 DEF FilesInv, Syncs

LEMMA FilesProcessStep ==
  ASSUME TypeOK, CommandInv, FilesInv, Refused \/ JobsDone \/ Save \/ ProcessStep
  PROVE  FilesInv'
<1>1. CASE Save
  <2>1. Changes \/ Drops
    BY <1>1 DEF Save, CommandInv
  <2> QED
    BY <1>1, <2>1, FilesSaveChanges, FilesSaveDrops
<1>2. ASSUME Refused \/ JobsDone \/ ProcessStep
      PROVE  UNCHANGED << record, hooks, base, active, meta, left, stray >>
  BY <1>2 DEF Refused, JobsDone, ProcessStep, Look, StopProcess, ClearPid, Spawn,
              PollHealthy, PollEnds, Report, GiveUp, files, user
<1>3. ASSUME Refused \/ JobsDone \/ ProcessStep, NEW pc,
             pc \in {"look", "save", "stop", "clear", "spawn", "poll", "report", "giveup"},
             cmd'.pc = pc, cmd'.op = cmd.op, cmd'.harness = cmd.harness,
             cmd'.setting = cmd.setting, cmd'.changed = cmd.changed,
             cmd'.write = cmd.write, cmd'.jobs = cmd.jobs, cmd.jobs = << >>,
             cmd.pc # "undo",
             (cmd.pc = "drop" /\ pc = "save") \/ Changes \/ (cmd.pc = "stop" /\ pc = "clear")
      PROVE  FilesInv'
  <2>1. Drops' <=> Drops
    BY <1>3 DEF Drops, Changes
  <2> QED
    BY <1>2, <1>3, <2>1, FilesFrame
<1>4. ASSUME JobsDone \/ ProcessStep, cmd' = Idle, ~Drops, ~Syncs, cmd.jobs = << >>
      PROVE  FilesInv'
  <2>1. HooksRecorded /\ BaseRecorded
    BY <1>4, FilesRecorded
  <2>2. HooksRecorded' /\ BaseRecorded'
    BY <1>2, <1>4, <2>1 DEF HooksRecorded, BaseRecorded, ExposedRecorded, Exposed, Routed
  <2>3. ~Drops' /\ ~Syncs'
    BY <1>4, IdleEffect DEF Drops, Syncs, Changes
  <2> QED
    BY <2>2, <2>3 DEF FilesInv
<1>5. CASE Refused
  <2>1. Fail /\ cmd.write = NoWrite /\ Syncs
    BY <1>5 DEF Refused, CommandInv, Syncs
  <2> QED
    BY <1>2, <1>5, <2>1, FilesFail
<1>6. CASE JobsDone
  <2>1. cmd.jobs = << >> /\ cmd.pc \in {"sync", "undo", "drop"}
    BY <1>6 DEF JobsDone
  <2>2. CASE cmd.pc = "sync"
    <3>1. Goto("look") /\ Changes
      BY <1>6, <2>2 DEF JobsDone, CommandInv
    <3> QED
      BY <1>3, <1>6, <2>1, <2>2, <3>1, GotoEffect
  <2>3. CASE cmd.pc = "undo"
    <3>1. cmd' = Idle /\ ~Drops /\ ~Syncs
      BY <1>6, <2>3 DEF JobsDone, Drops, Syncs
    <3> QED
      BY <1>4, <1>6, <2>1, <3>1
  <2>4. CASE cmd.pc = "drop"
    <3>1. Goto("save")
      BY <1>6, <2>4 DEF JobsDone
    <3> QED
      BY <1>3, <1>6, <2>1, <2>4, <3>1, GotoEffect
  <2> QED
    BY <2>1, <2>2, <2>3, <2>4
<1>7. CASE Look
  <2>1. cmd.jobs = << >> /\ Changes /\ cmd.pc # "undo"
    BY <1>7 DEF Look, CommandInv
  <2>2. Goto("save") \/ Goto("stop") \/ Goto("spawn")
    BY <1>7 DEF Look
  <2> QED
    BY <1>3, <1>7, <2>1, <2>2, GotoEffect DEF ProcessStep
<1>8. CASE StopProcess
  <2>1. cmd.jobs = << >> /\ cmd.pc = "stop" /\ Goto("clear")
    BY <1>8 DEF StopProcess, CommandInv
  <2> QED
    BY <1>3, <1>8, <2>1, GotoEffect DEF ProcessStep
<1>9. CASE ClearPid
  <2>1. cmd.pc = "clear" /\ cmd.jobs = << >>
    BY <1>9, ClearPidEffect
  <2>2. CASE Changes /\ Goto("spawn")
    BY <1>3, <1>9, <2>1, <2>2, GotoEffect DEF ProcessStep
  <2>3. CASE ~Changes /\ cmd' = Idle
    <3>1. ~Drops /\ ~Syncs
      BY <2>1, <2>3 DEF Drops, Syncs
    <3> QED
      BY <1>4, <1>9, <2>1, <2>3, <3>1 DEF ProcessStep
  <2>4. CASE ~Changes /\ cmd' # Idle
    <3>1. /\ cmd'.pc = "sync" /\ cmd'.op = "start" /\ cmd'.setting = cmd.setting
          /\ cmd'.write = NoWrite
          /\ ToSet(cmd'.jobs) =
               {[do |-> "attach", harness |-> h, port |-> cmd.setting.port] :
                  h \in record.enabled}
      BY <1>9, <2>4, ClearPidEffect
    <3>2. HooksRecorded /\ BaseRecorded
      BY <2>1, <2>4, FilesRecorded DEF Drops, Syncs
    <3>3. /\ record' = record /\ Targets' = record.enabled
          /\ HooksRecorded' /\ BaseRecorded'
      BY <1>2, <1>9, <3>1, <3>2
         DEF ProcessStep, Targets, HooksRecorded, BaseRecorded, ExposedRecorded, Exposed, Routed
    <3>4. HarnessesOf(cmd'.jobs) = record.enabled
      <4>1. \A h \in record.enabled : \E job \in ToSet(cmd'.jobs) : job.harness = h
        <5>1. \A h \in record.enabled :
                /\ [do |-> "attach", harness |-> h, port |-> cmd.setting.port] \in ToSet(cmd'.jobs)
                /\ [do |-> "attach", harness |-> h, port |-> cmd.setting.port].harness = h
          BY <3>1
        <5> QED
          BY <5>1
      <4>2. \A job \in ToSet(cmd'.jobs) : job.harness \in record.enabled
        BY <3>1
      <4> QED
        BY <4>1, <4>2, HarnessesNamed
    <3>5. ~Drops'
      BY <3>1 DEF Drops
    <3> QED
      BY <3>1, <3>3, <3>4, <3>5 DEF FilesInv
  <2> QED
    BY <1>9, <2>2, <2>3, <2>4, ClearPidEffect
<1>10. CASE Spawn
  <2>1. PICK q \in Pid : cmd' = [cmd EXCEPT !.child = q, !.pc = "poll"]
    BY <1>10 DEF Spawn
  <2>2. cmd.jobs = << >> /\ Changes /\ cmd.pc # "undo"
    BY <1>10 DEF Spawn, CommandInv
  <2>3. /\ cmd'.pc = "poll" /\ cmd'.op = cmd.op /\ cmd'.harness = cmd.harness
        /\ cmd'.setting = cmd.setting /\ cmd'.changed = cmd.changed
        /\ cmd'.write = cmd.write /\ cmd'.jobs = cmd.jobs
    BY <2>1 DEF TypeOK, Command
  <2> QED
    BY <1>3, <1>10, <2>2, <2>3 DEF ProcessStep
<1>11. CASE PollHealthy \/ PollEnds \/ Report
  <2>1. cmd.jobs = << >> /\ Changes /\ cmd.pc # "undo"
    BY <1>11 DEF PollHealthy, PollEnds, Report, CommandInv
  <2>2. Goto("report") \/ Goto("giveup") \/ Goto("save")
    BY <1>11 DEF PollHealthy, PollEnds, Report
  <2> QED
    BY <1>3, <1>11, <2>1, <2>2, GotoEffect DEF ProcessStep
<1>12. CASE GiveUp
  <2>1. Fail /\ cmd.pc = "giveup"
    BY <1>12 DEF GiveUp
  <2>2. cmd.write = NoWrite /\ Syncs
    BY <2>1 DEF CommandInv, Syncs
  <2> QED
    BY <1>2, <1>12, <2>1, <2>2, FilesFail DEF ProcessStep
<1> QED
  BY <1>1, <1>5, <1>6, <1>7, <1>8, <1>9, <1>10, <1>11, <1>12 DEF ProcessStep

\* A command begins from files that agree with controller.json.
LEMMA FilesRun ==
  ASSUME TypeOK, CommandInv, FilesInv,
         \/ \E h \in Harness, s \in Setting : Enable(h, s)
         \/ \E s \in Setting : Start(s) \/ Restart(s)
         \/ \E h \in Harness : Disable(h)
         \/ DisableAll \/ Stop
  PROVE  FilesInv'
<1>1. /\ cmd = Idle /\ cmd'.pc \in {"sync", "drop", "stop"} /\ cmd'.write = NoWrite
      /\ record' = record /\ UNCHANGED << hooks, base, active, left, stray >>
      /\ cmd'.pc = "sync" => /\ cmd'.op \in {"enable", "start"}
                             /\ ToSet(cmd'.jobs) =
                                  {[do |-> "attach", harness |-> h, port |-> cmd'.setting.port] :
                                     h \in Targets'}
      /\ cmd'.pc = "drop" => /\ cmd'.op \in {"disable", "disable_all"}
                             /\ cmd'.op = "disable" => cmd'.harness \in record.enabled
                             /\ ToSet(cmd'.jobs) =
                                  {[do |-> "detach", harness |-> h, port |-> record.setting.port] :
                                     h \in Removed'}
      /\ cmd'.pc = "stop" => cmd'.op \in {"stop", "restart"}
  BY RunCases DEF files, user
<1>2. HooksRecorded /\ BaseRecorded
  BY <1>1, IdleEffect, FilesRecorded DEF Drops, Syncs, Changes
<1>3. HooksRecorded' /\ BaseRecorded'
  BY <1>1, <1>2 DEF HooksRecorded, BaseRecorded, ExposedRecorded, Exposed, Routed
<1>4. CASE cmd'.pc = "sync"
  <2>1. HarnessesOf(cmd'.jobs) = Targets'
    <3>1. \A h \in Targets' : \E job \in ToSet(cmd'.jobs) : job.harness = h
      <4>1. \A h \in Targets' :
              /\ [do |-> "attach", harness |-> h, port |-> cmd'.setting.port] \in ToSet(cmd'.jobs)
              /\ [do |-> "attach", harness |-> h, port |-> cmd'.setting.port].harness = h
        BY <1>1, <1>4
      <4> QED
        BY <4>1
    <3>2. \A job \in ToSet(cmd'.jobs) : job.harness \in Targets'
      BY <1>1, <1>4
    <3> QED
      BY <3>1, <3>2, HarnessesNamed
  <2>2. ~Drops'
    BY <1>4 DEF Drops
  <2> QED
    BY <1>1, <1>3, <1>4, <2>1, <2>2 DEF FilesInv
<1>5. CASE cmd'.pc = "drop"
  <2>1. HarnessesOf(cmd'.jobs) = Removed'
    <3>1. \A h \in Removed' : \E job \in ToSet(cmd'.jobs) : job.harness = h
      <4>1. \A h \in Removed' :
              /\ [do |-> "detach", harness |-> h, port |-> record.setting.port] \in ToSet(cmd'.jobs)
              /\ [do |-> "detach", harness |-> h, port |-> record.setting.port].harness = h
        BY <1>1, <1>5
      <4> QED
        BY <4>1
    <3>2. \A job \in ToSet(cmd'.jobs) : job.harness \in Removed'
      BY <1>1, <1>5
    <3> QED
      BY <3>1, <3>2, HarnessesNamed
  <2>2. ~Syncs'
    BY <1>1, <1>5 DEF Syncs, Changes
  <2> QED
    BY <1>1, <1>3, <2>1, <2>2 DEF FilesInv, BaseRecorded
<1>6. CASE cmd'.pc = "stop"
  BY <1>1, <1>3, <1>6 DEF FilesInv, Drops, Syncs, Changes
<1> QED
  BY <1>1, <1>4, <1>5, <1>6

LEMMA FilesStep ==
  ASSUME TypeOK, CommandInv, FilesInv, [Next]_vars
  PROVE  FilesInv'
<1>1. CASE FileStep
  BY <1>1, FilesClaude, FilesAttach, FilesDetach, FilesWrite DEF FileStep
<1>2. CASE \/ \E q \in Pid : Bind(q) \/ Exit(q)
           \/ UNCHANGED vars
  <2>1. UNCHANGED << record, hooks, base, active, meta, left, stray, cmd >>
    BY <1>2 DEF Bind, Exit, vars, files, user
  <2> QED
    BY <2>1 DEF FilesInv, Drops, Syncs, Changes, Targets, Removed, HooksRecorded, BaseRecorded,
       ExposedRecorded, BaseChanged, Exposed, Routed, Told, Pending, Attached
<1>3. CASE Kill
  <2>1. /\ stray' /\ left' = left \union Routed /\ cmd' = Idle
        /\ UNCHANGED << record, base, active >>
    BY <1>3 DEF Kill, files
  <2>2. Exposed' = {} /\ ~Drops' /\ ~Syncs'
    BY <2>1, IdleEffect DEF Exposed, Routed, Drops, Syncs, Changes
  <2> QED
    BY <2>1, <2>2 DEF FilesInv, HooksRecorded, BaseRecorded, ExposedRecorded
<1>4. ASSUME cmd = Idle, UNCHANGED << cmd, record, hooks >>, stray => stray',
             "opencode" \in record.enabled => stray', Exposed' \subseteq Exposed,
             active' = active \/ active \notin Exposed',
             \A p \in Exposed' : base'[p] = base[p]
      PROVE  FilesInv'
  <2>1. ~Drops /\ ~Syncs /\ ~Drops' /\ ~Syncs'
    BY <1>4, IdleEffect DEF Drops, Syncs, Changes
  <2>2. HooksRecorded /\ BaseRecorded
    BY <1>4, <2>1, IdleEffect, FilesRecorded
  <2>3. HooksRecorded' /\ BaseRecorded'
    BY <1>4, <2>2 DEF HooksRecorded, BaseRecorded, ExposedRecorded
  <2> QED
    BY <2>1, <2>3 DEF FilesInv
<1>5. ASSUME NEW p \in Provider, Select(p) PROVE FilesInv'
  <2>1. /\ cmd = Idle /\ UNCHANGED << cmd, record, hooks, base >>
        /\ stray' = (stray \/ "opencode" \in record.enabled)
        /\ left' = left \union ({active} \intersect Routed)
    BY <1>5 DEF Select
  <2>2. Exposed' \subseteq Exposed /\ active \notin Exposed'
    BY <2>1 DEF Exposed, Routed
  <2> QED
    BY <1>4, <2>1, <2>2
<1>6. ASSUME NEW p \in Provider, NEW url \in Upstream \union {Unset}, Edit(p, url)
      PROVE  FilesInv'
  <2>1. /\ cmd = Idle /\ UNCHANGED << cmd, record, hooks, active, left >>
        /\ stray' = (stray \/ "opencode" \in record.enabled)
        /\ base' = [base EXCEPT ![p] = url]
    BY <1>6 DEF Edit
  <2>2. \A q \in Provider : base'[q] = IF q = p THEN url ELSE base[q]
    BY <2>1 DEF TypeOK
  <2>3. \A q \in Exposed' : q \in Exposed /\ base'[q] = base[q]
    BY <2>1, <2>2, PortsAreApart DEF Exposed, Routed
  <2> QED
    BY <1>4, <2>1, <2>3
<1> QED
  BY <1>1, <1>2, <1>3, <1>5, <1>6, FilesProcessStep, FilesRun DEF Next, CommandStep

-----------------------------------------------------------------------------
(* The hooks of Claude Code that are no leftovers. *)

LEMMA FreshInit == Init => FreshInv
<1> SUFFICES ASSUME Init PROVE FreshInv
  OBVIOUS
<1>1. cmd.op = "none" /\ Fresh = {}
  BY IdleEffect DEF Init, Fresh
<1>2. ~Drops /\ ~Syncs
  BY <1>1 DEF Drops, Syncs, Changes
<1> QED
  BY <1>1, <1>2 DEF FreshInv

\* Between commands, and when a command has nothing to undo.
LEMMA FreshRecorded ==
  ASSUME FreshInv, ~Drops, ~Syncs, cmd.pc = "undo" => cmd.jobs = << >>
  PROVE  Fresh \subseteq ClaudePort
BY HarnessesEmpty DEF FreshInv

LEMMA FreshSettled ==
  ASSUME ~Drops', ~Syncs', Fresh' \subseteq ClaudePort'
  PROVE  FreshInv'
BY DEF FreshInv

\* A step of a command that does not touch the hooks.
LEMMA FreshFrame ==
  ASSUME FreshInv, UNCHANGED << record, hooks, outdated >>,
         cmd'.setting = cmd.setting, Targets' = Targets, Removed' = Removed,
         Syncs' <=> Syncs, Drops' <=> Drops,
         "claude" \in HarnessesOf(cmd.changed) => "claude" \in HarnessesOf(cmd'.changed),
         "claude" \in HarnessesOf(cmd.jobs) =>
           "claude" \in HarnessesOf(cmd'.jobs) /\ cmd'.pc = cmd.pc
  PROVE  FreshInv'
<1>1. Fresh' = Fresh /\ ClaudePort' = ClaudePort
  BY DEF Fresh, ClaudePort
<1> QED
  BY <1>1 DEF FreshInv

\* A command step after the jobs are done.
LEMMA FreshOnwards ==
  ASSUME FreshInv, UNCHANGED << record, hooks, outdated >>,
         cmd'.op = cmd.op, cmd'.harness = cmd.harness, cmd'.setting = cmd.setting,
         cmd'.changed = cmd.changed, cmd.jobs = << >>,
         cmd.pc # "undo", cmd'.pc # "undo", Drops' <=> Drops
  PROVE  FreshInv'
<1>1. Targets' = Targets /\ Removed' = Removed /\ (Syncs' <=> Syncs)
  BY DEF Targets, Removed, Syncs, Changes
<1> QED
  BY <1>1, FreshFrame, HarnessesEmpty

LEMMA FreshOpenCode ==
  ASSUME TypeOK, CommandInv, FreshInv, FileStep,
         AttachOpenCode \/ DetachOpenCode \/ WriteMetadata
  PROVE  FreshInv'
<1>1. /\ cmd'.pc = cmd.pc /\ cmd'.op = cmd.op /\ cmd'.harness = cmd.harness
      /\ cmd'.setting = cmd.setting /\ record' = record
  BY FileStepFacts
<1>2. cmd.jobs \in Seq(Job) /\ cmd.changed \in Seq(Job)
  BY DEF TypeOK, Command
<1>3. /\ cmd.jobs # << >> /\ Head(cmd.jobs).harness = "opencode"
      /\ UNCHANGED << hooks, outdated >>
      /\ cmd'.jobs \in {cmd.jobs, Tail(cmd.jobs)}
      /\ cmd'.changed \in {cmd.changed, Append(cmd.changed, Head(cmd.jobs))}
  <2>1. CASE AttachOpenCode
    <3>1. cmd.jobs # << >> /\ Head(cmd.jobs).harness = "opencode"
      BY <2>1, JobFacts DEF AttachOpenCode
    <3> QED
      BY <2>1, <3>1, AttachOpenCodeEffect, DoneEffect
  <2>2. CASE DetachOpenCode
    <3>1. cmd.jobs # << >> /\ Head(cmd.jobs).harness = "opencode"
      BY <2>2, JobFacts DEF DetachOpenCode
    <3> QED
      BY <2>2, <3>1, DetachOpenCodeEffect, DoneEffect
  <2>3. CASE WriteMetadata
    BY <2>3, WriteMetadataEffect
  <2> QED
    BY <2>1, <2>2, <2>3
<1>4. Head(cmd.jobs) \in Job
  BY <1>2, <1>3, TailElements
<1>5. /\ "claude" \in HarnessesOf(cmd.jobs) => "claude" \in HarnessesOf(cmd'.jobs)
      /\ HarnessesOf(cmd.changed) \subseteq HarnessesOf(cmd'.changed)
  <2>1. HarnessesOf(cmd.jobs) = {"opencode"} \union HarnessesOf(Tail(cmd.jobs))
    BY <1>2, <1>3, HarnessesLeft
  <2>2. HarnessesOf(Append(cmd.changed, Head(cmd.jobs))) = HarnessesOf(cmd.changed) \union {"opencode"}
    BY <1>2, <1>3, <1>4, HarnessesDone
  <2>3. "claude" \in HarnessesOf(cmd.jobs) => "claude" \in HarnessesOf(cmd'.jobs)
    BY <1>3, <2>1
  <2>4. HarnessesOf(cmd.changed) \subseteq HarnessesOf(cmd'.changed)
    BY <1>3, <2>2
  <2> QED
    BY <2>3, <2>4
<1>6. Targets' = Targets /\ Removed' = Removed /\ Syncs' = Syncs /\ Drops' = Drops
  BY <1>1, SameCommand
<1> QED
  BY <1>1, <1>3, <1>5, <1>6, FreshFrame

\* Attach makes all other hooks leftovers; detach takes the one it is for.
LEMMA FreshClaude ==
  ASSUME TypeOK, CommandInv, FreshInv, AttachClaude \/ DetachClaude, FileStep
  PROVE  FreshInv'
<1> DEFINE port == Head(cmd.jobs).port
<1>1. /\ cmd'.pc = cmd.pc /\ cmd'.op = cmd.op /\ cmd'.harness = cmd.harness
      /\ cmd'.setting = cmd.setting /\ record' = record
      /\ cmd.pc \in {"sync", "undo", "drop"}
  BY FileStepFacts
<1>2. /\ Targets' = Targets /\ Removed' = Removed /\ Syncs' = Syncs /\ Drops' = Drops
      /\ ClaudePort' = ClaudePort
  BY <1>1, SameCommand DEF ClaudePort
<1>3. NoWrite \in {NoWrite} \union (Provider \X Entry)
  OBVIOUS
<1>4. CASE AttachClaude
  <2>1. /\ NextJob("claude", "attach") /\ Done(port \notin hooks, NoWrite)
        /\ hooks' = hooks \union {port} /\ outdated' = outdated \union (hooks \ {port})
        /\ (port \notin hooks) \in BOOLEAN
    BY <1>4 DEF AttachClaude
  <2>2. /\ cmd.jobs # << >> /\ cmd.jobs \in Seq(Job) /\ cmd.changed \in Seq(Job)
        /\ Head(cmd.jobs) \in Job /\ Head(cmd.jobs).harness = "claude"
        /\ cmd.pc = "sync" => port = cmd.setting.port /\ "claude" \in Targets /\ Syncs /\ ~Drops
        /\ cmd.pc = "undo" => /\ "claude" \in record.enabled /\ port = record.setting.port
                              /\ ~Syncs /\ ~Drops
        /\ cmd.pc # "drop"
    BY <2>1, JobFacts, NextJobFacts
  <2>3. cmd'.changed = IF port \notin hooks /\ cmd.pc = "sync"
                       THEN Append(cmd.changed, Head(cmd.jobs)) ELSE cmd.changed
    BY <1>3, <2>1, <2>2, DoneEffect
  <2>4. Fresh' \subseteq {port} /\ (port \in hooks => Fresh' \subseteq Fresh)
    BY <2>1 DEF Fresh
  <2>5. CASE cmd.pc = "undo"
    <3>1. Fresh' \subseteq ClaudePort'
      BY <1>2, <2>2, <2>4, <2>5 DEF ClaudePort
    <3> QED
      BY <1>2, <2>2, <2>5, <3>1, FreshSettled
  <2>6. CASE cmd.pc = "sync"
    <3>1. Fresh' \subseteq {cmd'.setting.port} /\ Syncs' /\ ~Drops'
      BY <1>1, <1>2, <2>2, <2>4, <2>6
    <3>2. CASE port \in hooks
      <4>1. cmd'.changed = cmd.changed /\ Fresh' \subseteq Fresh
        BY <2>3, <2>4, <3>2
      <4>2. \/ Fresh \subseteq ClaudePort
            \/ "claude" \in HarnessesOf(cmd.changed)
        BY <2>2, <2>6 DEF FreshInv
      <4> QED
        BY <1>2, <3>1, <4>1, <4>2 DEF FreshInv
    <3>3. CASE port \notin hooks
      <4>1. "claude" \in HarnessesOf(cmd'.changed)
        BY <2>2, <2>3, <2>6, <3>3, HarnessesDone
      <4> QED
        BY <3>1, <4>1 DEF FreshInv
    <3> QED
      BY <3>2, <3>3
  <2> QED
    BY <1>1, <2>2, <2>5, <2>6
<1>5. CASE DetachClaude
  <2>1. /\ NextJob("claude", "detach")
        /\ hooks' = hooks \ {port} /\ outdated' = outdated \ {port}
    BY <1>5 DEF DetachClaude
  <2>2. /\ cmd.pc # "sync"
        /\ cmd.pc = "undo" => /\ "claude" \notin record.enabled /\ port = cmd.setting.port
                              /\ ~Syncs /\ ~Drops
        /\ cmd.pc = "drop" => /\ port = record.setting.port /\ "claude" \in Removed
                              /\ ~Syncs /\ Drops
    BY <2>1, NextJobFacts
  <2>3. Fresh' = Fresh \ {port}
    BY <2>1 DEF Fresh
  <2>4. CASE cmd.pc = "undo"
    <3>1. Fresh' = {}
      BY <2>2, <2>3, <2>4 DEF FreshInv, ClaudePort
    <3> QED
      BY <1>2, <2>2, <2>4, <3>1, FreshSettled
  <2>5. CASE cmd.pc = "drop"
    <3>1. Fresh' = {}
      BY <2>2, <2>3, <2>5 DEF FreshInv
    <3> QED
      BY <1>2, <2>2, <2>5, <3>1 DEF FreshInv
  <2> QED
    BY <1>1, <2>2, <2>4, <2>5
<1> QED
  BY <1>4, <1>5

\* What enable and start save is where they attached Claude Code.
LEMMA FreshSave ==
  ASSUME TypeOK, CommandInv, FreshInv, Save
  PROVE  FreshInv'
<1>1. /\ cmd.pc = "save" /\ record' = NextRecord /\ UNCHANGED << hooks, outdated >>
      /\ cmd' = Idle \/ (Goto("stop") /\ cmd.op \in {"disable", "disable_all"})
      /\ cmd.jobs = << >>
      /\ Changes \/ Drops
  BY DEF Save, files, CommandInv
<1>2. ~Syncs' /\ ~Drops'
  BY <1>1, IdleEffect, GotoEffect DEF Syncs, Drops, Changes
<1>3. Fresh' = Fresh
  BY <1>1 DEF Fresh
<1>4. CASE Changes
  <2>1. /\ record'.setting = cmd.setting /\ record'.enabled = Targets \union record.enabled
    BY <1>1, <1>4, NextRecordType DEF Changes, Targets
  <2>2. Syncs /\ ~Drops
    BY <1>1, <1>4 DEF Syncs, Drops, Changes
  <2>3. CASE "claude" \in Targets
    <3>1. Fresh \subseteq {cmd.setting.port}
      BY <1>1, <2>2, <2>3 DEF FreshInv
    <3> QED
      BY <1>2, <1>3, <2>1, <2>3, <3>1, FreshSettled DEF ClaudePort
  <2>4. CASE "claude" \notin Targets
    <3>1. "claude" \notin HarnessesOf(cmd.changed)
      BY <2>4 DEF CommandInv, HarnessesOf
    <3>2. Fresh \subseteq ClaudePort
      BY <1>1, <2>2, <3>1 DEF FreshInv
    <3>3. "claude" \in record.enabled => record.setting.port = cmd.setting.port
      BY <1>4, <2>4 DEF Targets, Changes
    <3>4. ClaudePort' = ClaudePort
      BY <2>1, <2>4, <3>3 DEF ClaudePort
    <3> QED
      BY <1>2, <1>3, <3>2, <3>4, FreshSettled
  <2> QED
    BY <2>3, <2>4
<1>5. CASE Drops
  <2>1. /\ record'.setting = record.setting /\ record'.enabled = record.enabled \ Removed
    BY <1>1, <1>5, NextRecordType DEF Changes, Removed, Drops
  <2>2. ~Syncs
    BY <1>5 DEF Drops, Syncs, Changes
  <2>3. CASE "claude" \in Removed
    <3>1. "claude" \notin HarnessesOf(cmd.jobs)
      <4>1. cmd.jobs = << >>
        BY <1>1
      <4>2. ToSet(cmd.jobs) = {}
        BY <4>1, EmptyElements
      <4> QED
        BY <4>2 DEF HarnessesOf
    <3>2. Fresh = {}
      BY <1>5, <2>3, <3>1 DEF FreshInv
    <3> QED
      BY <1>2, <1>3, <3>2, FreshSettled
  <2>4. CASE "claude" \notin Removed
    <3>1. Fresh \subseteq ClaudePort
      BY <1>1, <2>2, <2>4 DEF FreshInv
    <3>2. ClaudePort' = ClaudePort
      BY <2>1, <2>4 DEF ClaudePort
    <3> QED
      BY <1>2, <1>3, <3>1, <3>2, FreshSettled
  <2> QED
    BY <2>3, <2>4
<1> QED
  BY <1>1, <1>4, <1>5

\* A failed command plans to undo what it changed.
LEMMA FreshFail ==
  ASSUME TypeOK, CommandInv, FreshInv, Fail, Syncs, UNCHANGED << record, hooks, outdated >>
  PROVE  FreshInv'
<1>1. /\ cmd'.pc = "undo" /\ cmd'.op = cmd.op /\ cmd'.setting = cmd.setting
      /\ HarnessesOf(cmd'.jobs) = HarnessesOf(cmd.changed)
  BY FailEffect, HarnessesUndone
<1>2. ~Drops /\ ~Syncs' /\ ~Drops' /\ cmd.pc # "undo"
  BY <1>1 DEF Syncs, Drops, Changes
<1>3. Fresh' = Fresh /\ ClaudePort' = ClaudePort
  BY DEF Fresh, ClaudePort
<1> QED
  BY <1>1, <1>2, <1>3 DEF FreshInv

\* The jobs of a command that begins name each harness it is for.
LEMMA FreshBegins ==
  ASSUME NEW do, NEW port, NEW S,
         ToSet(cmd'.jobs) = {[do |-> do, harness |-> h, port |-> port] : h \in S}
  PROVE  HarnessesOf(cmd'.jobs) = S
<1>1. \A h \in S : \E job \in ToSet(cmd'.jobs) : job.harness = h
  <2>1. \A h \in S : /\ [do |-> do, harness |-> h, port |-> port] \in ToSet(cmd'.jobs)
                     /\ [do |-> do, harness |-> h, port |-> port].harness = h
    OBVIOUS
  <2> QED
    BY <2>1
<1>2. \A job \in ToSet(cmd'.jobs) : job.harness \in S
  OBVIOUS
<1> QED
  BY <1>1, <1>2, HarnessesNamed

LEMMA FreshProcessStep ==
  ASSUME TypeOK, CommandInv, FreshInv, Refused \/ JobsDone \/ ProcessStep
  PROVE  FreshInv'
<1>1. UNCHANGED << record, hooks, outdated >>
  BY DEF Refused, JobsDone, ProcessStep, Look, StopProcess, ClearPid, Spawn,
         PollHealthy, PollEnds, Report, GiveUp, files
<1>2. ASSUME cmd' = Idle, ~Drops, ~Syncs, cmd.jobs = << >>
      PROVE  FreshInv'
  <2>1. ~Drops' /\ ~Syncs'
    BY <1>2, IdleEffect DEF Drops, Syncs, Changes
  <2> QED
    BY <1>1, <1>2, <2>1, FreshRecorded, FreshSettled DEF Fresh, ClaudePort
<1>3. ASSUME NEW pc \in {"look", "save", "stop", "clear", "spawn", "report", "giveup"},
             Goto(pc), cmd.jobs = << >>, cmd.pc # "undo",
             (cmd.pc = "drop" /\ pc = "save") \/ Changes \/ (cmd.pc = "stop" /\ pc = "clear")
      PROVE  FreshInv'
  <2>1. /\ cmd'.pc = pc /\ cmd'.op = cmd.op /\ cmd'.harness = cmd.harness
        /\ cmd'.setting = cmd.setting /\ cmd'.changed = cmd.changed
    BY <1>3, GotoEffect
  <2>2. Drops' <=> Drops
    BY <1>3, <2>1 DEF Drops, Changes
  <2> QED
    BY <1>1, <1>3, <2>1, <2>2, FreshOnwards
<1>4. CASE Refused \/ GiveUp
  <2>1. Fail /\ Syncs
    BY <1>4 DEF Refused, GiveUp, CommandInv, Syncs
  <2> QED
    BY <1>1, <2>1, FreshFail
<1>5. CASE JobsDone
  <2>1. cmd.jobs = << >> /\ cmd.pc \in {"sync", "undo", "drop"}
    BY <1>5 DEF JobsDone
  <2>2. CASE cmd.pc = "sync"
    BY <1>3, <1>5, <2>1, <2>2 DEF JobsDone, CommandInv
  <2>3. CASE cmd.pc = "undo"
    <3>1. cmd' = Idle /\ ~Drops /\ ~Syncs
      BY <1>5, <2>3 DEF JobsDone, Drops, Syncs
    <3> QED
      BY <1>2, <2>1, <3>1
  <2>4. CASE cmd.pc = "drop"
    BY <1>3, <1>5, <2>1, <2>4 DEF JobsDone
  <2> QED
    BY <2>1, <2>2, <2>3, <2>4
<1>6. CASE Look \/ PollHealthy \/ PollEnds \/ Report
  <2>1. cmd.jobs = << >> /\ Changes /\ cmd.pc # "undo"
    BY <1>6 DEF Look, PollHealthy, PollEnds, Report, CommandInv
  <2>2. \E pc \in {"save", "stop", "spawn", "report", "giveup"} : Goto(pc)
    BY <1>6 DEF Look, PollHealthy, PollEnds, Report
  <2> QED
    BY <1>3, <2>1, <2>2
<1>7. CASE StopProcess
  <2>1. cmd.jobs = << >> /\ cmd.pc = "stop" /\ Goto("clear")
    BY <1>7 DEF StopProcess, CommandInv
  <2> QED
    BY <1>3, <2>1
<1>8. CASE Spawn
  <2>1. PICK q \in Pid : cmd' = [cmd EXCEPT !.child = q, !.pc = "poll"]
    BY <1>8 DEF Spawn
  <2>2. cmd.jobs = << >> /\ Changes /\ cmd.pc # "undo"
    BY <1>8 DEF Spawn, CommandInv
  <2>3. /\ cmd'.pc = "poll" /\ cmd'.op = cmd.op /\ cmd'.harness = cmd.harness
        /\ cmd'.setting = cmd.setting /\ cmd'.changed = cmd.changed
    BY <2>1 DEF TypeOK, Command
  <2>4. Drops' <=> Drops
    BY <2>2, <2>3 DEF Drops, Changes
  <2> QED
    BY <1>1, <2>2, <2>3, <2>4, FreshOnwards
<1>9. CASE ClearPid
  <2>1. cmd.pc = "clear" /\ cmd.jobs = << >>
    BY <1>9, ClearPidEffect
  <2>2. CASE Changes /\ Goto("spawn")
    BY <1>3, <2>1, <2>2
  <2>3. CASE ~Changes /\ cmd' # Idle
    <3>1. /\ cmd'.pc = "sync" /\ cmd'.op = "start" /\ cmd'.setting = cmd.setting
          /\ ToSet(cmd'.jobs) =
               {[do |-> "attach", harness |-> h, port |-> cmd.setting.port] :
                  h \in record.enabled}
      BY <1>9, <2>3, ClearPidEffect
    <3>2. Fresh \subseteq ClaudePort
      BY <2>1, <2>3, FreshRecorded DEF Drops, Syncs
    <3>3. Fresh' = Fresh /\ ClaudePort' = ClaudePort /\ Targets' = record.enabled /\ ~Drops'
      BY <1>1, <2>3, <3>1 DEF Fresh, ClaudePort, Targets, Drops
    <3>4. HarnessesOf(cmd'.jobs) = record.enabled
      BY <2>3, <3>1, FreshBegins
    <3> QED
      BY <2>3, <3>1, <3>2, <3>3, <3>4 DEF FreshInv
  <2>4. CASE ~Changes /\ cmd' = Idle
    <3>1. ~Drops /\ ~Syncs
      BY <2>1, <2>4 DEF Drops, Syncs
    <3> QED
      BY <1>2, <2>1, <2>4, <3>1
  <2> QED
    BY <1>9, <2>2, <2>3, <2>4, ClearPidEffect
<1> QED
  BY <1>4, <1>5, <1>6, <1>7, <1>8, <1>9 DEF ProcessStep

\* A command begins with no hook that is neither recorded nor a leftover.
LEMMA FreshRun ==
  ASSUME TypeOK, CommandInv, FreshInv,
         \/ \E h \in Harness, s \in Setting : Enable(h, s)
         \/ \E s \in Setting : Start(s) \/ Restart(s)
         \/ \E h \in Harness : Disable(h)
         \/ DisableAll \/ Stop
  PROVE  FreshInv'
<1>1. /\ cmd = Idle /\ cmd'.pc \in {"sync", "drop", "stop"}
      /\ UNCHANGED << record, hooks, outdated >>
      /\ cmd'.pc = "sync" => /\ cmd'.op \in {"enable", "start"}
                             /\ ToSet(cmd'.jobs) =
                                  {[do |-> "attach", harness |-> h, port |-> cmd'.setting.port] :
                                     h \in Targets'}
      /\ cmd'.pc = "drop" => /\ cmd'.op \in {"disable", "disable_all"}
                             /\ cmd'.op = "disable" => cmd'.harness \in record.enabled
                             /\ ToSet(cmd'.jobs) =
                                  {[do |-> "detach", harness |-> h, port |-> record.setting.port] :
                                     h \in Removed'}
      /\ cmd'.pc = "stop" => cmd'.op \in {"stop", "restart"}
  BY RunCases DEF files
<1>2. Fresh \subseteq ClaudePort /\ Fresh' = Fresh /\ ClaudePort' = ClaudePort
  <2>1. ~Drops /\ ~Syncs /\ cmd.pc # "undo"
    BY <1>1, IdleEffect DEF Drops, Syncs, Changes
  <2>2. Fresh \subseteq ClaudePort
    BY <2>1, FreshRecorded
  <2> QED
    BY <1>1, <2>2 DEF Fresh, ClaudePort
<1>3. CASE cmd'.pc = "sync"
  <2>1. HarnessesOf(cmd'.jobs) = Targets'
    <3>1. \A h \in Targets' : [do |-> "attach", harness |-> h, port |-> cmd'.setting.port] \in ToSet(cmd'.jobs)
      BY <1>1, <1>3
    <3>2. \A h \in Targets' : \E job \in ToSet(cmd'.jobs) : job.harness = h
      BY <3>1
    <3>3. \A job \in ToSet(cmd'.jobs) : job.harness \in Targets'
      BY <1>1, <1>3
    <3> QED
      BY <3>2, <3>3, HarnessesNamed
  <2>2. ~Drops'
    BY <1>3 DEF Drops
  <2> QED
    BY <1>2, <1>3, <2>1, <2>2 DEF FreshInv
<1>4. CASE cmd'.pc = "drop"
  <2>1. HarnessesOf(cmd'.jobs) = Removed'
    <3>1. \A h \in Removed' : [do |-> "detach", harness |-> h, port |-> record.setting.port] \in ToSet(cmd'.jobs)
      BY <1>1, <1>4
    <3>2. \A h \in Removed' : \E job \in ToSet(cmd'.jobs) : job.harness = h
      BY <3>1
    <3>3. \A job \in ToSet(cmd'.jobs) : job.harness \in Removed'
      BY <1>1, <1>4
    <3> QED
      BY <3>2, <3>3, HarnessesNamed
  <2>2. ~Syncs'
    BY <1>1, <1>4 DEF Syncs, Changes
  <2>3. ClaudePort \subseteq {record'.setting.port}
    BY <1>1 DEF ClaudePort
  <2> QED
    BY <1>2, <2>1, <2>2, <2>3 DEF FreshInv
<1>5. CASE cmd'.pc = "stop"
  <2>1. ~Drops' /\ ~Syncs'
    BY <1>1, <1>5 DEF Drops, Syncs, Changes
  <2> QED
    BY <1>2, <2>1, FreshSettled
<1> QED
  BY <1>1, <1>3, <1>4, <1>5

LEMMA FreshStep ==
  ASSUME TypeOK, CommandInv, FreshInv, [Next]_vars
  PROVE  FreshInv'
<1>1. CASE FileStep
  BY <1>1, FreshClaude, FreshOpenCode DEF FileStep
<1>2. CASE \/ \E q \in Pid : Bind(q) \/ Exit(q)
           \/ \E p \in Provider : Select(p)
           \/ \E p \in Provider, url \in Upstream \union {Unset} : Edit(p, url)
           \/ UNCHANGED vars
  <2>1. UNCHANGED << record, hooks, outdated, cmd >>
    BY <1>2 DEF Bind, Exit, Select, Edit, vars, files
  <2>2. Targets' = Targets /\ Removed' = Removed /\ Syncs' = Syncs /\ Drops' = Drops
    BY <2>1, SameCommand
  <2> QED
    BY <2>1, <2>2, FreshFrame
<1>3. CASE Kill
  <2>1. cmd' = Idle /\ outdated' = outdated \union hooks /\ UNCHANGED hooks
    BY <1>3 DEF Kill
  <2>2. Fresh' = {} /\ ~Drops' /\ ~Syncs'
    BY <2>1, IdleEffect DEF Fresh, Drops, Syncs, Changes
  <2> QED
    BY <2>2, FreshSettled
<1> QED
  BY <1>1, <1>2, <1>3, FreshSave, FreshProcessStep, FreshRun DEF Next, CommandStep

-----------------------------------------------------------------------------
(* The theorems. *)

LEMMA IInvInit == Init => IInv
BY TypeInit, CommandInvInit, UrlInit, GatewayInit, FilesInit, FreshInit DEF IInv

LEMMA IInvStep == IInv /\ [Next]_vars => IInv'
BY TypeStep, CommandInvStep, UrlStep, GatewayStep, FilesStep, FreshStep DEF IInv

LEMMA Invariance == Spec => []IInv
BY IInvInit, IInvStep, PTL DEF Spec

\* Every variable keeps its type, through every command and what interrupts it.
THEOREM TypeCorrect == Spec => []TypeOK
<1>1. IInv => TypeOK
  BY DEF IInv
<1> QED
  BY <1>1, Invariance, PTL

\* Detach gives a provider back the URL the user gave it.
THEOREM UsersUrlsAreKept == Spec => []KeepsUsersUrl
<1>1. IInv => KeepsUsersUrl
  BY DEF IInv, UrlInv, KeepsUsersUrl
<1> QED
  BY <1>1, Invariance, PTL

\* Wherever a command is killed, the URL the user gave a provider is in a file.
THEOREM UrlsAreNotLost == Spec => []UrlNotLost
<1>1. IInv => UrlNotLost
  BY DEF IInv, UrlInv, UrlNotLost
<1> QED
  BY <1>1, Invariance, PTL

\* Between commands no gateway runs that stop would not find, unless one was killed.
THEOREM GatewaysAreRecorded == Spec => []GatewaysRecorded
<1>1. IInv => GatewaysRecorded
  <2> SUFFICES ASSUME IInv, cmd = Idle
               PROVE  /\ \A q \in Pid : Alive(q) => q = pidfile.pid \/ q \in lost
                      /\ ~stray /\ pidfile.pid # None => pidfile.setting = record.setting
    BY DEF GatewaysRecorded
  <2>1. cmd.pc = "idle"
    BY IdleEffect
  <2> QED
    BY <2>1 DEF IInv, GatewayInv, Reported
<1> QED
  BY <1>1, Invariance, PTL

\* Between commands the harnesses are attached as controller.json records it, but
\* for the leftovers: routes that a kill or the user left, and hooks of Claude Code
\* at an earlier URL.
THEOREM FilesAgree == Spec => []FilesFollowRecord
<1>1. IInv => FilesFollowRecord
  <2> SUFFICES ASSUME IInv, cmd = Idle
               PROVE  /\ ~stray => ClaudePort \subseteq hooks
                      /\ hooks \subseteq ClaudePort \union outdated
                      /\ ~stray /\ "opencode" \in record.enabled =>
                           base[active] = record.setting.port
                      /\ "opencode" \notin record.enabled => Routed \subseteq left
    BY DEF FilesFollowRecord
  <2>1. ~Drops /\ ~Syncs /\ cmd.pc # "undo"
    BY IdleEffect DEF Drops, Syncs, Changes
  <2>2. HooksRecorded /\ BaseRecorded
    BY <2>1, FilesRecorded DEF IInv
  <2>3. Fresh \subseteq ClaudePort
    BY <2>1, FreshRecorded DEF IInv
  <2> QED
    BY <2>2, <2>3 DEF HooksRecorded, BaseRecorded, ExposedRecorded, Exposed, Fresh, ClaudePort
<1> QED
  BY <1>1, Invariance, PTL
=============================================================================
