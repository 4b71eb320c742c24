------------------------ MODULE StdioSupervisorProofs ------------------------
(***************************************************************************)
(* Proofs about StdioSupervisor, for every number of calls and every pipe. *)
(***************************************************************************)
EXTENDS StdioSupervisor, TLAPS

-----------------------------------------------------------------------------
(* What the operations on the pipes do to their length and elements. *)

LEMMA Appended ==
  ASSUME NEW S, NEW s \in Seq(S), NEW e \in S
  PROVE  /\ Append(s, e) \in Seq(S)
         /\ Len(Append(s, e)) = Len(s) + 1
         /\ Range(Append(s, e)) = Range(s) \union {e}
<1>1. /\ DOMAIN s = 1 .. Len(s) /\ DOMAIN Append(s, e) = 1 .. Len(s) + 1
      /\ Append(s, e)[Len(s) + 1] = e
      /\ \A i \in 1 .. Len(s) : Append(s, e)[i] = s[i]
      /\ Len(s) \in Nat
  OBVIOUS
<1>2. 1 .. Len(s) + 1 = (1 .. Len(s)) \union {Len(s) + 1}
  BY <1>1
<1> QED
  BY <1>1, <1>2 DEF Range

LEMMA Taken ==
  ASSUME NEW S, NEW s \in Seq(S), s # << >>
  PROVE  /\ Tail(s) \in Seq(S)
         /\ Len(Tail(s)) = Len(s) - 1
         /\ Range(Tail(s)) \subseteq Range(s)
         /\ Head(s) \in Range(s) /\ Head(s) \in S
         /\ s[1] = Head(s)
<1>1. /\ DOMAIN s = 1 .. Len(s) /\ DOMAIN Tail(s) = 1 .. Len(s) - 1
      /\ \A i \in 1 .. Len(s) - 1 : Tail(s)[i] = s[i + 1]
      /\ Len(s) \in Nat /\ Len(s) # 0
      /\ Head(s) = s[1]
  OBVIOUS
<1> QED
  BY <1>1 DEF Range

LEMMA Cut ==
  ASSUME NEW S, NEW s \in Seq(S), NEW m \in 1 .. Len(s) + 1, NEW n \in 0 .. Len(s), m <= n + 1
  PROVE  /\ SubSeq(s, m, n) \in Seq(S)
         /\ Len(SubSeq(s, m, n)) = n + 1 - m
         /\ Range(SubSeq(s, m, n)) \subseteq Range(s)
<1>1. /\ DOMAIN s = 1 .. Len(s) /\ Len(s) \in Nat
      /\ DOMAIN SubSeq(s, m, n) = 1 .. n + 1 - m
      /\ Len(SubSeq(s, m, n)) = n + 1 - m
      /\ \A i \in 1 .. n + 1 - m : SubSeq(s, m, n)[i] = s[m + i - 1]
      /\ SubSeq(s, m, n) \in Seq(S)
  OBVIOUS
<1>2. \A i \in 1 .. n + 1 - m : m + i - 1 \in DOMAIN s
  BY <1>1
<1> QED
  BY <1>1, <1>2 DEF Range

LEMMA Joined ==
  ASSUME NEW S, NEW s \in Seq(S), NEW u \in Seq(S)
  PROVE  /\ s \o u \in Seq(S)
         /\ Len(s \o u) = Len(s) + Len(u)
         /\ Range(s \o u) = Range(s) \union Range(u)
<1>1. /\ DOMAIN s = 1 .. Len(s) /\ DOMAIN u = 1 .. Len(u)
      /\ DOMAIN (s \o u) = 1 .. Len(s) + Len(u)
      /\ \A i \in 1 .. Len(s) : (s \o u)[i] = s[i]
      /\ \A i \in 1 .. Len(u) : (s \o u)[Len(s) + i] = u[i]
      /\ Len(s) \in Nat /\ Len(u) \in Nat
      /\ s \o u \in Seq(S) /\ Len(s \o u) = Len(s) + Len(u)
  OBVIOUS
<1>2. \A i \in 1 .. Len(s) + Len(u) :
        i \in 1 .. Len(s) \/ \E j \in 1 .. Len(u) : i = Len(s) + j
  <2> SUFFICES ASSUME NEW i \in 1 .. Len(s) + Len(u), i \notin 1 .. Len(s)
               PROVE  \E j \in 1 .. Len(u) : i = Len(s) + j
    OBVIOUS
  <2>1. i - Len(s) \in 1 .. Len(u) /\ i = Len(s) + (i - Len(s))
    BY <1>1
  <2> QED
    BY <2>1
<1>3. Range(s \o u) \subseteq Range(s) \union Range(u)
  BY <1>1, <1>2 DEF Range
<1>4. Range(s) \subseteq Range(s \o u)
  BY <1>1 DEF Range
<1>5. Range(u) \subseteq Range(s \o u)
  <2> SUFFICES ASSUME NEW j \in 1 .. Len(u) PROVE u[j] \in Range(s \o u)
    BY <1>1 DEF Range
  <2>1. Len(s) + j \in 1 .. Len(s) + Len(u)
    BY <1>1
  <2> QED
    BY <2>1, <1>1 DEF Range
<1> QED
  BY <1>1, <1>3, <1>4, <1>5

\* The empty pipe.
LEMMA Nothing ==
  /\ \A S : << >> \in Seq(S)
  /\ Len(<< >>) = 0 /\ Range(<< >>) = {}
  /\ \A S : \A s \in Seq(S) : Len(s) \in Nat /\ (Len(s) = 0 <=> s = << >>)
BY DEF Range

\* One request that the plugin works on.
LEMMA Single ==
  ASSUME NEW S, NEW e \in S
  PROVE  << e >> \in Seq(S) /\ Len(<< e >>) = 1 /\ Range(<< e >>) = {e}
<1>1. DOMAIN << e >> = {1} /\ << e >>[1] = e
  OBVIOUS
<1> QED
  BY <1>1 DEF Range

-----------------------------------------------------------------------------
\* Types, initially and in every step.
LEMMA TypeInit == Init => TypeOK
<1>1. << >> \in Seq(AnyLine) /\ << >> \in Seq(Message)
  BY Nothing
<1> SUFFICES ASSUME Init PROVE TypeOK
  OBVIOUS
<1>2. /\ pc \in [Actor -> {"idle", "lock", "write", "select", "read", "stop", "wait", "close", "done"}]
      /\ outcome \in [Actor -> {"none", "result", "refused", "timeout", "mismatch", "junk", "dead"}]
      /\ callId \in [Actor -> Nat] /\ callNo \in [Actor -> Nat] /\ taken \in [Actor -> Nat]
  BY DEF Init
<1>3. piped \in BOOLEAN /\ alive \in BOOLEAN /\ gaveUp \in BOOLEAN /\ unruly \in BOOLEAN
  BY DEF Init
<1>4. buffer \in Seq(AnyLine) /\ stdout \in Seq(AnyLine) /\ stdin \in Seq(Message)
      /\ work \in Seq(Message)
  BY <1>1 DEF Init
<1>5. lock \in Actor \union {"none"} /\ nextId \in Nat /\ calls \in Nat
      /\ runtime \in {"starting", "ready", "broken"}
  BY DEF Init
<1> QED
  BY <1>2, <1>3, <1>4, <1>5 DEF TypeOK

LEMMA TypeCallStep ==
  ASSUME TypeOK, NEW a \in Actor, Call(a)
  PROVE  TypeOK'
<1>1. CASE EnterDead(a)
  BY <1>1 DEF EnterDead, Return, After, TypeOK, plugin
<1>2. CASE Enter(a)
  BY <1>2 DEF Enter, FollowingId, TypeOK, plugin
<1>3. CASE Write(a)
  <2>1. [id |-> callId[a], call |-> callNo[a]] \in Message
    BY DEF TypeOK, Message
  <2>2. stdin' \in Seq(Message)
    BY <1>3, <2>1, Appended DEF Write, TypeOK
  <2> QED
    BY <1>3, <2>2 DEF Write, TypeOK
<1>4. CASE WriteFails(a)
  BY <1>4 DEF WriteFails, Return, After, TypeOK, plugin
<1>5. CASE Select(a)
  BY <1>5 DEF Select, TypeOK, plugin
<1>6. CASE TimesOut(a)
  BY <1>6 DEF TimesOut, Return, After, TypeOK, plugin
<1>7. CASE ReadChunk(a)
  <2>1. PICK n \in 1 .. Len(stdout) :
          /\ buffer' = buffer \o SubSeq(stdout, 1, n)
          /\ stdout' = SubSeq(stdout, n + 1, Len(stdout))
    BY <1>7 DEF ReadChunk
  <2>2. stdout \in Seq(AnyLine) /\ buffer \in Seq(AnyLine) /\ Len(stdout) \in Nat
    BY Nothing DEF TypeOK
  <2>3. /\ 1 \in 1 .. Len(stdout) + 1 /\ n \in 0 .. Len(stdout) /\ 1 <= n + 1
        /\ n + 1 \in 1 .. Len(stdout) + 1 /\ Len(stdout) \in 0 .. Len(stdout)
        /\ n + 1 <= Len(stdout) + 1
    BY <2>2
  <2>4. SubSeq(stdout, 1, n) \in Seq(AnyLine) /\ stdout' \in Seq(AnyLine)
    BY <2>1, <2>2, <2>3, Cut
  <2>5. buffer' \in Seq(AnyLine)
    BY <2>1, <2>2, <2>4, Joined
  <2> QED
    BY <1>7, <2>4, <2>5 DEF ReadChunk, TypeOK
<1>8. CASE ReadLine(a)
  <2>1. PICK i \in LineEnds :
          /\ Return(a, Verdict(a, buffer[i]))
          /\ taken' = [taken EXCEPT ![a] = buffer[i].call]
          /\ buffer' = Rest(i)
    BY <1>8 DEF ReadLine
  <2>2. buffer \in Seq(AnyLine) /\ i \in DOMAIN buffer /\ i \in 1 .. Len(buffer)
        /\ Len(buffer) \in Nat
    BY Nothing DEF LineEnds, TypeOK
  <2>3. buffer[i].call \in Nat
    <3>1. buffer[i] \in AnyLine
      BY <2>2
    <3> QED
      BY <3>1 DEF AnyLine
  <2>4. /\ i + 1 \in 1 .. Len(buffer) + 1 /\ Len(buffer) \in 0 .. Len(buffer)
        /\ i + 1 <= Len(buffer) + 1
    BY <2>2
  <2>5. buffer' \in Seq(AnyLine)
    BY <2>1, <2>2, <2>4, Cut DEF Rest
  <2>6. Verdict(a, buffer[i]) \in {"result", "refused", "mismatch", "junk"}
    BY DEF Verdict
  <2>7. /\ outcome' = [outcome EXCEPT ![a] = Verdict(a, buffer[i])]
        /\ pc' = [pc EXCEPT ![a] = After(a)] /\ After(a) \in {"idle", "stop"}
        /\ lock' = "none"
        /\ UNCHANGED << nextId, callId, runtime, piped, alive, stdin, work, stdout, calls,
                        callNo, gaveUp, unruly >>
    BY <1>8, <2>1 DEF ReadLine, Return, After, plugin
  <2> HIDE DEF Verdict, After
  <2> QED
    BY <2>1, <2>3, <2>5, <2>6, <2>7 DEF TypeOK
<1>9. CASE ReadEnd(a)
  <2>1. buffer' \in Seq(AnyLine)
    BY <1>9, Nothing DEF ReadEnd, TypeOK
  <2> QED
    BY <1>9, <2>1 DEF ReadEnd, Return, After, TypeOK, plugin
<1> QED
  BY <1>1, <1>2, <1>3, <1>4, <1>5, <1>6, <1>7, <1>8, <1>9 DEF Call

LEMMA TypePluginStep ==
  ASSUME TypeOK, Plugin
  PROVE  TypeOK'
<1>1. CASE PluginReads
  <2>1. stdin' \in Seq(Message) /\ work' \in Seq(Message)
    BY <1>1, Taken, Single DEF PluginReads, TypeOK
  <2> QED
    BY <1>1, <2>1 DEF PluginReads, TypeOK, host
<1>2. CASE PluginBegins \/ PluginAnswers \/ PluginChatters
  <2>1. work # << >> => Line(work[1], "half") \in AnyLine /\ Line(work[1], "result") \in AnyLine
                        /\ Line(work[1], "error") \in AnyLine
    <3> SUFFICES ASSUME work # << >> PROVE work[1] \in Message
      BY DEF Line, AnyLine, Message
    <3> QED
      BY Taken DEF TypeOK
  <2>2. Junk \in AnyLine
    BY DEF Junk, AnyLine
  <2>3. stdout' \in Seq(AnyLine)
    <3>1. PICK line \in AnyLine : stdout' = Append(stdout, line)
      BY <1>2, <2>1, <2>2 DEF PluginBegins, PluginAnswers, PluginChatters
    <3> QED
      BY <3>1, Appended DEF TypeOK
  <2>4. work' \in Seq(Message)
    BY <1>2, Nothing DEF PluginBegins, PluginAnswers, PluginChatters, TypeOK
  <2> QED
    BY <1>2, <2>3, <2>4 DEF PluginBegins, PluginAnswers, PluginChatters, TypeOK, host
<1>3. CASE PluginSkips
  BY <1>3, Nothing DEF PluginSkips, TypeOK, host
<1>4. CASE PluginExits
  BY <1>4, Nothing DEF PluginExits, TypeOK, host
<1> QED
  BY <1>1, <1>2, <1>3, <1>4 DEF Plugin

LEMMA TypeStep == TypeOK /\ [Next]_vars => TypeOK'
<1> SUFFICES ASSUME TypeOK, [Next]_vars PROVE TypeOK'
  OBVIOUS
<1>1. CASE UserCalls
  BY <1>1 DEF UserCalls, TypeOK, Actor, plugin
<1>2. CASE Constructed
  BY <1>2 DEF Constructed, TypeOK, plugin
<1>3. CASE Close
  BY <1>3, Nothing DEF Close, Shutdown, Terminate, Wait, Killed, ClosePipes, TypeOK, plugin
<1>4. CASE UNCHANGED vars
  BY <1>4 DEF vars, TypeOK
<1> QED
  BY <1>1, <1>2, <1>3, <1>4, TypeCallStep, TypePluginStep DEF Next

-----------------------------------------------------------------------------
\* The lock: one call at a time.
LEMMA OneCallStep ==
  ASSUME TypeOK, OneCall, [Next]_vars
  PROVE  OneCall'
<1> USE DEF OneCall, Calling
<1>1. ASSUME NEW a \in Actor, Enter(a) PROVE OneCall'
  <2>1. lock = "none" /\ lock' = a /\ "none" \notin Actor
    BY <1>1 DEF Enter, Actor
  <2>2. pc'[a] = "write" /\ \A b \in Actor : b # a => pc'[b] = pc[b]
    BY <1>1 DEF Enter, TypeOK
  <2> QED
    BY <2>1, <2>2
<1>2. ASSUME NEW a \in Actor, Write(a) \/ Select(a) PROVE OneCall'
  BY <1>2 DEF Write, Select, TypeOK
<1>3. ASSUME NEW a \in Actor, NEW o, Return(a, o),
             lock = a \/ (lock = "none" /\ ~Calling(a))
      PROVE OneCall'
  <2>1. pc'[a] \in {"idle", "stop"} /\ \A b \in Actor : b # a => pc'[b] = pc[b]
    BY <1>3 DEF Return, After, TypeOK
  <2>2. lock' = "none" /\ "none" \notin Actor
    BY <1>3 DEF Return, Actor
  <2> QED
    BY <1>3, <2>1, <2>2
<1>4. ASSUME NEW a \in Actor,
             EnterDead(a) \/ WriteFails(a) \/ TimesOut(a) \/ ReadLine(a) \/ ReadEnd(a)
      PROVE  OneCall'
  <2>1. PICK o : Return(a, o)
    BY <1>4 DEF EnterDead, WriteFails, TimesOut, ReadLine, ReadEnd
  <2>2. lock = a \/ (lock = "none" /\ ~Calling(a))
    BY <1>4 DEF EnterDead, WriteFails, TimesOut, ReadLine, ReadEnd
  <2> QED
    BY <1>3, <2>1, <2>2
<1>5. ASSUME NEW a \in Actor, ReadChunk(a) PROVE OneCall'
  BY <1>5 DEF ReadChunk
<1>6. CASE UserCalls
  BY <1>6 DEF UserCalls, TypeOK, Actor
<1>7. CASE Shutdown \/ Terminate \/ Wait \/ ClosePipes
  BY <1>7 DEF Shutdown, Terminate, Wait, ClosePipes, TypeOK, Actor
<1>8. CASE Constructed \/ Plugin \/ UNCHANGED vars
  BY <1>8 DEF Constructed, Plugin, PluginReads, PluginBegins, PluginAnswers, PluginSkips,
              PluginChatters, PluginExits, host, vars
<1> QED
  BY <1>1, <1>2, <1>4, <1>5, <1>6, <1>7, <1>8 DEF Next, Call, Close

-----------------------------------------------------------------------------
(* What is in the pipes. *)

\* All messages: requests and lines, wherever they are.
Messages == Range(stdin) \union Range(work) \union Range(stdout) \union Range(buffer)

\* Where messages can come from in one step: a written request, a junk line, or
\* what is there already, of which an answer or the half of one is a copy.
LEMMA Traffic ==
  ASSUME TypeOK, [Next]_vars
  PROVE  /\ \A m \in Range(stdin)' \union Range(work)' :
              \/ m \in Range(stdin) \union Range(work)
              \/ \E a \in Actor : Write(a) /\ m = [id |-> callId[a], call |-> callNo[a]]
         /\ \A m \in Range(stdout)' \union Range(buffer)' :
              \/ m \in Range(stdout) \union Range(buffer)
              \/ \E w \in Range(work) : m.id = w.id /\ m.call = w.call
                                       /\ m.kind \in {"result", "error"}
              \/ unruly' /\ (m = Junk \/ \E w \in Range(work) : m = Line(w, "half"))
<1> USE Nothing
<1>1. ASSUME NEW a \in Actor, Write(a) PROVE
        /\ Range(stdin)' = Range(stdin) \union {[id |-> callId[a], call |-> callNo[a]]}
        /\ UNCHANGED << work, stdout, buffer >>
  <2>1. [id |-> callId[a], call |-> callNo[a]] \in Message
    BY DEF TypeOK, Message
  <2> QED
    BY <1>1, <2>1, Appended DEF Write, TypeOK
<1>2. ASSUME NEW a \in Actor, ReadChunk(a) PROVE
        /\ Range(buffer)' \subseteq Range(buffer) \union Range(stdout)
        /\ Range(stdout)' \subseteq Range(stdout)
        /\ UNCHANGED << stdin, work >>
  <2>1. PICK n \in 1 .. Len(stdout) :
          /\ buffer' = buffer \o SubSeq(stdout, 1, n)
          /\ stdout' = SubSeq(stdout, n + 1, Len(stdout))
    BY <1>2 DEF ReadChunk
  <2>2. stdout \in Seq(AnyLine) /\ buffer \in Seq(AnyLine) /\ Len(stdout) \in Nat
    BY DEF TypeOK
  <2>3. /\ 1 \in 1 .. Len(stdout) + 1 /\ n \in 0 .. Len(stdout) /\ 1 <= n + 1
        /\ n + 1 \in 1 .. Len(stdout) + 1 /\ Len(stdout) \in 0 .. Len(stdout)
        /\ n + 1 <= Len(stdout) + 1
    BY <2>2
  <2>4. /\ SubSeq(stdout, 1, n) \in Seq(AnyLine)
        /\ Range(SubSeq(stdout, 1, n)) \subseteq Range(stdout)
        /\ Range(stdout)' \subseteq Range(stdout)
    BY <2>1, <2>2, <2>3, Cut
  <2>5. \A u \in Seq(AnyLine) : Range(buffer \o u) = Range(buffer) \union Range(u)
    <3> HIDE Nothing
    <3> QED
      BY <2>2, Joined
  <2>6. UNCHANGED << stdin, work >>
    BY <1>2 DEF ReadChunk
  <2> QED
    BY <2>1, <2>4, <2>5, <2>6
<1>3. ASSUME NEW a \in Actor, ReadLine(a) \/ ReadEnd(a) PROVE
        Range(buffer)' \subseteq Range(buffer) /\ UNCHANGED << stdin, work, stdout >>
  <2>1. CASE ReadEnd(a)
    BY <2>1 DEF ReadEnd, plugin
  <2>2. CASE ReadLine(a)
    <3>1. PICK i \in LineEnds : buffer' = Rest(i)
      BY <2>2 DEF ReadLine
    <3>2. buffer \in Seq(AnyLine) /\ i \in 1 .. Len(buffer) /\ Len(buffer) \in Nat
      BY DEF LineEnds, TypeOK
    <3>3. /\ i + 1 \in 1 .. Len(buffer) + 1 /\ Len(buffer) \in 0 .. Len(buffer)
          /\ i + 1 <= Len(buffer) + 1
      BY <3>2
    <3> QED
      BY <2>2, <3>1, <3>2, <3>3, Cut DEF Rest, ReadLine, plugin
  <2> QED
    BY <1>3, <2>1, <2>2
<1>4. CASE PluginReads
  <2>1. /\ Range(stdin)' \subseteq Range(stdin)
        /\ Range(work)' = {Head(stdin)} /\ Head(stdin) \in Range(stdin)
    BY <1>4, Taken, Single DEF PluginReads, TypeOK
  <2> QED
    BY <1>4, <2>1 DEF PluginReads, host
<1>5. CASE PluginBegins \/ PluginAnswers \/ PluginChatters
  <2>1. work # << >> => work[1] \in Range(work) /\ work[1] \in Message
    BY Taken DEF TypeOK
  <2>2. PICK line \in AnyLine :
          /\ stdout' = Append(stdout, line)
          /\ \/ work # << >> /\ line = Line(work[1], "result")
             \/ work # << >> /\ line = Line(work[1], "error")
             \/ unruly' /\ work # << >> /\ line = Line(work[1], "half")
             \/ unruly' /\ line = Junk
    BY <1>5, <2>1 DEF PluginBegins, PluginAnswers, PluginChatters, Line, Junk, AnyLine, Message
  <2>3. Range(stdout)' = Range(stdout) \union {line}
    BY <2>2, Appended DEF TypeOK
  <2>4. Range(work)' \subseteq Range(work) /\ UNCHANGED << stdin, buffer >>
    BY <1>5 DEF PluginBegins, PluginAnswers, PluginChatters, host
  <2> QED
    BY <2>1, <2>2, <2>3, <2>4 DEF Line
<1>6. CASE PluginSkips \/ PluginExits
  BY <1>6 DEF PluginSkips, PluginExits, host
<1>7. CASE Close
  BY <1>7 DEF Close, Shutdown, Terminate, Wait, ClosePipes, plugin
<1>8. ASSUME NEW a \in Actor,
             EnterDead(a) \/ Enter(a) \/ WriteFails(a) \/ Select(a) \/ TimesOut(a)
      PROVE  UNCHANGED << stdin, work, stdout, buffer >>
  BY <1>8 DEF EnterDead, Enter, WriteFails, Select, TimesOut, plugin
<1>9. CASE UserCalls \/ Constructed \/ UNCHANGED vars
  BY <1>9 DEF UserCalls, Constructed, vars, plugin
<1>10. ASSUME NEW a \in Actor, Call(a), ~Write(a) PROVE
         /\ Range(stdin)' = Range(stdin) /\ Range(work)' = Range(work)
         /\ Range(stdout)' \union Range(buffer)' \subseteq Range(stdout) \union Range(buffer)
  BY <1>2, <1>3, <1>8, <1>10 DEF Call
<1> QED
  BY <1>1, <1>4, <1>5, <1>6, <1>7, <1>9, <1>10 DEF Next, Plugin

-----------------------------------------------------------------------------
\* Ids count the calls, and no call is taken for another.
LEMMA IdentifiedStep ==
  ASSUME TypeOK, Identified, OwnAnswer, [Next]_vars
  PROVE  Identified' /\ OwnAnswer'
<1>1. \A m \in Range(stdin)' \union Range(work)' \union Range(stdout)' \union Range(buffer)' :
        m.id = m.call
  <2>1. \A m \in Range(stdin) \union Range(work) \union Range(stdout) \union Range(buffer) :
          m.id = m.call
    BY DEF Identified, Numbered
  <2>2. \A a \in Actor : callId[a] = callNo[a]
    BY DEF Identified
  <2>3. Junk.id = Junk.call /\ \A w : Line(w, "half").id = w.id /\ Line(w, "half").call = w.call
    BY DEF Junk, Line
  <2> QED
    BY <2>1, <2>2, <2>3, Traffic
<1>2. nextId' = calls' + 1
  <2>1. nextId = calls + 1 /\ calls \in Nat
    BY DEF Identified, TypeOK
  <2>2. ASSUME NEW a \in Actor, Enter(a) PROVE nextId' = calls' + 1
    BY <2>1, <2>2 DEF Enter, FollowingId
  <2>3. (\E a \in Actor : Enter(a)) \/ UNCHANGED << nextId, calls >>
    BY DEF Next, Call, EnterDead, Write, WriteFails, Select, TimesOut, ReadChunk, ReadLine,
       ReadEnd, UserCalls, Constructed, Close, Shutdown, Terminate, Wait, ClosePipes, Plugin,
       PluginReads, PluginBegins, PluginAnswers, PluginSkips, PluginChatters, PluginExits,
       host, vars
  <2> QED
    BY <2>1, <2>2, <2>3
<1> DEFINE Sound(b) == /\ callId[b] = callNo[b]
                       /\ Calling(b) \/ pc[b] = "lock" => outcome[b] = "none"
                       /\ outcome[b] = "result" => taken[b] = callNo[b]
                       /\ b = "closer" /\ pc[b] = "idle" => outcome[b] = "none"
<1>3. ASSUME NEW b \in Actor PROVE Sound(b)'
  <2>0. Sound(b)
    BY DEF Identified, OwnAnswer
  <2> USE DEF Calling
  <2>1. ASSUME NEW a \in Actor, Enter(a) PROVE Sound(b)'
    <3>1. callId'[a] = nextId /\ callNo'[a] = calls + 1 /\ pc'[a] = "write" /\ pc[a] = "lock"
          /\ outcome' = outcome /\ taken' = taken
          /\ (b # a => callId'[b] = callId[b] /\ callNo'[b] = callNo[b] /\ pc'[b] = pc[b])
      BY <2>1 DEF Enter, TypeOK
    <3>2. nextId = calls + 1
      BY DEF Identified
    <3> QED
      BY <2>0, <3>1, <3>2
  <2>2. ASSUME NEW a \in Actor, Write(a) \/ Select(a) PROVE Sound(b)'
    BY <2>0, <2>2 DEF Write, Select, TypeOK
  <2>3. ASSUME NEW a \in Actor, NEW o, Return(a, o), UNCHANGED << callId, callNo >>,
               o = "result" => taken'[a] = callNo[a],
               \A c \in Actor : c # a => taken'[c] = taken[c]
        PROVE  Sound(b)'
    <3>1. /\ outcome'[a] = o /\ pc'[a] \in {"idle", "stop"} /\ (a = "closer" => pc'[a] = "stop")
          /\ (b # a => outcome'[b] = outcome[b] /\ pc'[b] = pc[b])
      BY <2>3 DEF Return, After, TypeOK, Actor
    <3> QED
      BY <2>0, <2>3, <3>1
  <2>4. ASSUME NEW a \in Actor, EnterDead(a) \/ WriteFails(a) \/ TimesOut(a) \/ ReadEnd(a)
        PROVE  Sound(b)'
    <3>1. PICK o : Return(a, o) /\ o # "result"
      BY <2>4 DEF EnterDead, WriteFails, TimesOut, ReadEnd
    <3>2. UNCHANGED << callId, callNo, taken >>
      BY <2>4 DEF EnterDead, WriteFails, TimesOut, ReadEnd
    <3> QED
      BY <2>3, <3>1, <3>2
  <2>5. ASSUME NEW a \in Actor, ReadLine(a) PROVE Sound(b)'
    <3>1. PICK i \in LineEnds : /\ Return(a, Verdict(a, buffer[i]))
                               /\ taken' = [taken EXCEPT ![a] = buffer[i].call]
      BY <2>5 DEF ReadLine
    <3>2. buffer[i].id = buffer[i].call
      BY DEF LineEnds, Identified, Numbered, Range
    <3>3. Verdict(a, buffer[i]) = "result" => buffer[i].id = callId[a]
      BY DEF Verdict, Matches
    <3>4. callId[a] = callNo[a] /\ UNCHANGED << callId, callNo >>
      BY <2>5 DEF Identified, ReadLine
    <3>5. taken'[a] = buffer[i].call /\ \A c \in Actor : c # a => taken'[c] = taken[c]
      BY <3>1 DEF TypeOK
    <3> QED
      BY <2>3, <3>1, <3>2, <3>3, <3>4, <3>5
  <2>6. ASSUME NEW a \in Actor, ReadChunk(a) PROVE Sound(b)'
    BY <2>0, <2>6 DEF ReadChunk
  <2>7. CASE UserCalls
    BY <2>0, <2>7 DEF UserCalls, TypeOK, Actor
  <2>8. CASE Shutdown \/ Terminate \/ Wait \/ ClosePipes
    BY <2>0, <2>8 DEF Shutdown, Terminate, Wait, ClosePipes, TypeOK, Actor
  <2>9. CASE Constructed \/ Plugin \/ UNCHANGED vars
    BY <2>0, <2>9 DEF Constructed, Plugin, PluginReads, PluginBegins, PluginAnswers, PluginSkips,
                      PluginChatters, PluginExits, host, vars
  <2> QED
    BY <2>1, <2>2, <2>4, <2>5, <2>6, <2>7, <2>8, <2>9 DEF Next, Call, Close
<1> QED
  BY <1>1, <1>2, <1>3 DEF Identified, OwnAnswer, Numbered, Actor

-----------------------------------------------------------------------------
(* How much is pending. *)

LEMMA Lengths ==
  ASSUME TypeOK
  PROVE  /\ Len(stdin) \in Nat /\ Len(work) \in Nat
         /\ Len(stdout) \in Nat /\ Len(buffer) \in Nat /\ Pending \in Nat
         /\ Pending = 0 => /\ stdin = << >> /\ work = << >> /\ stdout = << >> /\ buffer = << >>
                          /\ Range(stdin) = {} /\ Range(work) = {}
                          /\ Range(stdout) = {} /\ Range(buffer) = {}
<1>1. /\ Len(stdin) \in Nat /\ Len(work) \in Nat /\ Len(stdout) \in Nat /\ Len(buffer) \in Nat
  BY Nothing DEF TypeOK
<1>2. Pending = 0 => Len(stdin) = 0 /\ Len(work) = 0 /\ Len(stdout) = 0 /\ Len(buffer) = 0
  BY <1>1 DEF Pending
<1> QED
  BY <1>1, <1>2, Nothing DEF Pending, TypeOK

\* The plugin's lines are out of place once it has written one that is.
LEMMA Unruliness ==
  ASSUME [Next]_vars
  PROVE  unruly => unruly'
BY DEF Next, Call, Close, Plugin, vars, UserCalls, Constructed, EnterDead, Enter, Write, WriteFails,
       Select, TimesOut, ReadChunk, ReadLine, ReadEnd, Shutdown, Terminate, Wait, ClosePipes,
       PluginReads, PluginBegins, PluginAnswers, PluginSkips, PluginChatters, PluginExits

\* Writing adds one message; reading a line takes one away; the plugin adds
\* none, unless it chatters.
LEMMA Volume ==
  ASSUME TypeOK, ~unruly', [Next]_vars
  PROVE  \/ \E a \in Actor : Write(a) /\ Pending' = Pending + 1
         \/ \E a \in Actor : ReadLine(a) /\ Pending' < Pending
         \/ Pending' <= Pending /\ \A a \in Actor : ~Write(a) /\ ~ReadLine(a)
<1>0. /\ Len(stdin) \in Nat /\ Len(work) \in Nat /\ Len(stdout) \in Nat /\ Len(buffer) \in Nat
  BY Lengths
<1>1. ASSUME NEW a \in Actor, Write(a) PROVE Pending' = Pending + 1
  <2>1. [id |-> callId[a], call |-> callNo[a]] \in Message
    BY DEF TypeOK, Message
  <2>2. Len(stdin') = Len(stdin) + 1
    BY <1>1, <2>1, Appended DEF Write, TypeOK
  <2>3. UNCHANGED << work, stdout, buffer >>
    BY <1>1 DEF Write
  <2> QED
    BY <1>0, <2>2, <2>3 DEF Pending
<1>2. ASSUME NEW a \in Actor, ReadLine(a) PROVE Pending' < Pending /\ Pending' <= Pending
  <2>1. PICK i \in LineEnds : buffer' = Rest(i)
    BY <1>2 DEF ReadLine
  <2>2. buffer \in Seq(AnyLine) /\ i \in 1 .. Len(buffer)
    BY DEF LineEnds, TypeOK
  <2>3. /\ i + 1 \in 1 .. Len(buffer) + 1 /\ Len(buffer) \in 0 .. Len(buffer)
        /\ i + 1 <= Len(buffer) + 1
    BY <1>0, <2>2
  <2>4. Len(SubSeq(buffer, i + 1, Len(buffer))) = Len(buffer) + 1 - (i + 1)
    BY <2>2, <2>3, Cut
  <2>5. Len(buffer') = Len(buffer) - i /\ i \in Nat /\ i > 0
    BY <1>0, <2>1, <2>2, <2>4 DEF Rest
  <2>6. UNCHANGED << stdin, work, stdout >>
    BY <1>2 DEF ReadLine, plugin
  <2> QED
    BY <1>0, <2>2, <2>5, <2>6 DEF Pending
<1>3. ASSUME NEW a \in Actor, ReadChunk(a) PROVE Pending' = Pending
  <2>1. PICK n \in 1 .. Len(stdout) :
          /\ buffer' = buffer \o SubSeq(stdout, 1, n)
          /\ stdout' = SubSeq(stdout, n + 1, Len(stdout))
    BY <1>3 DEF ReadChunk
  <2>2. stdout \in Seq(AnyLine) /\ buffer \in Seq(AnyLine)
    BY DEF TypeOK
  <2>3. /\ 1 \in 1 .. Len(stdout) + 1 /\ n \in 0 .. Len(stdout) /\ 1 <= n + 1
        /\ n + 1 \in 1 .. Len(stdout) + 1 /\ Len(stdout) \in 0 .. Len(stdout)
        /\ n + 1 <= Len(stdout) + 1 /\ n \in Nat
    BY <1>0
  <2>4. /\ SubSeq(stdout, 1, n) \in Seq(AnyLine) /\ Len(SubSeq(stdout, 1, n)) = n + 1 - 1
        /\ Len(stdout') = Len(stdout) + 1 - (n + 1)
    BY <2>1, <2>2, <2>3, Cut
  <2>5. \A u \in Seq(AnyLine) : Len(buffer \o u) = Len(buffer) + Len(u)
    BY <2>2, Joined
  <2>6. Len(buffer') = Len(buffer) + n
    BY <2>1, <2>3, <2>4, <2>5
  <2>7. UNCHANGED << stdin, work >>
    BY <1>3 DEF ReadChunk
  <2> QED
    BY <1>0, <2>3, <2>4, <2>6, <2>7 DEF Pending
<1>4. ASSUME NEW a \in Actor, ReadEnd(a) PROVE Pending' <= Pending
  <2>1. Len(buffer') = 0 \/ buffer' = buffer
    BY <1>4, Nothing DEF ReadEnd
  <2>2. UNCHANGED << stdin, work, stdout >>
    BY <1>4 DEF ReadEnd, plugin
  <2> QED
    BY <1>0, <2>1, <2>2 DEF Pending
<1>5. ASSUME PluginReads PROVE Pending' <= Pending
  <2>1. Len(stdin') = Len(stdin) - 1 /\ Len(work') = 1 /\ Len(work) = 0
    BY <1>5, Taken, Single, Nothing DEF PluginReads, TypeOK
  <2>2. UNCHANGED << stdout, buffer >>
    BY <1>5 DEF PluginReads, host
  <2> QED
    BY <1>0, <2>1, <2>2 DEF Pending
<1>6. ASSUME PluginAnswers PROVE Pending' <= Pending
  <2>1. work # << >> /\ work[1] \in Message
    BY <1>6, Taken DEF PluginAnswers, TypeOK
  <2>2. PICK line \in AnyLine : stdout' = Append(stdout, line)
    BY <1>6, <2>1 DEF PluginAnswers, Line, AnyLine, Message
  <2>3. Len(stdout') = Len(stdout) + 1
    BY <2>2, Appended DEF TypeOK
  <2>4. Len(work') = 0 /\ Len(work) # 0
    BY <1>6, <2>1, Nothing DEF PluginAnswers, TypeOK
  <2>5. UNCHANGED << stdin, buffer >>
    BY <1>6 DEF PluginAnswers, host
  <2> QED
    BY <1>0, <2>3, <2>4, <2>5 DEF Pending
<1>7. ASSUME PluginSkips PROVE Pending' <= Pending
  <2>1. Len(work') = 0
    BY <1>7, Nothing DEF PluginSkips
  <2>2. UNCHANGED << stdin, stdout, buffer >>
    BY <1>7 DEF PluginSkips, host
  <2> QED
    BY <1>0, <2>1, <2>2 DEF Pending
<1>8. ASSUME PluginExits \/ Wait PROVE Pending' <= Pending
  <2>1. Len(work') = 0 /\ Len(stdin') = 0
    BY <1>8, Nothing DEF PluginExits, Wait
  <2>2. UNCHANGED << stdout, buffer >>
    BY <1>8 DEF PluginExits, Wait, host
  <2> QED
    BY <1>0, <2>1, <2>2 DEF Pending
<1>9. ASSUME NEW a \in Actor,
             EnterDead(a) \/ Enter(a) \/ WriteFails(a) \/ Select(a) \/ TimesOut(a)
      PROVE  Pending' = Pending
  BY <1>0, <1>9 DEF EnterDead, Enter, WriteFails, Select, TimesOut, plugin, Pending
<1>10. ASSUME UserCalls \/ Constructed \/ Shutdown \/ Terminate \/ ClosePipes \/ UNCHANGED vars
       PROVE  Pending' <= Pending
  BY <1>0, <1>10 DEF UserCalls, Constructed, Shutdown, Terminate, ClosePipes, vars, plugin, Pending
<1>11. Pending' <= Pending \/ \E a \in Actor : Write(a)
  <2>1. Pending \in Nat
    BY Lengths
  <2>2. ASSUME NEW a \in Actor, Call(a), ~Write(a) PROVE Pending' <= Pending
    BY <2>1, <2>2, <1>2, <1>3, <1>4, <1>9 DEF Call
  <2>3. ASSUME Plugin PROVE Pending' <= Pending
    BY <2>1, <2>3, <1>5, <1>6, <1>7, <1>8 DEF Plugin, PluginBegins, PluginChatters
  <2> QED
    BY <2>1, <2>2, <2>3, <1>8, <1>10 DEF Next, Close
<1> QED
  BY <1>1, <1>2, <1>11

-----------------------------------------------------------------------------
\* Which steps move a call: into the write, past it, and out of the lock.
LEMMA Moves ==
  ASSUME TypeOK, [Next]_vars
  PROVE  /\ alive' => alive
         /\ gaveUp => gaveUp'
         /\ \A a \in Actor : ~TimesOut(a) \/ gaveUp'
         /\ \A b \in Actor :
              /\ pc'[b] = "write" => (pc[b] = "write" /\ ~Write(b)) \/ Enter(b)
              /\ pc'[b] \in {"select", "read"} =>
                   (pc[b] \in {"select", "read"} /\ ~ReadLine(b)) \/ Write(b)
              /\ callId'[b] = callId[b] \/ Enter(b)
         /\ lock' = "none" =>
              \/ lock = "none"
              \/ \E a \in Actor : WriteFails(a) \/ TimesOut(a) \/ ReadLine(a) \/ ReadEnd(a)
<1> DEFINE Moved ==
      /\ alive' => alive
      /\ gaveUp => gaveUp'
      /\ \A a \in Actor : ~TimesOut(a) \/ gaveUp'
      /\ \A b \in Actor :
           /\ pc'[b] = "write" => (pc[b] = "write" /\ ~Write(b)) \/ Enter(b)
           /\ pc'[b] \in {"select", "read"} =>
                (pc[b] \in {"select", "read"} /\ ~ReadLine(b)) \/ Write(b)
           /\ callId'[b] = callId[b] \/ Enter(b)
      /\ lock' = "none" =>
           \/ lock = "none"
           \/ \E a \in Actor : WriteFails(a) \/ TimesOut(a) \/ ReadLine(a) \/ ReadEnd(a)
<1>0. /\ \A a \in Actor : TimesOut(a) => gaveUp'
      /\ \A b \in Actor : Write(b) => pc'[b] = "select"
      /\ \A b \in Actor : ReadLine(b) => pc'[b] \in {"idle", "stop"}
  BY DEF TimesOut, Write, ReadLine, Return, After, TypeOK
<1>1. ASSUME NEW a \in Actor, Enter(a) PROVE Moved
  <2>1. /\ pc'[a] = "write" /\ lock = "none" /\ UNCHANGED << alive, gaveUp >>
        /\ \A b \in Actor : b # a => pc'[b] = pc[b] /\ callId'[b] = callId[b]
    BY <1>1 DEF Enter, TypeOK, plugin
  <2> QED
    BY <1>0, <1>1, <2>1
<1>2. ASSUME NEW a \in Actor, Write(a) \/ Select(a) \/ ReadChunk(a) PROVE Moved
  <2>1. /\ UNCHANGED << alive, gaveUp, callId, lock >>
        /\ \A b \in Actor : b # a => pc'[b] = pc[b]
        /\ pc'[a] \in {"select", "read"}
        /\ pc[a] \in {"select", "read"} \/ Write(a)
    BY <1>2 DEF Write, Select, ReadChunk, TypeOK, plugin
  <2> QED
    BY <1>0, <2>1
<1>3. ASSUME NEW a \in Actor,
             EnterDead(a) \/ WriteFails(a) \/ TimesOut(a) \/ ReadLine(a) \/ ReadEnd(a)
      PROVE Moved
  <2>1. /\ UNCHANGED << alive, callId >>
        /\ gaveUp => gaveUp'
        /\ \A b \in Actor : b # a => pc'[b] = pc[b]
        /\ pc'[a] \in {"idle", "stop"}
        /\ EnterDead(a) => lock = "none"
    BY <1>3 DEF EnterDead, WriteFails, TimesOut, ReadLine, ReadEnd, Return, After, TypeOK, plugin
  <2> QED
    BY <1>0, <1>3, <2>1
<1>4. ASSUME UserCalls \/ Shutdown \/ Terminate \/ Wait \/ ClosePipes PROVE Moved
  <2>1. /\ UNCHANGED << lock, callId, gaveUp >>
        /\ \A b \in Actor : pc'[b] = pc[b] \/ pc'[b] \in {"lock", "stop", "wait", "close", "done"}
    BY <1>4 DEF UserCalls, Shutdown, Terminate, Wait, ClosePipes, TypeOK, Actor
  <2>2. alive' => alive
    BY <1>4 DEF UserCalls, Shutdown, Terminate, Wait, Killed, ClosePipes, plugin
  <2> QED
    BY <1>0, <2>1, <2>2
<1>5. ASSUME Constructed \/ Plugin \/ UNCHANGED vars PROVE Moved
  <2>1. UNCHANGED << pc, lock, callId, gaveUp >>
    BY <1>5 DEF Constructed, Plugin, PluginReads, PluginBegins, PluginAnswers, PluginSkips,
                PluginChatters, PluginExits, host, vars
  <2>2. alive' => alive
    BY <1>5 DEF Constructed, Plugin, PluginReads, PluginBegins, PluginAnswers, PluginSkips,
                PluginChatters, PluginExits, plugin, vars
  <2> QED
    BY <1>0, <2>1, <2>2
<1> QED
  BY <1>1, <1>2, <1>3, <1>4, <1>5 DEF Next, Call, Close

\* The process goes first, then the pipes.
LEMMA ClosedStep ==
  ASSUME TypeOK, ClosedAfter, [Next]_vars
  PROVE  ClosedAfter'
<1>0. alive' => alive
  BY Moves
<1>1. ASSUME NEW a \in Actor, Call(a) PROVE ClosedAfter'
  <2>1. piped' = piped
    BY <1>1 DEF Call, EnterDead, Enter, Write, WriteFails, Select, TimesOut, ReadChunk,
                ReadLine, ReadEnd
  <2>2. pc'["closer"] \in {"close", "done"} => pc["closer"] \in {"close", "done"}
    BY <1>1 DEF Call, EnterDead, Enter, Write, WriteFails, Select, TimesOut, ReadChunk,
                ReadLine, ReadEnd, Return, After, TypeOK, Actor
  <2> QED
    BY <1>0, <2>1, <2>2 DEF ClosedAfter
<1>2. CASE Shutdown \/ Terminate \/ Wait \/ ClosePipes
  BY <1>0, <1>2 DEF Shutdown, Terminate, Wait, Killed, ClosePipes, TypeOK, Actor, ClosedAfter, plugin
<1>3. CASE UserCalls
  BY <1>0, <1>3 DEF UserCalls, TypeOK, Actor, ClosedAfter
<1>4. CASE Constructed \/ Plugin \/ UNCHANGED vars
  BY <1>0, <1>4 DEF Constructed, Plugin, PluginReads, PluginBegins, PluginAnswers, PluginSkips,
                    PluginChatters, PluginExits, host, vars, ClosedAfter
<1> QED
  BY <1>1, <1>2, <1>3, <1>4 DEF Next, Close

\* Nothing but the call under way is pending, and no line is out of place.
LEMMA InStepStep ==
  ASSUME TypeOK, TypeOK', OneCall, InStep, InStepUntilTimeout, ClosedAfter, [Next]_vars
  PROVE  InStep' /\ InStepUntilTimeout'
<1> SUFFICES ASSUME ~unruly', ~gaveUp'
             PROVE  /\ \A m \in Range(stdout)' \union Range(buffer)' : m.kind \in {"result", "error"}
                    /\ lock' = "none" /\ alive' => Pending' = 0
                    /\ \A b \in Actor :
                         /\ pc'[b] = "write" => Pending' = 0
                         /\ pc'[b] \in {"select", "read"} =>
                              /\ Pending' <= 1
                              /\ \A m \in Range(stdin)' \union Range(work)' \union Range(stdout)'
                                           \union Range(buffer)' : m.id = callId'[b]
                         /\ outcome'[b] \notin {"mismatch", "junk"}
  BY DEF InStep, InStepUntilTimeout
<1>1. ~unruly /\ ~gaveUp /\ \A a \in Actor : ~TimesOut(a)
  BY Moves, Unruliness
<1>2. /\ \A m \in Range(stdout) \union Range(buffer) : m.kind \in {"result", "error"}
      /\ lock = "none" /\ alive => Pending = 0
      /\ \A a \in Actor :
           /\ pc[a] = "write" => Pending = 0
           /\ pc[a] \in {"select", "read"} =>
                /\ Pending <= 1
                /\ \A m \in Range(stdin) \union Range(work) \union Range(stdout)
                             \union Range(buffer) : m.id = callId[a]
           /\ outcome[a] \notin {"mismatch", "junk"}
  BY <1>1 DEF InStep, InStepUntilTimeout
<1>3. Pending \in Nat /\ Pending' \in Nat
  BY Lengths, Nothing DEF TypeOK, Pending
<1>4. alive' => alive
  BY Moves
<1>5. \A a, b \in Actor : Calling(a) /\ Calling(b) => a = b
  BY DEF OneCall
<1>6. \A a \in Actor : /\ Write(a) => pc[a] = "write" /\ lock = a
                       /\ ReadLine(a) \/ ReadEnd(a) => pc[a] = "read" /\ lock = a
                       /\ Enter(a) => lock = "none" /\ alive
                       /\ WriteFails(a) => ~alive
  BY DEF Write, ReadLine, ReadEnd, Enter, WriteFails, OneCall, Calling
<1>7. "none" \notin Actor
  BY DEF Actor
<1>8. \A m \in Range(stdout)' \union Range(buffer)' : m.kind \in {"result", "error"}
  BY <1>2, Traffic
<1>9. ASSUME NEW a \in Actor, ReadEnd(a) PROVE ~alive /\ (piped => buffer = << >>)
  <2>1. ~piped => ~alive
    BY DEF ClosedAfter
  <2>2. piped => ~alive /\ LineEnds = {}
    BY <1>9 DEF ReadEnd
  <2>3. Halves(buffer) = {}
    BY <1>2 DEF Halves, Range
  <2>4. LineEnds = {} => DOMAIN buffer = {}
    BY <2>3 DEF LineEnds
  <2>5. DOMAIN buffer = 1 .. Len(buffer) /\ Len(buffer) \in Nat
    BY Nothing DEF TypeOK
  <2>6. DOMAIN buffer = {} => Len(buffer) = 0
    BY <2>5
  <2> QED
    BY <2>1, <2>2, <2>4, <2>6, Nothing DEF TypeOK
<1>10. ASSUME lock' = "none", alive' PROVE Pending' = 0
  <2>1. CASE lock = "none"
    <3>1. \A a \in Actor : ~Write(a) /\ ~ReadLine(a)
      BY <1>6, <1>7, <2>1
    <3> QED
      BY <1>2, <1>3, <1>4, <1>10, <2>1, <3>1, Volume
  <2>2. CASE lock # "none"
    <3>1. PICK a \in Actor : WriteFails(a) \/ ReadLine(a) \/ ReadEnd(a)
      BY <1>1, <1>10, <2>2, Moves
    <3>2. ReadLine(a)
      BY <1>4, <1>6, <1>9, <1>10, <3>1
    <3>3. Pending <= 1 /\ \A c \in Actor : ~Write(c)
      BY <1>2, <1>5, <1>6, <3>2 DEF Calling
    <3>4. \A c \in Actor : ReadLine(c) => c = a
      BY <1>6, <3>2
    <3>5. Pending' < Pending
      BY <3>2, <3>3, Volume
    <3> QED
      BY <1>3, <3>3, <3>5
  <2> QED
    BY <2>1, <2>2
<1>11. ASSUME NEW b \in Actor, pc'[b] = "write" PROVE Pending' = 0
  <2>1. CASE pc[b] = "write" /\ ~Write(b)
    <3>1. \A a \in Actor : ~Write(a) /\ ~ReadLine(a)
      BY <1>5, <1>6, <2>1 DEF Calling
    <3> QED
      BY <1>2, <1>3, <2>1, <3>1, Volume
  <2>2. CASE Enter(b)
    <3>1. \A a \in Actor : ~Write(a) /\ ~ReadLine(a)
      BY <1>6, <1>7, <2>2
    <3> QED
      BY <1>2, <1>3, <1>6, <2>2, <3>1, Volume
  <2> QED
    BY <1>11, <2>1, <2>2, Moves
<1>12. ASSUME NEW b \in Actor, pc'[b] \in {"select", "read"}
       PROVE  /\ Pending' <= 1
              /\ \A m \in Range(stdin)' \union Range(work)' \union Range(stdout)'
                           \union Range(buffer)' : m.id = callId'[b]
  <2>1. CASE pc[b] \in {"select", "read"} /\ ~ReadLine(b)
    <3>1. \A a \in Actor : ~Write(a) /\ ~ReadLine(a)
      BY <1>5, <1>6, <2>1 DEF Calling
    <3>2. Pending' <= 1
      BY <1>2, <1>3, <2>1, <3>1, Volume
    <3>3. callId'[b] = callId[b]
      <4>1. ~Enter(b)
        BY <2>1 DEF Enter
      <4> QED
        BY <4>1, Moves
    <3> QED
      BY <1>2, <2>1, <3>1, <3>2, <3>3, Traffic
  <2>2. CASE Write(b)
    <3>1. Pending = 0
      BY <1>2, <1>6, <2>2
    <3>2. Pending' <= 1
      BY <1>3, <3>1, Volume
    <3>3. /\ Range(stdin) = {} /\ Range(work) = {} /\ Range(stdout) = {} /\ Range(buffer) = {}
      BY <3>1, Lengths
    <3>4. \A a \in Actor : Write(a) => a = b
      BY <1>5, <1>6, <2>2 DEF Calling
    <3>5. callId'[b] = callId[b]
      BY <2>2 DEF Write
    <3> QED
      BY <3>2, <3>3, <3>4, <3>5, Traffic
  <2> QED
    BY <1>12, <2>1, <2>2, Moves
<1>13. ASSUME NEW b \in Actor PROVE outcome'[b] \notin {"mismatch", "junk"}
  <2>1. ASSUME NEW a \in Actor, NEW o, Return(a, o), o \notin {"mismatch", "junk"}
        PROVE  outcome'[b] \notin {"mismatch", "junk"}
    BY <1>2, <2>1 DEF Return, TypeOK
  <2>2. ASSUME NEW a \in Actor, ReadLine(a) PROVE outcome'[b] \notin {"mismatch", "junk"}
    <3>1. PICK i \in LineEnds : Return(a, Verdict(a, buffer[i]))
      BY <2>2 DEF ReadLine
    <3>2. buffer[i] \in Range(buffer)
      BY DEF LineEnds, Range
    <3>3. buffer[i].id = callId[a] /\ buffer[i].kind \in {"result", "error"}
      BY <1>2, <1>6, <2>2, <3>2
    <3>4. Verdict(a, buffer[i]) \notin {"mismatch", "junk"}
      BY <3>3 DEF Verdict, Matches
    <3> QED
      BY <2>1, <3>1, <3>4
  <2>3. ASSUME NEW a \in Actor, EnterDead(a) \/ WriteFails(a) \/ ReadEnd(a)
        PROVE  outcome'[b] \notin {"mismatch", "junk"}
    <3>1. Return(a, "dead")
      BY <1>9, <2>3 DEF EnterDead, WriteFails, ReadEnd
    <3> QED
      BY <2>1, <3>1
  <2>4. CASE UserCalls
    BY <1>2, <2>4 DEF UserCalls, TypeOK
  <2>5. ASSUME NEW a \in Actor, Enter(a) \/ Write(a) \/ Select(a) \/ ReadChunk(a)
        PROVE  outcome'[b] \notin {"mismatch", "junk"}
    BY <1>2, <2>5 DEF Enter, Write, Select, ReadChunk
  <2>6. CASE Constructed \/ Close \/ Plugin \/ UNCHANGED vars
    BY <1>2, <2>6 DEF Constructed, Close, Shutdown, Terminate, Wait, ClosePipes, Plugin,
                      PluginReads, PluginBegins, PluginAnswers, PluginSkips, PluginChatters,
                      PluginExits, host, vars
  <2> QED
    BY <1>1, <2>2, <2>3, <2>4, <2>5, <2>6 DEF Next, Call
<1> QED
  BY <1>8, <1>10, <1>11, <1>12, <1>13

-----------------------------------------------------------------------------
(* The theorems. *)

LEMMA InvInit == Init => IInv
<1> SUFFICES ASSUME Init PROVE IInv
  OBVIOUS
<1>1. TypeOK
  BY TypeInit
<1>2. /\ Range(stdin) = {} /\ Range(work) = {} /\ Range(stdout) = {} /\ Range(buffer) = {}
      /\ Pending = 0
  BY Nothing DEF Init, Pending
<1>3. \A a \in Actor : pc[a] = "idle" /\ outcome[a] = "none" /\ callId[a] = callNo[a]
  BY DEF Init
<1>4. "none" \notin Actor /\ "closer" \in Actor
  BY DEF Actor
<1>5. OneCall
  BY <1>3, <1>4 DEF OneCall, Calling, Init
<1>6. Identified
  BY <1>2, <1>3, <1>4 DEF Identified, Calling, Init
<1>7. OwnAnswer /\ InStepUntilTimeout
  BY <1>3 DEF OwnAnswer, InStepUntilTimeout
<1>8. InStep
  BY <1>2, <1>3 DEF InStep
<1>9. ClosedAfter
  BY <1>3, <1>4 DEF ClosedAfter, Init
<1> QED
  BY <1>1, <1>5, <1>6, <1>7, <1>8, <1>9 DEF IInv

\* The inductive invariant: types, the lock, what ids stand for, and what is
\* pending in the pipes of a runtime that is in step.
THEOREM Invariance == Spec => []IInv
<1>1. IInv /\ [Next]_vars => IInv'
  <2> SUFFICES ASSUME IInv, [Next]_vars PROVE IInv'
    OBVIOUS
  <2>1. TypeOK' /\ OneCall' /\ Identified' /\ OwnAnswer' /\ ClosedAfter'
    BY TypeStep, OneCallStep, IdentifiedStep, ClosedStep DEF IInv
  <2>2. InStep' /\ InStepUntilTimeout'
    BY <2>1, InStepStep DEF IInv
  <2> QED
    BY <2>1, <2>2 DEF IInv
<1> QED
  BY InvInit, <1>1, PTL DEF Spec

\* Every variable of the runtime, the pipes and the plugin keeps its type.
THEOREM TypeCorrect == Spec => []TypeOK
<1>1. IInv => TypeOK
  BY DEF IInv
<1> QED
  BY Invariance, <1>1, PTL

\* A call that returns a result returns the answer to its own request, whatever
\* the plugin writes, however late, and however many calls timed out before
\* (the id check of supervisor.py, lines 188-193, and the ids of 123-126).
THEOREM AnswersAreOwn == Spec => []OwnAnswer
<1>1. IInv => OwnAnswer
  BY DEF IInv
<1> QED
  BY Invariance, <1>1, PTL

\* A plugin that writes one line per request is never out of step with the host
\* before a call has timed out: no call fails on a foreign id or on junk.
THEOREM InStepBeforeTimeouts == Spec => []InStepUntilTimeout
<1>1. IInv => InStepUntilTimeout
  BY DEF IInv
<1> QED
  BY Invariance, <1>1, PTL

\* The process is gone when shutdown has returned (supervisor.py, lines 226-231).
THEOREM ShutdownsKill == Spec => []ShutdownKills
<1>1. IInv => ShutdownKills
  BY DEF IInv, ClosedAfter, ShutdownKills
<1> QED
  BY Invariance, <1>1, PTL
=============================================================================
