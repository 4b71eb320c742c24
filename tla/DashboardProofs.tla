--------------------------- MODULE DashboardProofs ---------------------------
(***************************************************************************)
(* Proofs about what the two pages of the dashboard show: the page of the  *)
(* plugins, whose updates are ProfileUpdates, for every number of tabs and *)
(* edits; and the page of the traffic, whose listing is a walk of Journal, *)
(* for any number of requests, clients and records.  The two modules share *)
(* no variable; what is about Journal has the prefix J, as there.          *)
(***************************************************************************)
EXTENDS ProfileUpdates, Journal, SequenceTheorems, TLAPS

(***************************************************************************)
(* ProfileUpdates.                                                         *)
(***************************************************************************)

LEMMA TypeInit == Init => TypeOK
<1> SUFFICES ASSUME Init PROVE TypeOK
  OBVIOUS
<1>1. /\ inventory \in [Tab -> Inventory] /\ fetched \in [Tab -> Inventory]
      /\ request \in [Tab -> Update]
  BY DEF Init, Inventory, Update, Section, NoInventory, NoRequest
<1>2. hasty \in BOOLEAN
  BY DEF Init
<1> QED
  BY <1>1, <1>2 DEF Init, TypeOK, Section

LEMMA TypeStep ==
  ASSUME TypeOK, [Next]_vars
  PROVE  TypeOK'
<1> USE DEF TypeOK, gateway, Inventory, Update, Section, NoInventory, NoRequest
<1>1. ASSUME NEW c \in Tab, Accept(c) PROVE TypeOK'
  BY <1>1 DEF Accept, Answer, Activated, Landed
<1>2. ASSUME NEW c \in Tab, Reject(c) PROVE TypeOK'
  BY <1>2 DEF Reject, Answer
<1>3. ASSUME NEW c \in Tab, Fail(c) PROVE TypeOK'
  BY <1>3 DEF Fail, Answer, Unwritten
<1>4. ASSUME NEW c \in Tab, Fetch(c) PROVE TypeOK'
  BY <1>4 DEF Fetch, CurrentInventory
<1>5. ASSUME NEW c \in Tab, Sync(c) PROVE TypeOK'
  BY <1>5 DEF Sync
<1>6. ASSUME NEW c \in Tab, Patch(c) PROVE TypeOK'
  BY <1>6 DEF Patch
<1>7. ASSUME NEW c \in Tab, Discard(c) PROVE TypeOK'
  BY <1>7 DEF Discard, DropDraft
<1>8. ASSUME NEW c \in Tab, Toggle(c) PROVE TypeOK'
  BY <1>8 DEF Toggle, Send
<1>9. ASSUME NEW c \in Tab, Save(c) PROVE TypeOK'
  BY <1>9 DEF Save, Send, Dirty
<1>10. ASSUME NEW c \in Tab, Answered(c) PROVE TypeOK'
  <2>1. answer' \in [Tab -> {"none", "ok", "conflict", "error"}]
    BY <1>10 DEF Answered
  <2>2. inventory' \in [Tab -> Inventory] /\ fetched' \in [Tab -> Inventory]
    <3>1. NoInventory \in Inventory /\ fetched[c] \in Inventory
      BY <1>10
    <3>2. \/ UNCHANGED << inventory, fetched >>
          \/ /\ inventory' = [inventory EXCEPT ![c] = fetched[c]]
             /\ fetched' = [fetched EXCEPT ![c] = NoInventory]
      BY <1>10 DEF Answered
    <3> HIDE DEF Inventory, NoInventory
    <3> QED
      BY <3>1, <3>2
  <2>3. drafting' \subseteq Tab /\ draft' \in [Tab -> Section] /\ told' \subseteq drafting'
    BY <1>10 DEF Answered, DropDraft
  <2> QED
    BY <1>10, <2>1, <2>2, <2>3 DEF Answered
<1>11. CASE Restart
  BY <1>11 DEF Restart
<1>12. CASE UNCHANGED vars
  BY <1>12 DEF vars
<1> QED
  BY <1>1, <1>2, <1>3, <1>4, <1>5, <1>6, <1>7, <1>8, <1>9, <1>10, <1>11, <1>12 DEF Next

-----------------------------------------------------------------------------
(* Before the first restart, and while users wait for inventories. *)

InvCalm == TypeOK /\ landed \subseteq file /\ \A c \in Tab : InStep(c)

LEMMA CalmInit == Init => InvCalm
<1> SUFFICES ASSUME Init PROVE InvCalm
  OBVIOUS
<1>1. TypeOK
  BY TypeInit
<1>2. \A c \in Tab : InStep(c)
  BY DEF Init, InStep, Current, NoInventory, NoRequest
<1> QED
  BY <1>1, <1>2 DEF Init, InvCalm

\* An accepted update moves the generation past every inventory and request.
LEMMA AcceptStep ==
  ASSUME InvCalm, NEW c \in Tab, Accept(c), TypeOK'
  PROVE  InvCalm'
<1>1. /\ request[c] # NoRequest /\ request[c].expected = generation
      /\ file' = request[c].section /\ generation' = generation + 1
      /\ landed' = Landed(request[c])
      /\ UNCHANGED << inventory, drafting, draft, told >>
  BY DEF Accept, Expected, Activated
<1>2. file \subseteq file' \union request[c].over
  BY <1>1 DEF InvCalm, InStep
<1>3. (landed \subseteq file)'
  BY <1>1, <1>2 DEF InvCalm, Landed
<1>4. ASSUME NEW d \in Tab PROVE InStep(d)'
  <2>1. /\ request'[d] = IF d = c THEN NoRequest ELSE request[d]
        /\ answer'[d] = IF d = c THEN "ok" ELSE answer[d]
        /\ fetched'[d] = IF d = c THEN NoInventory ELSE fetched[d]
    BY DEF Accept, Answer, InvCalm, TypeOK
  <2>2. /\ generation \in Nat /\ request[d].expected \in Nat
        /\ inventory[d].generation \in Nat /\ fetched[d].generation \in Nat
    BY DEF InvCalm, TypeOK, Inventory, Update
  <2>3. InStep(d)
    BY DEF InvCalm
  <2>4. Current(inventory[d])' /\ Current(fetched[d])'
    BY <1>1, <2>1, <2>2, <2>3 DEF InStep, Current, NoInventory
  <2>5. /\ request'[d].expected < generation'
        /\ request'[d] # NoRequest => answer'[d] = "none"
    BY <1>1, <2>1, <2>2, <2>3 DEF InStep, NoRequest
  <2>6. d \in drafting' /\ answer'[d] \in {"none", "error"} => fetched'[d] = NoInventory
    BY <1>1, <2>1, <2>3 DEF InStep
  <2>7. d \in drafting' \ told' => inventory'[d].section \subseteq draft'[d]
    BY <1>1, <2>3 DEF InStep
  <2>8. generation' \in Nat /\ request'[d].expected \in Nat
    BY <1>1, <2>1, <2>2 DEF NoRequest
  <2> QED
    BY <2>4, <2>5, <2>6, <2>7, <2>8 DEF InStep
<1> QED
  BY <1>3, <1>4 DEF InvCalm

\* A request that is not accepted changes the answer only.
LEMMA RefuseStep ==
  ASSUME InvCalm, NEW c \in Tab, Reject(c) \/ Fail(c), TypeOK'
  PROVE  InvCalm'
<1>1. PICK a \in {"conflict", "error"} : Answer(c, a)
  BY DEF Reject, Fail
<1>2. /\ request[c] # NoRequest
      /\ UNCHANGED << file, generation, landed, inventory, drafting, draft, told >>
  BY DEF Reject, Fail, Unwritten, gateway
<1>3. ASSUME NEW d \in Tab PROVE InStep(d)'
  <2>1. /\ request'[d] = IF d = c THEN NoRequest ELSE request[d]
        /\ answer'[d] = IF d = c THEN a ELSE answer[d]
        /\ fetched'[d] = IF d = c /\ a = "conflict" THEN NoInventory ELSE fetched[d]
    BY <1>1 DEF Answer, InvCalm, TypeOK
  <2>2. InStep(d) /\ generation \in Nat \ {0}
    BY DEF InvCalm, TypeOK
  <2>3. Current(inventory[d])' /\ Current(fetched[d])'
    BY <1>2, <2>1, <2>2 DEF InStep, Current, NoInventory
  <2> QED
    BY <1>2, <2>1, <2>2, <2>3 DEF InStep, NoRequest
<1> QED
  BY <1>2, <1>3 DEF InvCalm

LEMMA CalmStep ==
  ASSUME Calm', InvCalm, [Next]_vars
  PROVE  InvCalm'
<1>t. TypeOK'
  BY TypeStep DEF InvCalm
<1>1. ASSUME NEW c \in Tab, Accept(c) PROVE InvCalm'
  BY <1>t, <1>1, AcceptStep
<1>2. ASSUME NEW c \in Tab, Reject(c) \/ Fail(c) PROVE InvCalm'
  BY <1>t, <1>2, RefuseStep
<1>3. ASSUME UNCHANGED << file, generation, landed >>, \A d \in Tab : InStep(d)' PROVE InvCalm'
  BY <1>t, <1>3 DEF InvCalm
<1> USE DEF gateway
<1>4. ASSUME NEW c \in Tab, Fetch(c) PROVE InvCalm'
  <2> SUFFICES ASSUME NEW d \in Tab PROVE InStep(d)'
    BY <1>3, <1>4 DEF Fetch
  <2>1. InStep(d)
    BY DEF InvCalm
  <2>2. /\ fetched'[d] = IF d = c THEN CurrentInventory ELSE fetched[d]
        /\ UNCHANGED << file, generation, inventory, drafting, draft, request, answer, told >>
    BY <1>4 DEF Fetch, InvCalm, TypeOK
  <2>3. d = c => ~(c \in drafting /\ answer[c] \in {"none", "error"})
    BY <1>4 DEF Fetch, Calm
  <2>4. Current(inventory[d])' /\ Current(fetched[d])'
    BY <2>1, <2>2 DEF InStep, Current, CurrentInventory, InvCalm, TypeOK
  <2> QED
    BY <2>1, <2>2, <2>3, <2>4 DEF InStep
<1>5. ASSUME NEW c \in Tab, Sync(c) PROVE InvCalm'
  <2> SUFFICES ASSUME NEW d \in Tab PROVE InStep(d)'
    BY <1>3, <1>5 DEF Sync
  <2>1. InStep(d)
    BY DEF InvCalm
  <2>2. /\ inventory'[d] = IF d = c THEN fetched[d] ELSE inventory[d]
        /\ fetched'[d] = IF d = c THEN NoInventory ELSE fetched[d]
        /\ UNCHANGED << file, generation, drafting, draft, request, answer, told >>
    BY <1>5 DEF Sync, InvCalm, TypeOK
  <2>3. d = c => d \notin drafting
    BY <1>5, <2>1 DEF Sync, InStep
  <2>4. Current(inventory[d])' /\ Current(fetched[d])'
    BY <2>1, <2>2 DEF InStep, Current, NoInventory, InvCalm, TypeOK
  <2> QED
    BY <2>1, <2>2, <2>3, <2>4 DEF InStep
<1>6. ASSUME NEW c \in Tab, Patch(c) PROVE InvCalm'
  <2> SUFFICES ASSUME NEW d \in Tab PROVE InStep(d)'
    BY <1>3, <1>6 DEF Patch
  <2>1. InStep(d)
    BY DEF InvCalm
  <2>2. PICK e \in Edit :
          draft' = [draft EXCEPT ![c] =
                      {e} \union IF c \in drafting THEN @ ELSE inventory[c].section]
    BY <1>6 DEF Patch
  <2>3. /\ draft'[d] = IF d = c
                       THEN {e} \union IF c \in drafting THEN draft[c] ELSE inventory[c].section
                       ELSE draft[d]
        /\ drafting' = drafting \union {c}
        /\ UNCHANGED << file, generation, inventory, fetched, request, answer, told >>
    BY <1>6, <2>2 DEF Patch, InvCalm, TypeOK
  <2>4. d = c => fetched[d] = NoInventory
    BY <1>6 DEF Patch, Calm
  <2>5. Current(inventory[d])' /\ Current(fetched[d])'
    BY <2>1, <2>3 DEF InStep, Current
  <2> QED
    BY <2>1, <2>3, <2>4, <2>5 DEF InStep
<1>7. ASSUME NEW c \in Tab, Discard(c) PROVE InvCalm'
  <2> SUFFICES ASSUME NEW d \in Tab PROVE InStep(d)'
    BY <1>3, <1>7 DEF Discard
  <2>1. InStep(d)
    BY DEF InvCalm
  <2>2. /\ drafting' = drafting \ {c} /\ told' = told \ {c}
        /\ UNCHANGED << file, generation, inventory, fetched, request, answer >>
    BY <1>7 DEF Discard, DropDraft
  <2>3. d \in drafting' \ told' => inventory[d].section \subseteq draft'[d]
    BY <1>7, <2>1 DEF Discard, DropDraft, InStep, InvCalm, TypeOK
  <2>4. Current(inventory[d])' /\ Current(fetched[d])'
    BY <2>1, <2>2 DEF InStep, Current
  <2> QED
    BY <2>1, <2>2, <2>3, <2>4 DEF InStep
\* What goes out is the section of the tab's inventory with more, or a draft: that
\* contains the section, or what it leaves out the tab was told of.
<1>8. ASSUME NEW c \in Tab, Toggle(c) \/ Save(c) PROVE InvCalm'
  <2> SUFFICES ASSUME NEW d \in Tab PROVE InStep(d)'
    BY <1>3, <1>8 DEF Toggle, Save
  <2>1. InStep(d)
    BY DEF InvCalm
  <2>2. UNCHANGED << file, generation, inventory, drafting, draft, fetched, answer, told >>
    BY <1>8 DEF Toggle, Save
  <2>3. PICK section, over :
          /\ Send(c, section, over)
          /\ inventory[c].section \subseteq section \union over
    <3>1. CASE Toggle(c)
      BY <3>1 DEF Toggle
    <3>2. CASE Save(c)
      <4>1. InStep(c)
        BY DEF InvCalm
      <4> QED
        BY <3>2, <4>1 DEF Save, Dirty, InStep
    <3> QED
      BY <1>8, <3>1, <3>2
  <2>4. request'[d] = IF d = c
                      THEN [expected |-> inventory[c].generation, section |-> section,
                            over |-> over]
                      ELSE request[d]
    BY <2>3 DEF Send, InvCalm, TypeOK
  <2>5. Current(inventory[d])' /\ Current(fetched[d])'
    BY <2>1, <2>2 DEF InStep, Current
  <2>6. d = c => answer[d] = "none"
    BY <1>8 DEF Toggle, Save, Saving
  <2>7. /\ request'[d].expected <= generation
        /\ request'[d].expected = generation
             => file \subseteq request'[d].section \union request'[d].over
        /\ request'[d] # NoRequest => answer[d] = "none"
    BY <2>1, <2>3, <2>4, <2>6 DEF InStep, Current
  <2> QED
    BY <2>1, <2>2, <2>5, <2>7 DEF InStep
<1>9. ASSUME NEW c \in Tab, Answered(c) PROVE InvCalm'
  <2> SUFFICES ASSUME NEW d \in Tab PROVE InStep(d)'
    BY <1>3, <1>9 DEF Answered
  <2>1. InStep(d)
    BY DEF InvCalm
  <2>2. /\ answer'[d] = IF d = c THEN "none" ELSE answer[d]
        /\ UNCHANGED << file, generation, request >>
    BY <1>9 DEF Answered, InvCalm, TypeOK
  <2>3. CASE answer[c] = "error"
    <3>1. UNCHANGED << inventory, drafting, draft, fetched, told >>
      BY <1>9, <2>3 DEF Answered
    <3>2. Current(inventory[d])' /\ Current(fetched[d])'
      BY <2>1, <2>2, <3>1 DEF InStep, Current
    <3> QED
      BY <2>1, <2>2, <2>3, <3>1, <3>2 DEF InStep
  <2>4. CASE answer[c] # "error"
    <3>1. /\ inventory'[d] = IF d = c THEN fetched[d] ELSE inventory[d]
          /\ fetched'[d] = IF d = c THEN NoInventory ELSE fetched[d]
          /\ \/ /\ drafting' = drafting \ {c} /\ told' = told \ {c}
                /\ draft'[d] = IF d = c THEN {} ELSE draft[d]
             \/ /\ drafting' = drafting /\ told' = told \union ({c} \intersect drafting)
                /\ draft' = draft
      BY <1>9, <2>4 DEF Answered, DropDraft, InvCalm, TypeOK
    <3>2. Current(inventory[d])' /\ Current(fetched[d])'
      BY <2>1, <2>2, <3>1 DEF InStep, Current, NoInventory, InvCalm, TypeOK
    <3> QED
      BY <2>1, <2>2, <3>1, <3>2 DEF InStep
  <2> QED
    BY <2>3, <2>4
<1>10. CASE Restart
  BY <1>10 DEF Restart, Calm, InvCalm, TypeOK
<1>11. CASE UNCHANGED vars
  <2>1. \A d \in Tab : InStep(d)'
    BY <1>11 DEF InvCalm, vars, InStep, Current
  <2> QED
    BY <1>3, <1>11, <2>1 DEF vars
<1> QED
  BY <1>1, <1>2, <1>4, <1>5, <1>6, <1>7, <1>8, <1>9, <1>10, <1>11 DEF Next

-----------------------------------------------------------------------------
(* The theorems. *)

\* Every variable keeps its type, whatever users and restarts do.
THEOREM TypeCorrect == Spec => []TypeOK
BY TypeInit, TypeStep, PTL DEF Spec

\* Calm is lost for ever, and while it lasts every step keeps its invariant.
LEMMA Invariance == Spec => []IInv
<1>1. Init => IInv
  BY CalmInit DEF IInv, InvCalm
<1>2. ASSUME IInv, [Next]_vars PROVE IInv'
  <2>1. TypeOK'
    BY <1>2, TypeStep DEF IInv
  <2>2. Calm' => Calm
    <3>1. restarts \in Nat
      BY <1>2 DEF IInv, TypeOK
    <3>2. restarts' \in {restarts, restarts + 1} /\ (hasty => hasty')
      <4>1. ASSUME NEW c \in Tab,
                   \/ Accept(c) \/ Reject(c) \/ Fail(c) \/ Sync(c) \/ Discard(c)
                   \/ Toggle(c) \/ Save(c) \/ Answered(c)
            PROVE  restarts' = restarts /\ (hasty => hasty')
        BY <4>1 DEF gateway, Accept, Reject, Fail, Sync, Discard, Toggle, Save, Answered
      <4>2. ASSUME NEW c \in Tab, Fetch(c) \/ Patch(c)
            PROVE  restarts' = restarts /\ (hasty => hasty')
        BY <4>2 DEF gateway, Fetch, Patch
      <4>3. ASSUME Restart \/ UNCHANGED vars
            PROVE  restarts' \in {restarts, restarts + 1} /\ (hasty => hasty')
        BY <4>3 DEF Restart, vars
      <4> QED
        BY <1>2, <4>1, <4>2, <4>3 DEF Next
    <3> QED
      BY <3>1, <3>2 DEF Calm
  <2>3. Calm' => InvCalm'
    BY <1>2, <2>2, CalmStep DEF IInv, InvCalm
  <2> QED
    BY <2>1, <2>3 DEF IInv, InvCalm
<1> QED
  BY <1>1, <1>2, PTL DEF Spec

\* Until the gateway is restarted, and while users wait for inventories, an
\* accepted update undoes of others at most what the inventory that came with a
\* conflict had shown its tab, for any number of tabs and edits.
THEOREM UpdatesAreSafe == Spec => []NothingIsLostInOneRun
<1>1. IInv => NothingIsLostInOneRun
  BY DEF IInv, Calm, NothingIsLostInOneRun, NothingIsLost
<1> QED
  BY <1>1, Invariance, PTL

\* Restarts and failed updates included, the engine runs what the file says.
THEOREM EngineFollowsFile == Spec => []EngineRunsFile
<1>1. Init => EngineRunsFile
  BY DEF Init, EngineRunsFile
<1>2. EngineRunsFile /\ [Next]_vars => EngineRunsFile'
  BY DEF EngineRunsFile, Next, vars, gateway, Accept, Activated, Reject, Fail,
         Unwritten, Fetch, Sync, Patch, Discard, Toggle, Save, Answered, Restart
<1> QED
  BY <1>1, <1>2, PTL DEF Spec

(***************************************************************************)
(* Journal: its types, its index, and what a walk of the listing gets.     *)
(***************************************************************************)

USE DEF NoCursor, Full, Evicted

\* What appendleft makes of a deque that is within its bound and without
\* repetition, given a request it does not hold (store.py:76-86).
LEMMA PushedFacts ==
  ASSUME NEW r \in Request, records \in Seq(Request), Len(records) <= MaxRecords,
         IsInjective(records), r \notin ToSet(records)
  PROVE  /\ Pushed(r) \in Seq(Request)
         /\ Len(Pushed(r)) <= MaxRecords
         /\ ToSet(Pushed(r)) = (ToSet(records) \ Evicted) \union {r}
         /\ IsInjective(Pushed(r))
<1> DEFINE rest == IF Full THEN SubSeq(records, 1, MaxRecords - 1) ELSE records
<1>1. MaxRecords \in Nat \ {0}
  BY JournalAssumption DEF JournalAssumption
<1>2. /\ rest \in Seq(Request)
      /\ Len(rest) = IF Full THEN MaxRecords - 1 ELSE Len(records)
      /\ \A i \in 1 .. Len(rest) : rest[i] = records[i]
  BY <1>1, SubSeqProperties
<1>3. /\ Pushed(r) \in Seq(Request)
      /\ Len(Pushed(r)) = 1 + Len(rest)
      /\ \A i \in 1 .. 1 + Len(rest) :
           Pushed(r)[i] = IF i = 1 THEN r ELSE rest[i - 1]
  BY <1>2 DEF Pushed
<1> HIDE DEF rest
<1>4. /\ DOMAIN records = 1 .. Len(records)
      /\ DOMAIN Pushed(r) = 1 .. 1 + Len(rest)
      /\ Len(records) \in Nat /\ Len(rest) \in Nat
  BY <1>2, <1>3
<1>0. Len(rest) <= Len(records) /\ Len(rest) <= MaxRecords - 1
  <2>1. CASE Len(records) = MaxRecords
    BY <2>1, <1>1, <1>2
  <2>2. CASE Len(records) # MaxRecords
    <3>1. \A m, n \in Nat : n <= m /\ n # m => n <= n /\ n <= m - 1
      OBVIOUS
    <3>2. Len(rest) = Len(records)
      BY <2>2, <1>2
    <3> QED BY <3>1, <3>2, <2>2, <1>1, <1>4
  <2> QED BY <2>1, <2>2
<1>5. Len(Pushed(r)) <= MaxRecords
  BY <1>0, <1>1, <1>3, <1>4
<1>6. \A i \in 1 .. Len(rest) : rest[i] = records[i] /\ i \in DOMAIN records /\ rest[i] # r
  BY <1>0, <1>2, <1>4 DEF ToSet
<1>7. ToSet(rest) = ToSet(records) \ Evicted
  <2>1. DOMAIN rest = 1 .. Len(rest)
    BY <1>2
  <2>2. CASE ~Full
    BY <2>2, <2>1, <1>2, <1>4 DEF ToSet
  <2>3. CASE Full
    <3>1. /\ Len(records) = MaxRecords /\ Len(rest) = MaxRecords - 1
          /\ Evicted = {records[MaxRecords]}
      BY <2>3, <1>2
    <3>2. \A i \in 1 .. Len(rest) : records[i] # records[MaxRecords]
      BY <3>1, <1>1, <1>4 DEF IsInjective
    <3>3. 1 .. MaxRecords = (1 .. Len(rest)) \union {MaxRecords}
      BY <3>1, <1>1
    <3> QED BY <3>1, <3>2, <3>3, <2>1, <1>2, <1>4 DEF ToSet
  <2> QED BY <2>2, <2>3
<1>8. ToSet(Pushed(r)) = ToSet(rest) \union {r}
  <2>1. DOMAIN rest = 1 .. Len(rest)
    BY <1>2
  <2>2. \A i \in 1 .. Len(rest) : i + 1 \in 1 .. 1 + Len(rest) /\ Pushed(r)[i + 1] = rest[i]
    BY <1>3, <1>4
  <2>3. \A i \in 1 .. 1 + Len(rest) : i = 1 \/ (i - 1) \in 1 .. Len(rest)
    BY <1>4
  <2>4. ToSet(Pushed(r)) \subseteq ToSet(rest) \union {r}
    BY <2>1, <2>3, <1>3, <1>4 DEF ToSet
  <2>5. ToSet(rest) \union {r} \subseteq ToSet(Pushed(r))
    BY <2>1, <2>2, <1>3, <1>4 DEF ToSet
  <2> QED BY <2>4, <2>5
<1>9. IsInjective(Pushed(r))
  <2> SUFFICES ASSUME NEW a \in 1 .. 1 + Len(rest), NEW b \in 1 .. 1 + Len(rest),
                      Pushed(r)[a] = Pushed(r)[b]
               PROVE  a = b
    BY <1>4 DEF IsInjective
  <2>1. \A i \in 1 .. Len(rest), j \in 1 .. Len(rest) : rest[i] = rest[j] => i = j
    BY <1>6 DEF IsInjective
  <2>2. CASE a = 1 \/ b = 1
    BY <2>2, <1>3, <1>4, <1>6
  <2>3. CASE a # 1 /\ b # 1
    <3>1. (a - 1) \in 1 .. Len(rest) /\ (b - 1) \in 1 .. Len(rest)
      BY <2>3, <1>4
    <3>2. rest[a - 1] = rest[b - 1]
      BY <2>3, <1>3
    <3> QED BY <3>1, <3>2, <2>1
  <2> QED BY <2>2, <2>3
<1> QED BY <1>3, <1>5, <1>7, <1>8, <1>9

-----------------------------------------------------------------------------
(* The walk. *)

\* What a page adds to a walk (store.py:131-181, api.py:115).  B stands for the
\* records the walk has to get.
LEMMA PageFacts ==
  ASSUME JIInv, NEW from \in Reader, GetPage(from), from.got \subseteq Recorded,
         NEW B \in SUBSET Request,
         from.ordered =>
           /\ ~from.twice
           /\ \A r \in from.got : from.cursor # NoCursor /\ number[r] >= from.cursor
           /\ \A r \in B \intersect ToSet(records) :
                Fits(r, from.filter) => r \in from.got \/ Below(r, from.cursor)
  PROVE  /\ reader' \in Reader
         /\ reader'.got \subseteq Recorded
         /\ reader'.ordered =>
              /\ ~reader'.twice
              /\ reader'.at = "done" =>
                   \A r \in B \intersect ToSet(records) :
                     Fits(r, reader'.filter) => r \in reader'.got
              /\ reader'.at = "walking" =>
                   /\ reader'.cursor # NoCursor
                   /\ \A r \in reader'.got : number[r] >= reader'.cursor
                   /\ \A r \in B \intersect ToSet(records) :
                        Fits(r, reader'.filter) =>
                          r \in reader'.got \/ number[r] < reader'.cursor
<1> DEFINE found == Found(from.filter, from.cursor)
<1>0. PICK items \in Pages(from.limit, from.filter, from.cursor) :
        \E cursor \in NextCursors(items, from.limit) :
          reader' = [at      |-> IF Cardinality(items) < from.limit THEN "done" ELSE "walking",
                     limit   |-> from.limit,
                     filter  |-> from.filter,
                     cursor  |-> cursor,
                     got     |-> from.got \union At(items),
                     twice   |-> from.twice \/ At(items) \intersect from.got # {},
                     ordered |-> from.ordered /\ InOrder]
  BY DEF GetPage
<1>1. PICK cursor \in NextCursors(items, from.limit) :
        reader' = [at      |-> IF Cardinality(items) < from.limit THEN "done" ELSE "walking",
                   limit   |-> from.limit,
                   filter  |-> from.filter,
                   cursor  |-> cursor,
                   got     |-> from.got \union At(items),
                   twice   |-> from.twice \/ At(items) \intersect from.got # {},
                   ordered |-> from.ordered /\ InOrder]
  BY <1>0
<1>2. /\ items \subseteq found
      /\ \A i \in items, j \in found : j < i => j \in items
      /\ Cardinality(items) = from.limit \/ items = found
  BY DEF Pages
<1>3. /\ from.limit \in Nat /\ from.cursor \in Nat /\ from.got \subseteq Request
      /\ from.filter \in Status \union {AnyStatus}
      /\ from.limit \in Nat \ {0}
      /\ from.twice \in BOOLEAN /\ from.ordered \in BOOLEAN
  BY DEF Reader
<1>4. /\ records \in Seq(Request) /\ DOMAIN records = 1 .. Len(records) /\ Len(records) \in Nat
      /\ number \in [Request -> Nat]
      /\ \A i \in DOMAIN records : records[i] \in Request
  BY DEF JIInv, JTypeOK
<1>5. \A i \in DOMAIN records :
        records[i] \in Recorded /\ number[records[i]] \in Nat /\ number[records[i]] # 0
  <2>1. \A i \in DOMAIN records : records[i] \in ToSet(records)
    BY DEF ToSet
  <2>2. ToSet(records) \subseteq Recorded
    BY DEF JIInv, IndexMatches
  <2>3. \A r \in Recorded : number[r] # 0
    BY DEF JIInv, Recorded
  <2> QED BY <2>1, <2>2, <2>3, <1>4
<1>6. \A i \in found : /\ i \in DOMAIN records
                       /\ Below(records[i], from.cursor) /\ Fits(records[i], from.filter)
  BY DEF Found
<1>7. At(items) \subseteq Recorded /\ Recorded \subseteq Request
  BY <1>2, <1>5, <1>6 DEF At, Recorded
<1>8. cursor \in Nat
  <2>1. CASE Cardinality(items) < from.limit
    BY <2>1 DEF NextCursors
  <2>2. CASE ~(Cardinality(items) < from.limit)
    BY <2>2, <1>2, <1>5, <1>6 DEF NextCursors
  <2> QED BY <2>1, <2>2
<1>9. reader' \in Reader
  <2>1. (from.twice \/ At(items) \intersect from.got # {}) \in BOOLEAN
    BY <1>3
  <2>2. (from.ordered /\ InOrder) \in BOOLEAN
    BY <1>3 DEF InOrder
  <2>3. from.got \union At(items) \in SUBSET Request
    BY <1>3, <1>7
  <2>4. (IF Cardinality(items) < from.limit THEN "done" ELSE "walking") \in {"idle", "walking", "done"}
    OBVIOUS
  <2> QED BY <2>1, <2>2, <2>3, <2>4, <1>1, <1>3, <1>8 DEF Reader
<1>10. reader'.got \subseteq Recorded
  BY <1>1, <1>7
<1> HIDE DEF found
<1>11. ASSUME reader'.ordered
       PROVE  /\ ~reader'.twice
              /\ reader'.at = "done" =>
                   \A r \in B \intersect ToSet(records) :
                     Fits(r, reader'.filter) => r \in reader'.got
              /\ reader'.at = "walking" =>
                   /\ reader'.cursor # NoCursor
                   /\ \A r \in reader'.got : number[r] >= reader'.cursor
                   /\ \A r \in B \intersect ToSet(records) :
                        Fits(r, reader'.filter) =>
                          r \in reader'.got \/ number[r] < reader'.cursor
  <2>1. from.ordered /\ InOrder
    BY <1>11, <1>1
  <2>2. /\ ~from.twice
        /\ \A r \in from.got : from.cursor # NoCursor /\ number[r] >= from.cursor
        /\ \A r \in B \intersect ToSet(records) :
             Fits(r, from.filter) => r \in from.got \/ Below(r, from.cursor)
    BY <2>1
  <2>3. \A r \in At(items) : r \notin from.got
    <3> SUFFICES ASSUME NEW i \in items, records[i] \in from.got PROVE FALSE
      BY DEF At
    <3>1. number[records[i]] < from.cursor
      BY <1>2, <1>6, <2>2 DEF Below
    <3> QED BY <3>1, <2>2, <1>2, <1>3, <1>5, <1>6
  <2>4. ~reader'.twice
    BY <2>2, <2>3, <1>1
  <2>5. \A r \in B \intersect ToSet(records) : Fits(r, from.filter) =>
          r \in from.got \/ \E i \in found : r = records[i]
    BY <2>2 DEF found, Found, ToSet
  <2>6. ASSUME Cardinality(items) < from.limit, NEW r \in B \intersect ToSet(records),
               Fits(r, from.filter)
        PROVE  r \in reader'.got
    <3>1. items = found
      BY <2>6, <1>2, <1>3
    <3> QED BY <3>1, <2>5, <2>6, <1>1 DEF At
  <2>7. ASSUME ~(Cardinality(items) < from.limit)
        PROVE  /\ reader'.cursor # NoCursor
               /\ \A r \in reader'.got : number[r] >= reader'.cursor
               /\ \A r \in B \intersect ToSet(records) :
                    Fits(r, reader'.filter) =>
                      r \in reader'.got \/ number[r] < reader'.cursor
    <3>1. PICK k \in items : cursor = number[records[k]] /\ \A j \in items : j <= k
      BY <2>7 DEF NextCursors
    <3>2. \A i \in DOMAIN records : i \in 1 .. Len(records)
      BY <1>4
    <3>3. k \in DOMAIN records /\ k \in found /\ k \in Nat
      BY <3>2, <1>2, <1>4, <1>6
    <3>4. cursor # NoCursor /\ reader'.cursor = cursor
      BY <3>1, <3>3, <1>1, <1>5
    <3>5. \A r \in At(items) : number[r] >= cursor
      <4> SUFFICES ASSUME NEW i \in items PROVE number[records[i]] >= cursor
        BY DEF At
      <4>1. i \in DOMAIN records /\ i \in Nat /\ i <= k
        BY <3>1, <3>2, <1>2, <1>4, <1>6
      <4>2. CASE i = k
        BY <4>2, <3>1, <3>3, <1>5
      <4>3. CASE i < k
        <5>1. number[records[i]] > number[records[k]]
          BY <4>1, <4>3, <3>3, <2>1 DEF InOrder
        <5> QED BY <5>1, <4>1, <3>1, <3>3, <1>5
      <4> QED BY <4>1, <4>2, <4>3, <3>3
    <3>6. \A r \in from.got : number[r] >= cursor
      <4> SUFFICES ASSUME NEW r \in from.got PROVE number[r] >= cursor
        OBVIOUS
      <4>1. from.cursor # NoCursor /\ number[r] >= from.cursor /\ number[r] \in Nat
        BY <2>2, <1>3, <1>4
      <4>2. cursor < from.cursor
        BY <4>1, <3>1, <3>3, <1>6 DEF Below
      <4> QED BY <4>1, <4>2, <1>3, <1>8
    <3>7. ASSUME NEW r \in B \intersect ToSet(records), Fits(r, from.filter)
          PROVE  r \in reader'.got \/ number[r] < cursor
      <4>1. CASE r \in from.got
        BY <4>1, <1>1
      <4>2. CASE \E i \in found : r = records[i]
        <5>1. PICK i \in found : r = records[i]
          BY <4>2
        <5>2. i \in DOMAIN records /\ i \in Nat
          BY <3>2, <1>4, <1>6
        <5>3. CASE i \in items
          BY <5>1, <5>3, <1>1 DEF At
        <5>4. CASE i \notin items
          <6>1. k < i
            BY <5>2, <5>4, <3>3, <1>2
          <6> QED BY <6>1, <5>1, <5>2, <3>1, <3>3, <2>1, <1>5 DEF InOrder
        <5> QED BY <5>3, <5>4
      <4> QED BY <4>1, <4>2, <3>7, <2>5
    <3> QED BY <3>4, <3>5, <3>6, <3>7, <1>1
  <2> QED BY <2>4, <2>6, <2>7, <1>1
<1> QED BY <1>9, <1>10, <1>11

-----------------------------------------------------------------------------
(* The queues of the subscribers. *)

LEMMA OfferedFacts ==
  ASSUME NEW q \in Seq(Event), Len(q) <= QueueSize, NEW e \in Event
  PROVE  Offered(q, e) \in Seq(Event) /\ Len(Offered(q, e)) <= QueueSize
<1>1. QueueSize \in Nat \ {0}
  BY JournalAssumption DEF JournalAssumption
<1>2. CASE Len(q) = QueueSize
  <2>1. Tail(q) \in Seq(Event) /\ Len(Tail(q)) = Len(q) - 1
    BY <1>1, <1>2
  <2>2. Offered(q, e) = Append(Tail(q), e)
    BY <1>2 DEF Offered
  <2> QED BY <2>1, <2>2, <1>1, <1>2
<1>3. CASE Len(q) # QueueSize
  <2>1. Offered(q, e) = Append(q, e)
    BY <1>3 DEF Offered
  <2>2. Len(q) \in Nat /\ Len(Append(q, e)) = Len(q) + 1
    OBVIOUS
  <2>3. \A n, m \in Nat : n <= m /\ n # m => n + 1 <= m
    OBVIOUS
  <2> QED BY <2>1, <2>2, <2>3, <1>1, <1>3
<1> QED BY <1>2, <1>3

\* The queues of a later state, from those of the subscribers that changed.
LEMMA QueuesKept ==
  ASSUME JTypeOK, NEW c \in Client, NEW q \in Seq(Event), Len(q) <= QueueSize,
         queue' = queue \/ queue' = [queue EXCEPT ![c] = q]
  PROVE  /\ queue' \in [Client -> Seq(Event)]
         /\ \A d \in Client : Len(queue'[d]) <= QueueSize
BY DEF JTypeOK

-----------------------------------------------------------------------------
(* The inductive invariant. *)

LEMMA JInitially == JInit => JIInv
<1> SUFFICES ASSUME JInit PROVE JIInv
  OBVIOUS
<1>1. /\ phase = [r \in Request |-> "new"] /\ number = [r \in Request |-> 0]
      /\ status \in [Request -> Status] /\ sequence = 0 /\ records = << >> /\ index = {}
      /\ todo = [r \in Request |-> {}] /\ subscribers = {} /\ queue = [c \in Client |-> << >>]
      /\ closed = {} /\ live = [c \in Client |-> "none"] /\ connected = {}
      /\ reader = Idle /\ before = {}
  BY DEF JInit
<1>2. MaxRecords \in Nat /\ QueueSize \in Nat
  BY JournalAssumption DEF JournalAssumption
<1>3. reader \in Reader /\ reader.got = {} /\ reader.at = "idle" /\ ~reader.twice
  BY <1>1 DEF Idle, Reader
<1>4. /\ queue \in [Client -> Seq(Event)]
      /\ \A c \in Client : Len(queue[c]) <= QueueSize
  BY <1>1, <1>2
<1>5. records \in Seq(Request) /\ Len(records) <= MaxRecords /\ DOMAIN records = {}
  BY <1>1, <1>2
<1>6. phase \in [Request -> Phase] /\ live \in [Client -> {"none", "asked", "subscribed", "streaming", "ended", "dropped"}]
  BY <1>1 DEF Phase
<1>7. JTypeOK
  BY <1>1, <1>3, <1>4, <1>5, <1>6 DEF JTypeOK
<1>8. IndexMatches
  BY <1>1, <1>5 DEF IndexMatches, ToSet, IsInjective
<1>9. WalkIsComplete
  BY <1>3 DEF WalkIsComplete
<1> QED BY <1>1, <1>3, <1>7, <1>8, <1>9 DEF JIInv

\* A request stays where it is, or goes on without a change of the records.
Keeps(r) ==
  \/ phase'[r] = phase[r]
  \/ phase[r] = "new" /\ phase'[r] = "in_flight"
  \/ phase[r] = "in_flight" /\ phase'[r] = "popped"
  \/ /\ phase[r] \in {"appended", "trace", "stats"}
     /\ phase'[r] \in {"appended", "trace", "stats"}

\* Steps that leave the records and the reader alone.
LEMMA RecordsKept ==
  ASSUME JIInv, JTypeOK', UNCHANGED << number, status, records, index, reader, before >>,
         \A r \in Request : Keeps(r)
  PROVE  JIInv'
<1>1. \A r \in Request : number'[r] = 0 <=> phase'[r] \in {"new", "in_flight", "popped"}
  <2>1. \A r \in Request : number[r] = 0 <=> phase[r] \in {"new", "in_flight", "popped"}
    BY DEF JIInv
  <2> QED BY <2>1 DEF Keeps
<1>2. Recorded \subseteq Recorded'
  BY DEF Recorded, Keeps
<1>3. (index \union before \union reader.got \subseteq Recorded)'
  BY <1>2 DEF JIInv
<1>4. IndexMatches' /\ WalkIsComplete' /\ (reader.ordered /\ reader.at = "walking" => WalkGoesOn)'
  BY DEF JIInv, IndexMatches, WalkIsComplete, WalkGoesOn, Fits
<1> QED BY <1>1, <1>3, <1>4 DEF JIInv

\* A thread takes its number.
LEMMA NumberStep ==
  ASSUME JIInv, NEW r \in Request, TakeNumber(r)
  PROVE  JIInv'
<1>1. /\ phase[r] = "popped" /\ phase' = [phase EXCEPT ![r] = "numbered"]
      /\ sequence' = sequence + 1 /\ number' = [number EXCEPT ![r] = sequence + 1]
      /\ UNCHANGED << status, records, index, todo >>
      /\ UNCHANGED << subscribers, queue, closed, live, connected, reader, before >>
  BY DEF TakeNumber, lives, walk
<1>2. /\ phase \in [Request -> Phase] /\ number \in [Request -> Nat] /\ sequence \in Nat
      /\ \A s \in Request : number[s] = 0 <=> phase[s] \in {"new", "in_flight", "popped"}
  BY DEF JIInv, JTypeOK
<1>3. /\ phase' \in [Request -> Phase] /\ number' \in [Request -> Nat] /\ sequence' \in Nat
      /\ \A s \in Request : number'[s] = 0 <=> phase'[s] \in {"new", "in_flight", "popped"}
  BY <1>1, <1>2 DEF Phase
<1>4. JTypeOK'
  BY <1>1, <1>3 DEF JIInv, JTypeOK
<1>5. Recorded' = Recorded
  BY <1>1, <1>2 DEF Recorded
<1>6. \A s \in Recorded : number'[s] = number[s]
  BY <1>1, <1>2 DEF Recorded
<1>7. (index \union before \union reader.got \subseteq Recorded)'
  BY <1>1, <1>5 DEF JIInv
<1>8. IndexMatches' /\ WalkIsComplete'
  BY <1>1 DEF JIInv, IndexMatches, WalkIsComplete, Fits
<1>9. (reader.ordered /\ reader.at = "walking" => WalkGoesOn)'
  <2>1. before \subseteq Recorded /\ reader.got \subseteq Recorded
    BY DEF JIInv
  <2> QED BY <2>1, <1>1, <1>6 DEF JIInv, WalkGoesOn, Fits
<1> QED BY <1>3, <1>4, <1>7, <1>8, <1>9 DEF JIInv

\* A thread appends its record.
LEMMA AppendStep ==
  ASSUME JIInv, NEW r \in Request, AppendRecord(r)
  PROVE  JIInv'
<1>1. /\ phase[r] = "numbered" /\ phase' = [phase EXCEPT ![r] = "appended"]
      /\ records' = Pushed(r) /\ index' = (index \ Evicted) \union {r}
      /\ UNCHANGED << sequence, number, status, todo >>
      /\ UNCHANGED << subscribers, queue, closed, live, connected, reader, before >>
  BY DEF AppendRecord, lives, walk
<1>2. /\ phase \in [Request -> Phase] /\ records \in Seq(Request) /\ Len(records) <= MaxRecords
      /\ \A s \in Request : number[s] = 0 <=> phase[s] \in {"new", "in_flight", "popped"}
      /\ index = ToSet(records) /\ IsInjective(records)
      /\ index \union before \union reader.got \subseteq Recorded
  BY DEF JIInv, JTypeOK, IndexMatches
<1>3. r \notin Recorded
  BY <1>1 DEF Recorded
<1>4. /\ records' \in Seq(Request) /\ Len(records') <= MaxRecords
      /\ ToSet(records') = (ToSet(records) \ Evicted) \union {r}
      /\ IsInjective(records')
  <2>1. r \notin ToSet(records)
    BY <1>2, <1>3
  <2> QED BY <2>1, <1>1, <1>2, PushedFacts
<1>5. /\ phase' \in [Request -> Phase]
      /\ \A s \in Request : number'[s] = 0 <=> phase'[s] \in {"new", "in_flight", "popped"}
  BY <1>1, <1>2 DEF Phase
<1>6. index' \subseteq Request
  BY <1>1, <1>2 DEF Recorded
<1>7. JTypeOK'
  BY <1>1, <1>4, <1>5, <1>6 DEF JIInv, JTypeOK
<1>8. Recorded' = Recorded \union {r}
  BY <1>1, <1>2 DEF Recorded
<1>9. (index \union before \union reader.got \subseteq Recorded)'
  BY <1>1, <1>2, <1>8
<1>10. IndexMatches'
  BY <1>1, <1>2, <1>4 DEF IndexMatches
<1>11. before' \intersect ToSet(records') \subseteq before \intersect ToSet(records)
  BY <1>1, <1>2, <1>3, <1>4
<1>12. WalkIsComplete' /\ (reader.ordered /\ reader.at = "walking" => WalkGoesOn)'
  BY <1>1, <1>11 DEF JIInv, WalkIsComplete, WalkGoesOn, Fits
<1> QED BY <1>5, <1>7, <1>9, <1>10, <1>12 DEF JIInv

\* What is known of the reader when it has got a page.
PageGot ==
  /\ reader' \in Reader
  /\ reader'.got \subseteq Recorded
  /\ before' \subseteq Recorded
  /\ reader'.ordered =>
       /\ ~reader'.twice
       /\ reader'.at = "done" =>
            \A r \in before' \intersect ToSet(records) :
              Fits(r, reader'.filter) => r \in reader'.got
       /\ reader'.at = "walking" =>
            /\ reader'.cursor # NoCursor
            /\ \A r \in reader'.got : number[r] >= reader'.cursor
            /\ \A r \in before' \intersect ToSet(records) :
                 Fits(r, reader'.filter) =>
                   r \in reader'.got \/ number[r] < reader'.cursor

\* The reader gets a page.
LEMMA PageStep ==
  ASSUME JIInv, BeginWalk \/ NextPage
  PROVE  JIInv'
<1>1. /\ UNCHANGED << phase, sequence, number, status, records, index, todo >>
      /\ UNCHANGED << subscribers, queue, closed, live, connected >>
  BY DEF BeginWalk, NextPage, journal, lives
<1>2. Recorded' = Recorded
  BY <1>1 DEF Recorded
<1>3. index = ToSet(records) /\ index \subseteq Recorded /\ Recorded \subseteq Request
  BY DEF JIInv, IndexMatches, Recorded
<1>4. ASSUME PageGot PROVE JIInv'
  <2>1. before' \subseteq Request
    BY <1>3, <1>4 DEF PageGot
  <2>2. JTypeOK'
    BY <2>1, <1>1, <1>4 DEF JIInv, JTypeOK, PageGot
  <2>3. WalkIsComplete' /\ (reader.ordered /\ reader.at = "walking" => WalkGoesOn)'
    BY <1>1, <1>4 DEF PageGot, WalkIsComplete, WalkGoesOn, Fits
  <2>4. IndexMatches'
    BY <1>1 DEF JIInv, IndexMatches
  <2>5. (\A r \in Request : number[r] = 0 <=> phase[r] \in {"new", "in_flight", "popped"})'
    BY <1>1 DEF JIInv
  <2>6. (index \union before \union reader.got \subseteq Recorded)'
    BY <1>1, <1>2, <1>3, <1>4 DEF PageGot
  <2> QED BY <2>2, <2>3, <2>4, <2>5, <2>6 DEF JIInv
<1>5. CASE BeginWalk
  <2>1. PICK limit \in Limit, filter \in Status \union {AnyStatus} :
          GetPage([Idle EXCEPT !.limit = limit, !.filter = filter])
    BY <1>5 DEF BeginWalk
  <2> DEFINE from == [Idle EXCEPT !.limit = limit, !.filter = filter]
  <2>2. /\ from \in Reader /\ from.got = {} /\ ~from.twice
        /\ \A r \in Request : Below(r, from.cursor)
    BY JournalAssumption DEF JournalAssumption, Idle, Reader, Below
  <2>3. before' = ToSet(records)
    BY <1>5 DEF BeginWalk
  <2>4. ToSet(records) \in SUBSET Request
    BY <1>3
  <2> HIDE DEF from
  <2>5. GetPage(from)
    BY <2>1 DEF from
  <2>6. PageGot
    BY <2>2, <2>3, <2>4, <2>5, <1>3, PageFacts DEF PageGot
  <2> QED BY <2>6, <1>4
<1>6. CASE NextPage
  <2>1. GetPage(reader) /\ reader.at = "walking" /\ before' = before
    BY <1>6 DEF NextPage
  <2>2. reader \in Reader /\ reader.got \subseteq Recorded /\ before \subseteq Recorded
    BY DEF JIInv, JTypeOK
  <2>3. before \in SUBSET Request
    BY <2>2, <1>3
  <2>4. reader.ordered =>
          /\ ~reader.twice
          /\ \A r \in reader.got : reader.cursor # NoCursor /\ number[r] >= reader.cursor
          /\ \A r \in before \intersect ToSet(records) :
               Fits(r, reader.filter) => r \in reader.got \/ Below(r, reader.cursor)
    BY <2>1 DEF JIInv, WalkIsComplete, WalkGoesOn, Below
  <2>5. PageGot
    BY <2>1, <2>2, <2>3, <2>4, PageFacts DEF PageGot
  <2> QED BY <2>5, <1>4
<1> QED BY <1>5, <1>6

\* The other steps of a thread.
LEMMA ThreadStep ==
  ASSUME JIInv, NEW r \in Request, Start(r) \/ Pop(r) \/ Snapshot(r) \/ Publish(r)
  PROVE  JIInv'
<1>1. /\ UNCHANGED << sequence, number, status, records, index >>
      /\ UNCHANGED << subscribers, closed, live, connected, reader, before >>
  BY DEF Start, Pop, Snapshot, Publish, journal, lives, walk
<1>2. JTypeOK
  BY DEF JIInv
<1>3. \A s \in Request : Keeps(s)
  <2>1. phase' = phase \/ phase' = [phase EXCEPT ![r] = phase'[r]]
    BY <1>2 DEF JTypeOK, Start, Pop, Snapshot, Publish, journal
  <2>2. \A s \in Request \ {r} : phase'[s] = phase[s]
    BY <2>1, <1>2 DEF JTypeOK
  <2>3. Keeps(r)
    <3>1. CASE Start(r)
      BY <3>1, <1>2 DEF JTypeOK, Start, Keeps
    <3>2. CASE Pop(r)
      BY <3>2, <1>2 DEF JTypeOK, Pop, Keeps
    <3>3. CASE Snapshot(r)
      BY <3>3, <1>2 DEF JTypeOK, Snapshot, Keeps
    <3>4. CASE Publish(r)
      BY <3>4 DEF Publish, journal, Keeps
    <3> QED BY <3>1, <3>2, <3>3, <3>4
  <2> QED BY <2>2, <2>3 DEF Keeps
<1>4. phase' \in [Request -> Phase]
  BY <1>2 DEF JTypeOK, Phase, Start, Pop, Snapshot, Publish, journal
<1>5. todo' \in [Request -> SUBSET Client]
  BY <1>2 DEF JTypeOK, Start, Pop, Snapshot, Publish
<1>6. /\ queue' \in [Client -> Seq(Event)]
      /\ \A c \in Client : Len(queue'[c]) <= QueueSize
  <2>1. CASE Publish(r)
    <3>1. PICK c \in todo[r] :
            queue' = queue \/ queue' = [queue EXCEPT ![c] = Offered(queue[c], EventOf(r))]
      BY <2>1 DEF Publish
    <3>2. c \in Client /\ queue[c] \in Seq(Event) /\ Len(queue[c]) <= QueueSize
      BY <1>2 DEF JTypeOK
    <3>3. EventOf(r) \in Event
      BY DEF EventOf, Event
    <3>4. /\ Offered(queue[c], EventOf(r)) \in Seq(Event)
          /\ Len(Offered(queue[c], EventOf(r))) <= QueueSize
      BY <3>2, <3>3, OfferedFacts
    <3> QED BY <3>1, <3>2, <3>4, <1>2, QueuesKept
  <2>2. CASE Start(r) \/ Pop(r) \/ Snapshot(r)
    <3>1. queue' = queue
      BY <2>2 DEF Start, Pop, Snapshot, lives
    <3> QED BY <3>1, <1>2 DEF JTypeOK
  <2> QED BY <2>1, <2>2
<1>7. JTypeOK'
  BY <1>1, <1>2, <1>4, <1>5, <1>6 DEF JTypeOK
<1> QED BY <1>1, <1>3, <1>7, RecordsKept

\* The steps of a client of the live endpoint and of its stream.
LEMMA StreamStep ==
  ASSUME JIInv, NEW c \in Client, Connect(c) \/ Disconnect(c) \/ Drop(c) \/ LiveStep(c)
  PROVE  JIInv'
<1>1. /\ UNCHANGED << phase, sequence, number, status, records, index, todo, reader, before >>
  BY DEF Connect, Disconnect, Drop, LiveStep, Subscribe, BeginStream, Relay, EndStream,
         journal, walk
<1>2. JTypeOK
  BY DEF JIInv
<1>3. live' \in [Client -> {"none", "asked", "subscribed", "streaming", "ended", "dropped"}]
  BY <1>2 DEF JTypeOK, Connect, Disconnect, Drop, LiveStep, Subscribe, BeginStream, Relay,
              EndStream
<1>4. subscribers' \subseteq Client /\ closed' \subseteq Client /\ connected' \subseteq Client
  BY <1>2 DEF JTypeOK, Connect, Disconnect, Drop, LiveStep, Subscribe, BeginStream, Relay,
              EndStream, Unsubscribed
<1>5. /\ queue' \in [Client -> Seq(Event)]
      /\ \A d \in Client : Len(queue'[d]) <= QueueSize
  <2>1. /\ queue[c] \in Seq(Event) /\ Len(queue[c]) <= QueueSize /\ Len(queue[c]) \in Nat
        /\ QueueSize \in Nat
    BY <1>2, JournalAssumption DEF JTypeOK, JournalAssumption
  <2>2. CASE Relay(c)
    <3>1. queue[c] # << >> /\ queue' = [queue EXCEPT ![c] = Tail(queue[c])]
      BY <2>2 DEF Relay
    <3>2. Tail(queue[c]) \in Seq(Event) /\ Len(Tail(queue[c])) = Len(queue[c]) - 1
      BY <3>1, <2>1
    <3>3. Len(Tail(queue[c])) <= QueueSize
      BY <3>2, <2>1
    <3> QED BY <3>1, <3>2, <3>3, <1>2, QueuesKept
  <2>3. CASE EndStream(c)
    <3>1. CASE Len(queue[c]) = QueueSize
      <4>1. queue' = queue
        BY <2>3, <3>1 DEF EndStream
      <4> QED BY <4>1, <1>2 DEF JTypeOK
    <3>2. CASE Len(queue[c]) # QueueSize
      <4>1. queue' = [queue EXCEPT ![c] = Append(queue[c], "None")]
        BY <2>3, <3>2 DEF EndStream
      <4>2. "None" \in Event
        BY DEF Event
      <4>3. Append(queue[c], "None") \in Seq(Event) /\ Len(Append(queue[c], "None")) = Len(queue[c]) + 1
        BY <4>2, <2>1
      <4>4. \A n, m \in Nat : n <= m /\ n # m => n + 1 <= m
        OBVIOUS
      <4>5. Len(Append(queue[c], "None")) <= QueueSize
        BY <4>3, <4>4, <3>2, <2>1
      <4> QED BY <4>1, <4>3, <4>5, <1>2, QueuesKept
    <3> QED BY <3>1, <3>2
  <2>4. CASE Connect(c) \/ Disconnect(c) \/ Drop(c) \/ Subscribe(c) \/ BeginStream(c)
    <3>1. queue' = queue
      BY <2>4 DEF Connect, Disconnect, Drop, Subscribe, BeginStream
    <3> QED BY <3>1, <1>2 DEF JTypeOK
  <2> QED BY <2>2, <2>3, <2>4 DEF LiveStep
<1>6. JTypeOK'
  BY <1>1, <1>2, <1>3, <1>4, <1>5 DEF JTypeOK
<1>7. \A r \in Request : Keeps(r)
  BY <1>1 DEF Keeps
<1> QED BY <1>1, <1>6, <1>7, RecordsKept

LEMMA JInductive == JIInv /\ [JNext]_jvars => JIInv'
<1> SUFFICES ASSUME JIInv, [JNext]_jvars PROVE JIInv'
  OBVIOUS
<1>1. ASSUME NEW r \in Request, Start(r) \/ Pop(r) \/ Work(r) PROVE JIInv'
  <2>1. CASE TakeNumber(r)
    BY <2>1, NumberStep
  <2>2. CASE AppendRecord(r)
    BY <2>2, AppendStep
  <2>3. CASE Start(r) \/ Pop(r) \/ Snapshot(r) \/ Publish(r)
    BY <2>3, ThreadStep
  <2> QED BY <1>1, <2>1, <2>2, <2>3 DEF Work
<1>2. ASSUME NEW c \in Client, Connect(c) \/ Disconnect(c) \/ Drop(c) \/ LiveStep(c) PROVE JIInv'
  BY <1>2, StreamStep
<1>3. CASE BeginWalk \/ NextPage
  BY <1>3, PageStep
<1>4. CASE UNCHANGED jvars
  <2>1. UNCHANGED << phase, sequence, number, status, records, index, todo, reader, before >>
    BY <1>4 DEF jvars, journal, walk
  <2>2. UNCHANGED << subscribers, queue, closed, live, connected >>
    BY <1>4 DEF jvars, lives
  <2>3. JTypeOK'
    BY <2>1, <2>2 DEF JIInv, JTypeOK
  <2>4. \A r \in Request : Keeps(r)
    BY <2>1 DEF Keeps
  <2> QED BY <2>1, <2>3, <2>4, RecordsKept
<1> QED BY <1>1, <1>2, <1>3, <1>4 DEF JNext

-----------------------------------------------------------------------------
(* The theorems. *)

\* The inductive invariant holds in every reachable state of the journal.
THEOREM JInvariance == JSpec => []JIInv
BY JInitially, JInductive, PTL DEF JSpec

\* The variables keep their types, and deque and queues their bounds.
THEOREM JTypeCorrect == JSpec => []JTypeOK
<1>1. JIInv => JTypeOK
  BY DEF JIInv
<1> QED BY <1>1, JInvariance, PTL

\* The index _by_request_id and the deque of records hold the same requests,
\* each once, for any bounds (store.py:76-86).
THEOREM IndexIsExact == JSpec => []IndexMatches
<1>1. JIInv => IndexMatches
  BY DEF JIInv
<1> QED BY <1>1, JInvariance, PTL

\* Whatever is appended and evicted meanwhile, a walk of the listing that found
\* the deque in order gets each record once and none is missing at its end, for
\* any page size and filter (store.py:131-181, api.py:115).
THEOREM WalksAreComplete == JSpec => []WalkIsComplete
<1>1. JIInv => WalkIsComplete
  BY DEF JIInv
<1> QED BY <1>1, JInvariance, PTL
=============================================================================
