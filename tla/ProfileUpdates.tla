--------------------------- MODULE ProfileUpdates ---------------------------
(***************************************************************************)
(* Updates of a profile's plugins by several dashboards: the gateway       *)
(* controller's update_profile_plugins and monitoring_inventory            *)
(* (runtime_control.py), the configuration file, and the plugin workspace  *)
(* of each dashboard tab (dashboard/src/features/plugins).                 *)
(*                                                                         *)
(* An update carries the whole plugin section of the profile, so it may    *)
(* undo what another tab has saved; the generation a tab got with its      *)
(* inventory is to prevent that.  It does so once: a refused tab fetches   *)
(* the inventory again and keeps its draft, so that its user may save the  *)
(* old draft with the new generation.  A plugin section is modelled by the *)
(* set of edits it contains: a tab adds its edits to the section it saw.   *)
(***************************************************************************)
EXTENDS Naturals, FiniteSets

CONSTANTS
  Tab,          \* the dashboard tabs
  Edit,         \* the edits their users may make, each at most once (a bound)
  MaxRestarts   \* bound on the restarts of the gateway

ASSUME ProfileUpdatesAssumption == MaxRestarts \in Nat

VARIABLES
  \* the gateway
  file,        \* the plugin section of the profile in the configuration file
  generation,  \* GatewayController._generation
  config,      \* the plugin section the current engine runs with
  restarts,
  \* the tabs
  inventory,   \* the inventory each tab has: its generation and section
  drafting,    \* the tabs with a draft
  draft,       \* the section with its changes
  fetched,     \* an inventory on its way to the tab
  request,     \* an update on its way to the gateway
  answer,      \* the answer to it
  \* history
  told,        \* the tabs whose draft has met a conflict: "Plugin config changed
               \* elsewhere. Review the latest state and save again."
  made,        \* the edits users have made
  landed,      \* the edits accepted updates have written, less those that a
               \* later one has left out although its tab was told of them
  hasty        \* a user did not wait: had unsaved changes while an inventory was
               \* on its way

vars == << file, generation, config, restarts, inventory, drafting, draft,
           fetched, request, answer, told, made, landed, hasty >>

gateway == << file, generation, config, restarts >>

NoInventory == [generation |-> 0, section |-> {}]

\* An update: the generation it expects and its section; the field over is
\* history: the edits of the inventory it leaves out after a conflict.
NoRequest == [expected |-> 0, section |-> {}, over |-> {}]

-----------------------------------------------------------------------------
Init ==
  /\ file = {}
  /\ generation = 1
  /\ config = {}
  /\ restarts = 0
  /\ inventory = [c \in Tab |-> NoInventory]
  /\ drafting = {}
  /\ draft = [c \in Tab |-> {}]
  /\ fetched = [c \in Tab |-> NoInventory]
  /\ request = [c \in Tab |-> NoRequest]
  /\ answer = [c \in Tab |-> "none"]
  /\ told = {}
  /\ made = {}
  /\ landed = {}
  /\ hasty = FALSE

-----------------------------------------------------------------------------
(* The gateway.  Both handlers are coroutines that call the controller       *)
(* without awaiting, so each runs to its end before the other.               *)

\* monitoring_inventory: the file is read again, the generation is that of
\* the controller.
CurrentInventory == [generation |-> generation, section |-> file]

\* Mutant of Expected: the expected generation is not compared.
ExpectedAnything(g) == TRUE

\* _validate_expected_generation, of an update that names a generation, as every
\* update of the dashboard does (one without is not compared).
Expected(g) == g = generation

\* _activate_prepared_engine.
Activated(section) ==
  /\ config' = section
  /\ generation' = generation + 1

\* The edits that are to be in the file once the update r is.
Landed(r) == (landed \ r.over) \union r.section

\* The request of tab c is answered.  The tab refetches its inventory after an
\* update and after a conflict, and drops the one then on its way.
Answer(c, a) ==
  /\ answer' = [answer EXCEPT ![c] = a]
  /\ request' = [request EXCEPT ![c] = NoRequest]
  /\ fetched' = [fetched EXCEPT ![c] = IF a = "error" THEN @ ELSE NoInventory]

\* The update is valid and not stale, the next engine is built, the file is
\* replaced and the engine activated.
Accept(c) ==
  /\ request[c] # NoRequest
  /\ Expected(request[c].expected)
  /\ file' = request[c].section
  /\ Activated(request[c].section)
  /\ landed' = Landed(request[c])
  /\ Answer(c, "ok")
  /\ UNCHANGED << restarts, inventory, drafting, draft, told, made, hasty >>

\* 409 MODEIO_GENERATION_CONFLICT.
Reject(c) ==
  /\ request[c] # NoRequest
  /\ ~Expected(request[c].expected)
  /\ Answer(c, "conflict")
  /\ UNCHANGED << gateway, inventory, drafting, draft, told, made, landed, hasty >>

\* Mutant of Unwritten: the prepared engine is activated before the file is
\* written.
UnwrittenActivated(section) == Activated(section) /\ UNCHANGED file

\* The state after the engine could not be built, or the file not be written:
\* the prepared engine is shut down and nothing else has changed.
Unwritten(section) == UNCHANGED << file, config, generation >>

\* Another error: the engine of the new section cannot be built or the file
\* cannot be written.
Fail(c) ==
  /\ request[c] # NoRequest
  /\ Expected(request[c].expected)
  /\ Unwritten(request[c].section)
  /\ Answer(c, "error")
  /\ UNCHANGED << restarts, inventory, drafting, draft, told, made, landed, hasty >>

\* The gateway stops, between two handlers or after an update has replaced the
\* file, and starts again: create_app builds a controller from the file.
\* Updates on their way, and the answer of the interrupted one, are lost: of that
\* one nobody learns that it was accepted.
Restart ==
  /\ restarts < MaxRestarts
  /\ restarts' = restarts + 1
  /\ \/ UNCHANGED << file, landed >>
     \/ \E c \in Tab :
          /\ request[c] # NoRequest
          /\ Expected(request[c].expected)
          /\ file' = request[c].section
          /\ landed' = landed \ request[c].over
  /\ config' = file'
  /\ generation' = 1
  /\ request' = [c \in Tab |-> NoRequest]
  /\ answer' = [c \in Tab |-> IF request[c] # NoRequest THEN "error" ELSE answer[c]]
  /\ UNCHANGED << inventory, drafting, draft, fetched, told, made, hasty >>

-----------------------------------------------------------------------------
(* A tab. *)

Saving(c) == request[c] # NoRequest \/ answer[c] # "none"

\* The draft differs from the section the tab shows.
Dirty(c) == c \in drafting /\ draft[c] # inventory[c].section

\* The reducer's "clear-draft", and what "mutation-succeeded" does to the draft.
DropDraft(c) ==
  /\ drafting' = drafting \ {c}
  /\ draft' = [draft EXCEPT ![c] = {}]
  /\ told' = told \ {c}

\* An update goes out with the generation of the inventory the tab has now.
Send(c, section, over) ==
  request' = [request EXCEPT ![c] =
    [expected |-> inventory[c].generation, section |-> section, over |-> over]]

\* The dashboard disables neither a refresh with unsaved changes nor changes while
\* an inventory is on its way.  The inventory query runs: when the workspace opens,
\* when its user asks to refresh, and after an update.
Fetch(c) ==
  /\ fetched[c] = NoInventory
  /\ answer[c] # "error"
  /\ hasty' = (hasty \/ (answer[c] = "none" /\ c \in drafting))
  /\ fetched' = [fetched EXCEPT ![c] = CurrentInventory]
  /\ UNCHANGED << gateway, inventory, drafting, draft, request, answer, told, made, landed >>

\* The reducer's "inventory-synced": a draft of the profile is kept.
Sync(c) ==
  /\ fetched[c] # NoInventory
  /\ answer[c] = "none"
  /\ inventory' = [inventory EXCEPT ![c] = fetched[c]]
  /\ fetched' = [fetched EXCEPT ![c] = NoInventory]
  /\ UNCHANGED << gateway, drafting, draft, request, answer, told, made, landed, hasty >>

\* The user changes a setting, also while a save is pending: patchDraft on the
\* draft, or on the section the tab shows.
Patch(c) ==
  /\ inventory[c] # NoInventory
  /\ hasty' = (hasty \/ fetched[c] # NoInventory)
  /\ \E e \in Edit \ made :
       /\ draft' = [draft EXCEPT ![c] =
                      {e} \union IF c \in drafting THEN @ ELSE inventory[c].section]
       /\ drafting' = drafting \union {c}
       /\ made' = made \union {e}
  /\ UNCHANGED << gateway, inventory, fetched, request, answer, told, landed >>

\* The user discards the unsaved changes.
Discard(c) ==
  /\ Dirty(c)
  /\ ~Saving(c)
  /\ DropDraft(c)
  /\ UNCHANGED << gateway, inventory, fetched, request, answer, made, landed, hasty >>

\* The user enables, disables or moves a plugin: without unsaved changes, the
\* section the tab shows goes out with that change.
Toggle(c) ==
  /\ inventory[c] # NoInventory
  /\ ~Dirty(c) /\ ~Saving(c)
  /\ \E e \in Edit \ made :
       /\ Send(c, inventory[c].section \union {e}, {})
       /\ made' = made \union {e}
  /\ UNCHANGED << gateway, inventory, drafting, draft, fetched, answer, told, landed, hasty >>

\* The user saves the draft as it is, also after a conflict.
Save(c) ==
  /\ Dirty(c)
  /\ ~Saving(c)
  /\ Send(c, draft[c], IF c \in told THEN inventory[c].section \ draft[c] ELSE {})
  /\ UNCHANGED << gateway, inventory, drafting, draft, fetched, answer, told, made, landed, hasty >>

\* The answer arrives.  An accepted update invalidates the inventory query and
\* awaits the refetched one before a draft is dropped; a conflict refetches, tells
\* the user and keeps the draft; another error keeps all.
Answered(c) ==
  /\ answer[c] # "none"
  /\ answer' = [answer EXCEPT ![c] = "none"]
  /\ IF answer[c] = "error"
     THEN UNCHANGED << inventory, drafting, draft, fetched, told >>
     ELSE /\ fetched[c] # NoInventory
          /\ inventory' = [inventory EXCEPT ![c] = fetched[c]]
          /\ fetched' = [fetched EXCEPT ![c] = NoInventory]
          /\ IF answer[c] = "ok"
             THEN DropDraft(c)
             ELSE /\ told' = told \union ({c} \intersect drafting)
                  /\ UNCHANGED << drafting, draft >>
  /\ UNCHANGED << gateway, request, made, landed, hasty >>

-----------------------------------------------------------------------------
Next ==
  \/ \E c \in Tab :
       \/ Accept(c) \/ Reject(c) \/ Fail(c)
       \/ Fetch(c) \/ Sync(c) \/ Patch(c) \/ Discard(c)
       \/ Toggle(c) \/ Save(c) \/ Answered(c)
  \/ Restart

Spec == Init /\ [][Next]_vars

-----------------------------------------------------------------------------
(* Properties. *)

Section == SUBSET Edit

Inventory == [generation : Nat, section : Section]

Update == [expected : Nat, section : Section, over : Section]

TypeOK ==
  /\ file \in Section
  /\ generation \in Nat \ {0}
  /\ config \in Section
  /\ restarts \in Nat
  /\ inventory \in [Tab -> Inventory]
  /\ drafting \subseteq Tab
  /\ draft \in [Tab -> Section]
  /\ fetched \in [Tab -> Inventory]
  /\ request \in [Tab -> Update]
  /\ answer \in [Tab -> {"none", "ok", "conflict", "error"}]
  /\ told \subseteq drafting
  /\ made \subseteq Edit
  /\ landed \subseteq Edit
  /\ hasty \in BOOLEAN

\* No accepted update silently undoes what another one has written: a tab whose
\* section is out of date gets a conflict first (runtime_control.py, lines
\* 153-170), and what it may leave out afterwards, by saving its draft again, is
\* at most what the inventory fetched with the conflict showed it.  (That second
\* save does undo the other tab's update: controller.ts, lines 185-193, keeps the
\* draft and sends it with the new generation.)
NothingIsLost == ~hasty => landed \subseteq file

\* That, up to the first restart of the gateway.
NothingIsLostInOneRun == restarts = 0 => NothingIsLost

\* The engine always runs the section of the file, also after an update that
\* failed half-way and after a restart (lines 353-361).
EngineRunsFile == config = file

\* An inventory of the current generation shows the current file.
Current(x) ==
  /\ x.generation <= generation
  /\ x.generation = generation => x.section = file

\* What the generation guarantees of a tab: an update that would be accepted
\* contains all the file does, but for what its tab was told of, as what the tab
\* has unsaved contains all its inventory shows until it meets a conflict.
InStep(c) ==
  /\ Current(inventory[c]) /\ Current(fetched[c])
  /\ request[c].expected <= generation
  /\ request[c] # NoRequest => answer[c] = "none"
  /\ request[c].expected = generation => file \subseteq request[c].section \union request[c].over
  /\ c \in drafting /\ answer[c] \in {"none", "error"} => fetched[c] = NoInventory
  /\ c \in drafting \ told => inventory[c].section \subseteq draft[c]

Calm == restarts = 0 /\ ~hasty

\* The inductive invariant of the proofs.
IInv ==
  /\ TypeOK
  /\ Calm => landed \subseteq file /\ \A c \in Tab : InStep(c)
=============================================================================
