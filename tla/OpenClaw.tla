------------------------------ MODULE OpenClaw ------------------------------
(***************************************************************************)
(* The attachment of OpenClaw (cli/setup_lib/openclaw_*.py).  OpenClaw     *)
(* keeps its providers in two files, its configuration and the models      *)
(* cache of its agent.  Attach points the selected provider of both at the *)
(* gateway and notes in a third file, the route metadata, what it          *)
(* replaced; detach undoes this for every provider the metadata names, the *)
(* cache first.                                                            *)
(*                                                                         *)
(* Each write of a file is a step, and the command may be killed, or end   *)
(* with an error nobody catches, between two of them.  The command is that *)
(* of Controller, cut down to what it does with this harness: enable or    *)
(* start, the rollback when a later step of it fails, and disable.  Left   *)
(* out: models.mode, which attach sets to "merge" and detach leaves, and   *)
(* what else a provider has besides its base URL and its API.  The base    *)
(* URL of the gateway is represented by its port.                          *)
(***************************************************************************)
EXTENDS Naturals

CONSTANTS
  Provider,  \* the providers
  Url,       \* the base URLs the user may give a provider
  Local,     \* those that begin with http://127.0.0.1 or http://localhost
  Unset,     \* no base URL
  Api,       \* the families of APIs
  Supported, \* those the gateway serves for OpenClaw
  NoApi,     \* no family
  None,      \* no entry
  Port,      \* the ports of the gateway
  FirstFile, \* what the two files may hold before the first command
  MaxKills,  \* bound on the commands that are killed
  MaxEdits   \* bound on the user's edits

File == {"config", "cache"}

Absent == [there |-> FALSE, url |-> Unset, api |-> NoApi]

\* A provider in a file: whether it is there, its base URL and its API.
Object == [there : {TRUE}, url : Url \union Port \union {Unset}, api : Api \union {NoApi}]
          \union {Absent}

\* As the user may have written it.
Own == {object \in Object : object.url \notin Port}

\* An entry of the route metadata: what attach did to a provider, for each file
\* the base URL it replaced, whether it created the provider, and whether the
\* provider had an API.
Entry == [family : Api, route : Port, original : [File -> Url \union {Unset}],
          created : [File -> BOOLEAN], hadApi : [File -> BOOLEAN]]

ASSUME OpenClawAssumption ==
  /\ Local \subseteq Url
  /\ Unset \notin Url \union Port /\ Url \intersect Port = {}
  /\ Supported \subseteq Api /\ NoApi \notin Api
  /\ None \notin Entry
  /\ FirstFile \subseteq [File -> [Provider -> Own]]
  /\ {MaxKills, MaxEdits} \subseteq Nat

VARIABLES
  file,     \* the providers in the two files
  meta,     \* the route metadata file
  backup,   \* the user's URLs in the backups of the two files
  primary,  \* the provider of the selected model
  record,   \* controller.json: the port, and whether OpenClaw is enabled
  cmd,      \* the command that runs
  kills, edits, \* how many commands were killed, and edits made
  wish,      \* the providers as the user wants them in the two files
  forgotten, \* the providers of files whose URL the metadata may not tell
  left       \* the providers of files that a kill or the user may have left routed

files == << file, meta, backup >>
user  == << primary, edits, wish >>
ghost == << forgotten, left >>
vars  == << files, record, cmd, kills, user, ghost >>

Idle == [op |-> "none", pc |-> "idle", port |-> record.port, entry |-> None,
         keep |-> {}, changed |-> FALSE]

Init ==
  /\ file \in FirstFile
  /\ meta = [p \in Provider |-> None]
  /\ backup = [f \in File |-> [p \in Provider |-> {}]]
  /\ primary \in Provider
  /\ record \in [port : Port, enabled : {FALSE}]
  /\ cmd = Idle
  /\ kills = 0 /\ edits = 0
  /\ wish = file /\ forgotten = {} /\ left = {}

-----------------------------------------------------------------------------
(* Attach. *)

\* Mutant of Original: the metadata of an earlier attach is not asked.
OriginalNow(f, p) ==
  IF file[f][p].url \in Url \ Local THEN file[f][p].url ELSE Unset

\* The URL to keep for a provider: the one in the metadata, or else the one in
\* the file, unless it is local and taken for the gateway's.
Original(f, p) ==
  IF meta[p] # None /\ meta[p].original[f] # Unset THEN meta[p].original[f]
  ELSE IF file[f][p].url \in Url \ Local THEN file[f][p].url
  ELSE Unset

\* The family is the one the configuration names, or else the cache.
Family(p) ==
  IF file["config"][p].api # NoApi THEN file["config"][p].api ELSE file["cache"][p].api

\* The entry for the selected provider.  Unlike the rest, whether attach
\* creates the provider is not taken from an earlier entry.
Target(port) ==
  [family |-> Family(primary), route |-> port,
   original |-> [f \in File |-> Original(f, primary)],
   created |-> [f \in File |-> ~file[f][primary].there],
   hadApi |-> [f \in File |-> IF meta[primary] = None
                              THEN file[f][primary].api # NoApi
                              ELSE meta[primary].hadApi[f]]]

CanRoute ==
  /\ Family(primary) \in Supported
  /\ \E f \in File : Original(f, primary) # Unset

\* A provider of a file, routed as an entry says.
Patch(f, object, entry) ==
  [there |-> TRUE, url |-> entry.route,
   api |-> IF entry.hadApi[f] THEN object.api ELSE entry.family]

\* The providers of a file, those with an entry routed.
Patched(f, entries) ==
  [p \in Provider |-> IF entries[p] = None THEN file[f][p]
                      ELSE Patch(f, file[f][p], entries[p])]

\* Mutant of Written: no copy is made.
WrittenOver(f, providers, changed) ==
  file' = [file EXCEPT ![f] = providers] /\ UNCHANGED backup

\* A file is copied before it is written, when it changes.
Written(f, providers, changed) ==
  /\ file' = [file EXCEPT ![f] = providers]
  /\ backup' = IF ~changed THEN backup
               ELSE [backup EXCEPT ![f] =
                      [p \in Provider |-> @[p] \union ({file[f][p].url} \intersect Url)]]

Goto(pc, changed) == cmd' = [cmd EXCEPT !.pc = pc, !.changed = @ \/ changed]

AttachConfig ==
  LET entry == Target(cmd.port)
      providers == Patched("config",
                     [p \in Provider |-> IF p = primary THEN entry ELSE None])
  IN /\ cmd.pc = "attach" /\ CanRoute
     /\ Written("config", providers, providers # file["config"])
     /\ cmd' = [cmd EXCEPT !.pc = "note", !.entry = entry,
                           !.changed = providers # file["config"]]
     /\ UNCHANGED << meta, record, kills, user, ghost >>

\* With no family the gateway serves, or no URL to keep, attach does nothing and
\* the command fails; in a rollback it goes on.
AttachRefused ==
  /\ cmd.pc = "attach" /\ ~CanRoute
  /\ cmd' = Idle
  /\ UNCHANGED << files, record, kills, user, ghost >>

WriteMetadata ==
  /\ cmd.pc = "note"
  /\ meta' = [meta EXCEPT ![primary] = cmd.entry]
  /\ Goto("attach_cache", FALSE)
  /\ UNCHANGED << file, backup, record, kills, user, ghost >>

\* Every provider the metadata names is patched in the cache.
AttachCache ==
  LET providers == Patched("cache", meta)
  IN /\ cmd.pc = "attach_cache"
     /\ Written("cache", providers, providers # file["cache"])
     /\ Goto("attached", providers # file["cache"])
     /\ UNCHANGED << meta, record, kills, user, ghost >>

-----------------------------------------------------------------------------
(* Detach. *)

\* A provider that does not point at the gateway is left alone.
Skipped(f, p, port) ==
  file[f][p].there /\ file[f][p].url \notin {Unset, port}

\* What is put back for a provider of a file.
Restored(f, object, entry) ==
  IF ~object.there \/ entry.created[f] THEN Absent
  ELSE [object EXCEPT !.url = entry.original[f],
                      !.api = IF entry.hadApi[f] \/ @ # entry.family THEN @ ELSE NoApi]

Noted == {p \in Provider : meta[p] # None}

\* Mutant of Detached: only the selected provider is restored.
DetachedPrimary(f) ==
  [p \in Provider |->
    IF p # primary \/ p \notin Noted \/ Skipped(f, p, cmd.port) THEN file[f][p]
    ELSE Restored(f, file[f][p], meta[p])]

\* The providers of a file, those the metadata names restored.
Detached(f) ==
  [p \in Provider |->
    IF p \notin Noted \/ Skipped(f, p, cmd.port) THEN file[f][p]
    ELSE Restored(f, file[f][p], meta[p])]

\* A provider that is not there counts as a change.
DetachChanges(f) ==
  Detached(f) # file[f] \/ \E p \in Noted : ~file[f][p].there

DetachCache ==
  /\ cmd.pc = "detach"
  /\ Written("cache", Detached("cache"), DetachChanges("cache"))
  /\ Goto("detach_config", FALSE)
  /\ UNCHANGED << meta, record, kills, user, ghost >>

\* An entry stays in the metadata when its provider was left alone here, and all
\* stay when nothing changes.
DetachConfig ==
  /\ cmd.pc = "detach_config"
  /\ Written("config", Detached("config"), DetachChanges("config"))
  /\ cmd' = [cmd EXCEPT
       !.pc = IF DetachChanges("config") THEN "forget" ELSE "detached",
       !.keep = {p \in Noted : Skipped("config", p, cmd.port)}]
  /\ UNCHANGED << meta, record, kills, user, ghost >>

Forget ==
  /\ cmd.pc = "forget"
  /\ meta' = [p \in Provider |-> IF p \in cmd.keep THEN meta[p] ELSE None]
  /\ Goto("detached", FALSE)
  /\ UNCHANGED << file, backup, record, kills, user, ghost >>

-----------------------------------------------------------------------------
(* The commands. *)

Run(op, pc, port) ==
  /\ cmd = Idle
  /\ cmd' = [Idle EXCEPT !.op = op, !.pc = pc, !.port = port]
  /\ UNCHANGED << files, record, kills, user, ghost >>

\* enable, and start or restart when OpenClaw is enabled.
Enable(port) == Run("enable", "attach", port)

Disable == record.enabled /\ Run("disable", "detach", record.port)

\* The rest of the command succeeds, and controller.json is written.
Save ==
  /\ \/ cmd.op = "enable" /\ cmd.pc = "attached"
     \/ cmd.op = "disable" /\ cmd.pc = "detached"
  /\ record' = [port |-> cmd.port, enabled |-> cmd.op = "enable"]
  /\ cmd' = [Idle EXCEPT !.port = cmd.port]
  /\ UNCHANGED << files, kills, user, ghost >>

\* The rest of enable fails: what attach changed is undone.
Fail ==
  /\ cmd.op = "enable" /\ cmd.pc = "attached"
  /\ cmd' = IF ~cmd.changed THEN Idle
            ELSE IF record.enabled
            THEN [Idle EXCEPT !.op = "undo", !.pc = "attach"]
            ELSE [Idle EXCEPT !.op = "undo", !.pc = "detach", !.port = cmd.port]
  /\ UNCHANGED << files, record, kills, user, ghost >>

Undone ==
  /\ cmd.op = "undo" /\ cmd.pc \in {"attached", "detached"}
  /\ cmd' = Idle
  /\ UNCHANGED << files, record, kills, user, ghost >>

-----------------------------------------------------------------------------
(* The surroundings: a kill of the command, and the user of OpenClaw. *)

Places == File \X Provider

Routed == {x \in Places : file[x[1]][x[2]].url \in Port}

\* The provider whose entry is about to be written.
Pending == IF cmd.pc = "note" THEN {primary} ELSE {}

\* The providers with an entry for a port to which the configuration does not
\* route them, or not the cache, if it routes them.
Split == {p \in Noted : \/ file["config"][p].url # meta[p].route
                       \/ file["cache"][p].url \in Port \ {meta[p].route}}

Kill ==
  /\ cmd # Idle /\ kills < MaxKills
  /\ kills' = kills + 1
  /\ cmd' = Idle
  /\ left' = left \union Routed \union (File \X (Noted \union Pending))
  /\ forgotten' = forgotten \union ({"config"} \X Pending) \union ({"cache"} \X Split)
  /\ UNCHANGED << files, record, user >>

Select(p) ==
  /\ cmd = Idle /\ p # primary /\ edits < MaxEdits
  /\ edits' = edits + 1
  /\ primary' = p
  /\ UNCHANGED << files, record, cmd, kills, wish, ghost >>

\* The user gives a provider of a file another URL, or removes it.
Edit(f, p, object) ==
  /\ cmd = Idle /\ object # file[f][p] /\ edits < MaxEdits
  /\ edits' = edits + 1
  /\ file' = [file EXCEPT ![f][p] = object]
  /\ wish' = [wish EXCEPT ![f][p] = object]
  /\ IF meta[p] = None
     THEN forgotten' = forgotten \ {<< f, p >>} /\ UNCHANGED left
     ELSE /\ forgotten' = forgotten \union (File \X {p})
          /\ left' = left \union (File \X {p})
  /\ UNCHANGED << meta, backup, primary, record, cmd, kills >>

Edits(f, p) ==
  {Absent} \union {[file[f][p] EXCEPT !.there = TRUE, !.url = u] : u \in Url \union {Unset}}

-----------------------------------------------------------------------------
AttachStep == AttachConfig \/ AttachRefused \/ WriteMetadata \/ AttachCache

DetachStep == DetachCache \/ DetachConfig \/ Forget

Next ==
  \/ \E port \in Port : Enable(port)
  \/ Disable
  \/ AttachStep \/ DetachStep
  \/ Save \/ Fail \/ Undone
  \/ Kill
  \/ \E p \in Provider : Select(p)
  \/ \E f \in File, p \in Provider : \E object \in Edits(f, p) : Edit(f, p, object)

Spec == Init /\ [][Next]_vars
-----------------------------------------------------------------------------
(* Properties. *)

\* What the metadata says of a provider, when the write under way is done.
Told(p) == IF p \in Pending THEN cmd.entry ELSE meta[p]

\* What a detach that is given a port makes of a provider at this moment.
Returned(f, p, port) ==
  IF Told(p) = None \/ Skipped(f, p, port) THEN file[f][p]
  ELSE Restored(f, file[f][p], Told(p))

\* Whatever enables, starts, changes of the port, failed commands with their
\* rollbacks, and selections of other providers went before, detach gives the
\* provider of each file back as the user had it, base URL and API; of a provider
\* the user did not have it leaves no URL (openclaw_routes.py, lines 87-141).  Not
\* so for a provider routed to another port than detach is given, which is the
\* recorded one (controller_service.py, line 465): attached at an earlier port and
\* not selected since, it stays at a gateway that is gone, and so does its entry,
\* by which a detach at that port gives it back.  Nor for a local URL, for a
\* provider the user edits while it is routed, and for one a killed command left
\* routed without its entry or to another port than its entry or the other file
\* tells.
GivesBack ==
  \A f \in File, p \in Provider, port \in Port :
    \/ << f, p >> \in forgotten
    \/ wish[f][p].url \in Local
    \/ file[f][p].url \in Port \ {port} /\ Told(p) # None
    \/ IF wish[f][p].there THEN wish[f][p] = Returned(f, p, port)
       ELSE Returned(f, p, port).url = Unset

\* Between commands, once OpenClaw is disabled no provider of either file is left
\* at the gateway, also when another was selected since it was attached, but for
\* those attached under another port than the recorded one, those a killed
\* command had in hand and those the user edited meanwhile; and while it is
\* enabled, the selected provider is routed in both files, until the first kill,
\* edit or other selection (openclaw_transaction.py, lines 138-289).
FilesFollowRecord ==
  cmd.pc = "idle" =>
    /\ ~record.enabled =>
         \A x \in Routed \ left :
           meta[x[2]] # None /\ meta[x[2]].route # record.port
    /\ record.enabled /\ edits = 0 /\ kills = 0 =>
         \A f \in File : file[f][primary].url = record.port

\* Wherever a command is killed and whatever the user edits, the URL the user
\* gave a provider of a file is in the file, in the metadata or in a backup of the
\* file (openclaw_transaction.py, lines 113-119 and 162-166).
UrlNotLost ==
  \A f \in File, p \in Provider :
    \/ wish[f][p].url \in {Unset, file[f][p].url} \union backup[f][p]
    \/ meta[p] # None /\ wish[f][p].url = meta[p].original[f]
-----------------------------------------------------------------------------
(* The inductive invariant. *)

Attaching == {"attach", "note", "attach_cache", "attached"}
Detaching == {"detach", "detach_config", "forget", "detached"}

CommandType ==
  [op : {"none", "enable", "disable", "undo"}, pc : {"idle"} \union Attaching \union Detaching,
   port : Port, entry : Entry \union {None}, keep : SUBSET Provider, changed : BOOLEAN]

TypeOK ==
  /\ file \in [File -> [Provider -> Object]]
  /\ meta \in [Provider -> Entry \union {None}]
  /\ backup \in [File -> [Provider -> SUBSET Url]]
  /\ primary \in Provider
  /\ record \in [port : Port, enabled : BOOLEAN]
  /\ cmd \in CommandType
  /\ kills \in Nat /\ edits \in Nat
  /\ wish \in [File -> [Provider -> Own]]
  /\ forgotten \subseteq Places /\ left \subseteq Places

\* The backups alone keep the URLs the user gave.
BackedUp ==
  \A f \in File, p \in Provider :
    wish[f][p].url \in {Unset, file[f][p].url} \union backup[f][p]

\* An attach was possible when the entry was made.
Serves(entry) ==
  entry.family \in Supported /\ \E f \in File : entry.original[f] # Unset

\* What a command is for, and how far it is.
CommandInv ==
  /\ cmd.pc = "idle" => cmd.op = "none"
  /\ cmd.pc \in Attaching =>
       cmd.op = "enable" \/ (cmd.op = "undo" /\ record.enabled /\ cmd.port = record.port)
  /\ cmd.pc \in Detaching =>
       IF record.enabled THEN cmd.op = "disable" /\ cmd.port = record.port
       ELSE cmd.op = "undo"
  /\ cmd.pc = "note" =>
       /\ cmd.entry # None /\ Serves(cmd.entry) /\ cmd.entry.route = cmd.port
       /\ meta[primary] # None => \A f \in File : cmd.entry.hadApi[f] <=> meta[primary].hadApi[f]
  /\ cmd.pc \in {"note", "attach_cache", "attached"} => file["config"][primary].url = cmd.port
  /\ cmd.pc \in {"attach_cache", "attached"} =>
       meta[primary] # None /\ meta[primary].route = cmd.port
  /\ cmd.pc = "attached" => file["cache"][primary].url = cmd.port
  /\ \A p \in Provider : meta[p] # None => Serves(meta[p])

GhostInv ==
  /\ forgotten \subseteq left
  /\ \A p \in Provider : << "config", p >> \in left <=> << "cache", p >> \in left
  /\ kills = 0 /\ edits = 0 => left = {}

\* The detach has yet to remove the entry.
Removing(p) == cmd.pc = "forget" /\ p \notin cmd.keep

\* The configuration is routed as the entry says, and the cache, if it is routed.
RouteOf(p) ==
  /\ << "config", p >> \notin forgotten /\ file["config"][p].url \in Port => Told(p) # None
  /\ << "cache", p >> \notin forgotten =>
       /\ file["cache"][p].url \in Port => meta[p] # None
       /\ Told(p) # None /\ ~Removing(p) =>
            /\ file["config"][p].url = Told(p).route
            /\ file["config"][p].api = Told(p).family
       /\ meta[p] # None /\ ~Removing(p) =>
            /\ meta[p].family = file["config"][p].api
            /\ file["cache"][p].url \in Port =>
                 \/ file["cache"][p].url = meta[p].route
                 \/ cmd.pc = "attach_cache" /\ p = primary

RouteInv == \A p \in Provider : RouteOf(p)

\* How far a detach has come with a provider of the metadata.
DetachOf(p) ==
  meta[p] # None =>
    /\ cmd.pc = "detach_config" => file["cache"][p].url # cmd.port
    /\ Removing(p) =>
         /\ file["config"][p].url \notin Port
         /\ file["cache"][p].url \in Port => << "cache", p >> \in forgotten
    /\ cmd.pc = "forget" /\ p \in cmd.keep => file["config"][p].url # cmd.port
    /\ cmd.pc = "detached" /\ << "cache", p >> \notin left => meta[p].route # cmd.port

DetachInv == \A p \in Provider : DetachOf(p)

\* An entry tells what the user had.
Fits(f, p, entry) ==
  /\ entry.original[f] = wish[f][p].url
  /\ wish[f][p].there => ~entry.created[f] /\ (entry.hadApi[f] \/ wish[f][p].api = NoApi)

\* A provider that is not routed, or routed as an entry says.
AsWished(f, p) ==
  file[f][p] = wish[f][p] \/ (~wish[f][p].there /\ file[f][p].url = Unset)

AsTold(f, p, entry) ==
  wish[f][p].there =>
    file[f][p].api = IF entry.hadApi[f] THEN wish[f][p].api ELSE entry.family

\* What detach gives back, at any moment.
GiveOf(f, p) ==
  << f, p >> \notin forgotten /\ wish[f][p].url \notin Local =>
    /\ IF file[f][p].url \in Port THEN Told(p) # None /\ AsTold(f, p, Told(p))
       ELSE AsWished(f, p)
    /\ Told(p) # None => Fits(f, p, Told(p))
    /\ meta[p] # None => Fits(f, p, meta[p])

GiveInv == \A f \in File, p \in Provider : GiveOf(f, p)

\* While OpenClaw is disabled no entry is for the recorded port, but that of the
\* command under way.
DisabledInv ==
  ~record.enabled =>
    /\ \A p \in Noted : << "cache", p >> \notin left =>
         \/ meta[p].route # record.port
         \/ /\ p = primary /\ meta[p].route = cmd.port
            /\ cmd.pc \in {"attach_cache", "attached"} \union Detaching
    /\ cmd.pc \in {"note", "attach_cache", "attached"} /\ ~cmd.changed
         /\ << "cache", primary >> \notin left => cmd.port # record.port

\* While it is enabled the selected provider is routed, and can be again.
EnabledInv ==
  record.enabled /\ kills = 0 /\ edits = 0 /\ cmd.op # "disable" =>
    /\ meta[primary] # None
    /\ cmd.pc = "idle" \/ (cmd.pc = "attach" /\ cmd.op = "enable") =>
         \A f \in File : file[f][primary].url = record.port
    /\ cmd.pc \in {"note", "attach_cache", "attached"} /\ ~cmd.changed =>
         cmd.port = record.port

IInv ==
  /\ TypeOK /\ BackedUp /\ CommandInv /\ GhostInv /\ RouteInv /\ DetachInv /\ GiveInv
  /\ DisabledInv /\ EnabledInv
=============================================================================
