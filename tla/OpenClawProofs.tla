--------------------------- MODULE OpenClawProofs ---------------------------
(***************************************************************************)
(* Proofs about OpenClaw, for every set of providers, URLs, families and   *)
(* ports, and every number of commands, kills and edits.                   *)
(***************************************************************************)
EXTENDS OpenClaw, TLAPS

-----------------------------------------------------------------------------
(* Providers of the files. *)

LEMMA ObjectFacts ==
  ASSUME NEW o \in Object
  PROVE  /\ o.url \in Url \union Port \union {Unset}
         /\ o.api \in Api \union {NoApi}
         /\ o.there \in BOOLEAN
         /\ o.url \in Port => o.there
         /\ ~o.there => o = Absent
<1>1. Unset \notin Port
  BY OpenClawAssumption DEF OpenClawAssumption
<1>2. CASE o = Absent
  BY <1>1, <1>2 DEF Absent
<1>3. CASE o # Absent
  <2>1. o \in [there : {TRUE}, url : Url \union Port \union {Unset}, api : Api \union {NoApi}]
    BY <1>3 DEF Object
  <2> QED
    BY <2>1
<1> QED
  BY <1>2, <1>3

LEMMA AbsentFacts ==
  /\ Absent \in Object /\ Absent \in Own
  /\ ~Absent.there /\ Absent.url = Unset /\ Absent.api = NoApi /\ Unset \notin Port
BY OpenClawAssumption DEF Object, Own, Absent, OpenClawAssumption

LEMMA SameObject ==
  ASSUME NEW o \in Object, NEW u \in Object,
         o.there = u.there, o.url = u.url, o.api = u.api
  PROVE  o = u
<1>1. ASSUME NEW x \in Object PROVE x = [there |-> x.there, url |-> x.url, api |-> x.api]
  <2>1. CASE x = Absent
    BY <2>1 DEF Absent
  <2>2. CASE x \in [there : {TRUE}, url : Url \union Port \union {Unset}, api : Api \union {NoApi}]
    BY <2>2
  <2> QED
    BY <2>1, <2>2 DEF Object
<1> QED
  BY <1>1

LEMMA EntryFacts ==
  ASSUME NEW e \in Entry
  PROVE  /\ e.family \in Api /\ e.family # NoApi /\ e.route \in Port
         /\ \A f \in File : /\ e.original[f] \in Url \union {Unset}
                            /\ e.original[f] \notin Port
                            /\ e.created[f] \in BOOLEAN /\ e.hadApi[f] \in BOOLEAN
BY OpenClawAssumption DEF Entry, OpenClawAssumption

LEMMA PatchFacts ==
  ASSUME NEW f \in File, NEW o \in Object, NEW e \in Entry
  PROVE  /\ Patch(f, o, e) \in Object
         /\ Patch(f, o, e).there
         /\ Patch(f, o, e).url = e.route
         /\ Patch(f, o, e).api = IF e.hadApi[f] THEN o.api ELSE e.family
<1>1. e.route \in Port /\ e.family \in Api
  BY EntryFacts
<1>2. o.api \in Api \union {NoApi}
  BY ObjectFacts
<1> QED
  BY <1>1, <1>2 DEF Patch, Object

LEMMA RestoredFacts ==
  ASSUME NEW f \in File, NEW o \in Object, NEW e \in Entry
  PROVE  /\ Restored(f, o, e) \in Object
         /\ Restored(f, o, e).url \notin Port
         /\ ~o.there \/ e.created[f] => Restored(f, o, e) = Absent
         /\ o.there /\ ~e.created[f] =>
              /\ Restored(f, o, e).there
              /\ Restored(f, o, e).url = e.original[f]
              /\ Restored(f, o, e).api =
                   IF e.hadApi[f] \/ o.api # e.family THEN o.api ELSE NoApi
<1>1. CASE ~o.there \/ e.created[f]
  BY <1>1, AbsentFacts DEF Restored
<1>2. CASE o.there /\ ~e.created[f]
  <2>1. o # Absent
    BY <1>2, AbsentFacts
  <2>2. o \in [there : {TRUE}, url : Url \union Port \union {Unset}, api : Api \union {NoApi}]
    BY <2>1 DEF Object
  <2>3. e.original[f] \in Url \union {Unset} /\ e.original[f] \notin Port
    BY EntryFacts
  <2>4. Restored(f, o, e) = [there |-> TRUE, url |-> e.original[f],
          api |-> IF e.hadApi[f] \/ o.api # e.family THEN o.api ELSE NoApi]
    BY <1>2, <2>2 DEF Restored
  <2> QED
    BY <1>2, <2>2, <2>3, <2>4 DEF Object
<1> QED
  BY <1>1, <1>2

-----------------------------------------------------------------------------
(* What the actions do. *)

\* Everything but the command stays.
OnlyCommand ==
  /\ file' = file /\ meta' = meta /\ backup' = backup /\ record' = record
  /\ kills' = kills /\ edits' = edits /\ primary' = primary /\ wish' = wish
  /\ forgotten' = forgotten /\ left' = left

\* Everything but the files, the metadata, the backups and the command stays.
OnlyFiles ==
  /\ record' = record
  /\ kills' = kills /\ edits' = edits /\ primary' = primary /\ wish' = wish
  /\ forgotten' = forgotten /\ left' = left

\* A provider is copied before it is changed.
Copied ==
  /\ backup' \in [File -> [Provider -> SUBSET Url]]
  /\ \A f \in File, p \in Provider :
       /\ backup[f][p] \subseteq backup'[f][p]
       /\ file'[f][p] # file[f][p] => {file[f][p].url} \intersect Url \subseteq backup'[f][p]

LEMMA IdleFacts ==
  ASSUME TypeOK
  PROVE  /\ Idle \in CommandType
         /\ Idle.op = "none" /\ Idle.pc = "idle" /\ Idle.port = record.port
         /\ Idle.keep = {} /\ ~Idle.changed
BY DEF TypeOK, Idle, CommandType

LEMMA CommandFacts ==
  ASSUME TypeOK
  PROVE  /\ cmd.port \in Port /\ cmd.changed \in BOOLEAN
         /\ cmd.entry \in Entry \union {None} /\ cmd.keep \subseteq Provider
         /\ record.port \in Port /\ record.enabled \in BOOLEAN
BY DEF TypeOK, CommandType

LEMMA WrittenEffect ==
  ASSUME TypeOK, NEW f \in File, NEW providers \in [Provider -> Object], NEW changed,
         changed \in BOOLEAN,
         providers # file[f] => changed,
         Written(f, providers, changed)
  PROVE  /\ file' \in [File -> [Provider -> Object]]
         /\ file'[f] = providers
         /\ \A g \in File : g # f => file'[g] = file[g]
         /\ Copied
<1>1. /\ file' = [file EXCEPT ![f] = providers]
      /\ file \in [File -> [Provider -> Object]]
      /\ backup \in [File -> [Provider -> SUBSET Url]]
  BY DEF Written, TypeOK
<1>2. /\ file'[f] = providers
      /\ \A g \in File : g # f => file'[g] = file[g]
      /\ file' \in [File -> [Provider -> Object]]
  BY <1>1
<1>3. CASE changed
  <2> DEFINE copy == [p \in Provider |-> backup[f][p] \union ({file[f][p].url} \intersect Url)]
  <2>1. backup' = [backup EXCEPT ![f] = copy]
    BY <1>3, <1>1 DEF Written
  <2>2. copy \in [Provider -> SUBSET Url]
    BY <1>1
  <2>3. \A p \in Provider : /\ backup[f][p] \subseteq copy[p]
                            /\ {file[f][p].url} \intersect Url \subseteq copy[p]
    OBVIOUS
  <2> HIDE DEF copy
  <2>4. /\ backup' \in [File -> [Provider -> SUBSET Url]]
        /\ backup'[f] = copy /\ \A g \in File : g # f => backup'[g] = backup[g]
    BY <2>1, <2>2, <1>1
  <2> QED
    BY <1>2, <2>3, <2>4 DEF Copied
<1>4. CASE ~changed
  <2>1. backup' = backup /\ providers = file[f]
    BY <1>4 DEF Written
  <2> QED
    BY <1>1, <1>2, <2>1 DEF Copied
<1> QED
  BY <1>3, <1>4

LEMMA OriginalFacts ==
  ASSUME TypeOK, NEW f \in File, NEW p \in Provider
  PROVE  /\ Original(f, p) \in Url \union {Unset}
         /\ meta[p] # None /\ meta[p].original[f] # Unset =>
              Original(f, p) = meta[p].original[f]
         /\ ~(meta[p] # None /\ meta[p].original[f] # Unset) =>
              Original(f, p) = IF file[f][p].url \in Url \ Local THEN file[f][p].url ELSE Unset
<1>1. meta[p] # None => meta[p] \in Entry
  BY DEF TypeOK
<1> QED
  BY <1>1, EntryFacts DEF Original

LEMMA FamilyFacts ==
  ASSUME TypeOK, NEW p \in Provider
  PROVE  /\ Family(p) \in Api \union {NoApi}
         /\ file["config"][p].api # NoApi => Family(p) = file["config"][p].api
<1>1. "config" \in File /\ "cache" \in File
  BY DEF File
<1>2. file["config"][p] \in Object /\ file["cache"][p] \in Object
  BY <1>1 DEF TypeOK
<1> QED
  BY <1>2, ObjectFacts DEF Family

LEMMA TargetFacts ==
  ASSUME TypeOK, CanRoute, NEW port \in Port
  PROVE  LET entry == Target(port) IN
         /\ entry \in Entry /\ Serves(entry) /\ entry.route = port
         /\ entry.family = Family(primary)
         /\ \A f \in File :
              /\ entry.original[f] = Original(f, primary)
              /\ entry.created[f] <=> ~file[f][primary].there
              /\ meta[primary] = None => (entry.hadApi[f] <=> file[f][primary].api # NoApi)
              /\ meta[primary] # None => (entry.hadApi[f] <=> meta[primary].hadApi[f])
<1> DEFINE entry == Target(port)
<1>1. primary \in Provider /\ file \in [File -> [Provider -> Object]]
  BY DEF TypeOK
<1>2. Family(primary) \in Api /\ Family(primary) \in Supported
  BY OpenClawAssumption DEF CanRoute, OpenClawAssumption
<1>3. \A f \in File : Original(f, primary) \in Url \union {Unset}
  BY <1>1, OriginalFacts
<1>4. \A f \in File : (~file[f][primary].there) \in BOOLEAN
  OBVIOUS
<1>5. meta[primary] # None => meta[primary] \in Entry
  BY DEF TypeOK
<1>6. \A f \in File : (IF meta[primary] = None THEN file[f][primary].api # NoApi
                       ELSE meta[primary].hadApi[f]) \in BOOLEAN
  BY <1>5, EntryFacts
<1>7. /\ entry.family = Family(primary) /\ entry.route = port
      /\ entry.original = [f \in File |-> Original(f, primary)]
      /\ entry.created = [f \in File |-> ~file[f][primary].there]
      /\ entry.hadApi = [f \in File |-> IF meta[primary] = None
                                        THEN file[f][primary].api # NoApi
                                        ELSE meta[primary].hadApi[f]]
      /\ entry = [family |-> entry.family, route |-> entry.route, original |-> entry.original,
                  created |-> entry.created, hadApi |-> entry.hadApi]
  BY DEF Target
<1> HIDE DEF entry
<1>8. entry.original \in [File -> Url \union {Unset}]
  BY <1>3, <1>7
<1>9. entry.created \in [File -> BOOLEAN]
  BY <1>7
<1>10. entry.hadApi \in [File -> BOOLEAN]
  BY <1>6, <1>7
<1>11. entry \in Entry
  BY <1>2, <1>7, <1>8, <1>9, <1>10 DEF Entry
<1>12. Serves(entry)
  BY <1>2, <1>7 DEF Serves, CanRoute
<1>13. ASSUME NEW f \in File
       PROVE  /\ entry.original[f] = Original(f, primary)
              /\ entry.created[f] <=> ~file[f][primary].there
              /\ meta[primary] = None => (entry.hadApi[f] <=> file[f][primary].api # NoApi)
              /\ meta[primary] # None => (entry.hadApi[f] <=> meta[primary].hadApi[f])
  <2>1. entry.original[f] = Original(f, primary) /\ entry.created[f] = ~file[f][primary].there
    BY <1>7
  <2>2. entry.hadApi[f] = IF meta[primary] = None THEN file[f][primary].api # NoApi
                          ELSE meta[primary].hadApi[f]
    BY <1>7
  <2>3. CASE meta[primary] = None
    BY <2>1, <2>2, <2>3
  <2>4. CASE meta[primary] # None
    BY <2>1, <2>2, <2>4
  <2> QED
    BY <2>3, <2>4
<1>14. entry.family = Family(primary) /\ entry.route = port
  BY <1>7
<1> QED
  BY <1>11, <1>12, <1>13, <1>14 DEF entry

\* The command is at another place.
Moved(pc) ==
  /\ cmd' \in CommandType
  /\ cmd'.pc = pc /\ cmd'.op = cmd.op /\ cmd'.port = cmd.port

LEMMA GotoEffect ==
  ASSUME TypeOK, NEW pc \in {"idle"} \union Attaching \union Detaching,
         NEW changed \in BOOLEAN, Goto(pc, changed)
  PROVE  /\ Moved(pc)
         /\ cmd'.entry = cmd.entry /\ cmd'.keep = cmd.keep
         /\ cmd'.changed <=> (cmd.changed \/ changed)
<1>1. cmd \in CommandType /\ cmd' = [cmd EXCEPT !.pc = pc, !.changed = cmd.changed \/ changed]
  BY DEF TypeOK, Goto
<1>2. (cmd.changed \/ changed) \in BOOLEAN
  BY <1>1 DEF CommandType
<1> QED
  BY <1>1, <1>2 DEF CommandType, Moved

LEMMA PatchedFacts ==
  ASSUME TypeOK, NEW f \in File, NEW entries \in [Provider -> Entry \union {None}]
  PROVE  /\ Patched(f, entries) \in [Provider -> Object]
         /\ \A p \in Provider :
              /\ entries[p] = None => Patched(f, entries)[p] = file[f][p]
              /\ entries[p] # None => Patched(f, entries)[p] = Patch(f, file[f][p], entries[p])
<1>1. file[f] \in [Provider -> Object]
  BY DEF TypeOK
<1>2. \A p \in Provider : entries[p] # None => Patch(f, file[f][p], entries[p]) \in Object
  BY <1>1, PatchFacts
<1> QED
  BY <1>1, <1>2 DEF Patched

LEMMA DetachedFacts ==
  ASSUME TypeOK, NEW f \in File
  PROVE  /\ Detached(f) \in [Provider -> Object]
         /\ Detached(f) # file[f] => DetachChanges(f)
         /\ DetachChanges(f) \in BOOLEAN
         /\ \A p \in Provider :
              Detached(f)[p] = IF p \notin Noted \/ Skipped(f, p, cmd.port) THEN file[f][p]
                               ELSE Restored(f, file[f][p], meta[p])
<1>1. file[f] \in [Provider -> Object]
  BY DEF TypeOK
<1>2. \A p \in Noted : meta[p] \in Entry /\ p \in Provider
  BY DEF TypeOK, Noted
<1>3. \A p \in Noted : Restored(f, file[f][p], meta[p]) \in Object
  BY <1>1, <1>2, RestoredFacts
<1> QED
  BY <1>1, <1>3 DEF Detached, DetachChanges

LEMMA AttachConfigEffect ==
  ASSUME TypeOK, AttachConfig, NEW entry, entry = Target(cmd.port)
  PROVE  /\ cmd.pc = "attach" /\ CanRoute
         /\ entry \in Entry
         /\ file' \in [File -> [Provider -> Object]]
         /\ file'["cache"] = file["cache"]
         /\ \A p \in Provider : p # primary => file'["config"][p] = file["config"][p]
         /\ file'["config"][primary] = Patch("config", file["config"][primary], entry)
         /\ Copied
         /\ meta' = meta /\ OnlyFiles
         /\ Moved("note") /\ cmd'.entry = entry /\ cmd'.keep = cmd.keep
         /\ ~cmd'.changed => file'["config"] = file["config"]
<1> DEFINE entries == [p \in Provider |-> IF p = primary THEN entry ELSE None]
           providers == Patched("config", entries)
<1>1. /\ cmd.pc = "attach" /\ CanRoute
      /\ Written("config", providers, providers # file["config"])
      /\ cmd' = [cmd EXCEPT !.pc = "note", !.entry = entry,
                            !.changed = (providers # file["config"])]
      /\ UNCHANGED << meta, record, kills, user, ghost >>
  BY DEF AttachConfig
<1>2. meta' = meta /\ OnlyFiles
  BY <1>1 DEF OnlyFiles, user, ghost
<1>3. entry \in Entry
  BY <1>1, CommandFacts, TargetFacts
<1>4. "config" \in File /\ "cache" \in File /\ "config" # "cache" /\ primary \in Provider
  BY DEF File, TypeOK
<1>5. /\ entries \in [Provider -> Entry \union {None}] /\ entries[primary] = entry
      /\ entry # None /\ \A p \in Provider : p # primary => entries[p] = None
  BY <1>3, <1>4, OpenClawAssumption DEF OpenClawAssumption
<1> HIDE DEF entries
<1>6. /\ providers \in [Provider -> Object]
      /\ \A p \in Provider :
           /\ entries[p] = None => providers[p] = file["config"][p]
           /\ entries[p] # None => providers[p] = Patch("config", file["config"][p], entries[p])
  BY <1>4, <1>5, PatchedFacts
<1> HIDE DEF providers
<1> DEFINE changed == providers # file["config"]
<1>7. changed \in BOOLEAN
  OBVIOUS
<1>8. /\ file' \in [File -> [Provider -> Object]]
      /\ file'["config"] = providers
      /\ \A g \in File : g # "config" => file'[g] = file[g]
      /\ Copied
  BY <1>1, <1>4, <1>6, <1>7, WrittenEffect
<1>9. Moved("note") /\ cmd'.entry = entry /\ cmd'.keep = cmd.keep /\ cmd'.changed = changed
  <2>1. cmd \in CommandType
    BY DEF TypeOK
  <2> HIDE DEF changed
  <2>2. cmd' = [cmd EXCEPT !.pc = "note", !.entry = entry, !.changed = changed]
    BY <1>1 DEF changed
  <2> QED
    BY <2>1, <2>2, <1>3, <1>7 DEF CommandType, Moved, Attaching
<1> QED
  BY <1>1, <1>2, <1>3, <1>4, <1>5, <1>6, <1>8, <1>9

LEMMA AttachRefusedEffect ==
  ASSUME TypeOK, AttachRefused
  PROVE  cmd.pc = "attach" /\ ~CanRoute /\ cmd' = Idle /\ OnlyCommand
BY DEF AttachRefused, OnlyCommand, files, user, ghost

LEMMA WriteMetadataEffect ==
  ASSUME TypeOK, WriteMetadata
  PROVE  /\ cmd.pc = "note"
         /\ file' = file /\ backup' = backup /\ OnlyFiles
         /\ meta' \in [Provider -> Entry \union {None}]
         /\ meta'[primary] = cmd.entry
         /\ \A p \in Provider : p # primary => meta'[p] = meta[p]
         /\ Moved("attach_cache") /\ cmd'.keep = cmd.keep
         /\ cmd'.changed <=> cmd.changed
<1>1. /\ cmd.pc = "note" /\ meta' = [meta EXCEPT ![primary] = cmd.entry]
      /\ Goto("attach_cache", FALSE)
      /\ UNCHANGED << file, backup, record, kills, user, ghost >>
  BY DEF WriteMetadata
<1>2. "attach_cache" \in {"idle"} \union Attaching \union Detaching
  BY DEF Attaching
<1>3. /\ Moved("attach_cache") /\ cmd'.keep = cmd.keep
      /\ cmd'.changed <=> (cmd.changed \/ FALSE)
  BY <1>1, <1>2, GotoEffect
<1>4. meta \in [Provider -> Entry \union {None}] /\ primary \in Provider
      /\ cmd.entry \in Entry \union {None}
  BY CommandFacts DEF TypeOK
<1> QED
  BY <1>1, <1>3, <1>4 DEF OnlyFiles, user, ghost

LEMMA AttachCacheEffect ==
  ASSUME TypeOK, AttachCache
  PROVE  /\ cmd.pc = "attach_cache"
         /\ file' \in [File -> [Provider -> Object]]
         /\ file'["config"] = file["config"]
         /\ \A p \in Provider :
              /\ meta[p] = None => file'["cache"][p] = file["cache"][p]
              /\ meta[p] # None =>
                   file'["cache"][p] = Patch("cache", file["cache"][p], meta[p])
         /\ Copied
         /\ meta' = meta /\ OnlyFiles
         /\ Moved("attached") /\ cmd'.keep = cmd.keep
         /\ ~cmd'.changed => ~cmd.changed /\ file'["cache"] = file["cache"]
<1> DEFINE providers == Patched("cache", meta)
           changed == providers # file["cache"]
<1>1. /\ cmd.pc = "attach_cache"
      /\ Written("cache", providers, changed)
      /\ Goto("attached", changed)
      /\ UNCHANGED << meta, record, kills, user, ghost >>
  BY DEF AttachCache
<1>2. meta' = meta /\ OnlyFiles
  BY <1>1 DEF OnlyFiles, user, ghost
<1>3. "config" \in File /\ "cache" \in File /\ "config" # "cache"
      /\ meta \in [Provider -> Entry \union {None}]
  BY DEF File, TypeOK
<1>4. /\ providers \in [Provider -> Object]
      /\ \A p \in Provider :
           /\ meta[p] = None => providers[p] = file["cache"][p]
           /\ meta[p] # None => providers[p] = Patch("cache", file["cache"][p], meta[p])
  BY <1>3, PatchedFacts
<1>5. changed \in BOOLEAN /\ "attached" \in {"idle"} \union Attaching \union Detaching
  BY DEF Attaching
<1>6. (providers # file["cache"] => changed) /\ (~changed => providers = file["cache"])
  OBVIOUS
<1> HIDE DEF changed, providers
<1>7. /\ file' \in [File -> [Provider -> Object]]
      /\ file'["cache"] = providers
      /\ \A g \in File : g # "cache" => file'[g] = file[g]
      /\ Copied
  BY <1>1, <1>3, <1>4, <1>5, <1>6, WrittenEffect
<1>8. /\ Moved("attached") /\ cmd'.keep = cmd.keep
      /\ cmd'.changed <=> (cmd.changed \/ changed)
  BY <1>1, <1>5, GotoEffect
<1> QED
  BY <1>1, <1>2, <1>3, <1>4, <1>6, <1>7, <1>8

LEMMA DetachCacheEffect ==
  ASSUME TypeOK, DetachCache
  PROVE  /\ cmd.pc = "detach"
         /\ file' \in [File -> [Provider -> Object]]
         /\ file'["config"] = file["config"]
         /\ \A p \in Provider :
              file'["cache"][p] =
                IF p \notin Noted \/ Skipped("cache", p, cmd.port) THEN file["cache"][p]
                ELSE Restored("cache", file["cache"][p], meta[p])
         /\ Copied
         /\ meta' = meta /\ OnlyFiles
         /\ Moved("detach_config")
<1>1. /\ cmd.pc = "detach"
      /\ Written("cache", Detached("cache"), DetachChanges("cache"))
      /\ Goto("detach_config", FALSE)
      /\ UNCHANGED << meta, record, kills, user, ghost >>
  BY DEF DetachCache
<1>2. meta' = meta /\ OnlyFiles
  BY <1>1 DEF OnlyFiles, user, ghost
<1>3. "config" \in File /\ "cache" \in File /\ "config" # "cache"
  BY DEF File
<1>4. /\ file' \in [File -> [Provider -> Object]]
      /\ file'["cache"] = Detached("cache")
      /\ \A g \in File : g # "cache" => file'[g] = file[g]
      /\ Copied
  BY <1>1, <1>3, DetachedFacts, WrittenEffect
<1>5. Moved("detach_config")
  BY <1>1, GotoEffect DEF Detaching
<1> QED
  BY <1>1, <1>2, <1>3, <1>4, <1>5, DetachedFacts

LEMMA DetachConfigEffect ==
  ASSUME TypeOK, DetachConfig
  PROVE  /\ cmd.pc = "detach_config"
         /\ file' \in [File -> [Provider -> Object]]
         /\ file'["cache"] = file["cache"]
         /\ \A p \in Provider :
              file'["config"][p] =
                IF p \notin Noted \/ Skipped("config", p, cmd.port) THEN file["config"][p]
                ELSE Restored("config", file["config"][p], meta[p])
         /\ Copied
         /\ meta' = meta /\ OnlyFiles
         /\ \/ Moved("forget")
            \/ Moved("detached") /\ file' = file
         /\ cmd'.keep = {p \in Noted : Skipped("config", p, cmd.port)}
<1> DEFINE keep == {p \in Noted : Skipped("config", p, cmd.port)}
           pc == IF DetachChanges("config") THEN "forget" ELSE "detached"
<1>1. /\ cmd.pc = "detach_config"
      /\ Written("config", Detached("config"), DetachChanges("config"))
      /\ cmd' = [cmd EXCEPT !.pc = pc, !.keep = keep]
      /\ UNCHANGED << meta, record, kills, user, ghost >>
  BY DEF DetachConfig
<1>2. meta' = meta /\ OnlyFiles
  BY <1>1 DEF OnlyFiles, user, ghost
<1>3. "config" \in File /\ "cache" \in File /\ "config" # "cache"
      /\ file \in [File -> [Provider -> Object]] /\ cmd \in CommandType
  BY DEF File, TypeOK
<1>4. /\ file' \in [File -> [Provider -> Object]]
      /\ file'["config"] = Detached("config")
      /\ \A g \in File : g # "config" => file'[g] = file[g]
      /\ Copied
  BY <1>1, <1>3, DetachedFacts, WrittenEffect
<1>5. keep \subseteq Provider
  BY DEF Noted
<1> HIDE DEF keep
<1>6. /\ pc \in Detaching
      /\ pc = "forget" \/ (pc = "detached" /\ Detached("config") = file["config"])
  BY <1>3, DetachedFacts DEF Detaching
<1> HIDE DEF pc
<1>7. Moved(pc) /\ cmd'.keep = keep
  BY <1>1, <1>3, <1>5, <1>6 DEF Moved, CommandType
<1>8. Detached("config") = file["config"] => file' = file
  BY <1>3, <1>4
<1>9. \/ Moved("forget")
      \/ Moved("detached") /\ file' = file
  BY <1>6, <1>7, <1>8
<1>10. cmd'.keep = {p \in Noted : Skipped("config", p, cmd.port)}
  BY <1>7 DEF keep
<1> QED
  BY <1>1, <1>2, <1>3, <1>4, <1>9, <1>10, DetachedFacts

LEMMA ForgetEffect ==
  ASSUME TypeOK, Forget
  PROVE  /\ cmd.pc = "forget"
         /\ file' = file /\ backup' = backup /\ OnlyFiles
         /\ meta' \in [Provider -> Entry \union {None}]
         /\ \A p \in Provider : meta'[p] = IF p \in cmd.keep THEN meta[p] ELSE None
         /\ Moved("detached")
<1>1. /\ cmd.pc = "forget"
      /\ meta' = [p \in Provider |-> IF p \in cmd.keep THEN meta[p] ELSE None]
      /\ Goto("detached", FALSE)
      /\ UNCHANGED << file, backup, record, kills, user, ghost >>
  BY DEF Forget
<1>2. Moved("detached")
  BY <1>1, GotoEffect DEF Detaching
<1>3. meta \in [Provider -> Entry \union {None}]
  BY DEF TypeOK
<1> QED
  BY <1>1, <1>2, <1>3 DEF OnlyFiles, user, ghost

LEMMA RunEffect ==
  ASSUME TypeOK, NEW op \in {"enable", "disable"}, NEW pc \in {"attach", "detach"},
         NEW port \in Port, Run(op, pc, port)
  PROVE  /\ cmd.pc = "idle" /\ OnlyCommand
         /\ cmd' \in CommandType
         /\ cmd'.op = op /\ cmd'.pc = pc /\ cmd'.port = port
<1>1. /\ cmd = Idle /\ cmd' = [Idle EXCEPT !.op = op, !.pc = pc, !.port = port]
      /\ UNCHANGED << files, record, kills, user, ghost >>
  BY DEF Run
<1>2. OnlyCommand
  BY <1>1 DEF OnlyCommand, files, user, ghost
<1> QED
  BY <1>1, <1>2, IdleFacts DEF CommandType, Attaching, Detaching

LEMMA SaveEffect ==
  ASSUME TypeOK, Save
  PROVE  /\ \/ cmd.op = "enable" /\ cmd.pc = "attached" /\ record'.enabled
            \/ cmd.op = "disable" /\ cmd.pc = "detached" /\ ~record'.enabled
         /\ record' \in [port : Port, enabled : BOOLEAN] /\ record'.port = cmd.port
         /\ cmd' \in CommandType /\ cmd'.pc = "idle" /\ cmd'.op = "none"
         /\ file' = file /\ meta' = meta /\ backup' = backup
         /\ kills' = kills /\ edits' = edits /\ primary' = primary /\ wish' = wish
         /\ forgotten' = forgotten /\ left' = left
<1>1. cmd.port \in Port
  BY CommandFacts
<1>2. /\ \/ cmd.op = "enable" /\ cmd.pc = "attached"
         \/ cmd.op = "disable" /\ cmd.pc = "detached"
      /\ record' = [port |-> cmd.port, enabled |-> cmd.op = "enable"]
      /\ cmd' = [Idle EXCEPT !.port = cmd.port]
      /\ UNCHANGED << files, kills, user, ghost >>
  BY DEF Save
<1>3. cmd' \in CommandType /\ cmd'.pc = "idle" /\ cmd'.op = "none"
  BY <1>1, <1>2, IdleFacts DEF CommandType
<1>4. record' \in [port : Port, enabled : BOOLEAN] /\ record'.port = cmd.port
      /\ record'.enabled = (cmd.op = "enable")
  BY <1>1, <1>2
<1> QED
  BY <1>2, <1>3, <1>4 DEF files, user, ghost

LEMMA FailEffect ==
  ASSUME TypeOK, Fail
  PROVE  /\ cmd.op = "enable" /\ cmd.pc = "attached" /\ OnlyCommand
         /\ cmd' \in CommandType
         /\ \/ ~cmd.changed /\ cmd'.pc = "idle" /\ cmd'.op = "none"
            \/ /\ record.enabled
               /\ cmd'.op = "undo" /\ cmd'.pc = "attach" /\ cmd'.port = record.port
            \/ /\ ~record.enabled
               /\ cmd'.op = "undo" /\ cmd'.pc = "detach" /\ cmd'.port = cmd.port
<1>1. cmd.port \in Port
  BY CommandFacts
<1>2. cmd.op = "enable" /\ cmd.pc = "attached" /\ OnlyCommand
  BY DEF Fail, OnlyCommand, files, user, ghost
<1>3. CASE ~cmd.changed
  <2>1. cmd' = Idle
    BY <1>3 DEF Fail
  <2> QED
    BY <2>1, <1>2, <1>3, IdleFacts
<1>4. CASE cmd.changed /\ record.enabled
  <2>1. cmd' = [Idle EXCEPT !.op = "undo", !.pc = "attach"]
    BY <1>4 DEF Fail
  <2>2. /\ cmd' \in CommandType
        /\ cmd'.op = "undo" /\ cmd'.pc = "attach" /\ cmd'.port = record.port
    BY <2>1, IdleFacts DEF CommandType, Attaching
  <2> QED
    BY <2>2, <1>2, <1>4
<1>5. CASE cmd.changed /\ ~record.enabled
  <2>1. cmd' = [Idle EXCEPT !.op = "undo", !.pc = "detach", !.port = cmd.port]
    BY <1>5 DEF Fail
  <2>2. /\ cmd' \in CommandType
        /\ cmd'.op = "undo" /\ cmd'.pc = "detach" /\ cmd'.port = cmd.port
    BY <2>1, <1>1, IdleFacts DEF CommandType, Detaching
  <2> QED
    BY <2>2, <1>2, <1>5
<1> QED
  BY <1>3, <1>4, <1>5

LEMMA UndoneEffect ==
  ASSUME TypeOK, Undone
  PROVE  /\ cmd.op = "undo" /\ cmd.pc \in {"attached", "detached"} /\ OnlyCommand
         /\ cmd' = Idle
BY DEF Undone, OnlyCommand, files, user, ghost

LEMMA KillEffect ==
  ASSUME TypeOK, Kill
  PROVE  /\ file' = file /\ meta' = meta /\ backup' = backup /\ record' = record
         /\ edits' = edits /\ primary' = primary /\ wish' = wish
         /\ kills' = kills + 1 /\ cmd' = Idle
         /\ left' = left \union Routed \union (File \X (Noted \union Pending))
         /\ forgotten' = forgotten \union ({"config"} \X Pending) \union ({"cache"} \X Split)
BY DEF Kill, files, user

LEMMA SelectEffect ==
  ASSUME TypeOK, NEW p \in Provider, Select(p)
  PROVE  /\ file' = file /\ meta' = meta /\ backup' = backup /\ record' = record
         /\ kills' = kills /\ wish' = wish /\ forgotten' = forgotten /\ left' = left
         /\ cmd.pc = "idle" /\ cmd' = cmd
         /\ edits' = edits + 1 /\ primary' = p
BY IdleFacts DEF Select, files, ghost

LEMMA EditEffect ==
  ASSUME TypeOK, NEW f \in File, NEW p \in Provider, NEW object \in Edits(f, p),
         Edit(f, p, object)
  PROVE  /\ object \in Own
         /\ cmd.pc = "idle" /\ cmd' = cmd /\ edits' = edits + 1
         /\ file' \in [File -> [Provider -> Object]]
         /\ wish' \in [File -> [Provider -> Own]]
         /\ file'[f][p] = object /\ wish'[f][p] = object
         /\ \A g \in File, q \in Provider :
              g # f \/ q # p => file'[g][q] = file[g][q] /\ wish'[g][q] = wish[g][q]
         /\ meta' = meta /\ backup' = backup /\ primary' = primary /\ record' = record
         /\ kills' = kills
         /\ meta[p] = None => forgotten' = forgotten \ {<< f, p >>} /\ left' = left
         /\ meta[p] # None => /\ forgotten' = forgotten \union (File \X {p})
                              /\ left' = left \union (File \X {p})
<1>1. /\ cmd = Idle /\ edits' = edits + 1
      /\ file' = [file EXCEPT ![f][p] = object]
      /\ wish' = [wish EXCEPT ![f][p] = object]
      /\ meta' = meta /\ backup' = backup /\ primary' = primary /\ record' = record
      /\ cmd' = cmd /\ kills' = kills
  BY DEF Edit
<1>2. /\ meta[p] = None => forgotten' = forgotten \ {<< f, p >>} /\ left' = left
      /\ meta[p] # None => /\ forgotten' = forgotten \union (File \X {p})
                           /\ left' = left \union (File \X {p})
  BY DEF Edit
<1>3. /\ file \in [File -> [Provider -> Object]] /\ wish \in [File -> [Provider -> Own]]
  BY DEF TypeOK
<1>4. object \in Own
  <2>1. CASE object = Absent
    BY <2>1, AbsentFacts
  <2>2. ASSUME NEW u \in Url \union {Unset}, object = [file[f][p] EXCEPT !.there = TRUE, !.url = u]
        PROVE  object \in Own
    <3>1. file[f][p] \in Object
      BY <1>3
    <3>2. file[f][p] = Absent \/ file[f][p] \in [there : {TRUE}, url : Url \union Port \union {Unset},
                                                 api : Api \union {NoApi}]
      BY <3>1 DEF Object
    <3>3. object = [there |-> TRUE, url |-> u, api |-> file[f][p].api]
      BY <2>2, <3>2 DEF Absent
    <3>4. u \notin Port /\ file[f][p].api \in Api \union {NoApi}
      BY <3>1, ObjectFacts, OpenClawAssumption DEF OpenClawAssumption
    <3>5. object \in [there : {TRUE}, url : Url \union Port \union {Unset}, api : Api \union {NoApi}]
      BY <3>3, <3>4
    <3>6. object.url = u
      BY <3>3
    <3> QED
      BY <3>4, <3>5, <3>6 DEF Own, Object
  <2> QED
    BY <2>1, <2>2 DEF Edits
<1>5. object \in Object
  BY <1>4 DEF Own
<1>6. /\ file' \in [File -> [Provider -> Object]]
      /\ file'[f][p] = object
      /\ \A g \in File, q \in Provider : g # f \/ q # p => file'[g][q] = file[g][q]
  BY <1>1, <1>3, <1>5
<1>7. /\ wish' \in [File -> [Provider -> Own]]
      /\ wish'[f][p] = object
      /\ \A g \in File, q \in Provider : g # f \/ q # p => wish'[g][q] = wish[g][q]
  BY <1>1, <1>3, <1>4
<1> QED
  BY <1>1, <1>2, <1>4, <1>6, <1>7, IdleFacts

LEMMA CommandStarts ==
  ASSUME TypeOK, NEW port \in Port, Enable(port) \/ Disable
  PROVE  /\ cmd.pc = "idle" /\ OnlyCommand
         /\ cmd' \in CommandType
         /\ \/ cmd'.op = "enable" /\ cmd'.pc = "attach" /\ cmd'.port = port
            \/ /\ cmd'.op = "disable" /\ cmd'.pc = "detach" /\ cmd'.port = record.port
               /\ record.enabled
BY RunEffect, CommandFacts DEF Enable, Disable

LEMMA UnchangedEffect ==
  ASSUME UNCHANGED vars
  PROVE  OnlyCommand /\ cmd' = cmd
BY DEF vars, files, user, ghost, OnlyCommand

-----------------------------------------------------------------------------
(* Types. *)

LEMMA InitialFiles ==
  ASSUME Init
  PROVE  /\ file \in [File -> [Provider -> Own]] /\ wish = file
         /\ \A f \in File, p \in Provider :
              file[f][p] \in Own /\ file[f][p] \in Object /\ file[f][p].url \notin Port
         /\ \A p \in Provider : meta[p] = None
         /\ forgotten = {} /\ left = {} /\ ~record.enabled
         /\ cmd.pc = "idle" /\ cmd.op = "none" /\ kills = 0 /\ edits = 0
<1>1. file \in [File -> [Provider -> Own]]
  BY OpenClawAssumption DEF Init, OpenClawAssumption
<1>2. \A f \in File, p \in Provider :
        file[f][p] \in Own /\ file[f][p] \in Object /\ file[f][p].url \notin Port
  BY <1>1 DEF Own
<1> QED
  BY <1>1, <1>2 DEF Init, Idle

LEMMA TypeInit == Init => TypeOK
<1> SUFFICES ASSUME Init PROVE TypeOK
  OBVIOUS
<1>1. wish \in [File -> [Provider -> Own]] /\ file \in [File -> [Provider -> Object]]
  BY InitialFiles DEF Own
<1>2. record \in [port : Port, enabled : BOOLEAN] /\ record.port \in Port
  BY DEF Init
<1>3. cmd \in CommandType
  BY <1>2 DEF Init, Idle, CommandType
<1> QED
  BY <1>1, <1>2, <1>3 DEF Init, TypeOK

LEMMA TypeStep == TypeOK /\ [Next]_vars => TypeOK'
<1> SUFFICES ASSUME TypeOK, [Next]_vars PROVE TypeOK'
  OBVIOUS
<1> USE DEF TypeOK
<1>1. ASSUME OnlyCommand, cmd' \in CommandType PROVE TypeOK'
  BY <1>1 DEF OnlyCommand, Places
<1>2. ASSUME OnlyFiles, Copied, file' \in [File -> [Provider -> Object]], meta' = meta,
             cmd' \in CommandType
      PROVE  TypeOK'
  BY <1>2 DEF OnlyFiles, Copied, Places
<1>3. ASSUME OnlyFiles, file' = file, backup' = backup, cmd' \in CommandType,
             meta' \in [Provider -> Entry \union {None}]
      PROVE  TypeOK'
  BY <1>3 DEF OnlyFiles, Places
<1> USE DEF Moved
<1>4. ASSUME NEW port \in Port, Enable(port) \/ Disable PROVE TypeOK'
  BY <1>1, <1>4, CommandStarts
<1>5. CASE AttachConfig
  BY <1>2, <1>5, AttachConfigEffect
<1>6. CASE AttachRefused
  BY <1>1, <1>6, AttachRefusedEffect, IdleFacts
<1>7. CASE WriteMetadata
  BY <1>3, <1>7, WriteMetadataEffect
<1>8. CASE AttachCache
  BY <1>2, <1>8, AttachCacheEffect
<1>9. CASE DetachCache
  BY <1>2, <1>9, DetachCacheEffect
<1>10. CASE DetachConfig
  BY <1>2, <1>10, DetachConfigEffect
<1>11. CASE Forget
  BY <1>3, <1>11, ForgetEffect
<1>12. CASE Save
  BY <1>12, SaveEffect DEF Places
<1>13. CASE Fail
  BY <1>1, <1>13, FailEffect
<1>14. CASE Undone
  BY <1>1, <1>14, UndoneEffect, IdleFacts
<1>15. CASE Kill
  <2>1. /\ Routed \subseteq Places /\ File \X (Noted \union Pending) \subseteq Places
        /\ {"config"} \X Pending \subseteq Places /\ {"cache"} \X Split \subseteq Places
    BY DEF Routed, Places, Noted, Pending, Split, File
  <2>2. left' \subseteq Places /\ forgotten' \subseteq Places
    BY <1>15, <2>1, KillEffect DEF Places
  <2> QED
    BY <1>15, <2>2, KillEffect, IdleFacts DEF Places
<1>16. ASSUME NEW p \in Provider, Select(p) PROVE TypeOK'
  BY <1>16, SelectEffect DEF Places
<1>17. ASSUME NEW f \in File, NEW p \in Provider, NEW object \in Edits(f, p),
              Edit(f, p, object)
       PROVE  TypeOK'
  <2>1. File \X {p} \subseteq Places
    BY DEF Places
  <2>2. left \subseteq Places /\ forgotten \subseteq Places
    OBVIOUS
  <2>3. ASSUME meta[p] = None PROVE left' \subseteq Places /\ forgotten' \subseteq Places
    <3>1. forgotten' = forgotten \ {<< f, p >>} /\ left' = left
      BY <1>17, <2>3, EditEffect
    <3> QED
      BY <3>1, <2>2
  <2>4. ASSUME meta[p] # None PROVE left' \subseteq Places /\ forgotten' \subseteq Places
    <3>1. forgotten' = forgotten \union (File \X {p}) /\ left' = left \union (File \X {p})
      BY <1>17, <2>4, EditEffect
    <3> QED
      BY <3>1, <2>1, <2>2
  <2>5. left' \subseteq Places' /\ forgotten' \subseteq Places'
    BY <2>3, <2>4 DEF Places
  <2> QED
    BY <1>17, <2>5, EditEffect
<1>18. CASE UNCHANGED vars
  BY <1>1, <1>18, UnchangedEffect
<1> QED
  BY <1>4, <1>5, <1>6, <1>7, <1>8, <1>9, <1>10, <1>11, <1>12, <1>13, <1>14, <1>15, <1>16,
     <1>17, <1>18, CommandFacts DEF Next, AttachStep, DetachStep

LEMMA TypeFacts ==
  ASSUME TypeOK
  PROVE  /\ primary \in Provider
         /\ "config" \in File /\ "cache" \in File /\ File = {"config", "cache"}
         /\ \A f \in File, p \in Provider : file[f][p] \in Object /\ wish[f][p] \in Own
         /\ \A p \in Provider : meta[p] # None => meta[p] \in Entry
         /\ \A p \in Provider : p \in Noted <=> meta[p] # None
BY DEF TypeOK, File, Noted

LEMMA OwnFacts ==
  ASSUME NEW o \in Own
  PROVE  o \in Object /\ o.url \in Url \union {Unset} /\ o.url \notin Port
BY ObjectFacts DEF Own

-----------------------------------------------------------------------------
(* The backups. *)

LEMMA BackupStep == TypeOK /\ TypeOK' /\ BackedUp /\ [Next]_vars => BackedUp'
<1> SUFFICES ASSUME TypeOK, TypeOK', BackedUp, [Next]_vars PROVE BackedUp'
  OBVIOUS
<1>1. ASSUME file' = file, wish' = wish, backup' = backup PROVE BackedUp'
  BY <1>1 DEF BackedUp
<1>2. ASSUME Copied, wish' = wish PROVE BackedUp'
  <2> SUFFICES ASSUME NEW f \in File, NEW p \in Provider
               PROVE  wish[f][p].url \in {Unset, file'[f][p].url} \union backup'[f][p]
    BY <1>2 DEF BackedUp
  <2>1. wish[f][p].url \in {Unset, file[f][p].url} \union backup[f][p]
    BY DEF BackedUp
  <2>2. wish[f][p].url \in Url \union {Unset}
    BY TypeFacts, OwnFacts
  <2>3. /\ backup[f][p] \subseteq backup'[f][p]
        /\ file'[f][p] # file[f][p] => {file[f][p].url} \intersect Url \subseteq backup'[f][p]
    BY <1>2 DEF Copied
  <2> QED
    BY <2>1, <2>2, <2>3
<1> USE DEF OnlyCommand, OnlyFiles
<1>4. ASSUME NEW port \in Port, Enable(port) \/ Disable PROVE BackedUp'
  BY <1>1, <1>4, CommandStarts
<1>5. CASE AttachConfig
  BY <1>2, <1>5, AttachConfigEffect
<1>6. CASE AttachRefused
  BY <1>1, <1>6, AttachRefusedEffect
<1>7. CASE WriteMetadata
  BY <1>1, <1>7, WriteMetadataEffect
<1>8. CASE AttachCache
  BY <1>2, <1>8, AttachCacheEffect
<1>9. CASE DetachCache
  BY <1>2, <1>9, DetachCacheEffect
<1>10. CASE DetachConfig
  BY <1>2, <1>10, DetachConfigEffect
<1>11. CASE Forget
  BY <1>1, <1>11, ForgetEffect
<1>12. CASE Save
  BY <1>1, <1>12, SaveEffect
<1>13. CASE Fail
  BY <1>1, <1>13, FailEffect
<1>14. CASE Undone
  BY <1>1, <1>14, UndoneEffect
<1>15. CASE Kill
  BY <1>1, <1>15, KillEffect
<1>16. ASSUME NEW p \in Provider, Select(p) PROVE BackedUp'
  BY <1>1, <1>16, SelectEffect
<1>17. ASSUME NEW f \in File, NEW p \in Provider, NEW object \in Edits(f, p),
              Edit(f, p, object)
       PROVE  BackedUp'
  <2> SUFFICES ASSUME NEW g \in File, NEW q \in Provider
               PROVE  wish'[g][q].url \in {Unset, file'[g][q].url} \union backup'[g][q]
    BY DEF BackedUp
  <2>1. wish[g][q].url \in {Unset, file[g][q].url} \union backup[g][q]
    BY DEF BackedUp
  <2>2. CASE g = f /\ q = p
    BY <2>2, <1>17, EditEffect
  <2>3. CASE g # f \/ q # p
    BY <2>1, <2>3, <1>17, EditEffect
  <2> QED
    BY <2>2, <2>3
<1>18. CASE UNCHANGED vars
  BY <1>1, <1>18, UnchangedEffect
<1> QED
  BY <1>4, <1>5, <1>6, <1>7, <1>8, <1>9, <1>10, <1>11, <1>12, <1>13, <1>14, <1>15, <1>16,
     <1>17, <1>18, CommandFacts DEF Next, AttachStep, DetachStep

-----------------------------------------------------------------------------
(* The place of a command. *)

LEMMA CommandStep == TypeOK /\ TypeOK' /\ CommandInv /\ [Next]_vars => CommandInv'
<1> SUFFICES ASSUME TypeOK, TypeOK', CommandInv, [Next]_vars PROVE CommandInv'
  OBVIOUS
<1>1. ASSUME cmd'.pc = "idle", cmd'.op = "none",
             \A p \in Provider : meta'[p] # None => Serves(meta'[p])
      PROVE  CommandInv'
  BY <1>1 DEF CommandInv, Attaching, Detaching, Serves
<1>2. ASSUME meta' = meta PROVE \A p \in Provider : meta'[p] # None => Serves(meta'[p])
  BY <1>2 DEF CommandInv
<1>3. ASSUME OnlyCommand, cmd' = cmd PROVE CommandInv'
  BY <1>3 DEF OnlyCommand, CommandInv, Serves
<1>4. ASSUME NEW port \in Port, Enable(port) \/ Disable PROVE CommandInv'
  <2>1. /\ cmd.pc = "idle" /\ OnlyCommand
        /\ \/ cmd'.op = "enable" /\ cmd'.pc = "attach"
           \/ /\ cmd'.op = "disable" /\ cmd'.pc = "detach" /\ cmd'.port = record.port
              /\ record.enabled
    BY <1>4, CommandStarts
  <2> QED
    BY <2>1, <1>2 DEF OnlyCommand, CommandInv, Attaching, Detaching, Serves
<1>5. CASE AttachConfig
  <2> DEFINE entry == Target(cmd.port)
  <2>1. /\ cmd.pc = "attach" /\ CanRoute /\ entry \in Entry
        /\ file'["config"][primary] = Patch("config", file["config"][primary], entry)
        /\ meta' = meta /\ record' = record /\ primary' = primary
        /\ cmd'.pc = "note" /\ cmd'.op = cmd.op /\ cmd'.port = cmd.port /\ cmd'.entry = entry
    BY <1>5, AttachConfigEffect DEF Moved, OnlyFiles
  <2>2. /\ Serves(entry) /\ entry.route = cmd.port
        /\ meta[primary] # None => \A f \in File : entry.hadApi[f] <=> meta[primary].hadApi[f]
    BY <2>1, TargetFacts, CommandFacts
  <2>3. file'["config"][primary].url = entry.route
    BY <2>1, TypeFacts, PatchFacts
  <2>4. entry # None
    BY <2>1, OpenClawAssumption DEF OpenClawAssumption
  <2> HIDE DEF entry
  <2> QED
    BY <2>1, <2>2, <2>3, <2>4, <1>2 DEF CommandInv, Attaching, Detaching, Serves
<1>6. CASE AttachRefused
  BY <1>1, <1>2, <1>6, AttachRefusedEffect, IdleFacts DEF OnlyCommand
<1>7. CASE WriteMetadata
  <2>1. /\ cmd.pc = "note" /\ file' = file /\ record' = record /\ primary' = primary
        /\ meta'[primary] = cmd.entry
        /\ \A p \in Provider : p # primary => meta'[p] = meta[p]
        /\ cmd'.pc = "attach_cache" /\ cmd'.op = cmd.op /\ cmd'.port = cmd.port
    BY <1>7, WriteMetadataEffect DEF Moved, OnlyFiles
  <2>2. \A p \in Provider : meta'[p] # None => Serves(meta'[p])
    BY <2>1 DEF CommandInv
  <2> QED
    BY <2>1, <2>2 DEF CommandInv, Attaching, Detaching, Serves
<1>8. CASE AttachCache
  <2>1. /\ cmd.pc = "attach_cache" /\ file'["config"] = file["config"]
        /\ meta[primary] # None =>
             file'["cache"][primary] = Patch("cache", file["cache"][primary], meta[primary])
        /\ meta' = meta /\ record' = record /\ primary' = primary
        /\ cmd'.pc = "attached" /\ cmd'.op = cmd.op /\ cmd'.port = cmd.port
    BY <1>8, AttachCacheEffect, TypeFacts DEF Moved, OnlyFiles
  <2>2. meta[primary] # None /\ meta[primary].route = cmd.port
    BY <2>1 DEF CommandInv
  <2>3. file'["cache"][primary].url = cmd.port
    BY <2>1, <2>2, TypeFacts, PatchFacts
  <2> QED
    BY <2>1, <2>2, <2>3, <1>2 DEF CommandInv, Attaching, Detaching, Serves
<1>9. CASE DetachCache
  <2>1. /\ cmd.pc = "detach" /\ meta' = meta /\ record' = record
        /\ cmd'.pc = "detach_config" /\ cmd'.op = cmd.op /\ cmd'.port = cmd.port
    BY <1>9, DetachCacheEffect DEF Moved, OnlyFiles
  <2> QED
    BY <2>1, <1>2 DEF CommandInv, Attaching, Detaching, Serves
<1>10. CASE DetachConfig
  <2>1. /\ cmd.pc = "detach_config" /\ meta' = meta /\ record' = record
        /\ cmd'.pc \in {"forget", "detached"} /\ cmd'.op = cmd.op /\ cmd'.port = cmd.port
    BY <1>10, DetachConfigEffect DEF Moved, OnlyFiles
  <2> QED
    BY <2>1, <1>2 DEF CommandInv, Attaching, Detaching, Serves
<1>11. CASE Forget
  <2>1. /\ cmd.pc = "forget" /\ record' = record
        /\ \A p \in Provider : meta'[p] # None => meta'[p] = meta[p]
        /\ cmd'.pc = "detached" /\ cmd'.op = cmd.op /\ cmd'.port = cmd.port
    BY <1>11, ForgetEffect DEF Moved, OnlyFiles
  <2>2. \A p \in Provider : meta'[p] # None => Serves(meta'[p])
    BY <2>1 DEF CommandInv
  <2> QED
    BY <2>1, <2>2 DEF CommandInv, Attaching, Detaching, Serves
<1>12. CASE Save
  BY <1>1, <1>2, <1>12, SaveEffect
<1>13. CASE Fail
  <2>1. /\ meta' = meta /\ record' = record
        /\ \/ cmd'.pc = "idle" /\ cmd'.op = "none"
           \/ /\ record.enabled
              /\ cmd'.op = "undo" /\ cmd'.pc = "attach" /\ cmd'.port = record.port
           \/ ~record.enabled /\ cmd'.op = "undo" /\ cmd'.pc = "detach"
    BY <1>13, FailEffect DEF OnlyCommand
  <2> QED
    BY <2>1, <1>1, <1>2 DEF CommandInv, Attaching, Detaching, Serves
<1>14. CASE Undone
  BY <1>1, <1>2, <1>14, UndoneEffect, IdleFacts DEF OnlyCommand
<1>15. CASE Kill
  BY <1>1, <1>2, <1>15, KillEffect, IdleFacts
<1>16. ASSUME NEW p \in Provider, Select(p) PROVE CommandInv'
  BY <1>1, <1>2, <1>16, SelectEffect DEF CommandInv
<1>17. ASSUME NEW f \in File, NEW p \in Provider, NEW object \in Edits(f, p),
              Edit(f, p, object)
       PROVE  CommandInv'
  BY <1>1, <1>2, <1>17, EditEffect DEF CommandInv
<1>18. CASE UNCHANGED vars
  BY <1>3, <1>18, UnchangedEffect
<1> QED
  BY <1>4, <1>5, <1>6, <1>7, <1>8, <1>9, <1>10, <1>11, <1>12, <1>13, <1>14, <1>15, <1>16,
     <1>17, <1>18, CommandFacts DEF Next, AttachStep, DetachStep

-----------------------------------------------------------------------------
(* The route of a provider, in the two files and in the metadata. *)

LEMMA RouteStep ==
  TypeOK /\ TypeOK' /\ CommandInv /\ RouteInv /\ DetachInv /\ [Next]_vars => RouteInv'
<1> SUFFICES ASSUME TypeOK, TypeOK', CommandInv, RouteInv, DetachInv, [Next]_vars,
                    NEW p \in Provider
             PROVE  RouteOf(p)'
  BY DEF RouteInv
<1>a. RouteOf(p) /\ DetachOf(p)
  BY DEF RouteInv, DetachInv
<1>b. /\ Told(p) = IF cmd.pc = "note" /\ p = primary THEN cmd.entry ELSE meta[p]
      /\ Told(p)' = IF cmd'.pc = "note" /\ p = primary' THEN cmd'.entry ELSE meta'[p]
  BY DEF Told, Pending
<1>1. ASSUME file' = file, meta' = meta, forgotten' = forgotten,
             cmd.pc \notin {"note", "forget", "attach_cache"}, cmd'.pc \notin {"note", "forget"}
      PROVE  RouteOf(p)'
  <2>1. Told(p)' = meta[p] /\ Told(p) = meta[p]
    BY <1>1, <1>b
  <2> QED
    BY <2>1, <1>1, <1>a DEF RouteOf, Removing
<1>2. ASSUME OnlyCommand, cmd' = cmd PROVE RouteOf(p)'
  <2>1. Told(p)' = Told(p)
    BY <1>2, <1>b DEF OnlyCommand
  <2> QED
    BY <2>1, <1>2, <1>a DEF RouteOf, Removing, OnlyCommand
<1>4. ASSUME NEW port \in Port, Enable(port) \/ Disable PROVE RouteOf(p)'
  <2>1. OnlyCommand /\ cmd.pc = "idle" /\ cmd'.pc \in {"attach", "detach"}
    BY <1>4, CommandStarts
  <2> QED
    BY <2>1, <1>1 DEF OnlyCommand
<1>5. CASE AttachConfig
  <2> DEFINE entry == Target(cmd.port)
  <2>1. /\ cmd.pc = "attach" /\ CanRoute /\ entry \in Entry
        /\ file'["cache"] = file["cache"]
        /\ p # primary => file'["config"][p] = file["config"][p]
        /\ file'["config"][primary] = Patch("config", file["config"][primary], entry)
        /\ meta' = meta /\ primary' = primary /\ forgotten' = forgotten
        /\ cmd'.pc = "note" /\ cmd'.entry = entry
    BY <1>5, AttachConfigEffect DEF Moved, OnlyFiles
  <2>2. CASE p # primary
    <3>1. Told(p)' = meta[p] /\ Told(p) = meta[p]
      BY <2>1, <2>2, <1>b
    <3> QED
      BY <2>1, <2>2, <3>1, <1>a DEF RouteOf, Removing
  <2>3. CASE p = primary
    <3>1. Told(p)' = entry /\ Told(p) = meta[p] /\ entry # None
      BY <2>1, <2>3, <1>b, OpenClawAssumption DEF OpenClawAssumption
    <3>2. /\ entry.route = cmd.port /\ entry.family = Family(p)
          /\ meta[p] = None => (entry.hadApi["config"] <=> file["config"][p].api # NoApi)
      BY <2>1, <2>3, TargetFacts, CommandFacts, TypeFacts
    <3>3. /\ file'["config"][p].url = entry.route
          /\ file'["config"][p].api =
               IF entry.hadApi["config"] THEN file["config"][p].api ELSE entry.family
      BY <2>1, <2>3, TypeFacts, PatchFacts
    <3>4. meta[p] # None => meta[p] \in Entry /\ meta[p].family # NoApi
      BY TypeFacts, EntryFacts
    <3>5. file["config"][p].api # NoApi => Family(p) = file["config"][p].api
      BY FamilyFacts
    <3>6. ASSUME << "cache", p >> \notin forgotten
          PROVE  /\ file'["config"][p].api = entry.family
                 /\ meta[p] # None => meta[p].family = entry.family
      <4>1. CASE meta[p] = None
        BY <4>1, <3>2, <3>3, <3>5
      <4>2. CASE meta[p] # None
        <5>1. file["config"][p].api = meta[p].family
          BY <4>2, <3>6, <2>1, <1>a DEF RouteOf, Removing
        <5> QED
          BY <5>1, <4>2, <3>2, <3>3, <3>4, <3>5
      <4> QED
        BY <4>1, <4>2
    <3> HIDE DEF entry
    <3> QED
      BY <2>1, <2>3, <3>1, <3>2, <3>3, <3>6, <1>a DEF RouteOf, Removing
  <2> QED
    BY <2>2, <2>3
<1>6. CASE AttachRefused
  BY <1>1, <1>6, AttachRefusedEffect, IdleFacts DEF OnlyCommand
<1>7. CASE WriteMetadata
  <2>1. /\ cmd.pc = "note" /\ file' = file /\ primary' = primary /\ forgotten' = forgotten
        /\ meta'[primary] = cmd.entry
        /\ p # primary => meta'[p] = meta[p]
        /\ cmd'.pc = "attach_cache"
    BY <1>7, WriteMetadataEffect DEF Moved, OnlyFiles
  <2>2. Told(p)' = Told(p) /\ meta'[p] = Told(p)
    BY <2>1, <1>b
  <2>3. p = primary => meta'[p] # None
    BY <2>1 DEF CommandInv
  <2> QED
    BY <2>1, <2>2, <2>3, <1>a, <1>b DEF RouteOf, Removing
<1>8. CASE AttachCache
  <2>1. /\ cmd.pc = "attach_cache" /\ file'["config"] = file["config"]
        /\ meta[p] = None => file'["cache"][p] = file["cache"][p]
        /\ meta[p] # None => file'["cache"][p] = Patch("cache", file["cache"][p], meta[p])
        /\ meta' = meta /\ primary' = primary /\ forgotten' = forgotten
        /\ cmd'.pc = "attached"
    BY <1>8, AttachCacheEffect DEF Moved, OnlyFiles
  <2>2. Told(p)' = Told(p) /\ Told(p) = meta[p]
    BY <2>1, <1>b
  <2>3. meta[p] # None => file'["cache"][p].url = meta[p].route
    BY <2>1, TypeFacts, PatchFacts
  <2> QED
    BY <2>1, <2>2, <2>3, <1>a DEF RouteOf, Removing
<1>9. CASE DetachCache
  <2>1. /\ cmd.pc = "detach" /\ file'["config"] = file["config"]
        /\ file'["cache"][p] =
             IF p \notin Noted \/ Skipped("cache", p, cmd.port) THEN file["cache"][p]
             ELSE Restored("cache", file["cache"][p], meta[p])
        /\ meta' = meta /\ primary' = primary /\ forgotten' = forgotten
        /\ cmd'.pc = "detach_config"
    BY <1>9, DetachCacheEffect DEF Moved, OnlyFiles
  <2>2. Told(p)' = Told(p) /\ Told(p) = meta[p]
    BY <2>1, <1>b
  <2>3. file'["cache"][p].url \in Port => file'["cache"][p] = file["cache"][p]
    BY <2>1, TypeFacts, RestoredFacts
  <2> QED
    BY <2>1, <2>2, <2>3, <1>a DEF RouteOf, Removing
<1>10. CASE DetachConfig
  <2>1. /\ cmd.pc = "detach_config" /\ file'["cache"] = file["cache"]
        /\ file'["config"][p] =
             IF p \notin Noted \/ Skipped("config", p, cmd.port) THEN file["config"][p]
             ELSE Restored("config", file["config"][p], meta[p])
        /\ meta' = meta /\ primary' = primary /\ forgotten' = forgotten
        /\ cmd'.pc = "forget" \/ (cmd'.pc = "detached" /\ file' = file)
        /\ cmd'.keep = {q \in Noted : Skipped("config", q, cmd.port)}
    BY <1>10, DetachConfigEffect DEF Moved, OnlyFiles
  <2>2. Told(p)' = Told(p) /\ Told(p) = meta[p]
    BY <2>1, <1>b
  <2>3. file'["config"][p].url \in Port => file'["config"][p] = file["config"][p]
    BY <2>1, TypeFacts, RestoredFacts
  <2>4. CASE cmd'.pc = "forget"
    <3>1. ~Removing(p)' => p \in Noted /\ Skipped("config", p, cmd.port)
      BY <2>1, <2>4 DEF Removing
    <3>2. ~Removing(p)' => file'["config"][p] = file["config"][p]
      BY <2>1, <3>1
    <3> QED
      BY <2>1, <2>2, <2>3, <2>4, <3>2, <1>a DEF RouteOf, Removing
  <2>5. CASE cmd'.pc = "detached" /\ file' = file
    BY <2>1, <2>5, <1>1
  <2> QED
    BY <2>1, <2>4, <2>5
<1>11. CASE Forget
  <2>1. /\ cmd.pc = "forget" /\ file' = file /\ primary' = primary /\ forgotten' = forgotten
        /\ meta'[p] = IF p \in cmd.keep THEN meta[p] ELSE None
        /\ cmd'.pc = "detached"
    BY <1>11, ForgetEffect DEF Moved, OnlyFiles
  <2>2. Told(p)' = meta'[p] /\ Told(p) = meta[p]
    BY <2>1, <1>b
  <2>3. CASE p \in cmd.keep
    BY <2>1, <2>2, <2>3, <1>a DEF RouteOf, Removing
  <2>4. CASE p \notin cmd.keep
    BY <2>1, <2>2, <2>4, <1>a DEF RouteOf, Removing, DetachOf
  <2> QED
    BY <2>3, <2>4
<1>12. CASE Save
  BY <1>1, <1>12, SaveEffect
<1>13. CASE Fail
  BY <1>1, <1>13, FailEffect DEF OnlyCommand
<1>14. CASE Undone
  BY <1>1, <1>14, UndoneEffect, IdleFacts DEF OnlyCommand
<1>15. CASE Kill
  <2>1. /\ file' = file /\ meta' = meta /\ primary' = primary
        /\ forgotten' = forgotten \union ({"config"} \X Pending) \union ({"cache"} \X Split)
        /\ cmd'.pc = "idle"
    BY <1>15, KillEffect, IdleFacts
  <2>2. Told(p)' = meta[p]
    BY <2>1, <1>b
  <2>3. << "config", p >> \notin forgotten' => << "config", p >> \notin forgotten /\ Told(p) = meta[p]
    BY <2>1, <1>b DEF Pending
  <2>4. << "cache", p >> \notin forgotten' => << "cache", p >> \notin forgotten /\ p \notin Split
    BY <2>1
  <2>5. p \notin Split /\ meta[p] # None =>
          /\ file["config"][p].url = meta[p].route
          /\ file["cache"][p].url \in Port => file["cache"][p].url = meta[p].route
    BY TypeFacts DEF Split
  <2>6. p \notin Split /\ meta[p] # None => ~Removing(p)
    <3>1. meta[p] # None => meta[p].route \in Port
      BY TypeFacts, EntryFacts
    <3> QED
      BY <3>1, <2>5, <1>a DEF DetachOf
  <2> QED
    BY <2>1, <2>2, <2>3, <2>4, <2>5, <2>6, <1>a DEF RouteOf
<1>16. ASSUME NEW q \in Provider, Select(q) PROVE RouteOf(p)'
  BY <1>1, <1>16, SelectEffect
<1>17. ASSUME NEW f \in File, NEW q \in Provider, NEW object \in Edits(f, q),
              Edit(f, q, object)
       PROVE  RouteOf(p)'
  <2>1. /\ cmd.pc = "idle" /\ cmd' = cmd /\ meta' = meta /\ primary' = primary
        /\ file'[f][q] = object
        /\ \A g \in File : g # f \/ p # q => file'[g][p] = file[g][p]
        /\ meta[q] = None => forgotten' = forgotten \ {<< f, q >>}
        /\ meta[q] # None => forgotten' = forgotten \union (File \X {q})
    BY <1>17, EditEffect
  <2>2. Told(p)' = meta[p] /\ Told(p) = meta[p]
    BY <2>1, <1>b
  <2>3. "config" \in File /\ "cache" \in File /\ f \in {"config", "cache"}
    BY TypeFacts
  <2>4. CASE p # q
    <3>1. \A g \in File : << g, p >> \in forgotten' <=> << g, p >> \in forgotten
      BY <2>1, <2>4
    <3> QED
      BY <2>1, <2>2, <2>3, <2>4, <3>1, <1>a DEF RouteOf, Removing
  <2>5. CASE p = q /\ meta[p] # None
    <3>1. << "config", p >> \in forgotten' /\ << "cache", p >> \in forgotten'
      BY <2>1, <2>3, <2>5
    <3> QED
      BY <3>1 DEF RouteOf
  <2>6. CASE p = q /\ meta[p] = None
    <3>1. object.url \notin Port
      BY <1>17, EditEffect, OwnFacts
    <3>2. \A g \in File : g # f => (<< g, p >> \in forgotten' <=> << g, p >> \in forgotten)
      BY <2>1, <2>6
    <3> QED
      BY <2>1, <2>2, <2>3, <2>6, <3>1, <3>2, <1>a DEF RouteOf, Removing
  <2> QED
    BY <2>4, <2>5, <2>6
<1>18. CASE UNCHANGED vars
  BY <1>2, <1>18, UnchangedEffect
<1> QED
  BY <1>4, <1>5, <1>6, <1>7, <1>8, <1>9, <1>10, <1>11, <1>12, <1>13, <1>14, <1>15, <1>16,
     <1>17, <1>18, CommandFacts DEF Next, AttachStep, DetachStep

LEMMA GhostStep ==
  TypeOK /\ TypeOK' /\ RouteInv /\ GhostInv /\ [Next]_vars => GhostInv'
<1> SUFFICES ASSUME TypeOK, TypeOK', RouteInv, GhostInv, [Next]_vars PROVE GhostInv'
  OBVIOUS
<1>1. ASSUME forgotten' = forgotten, left' = left, kills' = kills,
             edits' = edits \/ edits' = edits + 1
      PROVE  GhostInv'
  <2>1. edits \in Nat
    BY DEF TypeOK
  <2>2. edits + 1 # 0
    BY <2>1
  <2> QED
    BY <1>1, <2>2 DEF GhostInv
<1> USE DEF OnlyCommand, OnlyFiles
<1>4. ASSUME NEW port \in Port, Enable(port) \/ Disable PROVE GhostInv'
  BY <1>1, <1>4, CommandStarts
<1>5. CASE AttachConfig
  BY <1>1, <1>5, AttachConfigEffect
<1>6. CASE AttachRefused
  BY <1>1, <1>6, AttachRefusedEffect
<1>7. CASE WriteMetadata
  BY <1>1, <1>7, WriteMetadataEffect
<1>8. CASE AttachCache
  BY <1>1, <1>8, AttachCacheEffect
<1>9. CASE DetachCache
  BY <1>1, <1>9, DetachCacheEffect
<1>10. CASE DetachConfig
  BY <1>1, <1>10, DetachConfigEffect
<1>11. CASE Forget
  BY <1>1, <1>11, ForgetEffect
<1>12. CASE Save
  BY <1>1, <1>12, SaveEffect
<1>13. CASE Fail
  BY <1>1, <1>13, FailEffect
<1>14. CASE Undone
  BY <1>1, <1>14, UndoneEffect
<1>15. CASE Kill
  <2>1. /\ kills' = kills + 1
        /\ left' = left \union Routed \union (File \X (Noted \union Pending))
        /\ forgotten' = forgotten \union ({"config"} \X Pending) \union ({"cache"} \X Split)
    BY <1>15, KillEffect
  <2>2. kills \in Nat
    BY DEF TypeOK
  <2>3. kills + 1 # 0
    BY <2>2
  <2>4. Split \subseteq Noted /\ "config" \in File /\ "cache" \in File
    BY TypeFacts DEF Split
  <2>5. forgotten' \subseteq left'
    BY <2>1, <2>4 DEF GhostInv
  <2>6. ASSUME NEW f \in File, NEW p \in Provider, << f, p >> \in Routed
        PROVE  << f, p >> \in left \/ p \in Noted \union Pending
    <3>1. RouteOf(p) /\ file[f][p].url \in Port /\ f \in {"config", "cache"}
      BY <2>6, TypeFacts DEF RouteInv, Routed
    <3>2. Told(p) # None => p \in Noted \union Pending
      BY TypeFacts DEF Told
    <3>3. << f, p >> \notin left => << f, p >> \notin forgotten
      BY DEF GhostInv
    <3> QED
      BY <3>1, <3>2, <3>3, TypeFacts DEF RouteOf
  <2>7. \A p \in Provider, f \in File :
          << f, p >> \in left' <=> << f, p >> \in left \/ p \in Noted \union Pending
    BY <2>1, <2>6
  <2>8. \A p \in Provider : << "config", p >> \in left' <=> << "cache", p >> \in left'
    BY <2>4, <2>7 DEF GhostInv
  <2> QED
    BY <2>1, <2>3, <2>5, <2>8 DEF GhostInv
<1>16. ASSUME NEW p \in Provider, Select(p) PROVE GhostInv'
  BY <1>1, <1>16, SelectEffect
<1>17. ASSUME NEW f \in File, NEW p \in Provider, NEW object \in Edits(f, p),
              Edit(f, p, object)
       PROVE  GhostInv'
  <2>1. edits' = edits + 1 /\ edits \in Nat
    BY <1>17, EditEffect DEF TypeOK
  <2>2. edits' # 0
    BY <2>1
  <2>3. CASE meta[p] = None
    <3>1. forgotten' = forgotten \ {<< f, p >>} /\ left' = left
      BY <1>17, <2>3, EditEffect
    <3> QED
      BY <2>2, <3>1 DEF GhostInv
  <2>4. CASE meta[p] # None
    <3>1. forgotten' = forgotten \union (File \X {p}) /\ left' = left \union (File \X {p})
      BY <1>17, <2>4, EditEffect
    <3>2. "config" \in File /\ "cache" \in File
      BY TypeFacts
    <3> QED
      BY <2>2, <3>1, <3>2 DEF GhostInv
  <2> QED
    BY <2>3, <2>4
<1>18. CASE UNCHANGED vars
  BY <1>1, <1>18, UnchangedEffect
<1> QED
  BY <1>4, <1>5, <1>6, <1>7, <1>8, <1>9, <1>10, <1>11, <1>12, <1>13, <1>14, <1>15, <1>16,
     <1>17, <1>18, CommandFacts DEF Next, AttachStep, DetachStep

LEMMA DetachInvStep ==
  TypeOK /\ TypeOK' /\ CommandInv /\ RouteInv /\ GhostInv /\ DetachInv /\ [Next]_vars
    => DetachInv'
<1> SUFFICES ASSUME TypeOK, TypeOK', CommandInv, RouteInv, GhostInv, DetachInv, [Next]_vars,
                    NEW p \in Provider
             PROVE  DetachOf(p)'
  BY DEF DetachInv
<1>a. /\ RouteOf(p) /\ DetachOf(p)
      /\ << "cache", p >> \notin left => << "cache", p >> \notin forgotten
  BY DEF RouteInv, DetachInv, GhostInv
<1>b. p \in Noted <=> meta[p] # None
  BY TypeFacts
<1>c. \A f \in File : meta[p] # None =>
        Restored(f, file[f][p], meta[p]).url \notin Port
  BY TypeFacts, RestoredFacts
<1>d. "config" \in File /\ "cache" \in File /\ cmd.port \in Port /\ Unset \notin Port
  BY TypeFacts, CommandFacts, AbsentFacts
<1>e. cmd.pc # "note" => Told(p) = meta[p]
  BY DEF Told, Pending
<1>1. ASSUME cmd'.pc \notin {"detach_config", "forget", "detached"} PROVE DetachOf(p)'
  BY <1>1 DEF DetachOf, Removing
<1>2. ASSUME OnlyCommand, cmd' = cmd PROVE DetachOf(p)'
  BY <1>2, <1>a DEF DetachOf, Removing, OnlyCommand
<1>4. ASSUME NEW port \in Port, Enable(port) \/ Disable PROVE DetachOf(p)'
  BY <1>1, <1>4, CommandStarts
<1>5. CASE AttachConfig
  BY <1>1, <1>5, AttachConfigEffect DEF Moved
<1>6. CASE AttachRefused
  BY <1>1, <1>6, AttachRefusedEffect, IdleFacts
<1>7. CASE WriteMetadata
  BY <1>1, <1>7, WriteMetadataEffect DEF Moved
<1>8. CASE AttachCache
  BY <1>1, <1>8, AttachCacheEffect DEF Moved
<1>9. CASE DetachCache
  <2>1. /\ file'["cache"][p] =
             IF p \notin Noted \/ Skipped("cache", p, cmd.port) THEN file["cache"][p]
             ELSE Restored("cache", file["cache"][p], meta[p])
        /\ meta' = meta /\ cmd'.pc = "detach_config" /\ cmd'.port = cmd.port
    BY <1>9, DetachCacheEffect DEF Moved
  <2>2. meta[p] # None => file'["cache"][p].url # cmd.port
    BY <2>1, <1>b, <1>c, <1>d DEF Skipped
  <2> QED
    BY <2>1, <2>2 DEF DetachOf, Removing
<1>10. CASE DetachConfig
  <2>1. /\ cmd.pc = "detach_config" /\ file'["cache"] = file["cache"]
        /\ file'["config"][p] =
             IF p \notin Noted \/ Skipped("config", p, cmd.port) THEN file["config"][p]
             ELSE Restored("config", file["config"][p], meta[p])
        /\ meta' = meta /\ forgotten' = forgotten /\ left' = left
        /\ cmd'.pc = "forget" \/ (cmd'.pc = "detached" /\ file' = file)
        /\ cmd'.keep = {q \in Noted : Skipped("config", q, cmd.port)}
        /\ cmd'.port = cmd.port
    BY <1>10, DetachConfigEffect DEF Moved, OnlyFiles
  <2>2. Told(p) = meta[p] /\ ~Removing(p)
    BY <2>1, <1>e DEF Removing
  <2>3. ASSUME cmd'.pc = "forget", meta[p] # None, p \notin cmd'.keep
        PROVE  /\ file'["config"][p].url \notin Port
               /\ file'["cache"][p].url \in Port => << "cache", p >> \in forgotten
    <3>1. ~Skipped("config", p, cmd.port)
      BY <2>1, <2>3, <1>b
    <3>2. file'["config"][p].url \notin Port
      BY <2>1, <2>3, <3>1, <1>b, <1>c, <1>d
    <3>3. ASSUME file["cache"][p].url \in Port, << "cache", p >> \notin forgotten
          PROVE  FALSE
      <4>1. file["config"][p].url = file["cache"][p].url
        BY <2>1, <2>2, <2>3, <3>3, <1>a DEF RouteOf
      <4>2. file["cache"][p].url # cmd.port
        BY <2>1, <2>3, <1>a DEF DetachOf
      <4>3. file["config"][p].there
        BY <4>1, <3>3, <1>d, TypeFacts, ObjectFacts
      <4> QED
        BY <3>1, <3>3, <4>1, <4>2, <4>3, <1>d DEF Skipped
    <3> QED
      BY <2>1, <3>2, <3>3
  <2>4. ASSUME cmd'.pc = "forget", p \in cmd'.keep
        PROVE  file'["config"][p].url # cmd.port
    BY <2>1, <2>4 DEF Skipped
  <2>5. ASSUME cmd'.pc = "detached", file' = file, meta[p] # None, << "cache", p >> \notin left
        PROVE  meta[p].route # cmd.port
    <3>1. file["config"][p].url = meta[p].route
      BY <2>2, <2>5, <1>a DEF RouteOf
    <3>2. ASSUME meta[p].route = cmd.port PROVE FALSE
      <4>1. ~Skipped("config", p, cmd.port)
        BY <3>1, <3>2 DEF Skipped
      <4>2. file'["config"][p].url \notin Port
        BY <2>1, <2>5, <4>1, <1>b, <1>c, <1>d
      <4> QED
        BY <4>2, <2>5, <3>1, <3>2, <1>d
    <3> QED
      BY <3>2
  <2> QED
    BY <2>1, <2>3, <2>4, <2>5 DEF DetachOf, Removing
<1>11. CASE Forget
  <2>1. /\ cmd.pc = "forget" /\ file' = file /\ left' = left
        /\ meta'[p] = IF p \in cmd.keep THEN meta[p] ELSE None
        /\ cmd'.pc = "detached" /\ cmd'.port = cmd.port
    BY <1>11, ForgetEffect DEF Moved, OnlyFiles
  <2>2. ASSUME p \in cmd.keep, meta[p] # None, << "cache", p >> \notin left
        PROVE  meta[p].route # cmd.port
    BY <2>1, <2>2, <1>a, <1>e DEF RouteOf, DetachOf, Removing
  <2> QED
    BY <2>1, <2>2 DEF DetachOf, Removing
<1>12. CASE Save
  BY <1>1, <1>12, SaveEffect
<1>13. CASE Fail
  BY <1>1, <1>13, FailEffect
<1>14. CASE Undone
  BY <1>1, <1>14, UndoneEffect, IdleFacts
<1>15. CASE Kill
  BY <1>1, <1>15, KillEffect, IdleFacts
<1>16. ASSUME NEW q \in Provider, Select(q) PROVE DetachOf(p)'
  BY <1>1, <1>16, SelectEffect
<1>17. ASSUME NEW f \in File, NEW q \in Provider, NEW object \in Edits(f, q),
              Edit(f, q, object)
       PROVE  DetachOf(p)'
  BY <1>1, <1>17, EditEffect
<1>18. CASE UNCHANGED vars
  BY <1>2, <1>18, UnchangedEffect
<1> QED
  BY <1>4, <1>5, <1>6, <1>7, <1>8, <1>9, <1>10, <1>11, <1>12, <1>13, <1>14, <1>15, <1>16,
     <1>17, <1>18, CommandFacts DEF Next, AttachStep, DetachStep

-----------------------------------------------------------------------------
(* What detach gives back. *)

\* What an object is good for: a provider as the user had it, or no URL.
Good(object, own) == object = own \/ (~own.there /\ object.url = Unset)

LEMMA RestoredIsGood ==
  ASSUME TypeOK, NEW f \in File, NEW p \in Provider, NEW e \in Entry,
         Fits(f, p, e),
         IF file[f][p].url \in Port THEN AsTold(f, p, e) ELSE AsWished(f, p)
  PROVE  Good(Restored(f, file[f][p], e), wish[f][p])
<1> DEFINE object == file[f][p]
           own == wish[f][p]
           r == Restored(f, object, e)
<1>1. /\ object \in Object /\ own \in Own /\ own \in Object /\ own.url \notin Port
      /\ r \in Object
  BY TypeFacts, OwnFacts, RestoredFacts
<1>2. /\ e.original[f] = own.url
      /\ own.there => ~e.created[f] /\ (e.hadApi[f] \/ own.api = NoApi)
  BY DEF Fits
<1>3. IF object.url \in Port
      THEN own.there => object.api = IF e.hadApi[f] THEN own.api ELSE e.family
      ELSE object = own \/ (~own.there /\ object.url = Unset)
  BY DEF AsTold, AsWished
<1>4. /\ ~object.there \/ e.created[f] => r = Absent
      /\ object.there /\ ~e.created[f] =>
           /\ r.there
           /\ r.url = e.original[f]
           /\ r.api = IF e.hadApi[f] \/ object.api # e.family THEN object.api ELSE NoApi
  BY <1>1, RestoredFacts
<1>5. object.there \in BOOLEAN /\ own.there \in BOOLEAN /\ r.there \in BOOLEAN
      /\ (object.url \in Port => object.there) /\ e.family # NoApi
  BY <1>1, ObjectFacts, EntryFacts
<1>6. ~own.there => own = Absent
  BY <1>1, ObjectFacts
<1> SUFFICES Good(r, own)
  OBVIOUS
<1> HIDE DEF object, own, r
<1>7. CASE own.there
  <2>1. object.there /\ ~e.created[f]
    BY <1>2, <1>3, <1>5, <1>7
  <2>2. r.there /\ r.url = own.url
    BY <2>1, <1>2, <1>4
  <2>3. CASE object.url \in Port
    <3>1. r.api = own.api
      BY <2>1, <2>3, <1>2, <1>3, <1>4, <1>7
    <3> QED
      BY <2>2, <3>1, <1>1, <1>5, <1>7, SameObject DEF Good
  <2>4. CASE object.url \notin Port
    <3>1. object = own
      BY <2>4, <1>3, <1>7
    <3>2. r.api = own.api
      BY <2>1, <3>1, <1>2, <1>4, <1>5, <1>7
    <3> QED
      BY <2>2, <3>2, <1>1, <1>5, <1>7, SameObject DEF Good
  <2> QED
    BY <2>3, <2>4
<1>8. CASE ~own.there
  <2>1. own = Absent /\ own.url = Unset /\ Absent.url = Unset
    BY <1>6, <1>8, AbsentFacts
  <2>2. r.url = Unset
    BY <2>1, <1>2, <1>4, <1>5
  <2> QED
    BY <2>2, <1>8 DEF Good
<1> QED
  BY <1>7, <1>8, <1>5

\* An entry that is made for a provider tells what the user had.
LEMMA TargetFits ==
  ASSUME TypeOK, CanRoute, NEW f \in File, NEW port \in Port, cmd.pc = "attach",
         GiveOf(f, primary),
         << f, primary >> \notin forgotten, wish[f][primary].url \notin Local,
         NEW entry, entry = Target(port)
  PROVE  /\ Fits(f, primary, entry)
         /\ wish[f][primary].there /\ entry.hadApi[f] =>
              file[f][primary].api = wish[f][primary].api
<1> DEFINE p == primary
           own == wish[f][p]
<1>1. /\ p \in Provider /\ own \in Own /\ own \in Object /\ file[f][p] \in Object
      /\ own.url \in Url \union {Unset} /\ own.url \notin Port
  BY TypeFacts, OwnFacts
<1>2. /\ entry \in Entry
      /\ entry.original[f] = Original(f, p)
      /\ entry.created[f] <=> ~file[f][p].there
      /\ meta[p] = None => (entry.hadApi[f] <=> file[f][p].api # NoApi)
      /\ meta[p] # None => (entry.hadApi[f] <=> meta[p].hadApi[f])
  BY TargetFacts
<1>3. Told(p) = meta[p]
  BY DEF Told, Pending
<1>4. /\ IF file[f][p].url \in Port THEN meta[p] # None /\ AsTold(f, p, meta[p])
         ELSE AsWished(f, p)
      /\ meta[p] # None => Fits(f, p, meta[p])
  BY <1>3 DEF GiveOf
<1>5. own.there => file[f][p].there
  BY <1>1, <1>4, ObjectFacts DEF AsWished
<1>6. Original(f, p) = own.url
  <2>1. /\ meta[p] # None /\ meta[p].original[f] # Unset =>
             Original(f, p) = meta[p].original[f]
        /\ ~(meta[p] # None /\ meta[p].original[f] # Unset) =>
             Original(f, p) = IF file[f][p].url \in Url \ Local THEN file[f][p].url ELSE Unset
    BY <1>1, OriginalFacts
  <2>2. meta[p] # None => meta[p].original[f] = own.url
    BY <1>4 DEF Fits
  <2>3. file[f][p].url \in Port => file[f][p].url \notin Url
    BY OpenClawAssumption DEF OpenClawAssumption
  <2>4. file[f][p].url \notin Port => file[f][p].url = own.url
    <3>1. ~own.there => own.url = Unset
      BY <1>1, ObjectFacts, AbsentFacts
    <3> QED
      BY <3>1, <1>4 DEF AsWished
  <2> QED
    BY <2>1, <2>2, <2>3, <2>4, <1>1, <1>4
<1>7. own.there => ~entry.created[f]
  BY <1>2, <1>5
<1>8. own.there => entry.hadApi[f] \/ own.api = NoApi
  <2>1. CASE meta[p] = None
    BY <2>1, <1>2, <1>4 DEF AsWished
  <2>2. CASE meta[p] # None
    BY <2>2, <1>2, <1>4 DEF Fits
  <2> QED
    BY <2>1, <2>2
<1>9. own.there /\ entry.hadApi[f] => file[f][p].api = own.api
  <2>1. CASE file[f][p].url \in Port
    BY <2>1, <1>2, <1>4 DEF AsTold
  <2>2. CASE file[f][p].url \notin Port
    BY <2>2, <1>4 DEF AsWished
  <2> QED
    BY <2>1, <2>2
<1> QED
  BY <1>2, <1>6, <1>7, <1>8, <1>9 DEF Fits

LEMMA GiveStep ==
  TypeOK /\ TypeOK' /\ CommandInv /\ RouteInv /\ RouteInv' /\ GiveInv /\ [Next]_vars
    => GiveInv'
<1> SUFFICES ASSUME TypeOK, TypeOK', CommandInv, RouteInv, RouteInv', GiveInv, [Next]_vars,
                    NEW f \in File, NEW p \in Provider,
                    << f, p >> \notin forgotten', wish'[f][p].url \notin Local
             PROVE  /\ IF file'[f][p].url \in Port THEN Told(p)' # None /\ AsTold(f, p, Told(p))'
                       ELSE AsWished(f, p)'
                    /\ Told(p)' # None => Fits(f, p, Told(p))'
                    /\ meta'[p] # None => Fits(f, p, meta[p])'
  BY DEF GiveInv, GiveOf
<1> DEFINE Goal ==
      /\ IF file'[f][p].url \in Port THEN Told(p)' # None /\ AsTold(f, p, Told(p))'
         ELSE AsWished(f, p)'
      /\ Told(p)' # None => Fits(f, p, Told(p))'
      /\ meta'[p] # None => Fits(f, p, meta[p])'
<1>a. GiveOf(f, p) /\ RouteOf(p) /\ RouteOf(p)'
  BY DEF GiveInv, RouteInv
<1>b. /\ Told(p) = IF cmd.pc = "note" /\ p = primary THEN cmd.entry ELSE meta[p]
      /\ Told(p)' = IF cmd'.pc = "note" /\ p = primary' THEN cmd'.entry ELSE meta'[p]
  BY DEF Told, Pending
<1>c. f = "config" \/ f = "cache"
  BY TypeFacts
<1>d. \A told : AsTold(f, p, told) <=>
        (wish[f][p].there =>
           file[f][p].api = IF told.hadApi[f] THEN wish[f][p].api ELSE told.family)
  BY DEF AsTold
<1>1. ASSUME file'[f][p] = file[f][p], wish'[f][p] = wish[f][p], meta'[p] = meta[p],
             Told(p)' = Told(p), << f, p >> \notin forgotten
      PROVE  Goal
  BY <1>1, <1>a DEF GiveOf, AsTold, AsWished, Fits
<1>2. ASSUME OnlyCommand, cmd.pc # "note", cmd'.pc # "note" PROVE Goal
  BY <1>1, <1>2, <1>b DEF OnlyCommand
<1>4. ASSUME NEW port \in Port, Enable(port) \/ Disable PROVE Goal
  BY <1>2, <1>4, CommandStarts
<1> SUFFICES Goal
  OBVIOUS
<1> HIDE DEF Goal
<1>6. CASE AttachRefused
  BY <1>2, <1>6, AttachRefusedEffect, IdleFacts
<1>13. CASE Fail
  BY <1>2, <1>13, FailEffect
<1>14. CASE Undone
  BY <1>2, <1>14, UndoneEffect, IdleFacts
<1>12. CASE Save
  <2>1. /\ file' = file /\ wish' = wish /\ meta' = meta /\ forgotten' = forgotten
        /\ cmd.pc # "note" /\ cmd'.pc # "note"
    BY <1>12, SaveEffect
  <2> QED
    BY <2>1, <1>1, <1>b
<1>16. ASSUME NEW q \in Provider, Select(q) PROVE Goal
  <2>1. /\ file' = file /\ wish' = wish /\ meta' = meta /\ forgotten' = forgotten
        /\ cmd.pc # "note" /\ cmd'.pc # "note"
    BY <1>16, SelectEffect
  <2> QED
    BY <2>1, <1>1, <1>b
<1>18. CASE UNCHANGED vars
  <2>1. /\ file' = file /\ wish' = wish /\ meta' = meta /\ forgotten' = forgotten
        /\ cmd' = cmd /\ primary' = primary
    BY <1>18, UnchangedEffect DEF OnlyCommand
  <2> QED
    BY <2>1, <1>1, <1>b
<1>5. CASE AttachConfig
  <2> SUFFICES ASSUME NEW entry, entry = Target(cmd.port) PROVE Goal
    OBVIOUS
  <2>1. /\ cmd.pc = "attach" /\ CanRoute /\ entry \in Entry
        /\ file'["cache"] = file["cache"]
        /\ p # primary => file'["config"][p] = file["config"][p]
        /\ file'["config"][primary] = Patch("config", file["config"][primary], entry)
        /\ meta' = meta /\ primary' = primary /\ wish' = wish /\ forgotten' = forgotten
        /\ cmd'.pc = "note" /\ cmd'.entry = entry
    BY <1>5, AttachConfigEffect DEF Moved, OnlyFiles
  <2>2. CASE p # primary
    BY <2>1, <2>2, <1>1, <1>b, <1>c
  <2>3. CASE p = primary
    <3>1. /\ Fits(f, p, entry)
          /\ wish[f][p].there /\ entry.hadApi[f] => file[f][p].api = wish[f][p].api
      BY <2>1, <2>3, <1>a, TargetFits, CommandFacts
    <3>2. Told(p)' = entry /\ Told(p) = meta[p] /\ entry # None
      BY <2>1, <2>3, <1>b, OpenClawAssumption DEF OpenClawAssumption
    <3>3. Fits(f, p, entry)' /\ (meta[p] # None => Fits(f, p, meta[p])')
      BY <2>1, <3>1, <1>a DEF Fits, GiveOf
    <3>4. meta[p] # None => (entry.hadApi[f] <=> meta[p].hadApi[f])
      BY <2>1, <2>3, TargetFacts, CommandFacts
    <3>5. CASE f = "config"
      <4>1. /\ file'[f][p].url = entry.route /\ entry.route \in Port
            /\ file'[f][p].api = IF entry.hadApi[f] THEN file[f][p].api ELSE entry.family
        BY <2>1, <2>3, <3>5, TypeFacts, PatchFacts, EntryFacts
      <4>2. AsTold(f, p, entry)'
        BY <2>1, <3>1, <4>1 DEF AsTold
      <4> QED
        BY <2>1, <3>2, <3>3, <4>1, <4>2 DEF Goal, AsTold, Fits
    <3>6. CASE f = "cache"
      <4>1. file'[f][p] = file[f][p]
        BY <2>1, <3>6
      <4>2. CASE file[f][p].url \in Port
        <5>1. meta[p] # None /\ meta[p].family = entry.family
          BY <2>1, <3>2, <3>6, <4>1, <4>2, <1>a DEF RouteOf, Removing
        <5>2. AsTold(f, p, meta[p])
          BY <3>2, <4>2, <1>a, <2>1 DEF GiveOf
        <5>3. AsTold(f, p, entry)'
          BY <2>1, <3>4, <4>1, <5>1, <5>2 DEF AsTold
        <5> QED
          BY <2>1, <3>2, <3>3, <4>1, <4>2, <5>3 DEF Goal, AsTold, Fits
      <4>3. CASE file[f][p].url \notin Port
        <5>1. AsWished(f, p)'
          BY <2>1, <4>1, <4>3, <1>a DEF GiveOf, AsWished
        <5> QED
          BY <2>1, <3>2, <3>3, <4>1, <4>3, <5>1 DEF Goal, Fits
      <4> QED
        BY <4>2, <4>3
    <3> QED
      BY <3>5, <3>6, <1>c
  <2> QED
    BY <2>2, <2>3
<1>7. CASE WriteMetadata
  <2>1. /\ cmd.pc = "note" /\ file' = file /\ primary' = primary /\ wish' = wish
        /\ forgotten' = forgotten
        /\ meta'[primary] = cmd.entry
        /\ p # primary => meta'[p] = meta[p]
        /\ cmd'.pc = "attach_cache"
    BY <1>7, WriteMetadataEffect, TypeFacts DEF Moved, OnlyFiles
  <2> SUFFICES ASSUME NEW told, told = Told(p) PROVE Goal
    OBVIOUS
  <2>2. Told(p)' = told /\ meta'[p] = told
    BY <2>1, <1>b
  <2>3. /\ IF file[f][p].url \in Port THEN told # None /\ AsTold(f, p, told) ELSE AsWished(f, p)
        /\ told # None => Fits(f, p, told)
    BY <2>1, <1>a DEF GiveOf
  <2>4. /\ AsTold(f, p, told)' <=> AsTold(f, p, told)
        /\ AsWished(f, p)' <=> AsWished(f, p)
        /\ Fits(f, p, told)' <=> Fits(f, p, told)
    BY <2>1 DEF AsTold, AsWished, Fits
  <2>5. /\ AsTold(f, p, Told(p))' <=> AsTold(f, p, told)'
        /\ Fits(f, p, Told(p))' <=> Fits(f, p, told)'
        /\ Fits(f, p, meta[p])' <=> Fits(f, p, told)'
    BY <2>2 DEF AsTold, Fits
  <2> QED
    BY <2>1, <2>2, <2>3, <2>4, <2>5 DEF Goal
<1>8. CASE AttachCache
  <2>1. /\ cmd.pc = "attach_cache" /\ file'["config"] = file["config"]
        /\ meta[p] = None => file'["cache"][p] = file["cache"][p]
        /\ meta[p] # None => file'["cache"][p] = Patch("cache", file["cache"][p], meta[p])
        /\ meta' = meta /\ primary' = primary /\ wish' = wish /\ forgotten' = forgotten
        /\ cmd'.pc = "attached"
    BY <1>8, AttachCacheEffect DEF Moved, OnlyFiles
  <2>2. Told(p)' = meta[p] /\ Told(p) = meta[p]
    BY <2>1, <1>b
  <2>3. CASE f = "config" \/ meta[p] = None
    BY <2>1, <2>2, <2>3, <1>1, <1>c
  <2>4. CASE f = "cache" /\ meta[p] # None
    <3> SUFFICES ASSUME NEW told, told = meta[p] PROVE Goal
      OBVIOUS
    <3>1. /\ told \in Entry /\ told # None /\ told.route \in Port
          /\ file'[f][p].url = told.route
          /\ file'[f][p].api = IF told.hadApi[f] THEN file[f][p].api ELSE told.family
      BY <2>1, <2>4, TypeFacts, PatchFacts, EntryFacts
    <3>2. /\ IF file[f][p].url \in Port THEN AsTold(f, p, told) ELSE AsWished(f, p)
          /\ Fits(f, p, told)
      BY <2>1, <2>2, <3>1, <1>a DEF GiveOf
    <3>3. wish[f][p].there /\ told.hadApi[f] => file[f][p].api = wish[f][p].api
      BY <3>2 DEF AsTold, AsWished
    <3>4. AsTold(f, p, told)' /\ Fits(f, p, told)'
      BY <2>1, <3>1, <3>2, <3>3 DEF AsTold, Fits
    <3> QED
      BY <2>1, <2>2, <3>1, <3>4 DEF Goal, AsTold, Fits
  <2> QED
    BY <2>3, <2>4, <1>c
<1>3. ASSUME file'[f][p] = Restored(f, file[f][p], meta[p]), meta[p] # None,
             meta' = meta, wish' = wish, << f, p >> \notin forgotten,
             cmd.pc # "note", cmd'.pc # "note"
      PROVE  Goal
  <2>1. Told(p)' = meta[p] /\ Told(p) = meta[p]
    BY <1>3, <1>b
  <2> SUFFICES ASSUME NEW told, told = meta[p] PROVE Goal
    OBVIOUS
  <2>2. told \in Entry /\ file'[f][p].url \notin Port
    BY <1>3, TypeFacts, RestoredFacts
  <2>3. /\ IF file[f][p].url \in Port THEN AsTold(f, p, told) ELSE AsWished(f, p)
        /\ Fits(f, p, told)
    BY <1>3, <2>1, <1>a DEF GiveOf
  <2>4. Good(file'[f][p], wish[f][p])
    BY <1>3, <2>2, <2>3, RestoredIsGood
  <2>5. AsWished(f, p)' /\ Fits(f, p, told)'
    BY <1>3, <2>3, <2>4 DEF Good, AsWished, Fits
  <2> QED
    BY <1>3, <2>1, <2>2, <2>5 DEF Goal, Fits
<1>9. CASE DetachCache
  <2>1. /\ cmd.pc = "detach" /\ file'["config"] = file["config"]
        /\ file'["cache"][p] =
             IF p \notin Noted \/ Skipped("cache", p, cmd.port) THEN file["cache"][p]
             ELSE Restored("cache", file["cache"][p], meta[p])
        /\ meta' = meta /\ wish' = wish /\ forgotten' = forgotten
        /\ cmd'.pc = "detach_config"
    BY <1>9, DetachCacheEffect DEF Moved, OnlyFiles
  <2>2. CASE file'[f][p] = file[f][p]
    BY <2>1, <2>2, <1>1, <1>b
  <2>3. CASE file'[f][p] # file[f][p]
    <3>1. file'[f][p] = Restored(f, file[f][p], meta[p]) /\ meta[p] # None
      BY <2>1, <2>3, <1>c, TypeFacts
    <3> QED
      BY <2>1, <3>1, <1>3
  <2> QED
    BY <2>2, <2>3
<1>10. CASE DetachConfig
  <2>1. /\ cmd.pc = "detach_config" /\ file'["cache"] = file["cache"]
        /\ file'["config"][p] =
             IF p \notin Noted \/ Skipped("config", p, cmd.port) THEN file["config"][p]
             ELSE Restored("config", file["config"][p], meta[p])
        /\ meta' = meta /\ wish' = wish /\ forgotten' = forgotten
        /\ cmd'.pc # "note"
    BY <1>10, DetachConfigEffect DEF Moved, OnlyFiles
  <2>2. CASE file'[f][p] = file[f][p]
    BY <2>1, <2>2, <1>1, <1>b
  <2>3. CASE file'[f][p] # file[f][p]
    <3>1. file'[f][p] = Restored(f, file[f][p], meta[p]) /\ meta[p] # None
      BY <2>1, <2>3, <1>c, TypeFacts
    <3> QED
      BY <2>1, <3>1, <1>3
  <2> QED
    BY <2>2, <2>3
<1>11. CASE Forget
  <2>1. /\ cmd.pc = "forget" /\ file' = file /\ wish' = wish /\ forgotten' = forgotten
        /\ meta'[p] = IF p \in cmd.keep THEN meta[p] ELSE None
        /\ cmd'.pc = "detached"
    BY <1>11, ForgetEffect DEF Moved, OnlyFiles
  <2>2. Told(p)' = meta'[p] /\ Told(p) = meta[p]
    BY <2>1, <1>b
  <2>3. CASE p \in cmd.keep
    BY <2>1, <2>2, <2>3, <1>1
  <2>4. CASE p \notin cmd.keep
    <3>1. file[f][p].url \notin Port
      BY <2>1, <2>2, <2>4, <1>a, <1>c DEF RouteOf
    <3>2. AsWished(f, p)'
      BY <2>1, <3>1, <1>a DEF GiveOf, AsWished
    <3> QED
      BY <2>1, <2>2, <2>4, <3>1, <3>2 DEF Goal
  <2> QED
    BY <2>3, <2>4
<1>15. CASE Kill
  <2>1. /\ file' = file /\ meta' = meta /\ wish' = wish
        /\ forgotten' = forgotten \union ({"config"} \X Pending) \union ({"cache"} \X Split)
        /\ cmd'.pc = "idle"
    BY <1>15, KillEffect, IdleFacts
  <2>2. Told(p)' = meta[p] /\ << f, p >> \notin forgotten
    BY <2>1, <1>b
  <2>3. CASE Told(p) = meta[p]
    BY <2>1, <2>2, <2>3, <1>1
  <2>4. CASE Told(p) # meta[p]
    <3>1. p \in Pending /\ cmd.pc = "note" /\ p = primary /\ Told(p) = cmd.entry
      BY <2>4, <1>b DEF Pending
    <3>2. f = "cache"
      BY <2>1, <3>1, <1>c
    <3>3. meta[p] # None => Fits(f, p, meta[p])'
      BY <2>1, <2>2, <1>a DEF GiveOf, Fits
    <3>4. CASE file[f][p].url \in Port
      <4>1. /\ meta[p] # None /\ Told(p) # None /\ meta[p].family = Told(p).family
        <5>1. Told(p) # None
          BY <2>1, <2>2, <3>4, <1>a DEF GiveOf
        <5> QED
          BY <5>1, <2>2, <3>1, <3>2, <3>4, <1>a DEF RouteOf, Removing
      <4>2. meta[p].hadApi[f] <=> Told(p).hadApi[f]
        BY <3>1, <4>1 DEF CommandInv
      <4>3. AsTold(f, p, Told(p))
        BY <2>1, <2>2, <3>4, <1>a DEF GiveOf
      <4>4. AsTold(f, p, meta[p])
        BY <4>1, <4>2, <4>3 DEF AsTold
      <4> QED
        BY <2>1, <2>2, <3>3, <3>4, <4>1, <4>4 DEF Goal, AsTold, Fits
    <3>5. CASE file[f][p].url \notin Port
      <4>1. AsWished(f, p)'
        BY <2>1, <2>2, <3>5, <1>a DEF GiveOf, AsWished
      <4> QED
        BY <2>1, <2>2, <3>3, <3>5, <4>1 DEF Goal, Fits
    <3> QED
      BY <3>4, <3>5
  <2> QED
    BY <2>3, <2>4
<1>17. ASSUME NEW g \in File, NEW q \in Provider, NEW object \in Edits(g, q),
              Edit(g, q, object)
       PROVE  Goal
  <2>1. /\ cmd.pc = "idle" /\ cmd' = cmd /\ meta' = meta
        /\ file'[g][q] = object /\ wish'[g][q] = object
        /\ g # f \/ p # q => file'[f][p] = file[f][p] /\ wish'[f][p] = wish[f][p]
        /\ meta[q] = None => forgotten' = forgotten \ {<< g, q >>}
        /\ meta[q] # None => forgotten' = forgotten \union (File \X {q})
        /\ object.url \notin Port
    BY <1>17, EditEffect, OwnFacts
  <2>2. Told(p)' = meta[p] /\ Told(p) = meta[p]
    BY <2>1, <1>b
  <2>3. CASE g # f \/ p # q
    <3>1. << f, p >> \notin forgotten
      BY <2>1, <2>3
    <3> QED
      BY <2>1, <2>2, <2>3, <3>1, <1>1
  <2>4. CASE g = f /\ p = q
    <3>1. meta[p] = None
      BY <2>1, <2>4
    <3> QED
      BY <2>1, <2>2, <2>4, <3>1 DEF Goal, AsWished
  <2> QED
    BY <2>3, <2>4
<1> QED
  BY <1>4, <1>5, <1>6, <1>7, <1>8, <1>9, <1>10, <1>11, <1>12, <1>13, <1>14, <1>15, <1>16,
     <1>17, <1>18, CommandFacts DEF Next, AttachStep, DetachStep

-----------------------------------------------------------------------------
(* The record of the controller and the routes. *)

LEMMA DisabledStep ==
  TypeOK /\ TypeOK' /\ CommandInv /\ RouteInv /\ GhostInv /\ DetachInv /\ DisabledInv
    /\ [Next]_vars => DisabledInv'
<1> SUFFICES ASSUME TypeOK, TypeOK', CommandInv, RouteInv, GhostInv, DetachInv, DisabledInv,
                    [Next]_vars
             PROVE  DisabledInv'
  OBVIOUS
<1> DEFINE Writing == {"note", "attach_cache", "attached"}
           Under == {"attach_cache", "attached"} \union Detaching
<1>a. ~record.enabled =>
        /\ \A p \in Provider : meta[p] # None /\ << "cache", p >> \notin left =>
             \/ meta[p].route # record.port
             \/ p = primary /\ meta[p].route = cmd.port /\ cmd.pc \in Under
        /\ cmd.pc \in Writing /\ ~cmd.changed /\ << "cache", primary >> \notin left =>
             cmd.port # record.port
  BY TypeFacts DEF DisabledInv
<1>b. ASSUME ~record'.enabled =>
        /\ \A p \in Provider : meta'[p] # None /\ << "cache", p >> \notin left' =>
             \/ meta'[p].route # record'.port
             \/ p = primary' /\ meta'[p].route = cmd'.port /\ cmd'.pc \in Under
        /\ cmd'.pc \in Writing /\ ~cmd'.changed /\ << "cache", primary >> \notin left' =>
             cmd'.port # record'.port,
             primary' = primary \/ cmd'.pc \notin Writing
      PROVE  DisabledInv'
  BY <1>b DEF DisabledInv, Noted
<1>1. ASSUME meta' = meta, left \subseteq left', record' = record, cmd.pc \in {"idle", "attach"},
             cmd'.pc \notin Writing
      PROVE  DisabledInv'
  <2>1. cmd.pc \notin Under
    BY <1>1 DEF Detaching
  <2> HIDE DEF Writing, Under
  <2> QED
    BY <2>1, <1>1, <1>a, <1>b
<1>2. ASSUME meta' = meta, left' = left, record' = record, primary' = primary,
             cmd.pc \in Under, cmd'.pc \in Under, cmd'.port = cmd.port, cmd'.pc \notin Writing
      PROVE  DisabledInv'
  <2> HIDE DEF Writing, Under
  <2> QED
    BY <1>2, <1>a, <1>b
<1>4. ASSUME NEW port \in Port, Enable(port) \/ Disable PROVE DisabledInv'
  <2>1. cmd.pc = "idle" /\ cmd'.pc \in {"attach", "detach"} /\ OnlyCommand
    BY <1>4, CommandStarts
  <2> QED
    BY <2>1, <1>1 DEF OnlyCommand
<1>5. CASE AttachConfig
  <2>1. /\ cmd.pc = "attach" /\ Target(cmd.port) \in Entry
        /\ file'["config"][primary] =
             Patch("config", file["config"][primary], Target(cmd.port))
        /\ meta' = meta /\ record' = record /\ primary' = primary /\ left' = left
        /\ cmd'.pc = "note" /\ cmd'.port = cmd.port
        /\ ~cmd'.changed => file'["config"] = file["config"]
    BY <1>5, AttachConfigEffect DEF Moved, OnlyFiles
  <2>2. Target(cmd.port).route = cmd.port /\ cmd.port \in Port
    BY <1>5, <2>1, AttachConfigEffect, TargetFacts, CommandFacts
  <2>3. ASSUME ~record.enabled, ~cmd'.changed, << "cache", primary >> \notin left
        PROVE  cmd.port # record.port
    <3>1. file["config"][primary].url = cmd.port
      BY <2>1, <2>2, <2>3, TypeFacts, PatchFacts
    <3>2. /\ << "config", primary >> \notin forgotten /\ << "cache", primary >> \notin forgotten
          /\ RouteOf(primary)
      BY <2>3, TypeFacts DEF GhostInv, RouteInv
    <3>3. Told(primary) = meta[primary] /\ ~Removing(primary)
      BY <2>1 DEF Told, Pending, Removing
    <3>4. meta[primary] # None /\ meta[primary].route = cmd.port
      BY <2>2, <3>1, <3>2, <3>3 DEF RouteOf
    <3>5. cmd.pc \notin Under
      BY <2>1 DEF Detaching
    <3> HIDE DEF Under
    <3> QED
      BY <2>3, <3>4, <3>5, <1>a, TypeFacts
  <2>4. cmd.pc \notin Under /\ cmd'.pc \in Writing
    BY <2>1 DEF Detaching
  <2> HIDE DEF Writing, Under
  <2> QED
    BY <2>1, <2>3, <2>4, <1>a, <1>b
<1>6. CASE AttachRefused
  BY <1>1, <1>6, AttachRefusedEffect, IdleFacts DEF OnlyCommand
<1>7. CASE WriteMetadata
  <2>1. /\ cmd.pc = "note" /\ meta'[primary] = cmd.entry
        /\ \A p \in Provider : p # primary => meta'[p] = meta[p]
        /\ record' = record /\ primary' = primary /\ left' = left
        /\ cmd'.pc = "attach_cache" /\ cmd'.port = cmd.port /\ (cmd'.changed <=> cmd.changed)
    BY <1>7, WriteMetadataEffect DEF Moved, OnlyFiles
  <2>2. cmd.entry.route = cmd.port
    BY <2>1 DEF CommandInv
  <2>3. cmd.pc \notin Under /\ cmd.pc \in Writing /\ cmd'.pc \in Under /\ cmd'.pc \in Writing
    BY <2>1 DEF Detaching
  <2> HIDE DEF Writing, Under
  <2> QED
    BY <2>1, <2>2, <2>3, <1>a, <1>b
<1>8. CASE AttachCache
  <2>1. /\ cmd.pc = "attach_cache" /\ meta' = meta
        /\ record' = record /\ primary' = primary /\ left' = left
        /\ cmd'.pc = "attached" /\ cmd'.port = cmd.port /\ (~cmd'.changed => ~cmd.changed)
    BY <1>8, AttachCacheEffect DEF Moved, OnlyFiles
  <2>2. cmd.pc \in Under /\ cmd.pc \in Writing /\ cmd'.pc \in Under /\ cmd'.pc \in Writing
    BY <2>1
  <2> HIDE DEF Writing, Under
  <2> QED
    BY <2>1, <2>2, <1>a, <1>b
<1>9. CASE DetachCache
  <2>1. /\ cmd.pc = "detach" /\ meta' = meta
        /\ record' = record /\ primary' = primary /\ left' = left
        /\ cmd'.pc = "detach_config" /\ cmd'.port = cmd.port
    BY <1>9, DetachCacheEffect DEF Moved, OnlyFiles
  <2> QED
    BY <2>1, <1>2 DEF Detaching
<1>10. CASE DetachConfig
  <2>1. /\ cmd.pc = "detach_config" /\ meta' = meta
        /\ record' = record /\ primary' = primary /\ left' = left
        /\ cmd'.pc \in {"forget", "detached"} /\ cmd'.port = cmd.port
    BY <1>10, DetachConfigEffect DEF Moved, OnlyFiles
  <2> QED
    BY <2>1, <1>2 DEF Detaching
<1>11. CASE Forget
  <2>1. /\ cmd.pc = "forget"
        /\ \A p \in Provider : meta'[p] # None => meta'[p] = meta[p]
        /\ record' = record /\ primary' = primary /\ left' = left
        /\ cmd'.pc = "detached" /\ cmd'.port = cmd.port
    BY <1>11, ForgetEffect DEF Moved, OnlyFiles
  <2>2. cmd.pc \in Under /\ cmd'.pc \in Under /\ cmd'.pc \notin Writing
    BY <2>1 DEF Detaching
  <2> HIDE DEF Writing, Under
  <2> QED
    BY <2>1, <2>2, <1>a, <1>b
<1>12. CASE Save
  <2>1. /\ record'.enabled \/ cmd.pc = "detached"
        /\ record'.port = cmd.port /\ meta' = meta /\ left' = left /\ primary' = primary
        /\ cmd'.pc \notin Writing
    BY <1>12, SaveEffect
  <2>2. ASSUME cmd.pc = "detached", NEW p \in Provider, meta[p] # None,
               << "cache", p >> \notin left
        PROVE  meta[p].route # cmd.port
    BY <2>2 DEF DetachInv, DetachOf
  <2> HIDE DEF Writing, Under
  <2> QED
    BY <2>1, <2>2, <1>b
<1>13. CASE Fail
  <2>1. /\ cmd.pc = "attached" /\ OnlyCommand
        /\ \/ ~cmd.changed /\ cmd'.pc = "idle"
           \/ record.enabled
           \/ cmd'.pc = "detach" /\ cmd'.port = cmd.port
        /\ cmd'.pc \notin Writing
    BY <1>13, FailEffect
  <2>2. CASE ~cmd.changed /\ cmd'.pc = "idle" /\ ~record.enabled
    <3>1. cmd.pc \in Writing
      BY <2>1
    <3> HIDE DEF Writing, Under
    <3> QED
      BY <2>1, <2>2, <3>1, <1>a, <1>b DEF OnlyCommand
  <2>3. CASE record.enabled
    BY <2>1, <2>3 DEF OnlyCommand, DisabledInv
  <2>4. CASE cmd'.pc = "detach" /\ cmd'.port = cmd.port
    BY <2>1, <2>4, <1>2 DEF OnlyCommand, Detaching
  <2> QED
    BY <2>1, <2>2, <2>3, <2>4
<1>14. CASE Undone
  <2>1. /\ cmd.op = "undo" /\ cmd.pc \in {"attached", "detached"} /\ OnlyCommand
        /\ cmd'.pc = "idle"
    BY <1>14, UndoneEffect, IdleFacts
  <2>2. CASE record.enabled
    BY <2>1, <2>2 DEF OnlyCommand, DisabledInv
  <2>3. CASE ~record.enabled
    <3>1. cmd.pc = "detached" /\ cmd'.pc \notin Writing
      BY <2>1, <2>3 DEF CommandInv, Attaching
    <3>2. ASSUME NEW p \in Provider, meta[p] # None, << "cache", p >> \notin left
          PROVE  meta[p].route # cmd.port
      BY <3>1, <3>2 DEF DetachInv, DetachOf
    <3> HIDE DEF Writing, Under
    <3> QED
      BY <2>1, <2>3, <3>1, <3>2, <1>a, <1>b DEF OnlyCommand
  <2> QED
    BY <2>2, <2>3
<1>15. CASE Kill
  <2>1. /\ meta' = meta /\ record' = record /\ primary' = primary /\ cmd'.pc = "idle"
        /\ left' = left \union Routed \union (File \X (Noted \union Pending))
    BY <1>15, KillEffect, IdleFacts
  <2>2. \A p \in Provider : meta[p] # None => << "cache", p >> \in left'
    BY <2>1, TypeFacts
  <2>3. cmd'.pc \notin Writing
    BY <2>1
  <2> HIDE DEF Writing, Under
  <2> QED
    BY <2>1, <2>2, <2>3, <1>b
<1>16. ASSUME NEW q \in Provider, Select(q) PROVE DisabledInv'
  BY <1>1, <1>16, SelectEffect
<1>17. ASSUME NEW f \in File, NEW q \in Provider, NEW object \in Edits(f, q),
              Edit(f, q, object)
       PROVE  DisabledInv'
  <2>1. /\ cmd.pc = "idle" /\ cmd' = cmd /\ meta' = meta /\ record' = record
        /\ left' = left \/ left' = left \union (File \X {q})
    BY <1>17, EditEffect
  <2> QED
    BY <2>1, <1>1
<1>18. CASE UNCHANGED vars
  <2>1. OnlyCommand /\ cmd' = cmd
    BY <1>18, UnchangedEffect
  <2> HIDE DEF Writing, Under
  <2> QED
    BY <2>1, <1>a, <1>b DEF OnlyCommand
<1> QED
  BY <1>4, <1>5, <1>6, <1>7, <1>8, <1>9, <1>10, <1>11, <1>12, <1>13, <1>14, <1>15, <1>16,
     <1>17, <1>18, CommandFacts DEF Next, AttachStep, DetachStep

\* What is attached can be attached again.
LEMMA Reattached ==
  ASSUME TypeOK, CommandInv, RouteInv, cmd.pc = "attach", meta[primary] # None,
         << "cache", primary >> \notin forgotten
  PROVE  CanRoute
<1>1. primary \in Provider /\ meta[primary] \in Entry
  BY TypeFacts
<1>2. Serves(meta[primary])
  BY <1>1 DEF CommandInv
<1>3. Told(primary) = meta[primary] /\ ~Removing(primary)
  BY DEF Told, Pending, Removing
<1>4. file["config"][primary].api = meta[primary].family
  BY <1>1, <1>3 DEF RouteInv, RouteOf
<1>5. Family(primary) = meta[primary].family
  BY <1>1, <1>4, FamilyFacts, EntryFacts
<1>6. \E f \in File : Original(f, primary) # Unset
  <2>1. PICK f \in File : meta[primary].original[f] # Unset
    BY <1>2 DEF Serves
  <2> QED
    BY <1>1, <2>1, OriginalFacts
<1> QED
  BY <1>2, <1>5, <1>6 DEF Serves, CanRoute

LEMMA EnabledStep ==
  TypeOK /\ TypeOK' /\ CommandInv /\ CommandInv' /\ RouteInv /\ GhostInv /\ EnabledInv
    /\ [Next]_vars => EnabledInv'
<1> SUFFICES ASSUME TypeOK, TypeOK', CommandInv, CommandInv', RouteInv, GhostInv, EnabledInv,
                    [Next]_vars
             PROVE  EnabledInv'
  OBVIOUS
<1>1. ASSUME kills' # 0 \/ edits' # 0 PROVE EnabledInv'
  BY <1>1 DEF EnabledInv
<1>2. ASSUME record.enabled /\ cmd'.op # "disable" => FALSE, record' = record PROVE EnabledInv'
  BY <1>2 DEF EnabledInv
<1>3. ASSUME OnlyCommand, cmd' = cmd PROVE EnabledInv'
  BY <1>3 DEF OnlyCommand, EnabledInv
<1>4. ASSUME NEW port \in Port, Enable(port) \/ Disable PROVE EnabledInv'
  <2>1. /\ cmd.pc = "idle" /\ OnlyCommand
        /\ \/ cmd'.op = "enable" /\ cmd'.pc = "attach"
           \/ cmd'.op = "disable"
    BY <1>4, CommandStarts
  <2>2. cmd.op = "none"
    BY <2>1 DEF CommandInv
  <2> QED
    BY <2>1, <2>2 DEF OnlyCommand, EnabledInv
<1>5. CASE AttachConfig
  <2>1. /\ cmd.pc = "attach" /\ Target(cmd.port) \in Entry
        /\ file'["config"][primary] =
             Patch("config", file["config"][primary], Target(cmd.port))
        /\ meta' = meta /\ record' = record /\ primary' = primary
        /\ kills' = kills /\ edits' = edits
        /\ cmd'.pc = "note" /\ cmd'.port = cmd.port /\ cmd'.op = cmd.op
        /\ ~cmd'.changed => file'["config"] = file["config"]
    BY <1>5, AttachConfigEffect DEF Moved, OnlyFiles
  <2>2. ~cmd'.changed => file["config"][primary].url = cmd.port
    <3>1. file'["config"][primary].url = Target(cmd.port).route
      BY <2>1, TypeFacts, PatchFacts
    <3>2. Target(cmd.port).route = cmd.port
      BY <1>5, <2>1, AttachConfigEffect, TargetFacts, CommandFacts
    <3> QED
      BY <2>1, <3>1, <3>2
  <2>3. cmd.op = "enable" \/ (cmd.op = "undo" /\ cmd.port = record.port)
    BY <2>1 DEF CommandInv, Attaching
  <2> QED
    BY <2>1, <2>2, <2>3, TypeFacts DEF EnabledInv
<1>6. CASE AttachRefused
  <2>1. /\ cmd.pc = "attach" /\ ~CanRoute /\ OnlyCommand /\ cmd'.pc = "idle"
    BY <1>6, AttachRefusedEffect, IdleFacts
  <2>2. cmd.op \in {"enable", "undo"}
    BY <2>1 DEF CommandInv, Attaching
  <2>3. record.enabled /\ kills = 0 /\ edits = 0 => cmd.op = "enable"
    <3> SUFFICES ASSUME record.enabled, kills = 0, edits = 0 PROVE cmd.op = "enable"
      OBVIOUS
    <3>1. meta[primary] # None
      BY <2>2 DEF EnabledInv
    <3>2. << "cache", primary >> \notin forgotten
      BY DEF GhostInv
    <3> QED
      BY <2>1, <3>1, <3>2, Reattached
  <2> QED
    BY <2>1, <2>2, <2>3 DEF OnlyCommand, EnabledInv
<1>7. CASE WriteMetadata
  <2>1. /\ cmd.pc = "note" /\ meta'[primary] = cmd.entry
        /\ record' = record /\ primary' = primary /\ kills' = kills /\ edits' = edits
        /\ cmd'.pc = "attach_cache" /\ cmd'.port = cmd.port /\ cmd'.op = cmd.op
        /\ (cmd'.changed <=> cmd.changed)
    BY <1>7, WriteMetadataEffect DEF Moved, OnlyFiles
  <2>2. cmd.entry # None
    BY <2>1 DEF CommandInv
  <2> QED
    BY <2>1, <2>2 DEF EnabledInv
<1>8. CASE AttachCache
  <2>1. /\ cmd.pc = "attach_cache" /\ meta' = meta
        /\ record' = record /\ primary' = primary /\ kills' = kills /\ edits' = edits
        /\ cmd'.pc = "attached" /\ cmd'.port = cmd.port /\ cmd'.op = cmd.op
        /\ (~cmd'.changed => ~cmd.changed)
    BY <1>8, AttachCacheEffect DEF Moved, OnlyFiles
  <2> QED
    BY <2>1 DEF EnabledInv
<1>9. CASE DetachCache
  <2>1. cmd.pc = "detach" /\ record' = record /\ cmd'.op = cmd.op
    BY <1>9, DetachCacheEffect DEF Moved, OnlyFiles
  <2> QED
    BY <2>1, <1>2 DEF CommandInv, Detaching
<1>10. CASE DetachConfig
  <2>1. cmd.pc = "detach_config" /\ record' = record /\ cmd'.op = cmd.op
    BY <1>10, DetachConfigEffect DEF Moved, OnlyFiles
  <2> QED
    BY <2>1, <1>2 DEF CommandInv, Detaching
<1>11. CASE Forget
  <2>1. cmd.pc = "forget" /\ record' = record /\ cmd'.op = cmd.op
    BY <1>11, ForgetEffect DEF Moved, OnlyFiles
  <2> QED
    BY <2>1, <1>2 DEF CommandInv, Detaching
<1>12. CASE Save
  <2>1. /\ cmd.pc = "attached" \/ ~record'.enabled
        /\ record'.port = cmd.port /\ file' = file /\ meta' = meta /\ primary' = primary
        /\ cmd'.pc = "idle"
    BY <1>12, SaveEffect
  <2>2. cmd.pc = "attached" =>
          /\ meta[primary] # None
          /\ file["config"][primary].url = cmd.port /\ file["cache"][primary].url = cmd.port
    BY DEF CommandInv
  <2> QED
    BY <2>1, <2>2, TypeFacts DEF EnabledInv
<1>13. CASE Fail
  <2>1. /\ cmd.op = "enable" /\ cmd.pc = "attached" /\ OnlyCommand
        /\ \/ ~cmd.changed /\ cmd'.pc = "idle"
           \/ cmd'.op = "undo" /\ cmd'.pc \in {"attach", "detach"}
    BY <1>13, FailEffect
  <2>2. file["config"][primary].url = cmd.port /\ file["cache"][primary].url = cmd.port
    BY <2>1 DEF CommandInv
  <2> QED
    BY <2>1, <2>2, TypeFacts DEF OnlyCommand, EnabledInv
<1>14. CASE Undone
  <2>1. /\ cmd.op = "undo" /\ cmd.pc \in {"attached", "detached"} /\ OnlyCommand
        /\ cmd'.pc = "idle"
    BY <1>14, UndoneEffect, IdleFacts
  <2>2. record.enabled => cmd.pc = "attached" /\ cmd.port = record.port
    BY <2>1 DEF CommandInv, Attaching, Detaching
  <2>3. cmd.pc = "attached" =>
          file["config"][primary].url = cmd.port /\ file["cache"][primary].url = cmd.port
    BY DEF CommandInv
  <2> QED
    BY <2>1, <2>2, <2>3, TypeFacts DEF OnlyCommand, EnabledInv
<1>15. CASE Kill
  <2>1. kills' = kills + 1 /\ kills \in Nat
    BY <1>15, KillEffect DEF TypeOK
  <2>2. kills' # 0
    BY <2>1
  <2> QED
    BY <2>2, <1>1
<1>16. ASSUME NEW q \in Provider, Select(q) PROVE EnabledInv'
  <2>1. edits' = edits + 1 /\ edits \in Nat
    BY <1>16, SelectEffect DEF TypeOK
  <2>2. edits' # 0
    BY <2>1
  <2> QED
    BY <2>2, <1>1
<1>17. ASSUME NEW f \in File, NEW q \in Provider, NEW object \in Edits(f, q),
              Edit(f, q, object)
       PROVE  EnabledInv'
  <2>1. edits' = edits + 1 /\ edits \in Nat
    BY <1>17, EditEffect DEF TypeOK
  <2>2. edits' # 0
    BY <2>1
  <2> QED
    BY <2>2, <1>1
<1>18. CASE UNCHANGED vars
  BY <1>3, <1>18, UnchangedEffect
<1> QED
  BY <1>4, <1>5, <1>6, <1>7, <1>8, <1>9, <1>10, <1>11, <1>12, <1>13, <1>14, <1>15, <1>16,
     <1>17, <1>18, CommandFacts DEF Next, AttachStep, DetachStep

-----------------------------------------------------------------------------
(* The theorems. *)

LEMMA IInvInit == Init => IInv
<1> SUFFICES ASSUME Init PROVE IInv
  OBVIOUS
<1>1. TypeOK
  BY TypeInit
<1>2. BackedUp
  BY InitialFiles DEF BackedUp
<1>3. /\ cmd.pc = "idle" /\ cmd.op = "none" /\ \A p \in Provider : meta[p] = None
      /\ forgotten = {} /\ left = {} /\ ~record.enabled
  BY InitialFiles
<1>4. CommandInv
  BY <1>3 DEF CommandInv, Attaching, Detaching
<1>5. GhostInv
  BY <1>3 DEF GhostInv
<1>6. \A p \in Provider : Told(p) = None
  BY <1>3 DEF Told, Pending
<1>7. RouteInv
  BY <1>3, <1>6, InitialFiles, TypeFacts, <1>1 DEF RouteInv, RouteOf
<1>8. DetachInv
  BY <1>3 DEF DetachInv, DetachOf
<1>9. GiveInv
  BY <1>3, <1>6, InitialFiles DEF GiveInv, GiveOf, AsWished
<1>10. DisabledInv
  BY <1>3 DEF DisabledInv, Noted
<1>11. EnabledInv
  BY <1>3 DEF EnabledInv
<1> QED
  BY <1>1, <1>2, <1>4, <1>5, <1>7, <1>8, <1>9, <1>10, <1>11 DEF IInv

LEMMA IInvStep == IInv /\ [Next]_vars => IInv'
<1> SUFFICES ASSUME IInv, [Next]_vars PROVE IInv'
  OBVIOUS
<1> USE DEF IInv
<1>1. TypeOK'
  BY TypeStep
<1>2. BackedUp' /\ CommandInv' /\ RouteInv' /\ GhostInv' /\ DetachInv'
  BY <1>1, BackupStep, CommandStep, RouteStep, GhostStep, DetachInvStep
<1>3. GiveInv' /\ DisabledInv' /\ EnabledInv'
  BY <1>1, <1>2, GiveStep, DisabledStep, EnabledStep
<1> QED
  BY <1>1, <1>2, <1>3

\* The inductive invariant: what the files hold, what the metadata and the
\* backups tell of it, and how far a command has come (openclaw_transaction.py).
THEOREM Invariance == Spec => []IInv
  BY IInvInit, IInvStep, PTL DEF Spec

\* The types of the files, the metadata, the backups and the command.
THEOREM TypeCorrect == Spec => []TypeOK
<1>1. IInv => TypeOK
  BY DEF IInv
<1> QED
  BY <1>1, Invariance, PTL

\* No URL the user gave is lost, wherever commands are killed: the backups made
\* before each write keep it (openclaw_transaction.py, lines 113-119, 162-166).
THEOREM UrlsAreNotLost == Spec => []UrlNotLost
<1>1. IInv => UrlNotLost
  BY DEF IInv, BackedUp, UrlNotLost
<1> QED
  BY <1>1, Invariance, PTL

LEMMA GiveInvGives == TypeOK /\ GiveInv => GivesBack
<1> SUFFICES ASSUME TypeOK, GiveInv, NEW f \in File, NEW p \in Provider, NEW port \in Port,
                    << f, p >> \notin forgotten, wish[f][p].url \notin Local,
                    ~(file[f][p].url \in Port \ {port} /\ Told(p) # None)
             PROVE  IF wish[f][p].there THEN wish[f][p] = Returned(f, p, port)
                    ELSE Returned(f, p, port).url = Unset
  BY DEF GivesBack
<1>1. GiveOf(f, p)
  BY DEF GiveInv
<1>2. ~wish[f][p].there => wish[f][p].url = Unset
  BY TypeFacts, OwnFacts, ObjectFacts, AbsentFacts
<1>3. Good(Returned(f, p, port), wish[f][p])
  <2>1. CASE Told(p) # None /\ ~Skipped(f, p, port)
    <3>1. IF file[f][p].url \in Port THEN AsTold(f, p, Told(p)) ELSE AsWished(f, p)
      BY <1>1 DEF GiveOf
    <3>2. Told(p) \in Entry /\ Fits(f, p, Told(p))
      BY <2>1, <1>1, TypeFacts, CommandFacts DEF Told, Pending, GiveOf
    <3>3. Returned(f, p, port) = Restored(f, file[f][p], Told(p))
      BY <2>1 DEF Returned
    <3> QED
      BY <3>1, <3>2, <3>3, RestoredIsGood
  <2>2. CASE Told(p) = None \/ Skipped(f, p, port)
    <3>1. file[f][p].url \notin Port
      BY <2>2, <1>1 DEF GiveOf, Skipped
    <3>2. AsWished(f, p) /\ Returned(f, p, port) = file[f][p]
      BY <2>2, <3>1, <1>1 DEF GiveOf, Returned
    <3> QED
      BY <3>2 DEF AsWished, Good
  <2> QED
    BY <2>1, <2>2
<1> QED
  BY <1>2, <1>3 DEF Good

\* At any moment a detach at any port would give each provider back as the user had
\* it, through re-attachments, rollbacks and any number of killed commands, but for
\* those routed to another port, whose entry stays, and the others GivesBack
\* excepts (openclaw_routes.py, lines 87-141).
THEOREM ProvidersComeBack == Spec => []GivesBack
<1>1. IInv => GivesBack
  BY GiveInvGives DEF IInv
<1> QED
  BY <1>1, Invariance, PTL

LEMMA FilesAgree ==
  TypeOK /\ RouteInv /\ GhostInv /\ DisabledInv /\ EnabledInv /\ CommandInv
    => FilesFollowRecord
<1> SUFFICES ASSUME TypeOK, RouteInv, GhostInv, DisabledInv, EnabledInv, CommandInv,
                    cmd.pc = "idle"
             PROVE  /\ ~record.enabled =>
                         \A x \in Routed \ left :
                           meta[x[2]] # None /\ meta[x[2]].route # record.port
                    /\ record.enabled /\ edits = 0 /\ kills = 0 =>
                         \A f \in File : file[f][primary].url = record.port
  BY DEF FilesFollowRecord
<1>1. ASSUME ~record.enabled, NEW f \in File, NEW p \in Provider,
             file[f][p].url \in Port, << f, p >> \notin left
      PROVE  meta[p] # None /\ meta[p].route # record.port
  <2>1. f = "config" \/ f = "cache"
    BY TypeFacts
  <2>2. << "config", p >> \notin left /\ << "cache", p >> \notin left
    BY <1>1, <2>1 DEF GhostInv
  <2>3. /\ << "config", p >> \notin forgotten /\ << "cache", p >> \notin forgotten
        /\ RouteOf(p)
    BY <2>2 DEF GhostInv, RouteInv
  <2>4. Told(p) = meta[p]
    BY DEF Told, Pending
  <2>5. meta[p] # None
    BY <1>1, <2>1, <2>3, <2>4 DEF RouteOf
  <2> QED
    BY <1>1, <2>2, <2>5, TypeFacts DEF DisabledInv, Detaching
<1>2. \A x \in Routed : /\ x[1] \in File /\ x[2] \in Provider /\ x = << x[1], x[2] >>
                        /\ file[x[1]][x[2]].url \in Port
  BY DEF Routed, Places
<1>3. record.enabled /\ edits = 0 /\ kills = 0 =>
        \A f \in File : file[f][primary].url = record.port
  BY DEF EnabledInv, CommandInv
<1>4. ASSUME ~record.enabled, NEW x \in Routed \ left
      PROVE  meta[x[2]] # None /\ meta[x[2]].route # record.port
  <2>1. /\ x[1] \in File /\ x[2] \in Provider /\ << x[1], x[2] >> \notin left
        /\ file[x[1]][x[2]].url \in Port
    BY <1>2, <1>4
  <2> QED
    BY <1>1, <1>4, <2>1
<1> QED
  BY <1>3, <1>4

\* Between commands the two files follow the record of the controller
\* (openclaw_transaction.py, lines 138-289).
THEOREM FilesAreTrue == Spec => []FilesFollowRecord
<1>1. IInv => FilesFollowRecord
  BY FilesAgree DEF IInv
<1> QED
  BY <1>1, Invariance, PTL
=============================================================================
