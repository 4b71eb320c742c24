---------------------------- MODULE PayloadEdits ----------------------------
(***************************************************************************)
(* How the plugins of a request edit it in turn (core/plugin_manager.py):  *)
(* the request, then its response or the events of its stream.  A hook is  *)
(* shown the payload as the plugins before left it, and answers operations *)
(* that all take effect or none does.  The body is rebuilt from the one    *)
(* that arrived and the payload.  `editor' stands for a plugin that        *)
(* answers any operations, `redact' is RedactPlugin; plugins that block or *)
(* fail are in RequestPipeline.  A behaviour is one request: nothing of it *)
(* is kept for another, and it ends with the response or the last event.   *)
(***************************************************************************)
EXTENDS RedactPlugin

CONSTANTS
  Order,     \* the orders in which the plugins may be active
  Operation, \* the lists of operations an editor may answer
  Request,   \* the requests that may arrive: [endpoint, body]
  Reply      \* what the upstream may send: [endpoint, phase, body]

\* What an editor writes is its own, and can be told from what was there: it has
\* neither secrets nor tokens in it.
EditorOp == { o \in SemanticOp :
  IF o.op = "insert_context" THEN o.text = << Context >>
  ELSE /\ Written \in ToSet(o.text) /\ Written \in o.args
       /\ \A piece \in ToSet(o.text) \union o.args : piece.kind \notin {"secret", "token"} }

ASSUME PayloadAssumption ==
  /\ Order \subseteq Seq({"editor", "redact"})
  /\ Operation \subseteq Seq(EditorOp)
  /\ \A r \in Request : IsBody(r.endpoint, "request", r.body) /\ Tokens(r.body) = {}
  /\ \A r \in Reply : r.phase # "request" => IsBody(r.endpoint, r.phase, r.body)

VARIABLES
  endpoint,  \* the endpoint of the request
  order,     \* the active plugins
  phase,     \* "request", "response" or "stream_event"
  native,    \* the body that arrived: payload.native
  body,      \* the body as it will be handed on
  payload,   \* the payload the next plugin is shown: its timeline and its audit
  queue,     \* the plugins still to run
  entries,   \* the plugin_state of redact
  sent,      \* the tokens the upstream was sent
  redacted,  \* history: redact's operations of this phase took effect
  edited     \* history: the units that an editor was the last to rewrite

pvars == << endpoint, order, phase, native, body, payload, queue, entries, sent, redacted, edited >>

\* The body and its payload as the first plugin of a phase is shown them.
Shown(e, p, b) == [timeline |-> Normalize(e, p, b), audit |-> {}]

PInit ==
  /\ order \in Order /\ queue = order
  /\ \E r \in Request :
       /\ endpoint = r.endpoint /\ native = r.body /\ body = r.body
       /\ payload = Shown(r.endpoint, "request", r.body)
  /\ phase = "request"
  /\ entries = {} /\ sent = {} /\ redacted = FALSE /\ edited = {}

-----------------------------------------------------------------------------
\* Mutant: the body as the plugins before left it.
SourceNow == body

\* The body that operations are denormalized into: no plugin changes it.
Source == native

Saved(updated) == [timeline |-> updated.timeline, audit |-> updated.audit]

\* Mutant: the payload is saved before it is denormalized.
MutatedEarly(ops) ==
  LET updated == Applied(payload, ops)
      sending == Denormalize(endpoint, phase, Source, updated.timeline)
  IN IF ops = << >> \/ ~updated.ok THEN [ok |-> ops = << >>, payload |-> payload, body |-> body]
     ELSE [ok |-> sending.ok, payload |-> Saved(updated),
           body |-> IF sending.ok THEN sending.body ELSE body]

\* _mutate_payload: no operations, an operation that cannot be applied, and a payload
\* that cannot be denormalized leave the body and the payload alone.
Mutated(ops) ==
  LET updated == Applied(payload, ops)
      sending == Denormalize(endpoint, phase, Source, updated.timeline)
  IN IF ops # << >> /\ updated.ok /\ sending.ok
     THEN [ok |-> TRUE, payload |-> Saved(updated), body |-> sending.body]
     ELSE [ok |-> ops = << >>, payload |-> payload, body |-> body]

Mutate(plugin, ops) ==
  /\ queue # << >> /\ Head(queue) = plugin /\ queue' = Tail(queue)
  /\ payload' = Mutated(ops).payload /\ body' = Mutated(ops).body
  /\ UNCHANGED << endpoint, order, phase, native, sent >>

Rewritten(ops) ==
  UNION { Target(payload.timeline, ops[j]) : j \in { k \in DOMAIN ops : ops[k].op # "insert_context" } }

Edit ==
  \E ops \in Operation :
    /\ Mutate("editor", ops)
    /\ edited' = IF Mutated(ops).ok THEN edited \union Rewritten(ops) ELSE edited
    /\ UNCHANGED << entries, redacted >>

Redact(ops) ==
  /\ Mutate("redact", ops)
  /\ redacted' = Mutated(ops).ok
  /\ edited' = IF Mutated(ops).ok THEN edited \ Rewritten(ops) ELSE edited

Shield ==
  /\ phase = "request"
  /\ entries' = Entries(endpoint, native)
  /\ Redact(ShieldRewrites(endpoint, payload, native))

Restore ==
  /\ phase # "request"
  /\ Redact(RestoreRewrites(endpoint, phase, payload, native, entries))
  /\ UNCHANGED entries

\* The upstream's answer, or an event of its stream: the plugins run in the opposite
\* order.  It can only repeat tokens it was sent.
Receive(p) ==
  /\ \E r \in Reply :
       /\ r.endpoint = endpoint /\ r.phase = p /\ Tokens(r.body) \subseteq sent'
       /\ native' = r.body /\ body' = r.body /\ payload' = Shown(endpoint, p, r.body)
  /\ phase' = p /\ queue' = Reverse(order)
  /\ redacted' = FALSE /\ edited' = {}
  /\ UNCHANGED << endpoint, order, entries >>

Answer ==
  /\ queue = << >> /\ phase = "request" /\ sent' = Tokens(body)
  /\ \E p \in {"response", "stream_event"} : Receive(p)

NextEvent ==
  /\ queue = << >> /\ phase = "stream_event" /\ sent' = sent
  /\ Receive("stream_event")

PNext == Edit \/ Shield \/ Restore \/ Answer \/ NextEvent

PSpec == PInit /\ [][PNext]_pvars

-----------------------------------------------------------------------------
(* Properties. *)

\* The forms whose edited text denormalization puts beside the one that is read.
SetsAside == {"tool_result", "input"}

\* Contexts shift the messages of a chat request.
Inserted == IF phase = "request" THEN Cardinality({ id \in payload.audit : id < 0 }) ELSE 0
Shift    == IF endpoint = "chat_completions" THEN Inserted ELSE 0
At(i)    == body.slots[i + Shift]

Units == { payload.timeline[id] : id \in DOMAIN payload.timeline }

HasEdit(s) == Written \in ToSet(s.text) \union s.args.pieces

\* The payload the next plugin is shown is the body that will be handed on: a plugin
\* never decides on a text that is not sent.  Refused operations, whichever of a list
\* it is that cannot be applied or denormalized, leave no trace in either
\* (findings.md:27 "Denormalization failures degrade safely ... instead of emitting
\* partially rewritten native payloads").  And an edit that was accepted is in that
\* body, whatever the plugins after it do, unless redact rewrote the same unit from
\* the body that arrived (README.md:18 "If a plugin rewrites that semantic payload,
\* middleware denormalizes the change back").  Neither is so of the SetsAside forms.
EditsAreSent ==
  /\ \A unit \in Units :
       unit.id > 0 /\ native.slots[unit.id].form \notin SetsAside
         => Unit(unit.id, unit.kind, At(unit.id)) = unit
  /\ \A id \in edited : native.slots[id].form \notin SetsAside => HasEdit(At(id))

\* What the source gave as instructions is sent as it came; a context is in front of
\* it, once for each operation that took effect, however often the body was rebuilt
\* since (findings.md:6 "Source instructions are read-only; middleware/plugin-added
\* context must be additive").
InstructionsKept ==
  LET contexts == [i \in 1..Inserted |-> Context]
  IN /\ Len(body.slots) = Len(native.slots) + Shift
     /\ \A i \in 1..Shift : body.slots[i] = TextSlot("text", "system", << Context >>)
     /\ IF endpoint # "chat_completions" /\ Inserted > 0
        THEN body.head = HeadText(contexts \o native.head.text)
        ELSE body.head = native.head
     /\ \A unit \in Units : unit.id > 0 /\ unit.kind = "instruction" => At(unit.id) = native.slots[unit.id]

\* Forms and values the codec reads and writes back as they were.
IsExact(s) ==
  /\ s.form \notin SetsAside
  /\ s.form = "output" => s.plain
  /\ s.form = "call" => s.name # NoName /\ s.args.wire = "json"

\* Every rebuilding writes every unit: those nobody edited come out as they arrived
\* (task_plan.md:35 "Denormalize modified normalized payloads back to exact native
\* shapes"), except for the values that IsExact leaves out.
UntouchedKept ==
  \A i \in DOMAIN native.slots :
    i \notin payload.audit /\ IsExact(native.slots[i]) => At(i) = native.slots[i]

TextUnits == { unit \in Units : unit.id > 0 /\ unit.writable /\ HasText(unit) }

\* Where the text of a unit is written: in its slot, or in the field beside.
Carried(unit) ==
  IF native.slots[unit.id].form \in SetsAside THEN UNION { ToSet(text) : text \in At(unit.id).added }
  ELSE ToSet(At(unit.id).text)

\* Once redact has had its turn, and its operations took effect, no text that it read
\* in a request is written with a secret it can find: not with what an editor left
\* there, nor when a later plugin has the body rebuilt from the one that arrived.
\* Written, and for all but one form sent: the shielded text of a tool_result of
\* Anthropic's goes to "text", and its "content", which the provider reads, is sent
\* with the secret in it, as it came.
Shielded ==
  phase = "request" /\ redacted =>
    \A unit \in TextUnits : IsShielded(native.slots[unit.id]) =>
      /\ \A piece \in Carried(unit) : ~IsSecret(piece)
      /\ native.slots[unit.id].form \in SetsAside => At(unit.id).text = native.slots[unit.id].text

\* The client is given back its own text: no text of a response or an event that is a
\* string is written with a token in it once redact's turn took effect.  It is read
\* there too, but for the SetsAside forms, which come as they came.  Of the arguments
\* of calls and of outputs that are no strings redact rewrites nothing, and nothing is
\* said.
Restored ==
  phase # "request" /\ redacted =>
    \A unit \in TextUnits : native.slots[unit.id].plain =>
      /\ \A piece \in Carried(unit) : piece.kind # "token"
      /\ native.slots[unit.id].form \in SetsAside => At(unit.id).text = native.slots[unit.id].text
-----------------------------------------------------------------------------
(* The inductive invariant of the proofs. *)

Phase == {"request", "response", "stream_event"}

PTypeOK ==
  /\ endpoint \in Endpoint /\ phase \in Phase
  /\ IsBody(endpoint, phase, native) /\ body \in NativeBody
  /\ order \in Seq({"editor", "redact"}) /\ queue \in Seq({"editor", "redact"})
  /\ redacted \in BOOLEAN

\* The timeline of the body as it arrived.
Arrived == Normalize(endpoint, phase, native)

Kinds == {"instruction", "prompt", "response", "observation", "action", "media_ref"}

SemanticUnit == [id : Int, kind : Kinds, writable : BOOLEAN, text : Seq(Piece), name : Name,
                 args : SUBSET Piece]

ContextUnit(id) == Unit(id, "instruction", TextSlot("text", "system", << Context >>))

\* What edits may make of a unit.
IsVersion(unit, base) ==
  /\ unit \in SemanticUnit
  /\ unit.id = base.id /\ unit.kind = base.kind
  /\ unit.writable = (unit.kind \in {"prompt", "response", "observation", "action"})
  /\ ~unit.writable => unit = base
  /\ HasText(unit) => unit.name = NoName /\ unit.args = {}
  /\ ~HasText(unit) => unit.text = << >>
  /\ unit.kind = "action" => unit.name # NoName

\* What operations may make of a payload that arrived with that timeline: contexts are
\* added, and units edited that the audit lists.
IsEdition(p, arrived) ==
  LET n == Cardinality(Contexts(p.timeline))
  IN /\ n \in Nat /\ Contexts(p.timeline) = (-n)..(-1)
     /\ DOMAIN p.timeline = DOMAIN arrived \union (-n)..(-1)
     /\ \A id \in (-n)..(-1) : p.timeline[id] = ContextUnit(id)
     /\ \A id \in DOMAIN arrived : IsVersion(p.timeline[id], arrived[id])
     /\ \A id \in DOMAIN arrived \ p.audit : p.timeline[id] = arrived[id]
     /\ p.audit \subseteq DOMAIN p.timeline /\ { id \in p.audit : id < 0 } = (-n)..(-1)

\* No operation took effect yet, or the body is the payload denormalized.
BodyInv ==
  \/ payload = Shown(endpoint, phase, native) /\ body = native
  \/ Denormalize(endpoint, phase, native, payload.timeline) = Body(body)

TextOf(unit) == ToSet(unit.text) \union unit.args

EditedInv ==
  \A id \in edited : id \in payload.audit /\ id > 0 /\ Written \in TextOf(payload.timeline[id])

IsKnown(piece) == piece.kind = "token" => piece.of \in entries

\* Every token there is has an entry by which it is restored.
TokenInv ==
  /\ \A id \in DOMAIN payload.timeline : \A piece \in TextOf(payload.timeline[id]) : IsKnown(piece)
  /\ \A piece \in Pieces(native) \union Pieces(body) \union sent : IsKnown(piece)
  /\ phase = "request" => Tokens(native) = {} /\ entries \in {{}, Entries(endpoint, native)}

\* What redact's turn left in the texts it writes.
RedactInv ==
  redacted =>
    \A id \in DOMAIN Arrived :
      id > 0 /\ Arrived[id].writable /\ HasText(Arrived[id])
        => \A piece \in ToSet(payload.timeline[id].text) :
             IF phase = "request" THEN IsShielded(native.slots[id]) => ~IsSecret(piece)
             ELSE piece.kind # "token"

\* The secrets redact may still find, and the tokens, are those that arrived.
SourceInv ==
  \A id \in DOMAIN Arrived :
    id > 0 => \A piece \in ToSet(payload.timeline[id].text) :
      IF phase = "request"
      THEN IsSecret(piece) /\ IsShielded(native.slots[id]) => piece.of \in Entries(endpoint, native)
      ELSE piece.kind = "token" => piece \in ToSet(native.slots[id].text)

PIInv ==
  /\ PTypeOK /\ IsEdition(payload, Arrived) /\ BodyInv /\ EditedInv
  /\ TokenInv /\ SourceInv /\ RedactInv
=============================================================================
