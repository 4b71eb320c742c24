---------------------------- MODULE PayloadCodec ----------------------------
(***************************************************************************)
(* The semantic payload plugins edit (core/payload_types.py), how a native *)
(* body becomes one and is rebuilt from one (core/payload_codec.py), and   *)
(* the operations on it (core/payload_mutations.py).                       *)
(*                                                                         *)
(* A native body is its instructions (`head': "instructions" of the        *)
(* Responses API, "system" of Anthropic's) and a sequence of slots, one    *)
(* for each message, content block, input item or tool call.  What a slot  *)
(* is to the provider is its form:                                         *)
(*   text        a message, or a text block of one                         *)
(*   item        a string in the input list of the Responses API           *)
(*   call        a tool call (tool_calls, function_call, tool_use)         *)
(*   output      a function_call_output item                               *)
(*   tool_result a tool_result block of Anthropic's                        *)
(*   input       an item with "input" in place of "content"                *)
(*   media       another content block                                     *)
(*   output_text the "output_text" beside "output" in a response           *)
(*   opaque      an item the codec skips                                   *)
(*   done        an event of a stream whose data is no JSON object         *)
(* A text is a sequence of pieces.  The index of a slot is its unit's id,  *)
(* 0 that of the instructions, -1, -2, ... those of inserted contexts.  A  *)
(* timeline is a function from ids to units: in the list the code keeps,   *)
(* units of the body are in the order of their ids, and contexts together. *)
(* Left out: the hooks of Claude Code (their connector refuses patches),   *)
(* content lists with members that are no objects, system roles in the     *)
(* middle of Anthropic messages, whitespace in JSON.                       *)
(***************************************************************************)
EXTENDS Integers, Sequences, FiniteSets, SequencesExt

CONSTANTS
  Value,    \* the values that may be secret
  CallName  \* the names of tools

\* Secrets are what the redact plugin detects; a token
\* stands for the secret `of'; a part is a token cut in two by the stream.
Piece == [kind : {"word", "secret", "token", "part"}, of : {"user", "plugin", "context", "raw"} \union Value]

Word    == [kind |-> "word", of |-> "user"]
Written == [kind |-> "word", of |-> "plugin"]
Context == [kind |-> "word", of |-> "context"]
RawKey  == [kind |-> "word", of |-> "raw"]

NoName == "absent"

Name == CallName \union {NoName, "", "replaced"}

Role == {"system", "developer", "user", "assistant", "tool", "custom"}

\* Arguments of a call on the wire: a JSON object with these pieces, a fragment of
\* JSON text (a stream, or a model that erred), or none.
Json(pieces) == [wire |-> "json", pieces |-> pieces]
Fragment     == [wire |-> "fragment", pieces |-> {}]
NoArgs       == [wire |-> "none", pieces |-> {}]

\* plain: the value is a string.  added: the field denormalization may add to a slot
\* that does not have it ("text" to a tool_result, "content" to an item with
\* "input"), {} while it is not there.
Opaque == [form |-> "opaque", role |-> "assistant", plain |-> TRUE, text |-> << >>,
           added |-> {}, name |-> NoName, args |-> NoArgs]
TextSlot(form, role, text) == [Opaque EXCEPT !.form = form, !.role = role, !.text = text]
Structured(form, role, text) == [TextSlot(form, role, text) EXCEPT !.plain = FALSE]
CallSlot(name, args) == [Opaque EXCEPT !.form = "call", !.name = name, !.args = args]

\* head.is: "none", "text" or "blocks".
NoHead == [is |-> "none", text |-> << >>]
HeadText(text) == [is |-> "text", text |-> text]

Form == {"text", "item", "call", "output", "tool_result", "input", "media", "output_text",
         "opaque", "done"}

Arguments == [wire : {"json", "fragment", "none"}, pieces : SUBSET Piece]

Slot == [form : Form, role : Role, plain : BOOLEAN, text : Seq(Piece),
         added : SUBSET Seq(Piece), name : Name, args : Arguments]

NativeBody == [head : [is : {"none", "text", "blocks"}, text : Seq(Piece)], slots : Seq(Slot)]

Endpoint == {"chat_completions", "responses", "anthropic_messages"}

\* What the codec of an endpoint can meet.
Forms(endpoint, phase) ==
  CASE phase = "stream_event"           -> Form
    [] phase = "request" /\ endpoint = "responses" ->
         {"text", "item", "call", "output", "input", "media", "opaque"}
    [] phase = "response" /\ endpoint = "responses" ->
         {"text", "call", "output", "output_text", "media", "opaque"}
    [] phase # "stream_event" /\ endpoint = "chat_completions" -> {"text", "call", "media"}
    [] phase # "stream_event" /\ endpoint = "anthropic_messages" ->
         {"text", "call", "tool_result", "media"}

\* Of the texts only results may be something else than strings, and nothing was added
\* to a body yet.
IsBody(endpoint, phase, b) ==
  /\ endpoint \in Endpoint /\ b \in NativeBody
  /\ \A i \in DOMAIN b.slots :
       /\ b.slots[i].form \in Forms(endpoint, phase)
       /\ b.slots[i].plain \/ b.slots[i].form \in {"output", "tool_result"}
       /\ b.slots[i].added = {}

\* All the text of a body.
Pieces(b) == (UNION { ToSet(text) : text \in { b.slots[i].text : i \in DOMAIN b.slots } \union { b.head.text } })
             \union (UNION { b.slots[i].args.pieces : i \in DOMAIN b.slots })

Tokens(b) == { piece \in Pieces(b) : piece.kind = "token" }

-----------------------------------------------------------------------------
(* Normalization. *)

\* Mutant: arguments that are an object already are not recognized.
ParsedText(args) == IF args.wire = "fragment" THEN {RawKey} ELSE {}

\* _json_arguments and _dump_arguments: what is no object becomes {"raw": text}, and
\* what was none becomes {}.
Parsed(args) ==
  CASE args.wire = "json"     -> args.pieces
    [] args.wire = "fragment" -> {RawKey}
    [] args.wire = "none"     -> {}

Dumped(pieces) == Json(pieces)

\* _ensure_text
Ensured(s) == IF s.plain THEN s.text ELSE << >>

\* _ensure_text of a call's name
EnsuredName(s) == IF s.name = NoName THEN "" ELSE s.name

\* The kind of the unit a slot becomes; "none" when it becomes none.  The three APIs
\* know different roles.
RoleKind(role) ==
  CASE role \in {"system", "developer"} -> "instruction"
    [] role = "user"                    -> "prompt"
    [] role = "tool"                    -> "observation"
    [] OTHER                            -> "response"

ResponsesRoleKind(role) ==
  CASE role \in {"system", "developer"} -> "instruction"
    [] role = "user"                    -> "prompt"
    [] OTHER                            -> "response"

AnthropicRoleKind(role) ==
  CASE role = "system" -> "instruction"
    [] role = "user"   -> "prompt"
    [] OTHER           -> "response"

ChatKind(s) ==
  CASE s.form = "text"  -> RoleKind(s.role)
    [] s.form = "call"  -> "action"
    [] s.form = "media" -> "media_ref"

ChatResponseKind(s) ==
  CASE s.form = "text"  -> "response"
    [] s.form = "call"  -> "action"
    [] s.form = "media" -> "none"

\* A call the conversation had before has no content: it is skipped.
ResponsesInputKind(s) ==
  CASE s.form = "item"                -> "prompt"
    [] s.form = "output"              -> "observation"
    [] s.form = "input"               -> "response"
    [] s.form = "text"                -> ResponsesRoleKind(s.role)
    [] s.form = "media"               -> "media_ref"
    [] s.form \in {"opaque", "call"}  -> "none"

\* output_text is read only when the output list has no unit.
ResponsesOutputKind(slots, s) ==
  CASE s.form = "call"        -> "action"
    [] s.form = "output"      -> "observation"
    [] s.form = "text"        -> "response"
    [] s.form \in {"media", "opaque"} -> "none"
    [] s.form = "output_text" ->
         IF \E i \in DOMAIN slots : slots[i].form \in {"call", "output", "text"}
         THEN "none" ELSE "response"

AnthropicKind(s) ==
  CASE s.form = "text"        -> AnthropicRoleKind(s.role)
    [] s.form = "call"        -> "action"
    [] s.form = "tool_result" -> "observation"
    [] s.form = "media"       -> "media_ref"

\* A delta of text, or the start of a call; every other event has no unit.
StreamKind(s) ==
  CASE s.form = "text" -> "response"
    [] s.form = "call" -> "action"
    [] OTHER           -> "none"

RequestKind(endpoint, s) ==
  CASE endpoint = "chat_completions"   -> ChatKind(s)
    [] endpoint = "responses"          -> ResponsesInputKind(s)
    [] endpoint = "anthropic_messages" -> AnthropicKind(s)

ResponseKind(endpoint, slots, s) ==
  CASE endpoint = "chat_completions"   -> ChatResponseKind(s)
    [] endpoint = "responses"          -> ResponsesOutputKind(slots, s)
    [] endpoint = "anthropic_messages" -> AnthropicKind(s)

UnitKind(endpoint, phase, slots, s) ==
  CASE phase = "request"      -> RequestKind(endpoint, s)
    [] phase = "response"     -> ResponseKind(endpoint, slots, s)
    [] phase = "stream_event" -> StreamKind(s)

HasText(unit) == unit.kind \notin {"action", "media_ref"}

Unit(id, kind, s) ==
  [id |-> id, kind |-> kind,
   writable |-> kind \in {"prompt", "response", "observation", "action"},
   text |-> IF kind \in {"action", "media_ref"} THEN << >> ELSE Ensured(s),
   name |-> IF kind = "action" THEN EnsuredName(s) ELSE NoName,
   args |-> IF kind = "action" THEN Parsed(s.args) ELSE {}]

\* normalize_request_payload, normalize_response_payload, normalize_stream_event_payload
Normalize(endpoint, phase, body) ==
  LET KindAt(i) == UnitKind(endpoint, phase, body.slots, body.slots[i])
      ids == { i \in DOMAIN body.slots : KindAt(i) # "none" }
             \union (IF body.head.is = "none" THEN {} ELSE {0})
  IN [id \in ids |->
        IF id = 0 THEN Unit(0, "instruction", TextSlot("text", "system", body.head.text))
        ELSE Unit(id, KindAt(id), body.slots[id])]

-----------------------------------------------------------------------------
(* Denormalization. *)

\* What each setter writes in its slot.  A tool_result keeps its "content": the text
\* goes to a field of its own.  So does that of an item with "input".
SetMessageText(s, text) == [s EXCEPT !.text = text]

SetResponsesInput(s, text) ==
  IF s.form = "input" THEN [s EXCEPT !.added = {text}]
  ELSE [s EXCEPT !.text = text, !.plain = TRUE]

SetResponsesOutput(s, text) == [s EXCEPT !.text = text, !.plain = TRUE]

SetAnthropicBlock(s, text) ==
  IF s.form = "tool_result" THEN [s EXCEPT !.added = {text}] ELSE [s EXCEPT !.text = text]

SetCall(s, unit) == [s EXCEPT !.name = unit.name, !.args = Dumped(unit.args)]

\* The input of a tool_use is an object, not the text of one.
SetAnthropicAction(s, unit) == [s EXCEPT !.name = unit.name, !.args = Json(unit.args)]

SetSlot(endpoint, phase, s, unit) ==
  CASE unit.kind = "media_ref" -> s
    [] unit.kind = "action"    ->
         IF endpoint = "anthropic_messages" THEN SetAnthropicAction(s, unit) ELSE SetCall(s, unit)
    [] HasText(unit) /\ endpoint = "chat_completions"   -> SetMessageText(s, unit.text)
    [] HasText(unit) /\ endpoint = "anthropic_messages" -> SetAnthropicBlock(s, unit.text)
    [] HasText(unit) /\ endpoint = "responses"          ->
         IF phase = "request" THEN SetResponsesInput(s, unit.text) ELSE SetResponsesOutput(s, unit.text)

\* Every unit is written back to the body that arrived, whether it was edited or not.
Rebuilt(endpoint, phase, native, timeline) ==
  [native EXCEPT !.slots =
     [i \in DOMAIN @ |-> IF i \in DOMAIN timeline THEN SetSlot(endpoint, phase, @[i], timeline[i])
                         ELSE @[i]]]

\* Inserted contexts: -1, ..., -n.
Contexts(timeline) == { id \in DOMAIN timeline : id < 0 }

\* The contexts as they are written, one after the other, each in front of what is
\* there.  In the timeline a new one is in front of the first prompt, thus after the
\* earlier ones, or in front of everything.  The text of a context is one piece.
InFront(timeline) ==
  LET n == Cardinality(Contexts(timeline))
      HasPrompt == \E id \in DOMAIN timeline : timeline[id].kind = "prompt"
  IN [i \in 1..n |-> timeline[IF HasPrompt THEN i - n - 1 ELSE -i].text[1]]

WithContexts(endpoint, body, front) ==
  IF endpoint = "chat_completions"
  THEN [body EXCEPT !.slots = [i \in DOMAIN front |-> TextSlot("text", "system", << front[i] >>)] \o @]
  ELSE IF front = << >> THEN body
  ELSE [body EXCEPT !.head = HeadText(front \o @.text)]

\* A body, or PayloadDenormalizationError.
Body(b)  == [ok |-> TRUE, body |-> b]
Error(b) == [ok |-> FALSE, body |-> b]

\* No setter knows the string items of an input list, and nothing can be put in front
\* of a system prompt of blocks or an empty one.
DenormalizeRequest(endpoint, native, timeline) ==
  IF \/ \E i \in DOMAIN timeline : i > 0 /\ native.slots[i].form = "item"
     \/ /\ endpoint = "anthropic_messages" /\ Contexts(timeline) # {}
        /\ native.head.is = "blocks" \/ native.head = HeadText(<< >>)
  THEN Error(native)
  ELSE Body(WithContexts(endpoint, Rebuilt(endpoint, "request", native, timeline), InFront(timeline)))

\* An inserted context has no place in a response: it is left out.
DenormalizeResponse(endpoint, native, timeline) ==
  Body(Rebuilt(endpoint, "response", native, timeline))

\* Nor in an event; one whose data is no object cannot be rebuilt.
DenormalizeStream(endpoint, native, timeline) ==
  IF DOMAIN timeline # {} /\ \E i \in DOMAIN native.slots : native.slots[i].form = "done"
  THEN Error(native)
  ELSE Body(Rebuilt(endpoint, "stream_event", native, timeline))

Denormalize(endpoint, phase, native, timeline) ==
  CASE phase = "request"      -> DenormalizeRequest(endpoint, native, timeline)
    [] phase = "response"     -> DenormalizeResponse(endpoint, native, timeline)
    [] phase = "stream_event" -> DenormalizeStream(endpoint, native, timeline)

-----------------------------------------------------------------------------
(* Operations.  `unit' holds the id of the unit an operation names, nothing when it
   names a view. *)

View(unit) ==
  CASE unit.kind = "prompt"      -> "prompt"
    [] unit.kind = "response"    -> "response"
    [] unit.kind = "observation" -> "observations"
    [] unit.kind = "action"      -> "actions"
    [] unit.kind = "instruction" -> "instructions"
    [] unit.kind = "media_ref"   -> "none"

Views == {"prompt", "response", "observations", "actions", "instructions", "none"}

TextOps == {"prepend_text", "append_text", "replace_text"}

ActionOps == {"patch_action_args", "replace_action"}

SemanticOps == TextOps \union ActionOps \union {"replace_observation", "insert_context"}

SemanticOp == { o \in [op : SemanticOps, view : Views, unit : SUBSET Int, text : Seq(Piece),
                       args : SUBSET Piece] : \A i, j \in o.unit : i = j }

AllowedViews(op) ==
  CASE op \in TextOps             -> {"prompt", "response", "observations"}
    [] op = "replace_observation" -> {"observations"}
    [] op \in ActionOps           -> {"actions"}

\* _resolve_target_unit: the id of the unit, or none.  Of a view it is the last.
Target(timeline, o) ==
  LET candidates == { id \in DOMAIN timeline : /\ View(timeline[id]) = o.view
                                               /\ timeline[id].writable
                                               /\ o.view \in AllowedViews(o.op) }
  IN IF o.unit # {} THEN o.unit \intersect DOMAIN timeline
     ELSE { id \in candidates : \A other \in candidates : other <= id }

Applies(unit, o) ==
  CASE o.op \in TextOps             -> unit.writable /\ HasText(unit)
    [] o.op = "replace_observation" -> unit.kind = "observation"
    [] o.op \in ActionOps           -> unit.kind = "action"

EditedUnit(unit, o) ==
  CASE o.op = "prepend_text"  -> [unit EXCEPT !.text = o.text \o @]
    [] o.op = "append_text"   -> [unit EXCEPT !.text = @ \o o.text]
    [] o.op \in {"replace_text", "replace_observation"} -> [unit EXCEPT !.text = o.text]
    [] o.op = "patch_action_args" -> [unit EXCEPT !.args = @ \union o.args]
    [] o.op = "replace_action"    -> [unit EXCEPT !.name = "replaced", !.args = o.args]

\* The payload with one more context, the next id.
InsertContext(updated, o) ==
  LET timeline == updated.timeline
      next == -1 - Cardinality(Contexts(timeline))
      unit == Unit(next, "instruction", TextSlot("text", "system", o.text))
  IN [ok |-> TRUE, audit |-> updated.audit \union {next},
      timeline |-> [id \in DOMAIN timeline \union {next} |-> IF id = next THEN unit ELSE timeline[id]]]

EditUnits(updated, ids, o) ==
  LET timeline == updated.timeline
  IN [ok |-> TRUE, audit |-> updated.audit \union ids,
      timeline |-> [id \in DOMAIN timeline |-> IF id \in ids THEN EditedUnit(timeline[id], o) ELSE timeline[id]]]

\* One operation on a payload; after one that cannot be applied nothing is done.
Operated(updated, o) ==
  IF ~updated.ok THEN updated
  ELSE IF o.op = "insert_context" THEN InsertContext(updated, o)
  ELSE LET ids == Target(updated.timeline, o)
       IN IF \E id \in ids : Applies(updated.timeline[id], o)
          THEN EditUnits(updated, ids, o)
          ELSE [ok |-> FALSE, timeline |-> updated.timeline, audit |-> updated.audit]

\* apply_semantic_operations: all of them, or none.  `audit' lists the units rewritten.
Progress(payload, ops) ==
  LET updated[n \in 0..Len(ops)] ==
        IF n = 0 THEN [ok |-> TRUE, timeline |-> payload.timeline, audit |-> payload.audit]
        ELSE Operated(updated[n - 1], ops[n])
  IN updated

Applied(payload, ops) == Progress(payload, ops)[Len(ops)]
=============================================================================
