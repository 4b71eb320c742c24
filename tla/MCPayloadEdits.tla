--------------------------- MODULE MCPayloadEdits ---------------------------
(* Instances of PayloadEdits for TLC. *)
EXTENDS PayloadEdits

\* Two secrets, so that each must come back as itself.
Plain == << Word >>
Private == << Secret("mail"), Word, Secret("phone") >>
Echo == << Token("phone"), Token("mail") >>

RequestSlots(e) ==
  CASE e = "chat_completions" ->
         { TextSlot("text", role, text) : role \in {"system", "user", "tool"}, text \in {Plain, Private} }
         \union { [Opaque EXCEPT !.form = "media"], CallSlot("f", Json({Word})), CallSlot("f", Fragment) }
    [] e = "responses" ->
         { TextSlot("text", role, text) : role \in {"developer", "user"}, text \in {Plain, Private} }
         \union { TextSlot("item", "user", Private), TextSlot("output", "tool", Private),
                  Structured("output", "tool", Plain), TextSlot("input", "custom", Plain),
                  CallSlot("f", Json({Word})), Opaque }
    [] e = "anthropic_messages" ->
         { TextSlot("text", role, text) : role \in {"user", "assistant"}, text \in {Plain, Private} }
         \union { TextSlot("tool_result", "tool", Private), Structured("tool_result", "tool", Plain),
                  [Opaque EXCEPT !.form = "media"], CallSlot("f", Json({Word})) }

Heads(e) ==
  CASE e = "chat_completions"   -> { NoHead }
    [] e = "responses"          -> { NoHead, HeadText(Plain), HeadText(Private) }
    [] e = "anthropic_messages" -> { NoHead, HeadText(Plain), [is |-> "blocks", text |-> Plain] }

Endpoints == {"chat_completions", "responses", "anthropic_messages"}

\* Every pair of slots.
MCRequest ==
  UNION { { [endpoint |-> e, body |-> [head |-> h, slots |-> << a, b >>]] :
              h \in Heads(e), a \in RequestSlots(e), b \in RequestSlots(e) } : e \in Endpoints }

ReplySlots(e) ==
  { TextSlot("text", "assistant", text) : text \in {Plain, Echo} }
  \union { CallSlot("f", Json({Word})), CallSlot("f", Json({Token("mail")})) }
  \union (CASE e = "chat_completions"   -> { [Opaque EXCEPT !.form = "media"], CallSlot("f", Fragment) }
            [] e = "responses"          -> { Opaque, TextSlot("output", "tool", Echo),
                                                    TextSlot("output_text", "assistant", Echo) }
            [] e = "anthropic_messages" -> { [Opaque EXCEPT !.form = "media"] })

\* An event has one delta: of a text, or of a call whose name and arguments may be yet
\* to come.
EventSlots ==
  { TextSlot("text", "assistant", text) : text \in {Plain, Echo, << [kind |-> "part", of |-> "mail"] >>} }
  \union { CallSlot("f", NoArgs), CallSlot(NoName, Fragment), Opaque, [Opaque EXCEPT !.form = "done"] }

MCReply ==
  UNION { { [endpoint |-> e, phase |-> "response", body |-> [head |-> NoHead, slots |-> << a, b >>]] :
              a \in ReplySlots(e), b \in ReplySlots(e) }
          \union { [endpoint |-> e, phase |-> "stream_event", body |-> [head |-> NoHead, slots |-> << a >>]] :
                     a \in EventSlots } : e \in Endpoints }

Op(op, view, unit) ==
  [op |-> op, view |-> view, unit |-> unit, args |-> {Written},
   text |-> IF op = "insert_context" THEN << Context >> ELSE << Written >>]

InsertOp == Op("insert_context", "none", {})

\* By view, and by the id of a unit, which may not be there.
Single ==
  { Op(op, view, {}) : op \in TextOps, view \in {"prompt", "response", "observations"} }
  \union { Op(op, "actions", {}) : op \in {"patch_action_args", "replace_action"} }
  \union { Op(op, "none", {id}) : op \in {"append_text", "replace_observation", "patch_action_args"}, id \in {-1, 1, 2} }
  \union { InsertOp, Op("append_text", "instructions", {}) }

\* One operation, or two: with a context, or after another that may have to be undone.
MCOperation ==
  { << >> } \union { << a >> : a \in Single }
  \union { << InsertOp, a >> : a \in Single }
  \union { << Op("append_text", view, {}), a >> : view \in {"prompt", "response"}, a \in Single }

MCOrder == { << "editor", "redact" >>, << "redact", "editor" >>, << "editor", "editor" >>,
             << "editor", "redact", "editor" >> }
=============================================================================
