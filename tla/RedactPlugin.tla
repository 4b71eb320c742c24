---------------------------- MODULE RedactPlugin ----------------------------
(***************************************************************************)
(* The built-in redact plugin (plugins/redact.py, plugins/redact_utils.py) *)
(* as a function from what a hook is given to what it answers.  It reads   *)
(* the native body, which is the one that arrived whatever the plugins     *)
(* before it did, and turns what it changed there into replace_text        *)
(* operations on the payload it was given.  The patterns that find a       *)
(* secret and the spelling of a token are values; text that looks like the *)
(* detector's own placeholder is left out.                                 *)
(***************************************************************************)
EXTENDS PayloadCodec

IsSecret(piece) == piece.kind = "secret"
Secret(s) == [kind |-> "secret", of |-> s]
Token(s)  == [kind |-> "token", of |-> s]

\* Mutant: only the first.
ShieldTextFirst(text) ==
  [i \in DOMAIN text |-> IF IsSecret(text[i]) /\ \A j \in 1..(i - 1) : ~IsSecret(text[j])
                         THEN Token(text[i].of) ELSE text[i]]

\* _shield_text: every occurrence of a secret becomes the token of its value.
ShieldPiece(piece) == IF IsSecret(piece) THEN Token(piece.of) ELSE piece

ShieldText(text) == [i \in DOMAIN text |-> ShieldPiece(text[i])]

\* _shield_content_value and _shield_content_node look at strings, at blocks of text
\* and into "content"; arguments of calls, "output" and "input" are not looked at.
IsShielded(s) == s.form \in {"text", "item", "tool_result"}

ShieldSlot(s) == IF IsShielded(s) THEN [s EXCEPT !.text = ShieldText(@)] ELSE s

\* The system prompt of Anthropic is no message: it is not looked at.
ShieldBody(endpoint, body) ==
  [head  |-> IF endpoint = "responses" THEN [body.head EXCEPT !.text = ShieldText(@)] ELSE body.head,
   slots |-> [i \in DOMAIN body.slots |-> ShieldSlot(body.slots[i])]]

\* The secrets found, each with its token: plugin_state["entries"].
Entries(endpoint, body) ==
  LET texts == { body.slots[i].text : i \in { j \in DOMAIN body.slots : IsShielded(body.slots[j]) } }
               \union (IF endpoint = "responses" THEN { body.head.text } ELSE {})
  IN { piece.of : piece \in { p \in UNION { ToSet(text) : text \in texts } : IsSecret(p) } }

\* Mutant: one entry only.
RestoreTextFirst(text, entries) ==
  [i \in DOMAIN text |-> IF text[i].kind = "token" /\ text[i].of = CHOOSE s \in entries : TRUE
                         THEN Secret(text[i].of) ELSE text[i]]

\* restore_tokens_deep: in every string of the body, whatever holds it.
RestorePiece(piece, entries) ==
  IF piece.kind = "token" /\ piece.of \in entries THEN Secret(piece.of) ELSE piece

RestoreText(text, entries) == [i \in DOMAIN text |-> RestorePiece(text[i], entries)]

RestoreArgs(args, entries) ==
  [args EXCEPT !.pieces = { RestorePiece(piece, entries) : piece \in @ }]

RestoreSlot(s, entries) == [s EXCEPT !.text = RestoreText(@, entries), !.args = RestoreArgs(@, entries)]

RestoreBody(body, entries) ==
  [body EXCEPT !.slots = [i \in DOMAIN @ |-> RestoreSlot(@[i], entries)]]

\* _text_rewrite_operations: one for each writable unit whose text is no longer the one
\* the payload shows; edits of earlier plugins count as differences.
\* The order of operations that each name another unit is not told apart.
Differing(payload, after) ==
  { id \in DOMAIN after \intersect DOMAIN payload.timeline :
      after[id].writable /\ HasText(after[id]) /\ payload.timeline[id].text # after[id].text }

Rewrites(payload, after) ==
  LET ids == SetToSeq(Differing(payload, after))
  IN [i \in DOMAIN ids |-> [op |-> "replace_text", view |-> "none", unit |-> {ids[i]},
                            text |-> after[ids[i]].text, args |-> {}]]

\* pre_request
ShieldRewrites(endpoint, payload, native) ==
  IF Entries(endpoint, native) = {} THEN << >>
  ELSE Rewrites(payload, Normalize(endpoint, "request", ShieldBody(endpoint, native)))

\* post_response and post_stream_event: nothing is rewritten unless something was
\* restored.
RestoreRewrites(endpoint, phase, payload, native, entries) ==
  IF RestoreBody(native, entries) = native THEN << >>
  ELSE Rewrites(payload, Normalize(endpoint, phase, RestoreBody(native, entries)))
=============================================================================
