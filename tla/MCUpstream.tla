----------------------------- MODULE MCUpstream -----------------------------
(* Two requests of one harness, for every harness; three providers, one with *)
(* two URLs of its own and one on localhost.                                 *)
EXTENDS Upstream

CONSTANTS api, mirror, native, anth, local, x, y, completions, google,
          r1, r2

\* Only requests of Codex write what others read.
MCSends == [c \in Client |-> IF c = "codex" THEN {r1, r2} ELSE {r1}]

MCUrl == {api, mirror, native, anth, local}
MCOwner == [u \in MCUrl |-> IF u = native THEN Codex ELSE IF u = anth THEN Anthropic ELSE OpenAI]

Asked(p, explicit, kind) == [provider |-> p, explicit |-> explicit, kind |-> kind]

MCAsk == {Asked(Unset, FALSE, "json"), Asked(OpenAI, FALSE, "stream"),
          Asked(Anthropic, FALSE, "models"), Asked(OpenAI, TRUE, "json")}

MCCodexStart ==
  {NoStore, [NoStore EXCEPT !.key = TRUE]}
  \union [access : {0}, refresh : {0, Unset}, key : BOOLEAN]

Base(o, a) == [p \in Provider |-> CASE p = OpenAI -> o [] p = Anthropic -> a [] OTHER -> Unset]

MCOpenCodeStart ==
  {<< [NoConfig EXCEPT !.active = p, !.base = Base(o, anth), !.key[OpenAI] = key],
      [NoRest EXCEPT !.auth[Anthropic] = "key", !.auth[OpenAI] = auth,
                     !.env = IF key = "none" THEN {OpenAI} ELSE {}] >> :
     p \in {OpenAI, Anthropic, Unset}, o \in {Unset, mirror, local},
     key \in {"none", "real"}, auth \in {"none", "oauth"}}

Entry(p, f, c, o) ==
  [family |-> << Unset, f >>,
   kept |-> << Unset, CASE p = OpenAI -> mirror [] p = Anthropic -> anth [] OTHER -> native >>,
   configured |-> c, order |-> o, cacheKey |-> "none"]

MCOpenClawStart ==
  [active : {OpenAI}, env : {{}, {OpenAI}},
   entry : {[p \in Provider |-> Entry(p, f, c, o)] :
              f \in {completions, google, Unset},
              << c, o >> \in {<< Unset, << >> >>, << x, << >> >>, << Unset, << x, y >> >>}},
   profiles : {[i \in Profile |-> IF i = x THEN a ELSE [of |-> OpenAI, usable |-> TRUE]] :
                a \in {Unset, [of |-> OpenAI, usable |-> FALSE], [of |-> Anthropic, usable |-> TRUE]}}]
=============================================================================
