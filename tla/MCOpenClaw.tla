---------------------------- MODULE MCOpenClaw ----------------------------
(* Instances of OpenClaw for TLC. *)
EXTENDS OpenClaw, TLC

CONSTANTS own, builtin, proxy, remote, local, chat, codex, first, second

\* The ports are alike.
MCPorts == Permutations(Port)

Of(url, api) == [there |-> TRUE, url |-> url, api |-> api]

Files(a, b, c, d) ==
  [config |-> [p \in Provider |-> IF p = own THEN a ELSE b],
   cache  |-> [p \in Provider |-> IF p = own THEN c ELSE d]]

\* A provider of the user's own, in both files, with a remote or a local URL; one
\* that only the cache has; one whose API only the cache names; one the gateway
\* does not serve.
MCFirstFiles ==
  { Files(Of(proxy, chat), Absent, Of(proxy, chat), Of(remote, chat)),
    Files(Of(proxy, NoApi), Of(local, chat), Of(proxy, chat), Of(remote, chat)),
    Files(Of(remote, chat), Of(remote, codex), Absent, Of(Unset, chat)) }
=============================================================================
