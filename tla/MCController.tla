---------------------------- MODULE MCController ----------------------------
(* Instances of Controller for TLC. *)
EXTENDS Controller, TLC

CONSTANTS g1, g2, g3, custom, openai, proxy, api, local

\* A provider of the user's own, and one OpenCode has a base URL for; both have
\* a proxy at first.
MCDefault == [p \in Provider |-> IF p = openai THEN api ELSE Unset]

MCFirstBase == [p \in Provider |-> proxy]

MCFirst == [port |-> 1, admin |-> FALSE]

\* Two ports, and remote administration on the first.
MCSettings == { MCFirst, [port |-> 2, admin |-> FALSE], [port |-> 1, admin |-> TRUE] }

MCPidSymmetry == Permutations(Pid)
=============================================================================
