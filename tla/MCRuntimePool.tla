--------------------------- MODULE MCRuntimePool ---------------------------
(* Pools of one, and profiles that list the plugins in opposite orders. *)
EXTENDS RuntimePool

CONSTANTS t1, t2, a, b, a1, a2, b1

MCKeyOf == [r \in Runtime |-> IF r \in {a1, a2} THEN a ELSE b]

MCPoolSize == [k \in Key |-> 1]

MCOrders == { << a, b >>, << b, a >> }
=============================================================================
