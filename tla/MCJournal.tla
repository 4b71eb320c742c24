------------------------------ MODULE MCJournal ------------------------------
(* Requests are interchangeable, and the invariants treat them alike. *)
EXTENDS Journal

Symmetric == Permutations(Request)
=============================================================================
