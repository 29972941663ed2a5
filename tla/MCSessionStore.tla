--------------------------- MODULE MCSessionStore ---------------------------
(* Symmetry for the runs of SessionStore. *)
EXTENDS SessionStore, TLC

Symmetry == Permutations(Request) \cup Permutations(Access)
=============================================================================
