--------------------------- MODULE MCRevisionHistory ---------------------------
(* Instance of RevisionHistory for TLC: calls have no identity of their own. *)
EXTENDS RevisionHistory, TLC

Symmetry == Permutations(Call)
================================================================================
