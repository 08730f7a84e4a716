---------------------------- MODULE MCProjectEditor ----------------------------
(***************************************************************************)
(* A small instance of ProjectEditor: calls, sources and projects have no  *)
(* identity of their own, so their permutations are symmetries.            *)
(***************************************************************************)
EXTENDS ProjectEditor, TLC

Symmetry == Permutations(Call) \cup Permutations(Bytes) \cup Permutations(ProjectId)
================================================================================
