---------------------------- MODULE MCRevisionStore ----------------------------
(* Instance of RevisionStore for TLC: every set but Name is a symmetry set. *)
EXTENDS RevisionStore, TLC

Symmetry ==
    Permutations(ProjectId) \cup Permutations(RevisionId)
        \cup Permutations(Page) \cup Permutations(Bytes)
================================================================================
