-------------------------- MODULE MCSubscriptionTokens --------------------------
(* Instance of SubscriptionTokens for TLC. *)
EXTENDS SubscriptionTokens, TLC

Symmetry == Permutations(RevisionId) \cup Permutations(Bytes) \cup Permutations(Page)
=================================================================================
