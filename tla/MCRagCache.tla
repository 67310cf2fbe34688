----------------------------- MODULE MCRagCache -----------------------------
(***************************************************************************)
(* RagCache on small instances.  Hashes, reviewers, clients and workers    *)
(* are interchangeable in every action and property.                       *)
(***************************************************************************)
EXTENDS RagCache, TLC

Symmetry ==
  Permutations(Hash) \cup Permutations(Reviewer) \cup Permutations(Client)
    \cup Permutations(Worker)

=============================================================================
