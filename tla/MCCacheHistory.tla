--------------------------- MODULE MCCacheHistory ---------------------------
(***************************************************************************)
(* CacheHistory on small instances.  Hashes, reviewers, clients and        *)
(* workers are interchangeable in every action and property.               *)
(***************************************************************************)
EXTENDS CacheHistory, TLC

Symmetry ==
  Permutations(Hash) \cup Permutations(Reviewer) \cup Permutations(Client)
    \cup Permutations(Worker)

=============================================================================
