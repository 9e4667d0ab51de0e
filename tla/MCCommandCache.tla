-------------------------- MODULE MCCommandCache --------------------------
(* Values for model checking CommandCache.                                 *)
EXTENDS CommandCache, TLC

CacheSymmetry ==
  Permutations(Cookies) \cup Permutations(Handlers) \cup Permutations(Replies)
=============================================================================
