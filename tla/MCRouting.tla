----------------------------- MODULE MCRouting -----------------------------
(* Values for model checking Routing.                                      *)
EXTENDS Routing

HandlerSymmetry == Permutations(Handlers)
=============================================================================
