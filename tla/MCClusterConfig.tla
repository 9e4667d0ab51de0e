-------------------------- MODULE MCClusterConfig --------------------------
(* Values for model checking ClusterConfig: a text that is no number, one  *)
(* that is a number, and one that is a number no weight should be.         *)
EXTENDS ClusterConfig

Numbers == [t \in Texts |-> CASE t = "7" -> 7 [] t = "0" -> 0 [] OTHER -> NaN]
=============================================================================
