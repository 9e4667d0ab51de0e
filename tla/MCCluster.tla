----------------------------- MODULE MCCluster -----------------------------
(* Values for model checking Cluster.                                      *)
EXTENDS Cluster

\* Every member has a name of its own.
OwnNames == [m \in Members |-> m]

\* All members are named alike: one can be added only after the others left.
OneName == [m \in Members |-> NoMember]

MemberSymmetry == Permutations(Members)
=============================================================================
