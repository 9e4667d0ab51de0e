--------------------------- MODULE MCMemberSlices ---------------------------
(* Values for model checking MemberSlices.                                 *)
EXTENDS MemberSlices, TLC

TwoMembers == 1 .. 2

ThreadSymmetry == Permutations(Threads)
=============================================================================
