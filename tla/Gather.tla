------------------------------- MODULE Gather -------------------------------
(***************************************************************************)
(* What a broadcast promises its sender: every member that was asked       *)
(* answers once, then one reply goes out.  The reply is "merged" only if   *)
(* the answer of some member was used, and "failed" only if that of some   *)
(* member was not.  Nothing is said of a broadcast to nobody.              *)
(***************************************************************************)
EXTENDS Integers, FiniteSets

CONSTANT Members

VARIABLES
  asked,   \* how many members were asked
  waiting, \* those that have not answered yet
  used,    \* how many answers were used
  reply    \* "none" until the reply is sent

vars == <<asked, waiting, used, reply>>

Init ==
  /\ waiting \in SUBSET Members
  /\ asked = Cardinality(waiting)
  /\ used = 0
  /\ reply = "none"

\* An answer is used before its member counts as done.
Use ==
  /\ waiting # {} /\ used < asked
  /\ used' = used + 1
  /\ UNCHANGED <<asked, waiting, reply>>

Answer(m) ==
  /\ m \in waiting
  /\ waiting' = waiting \ {m}
  /\ UNCHANGED <<asked, used, reply>>

Reply ==
  /\ waiting = {} /\ reply = "none"
  /\ \/ used > 0 /\ reply' = "merged"
     \/ used < asked /\ reply' = "failed"
  /\ UNCHANGED <<asked, waiting, used>>

Next == Use \/ (\E m \in Members : Answer(m)) \/ Reply

Spec == Init /\ [][Next]_vars
=============================================================================
