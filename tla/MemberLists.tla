---------------------------- MODULE MemberLists ----------------------------
(***************************************************************************)
(* The two member lists of a cluster as values: what append_active,        *)
(* append_pending, the moves and the removals are meant to do to them, and *)
(* the two kinds of damage unlocked operations can do: an entry of active  *)
(* is overwritten, or two of its entries change places.                    *)
(***************************************************************************)
EXTENDS Naturals, Sequences

CONSTANT Members
VARIABLES active, pending

lists == <<active, pending>>

Init == active = <<>> /\ pending = <<>>

\* s without its first entry of m, which is at place k.
IsFirst(s, m, k) == k \in 1 .. Len(s) /\ s[k] = m /\ \A j \in 1 .. k - 1 : s[j] # m
Without(s, k) == [j \in 1 .. Len(s) - 1 |-> IF j < k THEN s[j] ELSE s[j + 1]]

AddActive(m)  == active' = Append(active, m) /\ UNCHANGED pending
AddPending(m) == pending' = Append(pending, m) /\ UNCHANGED active

MoveToActive(m) ==
  \E k \in 1 .. Len(pending) :
    /\ IsFirst(pending, m, k)
    /\ pending' = Without(pending, k)
    /\ active' = Append(active, m)

MoveToPending(m) ==
  \E k \in 1 .. Len(active) :
    /\ IsFirst(active, m, k)
    /\ active' = Without(active, k)
    /\ pending' = Append(pending, m)

RemoveActive(m) ==
  \E k \in 1 .. Len(active) :
    IsFirst(active, m, k) /\ active' = Without(active, k) /\ UNCHANGED pending

RemovePending(m) ==
  \E k \in 1 .. Len(pending) :
    IsFirst(pending, m, k) /\ pending' = Without(pending, k) /\ UNCHANGED active

\* Entries of active are replaced by other members; their number is not.
Overwritten ==
  /\ active' \in [1 .. Len(active) -> Members]
  /\ UNCHANGED pending

Swapped ==
  /\ \E j, k \in 1 .. Len(active) :
       active' = [active EXCEPT ![j] = active[k], ![k] = active[j]]
  /\ UNCHANGED pending

Next ==
  \/ \E m \in Members :
       \/ AddActive(m) \/ AddPending(m) \/ MoveToActive(m) \/ MoveToPending(m)
       \/ RemoveActive(m) \/ RemovePending(m)
  \/ Overwritten \/ Swapped

Spec == Init /\ [][Next]_lists
=============================================================================
