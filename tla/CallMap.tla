------------------------------ MODULE CallMap ------------------------------
(***************************************************************************)
(* The two call-id maps a cluster member keeps (rtp_cluster_member.go), as *)
(* a record of two sets: the calls a member answers for are those in       *)
(* either set.  call_id_map holds the calls some command was routed by,    *)
(* call_id_map_old the calls just bound and the calls being forgotten.     *)
(* Every operator is one method: it maps the record before the call to the *)
(* record after it.  Each method runs under call_id_map_lock, so the       *)
(* modules that use these operators apply each one in a single step.       *)
(***************************************************************************)
EXTENDS Naturals, FiniteSets

CONSTANTS
  Calls,      \* the call-ids in use
  AgeLimit    \* 1000 in the code: below it call_id_map is not rotated

ASSUME CallMapAssumption ==
  /\ IsFiniteSet(Calls)
  /\ AgeLimit \in Nat \ {0}

Book == [call_id_map : SUBSET Calls, call_id_map_old : SUBSET Calls]

EmptyBook == [call_id_map |-> {}, call_id_map_old |-> {}]

\* The answer of isYours.
Knows(b, c) == c \in b.call_id_map \cup b.call_id_map_old

\* The side effect of isYours: a call found in the old map is promoted.
isYours(b, c) ==
  IF c \in b.call_id_map_old \ b.call_id_map
    THEN [call_id_map     |-> b.call_id_map \cup {c},
          call_id_map_old |-> b.call_id_map_old \ {c}]
    ELSE b

\* A command of any type but D binds into the old map.
bind_session(b, c, type) ==
  IF type = "D"
    THEN [b EXCEPT !.call_id_map = @ \cup {c}]
    ELSE [b EXCEPT !.call_id_map_old = @ \cup {c}]

unbind_session(b, c) ==
  [call_id_map     |-> b.call_id_map \ {c},
   call_id_map_old |-> b.call_id_map_old \cup {c}]

\* Mutation: the current map is emptied before it is made the old one.
AgingInTheWrongOrder(b) ==
  IF Cardinality(b.call_id_map) < AgeLimit
    THEN [b EXCEPT !.call_id_map_old = {}]
    ELSE EmptyBook

\* The timer: with fewer than AgeLimit calls the old map is emptied and the
\* current one kept, otherwise the current map becomes the old one.
call_id_map_aging(b) ==
  IF Cardinality(b.call_id_map) < AgeLimit
    THEN [b EXCEPT !.call_id_map_old = {}]
    ELSE [call_id_map |-> {}, call_id_map_old |-> b.call_id_map]
=============================================================================
