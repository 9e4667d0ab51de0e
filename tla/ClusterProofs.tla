---------------------------- MODULE ClusterProofs ----------------------------
(***************************************************************************)
(* The safety of the member lists of Cluster, for any sets of members,     *)
(* administrators and calls, whatever the administrators may do and        *)
(* however fast a new member's RTPproxy answers.                           *)
(***************************************************************************)
EXTENDS Cluster, ListLemmas, FiniteSetTheorems

\* The lists: what the operations on them need and keep.
ListInv ==
  /\ active \in Seq(Members) /\ pending \in Seq(Members)
  /\ NoDoubleListing

\* An administrator inside add has a member nobody else refers to, and that
\* is not listed yet; started from the second step on.
AddingStates == {"found", "started", "append"}

AdminInv ==
  \A a \in Admins :
    /\ apc[a] # "idle" => target[a] \in Members
    /\ apc[a] = "found" => ~started[target[a]]
    /\ apc[a] \in {"started", "append"} => started[target[a]]
    /\ apc[a] \in AddingStates =>
         /\ target[a] \notin Listed
         /\ \A b \in Admins \ {a} : target[b] # target[a]

\* Only members that were started are listed.
ListedStarted == \A m \in Listed : started[m]

IInv == TypeOK /\ ListInv /\ AdminInv /\ ListedStarted /\ ListedUntilShut

-----------------------------------------------------------------------------
\* An append of a member that is not listed lists it, once.
LEMMA AppendLists ==
  ASSUME ListInv, NEW m \in Members, m \notin Listed,
         append_active(m) \/ append_pending(m)
  PROVE  ListInv' /\ Listed' = Listed \cup {m}
<1>1. CASE append_active(m)
  <2>1. /\ active' \in Seq(Members) /\ IsInjective(active')
        /\ ToSet(active') = ToSet(active) \cup {m} /\ pending' = pending
    BY <1>1, AppendInjective2
       DEF append_active, ListInv, NoDoubleListing, Listed
  <2> QED
    BY <2>1 DEF ListInv, NoDoubleListing, Listed
<1>2. CASE append_pending(m)
  <2>1. /\ pending' \in Seq(Members) /\ IsInjective(pending')
        /\ ToSet(pending') = ToSet(pending) \cup {m} /\ active' = active
    BY <1>2, AppendInjective2
       DEF append_pending, ListInv, NoDoubleListing, Listed
  <2> QED
    BY <2>1 DEF ListInv, NoDoubleListing, Listed
<1> QED
  BY <1>1, <1>2

\* A move keeps the set of listed members.
LEMMA MoveLists ==
  ASSUME ListInv, NEW m \in Members, move_to_active(m) \/ move_to_pending(m)
  PROVE  ListInv' /\ Listed' = Listed
<1>1. CASE UNCHANGED lists
  BY <1>1 DEF lists, ListInv, NoDoubleListing, Listed
<1>2. CASE /\ m \in ToSet(pending)
           /\ pending' = RemoveFirst(pending, m)
           /\ active' = Append(active, m)
  <2>1. /\ pending' \in Seq(Members) /\ IsInjective(pending')
        /\ ToSet(pending') = ToSet(pending) \ {m}
    BY <1>2, RemoveFirstInjective DEF ListInv, NoDoubleListing
  <2>2. /\ active' \in Seq(Members) /\ IsInjective(active')
        /\ ToSet(active') = ToSet(active) \cup {m}
    BY <1>2, AppendInjective2 DEF ListInv, NoDoubleListing
  <2> QED
    BY <1>2, <2>1, <2>2 DEF ListInv, NoDoubleListing, Listed
<1>3. CASE /\ m \in ToSet(active)
           /\ active' = RemoveFirst(active, m)
           /\ pending' = Append(pending, m)
  <2>1. /\ active' \in Seq(Members) /\ IsInjective(active')
        /\ ToSet(active') = ToSet(active) \ {m}
    BY <1>3, RemoveFirstInjective DEF ListInv, NoDoubleListing
  <2>2. /\ pending' \in Seq(Members) /\ IsInjective(pending')
        /\ ToSet(pending') = ToSet(pending) \cup {m}
    BY <1>3, AppendInjective2 DEF ListInv, NoDoubleListing
  <2> QED
    BY <1>3, <2>1, <2>2 DEF ListInv, NoDoubleListing, Listed
<1> QED
  BY <1>1, <1>2, <1>3 DEF move_to_active, move_to_pending

\* A removal takes out no other member, and lists none.
LEMMA RemoveLists ==
  ASSUME ListInv, NEW m \in Members, remove_active(m) \/ remove_pending(m)
  PROVE  ListInv' /\ Listed' \subseteq Listed /\ Listed \ {m} \subseteq Listed'
<1>1. CASE remove_active(m)
  <2>1. /\ active' \in Seq(Members) /\ IsInjective(active')
        /\ ToSet(active') = ToSet(active) \ {m} /\ pending' = pending
    BY <1>1, RemoveFirstInjective DEF remove_active, ListInv, NoDoubleListing
  <2> QED
    BY <2>1 DEF ListInv, NoDoubleListing, Listed
<1>2. CASE remove_pending(m)
  <2>1. /\ pending' \in Seq(Members) /\ IsInjective(pending')
        /\ ToSet(pending') = ToSet(pending) \ {m} /\ active' = active
    BY <1>2, RemoveFirstInjective DEF remove_pending, ListInv, NoDoubleListing
  <2> QED
    BY <2>1 DEF ListInv, NoDoubleListing, Listed
<1> QED
  BY <1>1, <1>2

\* The methods on the call maps keep their type.
LEMMA BookOps ==
  ASSUME NEW b \in Book, NEW c \in Calls
  PROVE  /\ isYours(b, c) \in Book
         /\ bind_session(b, c, "U") \in Book
         /\ unbind_session(b, c) \in Book
         /\ call_id_map_aging(b) \in Book
BY DEF Book, isYours, bind_session, unbind_session, call_id_map_aging

\* The number of sessions a heartbeat reports is a count.
LEMMA LiveCount ==
  ASSUME TypeOK, NEW m \in Members
  PROVE  Cardinality(live[m]) \in Nat
<1>1. IsFiniteSet(live[m])
  BY CallMapAssumption, FS_Subset DEF TypeOK
<1> QED
  BY <1>1, FS_CardinalityType

-----------------------------------------------------------------------------
\* Nothing exists in the initial state.
LEMMA InitIInv == Init => IInv
<1> SUFFICES ASSUME Init PROVE IInv
  OBVIOUS
<1>1. ListInv /\ Listed = {}
  BY EmptySeq DEF Init, ListInv, NoDoubleListing, Listed, IsInjective, ToSet
<1>2. TypeOK
  BY <1>1, ClusterAssumption DEF Init, TypeOK, ListInv, Statuses,
     ClientStates, AdminStates, EmptyBook, Book
<1>3. AdminInv /\ ListedStarted /\ ListedUntilShut
  BY <1>1 DEF Init, AdminInv, ListedStarted, ListedUntilShut, AddingStates
<1> QED
  BY <1>1, <1>2, <1>3 DEF IInv

\* What an action that leaves the administrators alone has to keep: the
\* members listed, unless one is about to be shut down by its own client.
LEMMA ClientKeeps ==
  ASSUME IInv, TypeOK', ListInv', NEW m \in Members,
         UNCHANGED <<admin, started>>,
         Listed' \subseteq Listed,
         \/ Listed' = Listed
         \/ mpc'[m] = "stop" /\ Listed \ {m} \subseteq Listed',
         \A x \in Members : x # m => mpc'[x] = mpc[x] /\ shut'[x] = shut[x],
         mpc[m] = "stop" => mpc'[m] = "stop" \/ shut'[m],
         shut[m] => shut'[m]
  PROVE  IInv'
<1> USE DEF IInv
<1>1. apc' = apc /\ target' = target /\ started' = started
  BY DEF admin
<1>2. AdminInv'
  BY <1>1 DEF AdminInv, AddingStates
<1>3. ListedStarted'
  BY <1>1 DEF ListedStarted
<1>4. ListedUntilShut'
  BY <1>1 DEF ListedUntilShut, Adding, Stopping
<1> QED
  BY <1>2, <1>3, <1>4

\* The client of a member moves it or removes it, and shuts down what it
\* removed.
LEMMA ClientStep ==
  ASSUME IInv, NEW m \in Members, ClientNext(m)
  PROVE  IInv'
<1> USE DEF IInv
<1>1. CASE GoOnline(m)
  <2>1. TypeOK' /\ ListInv' /\ Listed' = Listed
    BY <1>1 DEF GoOnline, TypeOK, ClientStates, lists, calls, admin, ListInv,
       NoDoubleListing, Listed
  <2> QED
    BY <1>1, <2>1, ClientKeeps DEF GoOnline, Running, TypeOK
<1>2. CASE OnlineReported(m)
  <2>1. ListInv' /\ Listed' = Listed
    BY <1>2, MoveLists DEF OnlineReported
  <2>2. TypeOK'
    BY <1>2, <2>1 DEF OnlineReported, TypeOK, ClientStates, calls, admin,
       ListInv
  <2> QED
    BY <1>2, <2>1, <2>2, ClientKeeps DEF OnlineReported, TypeOK
<1>3. CASE GoOffline(m)
  <2>1. ListInv' /\ Listed' = Listed
    BY <1>3, MoveLists DEF GoOffline
  <2>2. TypeOK'
    BY <1>3, <2>1 DEF GoOffline, TypeOK, ClientStates, calls, admin, ListInv
  <2> QED
    BY <1>3, <2>1, <2>2, ClientKeeps DEF GoOffline, Running, TypeOK
<1>4. CASE OfflineMarked(m)
  <2>1. TypeOK' /\ ListInv' /\ Listed' = Listed
    BY <1>4 DEF OfflineMarked, TypeOK, ClientStates, lists, calls, admin,
       ListInv, NoDoubleListing, Listed
  <2> QED
    BY <1>4, <2>1, ClientKeeps DEF OfflineMarked, TypeOK
<1>5. CASE UpdateActive(m)
  <2>1. TypeOK' /\ ListInv' /\ Listed' = Listed
    BY <1>5, LiveCount DEF UpdateActive, TypeOK, ClientStates, lists, calls,
       admin, ListInv, NoDoubleListing, Listed
  <2> QED
    BY <1>5, <2>1, ClientKeeps DEF UpdateActive, Running, TypeOK
<1>6. CASE rtpp_active_change(m)
  <2>1. /\ ListInv' /\ Listed' \subseteq Listed
        /\ \/ Listed' = Listed
           \/ mpc'[m] = "stop" /\ Listed \ {m} \subseteq Listed'
    <3>1. CASE remove_active(m) \/ remove_pending(m)
      <4>1. mpc'[m] = "stop" \/ UNCHANGED lists
        BY <1>6 DEF rtpp_active_change, TypeOK
      <4> QED
        BY <3>1, <4>1, RemoveLists DEF lists, Listed
    <3>2. CASE UNCHANGED lists
      BY <3>2 DEF lists, ListInv, NoDoubleListing, Listed
    <3> QED
      BY <1>6, <3>1, <3>2 DEF rtpp_active_change
  <2>2. TypeOK'
    BY <1>6, <2>1, LiveCount DEF rtpp_active_change, TypeOK, ClientStates,
       calls, admin, ListInv
  <2> QED
    BY <1>6, <2>1, <2>2, ClientKeeps DEF rtpp_active_change, TypeOK
<1>7. CASE DrainedShutdown(m)
  <2>1. TypeOK' /\ ListInv' /\ Listed' = Listed
    BY <1>7 DEF DrainedShutdown, TypeOK, ClientStates, lists, calls, admin,
       ListInv, NoDoubleListing, Listed
  <2> QED
    BY <1>7, <2>1, ClientKeeps DEF DrainedShutdown, TypeOK
<1> QED
  BY <1>1, <1>2, <1>3, <1>4, <1>5, <1>6, <1>7 DEF ClientNext

\* An administrator that begins a command, or one of its steps that changes
\* neither list: the members listed and the clients stay as they are.
LEMMA ListsUnchanged ==
  ASSUME ListInv, UNCHANGED lists
  PROVE  ListInv' /\ Listed' = Listed
BY DEF lists, ListInv, NoDoubleListing, Listed

\* add: the member is unlisted and unknown to the others until the append.
LEMMA AddStep ==
  ASSUME IInv, NEW a \in Admins,
         \/ \E m \in Members : AddFind(a, m)
         \/ AddStart(a) \/ AddCheck(a) \/ AddAppend(a)
  PROVE  IInv'
<1> USE ClusterAssumption DEF IInv
<1>1. ASSUME NEW m \in Members, AddFind(a, m) PROVE IInv'
  <2>1. ListInv' /\ Listed' = Listed
    BY <1>1, ListsUnchanged DEF AddFind
  <2>2. TypeOK'
    BY <1>1, <2>1 DEF AddFind, TypeOK, AdminStates, Statuses, lists, client,
       calls, ListInv
  <2>3. m \notin Listed
    BY <1>1 DEF AddFind, Fresh, ListedStarted
  <2>4. AdminInv'
    BY <1>1, <2>1, <2>3 DEF AddFind, Fresh, AdminInv, AddingStates, TypeOK
  <2>5. ListedStarted' /\ ListedUntilShut'
    BY <1>1, <2>1 DEF AddFind, ListedStarted, ListedUntilShut, Adding,
       Stopping, TypeOK, client, Fresh
  <2> QED
    BY <2>1, <2>2, <2>4, <2>5
<1>2. CASE AddStart(a)
  <2>1. ListInv' /\ Listed' = Listed
    BY <1>2, ListsUnchanged DEF AddStart
  <2>2. TypeOK'
    BY <1>2, <2>1 DEF AddStart, TypeOK, AdminStates, lists, client, calls,
       ListInv
  <2>3. target[a] \in Members
    BY <1>2 DEF AddStart, AdminInv
  <2>4. AdminInv'
    BY <1>2, <2>1, <2>3 DEF AddStart, AdminInv, AddingStates, TypeOK
  <2>5. ListedStarted'
    BY <1>2, <2>1, <2>3 DEF AddStart, ListedStarted, TypeOK, ListInv
  <2>6. ListedUntilShut'
    BY <1>2, <2>1, <2>3 DEF AddStart, ListedUntilShut, Adding, Stopping,
       TypeOK, client
  <2> QED
    BY <2>1, <2>2, <2>4, <2>5, <2>6
<1>3. CASE AddCheck(a)
  <2>1. ListInv' /\ Listed' = Listed
    BY <1>3, ListsUnchanged DEF AddCheck
  <2>2. TypeOK'
    BY <1>3, <2>1 DEF AddCheck, TypeOK, AdminStates, lists, client, calls,
       ListInv, AdminInv
  <2>3. AdminInv'
    BY <1>3, <2>1 DEF AddCheck, AdminInv, AddingStates, TypeOK
  <2>4. ListedStarted' /\ ListedUntilShut'
    BY <1>3, <2>1 DEF AddCheck, ListedStarted, ListedUntilShut, Adding,
       Stopping, TypeOK, client
  <2> QED
    BY <2>1, <2>2, <2>3, <2>4
<1>4. CASE AddAppend(a)
  <2>1. /\ target[a] \in Members /\ started[target[a]]
        /\ target[a] \notin Listed
        /\ \A b \in Admins \ {a} : target[b] # target[a]
    BY <1>4 DEF AddAppend, AdminInv, AddingStates
  <2>2. ListInv' /\ Listed' = Listed \cup {target[a]}
    BY <1>4, <2>1, AppendLists DEF AddAppend
  <2>3. TypeOK'
    BY <1>4, <2>2 DEF AddAppend, Done, TypeOK, AdminStates, client, calls,
       ListInv
  <2>4. AdminInv'
    BY <1>4, <2>1, <2>2 DEF AddAppend, Done, AdminInv, AddingStates, TypeOK
  <2>5. ListedStarted'
    BY <1>4, <2>1, <2>2 DEF AddAppend, ListedStarted
  <2>6. ListedUntilShut'
    BY <1>4, <2>1, <2>2 DEF AddAppend, Done, ListedUntilShut, Adding,
       Stopping, TypeOK, client
  <2> QED
    BY <2>2, <2>3, <2>4, <2>5, <2>6
<1> QED
  BY <1>1, <1>2, <1>3, <1>4

\* remove and delete: a member taken out of a list is shut down next.
LEMMA BringDownStep ==
  ASSUME IInv, NEW a \in Admins,
         \/ \E m \in Members : DeleteFind(a, m)
         \/ BdScan(a) \/ BdCheck(a) \/ BdRemove(a) \/ BdShutdown(a)
         \/ BdDrain(a)
  PROVE  IInv'
<1> USE ClusterAssumption DEF IInv
<1>1. ASSUME NEW m \in Members, DeleteFind(a, m) PROVE IInv'
  <2>1. ListInv' /\ Listed' = Listed /\ m \in Listed
    BY <1>1, ListsUnchanged DEF DeleteFind
  <2>2. TypeOK'
    BY <1>1, <2>1 DEF DeleteFind, TypeOK, AdminStates, lists, client, calls,
       ListInv
  <2>3. AdminInv'
    BY <1>1, <2>1 DEF DeleteFind, AdminInv, AddingStates, TypeOK
  <2>4. ListedStarted' /\ ListedUntilShut'
    BY <1>1, <2>1 DEF DeleteFind, ListedStarted, ListedUntilShut, Adding,
       Stopping, TypeOK, client
  <2> QED
    BY <2>1, <2>2, <2>3, <2>4
<1>2. CASE BdScan(a) \/ BdCheck(a)
  <2>1. ListInv' /\ Listed' = Listed
    BY <1>2, ListsUnchanged DEF BdScan, BdCheck
  <2>2. /\ apc[a] \in {"scan", "check"}
        /\ \E s \in {"check", "remove_active", "remove_pending", "drain"} :
             apc' = [apc EXCEPT ![a] = s]
        /\ UNCHANGED <<started, client, shut, status, watched, calls, target,
                       seen>>
    BY <1>2 DEF BdScan, BdCheck
  <2>3. TypeOK'
    BY <2>1, <2>2 DEF TypeOK, AdminStates, client, calls, ListInv
  <2>4. AdminInv'
    BY <2>1, <2>2 DEF AdminInv, AddingStates, TypeOK
  <2>5. ListedStarted' /\ ListedUntilShut'
    BY <2>1, <2>2 DEF ListedStarted, ListedUntilShut, Adding, Stopping,
       TypeOK, client
  <2> QED
    BY <2>1, <2>3, <2>4, <2>5
<1>3. CASE BdRemove(a)
  <2>1. target[a] \in Members
    BY <1>3 DEF BdRemove, AdminInv
  <2>2. /\ ListInv' /\ Listed' \subseteq Listed
        /\ Listed \ {target[a]} \subseteq Listed'
    BY <1>3, <2>1, RemoveLists DEF BdRemove
  <2>3. TypeOK'
    BY <1>3, <2>2 DEF BdRemove, TypeOK, AdminStates, client, calls, ListInv
  <2>4. AdminInv'
    BY <1>3, <2>2 DEF BdRemove, AdminInv, AddingStates, TypeOK
  <2>5. ListedStarted'
    BY <1>3, <2>2 DEF BdRemove, ListedStarted
  <2>6. ListedUntilShut'
    BY <1>3, <2>1, <2>2 DEF BdRemove, ListedUntilShut, Adding, Stopping,
       TypeOK, client
  <2> QED
    BY <2>2, <2>3, <2>4, <2>5, <2>6
<1>4. CASE BdShutdown(a)
  <2>1. ListInv' /\ Listed' = Listed
    BY <1>4, ListsUnchanged DEF BdShutdown
  <2>2. target[a] \in Members
    BY <1>4 DEF BdShutdown, AdminInv
  <2>3. TypeOK'
    BY <1>4, <2>1 DEF BdShutdown, Done, TypeOK, AdminStates, lists, client,
       calls, ListInv
  <2>4. AdminInv'
    BY <1>4, <2>1 DEF BdShutdown, Done, AdminInv, AddingStates, TypeOK
  <2>5. ListedStarted'
    BY <1>4, <2>1 DEF BdShutdown, ListedStarted
  <2>6. ListedUntilShut'
    BY <1>4, <2>1, <2>2 DEF BdShutdown, Done, ListedUntilShut, Adding,
       Stopping, TypeOK, client
  <2> QED
    BY <2>1, <2>3, <2>4, <2>5, <2>6
<1>5. CASE BdDrain(a)
  <2>1. ListInv' /\ Listed' = Listed
    BY <1>5, ListsUnchanged DEF BdDrain
  <2>2. target[a] \in Members
    BY <1>5 DEF BdDrain, AdminInv
  <2>3. TypeOK'
    BY <1>5, <2>1 DEF BdDrain, Done, TypeOK, AdminStates, Statuses, lists,
       client, calls, ListInv
  <2>4. AdminInv'
    BY <1>5, <2>1 DEF BdDrain, Done, AdminInv, AddingStates, TypeOK
  <2>5. ListedStarted'
    BY <1>5, <2>1 DEF BdDrain, ListedStarted
  <2>6. ListedUntilShut'
    BY <1>5, <2>1 DEF BdDrain, Done, ListedUntilShut, Adding, Stopping,
       TypeOK, client
  <2> QED
    BY <2>1, <2>3, <2>4, <2>5, <2>6
<1> QED
  BY <1>1, <1>2, <1>3, <1>4, <1>5

\* A step that touches neither the lists nor who runs or refers to a member.
LEMMA OtherStep ==
  ASSUME IInv, TypeOK', UNCHANGED <<lists, started, client, shut, admin>>
  PROVE  IInv'
<1> USE DEF IInv
<1>1. ListInv' /\ Listed' = Listed
  BY ListsUnchanged
<1>2. AdminInv' /\ ListedStarted' /\ ListedUntilShut'
  BY <1>1 DEF AdminInv, AddingStates, ListedStarted, ListedUntilShut, Adding,
     Stopping, client, admin
<1> QED
  BY <1>1, <1>2

\* pause and resume change a status only.
LEMMA StatusStep ==
  ASSUME IInv, NEW a \in Admins, NEW m \in Members, Pause(a, m) \/ Resume(a, m)
  PROVE  IInv'
<1>1. TypeOK'
  BY DEF IInv, Pause, Resume, SetStatus, TypeOK, Statuses, lists, client,
     calls, admin
<1> QED
  BY <1>1, OtherStep DEF Pause, Resume, SetStatus

\* The commands and the aging timer change call maps and sessions only.
LEMMA CallStep ==
  ASSUME IInv, NEW m \in Members, CallNext(m)
  PROVE  IInv'
<1> USE DEF IInv
<1>1. UNCHANGED <<lists, started, client, shut, status, watched, admin>>
  BY DEF CallNext, StartSession, TouchSession, EndSession, Expire, Age,
     BookUnchanged
<1>2. book' \in [Members -> Book] /\ live' \in [Members -> SUBSET Calls]
  <2>1. book[m] \in Book /\ live[m] \in SUBSET Calls
    BY DEF TypeOK
  <2>2. ASSUME NEW c \in Calls, StartSession(m, c)
        PROVE  book' \in [Members -> Book] /\ live' \in [Members -> SUBSET Calls]
    BY <2>1, <2>2, BookOps DEF StartSession, TypeOK
  <2>3. ASSUME NEW c \in Calls, TouchSession(m, c)
        PROVE  book' \in [Members -> Book] /\ live' \in [Members -> SUBSET Calls]
    BY <2>1, <2>3, BookOps DEF TouchSession, TypeOK
  <2>4. ASSUME NEW c \in Calls, EndSession(m, c)
        PROVE  book' \in [Members -> Book] /\ live' \in [Members -> SUBSET Calls]
    <3>1. unbind_session(isYours(book[m], c), c) \in Book
      BY <2>1, BookOps
    <3> QED
      BY <2>1, <2>4, <3>1 DEF EndSession, TypeOK
  <2>5. ASSUME NEW c \in Calls, Expire(m, c)
        PROVE  book' \in [Members -> Book] /\ live' \in [Members -> SUBSET Calls]
    BY <2>1, <2>5 DEF Expire, TypeOK
  <2>6. CASE Age(m)
    <3>1. call_id_map_aging(book[m]) \in Book
      BY <2>1 DEF Book, call_id_map_aging
    <3> QED
      BY <2>1, <2>6, <3>1 DEF Age, TypeOK
  <2> QED
    BY <2>2, <2>3, <2>4, <2>5, <2>6 DEF CallNext
<1>3. TypeOK'
  BY <1>1, <1>2 DEF TypeOK, lists, client, admin
<1> QED
  BY <1>1, <1>3, OtherStep

-----------------------------------------------------------------------------
\* The inductive invariant of the lists, the additions and the removals.
THEOREM Invariance == Spec => []IInv
<1>1. IInv /\ [Next]_vars => IInv'
  <2> SUFFICES ASSUME IInv, [Next]_vars PROVE IInv'
    OBVIOUS
  <2>1. CASE UNCHANGED vars
    <3>1. TypeOK'
      BY <2>1 DEF IInv, vars, lists, client, calls, admin, TypeOK
    <3> QED
      BY <2>1, <3>1, OtherStep DEF vars
  <2>2. ASSUME NEW m \in Members, ClientNext(m) \/ CallNext(m) PROVE IInv'
    BY <2>2, ClientStep, CallStep
  <2>3. ASSUME NEW a \in Admins, AdminNext(a) PROVE IInv'
    BY <2>3, AddStep, BringDownStep, StatusStep DEF AdminNext, CommandGoesOn
  <2> QED
    BY <2>1, <2>2, <2>3 DEF Next
<1> QED
  BY InitIInv, <1>1, PTL DEF Spec

\* The type invariant of the cluster and its members.
THEOREM TypeCorrect == Spec => []TypeOK
BY Invariance, PTL DEF IInv

\* A member is in at most one list, at most once.
THEOREM NoMemberListedTwice == Spec => []NoDoubleListing
BY Invariance, PTL DEF IInv, ListInv

\* A member whose client runs is listed, or being added or removed.
THEOREM RunningMembersAreListed == Spec => []ListedUntilShut
BY Invariance, PTL DEF IInv

-----------------------------------------------------------------------------
\* No method on the call maps forgets a call that is in call_id_map.
LEMMA BookKeeps ==
  ASSUME NEW b \in Book, NEW c \in Calls, NEW d \in b.call_id_map
  PROVE  /\ Knows(isYours(b, c), d)
         /\ Knows(bind_session(b, c, "U"), d)
         /\ Knows(unbind_session(b, c), d)
         /\ Knows(unbind_session(isYours(b, c), c), d)
         /\ Knows(call_id_map_aging(b), d)
BY DEF Book, Knows, isYours, bind_session, unbind_session, call_id_map_aging

\* A call that a command was routed by survives the next aging, with any
\* number of calls.
THEOREM RoutedCallsSurvive == Spec => RoutedCallsAgeTwice
<1> DEFINE A == \A m \in Members : \A c \in book[m].call_id_map :
                   Knows(book'[m], c)
<1>1. TypeOK /\ [Next]_vars => [A]_vars
  <2> SUFFICES ASSUME TypeOK, Next, NEW m \in Members,
                      NEW d \in book[m].call_id_map
               PROVE  Knows(book'[m], d)
    BY DEF vars
  <2>1. book[m] \in Book /\ Knows(book[m], d)
    BY DEF TypeOK, Knows
  <2>2. CASE UNCHANGED book
    BY <2>1, <2>2
  <2>3. ASSUME NEW x \in Members, CallNext(x) PROVE Knows(book'[m], d)
    <3>1. CASE book'[m] = book[m]
      BY <2>1, <3>1
    <3>2. CASE \E c \in Calls : \/ StartSession(m, c) \/ TouchSession(m, c)
                                \/ EndSession(m, c)
      BY <2>1, <3>2, BookKeeps
         DEF StartSession, TouchSession, EndSession, TypeOK
    <3>3. CASE Age(m)
      <4>1. Knows(call_id_map_aging(book[m]), d)
        BY <2>1 DEF Book, Knows, call_id_map_aging
      <4> QED
        BY <3>3, <4>1 DEF Age, TypeOK
    <3> QED
      BY <2>3, <3>1, <3>2, <3>3
         DEF CallNext, StartSession, TouchSession, EndSession, Expire, Age,
             TypeOK
  <2>4. ASSUME NEW x \in Members, ClientNext(x) PROVE UNCHANGED book
    BY <2>4 DEF ClientNext, GoOnline, OnlineReported, GoOffline,
       OfflineMarked, UpdateActive, rtpp_active_change, DrainedShutdown, calls
  <2>5. ASSUME NEW a \in Admins, AdminNext(a) PROVE UNCHANGED book
    BY <2>5 DEF AdminNext, CommandGoesOn, AddFind, AddStart, AddCheck,
       AddAppend, DeleteFind, BdScan, BdCheck, BdRemove, BdShutdown, BdDrain,
       Pause, Resume, SetStatus, calls
  <2> QED
    BY <2>2, <2>3, <2>4, <2>5 DEF Next
<1> QED
  BY TypeCorrect, <1>1, PTL DEF Spec, RoutedCallsAgeTwice

-----------------------------------------------------------------------------
(* Where a member is listed.                                               *)

\* What each operation does to the members of the two lists.
LEMMA Places ==
  ASSUME ListInv, NEW m \in Members
  PROVE  /\ append_pending(m) /\ m \notin Listed =>
              /\ ToSet(active') = ToSet(active)
              /\ ToSet(pending') = ToSet(pending) \cup {m}
         /\ move_to_active(m) =>
              /\ ToSet(active') = ToSet(active) \cup (ToSet(pending) \cap {m})
              /\ ToSet(pending') = ToSet(pending) \ {m}
         /\ move_to_pending(m) =>
              /\ ToSet(active') = ToSet(active) \ {m}
              /\ ToSet(pending') = ToSet(pending) \cup (ToSet(active) \cap {m})
         /\ remove_active(m) =>
              /\ ToSet(active') = ToSet(active) \ {m}
              /\ ToSet(pending') = ToSet(pending)
         /\ remove_pending(m) =>
              /\ ToSet(active') = ToSet(active)
              /\ ToSet(pending') = ToSet(pending) \ {m}
<1> USE DEF ListInv, NoDoubleListing, Listed
<1>1. /\ ToSet(RemoveFirst(active, m)) = ToSet(active) \ {m}
      /\ ToSet(RemoveFirst(pending, m)) = ToSet(pending) \ {m}
  BY RemoveFirstInjective
<1>2. /\ m \notin ToSet(active) => ToSet(Append(active, m)) = ToSet(active) \cup {m}
      /\ m \notin ToSet(pending) => ToSet(Append(pending, m)) = ToSet(pending) \cup {m}
  BY AppendInjective2
<1>3. append_pending(m) /\ m \notin Listed =>
        /\ ToSet(active') = ToSet(active)
        /\ ToSet(pending') = ToSet(pending) \cup {m}
  BY <1>2 DEF append_pending
<1>4. move_to_active(m) =>
        /\ ToSet(active') = ToSet(active) \cup (ToSet(pending) \cap {m})
        /\ ToSet(pending') = ToSet(pending) \ {m}
  BY <1>1, <1>2 DEF move_to_active, lists
<1>5. move_to_pending(m) =>
        /\ ToSet(active') = ToSet(active) \ {m}
        /\ ToSet(pending') = ToSet(pending) \cup (ToSet(active) \cap {m})
  BY <1>1, <1>2 DEF move_to_pending, lists
<1>6. /\ remove_active(m) => /\ ToSet(active') = ToSet(active) \ {m}
                             /\ ToSet(pending') = ToSet(pending)
      /\ remove_pending(m) => /\ ToSet(active') = ToSet(active)
                              /\ ToSet(pending') = ToSet(pending) \ {m}
  BY <1>1 DEF remove_active, remove_pending
<1> QED
  BY <1>3, <1>4, <1>5, <1>6

\* A member that is being added has not been heard of, if the first answer of
\* its RTPproxy comes after add_member.
QuietInv ==
  /\ \A m \in Members :
       ~started[m] \/ Adding(m) => ~online[m] /\ mpc[m] = "idle"
  /\ \A a \in Admins : apc[a] = "append" => ~seen[a]

\* Where a member is listed while its client is at each of its places: a move
\* is still to come after GoOnline, and is over before the base client is
\* marked offline.
Placed(m) ==
  /\ mpc[m] \in {"idle", "change"} => (m \in ToSet(active) <=> online[m])
  /\ mpc[m] = "up" => m \in ToSet(pending) /\ online[m]
  /\ mpc[m] = "down" => m \in ToSet(pending)
  /\ mpc[m] # "stop"

PlacedInv == \A m \in Listed : ~shut[m] => Placed(m)

\* A step of the client of m, or an append or removal of m, leaves the other
\* members where they are.
LEMMA OthersPlaced ==
  ASSUME IInv, PlacedInv, IInv', NEW m \in Members,
         \A x \in Members \ {m} :
           /\ x \in ToSet(active') <=> x \in ToSet(active)
           /\ x \in ToSet(pending') <=> x \in ToSet(pending)
           /\ online'[x] = online[x] /\ mpc'[x] = mpc[x] /\ shut'[x] = shut[x],
         m \in Listed' /\ ~shut'[m] => Placed(m)'
  PROVE  PlacedInv'
<1> SUFFICES ASSUME NEW x \in Listed', ~shut'[x] PROVE Placed(x)'
  BY DEF PlacedInv
<1>1. x \in Members
  BY LenProperties DEF IInv, ListInv, Listed, ToSet
<1>2. CASE x = m
  BY <1>2 DEF Placed
<1>3. CASE x # m
  <2>1. x \in Listed /\ ~shut[x]
    BY <1>1, <1>3 DEF Listed
  <2>2. Placed(x)
    BY <2>1 DEF PlacedInv
  <2> QED
    BY <1>1, <1>3, <2>2 DEF Placed
<1> QED
  BY <1>2, <1>3

\* The first steps of an addition make a member one that is being added; no
\* other step does.
LEMMA AddingGrows ==
  ASSUME IInv, Next, NEW m \in Members
  PROVE  /\ started[m] => started'[m]
         /\ ~started'[m] \/ Adding(m)' => ~started[m] \/ Adding(m)
<1>1. CASE UNCHANGED <<started, admin>>
  BY <1>1 DEF admin, Adding
<1>2. ASSUME NEW a \in Admins, ~ UNCHANGED <<started, admin>>, AdminNext(a)
      PROVE  /\ started[m] => started'[m]
             /\ ~started'[m] \/ Adding(m)' => ~started[m] \/ Adding(m)
  <2>1. CASE AddStart(a)
    <3>1. target[a] \in Members /\ ~started[target[a]]
      BY <2>1 DEF AddStart, IInv, AdminInv
    <3> QED
      BY <2>1, <3>1 DEF AddStart, Adding, IInv, TypeOK
  <2>2. CASE AddCheck(a)
    BY <2>2 DEF AddCheck, Adding, IInv, TypeOK
  <2>3. CASE AddAppend(a)
    BY <2>3 DEF AddAppend, Done, Adding, IInv, TypeOK
  <2>4. CASE \E x \in Members : AddFind(a, x) \/ DeleteFind(a, x)
    BY <2>4 DEF AddFind, DeleteFind, Adding, IInv, TypeOK
  <2>5. CASE BdScan(a) \/ BdCheck(a) \/ BdRemove(a)
    BY <2>5 DEF BdScan, BdCheck, BdRemove, Adding, IInv, TypeOK
  <2>6. CASE BdShutdown(a) \/ BdDrain(a)
    BY <2>6 DEF BdShutdown, BdDrain, Done, Adding, IInv, TypeOK
  <2>7. CASE \E x \in Members : Pause(a, x) \/ Resume(a, x)
    BY <1>2, <2>7 DEF Pause, Resume, SetStatus
  <2> QED
    BY <1>2, <2>1, <2>2, <2>3, <2>4, <2>5, <2>6, <2>7
       DEF AdminNext, CommandGoesOn
<1>3. ASSUME NEW x \in Members, ClientNext(x) \/ CallNext(x)
      PROVE  UNCHANGED <<started, admin>>
  BY <1>3 DEF ClientNext, GoOnline, OnlineReported, GoOffline, OfflineMarked,
     UpdateActive, rtpp_active_change, DrainedShutdown, CallNext,
     StartSession, TouchSession, EndSession, Expire, Age, BookUnchanged
<1> QED
  BY <1>1, <1>2, <1>3 DEF Next

\* Only the client of a member that was heard of makes a step.
LEMMA QuietStep ==
  ASSUME StartIsSlow, IInv, QuietInv, Next
  PROVE  QuietInv'
<1>1. ASSUME NEW x \in Members, ClientNext(x)
      PROVE  QuietInv'
  <2>1. /\ UNCHANGED <<started, admin>>
        /\ \A m \in Members \ {x} : online'[m] = online[m] /\ mpc'[m] = mpc[m]
    BY <1>1 DEF ClientNext, GoOnline, OnlineReported, GoOffline,
       OfflineMarked, UpdateActive, rtpp_active_change, DrainedShutdown,
       IInv, TypeOK
  <2>2. started[x] /\ ~Adding(x)
    <3>1. CASE mpc[x] = "idle"
      BY <1>1, <3>1 DEF ClientNext, GoOnline, OnlineReported, GoOffline,
         OfflineMarked, UpdateActive, rtpp_active_change, DrainedShutdown,
         Running
    <3> QED
      BY <3>1 DEF QuietInv
  <2> QED
    BY <2>1, <2>2 DEF QuietInv, Adding, admin
<1>2. ASSUME NEW x \in Members, CallNext(x)
      PROVE  QuietInv'
  <2>1. UNCHANGED <<started, client, admin>>
    BY <1>2 DEF CallNext, StartSession, TouchSession, EndSession, Expire,
       Age, BookUnchanged
  <2> QED
    BY <2>1 DEF QuietInv, Adding, client, admin
<1>3. ASSUME NEW a \in Admins, AdminNext(a)
      PROVE  QuietInv'
  <2>1. UNCHANGED client
    BY <1>3 DEF AdminNext, CommandGoesOn, AddFind, AddStart, AddCheck,
       AddAppend, DeleteFind, BdScan, BdCheck, BdRemove, BdShutdown, BdDrain,
       Pause, Resume, SetStatus
  <2>2. \A m \in Members :
          ~started'[m] \/ Adding(m)' => ~online'[m] /\ mpc'[m] = "idle"
    BY <2>1, AddingGrows DEF QuietInv, client
  <2>3. \A b \in Admins : apc'[b] = "append" => ~seen'[b]
    <3>1. CASE AddCheck(a)
      <4>1. target[a] \in Members /\ Adding(target[a])
        BY <3>1 DEF AddCheck, IInv, AdminInv, Adding
      <4>2. ~online[target[a]]
        BY <4>1 DEF QuietInv
      <4> QED
        BY <3>1, <4>2 DEF AddCheck, QuietInv, IInv, TypeOK
    <3>2. ASSUME ~AddCheck(a)
          PROVE  \A b \in Admins :
                   apc'[b] = "append" => apc[b] = "append" /\ seen'[b] = seen[b]
      <4>1. CASE AddAppend(a) \/ BdShutdown(a) \/ BdDrain(a)
        BY <4>1 DEF AddAppend, BdShutdown, BdDrain, Done, IInv, TypeOK
      <4>2. CASE \/ AddStart(a) \/ BdScan(a) \/ BdCheck(a) \/ BdRemove(a)
                 \/ \E x \in Members : AddFind(a, x) \/ DeleteFind(a, x)
        BY <4>2 DEF AddStart, BdScan, BdCheck, BdRemove, AddFind, DeleteFind,
           IInv, TypeOK
      <4>3. CASE \E x \in Members : Pause(a, x) \/ Resume(a, x)
        BY <4>3 DEF Pause, Resume, SetStatus, admin
      <4> QED
        BY <1>3, <3>2, <4>1, <4>2, <4>3 DEF AdminNext, CommandGoesOn
    <3> QED
      BY <3>1, <3>2 DEF QuietInv
  <2> QED
    BY <2>2, <2>3 DEF QuietInv
<1> QED
  BY <1>1, <1>2, <1>3 DEF Next

\* A client moves its member to the list its availability calls for.
LEMMA ClientPlaces ==
  ASSUME IInv, PlacedInv, IInv', NEW m \in Members, ClientNext(m)
  PROVE  PlacedInv'
<1> USE DEF IInv
<1>1. ToSet(active) \cap ToSet(pending) = {}
  BY DEF ListInv, NoDoubleListing
<1>2. m \in Listed /\ ~shut[m] => Placed(m)
  BY DEF PlacedInv
<1>3. CASE GoOnline(m)
  <2>1. m \in Listed' /\ ~shut'[m] => Placed(m)'
    BY <1>1, <1>2, <1>3 DEF GoOnline, Running, Placed, Listed, lists, TypeOK
  <2> QED
    BY <1>3, <2>1, OthersPlaced DEF GoOnline, lists, TypeOK
<1>4. CASE OnlineReported(m)
  <2>1. /\ ToSet(active') = ToSet(active) \cup (ToSet(pending) \cap {m})
        /\ ToSet(pending') = ToSet(pending) \ {m}
    BY <1>4, Places DEF OnlineReported
  <2>2. m \in Listed' /\ ~shut'[m] => Placed(m)'
    BY <1>1, <1>2, <1>4, <2>1 DEF OnlineReported, Placed, Listed, TypeOK
  <2> QED
    BY <1>4, <2>1, <2>2, OthersPlaced DEF OnlineReported, TypeOK
<1>5. CASE GoOffline(m)
  <2>1. /\ ToSet(active') = ToSet(active) \ {m}
        /\ ToSet(pending') = ToSet(pending) \cup (ToSet(active) \cap {m})
    BY <1>5, Places DEF GoOffline
  <2>2. m \in Listed' /\ ~shut'[m] => Placed(m)'
    BY <1>1, <1>2, <1>5, <2>1 DEF GoOffline, Running, Placed, Listed, TypeOK
  <2> QED
    BY <1>5, <2>1, <2>2, OthersPlaced DEF GoOffline, TypeOK
<1>6. CASE OfflineMarked(m)
  <2>1. m \in Listed' /\ ~shut'[m] => Placed(m)'
    BY <1>1, <1>2, <1>6 DEF OfflineMarked, Placed, Listed, lists, TypeOK
  <2> QED
    BY <1>6, <2>1, OthersPlaced DEF OfflineMarked, lists, TypeOK
<1>7. CASE UpdateActive(m)
  <2>1. m \in Listed' /\ ~shut'[m] => Placed(m)'
    BY <1>1, <1>2, <1>7 DEF UpdateActive, Running, Placed, Listed, lists, TypeOK
  <2> QED
    BY <1>7, <2>1, OthersPlaced DEF UpdateActive, lists, TypeOK
<1>8. CASE rtpp_active_change(m)
  <2>1. CASE /\ mpc' = [mpc EXCEPT ![m] = "stop"]
             /\ IF m \in ToSet(pending) THEN remove_pending(m)
                                        ELSE remove_active(m)
    <3>1. /\ ToSet(active') = ToSet(active) \ {m}
          /\ ToSet(pending') = ToSet(pending) \ {m}
      BY <1>1, <2>1, Places
    <3> QED
      BY <1>8, <3>1, OthersPlaced DEF rtpp_active_change, Listed, TypeOK
  <2>2. CASE mpc' = [mpc EXCEPT ![m] = "idle"] /\ UNCHANGED lists
    <3>1. m \in Listed' /\ ~shut'[m] => Placed(m)'
      BY <1>2, <1>8, <2>2 DEF rtpp_active_change, Placed, Listed, lists, TypeOK
    <3> QED
      BY <1>8, <2>2, <3>1, OthersPlaced DEF rtpp_active_change, lists, TypeOK
  <2> QED
    BY <1>8, <2>1, <2>2 DEF rtpp_active_change
<1>9. CASE DrainedShutdown(m)
  <2>1. shut'[m]
    BY <1>9 DEF DrainedShutdown, TypeOK
  <2> QED
    BY <1>9, <2>1, OthersPlaced DEF DrainedShutdown, lists, TypeOK
<1> QED
  BY <1>3, <1>4, <1>5, <1>6, <1>7, <1>8, <1>9 DEF ClientNext

\* Steps that touch neither a list nor a client move nobody.
LEMMA NobodyMoves ==
  ASSUME PlacedInv, UNCHANGED <<lists, client>>,
         \A m \in Listed : shut[m] => shut'[m]
  PROVE  PlacedInv'
BY DEF PlacedInv, Placed, Listed, lists, client

\* An administrator appends a member to pending, as it was not heard of, and
\* otherwise only takes members out.
LEMMA AdminPlaces ==
  ASSUME IInv, QuietInv, PlacedInv, IInv', NEW a \in Admins, AdminNext(a)
  PROVE  PlacedInv'
<1> USE DEF IInv
<1>0. Listed \subseteq Members
  BY LenProperties DEF ListInv, Listed, ToSet
<1>1. CASE AddAppend(a)
  <2>1. PICK m \in Members : m = target[a]
    BY <1>1 DEF AddAppend, AdminInv
  <2>2. m \notin Listed /\ Adding(m)
    BY <1>1, <2>1 DEF AddAppend, AdminInv, AddingStates, Adding
  <2>3. ~seen[a] /\ ~online[m] /\ mpc[m] = "idle"
    BY <1>1, <2>2 DEF AddAppend, QuietInv
  <2>4. append_pending(m)
    BY <1>1, <2>1, <2>3 DEF AddAppend
  <2>5. /\ ToSet(active') = ToSet(active)
        /\ ToSet(pending') = ToSet(pending) \cup {m}
    BY <2>2, <2>4, Places
  <2>6. m \in Listed' /\ ~shut'[m] => Placed(m)'
    BY <1>1, <2>2, <2>3, <2>5 DEF AddAppend, client, Placed, Listed
  <2> QED
    BY <1>1, <2>5, <2>6, OthersPlaced DEF AddAppend, client
<1>2. CASE BdRemove(a)
  <2>1. target[a] \in Members
    BY <1>2 DEF BdRemove, AdminInv
  <2>2. /\ ToSet(active') \in {ToSet(active), ToSet(active) \ {target[a]}}
        /\ ToSet(pending') \in {ToSet(pending), ToSet(pending) \ {target[a]}}
        /\ UNCHANGED <<client, shut>>
    BY <1>2, <2>1, Places DEF BdRemove
  <2>3. /\ ToSet(active) \cap ToSet(pending) = {}
        /\ ToSet(active') \subseteq ToSet(active)
        /\ ToSet(pending') \subseteq ToSet(pending)
    BY <2>2 DEF ListInv, NoDoubleListing
  <2>4. ASSUME NEW x \in Listed', ~shut'[x] PROVE Placed(x)'
    <3>1. x \in Listed /\ Placed(x)
      BY <2>2, <2>3, <2>4 DEF Listed, PlacedInv
    <3>2. /\ x \in ToSet(active') <=> x \in ToSet(active)
          /\ x \in ToSet(pending') <=> x \in ToSet(pending)
      BY <2>3 DEF Listed
    <3> QED
      BY <2>2, <3>1, <3>2 DEF Placed, client
  <2> QED
    BY <2>4 DEF PlacedInv
<1>3. CASE BdShutdown(a)
  <2>1. target[a] \in Members
    BY <1>3 DEF BdShutdown, AdminInv
  <2> QED
    BY <1>0, <1>3, <2>1, NobodyMoves DEF BdShutdown, TypeOK
<1>4. CASE \/ AddStart(a) \/ AddCheck(a) \/ BdScan(a) \/ BdCheck(a) \/ BdDrain(a)
           \/ \E m \in Members : \/ AddFind(a, m) \/ DeleteFind(a, m)
                                 \/ Pause(a, m) \/ Resume(a, m)
  <2>1. UNCHANGED <<lists, client, shut>>
    BY <1>4 DEF AddStart, AddCheck, BdScan, BdCheck, BdDrain, AddFind,
       DeleteFind, Pause, Resume, SetStatus
  <2> QED
    BY <2>1, NobodyMoves
<1> QED
  BY <1>1, <1>2, <1>3, <1>4 DEF AdminNext, CommandGoesOn

\* Between two callbacks of its client, a listed member is in the list its
\* availability calls for, if the first answer of a new member's RTPproxy
\* comes after add_member has listed it.  (Otherwise it does not hold: the
\* member may be heard of between IsOnline() and the append.)
THEOREM ListsMatchAvailability ==
  ASSUME StartIsSlow
  PROVE  Spec => []ListMatchesOnline
<1>1. Init => QuietInv /\ PlacedInv
  <2> SUFFICES ASSUME Init PROVE QuietInv /\ PlacedInv
    OBVIOUS
  <2>1. Listed = {}
    BY EmptySeq DEF Init, Listed, ToSet
  <2> QED
    BY <2>1 DEF Init, QuietInv, PlacedInv, Adding
<1>2. IInv /\ QuietInv /\ PlacedInv /\ IInv' /\ [Next]_vars
        => (QuietInv /\ PlacedInv)'
  <2> SUFFICES ASSUME IInv, QuietInv, PlacedInv, IInv', [Next]_vars
               PROVE  QuietInv' /\ PlacedInv'
    OBVIOUS
  <2>1. CASE UNCHANGED vars
    <3>1. QuietInv'
      BY <2>1 DEF vars, client, admin, QuietInv, Adding
    <3> QED
      BY <2>1, <3>1, NobodyMoves DEF vars
  <2>2. CASE Next
    <3>1. ASSUME NEW m \in Members, CallNext(m) PROVE PlacedInv'
      <4>1. UNCHANGED <<lists, client, shut>>
        BY <3>1 DEF CallNext, StartSession, TouchSession, EndSession, Expire,
           Age, BookUnchanged
      <4> QED
        BY <4>1, NobodyMoves
    <3> QED
      BY <2>2, <3>1, QuietStep, ClientPlaces, AdminPlaces DEF Next
  <2> QED
    BY <2>1, <2>2
<1>3. PlacedInv => ListMatchesOnline
  BY DEF PlacedInv, Placed, ListMatchesOnline
<1> QED
  BY <1>1, <1>2, <1>3, Invariance, PTL DEF Spec

-----------------------------------------------------------------------------
(* The names.                                                              *)

\* A look-up that finds no member says that none has the name.
LEMMA NobodyNamed ==
  ASSUME ListInv, NEW n, rtpp_by_name(n) = NoMember, NEW m \in Listed
  PROVE  NameOf[m] # n
<1> DEFINE s == active \o pending
           hits == {i \in DOMAIN s : s[i] \in Named(n)}
<1>1. /\ s \in Seq(Members) /\ DOMAIN s = 1 .. Len(active) + Len(pending)
      /\ \A i \in DOMAIN active : s[i] = active[i]
      /\ \A i \in DOMAIN pending : s[Len(active) + i] = pending[i]
  BY ConcatProperties, LenProperties DEF ListInv
<1>2. m \in Members /\ \E i \in DOMAIN s : s[i] = m
  <2>1. CASE m \in ToSet(active)
    <3>1. PICK i \in DOMAIN active : m = active[i]
      BY <2>1 DEF ToSet
    <3>2. i \in DOMAIN s
      BY <1>1, LenProperties DEF ListInv
    <3> QED
      BY <1>1, <3>1, <3>2, LenProperties DEF ListInv
  <2>2. CASE m \in ToSet(pending)
    <3>1. PICK i \in DOMAIN pending : m = pending[i]
      BY <2>2 DEF ToSet
    <3>2. Len(active) + i \in DOMAIN s
      BY <1>1, LenProperties DEF ListInv
    <3> QED
      BY <1>1, <3>1, <3>2, LenProperties DEF ListInv
  <2> QED
    BY <2>1, <2>2 DEF Listed
<1>3. \A S : FirstOf(s, S) = NoMember => ~ \E i \in DOMAIN s : s[i] \in S
  <2> SUFFICES ASSUME NEW S, \E i \in DOMAIN s : s[i] \in S
               PROVE  FirstOf(s, S) # NoMember
    OBVIOUS
  <2> DEFINE h == {i \in DOMAIN s : s[i] \in S}
  <2>1. h # {} /\ h \in SUBSET Nat
    BY <1>1, LenProperties DEF ListInv
  <2>2. Min(h) \in h
    BY <2>1, LeastNumber
  <2>3. s[Min(h)] \in Members
    <3> HIDE DEF s
    <3> QED
      BY <1>1, <2>2
  <2> QED
    BY <2>1, <2>3, ClusterAssumption DEF FirstOf
<1>4. m \notin Named(n)
  BY <1>2, <1>3 DEF rtpp_by_name
<1> QED
  BY <1>2, <1>4 DEF Named

\* With one administrator: the name of a member that is being added is free.
OneAdmin == \A a, b \in Admins : a = b

NameFree ==
  \A a \in Admins : apc[a] \in AddingStates =>
    \A m \in Listed : NameOf[m] # NameOf[target[a]]

\* Members are listed by AddAppend only.
LEMMA ListedGrows ==
  ASSUME IInv, Next
  PROVE  \/ Listed' \subseteq Listed
         \/ \E a \in Admins : AddAppend(a) /\ Listed' = Listed \cup {target[a]}
<1> USE DEF IInv
<1>1. CASE UNCHANGED lists
  BY <1>1 DEF lists, Listed
<1>2. ASSUME NEW a \in Admins, AdminNext(a), ~ UNCHANGED lists
      PROVE  \/ Listed' \subseteq Listed
             \/ AddAppend(a) /\ Listed' = Listed \cup {target[a]}
  <2>1. CASE AddAppend(a)
    <3>1. target[a] \in Members /\ target[a] \notin Listed
      BY <2>1 DEF AddAppend, AdminInv, AddingStates
    <3> QED
      BY <2>1, <3>1, AppendLists DEF AddAppend
  <2>2. CASE BdRemove(a)
    <3>1. target[a] \in Members
      BY <2>2 DEF BdRemove, AdminInv
    <3> QED
      BY <2>2, <3>1, RemoveLists DEF BdRemove
  <2> QED
    BY <1>2, <2>1, <2>2 DEF AdminNext, CommandGoesOn, AddFind, AddStart,
       AddCheck, DeleteFind, BdScan, BdCheck, BdShutdown, BdDrain, Pause,
       Resume, SetStatus
<1>3. ASSUME NEW m \in Members, ClientNext(m)
      PROVE  Listed' \subseteq Listed
  <2>1. \/ UNCHANGED lists \/ move_to_active(m) \/ move_to_pending(m)
        \/ remove_active(m) \/ remove_pending(m)
    BY <1>3 DEF ClientNext, GoOnline, OnlineReported, GoOffline,
       OfflineMarked, UpdateActive, rtpp_active_change, DrainedShutdown
  <2> QED
    BY <2>1, MoveLists, RemoveLists DEF lists, Listed
<1>4. ASSUME NEW m \in Members, CallNext(m)
      PROVE  UNCHANGED lists
  BY <1>4 DEF CallNext, StartSession, TouchSession, EndSession, Expire, Age,
     BookUnchanged
<1> QED
  BY <1>1, <1>2, <1>3, <1>4 DEF Next

\* With one administrator no two listed members ever share a name, whatever
\* the clients do meanwhile.  (Two administrators can add the same name at
\* once: each looks it up before the other appends.)
THEOREM NamesStayUnique ==
  ASSUME OneAdmin
  PROVE  Spec => []NamesUnique
<1>1. Init => NameFree /\ NamesUnique
  <2> SUFFICES ASSUME Init PROVE NameFree /\ NamesUnique
    OBVIOUS
  <2>1. Listed = {}
    BY EmptySeq DEF Init, Listed, ToSet
  <2> QED
    BY <2>1 DEF NameFree, NamesUnique
<1>2. IInv /\ NameFree /\ NamesUnique /\ [Next]_vars => (NameFree /\ NamesUnique)'
  <2> SUFFICES ASSUME IInv, NameFree, NamesUnique, [Next]_vars
               PROVE  NameFree' /\ NamesUnique'
    OBVIOUS
  <2>1. CASE UNCHANGED vars
    BY <2>1 DEF vars, lists, admin, Listed, NameFree, NamesUnique
  <2>2. CASE Next
    <3>1. NamesUnique'
      <4>1. CASE Listed' \subseteq Listed
        BY <4>1 DEF NamesUnique
      <4>2. ASSUME NEW a \in Admins, AddAppend(a),
                   Listed' = Listed \cup {target[a]}
            PROVE  NamesUnique'
        <5>1. \A m \in Listed : NameOf[m] # NameOf[target[a]]
          BY <4>2 DEF AddAppend, NameFree, AddingStates
        <5> QED
          BY <4>2, <5>1 DEF NamesUnique
      <4> QED
        BY <2>2, <4>1, <4>2, ListedGrows
    <3>2. ASSUME NEW a \in Admins, apc'[a] \in AddingStates,
                 NEW m \in Listed'
          PROVE  NameOf[m] # NameOf[target'[a]]
      <4>1. ASSUME NEW x \in Members, AddFind(a, x)
            PROVE  NameOf[m] # NameOf[target'[a]]
        <5>1. target'[a] = x /\ m \in Listed
          BY <3>2, <4>1 DEF AddFind, lists, Listed, IInv, TypeOK
        <5>2. rtpp_by_name(NameOf[x]) = NoMember
          BY <4>1 DEF AddFind
        <5> QED
          BY <5>1, <5>2, NobodyNamed DEF IInv
      <4>2. ASSUME apc[a] \in AddingStates, target'[a] = target[a], ~AddAppend(a)
            PROVE  NameOf[m] # NameOf[target'[a]]
        <5>1. m \in Listed
          BY <2>2, <4>2, ListedGrows DEF OneAdmin
        <5> QED
          BY <4>2, <5>1 DEF NameFree
      <4>3. CASE AddAppend(a)
        BY <3>2, <4>3 DEF AddAppend, Done, AddingStates, IInv, TypeOK
      <4>4. CASE UNCHANGED admin
        <5>1. ~AddAppend(a)
          BY <4>4 DEF AddAppend, Done, admin, IInv, TypeOK
        <5> QED
          BY <3>2, <4>2, <4>4, <5>1 DEF admin
      <4>5. ASSUME NEW b \in Admins, AdminNext(b), ~UNCHANGED admin,
                   ~AddAppend(a), ~ \E x \in Members : AddFind(a, x)
            PROVE  apc[a] \in AddingStates /\ target'[a] = target[a]
        <5>1. b = a
          BY DEF OneAdmin
        <5>2. CASE AddStart(a) \/ AddCheck(a)
          BY <5>2 DEF AddStart, AddCheck, AddingStates
        <5>3. CASE BdScan(a) \/ BdCheck(a) \/ BdRemove(a) \/ BdShutdown(a)
                   \/ BdDrain(a) \/ \E x \in Members : DeleteFind(a, x)
          BY <3>2, <5>3 DEF BdScan, BdCheck, BdRemove, BdShutdown, BdDrain,
             DeleteFind, Done, AddingStates, IInv, TypeOK
        <5> QED
          BY <4>5, <5>1, <5>2, <5>3
             DEF AdminNext, CommandGoesOn, Pause, Resume, SetStatus
      <4>6. ASSUME NEW x \in Members, ClientNext(x) \/ CallNext(x)
            PROVE  UNCHANGED admin
        BY <4>6 DEF ClientNext, GoOnline, OnlineReported, GoOffline,
           OfflineMarked, UpdateActive, rtpp_active_change, DrainedShutdown,
           CallNext, StartSession, TouchSession, EndSession, Expire, Age,
           BookUnchanged
      <4> QED
        BY <2>2, <4>1, <4>2, <4>3, <4>4, <4>5, <4>6 DEF Next
    <3> QED
      BY <3>1, <3>2 DEF NameFree
  <2> QED
    BY <2>1, <2>2
<1> QED
  BY <1>1, <1>2, Invariance, PTL DEF Spec
=============================================================================
