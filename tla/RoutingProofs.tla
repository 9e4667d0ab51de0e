--------------------------- MODULE RoutingProofs ---------------------------
(***************************************************************************)
(* Proofs about Routing, for any members, calls and handlers, any commands *)
(* and whatever happens to the members between two steps of a handler.     *)
(***************************************************************************)
EXTENDS Routing, ListLemmas, FiniteSetTheorems

\* Where nothing was sent to the member, and nothing was replied.
Before == {"scan_active", "scan_pending", "found", "deleted", "pick", "bind",
           "notify", "broadcast", "first"}

\* Until the command is sent nothing is replied, except that a deletion for an
\* offline member is, whose answer is then ignored.
Unanswered ==
  \A h \in Handlers :
    /\ hpc[h] \in Before => replies[h] = 0 /\ ~ ignore[h]
    /\ hpc[h] \in {"send", "sent"} =>
         \/ replies[h] = 0 /\ ~ ignore[h]
         \/ replies[h] = 1 /\ ignore[h]
    /\ replies[h] \in 0 .. 1
    /\ hpc[h] = "idle" => ~ ignore[h]
    /\ hpc[h] # "idle" => call[h] \in Calls

\* The lists are free of duplicates, and their members are as their list says.
ListInv ==
  /\ active \in Seq(Members) /\ pending \in Seq(Members)
  /\ IsInjective(active) /\ IsInjective(pending)
  /\ \A m \in ToSet(active) : online[m]
  /\ \A m \in ToSet(pending) : ~ online[m]

IInv == TypeOK /\ Unanswered /\ ListInv

-----------------------------------------------------------------------------

\* The methods on the call maps keep their type.
LEMMA BookOps ==
  ASSUME NEW b \in Book
  PROVE  /\ EmptyBook \in Book /\ call_id_map_aging(b) \in Book
         /\ \A c \in Calls : /\ isYours(b, c) \in Book
                             /\ bind_session(b, c, "U") \in Book
                             /\ unbind_session(b, c) \in Book
BY DEF Book, EmptyBook, isYours, bind_session, unbind_session, call_id_map_aging

\* The rest of a list is a list of members.
LEMMA TailOK ==
  ASSUME NEW s \in Seq(Members), s # <<>>
  PROVE  Head(s) \in Members /\ Tail(s) \in Seq(Members)
OBVIOUS

LEMMA InitInv == Init => IInv
<1> SUFFICES ASSUME Init PROVE IInv
  OBVIOUS
<1>1. Cardinality(Members) \in Nat
  BY MembersAssumption, FS_CardinalityType
<1>2. active \in Seq(Members) /\ IsInjective(active)
  <2>1. /\ active \in [1 .. Cardinality(Members) -> Members]
        /\ \A j, k \in 1 .. Cardinality(Members) : j # k => active[j] # active[k]
    BY DEF Init, SetToSeqs
  <2>2. active \in Seq(Members)
    BY <1>1, <2>1
  <2>3. IsInjective(active)
    BY <2>1 DEF IsInjective
  <2> QED
    BY <2>2, <2>3
<1>3. pending = <<>> /\ pending \in Seq(Members) /\ IsInjective(pending) /\ ToSet(pending) = {}
  BY EmptySeq DEF Init, IsInjective, ToSet
<1>4. ToSet(active) \subseteq Members
  BY <1>2, LenProperties DEF ToSet
<1>5. ListInv
  BY <1>2, <1>3, <1>4 DEF Init, ListInv
<1>6. EmptyBook \in Book
  BY DEF EmptyBook, Book
<1>7. TypeOK
  BY <1>2, <1>3, <1>6, EmptySeq DEF Init, TypeOK, Steps, HasMember
<1> QED
  BY <1>5, <1>7 DEF Init, IInv, Unanswered, Before

\* What the steps of a handler leave alone.
LEMMA KeepsLists ==
  ASSUME IInv, UNCHANGED members
  PROVE  ListInv' /\ active' = active /\ pending' = pending /\ online' = online /\ paused' = paused
BY DEF IInv, ListInv, members, lists

\* What the others do changes nothing of a handler.
LEMMA KeepsHandlers ==
  ASSUME IInv, UNCHANGED <<hpc, command, work>>
  PROVE  /\ Unanswered'
         /\ hpc' = hpc /\ type' = type /\ call' = call /\ todo' = todo
         /\ rtpp' = rtpp /\ ignore' = ignore /\ replies' = replies
BY DEF IInv, Unanswered, command, work

LEMMA CommandStep ==
  ASSUME IInv, NEW h \in Handlers, up_command(h)
  PROVE  IInv'
<1> USE DEF IInv
<1>1. ListInv' /\ active' = active /\ pending' = pending /\ online' = online /\ paused' = paused
  BY KeepsLists DEF up_command
<1>2. CASE UNCHANGED <<hpc, command, todo>>
  <2>1. /\ hpc' = hpc /\ type' = type /\ call' = call /\ todo' = todo
        /\ rtpp' = rtpp /\ ignore' = ignore /\ book' = book /\ live' = live
        /\ hpc[h] = "idle"
        /\ replies' = [replies EXCEPT ![h] = 0] \/ replies' = [replies EXCEPT ![h] = 1]
    BY <1>2 DEF up_command, command, calls
  <2>2. PICK n \in 0 .. 1 : replies' = [replies EXCEPT ![h] = n]
    BY <2>1
  <2>3. TypeOK'
    <3>1. replies' \in [Handlers -> 0 .. 2]
      BY <2>2 DEF TypeOK
    <3> QED
      BY <1>1, <2>1, <3>1 DEF TypeOK
  <2>4. Unanswered'
    BY <2>1, <2>2 DEF Unanswered, TypeOK, Before
  <2> QED
    BY <1>1, <2>3, <2>4
<1>3. ASSUME NEW t \in Types \ {"Ib"}, NEW c \in Calls,
             type' = [type EXCEPT ![h] = t], call' = [call EXCEPT ![h] = c],
             Goto(h, CASE t \in SessionTypes -> "scan_active"
                       [] t = "G" -> "broadcast"
                       [] t = "V" -> "first"),
             todo' = [todo EXCEPT ![h] = IF t \in SessionTypes THEN active ELSE <<>>],
             replies' = [replies EXCEPT ![h] = 0]
      PROVE  IInv'
  <2>1. PICK next \in {"scan_active", "broadcast", "first"} : hpc' = [hpc EXCEPT ![h] = next]
    BY <1>3, RoutingAssumption DEF Goto, SessionTypes
  <2>2. PICK s \in Seq(Members) : todo' = [todo EXCEPT ![h] = s]
    BY <1>3, EmptySeq DEF ListInv
  <2>3. TypeOK'
    BY <1>1, <1>3, <2>1, <2>2 DEF up_command, TypeOK, Steps, HasMember, calls
  <2>4. Unanswered'
    BY <1>3, <2>1 DEF up_command, Unanswered, TypeOK, Before
  <2> QED
    BY <1>1, <2>3, <2>4
<1> QED
  BY <1>2, <1>3 DEF up_command

LEMMA WorkStep ==
  ASSUME IInv, NEW h \in Handlers, Work(h)
  PROVE  IInv'
<1> USE DEF IInv
<1>1. ListInv' /\ active' = active /\ pending' = pending /\ online' = online /\ paused' = paused
  BY KeepsLists DEF Work, ScanActive, ScanPending, Found, Deleted, pick_proxy, Bind, Notify,
     SendCommand, ResponseHandler, BroadcastCommand, FirstActive
<1>2. CASE ScanActive(h)
  <2>1. CASE todo[h] = <<>>
    <3>1. /\ book' = book /\ rtpp' = rtpp /\ live' = live /\ type' = type /\ call' = call
          /\ ignore' = ignore /\ replies' = replies /\ hpc[h] = "scan_active"
          /\ \/ hpc' = [hpc EXCEPT ![h] = "pick"] /\ todo' = todo
             \/ hpc' = [hpc EXCEPT ![h] = "scan_pending"] /\ todo' = [todo EXCEPT ![h] = pending]
      BY <1>2, <2>1 DEF ScanActive, Goto, command
    <3>2. TypeOK'
      <4>1. hpc' \in [Handlers -> Steps]
        BY <3>1 DEF TypeOK, Steps
      <4>2. todo' \in [Handlers -> Seq(Members)]
        BY <3>1 DEF TypeOK
      <4>3. \A i \in Handlers : hpc'[i] \in HasMember => rtpp'[i] \in Members
        BY <3>1 DEF TypeOK, HasMember
      <4> QED
        BY <1>1, <3>1, <4>1, <4>2, <4>3 DEF TypeOK
    <3>3. Unanswered'
      BY <3>1 DEF Unanswered, TypeOK, Before
    <3> QED
      BY <1>1, <3>2, <3>3
  <2>2. CASE todo[h] # <<>>
    <3> DEFINE m == Head(todo[h])
    <3>1. /\ m \in Members /\ Tail(todo[h]) \in Seq(Members)
          /\ hpc[h] = "scan_active" /\ call[h] \in Calls
      BY <1>2, <2>2, TailOK DEF TypeOK, Unanswered, ScanActive
    <3>2. /\ live' = live /\ type' = type /\ call' = call /\ ignore' = ignore
          /\ replies' = replies
          /\ todo' = [todo EXCEPT ![h] = Tail(@)]
          /\ book' = [book EXCEPT ![m] = isYours(@, call[h])]
          /\ \/ hpc' = [hpc EXCEPT ![h] = "found"] /\ rtpp' = [rtpp EXCEPT ![h] = m]
             \/ hpc' = hpc /\ rtpp' = rtpp
      BY <1>2, <2>2 DEF ScanActive, Goto, command
    <3> HIDE DEF m
    <3>3. isYours(book[m], call[h]) \in Book
      BY <3>1, BookOps DEF TypeOK
    <3>4. book' \in [Members -> Book]
      BY <3>1, <3>2, <3>3 DEF TypeOK
    <3>5. TypeOK'
      <4>1. hpc' \in [Handlers -> Steps]
        BY <3>2 DEF TypeOK, Steps
      <4>2. todo' \in [Handlers -> Seq(Members)]
        BY <3>1, <3>2 DEF TypeOK
      <4>3. rtpp' \in [Handlers -> Members \cup {NoMember}]
        BY <3>1, <3>2 DEF TypeOK
      <4>4. \A i \in Handlers : hpc'[i] \in HasMember => rtpp'[i] \in Members
        BY <3>1, <3>2 DEF TypeOK, HasMember
      <4> QED
        BY <1>1, <3>2, <3>4, <4>1, <4>2, <4>3, <4>4 DEF TypeOK
    <3>6. Unanswered'
      BY <3>1, <3>2 DEF Unanswered, TypeOK, Before
    <3> QED
      BY <1>1, <3>5, <3>6
  <2> QED
    BY <2>1, <2>2
<1>3. CASE ScanPending(h)
  <2>1. CASE todo[h] = <<>>
    <3>1. /\ book' = book /\ rtpp' = rtpp /\ live' = live /\ type' = type /\ call' = call
          /\ ignore' = ignore /\ replies' = replies /\ todo' = todo
          /\ hpc[h] = "scan_pending" /\ hpc' = [hpc EXCEPT ![h] = "broadcast"]
      BY <1>3, <2>1 DEF ScanPending, Goto, command
    <3>2. TypeOK'
      BY <1>1, <3>1 DEF TypeOK, Steps, HasMember
    <3>3. Unanswered'
      BY <3>1 DEF Unanswered, TypeOK, Before
    <3> QED
      BY <1>1, <3>2, <3>3
  <2>2. CASE todo[h] # <<>>
    <3> DEFINE m == Head(todo[h])
    <3>1. /\ m \in Members /\ Tail(todo[h]) \in Seq(Members)
          /\ hpc[h] = "scan_pending" /\ call[h] \in Calls
      BY <1>3, <2>2, TailOK DEF TypeOK, Unanswered, ScanPending
    <3>2. /\ live' = live /\ type' = type /\ call' = call /\ ignore' = ignore
          /\ replies' = replies
          /\ todo' = [todo EXCEPT ![h] = Tail(@)]
          /\ book' = [book EXCEPT ![m] = isYours(@, call[h])]
          /\ \/ hpc' = [hpc EXCEPT ![h] = "found"] /\ rtpp' = [rtpp EXCEPT ![h] = m]
             \/ hpc' = hpc /\ rtpp' = rtpp
      BY <1>3, <2>2 DEF ScanPending, Goto, command
    <3> HIDE DEF m
    <3>3. isYours(book[m], call[h]) \in Book
      BY <3>1, BookOps DEF TypeOK
    <3>4. book' \in [Members -> Book]
      BY <3>1, <3>2, <3>3 DEF TypeOK
    <3>5. TypeOK'
      <4>1. hpc' \in [Handlers -> Steps]
        BY <3>2 DEF TypeOK, Steps
      <4>2. todo' \in [Handlers -> Seq(Members)]
        BY <3>1, <3>2 DEF TypeOK
      <4>3. rtpp' \in [Handlers -> Members \cup {NoMember}]
        BY <3>1, <3>2 DEF TypeOK
      <4>4. \A i \in Handlers : hpc'[i] \in HasMember => rtpp'[i] \in Members
        BY <3>1, <3>2 DEF TypeOK, HasMember
      <4> QED
        BY <1>1, <3>2, <3>4, <4>1, <4>2, <4>3, <4>4 DEF TypeOK
    <3>6. Unanswered'
      BY <3>1, <3>2 DEF Unanswered, TypeOK, Before
    <3> QED
      BY <1>1, <3>5, <3>6
  <2> QED
    BY <2>1, <2>2
<1>4. CASE Found(h)
  <2>1. /\ hpc[h] = "found" /\ rtpp[h] \in Members /\ call[h] \in Calls
        /\ live' = live /\ type' = type /\ call' = call
        /\ todo' = todo /\ rtpp' = rtpp /\ ignore' = ignore /\ replies' = replies
        /\ \/ hpc' = [hpc EXCEPT ![h] = "notify"] /\ book' = book
           \/ /\ hpc' = [hpc EXCEPT ![h] = "deleted"]
              /\ book' = [book EXCEPT ![rtpp[h]] = unbind_session(@, call[h])]
    BY <1>4 DEF Found, Goto, command, work, TypeOK, HasMember, Unanswered
  <2>2. unbind_session(book[rtpp[h]], call[h]) \in Book
    BY <2>1, BookOps DEF TypeOK
  <2>3. book' \in [Members -> Book]
    BY <2>1, <2>2 DEF TypeOK
  <2>4. TypeOK'
    BY <1>1, <2>1, <2>3 DEF TypeOK, Steps, HasMember
  <2>5. Unanswered'
    BY <2>1 DEF Unanswered, TypeOK, Before
  <2> QED
    BY <1>1, <2>4, <2>5
<1>5. CASE Deleted(h)
  <2>1. /\ hpc[h] = "deleted" /\ hpc' = [hpc EXCEPT ![h] = "send"]
        /\ book' = book /\ live' = live /\ type' = type /\ call' = call
        /\ todo' = todo /\ rtpp' = rtpp
        /\ \/ ignore' = ignore /\ replies' = replies
           \/ /\ ignore' = [ignore EXCEPT ![h] = TRUE]
              /\ replies' = [replies EXCEPT ![h] = @ + 1]
    BY <1>5 DEF Deleted, Goto, Reply, command, calls
  <2>2. replies[h] = 0 /\ ~ ignore[h] /\ rtpp[h] \in Members
    BY <2>1 DEF Unanswered, Before, TypeOK, HasMember
  <2>3. TypeOK'
    <3>1. hpc' \in [Handlers -> Steps]
      BY <2>1 DEF TypeOK, Steps
    <3>2. ignore' \in [Handlers -> BOOLEAN]
      BY <2>1 DEF TypeOK
    <3>3. replies' \in [Handlers -> 0 .. 2]
      <4>1. PICK n \in 0 .. 1 : replies' = [replies EXCEPT ![h] = n]
        BY <2>1, <2>2 DEF TypeOK
      <4> QED
        BY <4>1 DEF TypeOK
    <3>4. \A i \in Handlers : hpc'[i] \in HasMember => rtpp'[i] \in Members
      BY <2>1, <2>2 DEF TypeOK, HasMember
    <3> QED
      BY <1>1, <2>1, <3>1, <3>2, <3>3, <3>4 DEF TypeOK
  <2>4. Unanswered'
    BY <2>1, <2>2 DEF Unanswered, TypeOK, Before
  <2> QED
    BY <1>1, <2>3, <2>4
<1>6. CASE pick_proxy(h)
  <2>1. hpc[h] = "pick" /\ book' = book /\ live' = live
    BY <1>6 DEF pick_proxy, calls
  <2>2. ASSUME NEW m \in ToSet(active), rtpp' = [rtpp EXCEPT ![h] = m],
               Goto(h, "bind"), UNCHANGED <<command, todo, ignore, replies>>
        PROVE  IInv'
    <3>1. m \in Members
      BY <2>2, LenProperties DEF ListInv, ToSet
    <3>2. TypeOK'
      BY <1>1, <2>1, <2>2, <3>1 DEF TypeOK, Steps, HasMember, Goto, command
    <3>3. Unanswered'
      BY <2>1, <2>2 DEF Unanswered, TypeOK, Before, Goto, command
    <3> QED
      BY <1>1, <3>2, <3>3
  <2>3. CASE Reply(h) /\ Done(h)
    <3>1. TypeOK'
      <4>1. replies[h] = 0 /\ replies' = [replies EXCEPT ![h] = @ + 1]
        BY <2>1, <2>3 DEF Unanswered, Before, Reply
      <4> QED
        BY <1>1, <2>1, <2>3, <4>1, EmptySeq DEF TypeOK, Steps, HasMember, Done, Goto
    <3>2. Unanswered'
      BY <2>1, <2>3 DEF Unanswered, TypeOK, Before, Done, Goto, Reply
    <3> QED
      BY <1>1, <3>1, <3>2
  <2> QED
    BY <1>6, <2>2, <2>3 DEF pick_proxy
<1>7. CASE Bind(h)
  <2>1. /\ hpc[h] = "bind" /\ rtpp[h] \in Members /\ call[h] \in Calls
        /\ live' = live /\ type' = type /\ call' = call
        /\ todo' = todo /\ rtpp' = rtpp /\ ignore' = ignore /\ replies' = replies
        /\ hpc' = [hpc EXCEPT ![h] = "notify"]
        /\ book' = [book EXCEPT ![rtpp[h]] = bind_session(@, call[h], "U")]
    BY <1>7 DEF Bind, Goto, command, work, TypeOK, HasMember, Unanswered
  <2>2. bind_session(book[rtpp[h]], call[h], "U") \in Book
    BY <2>1, BookOps DEF TypeOK
  <2>3. book' \in [Members -> Book]
    BY <2>1, <2>2 DEF TypeOK
  <2>4. TypeOK'
    BY <1>1, <2>1, <2>3 DEF TypeOK, Steps, HasMember
  <2>5. Unanswered'
    BY <2>1 DEF Unanswered, TypeOK, Before
  <2> QED
    BY <1>1, <2>4, <2>5
<1>8. CASE Notify(h)
  <2>1. hpc[h] = "notify" /\ rtpp[h] \in Members /\ book' = book /\ live' = live
    BY <1>8 DEF Notify, calls, TypeOK, HasMember
  <2>2. CASE Goto(h, "send") /\ UNCHANGED <<command, work>>
    <3>1. TypeOK'
      BY <1>1, <2>1, <2>2 DEF TypeOK, Steps, HasMember, Goto, command, work
    <3>2. Unanswered'
      BY <2>1, <2>2 DEF Unanswered, TypeOK, Before, Goto, command, work
    <3> QED
      BY <1>1, <3>1, <3>2
  <2>3. CASE Done(h) /\ UNCHANGED replies
    <3>1. TypeOK'
      BY <1>1, <2>1, <2>3, EmptySeq DEF TypeOK, Steps, HasMember, Done, Goto
    <3>2. Unanswered'
      BY <2>1, <2>3 DEF Unanswered, TypeOK, Before, Done, Goto
    <3> QED
      BY <1>1, <3>1, <3>2
  <2> QED
    BY <1>8, <2>2, <2>3 DEF Notify
<1>9. CASE SendCommand(h)
  <2>1. /\ hpc[h] = "send" /\ rtpp[h] \in Members /\ call[h] \in Calls
        /\ book' = book /\ type' = type /\ call' = call
        /\ todo' = todo /\ rtpp' = rtpp /\ ignore' = ignore /\ replies' = replies
        /\ hpc' = [hpc EXCEPT ![h] = "sent"]
    BY <1>9 DEF SendCommand, Goto, command, work, TypeOK, HasMember, Unanswered
  <2>2. live' \in [Members -> SUBSET Calls]
    <3>1. PICK l \in SUBSET Calls : live' = [live EXCEPT ![rtpp[h]] = l] \/ live' = live
      <4>1. live[rtpp[h]] \in SUBSET Calls
        BY <2>1 DEF TypeOK
      <4>2. CASE type[h] = "U"
        BY <1>9, <2>1, <4>1, <4>2 DEF SendCommand
      <4>3. CASE type[h] = "D"
        BY <1>9, <2>1, <4>1, <4>3 DEF SendCommand
      <4>4. CASE type[h] # "U" /\ type[h] # "D"
        BY <1>9, <2>1, <4>1, <4>4 DEF SendCommand
      <4> QED
        BY <4>2, <4>3, <4>4
    <3> QED
      BY <2>1, <3>1 DEF TypeOK
  <2>3. TypeOK'
    BY <1>1, <2>1, <2>2 DEF TypeOK, Steps, HasMember
  <2>4. Unanswered'
    BY <2>1 DEF Unanswered, TypeOK, Before
  <2> QED
    BY <1>1, <2>3, <2>4
<1>10. CASE ResponseHandler(h)
  <2>1. /\ hpc[h] = "sent" /\ book' = book /\ live' = live /\ Done(h)
        /\ ignore[h] => replies' = replies
        /\ ~ ignore[h] => replies' = [replies EXCEPT ![h] = @ + 1]
    BY <1>10 DEF ResponseHandler, Reply, calls
  <2>2. PICK n \in 0 .. 1 : replies' = [replies EXCEPT ![h] = n]
    BY <2>1 DEF Unanswered, TypeOK
  <2>3. TypeOK'
    BY <1>1, <2>1, <2>2, EmptySeq DEF TypeOK, Steps, HasMember, Done, Goto
  <2>4. Unanswered'
    BY <2>1, <2>2 DEF Unanswered, TypeOK, Before, Done, Goto
  <2> QED
    BY <1>1, <2>3, <2>4
<1>11. CASE BroadcastCommand(h)
  <2>1. /\ hpc[h] = "broadcast" /\ book' = book /\ live' = live /\ Done(h)
        /\ replies' = replies \/ replies' = [replies EXCEPT ![h] = @ + 1]
    BY <1>11 DEF BroadcastCommand, Reply, calls
  <2>2. PICK n \in 0 .. 1 : replies' = [replies EXCEPT ![h] = n]
    BY <2>1 DEF Unanswered, TypeOK, Before
  <2>3. TypeOK'
    BY <1>1, <2>1, <2>2, EmptySeq DEF TypeOK, Steps, HasMember, Done, Goto
  <2>4. Unanswered'
    BY <2>1, <2>2 DEF Unanswered, TypeOK, Before, Done, Goto
  <2> QED
    BY <1>1, <2>3, <2>4
<1>12. CASE FirstActive(h)
  <2>1. /\ hpc[h] = "first" /\ book' = book /\ live' = live /\ type' = type /\ call' = call
        /\ todo' = todo /\ ignore' = ignore /\ replies' = replies
        /\ \/ hpc' = [hpc EXCEPT ![h] = "panic"] /\ rtpp' = rtpp
           \/ /\ active # <<>> /\ hpc' = [hpc EXCEPT ![h] = "send"]
              /\ rtpp' = [rtpp EXCEPT ![h] = Head(active)]
    BY <1>12 DEF FirstActive, Goto, calls, command
  <2>2. active # <<>> => Head(active) \in Members
    BY TailOK DEF ListInv
  <2>3. TypeOK'
    <3>1. hpc' \in [Handlers -> Steps]
      BY <2>1 DEF TypeOK, Steps
    <3>2. rtpp' \in [Handlers -> Members \cup {NoMember}]
      BY <2>1, <2>2 DEF TypeOK
    <3>3. \A i \in Handlers : hpc'[i] \in HasMember => rtpp'[i] \in Members
      BY <2>1, <2>2 DEF TypeOK, HasMember
    <3> QED
      BY <1>1, <2>1, <3>1, <3>2, <3>3 DEF TypeOK
  <2>4. Unanswered'
    BY <2>1 DEF Unanswered, TypeOK, Before
  <2> QED
    BY <1>1, <2>3, <2>4
<1> QED
  BY <1>2, <1>3, <1>4, <1>5, <1>6, <1>7, <1>8, <1>9, <1>10, <1>11, <1>12 DEF Work

LEMMA EnvironmentStep ==
  ASSUME IInv, NEW m \in Members, Environment(m)
  PROVE  IInv'
<1> USE DEF IInv
<1>0. /\ Unanswered'
      /\ hpc' = hpc /\ type' = type /\ call' = call /\ todo' = todo
      /\ rtpp' = rtpp /\ ignore' = ignore /\ replies' = replies
  BY KeepsHandlers DEF Environment, GoOffline, GoOnline, SetPaused, Age, Expire
<1>1. CASE GoOffline(m)
  <2>1. /\ online[m] /\ online' = [online EXCEPT ![m] = FALSE]
        /\ active' = RemoveFirst(active, m) /\ pending' = Append(pending, m)
        /\ paused' = paused /\ book' = book /\ live' = live
    BY <1>1 DEF GoOffline, calls
  <2>2. m \notin ToSet(pending)
    BY <2>1 DEF ListInv
  <2>3. /\ active' \in Seq(Members) /\ IsInjective(active')
        /\ ToSet(active') = ToSet(active) \ {m}
    BY <2>1, RemoveFirstInjective DEF ListInv
  <2>4. /\ pending' \in Seq(Members) /\ IsInjective(pending')
        /\ ToSet(pending') = ToSet(pending) \cup {m}
    BY <2>1, <2>2, AppendInjective2 DEF ListInv
  <2>5. ListInv'
    <3>1. ToSet(active) \subseteq Members /\ ToSet(pending) \subseteq Members
      BY LenProperties DEF ListInv, ToSet
    <3> QED
      BY <2>1, <2>3, <2>4, <3>1 DEF ListInv, TypeOK
  <2>6. TypeOK'
    BY <1>0, <2>1, <2>3, <2>4 DEF TypeOK
  <2> QED
    BY <1>0, <2>5, <2>6
<1>2. CASE GoOnline(m)
  <2>1. /\ ~ online[m] /\ online' = [online EXCEPT ![m] = TRUE]
        /\ pending' = RemoveFirst(pending, m) /\ active' = Append(active, m)
        /\ paused' = paused /\ book' = book /\ live' = live
    BY <1>2 DEF GoOnline, calls
  <2>2. m \notin ToSet(active)
    BY <2>1 DEF ListInv
  <2>3. /\ pending' \in Seq(Members) /\ IsInjective(pending')
        /\ ToSet(pending') = ToSet(pending) \ {m}
    BY <2>1, RemoveFirstInjective DEF ListInv
  <2>4. /\ active' \in Seq(Members) /\ IsInjective(active')
        /\ ToSet(active') = ToSet(active) \cup {m}
    BY <2>1, <2>2, AppendInjective2 DEF ListInv
  <2>5. ListInv'
    <3>1. ToSet(active) \subseteq Members /\ ToSet(pending) \subseteq Members
      BY LenProperties DEF ListInv, ToSet
    <3> QED
      BY <2>1, <2>3, <2>4, <3>1 DEF ListInv, TypeOK
  <2>6. TypeOK'
    BY <1>0, <2>1, <2>3, <2>4 DEF TypeOK
  <2> QED
    BY <1>0, <2>5, <2>6
<1>3. CASE SetPaused(m)
  <2>1. /\ paused' = [paused EXCEPT ![m] = ~ paused[m]] /\ book' = book /\ live' = live
        /\ active' = active /\ pending' = pending /\ online' = online
    BY <1>3 DEF SetPaused, lists, calls
  <2> QED
    BY <1>0, <2>1 DEF TypeOK, ListInv
<1>4. CASE Age(m)
  <2>1. /\ book' = [book EXCEPT ![m] = call_id_map_aging(@)] /\ live' = live
        /\ UNCHANGED members
    BY <1>4 DEF Age
  <2>2. call_id_map_aging(book[m]) \in Book
    BY BookOps DEF TypeOK
  <2>3. book' \in [Members -> Book]
    BY <2>1, <2>2 DEF TypeOK
  <2> QED
    BY <1>0, <2>1, <2>3, KeepsLists DEF TypeOK
<1>5. ASSUME NEW c \in Calls, Expire(m, c)
      PROVE  IInv'
  <2>1. /\ live' = [live EXCEPT ![m] = @ \ {c}] /\ book' = book
        /\ UNCHANGED members
    BY <1>5 DEF Expire
  <2>2. live' \in [Members -> SUBSET Calls]
    BY <2>1 DEF TypeOK
  <2> QED
    BY <1>0, <2>1, <2>2, KeepsLists DEF TypeOK
<1> QED
  BY <1>1, <1>2, <1>3, <1>4, <1>5 DEF Environment

\* Every step keeps the invariant.
THEOREM Invariance == Spec => []IInv
<1>1. Init => IInv
  BY InitInv
<1>2. IInv /\ [Next]_vars => IInv'
  <2> SUFFICES ASSUME IInv, [Next]_vars PROVE IInv'
    OBVIOUS
  <2>1. CASE Next
    BY <2>1, CommandStep, WorkStep, EnvironmentStep DEF Next
  <2>2. CASE UNCHANGED vars
    <3>1. ListInv' /\ UNCHANGED members
      BY <2>2, KeepsLists DEF vars
    <3>2. Unanswered' /\ UNCHANGED <<hpc, command, work>>
      BY <2>2, KeepsHandlers DEF vars
    <3>3. TypeOK'
      BY <2>2 DEF IInv, TypeOK, vars, members, lists, calls, command, work
    <3> QED
      BY <3>1, <3>2, <3>3 DEF IInv
  <2> QED
    BY <2>1, <2>2
<1> QED
  BY <1>1, <1>2, PTL DEF Spec

\* The variables of up_command have their types: in particular a handler that
\* uses the member it found or picked has one, so rtpp is never nil there.
THEOREM TypeCorrect == Spec => []TypeOK
<1>1. IInv => TypeOK
  BY DEF IInv
<1> QED
  BY <1>1, Invariance, PTL

\* A command is answered at most once, whatever happens to the members.
THEOREM OneReply == Spec => []AtMostOneReply
<1>1. IInv => AtMostOneReply
  BY DEF IInv, Unanswered, AtMostOneReply
<1> QED
  BY <1>1, Invariance, PTL

\* No member is listed twice, and the two lists have no member in common.
THEOREM ListedOnce == Spec => []ListInv
<1>1. IInv => ListInv
  BY DEF IInv
<1> QED
  BY <1>1, Invariance, PTL

-----------------------------------------------------------------------------
(* Commands one after another, no member goes offline and no map is aged.  *)

Serial == /\ \A h, g \in Handlers : h = g
          /\ Env \subseteq {"pause"}

\* At most one member knows a call, and every session is known.
KnownOnce ==
  /\ ToSet(active) = Members /\ pending = <<>>
  /\ \A c \in Calls : \A m, x \in Members :
       Knows(book[m], c) /\ Knows(book[x], c) => m = x
  /\ \A m \in Members : \A c \in live[m] : Knows(book[m], c)

\* What a handler has found out about its call.
Sought ==
  \A h \in Handlers :
    /\ hpc[h] = "scan_active" =>
         \A m \in Members : Knows(book[m], call[h]) => m \in ToSet(todo[h])
    /\ hpc[h] = "scan_pending" => todo[h] = <<>>
    /\ hpc[h] \in {"pick", "bind", "scan_pending"} =>
         \A m \in Members : ~Knows(book[m], call[h])
    /\ hpc[h] = "broadcast" =>
         type[h] = "G" \/ \A m \in Members : ~Knows(book[m], call[h])
    /\ hpc[h] \in {"found", "deleted", "notify"} => Knows(book[rtpp[h]], call[h])
    /\ hpc[h] = "first" => type[h] = "V"
    /\ hpc[h] = "send" => type[h] = "V" \/ Knows(book[rtpp[h]], call[h])

\* Which calls are known after a method on the call maps.
LEMMA BookKnows ==
  ASSUME NEW b \in Book, NEW c \in Calls, NEW d
  PROVE  /\ Knows(isYours(b, c), d) <=> Knows(b, d)
         /\ Knows(bind_session(b, c, "U"), d) <=> Knows(b, d) \/ d = c
         /\ Knows(unbind_session(b, c), d) <=> Knows(b, d) \/ d = c
BY DEF Book, Knows, isYours, bind_session, unbind_session

\* At first all members are active: a list of them without duplicates, as long
\* as they are many, has every one.
LEMMA InitSerial == Init => KnownOnce /\ Sought
<1> SUFFICES ASSUME Init PROVE KnownOnce /\ Sought
  OBVIOUS
<1> DEFINE n == Cardinality(Members)
<1>1. n \in Nat
  BY MembersAssumption, FS_CardinalityType
<1>2. /\ active \in [1 .. n -> Members]
      /\ \A i, j \in 1 .. n : i # j => active[i] # active[j]
  BY DEF Init, SetToSeqs
<1>3. active \in Injection(1 .. n, Members)
  BY <1>2 DEF Injection, IsInjective
<1>4. Cardinality(1 .. n) = n /\ IsFiniteSet(1 .. n)
  BY <1>1, FS_Interval
<1>5. active \in Surjection(1 .. n, Members)
  BY <1>3, <1>4, MembersAssumption, FS_Injection
<1>6. ToSet(active) = Members
  BY <1>2, <1>5 DEF Surjection, ToSet
<1>7. \A m \in Members : \A c : ~Knows(book[m], c)
  BY DEF Init, Knows, EmptyBook
<1> QED
  BY <1>6, <1>7 DEF Init, KnownOnce, Sought

\* A step after which the same calls are known, and no more sessions are there.
LEMMA KeepsKnown ==
  ASSUME KnownOnce, UNCHANGED <<active, pending>>,
         \A m \in Members : \A c \in Calls : Knows(book'[m], c) <=> Knows(book[m], c),
         TypeOK, \A m \in Members : live'[m] \subseteq live[m]
  PROVE  KnownOnce'
<1>1. \A m \in Members : live[m] \subseteq Calls
  BY DEF TypeOK
<1> QED
  BY <1>1 DEF KnownOnce

\* A handler alone, that does not change what is known.
LEMMA ScanStep ==
  ASSUME Serial, IInv, KnownOnce, Sought, NEW h \in Handlers,
         ScanActive(h) \/ ScanPending(h)
  PROVE  KnownOnce' /\ Sought'
<1> USE DEF IInv
<1>1. call[h] \in Calls /\ call' = call /\ type' = type
  BY DEF ScanActive, ScanPending, Unanswered, command
<1>2. \A m \in Members : \A c \in Calls : Knows(book'[m], c) <=> Knows(book[m], c)
  <2>1. CASE book' = book
    BY <2>1
  <2>2. ASSUME NEW m \in Members, book' = [book EXCEPT ![m] = isYours(@, call[h])]
        PROVE  \A x \in Members : \A c \in Calls : Knows(book'[x], c) <=> Knows(book[x], c)
    BY <1>1, <2>2, BookKnows DEF TypeOK
  <2>3. todo[h] # <<>> => Head(todo[h]) \in Members
    BY TailOK DEF TypeOK
  <2> QED
    BY <2>1, <2>2, <2>3 DEF ScanActive, ScanPending
<1>3. KnownOnce'
  BY <1>2, KeepsKnown DEF ScanActive, ScanPending, members, lists, TypeOK
<1>4. CASE ScanActive(h) /\ todo[h] = <<>>
  <2>1. /\ hpc[h] = "scan_active"
        /\ \/ type[h] = "U" /\ hpc' = [hpc EXCEPT ![h] = "pick"]
           \/ /\ hpc' = [hpc EXCEPT ![h] = "scan_pending"]
              /\ todo' = [todo EXCEPT ![h] = <<>>]
    BY <1>4 DEF ScanActive, Goto, KnownOnce
  <2>2. \A m \in Members : ~Knows(book[m], call[h])
    BY <1>4, <2>1 DEF Sought, ToSet
  <2> QED
    BY <1>1, <1>2, <1>3, <2>1, <2>2 DEF Sought, Serial, TypeOK
<1>5. CASE ScanActive(h) /\ todo[h] # <<>>
  <2>1. PICK m \in Members : m = Head(todo[h])
    BY <1>5, TailOK DEF TypeOK
  <2>2. /\ hpc[h] = "scan_active"
        /\ todo' = [todo EXCEPT ![h] = Tail(@)]
        /\ IF Knows(book[m], call[h])
             THEN rtpp' = [rtpp EXCEPT ![h] = m] /\ hpc' = [hpc EXCEPT ![h] = "found"]
             ELSE UNCHANGED <<rtpp, hpc>>
    BY <1>5, <2>1 DEF ScanActive, Goto
  <2>3. ToSet(todo[h]) \subseteq {m} \cup ToSet(Tail(todo[h]))
    BY <1>5, <2>1, FirstAndRest DEF TypeOK
  <2>4. CASE Knows(book[m], call[h])
    BY <1>1, <1>2, <1>3, <2>2, <2>4 DEF Sought, Serial, TypeOK
  <2>5. CASE ~Knows(book[m], call[h])
    BY <1>1, <1>2, <1>3, <2>2, <2>3, <2>5 DEF Sought, Serial, TypeOK
  <2> QED
    BY <2>4, <2>5
<1>6. CASE ScanPending(h)
  <2>1. /\ hpc[h] = "scan_pending" /\ hpc' = [hpc EXCEPT ![h] = "broadcast"]
        /\ \A m \in Members : ~Knows(book[m], call[h])
    BY <1>6 DEF ScanPending, Goto, Sought
  <2> QED
    BY <1>1, <1>2, <1>3, <2>1 DEF Sought, Serial, TypeOK
<1> QED
  BY <1>4, <1>5, <1>6

\* A deletion keeps its member knowing the call; a new session makes the
\* member it was given to the only one.
LEMMA BindStep ==
  ASSUME Serial, IInv, KnownOnce, Sought, NEW h \in Handlers, Found(h) \/ Bind(h)
  PROVE  KnownOnce' /\ Sought'
<1> USE DEF IInv
<1>1. PICK m \in Members : m = rtpp[h]
  BY DEF Found, Bind, TypeOK, HasMember
<1>2. PICK c \in Calls : c = call[h]
  BY DEF Found, Bind, Unanswered
<1>3. UNCHANGED <<active, pending, live, call, type, todo, rtpp>>
  BY DEF Found, Bind, members, lists, command, work
<1>4. /\ \A x \in Members : Knows(book[x], c) => x = m
      /\ \A x \in Members, d \in Calls :
           Knows(book'[x], d) <=> Knows(book[x], d) \/ (x = m /\ d = c)
  <2>1. CASE Found(h)
    <3>1. Knows(book[m], c)
      BY <1>1, <1>2, <2>1 DEF Found, Sought
    <3>2. book' = book \/ book' = [book EXCEPT ![m] = unbind_session(@, c)]
      BY <1>1, <1>2, <2>1 DEF Found
    <3> QED
      BY <3>1, <3>2, BookKnows DEF KnownOnce, TypeOK
  <2>2. CASE Bind(h)
    <3>1. \A x \in Members : ~Knows(book[x], c)
      BY <1>2, <2>2 DEF Bind, Sought
    <3>2. book' = [book EXCEPT ![m] = bind_session(@, c, "U")]
      BY <1>1, <1>2, <2>2 DEF Bind
    <3> QED
      BY <3>1, <3>2, BookKnows DEF TypeOK
  <2> QED
    BY <2>1, <2>2
<1>5. KnownOnce'
  <2>1. \A x \in Members : live[x] \subseteq Calls
    BY DEF TypeOK
  <2> QED
    BY <1>3, <1>4, <2>1 DEF KnownOnce
<1>6. Knows(book'[m], c) /\ \E step \in {"deleted", "notify"} : hpc' = [hpc EXCEPT ![h] = step]
  BY <1>1, <1>2, <1>4, BookKnows DEF Found, Bind, Goto, Sought, TypeOK
<1> QED
  BY <1>1, <1>2, <1>3, <1>5, <1>6 DEF Sought, Serial, TypeOK

\* The other steps of a handler change no map, and create a session only at a
\* member that knows the call.
LEMMA OtherWork ==
  ASSUME Serial, IInv, KnownOnce, Sought, NEW h \in Handlers,
         \/ up_command(h) \/ Deleted(h) \/ pick_proxy(h) \/ Notify(h)
         \/ SendCommand(h) \/ ResponseHandler(h) \/ BroadcastCommand(h)
         \/ FirstActive(h)
  PROVE  KnownOnce' /\ Sought'
<1> USE DEF IInv
<1>1. UNCHANGED <<active, pending, book>>
  BY DEF up_command, Deleted, pick_proxy, Notify, SendCommand,
     ResponseHandler, BroadcastCommand, FirstActive, members, lists, calls
<1>2. CASE UNCHANGED live
  <2>1. KnownOnce'
    BY <1>1, <1>2, KeepsKnown
  <2>2. CASE hpc'[h] \in {"idle", "sent", "panic"}
    BY <2>1, <2>2 DEF Sought, Serial
  <2>3. CASE up_command(h) /\ hpc'[h] # "idle"
    <3>1. PICK t \in Types \ {"Ib"}, c \in Calls :
            /\ type' = [type EXCEPT ![h] = t]
            /\ hpc' = [hpc EXCEPT ![h] =
                         CASE t \in SessionTypes -> "scan_active"
                           [] t = "G" -> "broadcast"
                           [] t = "V" -> "first"]
            /\ todo' = [todo EXCEPT ![h] = IF t \in SessionTypes THEN active ELSE <<>>]
      BY <2>3 DEF up_command, Goto
    <3>2. CASE t \in SessionTypes
      BY <2>1, <3>1, <3>2 DEF Sought, Serial, TypeOK, KnownOnce, SessionTypes
    <3>3. CASE t \in {"G", "V"}
      BY <2>1, <3>1, <3>3 DEF Sought, Serial, TypeOK, SessionTypes
    <3> QED
      BY <3>2, <3>3, RoutingAssumption DEF SessionTypes
  <2>4. CASE Deleted(h) \/ Notify(h) \/ FirstActive(h)
    BY <1>1, <2>1, <2>2, <2>4
       DEF Deleted, Notify, FirstActive, Goto, Done, Sought, Serial, TypeOK, command, work
  <2>5. CASE pick_proxy(h)
    BY <1>1, <2>1, <2>2, <2>5
       DEF pick_proxy, Goto, Done, Sought, Serial, TypeOK, command
  <2>6. CASE SendCommand(h) \/ ResponseHandler(h) \/ BroadcastCommand(h)
    BY <2>2, <2>6 DEF SendCommand, ResponseHandler, BroadcastCommand, Goto, Done, TypeOK
  <2> QED
    BY <2>2, <2>3, <2>4, <2>5, <2>6
<1>3. CASE SendCommand(h)
  <2>1. PICK m \in Members : m = rtpp[h]
    BY <1>3 DEF SendCommand, TypeOK, HasMember
  <2>2. \A x \in Members : \A c \in live'[x] :
          c \in live[x] \/ (x = m /\ c = call[h] /\ type[h] = "U")
    BY <1>3, <2>1 DEF SendCommand, TypeOK
  <2>3. KnownOnce'
    BY <1>1, <1>3, <2>1, <2>2 DEF SendCommand, KnownOnce, Sought
  <2>4. hpc'[h] = "sent"
    BY <1>3 DEF SendCommand, Goto, TypeOK
  <2> QED
    BY <2>3, <2>4 DEF Sought, Serial
<1> QED
  BY <1>2, <1>3
     DEF up_command, Deleted, pick_proxy, Notify, ResponseHandler,
         BroadcastCommand, FirstActive, calls

\* Commands one after another: a command for a session goes to the member that
\* has it, for any members and calls and any kinds of commands, if none goes
\* offline and no map is aged.
THEOREM SessionsAreFound ==
  ASSUME Serial
  PROVE  Spec => []SessionFound
<1>1. IInv /\ KnownOnce /\ Sought /\ [Next]_vars => (KnownOnce /\ Sought)'
  <2> SUFFICES ASSUME IInv, KnownOnce, Sought, [Next]_vars
               PROVE  KnownOnce' /\ Sought'
    OBVIOUS
  <2>1. CASE UNCHANGED vars
    BY <2>1 DEF vars, members, lists, calls, command, work, KnownOnce, Sought
  <2>2. ASSUME NEW h \in Handlers, up_command(h) \/ Work(h)
        PROVE  KnownOnce' /\ Sought'
    BY <2>2, ScanStep, BindStep, OtherWork DEF Work
  <2>3. ASSUME NEW m \in Members, Environment(m)
        PROVE  KnownOnce' /\ Sought'
    <3>1. /\ ~GoOffline(m) /\ ~GoOnline(m) /\ ~Age(m)
      BY DEF Serial, GoOffline, GoOnline, Age
    <3>2. /\ UNCHANGED <<active, pending, book, hpc, type, call, todo, rtpp>>
          /\ \A x \in Members : live'[x] \subseteq live[x]
      BY <2>3, <3>1 DEF Environment, SetPaused, Expire, members, lists, calls,
         command, work, IInv, TypeOK
    <3> QED
      BY <3>2, KeepsKnown DEF Sought, IInv
  <2> QED
    BY <2>1, <2>2, <2>3 DEF Next
<1>2. IInv /\ KnownOnce /\ Sought => SessionFound
  <2> SUFFICES ASSUME IInv, KnownOnce, Sought, NEW h \in Handlers,
                      NEW m \in Members, type[h] \in SessionTypes,
                      call[h] \in live[m]
               PROVE  /\ hpc[h] \in {"found", "deleted", "bind", "notify", "send"}
                           => rtpp[h] = m
                      /\ hpc[h] \notin {"pick", "broadcast"}
    BY DEF SessionFound
  <2>1. Knows(book[m], call[h]) /\ call[h] \in Calls
    BY DEF KnownOnce, IInv, TypeOK
  <2>2. \A x \in Members : Knows(book[x], call[h]) => x = m
    BY <2>1 DEF KnownOnce
  <2> QED
    BY <2>1, <2>2 DEF Sought, IInv, TypeOK, HasMember, SessionTypes
<1> QED
  BY InitSerial, <1>1, <1>2, Invariance, PTL DEF Spec
=============================================================================
