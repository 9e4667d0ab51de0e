------------------------------ MODULE Routing ------------------------------
(***************************************************************************)
(* up_command (rtp_cluster.go): which member a command goes to.            *)
(*                                                                         *)
(* Handlers work on commands concurrently.  A handler asks the members,    *)
(* one at a time, whether the call is theirs; the members answer under a   *)
(* lock of their own, the handler holds none.  It loops over the list as   *)
(* it was when the loop began.  The member it settles on may go offline or *)
(* be paused before the command is sent.                                   *)
(*                                                                         *)
(* Commands by what up_command does with them:                             *)
(*   U   an update or creation without a to-tag: a new session;            *)
(*   L   a command for an existing session (U with a to-tag, L, P, R, ...);*)
(*   D   a deletion;                                                       *)
(*   Ib  totals, answered from the counters of the members;                *)
(*   G   statistics, broadcast;                                            *)
(*   V   anything else, sent to the first active member.                   *)
(* How a broadcast is answered is in Broadcast, how cookies are in         *)
(* CommandCache, how lists change step by step in Cluster.                 *)
(***************************************************************************)
EXTENDS CallMap, Integers, Sequences, SequencesExt

CONSTANTS
  Members, Handlers,
  Types,     \* the commands in use, a subset of the six above
  Env,       \* what may happen to members: "offline", "pause", "age"
  BadNotify, \* TRUE: the notify tag of a U or L may fail to unescape
  NoMember, NoCall

ASSUME RoutingAssumption ==
  /\ Types \subseteq {"U", "L", "D", "Ib", "G", "V"}
  /\ Env \subseteq {"offline", "pause", "age"}
  /\ BadNotify \in BOOLEAN
  /\ NoMember \notin Members /\ NoCall \notin Calls

ASSUME MembersAssumption == IsFiniteSet(Members)

VARIABLES
  active, pending, online, paused, \* the members, as in Cluster
  book, live,                      \* their call maps; the real sessions
  hpc, type, call,                 \* a handler and its command
  todo,                            \* the rest of the list it loops over
  rtpp,                            \* the member it found or picked
  ignore,                          \* response_handler is ignore_response
  replies                          \* calls of down_command for the command

lists   == <<active, pending>>
members == <<lists, online, paused>>
calls   == <<book, live>>
command == <<type, call>>
work    == <<todo, rtpp, ignore, replies>>
vars    == <<members, calls, hpc, command, work>>

\* "panic" ends the process: no property looks past it.
Steps == {"idle", "scan_active", "scan_pending", "found", "deleted", "pick",
          "bind", "notify", "send", "sent", "broadcast", "first", "panic"}

\* Where a handler uses rtpp, which must not be nil there.
HasMember == {"found", "deleted", "bind", "notify", "send", "sent"}

TypeOK ==
  /\ active \in Seq(Members) /\ pending \in Seq(Members)
  /\ online \in [Members -> BOOLEAN] /\ paused \in [Members -> BOOLEAN]
  /\ book \in [Members -> Book]
  /\ live \in [Members -> SUBSET Calls]
  /\ hpc \in [Handlers -> Steps]
  /\ type \in [Handlers -> Types \cup {"none"}]
  /\ call \in [Handlers -> Calls \cup {NoCall}]
  /\ todo \in [Handlers -> Seq(Members)]
  /\ rtpp \in [Handlers -> Members \cup {NoMember}]
  /\ \A h \in Handlers : hpc[h] \in HasMember => rtpp[h] \in Members
  /\ ignore \in [Handlers -> BOOLEAN]
  /\ replies \in [Handlers -> 0 .. 2]

Init ==
  /\ active \in SetToSeqs(Members) /\ pending = <<>>
  /\ online = [m \in Members |-> TRUE]
  /\ paused = [m \in Members |-> FALSE]
  /\ book = [m \in Members |-> EmptyBook]
  /\ live = [m \in Members |-> {}]
  /\ hpc = [h \in Handlers |-> "idle"]
  /\ type = [h \in Handlers |-> "none"]
  /\ call = [h \in Handlers |-> NoCall]
  /\ todo = [h \in Handlers |-> <<>>]
  /\ rtpp = [h \in Handlers |-> NoMember]
  /\ ignore = [h \in Handlers |-> FALSE]
  /\ replies = [h \in Handlers |-> 0]

-----------------------------------------------------------------------------
Goto(h, step) == hpc' = [hpc EXCEPT ![h] = step]

Reply(h) == replies' = [replies EXCEPT ![h] = @ + 1]

SessionTypes == {"U", "L", "D"}

\* The handler is over: its local variables are gone.
Done(h) ==
  /\ Goto(h, "idle")
  /\ type' = [type EXCEPT ![h] = "none"]
  /\ call' = [call EXCEPT ![h] = NoCall]
  /\ todo' = [todo EXCEPT ![h] = <<>>]
  /\ rtpp' = [rtpp EXCEPT ![h] = NoMember]
  /\ ignore' = [ignore EXCEPT ![h] = FALSE]

\* A command is read.  With no active member it is answered with E999, and
\* totals need no member: both are over at once.
up_command(h) ==
  /\ hpc[h] = "idle"
  /\ \/ /\ active = <<>> \/ "Ib" \in Types
        /\ replies' = [replies EXCEPT ![h] = 1]
        /\ UNCHANGED <<hpc, command, todo>>
     \/ \E t \in Types \ {"Ib"}, c \in Calls :
          /\ active # <<>>
          /\ type' = [type EXCEPT ![h] = t]
          /\ call' = [call EXCEPT ![h] = c]
          /\ Goto(h, CASE t \in SessionTypes -> "scan_active"
                       [] t = "G" -> "broadcast"
                       [] t = "V" -> "first")
          /\ todo' = [todo EXCEPT ![h] = IF t \in SessionTypes THEN active
                                                               ELSE <<>>]
          /\ replies' = [replies EXCEPT ![h] = 0]
  /\ UNCHANGED <<members, calls, rtpp, ignore>>

\* for _, rtpp = range self.active: isYours of one member.  At the end of
\* the list a new session goes on to pick_proxy, another to the offline
\* members.
ScanActive(h) ==
  /\ hpc[h] = "scan_active"
  /\ IF todo[h] = <<>>
       THEN /\ IF type[h] = "U"
                 THEN Goto(h, "pick") /\ UNCHANGED todo
                 ELSE /\ Goto(h, "scan_pending")
                      /\ todo' = [todo EXCEPT ![h] = pending]
            /\ UNCHANGED <<book, rtpp>>
       ELSE LET m == Head(todo[h]) IN
            /\ book' = [book EXCEPT ![m] = isYours(@, call[h])]
            /\ todo' = [todo EXCEPT ![h] = Tail(@)]
            /\ IF Knows(book[m], call[h])
                 THEN rtpp' = [rtpp EXCEPT ![h] = m] /\ Goto(h, "found")
                 ELSE UNCHANGED <<rtpp, hpc>>
  /\ UNCHANGED <<members, live, command, ignore, replies>>

\* for _, rtpp = range self.pending.  A call nobody knows is broadcast.
ScanPending(h) ==
  /\ hpc[h] = "scan_pending"
  /\ IF todo[h] = <<>>
       THEN Goto(h, "broadcast") /\ UNCHANGED <<book, rtpp, todo>>
       ELSE LET m == Head(todo[h]) IN
            /\ book' = [book EXCEPT ![m] = isYours(@, call[h])]
            /\ todo' = [todo EXCEPT ![h] = Tail(@)]
            /\ IF Knows(book[m], call[h])
                 THEN rtpp' = [rtpp EXCEPT ![h] = m] /\ Goto(h, "found")
                 ELSE UNCHANGED <<rtpp, hpc>>
  /\ UNCHANGED <<members, live, command, ignore, replies>>

\* Mutation: a deletion forgets the call at once.
FoundForgets(h) ==
  /\ hpc[h] = "found"
  /\ IF type[h] = "D"
       THEN /\ book' = [book EXCEPT ![rtpp[h]].call_id_map = @ \ {call[h]}]
            /\ Goto(h, "deleted")
       ELSE /\ Goto(h, "notify")
            /\ UNCHANGED book
  /\ UNCHANGED <<members, live, command, work>>

\* A member was found: a deletion is unbound from it.
Found(h) ==
  /\ hpc[h] = "found"
  /\ IF type[h] = "D"
       THEN /\ book' = [book EXCEPT ![rtpp[h]] = unbind_session(@, call[h])]
            /\ Goto(h, "deleted")
       ELSE /\ Goto(h, "notify")
            /\ UNCHANGED book
  /\ UNCHANGED <<members, live, command, work>>

\* Mutation: the answer of the member is passed on after the fake reply.
DeletedKeepsHandler(h) ==
  /\ hpc[h] = "deleted"
  /\ IF online[rtpp[h]] THEN UNCHANGED replies ELSE Reply(h)
  /\ Goto(h, "send")
  /\ UNCHANGED <<members, calls, command, todo, rtpp, ignore>>

\* The member of a deletion is offline: reply now, ignore its answer.
Deleted(h) ==
  /\ hpc[h] = "deleted"
  /\ IF online[rtpp[h]]
       THEN UNCHANGED <<ignore, replies>>
       ELSE Reply(h) /\ ignore' = [ignore EXCEPT ![h] = TRUE]
  /\ Goto(h, "send")
  /\ UNCHANGED <<members, calls, command, todo, rtpp>>

\* Mutation: pick_proxy may return nil, and the handler goes on.
PickNil(h) ==
  /\ hpc[h] = "pick"
  /\ LET available == {m \in ToSet(active) : online[m] /\ ~paused[m]} IN
     \/ \E m \in available : rtpp' = [rtpp EXCEPT ![h] = m]
     \/ available = {} /\ UNCHANGED rtpp
  /\ Goto(h, "bind")
  /\ UNCHANGED <<members, calls, command, todo, ignore, replies>>

\* pick_proxy: any active member that is online and not paused, E998 if
\* there is none.  (Which one is chosen is a matter of weights.)
pick_proxy(h) ==
  /\ hpc[h] = "pick"
  /\ LET available == {m \in ToSet(active) : online[m] /\ ~paused[m]} IN
     \/ \E m \in available :
          /\ rtpp' = [rtpp EXCEPT ![h] = m]
          /\ Goto(h, "bind")
          /\ UNCHANGED <<command, todo, ignore, replies>>
     \/ /\ available = {}
        /\ Reply(h) /\ Done(h)
  /\ UNCHANGED <<members, calls>>

\* The new session is bound to the member before the command is sent.
Bind(h) ==
  /\ hpc[h] = "bind"
  /\ book' = [book EXCEPT ![rtpp[h]] = bind_session(@, call[h], "U")]
  /\ Goto(h, "notify")
  /\ UNCHANGED <<members, live, command, work>>

\* The notify socket of a U or L is rewritten; a tag that cannot be
\* unescaped ends the handler without a reply, and so does a U or L that
\* does not parse again when its addresses are rewritten.
Notify(h) ==
  /\ hpc[h] = "notify"
  /\ \/ Goto(h, "send") /\ UNCHANGED <<command, work>>
     \/ BadNotify /\ Done(h) /\ UNCHANGED replies
  /\ UNCHANGED <<members, calls>>

\* SendCommand: the RTPproxy creates or deletes the session if the command
\* reaches it, which an RTPproxy that is online may still not see.
SendCommand(h) ==
  LET m == rtpp[h] IN
  /\ hpc[h] = "send"
  /\ \/ /\ online[m]
        /\ live' = [live EXCEPT
                      ![m] = CASE type[h] = "U" -> @ \cup {call[h]}
                               [] type[h] = "D" -> @ \ {call[h]}
                               [] OTHER -> @]
     \/ UNCHANGED live
  /\ Goto(h, "sent")
  /\ UNCHANGED <<members, book, command, work>>

\* The member's answer, or its absence, comes back.
ResponseHandler(h) ==
  /\ hpc[h] = "sent"
  /\ IF ignore[h] THEN UNCHANGED replies ELSE Reply(h)
  /\ Done(h)
  /\ UNCHANGED <<members, calls>>

\* Mutation: a failed broadcast is not answered.
BroadcastDropped(h) ==
  /\ hpc[h] = "broadcast"
  /\ Done(h)
  /\ UNCHANGED <<members, calls, replies>>

\* A broadcast to the members that are active and online by now: answered
\* once by merge_results, or never if there are none.
BroadcastCommand(h) ==
  /\ hpc[h] = "broadcast"
  /\ IF \E m \in ToSet(active) : online[m] THEN Reply(h) ELSE UNCHANGED replies
  /\ Done(h)
  /\ UNCHANGED <<members, calls>>

\* rtpp = self.active[0]: the list was not empty when the command came.
FirstActive(h) ==
  /\ hpc[h] = "first"
  /\ IF active = <<>>
       THEN Goto(h, "panic") /\ UNCHANGED rtpp
       ELSE Goto(h, "send") /\ rtpp' = [rtpp EXCEPT ![h] = Head(active)]
  /\ UNCHANGED <<members, calls, command, todo, ignore, replies>>

Work(h) ==
  \/ ScanActive(h) \/ ScanPending(h) \/ Found(h) \/ Deleted(h)
  \/ pick_proxy(h) \/ Bind(h) \/ Notify(h)
  \/ SendCommand(h) \/ ResponseHandler(h) \/ BroadcastCommand(h)
  \/ FirstActive(h)

-----------------------------------------------------------------------------
(* What happens to the members meanwhile (Cluster has the details).        *)

GoOffline(m) ==
  /\ "offline" \in Env /\ online[m]
  /\ online' = [online EXCEPT ![m] = FALSE]
  /\ active' = RemoveFirst(active, m) /\ pending' = Append(pending, m)
  /\ UNCHANGED <<paused, calls, hpc, command, work>>

GoOnline(m) ==
  /\ "offline" \in Env /\ ~online[m]
  /\ online' = [online EXCEPT ![m] = TRUE]
  /\ pending' = RemoveFirst(pending, m) /\ active' = Append(active, m)
  /\ UNCHANGED <<paused, calls, hpc, command, work>>

\* pause and resume.
SetPaused(m) ==
  /\ "pause" \in Env
  /\ paused' = [paused EXCEPT ![m] = ~@]
  /\ UNCHANGED <<lists, online, calls, hpc, command, work>>

Age(m) ==
  /\ "age" \in Env
  /\ book' = [book EXCEPT ![m] = call_id_map_aging(@)]
  /\ UNCHANGED <<members, live, hpc, command, work>>

\* The RTPproxy ends a session by itself.
Expire(m, c) ==
  /\ c \in live[m]
  /\ live' = [live EXCEPT ![m] = @ \ {c}]
  /\ UNCHANGED <<members, book, hpc, command, work>>

Environment(m) ==
  \/ GoOffline(m) \/ GoOnline(m) \/ SetPaused(m) \/ Age(m)
  \/ \E c \in Calls : Expire(m, c)

Next ==
  \/ \E h \in Handlers : up_command(h) \/ Work(h)
  \/ \E m \in Members : Environment(m)

Spec == Init /\ [][Next]_vars

\* A handler that runs goes on, and a client calls back for every command.
FairSpec == Spec /\ \A h \in Handlers : WF_vars(Work(h))

-----------------------------------------------------------------------------
(* Properties.                                                             *)

\* A command is answered at most once, also when the reply to a deletion is
\* sent before the member's answer comes.
AtMostOneReply == \A h \in Handlers : replies[h] <= 1

\* If commands come one after another, no member goes offline and no map is
\* aged, every command for a session reaches the member that has it: it is
\* neither sent to another one, which could create a second session for the
\* call, nor broadcast.
SessionFound ==
  \A h \in Handlers : \A m \in Members :
    type[h] \in SessionTypes /\ call[h] \in live[m] =>
      /\ hpc[h] \in {"found", "deleted", "bind", "notify", "send"} => rtpp[h] = m
      /\ hpc[h] \notin {"pick", "broadcast"}

\* A command that up_command began to handle is answered, if the tags can be
\* unescaped and no member goes offline meanwhile.
CommandsAnswered ==
  \A h \in Handlers :
    hpc[h] # "idle" ~> hpc[h] = "idle" /\ replies[h] = 1
=============================================================================
