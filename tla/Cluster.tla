------------------------------ MODULE Cluster ------------------------------
(***************************************************************************)
(* The members of one cluster (rtp_cluster.go, rtp_cluster_member.go) and  *)
(* the goroutines that change them:                                        *)
(*                                                                         *)
(*   - the client of each member, which learns from heartbeats that the    *)
(*     RTPproxy is up, down or how many sessions it carries, and calls     *)
(*     GoOnline, GoOffline and UpdateActive;                               *)
(*   - the administrators' connections (rtp_cluster_cli.go), which add,    *)
(*     delete, pause and resume members;                                   *)
(*   - the signalling commands, here one step each: what they do to a      *)
(*     member's call maps is all that matters to membership.               *)
(*                                                                         *)
(* The cluster lock covers single list operations only, so everything      *)
(* between two of them interleaves: the checks of add_member and           *)
(* bring_down are steps of their own.  The lists are sequence values;      *)
(* each lookup in them is one step.  The client library is not part of     *)
(* the source: its callbacks for one member are taken to run one at a time.*)
(***************************************************************************)
EXTENDS CallMap, Integers, Sequences, SequencesExt

CONSTANTS
  Members,      \* the rtp_cluster_member objects that may ever be created
  Admins,       \* the CLI connections
  NameOf,       \* the configured name of each member object
  AdminOps,     \* the modify commands the administrators use
  AddStatuses,  \* the statuses a member may be added with
  StartIsSlow,  \* TRUE: the first answer of a new member's RTPproxy comes
                \* after add_member has put the member in a list
  NoMember      \* the target of an idle administrator

ASSUME ClusterAssumption ==
  /\ DOMAIN NameOf = Members
  /\ AdminOps \subseteq {"add", "delete", "pause", "resume"}
  /\ AddStatuses \subseteq {"ACTIVE", "SUSPENDED", "DRAINING"}
  /\ StartIsSlow \in BOOLEAN
  /\ NoMember \notin Members

VARIABLES
  active, pending,  \* rtp_cluster.active and .pending
  started,          \* member objects on which Start() was called
  online,           \* IsOnline() of the member's client
  shut,             \* IsShutDown() of the member's client
  active_sessions,  \* GetActiveSessions(): the last count reported, -1 unknown
  status,           \* ACTIVE, SUSPENDED or DRAINING
  watched,          \* on_active_update is set (to rtpp_active_change)
  book,             \* the call maps of each member
  live,             \* the sessions the RTPproxy really carries
  mpc,              \* where the member's client is
  apc, target, seen \* where an administrator is, its member, IsOnline() read

lists   == <<active, pending>>
client  == <<online, active_sessions, mpc>>
calls   == <<book, live>>
admin   == <<apc, target, seen>>
vars    == <<lists, started, client, shut, status, watched, calls, admin>>

Statuses == {"ACTIVE", "SUSPENDED", "DRAINING"}
ClientStates == {"idle", "up", "down", "change", "stop"}
AdminStates == {"idle", "found", "started", "append", "scan", "check",
                "remove_active", "remove_pending", "drain", "stop"}

TypeOK ==
  /\ active \in Seq(Members) /\ pending \in Seq(Members)
  /\ started \in [Members -> BOOLEAN]
  /\ online \in [Members -> BOOLEAN]
  /\ shut \in [Members -> BOOLEAN]
  /\ active_sessions \in [Members -> Nat \cup {-1}]
  /\ status \in [Members -> Statuses]
  /\ watched \in [Members -> BOOLEAN]
  /\ book \in [Members -> Book]
  /\ live \in [Members -> SUBSET Calls]
  /\ mpc \in [Members -> ClientStates]
  /\ apc \in [Admins -> AdminStates]
  /\ target \in [Admins -> Members \cup {NoMember}]
  /\ seen \in [Admins -> BOOLEAN]

\* A member object before it is created: the values of the constructor.
Init ==
  /\ active = <<>> /\ pending = <<>>
  /\ started = [m \in Members |-> FALSE]
  /\ online = [m \in Members |-> FALSE]
  /\ shut = [m \in Members |-> FALSE]
  /\ active_sessions = [m \in Members |-> -1]
  /\ status = [m \in Members |-> "ACTIVE"]
  /\ watched = [m \in Members |-> FALSE]
  /\ book = [m \in Members |-> EmptyBook]
  /\ live = [m \in Members |-> {}]
  /\ mpc = [m \in Members |-> "idle"]
  /\ apc = [a \in Admins |-> "idle"]
  /\ target = [a \in Admins |-> NoMember]
  /\ seen = [a \in Admins |-> FALSE]

Listed == ToSet(active) \cup ToSet(pending)

\* The first member in a list that is one of S.
FirstOf(list, S) ==
  LET hits == {i \in DOMAIN list : list[i] \in S}
  IN  IF hits = {} THEN NoMember ELSE list[Min(hits)]

Named(n) == {m \in Members : NameOf[m] = n}

\* Mutation: the pending members are not searched.
FindActiveOnly(n) == FirstOf(active, Named(n))

\* The first member with the name, active members first.
rtpp_by_name(n) == FirstOf(active \o pending, Named(n))

-----------------------------------------------------------------------------
(* The list operations; each holds the cluster lock from start to end.     *)

append_active(m) == active' = Append(active, m) /\ UNCHANGED pending

append_pending(m) == pending' = Append(pending, m) /\ UNCHANGED active

\* Mutation: the entry is taken out of pending and not appended to active.
MoveToNowhere(m) == pending' = RemoveFirst(pending, m) /\ UNCHANGED active

\* Mutation: only members that take new sessions are made active.
MoveIfNotPaused(m) ==
  IF m \in ToSet(pending) /\ status[m] = "ACTIVE"
    THEN /\ pending' = RemoveFirst(pending, m)
         /\ active' = Append(active, m)
    ELSE UNCHANGED lists

move_to_active(m) ==
  IF m \in ToSet(pending)
    THEN /\ pending' = RemoveFirst(pending, m)
         /\ active' = Append(active, m)
    ELSE UNCHANGED lists

\* Mutation: appended even when the member is not found in active.
MoveUnconditionally(m) ==
  /\ active' = RemoveFirst(active, m)
  /\ pending' = Append(pending, m)

move_to_pending(m) ==
  IF m \in ToSet(active)
    THEN /\ active' = RemoveFirst(active, m)
         /\ pending' = Append(pending, m)
    ELSE UNCHANGED lists

remove_active(m) == active' = RemoveFirst(active, m) /\ UNCHANGED pending

remove_pending(m) == pending' = RemoveFirst(pending, m) /\ UNCHANGED active

-----------------------------------------------------------------------------
(* The client of a member.  A callback ends before the next one starts:    *)
(* the next command is sent from the callback of the one before it.        *)

\* An administrator is inside add_member for m.
Adding(m) ==
  \E a \in Admins : apc[a] \in {"started", "append"} /\ target[a] = m

Running(m) ==
  /\ started[m] /\ ~shut[m] /\ mpc[m] = "idle"
  /\ StartIsSlow => ~Adding(m)

\* GoOnline: the base client marks itself online, then the cluster is told.
GoOnline(m) ==
  /\ Running(m) /\ ~online[m]
  /\ online' = [online EXCEPT ![m] = TRUE]
  /\ mpc' = [mpc EXCEPT ![m] = "up"]
  /\ UNCHANGED <<lists, started, active_sessions, shut, status, watched,
                 calls, admin>>

\* rtpp_status_change(m, true).
OnlineReported(m) ==
  /\ mpc[m] = "up"
  /\ move_to_active(m)
  /\ mpc' = [mpc EXCEPT ![m] = "idle"]
  /\ UNCHANGED <<started, online, active_sessions, shut, status, watched,
                 calls, admin>>

\* A heartbeat is not answered: the count is forgotten and GoOffline tells
\* the cluster first (rtpp_status_change(m, false)) ...
GoOffline(m) ==
  /\ Running(m) /\ online[m]
  /\ active_sessions' = [active_sessions EXCEPT ![m] = -1]
  /\ move_to_pending(m)
  /\ mpc' = [mpc EXCEPT ![m] = "down"]
  /\ UNCHANGED <<started, online, shut, status, watched, calls, admin>>

\* ... and marks the base client offline afterwards, unless it is shut down.
OfflineMarked(m) ==
  /\ mpc[m] = "down"
  /\ online' = [online EXCEPT ![m] = shut[m]]
  /\ mpc' = [mpc EXCEPT ![m] = "idle"]
  /\ UNCHANGED <<lists, started, active_sessions, shut, status, watched,
                 calls, admin>>

\* A heartbeat is answered with the number of sessions.  The callback runs
\* only if one is set and the count changed; the count is stored last.
UpdateActive(m) ==
  LET n == Cardinality(live[m]) IN
  /\ Running(m) /\ online[m]
  /\ IF n # active_sessions[m] /\ watched[m]
       THEN /\ mpc' = [mpc EXCEPT ![m] = "change"]
            /\ UNCHANGED active_sessions
       ELSE /\ active_sessions' = [active_sessions EXCEPT ![m] = n]
            /\ UNCHANGED mpc
  /\ UNCHANGED <<lists, started, online, shut, status, watched, calls, admin>>

\* Mutation: a draining member waits for both conditions.
ActiveChangeWaitsForBoth(m) ==
  LET n == Cardinality(live[m]) IN
  /\ mpc[m] = "change"
  /\ active_sessions' = [active_sessions EXCEPT ![m] = n]
  /\ IF status[m] = "DRAINING" /\ book[m].call_id_map = {} /\ n <= 0
       THEN /\ IF m \in ToSet(pending) THEN remove_pending(m)
                                       ELSE remove_active(m)
            /\ mpc' = [mpc EXCEPT ![m] = "stop"]
       ELSE /\ mpc' = [mpc EXCEPT ![m] = "idle"]
            /\ UNCHANGED lists
  /\ UNCHANGED <<started, online, shut, status, watched, calls, admin>>

\* rtpp_active_change, and the store at the end of UpdateActive.  Only the
\* member's own client moves it between the lists, so the list looked at is
\* the list removed from.
rtpp_active_change(m) ==
  LET n == Cardinality(live[m]) IN
  /\ mpc[m] = "change"
  /\ active_sessions' = [active_sessions EXCEPT ![m] = n]
  /\ IF status[m] = "DRAINING" /\ (book[m].call_id_map = {} \/ n <= 0)
       THEN /\ IF m \in ToSet(pending) THEN remove_pending(m)
                                       ELSE remove_active(m)
            /\ mpc' = [mpc EXCEPT ![m] = "stop"]
       ELSE /\ mpc' = [mpc EXCEPT ![m] = "idle"]
            /\ UNCHANGED lists
  /\ UNCHANGED <<started, online, shut, status, watched, calls, admin>>

\* The rtpp.Shutdown() that ends rtpp_active_change.
DrainedShutdown(m) ==
  /\ mpc[m] = "stop"
  /\ shut' = [shut EXCEPT ![m] = TRUE]
  /\ mpc' = [mpc EXCEPT ![m] = "idle"]
  /\ UNCHANGED <<lists, started, online, active_sessions, status, watched,
                 calls, admin>>

ClientNext(m) ==
  \/ GoOnline(m) \/ OnlineReported(m)
  \/ GoOffline(m) \/ OfflineMarked(m)
  \/ UpdateActive(m) \/ rtpp_active_change(m) \/ DrainedShutdown(m)

-----------------------------------------------------------------------------
(* The administrators.  add: look the name up, create the member, start    *)
(* it, read IsOnline(), append it to the list that was read.               *)

\* A member object is created by one administrator and never again.
Fresh(m) == ~started[m] /\ \A a \in Admins : target[a] # m

AddFind(a, m) ==
  /\ "add" \in AdminOps
  /\ apc[a] = "idle" /\ Fresh(m)
  /\ rtpp_by_name(NameOf[m]) = NoMember
  /\ \E s \in AddStatuses : status' = [status EXCEPT ![m] = s]
  /\ apc' = [apc EXCEPT ![a] = "found"]
  /\ target' = [target EXCEPT ![a] = m]
  /\ UNCHANGED <<lists, started, client, shut, watched, calls, seen>>

AddStart(a) ==
  /\ apc[a] = "found"
  /\ started' = [started EXCEPT ![target[a]] = TRUE]
  /\ apc' = [apc EXCEPT ![a] = "started"]
  /\ UNCHANGED <<lists, client, shut, status, watched, calls, target, seen>>

AddCheck(a) ==
  /\ apc[a] = "started"
  /\ seen' = [seen EXCEPT ![a] = online[target[a]]]
  /\ apc' = [apc EXCEPT ![a] = "append"]
  /\ UNCHANGED <<lists, started, client, shut, status, watched, calls, target>>

\* The command is over: its local variables are gone.
Done(a) ==
  /\ apc' = [apc EXCEPT ![a] = "idle"]
  /\ target' = [target EXCEPT ![a] = NoMember]
  /\ seen' = [seen EXCEPT ![a] = FALSE]

AddAppend(a) ==
  /\ apc[a] = "append"
  /\ IF seen[a] THEN append_active(target[a]) ELSE append_pending(target[a])
  /\ Done(a)
  /\ UNCHANGED <<started, client, shut, status, watched, calls>>

(* remove and delete: bring_down.                                          *)

DeleteFind(a, m) ==
  /\ "delete" \in AdminOps
  /\ apc[a] = "idle"
  /\ m \in Listed /\ rtpp_by_name(NameOf[m]) = m
  /\ apc' = [apc EXCEPT ![a] = "scan"]
  /\ target' = [target EXCEPT ![a] = m]
  /\ UNCHANGED <<lists, started, client, shut, status, watched, calls, seen>>

\* if self.is_in_active(rtpp)
BdScan(a) ==
  /\ apc[a] = "scan"
  /\ apc' = [apc EXCEPT ![a] = IF target[a] \in ToSet(active)
                                 THEN "check" ELSE "remove_pending"]
  /\ UNCHANGED <<lists, started, client, shut, status, watched, calls,
                 target, seen>>

\* Is there anything to wait for?
BdCheck(a) ==
  LET m == target[a] IN
  /\ apc[a] = "check"
  /\ apc' = [apc EXCEPT ![a] =
               IF book[m].call_id_map = {} \/ active_sessions[m] <= 0
                 THEN "remove_active" ELSE "drain"]
  /\ UNCHANGED <<lists, started, client, shut, status, watched, calls,
                 target, seen>>

BdRemove(a) ==
  /\ \/ apc[a] = "remove_active" /\ remove_active(target[a])
     \/ apc[a] = "remove_pending" /\ remove_pending(target[a])
  /\ apc' = [apc EXCEPT ![a] = "stop"]
  /\ UNCHANGED <<started, client, shut, status, watched, calls, target, seen>>

BdShutdown(a) ==
  /\ apc[a] = "stop"
  /\ shut' = [shut EXCEPT ![target[a]] = TRUE]
  /\ Done(a)
  /\ UNCHANGED <<lists, started, client, status, watched, calls>>

\* The two assignments are one step: no other goroutine reads both.
BdDrain(a) ==
  /\ apc[a] = "drain"
  /\ status' = [status EXCEPT ![target[a]] = "DRAINING"]
  /\ watched' = [watched EXCEPT ![target[a]] = TRUE]
  /\ Done(a)
  /\ UNCHANGED <<lists, started, client, shut, calls>>

SetStatus(a, m, op, s) ==
  /\ op \in AdminOps
  /\ apc[a] = "idle"
  /\ m \in Listed /\ rtpp_by_name(NameOf[m]) = m
  /\ status' = [status EXCEPT ![m] = s]
  /\ UNCHANGED <<lists, started, client, shut, watched, calls, admin>>

Pause(a, m) == SetStatus(a, m, "pause", "SUSPENDED")

Resume(a, m) == SetStatus(a, m, "resume", "ACTIVE")

\* The steps of a command that was read from the connection.
CommandGoesOn(a) ==
  \/ AddStart(a) \/ AddCheck(a) \/ AddAppend(a)
  \/ BdScan(a) \/ BdCheck(a) \/ BdRemove(a) \/ BdShutdown(a) \/ BdDrain(a)

AdminNext(a) ==
  \/ \E m \in Members : \/ AddFind(a, m) \/ DeleteFind(a, m)
                        \/ Pause(a, m) \/ Resume(a, m)
  \/ CommandGoesOn(a)

-----------------------------------------------------------------------------
(* The signalling commands, and what happens at the RTPproxy.              *)

\* The first member that knows the call, active members first.
Owner(c) == FirstOf(active \o pending, {m \in Members : Knows(book[m], c)})

BookUnchanged == UNCHANGED <<lists, started, client, shut, status, watched,
                             admin>>

\* A U without a to-tag for a call no active member knows: pick_proxy takes
\* one of the members it may, and the member creates the session.
StartSession(m, c) ==
  /\ \A x \in ToSet(active) : ~Knows(book[x], c)
  /\ m \in ToSet(active) /\ status[m] = "ACTIVE" /\ online[m]
  /\ book' = [book EXCEPT ![m] = bind_session(@, c, "U")]
  /\ live' = [live EXCEPT ![m] = @ \cup {c}]
  /\ BookUnchanged

\* Any other command routed by the call.
TouchSession(m, c) ==
  /\ Owner(c) = m
  /\ book' = [book EXCEPT ![m] = isYours(@, c)]
  /\ UNCHANGED live
  /\ BookUnchanged

\* A D: it reaches the RTPproxy if that is up.
EndSession(m, c) ==
  /\ Owner(c) = m
  /\ book' = [book EXCEPT ![m] = unbind_session(isYours(@, c), c)]
  /\ live' = [live EXCEPT ![m] = IF online[m] THEN @ \ {c} ELSE @]
  /\ BookUnchanged

\* The RTPproxy itself ends a session (no media).
Expire(m, c) ==
  /\ c \in live[m]
  /\ live' = [live EXCEPT ![m] = @ \ {c}]
  /\ UNCHANGED book
  /\ BookUnchanged

\* The aging timer of the member.
Age(m) ==
  /\ started[m] /\ ~shut[m]
  /\ book' = [book EXCEPT ![m] = call_id_map_aging(@)]
  /\ UNCHANGED live
  /\ BookUnchanged

CallNext(m) ==
  \/ \E c \in Calls : \/ StartSession(m, c) \/ TouchSession(m, c)
                      \/ EndSession(m, c) \/ Expire(m, c)
  \/ Age(m)

-----------------------------------------------------------------------------
Next ==
  \/ \E m \in Members : ClientNext(m) \/ CallNext(m)
  \/ \E a \in Admins : AdminNext(a)

Spec == Init /\ [][Next]_vars

(* Fairness: a command and a callback that started end, an RTPproxy that is *)
(* down comes back, sessions end, and a member that is online again and    *)
(* again reports its count.                                                *)
Fairness ==
  /\ \A a \in Admins : WF_vars(CommandGoesOn(a))
  /\ \A m \in Members :
    /\ WF_vars(OnlineReported(m)) /\ WF_vars(OfflineMarked(m))
    /\ WF_vars(rtpp_active_change(m)) /\ WF_vars(DrainedShutdown(m))
    /\ WF_vars(GoOnline(m))
    /\ WF_vars(\E c \in Calls : Expire(m, c))
    /\ SF_vars(UpdateActive(m))

FairSpec == Spec /\ Fairness

-----------------------------------------------------------------------------
(* Properties.                                                             *)

\* However the lists are changed by the clients and by the administrators at
\* once, a member is in at most one of them and at most once: a duplicate
\* would double its share of the new sessions and survive its removal.
NoDoubleListing ==
  /\ IsInjective(active) /\ IsInjective(pending)
  /\ ToSet(active) \cap ToSet(pending) = {}

\* Somebody removed m from the lists and is about to shut it down.
Stopping(m) ==
  \/ mpc[m] = "stop"
  \/ \E a \in Admins : apc[a] = "stop" /\ target[a] = m

\* A member whose client runs can be found in a list, unless an addition or
\* a removal of it is under way: no member keeps sending heartbeats where
\* neither a command nor an administrator can reach it.
ListedUntilShut ==
  \A m \in Members :
    started[m] /\ ~shut[m] /\ ~Adding(m) /\ ~Stopping(m) => m \in Listed

\* When the client of a listed member is between two callbacks, the member
\* is in the list that its availability calls for.
ListMatchesOnline ==
  \A m \in Listed :
    ~shut[m] /\ mpc[m] = "idle" => (m \in ToSet(active) <=> online[m])

\* No two listed members share a name: the name is all an administrator has
\* to say which member to delete, pause or resume.
NamesUnique ==
  \A m, x \in Listed : NameOf[m] = NameOf[x] => m = x

\* A call some command was routed by is never forgotten directly: it is in
\* the old map for at least one period of the aging timer first.
RoutedCallsAgeTwice ==
  [][\A m \in Members : \A c \in book[m].call_id_map :
        Knows(book'[m], c)]_vars

\* A draining member that waits for its callback, and whose last count was
\* not zero, is in the end removed and shut down.
ArmedDrainCompletes ==
  \A m \in Members :
    (status[m] = "DRAINING" /\ watched[m] /\ active_sessions[m] # 0) ~> shut[m]

(* What the documentation says and the code does not do.                   *)

\* A member that was shut down is in no list.
NoZombie == \A m \in Listed : ~shut[m]
=============================================================================
