------------------------------- MODULE Reload -------------------------------
(***************************************************************************)
(* How the configuration file becomes clusters, members and relays: the    *)
(* start of the process (main.go), the reload command (rtp_cluster_cli.go) *)
(* and what they call: NewRtp_cluster, update_dnrelay, add_member,         *)
(* bring_down and Shutdown (rtp_cluster.go) and the allow list of the      *)
(* relay (dnrelay.go).                                                     *)
(*                                                                         *)
(* One administrator gives commands, one after another; the loops of his   *)
(* reload are interrupted by the ends of drains and by a command of a      *)
(* client that looks at the relay twice.  A cluster stands for the objects *)
(* of its name: there is one at a time, as the next cannot be created      *)
(* while the address is bound.  How a list of members orders, loses or     *)
(* hides them is in Cluster and MemberSlices.                              *)
(***************************************************************************)
EXTENDS Naturals, Sequences, FiniteSets, SequencesExt

CONSTANTS
  Names,     \* of clusters
  Hosts,     \* names of members
  Addresses, \* addresses of members
  Unix,      \* stands for any path of a unix socket: the member is local
  Relays,    \* configurations of a relay
  Configs,   \* what Read_cluster_config may return
  Additions, \* the members an administrator may add to which cluster
  NoRelay, NoList, NoName, NoConfig

Statuses == {"ACTIVE", "SUSPENDED", "DRAINING"}
MemberConfig == [host : Hosts, addr : Addresses \cup {Unix}, supported : BOOLEAN,
                 status : {"ACTIVE", "SUSPENDED"}]

Entries == [name : Names, relay : Relays \cup {NoRelay}, members : Seq(MemberConfig)]

\* Bounds: names are distinct; what repeated names come to is in ClusterConfig.
\* The file does not give the status DRAINING, which the reader lets pass.
ASSUME ConfigsAssumption ==
  /\ Configs \subseteq Seq(Entries)
  /\ Additions \subseteq [to : Names, member : MemberConfig]

ASSUME NamesAssumption ==
  \A c \in Configs :
    /\ \A j, k \in DOMAIN c : c[j].name = c[k].name => j = k
    /\ \A e \in ToSet(c) : \A j, k \in DOMAIN e.members :
         e.members[j].host = e.members[k].host => j = k

ASSUME ListAssumption == \A l \in SUBSET Addresses : l # NoList

VARIABLES
  (* the clusters *)
  up,       \* the cluster object runs
  relay,    \* its dnrelay, by the configuration it was made of
  allow,    \* the accept list of the relay
  members,  \* in active or pending
  addr, status, \* of each member
  (* the command in progress *)
  pc, starting, config,
  ci, mi,   \* the cluster and the member of config the loops are at
  todo,     \* members the last loop over a cluster has not come to
  kept,     \* allow_from of update_dnrelay
  rtp_clusters, new_rtp_clusters,
  using,    \* the cluster whose relay a client's command has found
  (* history *)
  applied,  \* the configuration in force: applied last, nothing changed since,
            \* and no other begun
  fresh,    \* clusters the command in progress has created
  leaked,   \* clusters created by commands that failed
  barred,   \* members bring_down was called for
  caveat    \* what happened to a cluster that its allow list does not follow

cluster  == <<up, relay, allow, members, addr, status>>
progress == <<pc, starting, config, ci, mi, todo, kept>>
lists    == <<rtp_clusters, new_rtp_clusters>>
history  == <<applied, fresh, leaked, barred, caveat>>
vars     == <<cluster, progress, lists, using, history>>

Entry == config[ci]
This  == Entry.name
HostsOf(e) == {m.host : m \in ToSet(e.members)}
NamesOf(c) == [k \in DOMAIN c |-> c[k].name]
Accepts(c) == allow[c] # NoList

ClusterOK ==
  /\ up \in [Names -> BOOLEAN]
  /\ relay \in [Names -> Relays \cup {NoRelay}]
  /\ allow \in [Names -> {NoList} \cup SUBSET Addresses]
  /\ members \in [Names -> SUBSET Hosts]
  /\ addr \in [Names -> [Hosts -> Addresses \cup {Unix}]]
  /\ status \in [Names -> [Hosts -> Statuses]]
  /\ barred \in [Names -> SUBSET Hosts]
  /\ caveat \in [Names -> {"none", "lost", "stale"}]

TypeOK ==
  /\ ClusterOK
  /\ pc \in {"idle", "cluster", "drop", "relay", "member", "sweep", "shutdown", "exit", "panic"}
  /\ starting \in BOOLEAN /\ config \in Configs \cup {<<>>}
  /\ ci \in 1 .. Len(config) + 1 /\ mi \in Nat \ {0}
  /\ todo \subseteq Hosts /\ kept \in {NoList} \cup SUBSET Addresses
  /\ rtp_clusters \in Seq(Names) /\ new_rtp_clusters \in Seq(Names)
  /\ using \in Names \cup {NoName}
  /\ applied \in Configs \cup {<<>>, NoConfig}
  /\ fresh \subseteq Names /\ leaked \subseteq Names

\* The process starts: it has read the file, or found none.
Init ==
  /\ up = [c \in Names |-> FALSE]
  /\ relay = [c \in Names |-> NoRelay] /\ allow = [c \in Names |-> NoList]
  /\ members = [c \in Names |-> {}]
  /\ addr = [c \in Names |-> [h \in Hosts |-> Unix]]
  /\ status = [c \in Names |-> [h \in Hosts |-> "ACTIVE"]]
  /\ pc = "cluster" /\ starting = TRUE /\ config \in Configs \cup {<<>>}
  /\ ci = 1 /\ mi = 1 /\ todo = {} /\ kept = NoList
  /\ rtp_clusters = <<>> /\ new_rtp_clusters = <<>> /\ using = NoName
  /\ applied = NoConfig /\ fresh = {} /\ leaked = {}
  /\ barred = [c \in Names |-> {}] /\ caveat = [c \in Names |-> "none"]

-----------------------------------------------------------------------------
(* Operations on a cluster and its members.                                *)

\* NewRtp_cluster, up to its call of update_dnrelay.
Create(c) ==
  /\ up' = [up EXCEPT ![c] = TRUE]
  /\ relay' = [relay EXCEPT ![c] = NoRelay]
  /\ allow' = [allow EXCEPT ![c] = NoList]
  /\ barred' = [barred EXCEPT ![c] = {}] /\ caveat' = [caveat EXCEPT ![c] = "none"]
  /\ fresh' = fresh \cup {c}
  /\ UNCHANGED <<members, addr, status, applied, leaked>>

\* add_member, and the fields set before it.
add_member(c, m) ==
  /\ members' = [members EXCEPT ![c] = @ \cup {m.host}]
  /\ addr' = [addr EXCEPT ![c][m.host] = m.addr]
  /\ status' = [status EXCEPT ![c][m.host] = m.status]
  /\ allow' = IF m.addr = Unix \/ relay[c] = NoRelay THEN allow
              ELSE [allow EXCEPT ![c] = IF Accepts(c) THEN @ \cup {m.addr} ELSE {m.addr}]
  /\ barred' = [barred EXCEPT ![c] = @ \ {m.host}]
  /\ UNCHANGED <<up, relay>>

\* The member leaves its list and is shut down; nothing more is kept of it.
TakeOut(c, h) ==
  /\ members' = [members EXCEPT ![c] = @ \ {h}] /\ barred' = [barred EXCEPT ![c] = @ \ {h}]
  /\ status' = [status EXCEPT ![c][h] = "ACTIVE"] /\ addr' = [addr EXCEPT ![c][h] = Unix]

Drain(c, h) ==
  /\ status' = [status EXCEPT ![c][h] = "DRAINING"] /\ barred' = [barred EXCEPT ![c] = @ \cup {h}]
  /\ UNCHANGED <<members, addr>>

\* Mutation: the address stays allowed.
BringDownKeepsAddress(c, h) ==
  /\ TakeOut(c, h) \/ Drain(c, h)
  /\ UNCHANGED <<up, relay, allow, caveat>>

\* An address that should be accepted no longer is.
Missing(c) == [caveat EXCEPT ![c] = IF @ = "stale" THEN @ ELSE "lost"]

\* bring_down: an idle member is removed, a busy one drains.
bring_down(c, h) ==
  /\ allow' = IF relay[c] = NoRelay \/ ~ Accepts(c) THEN allow
              ELSE [allow EXCEPT ![c] = @ \ {addr[c][h]}]
  /\ caveat' = IF \E other \in members[c] \ {h} : addr[c][other] = addr[c][h]
                 THEN Missing(c) ELSE caveat
  /\ TakeOut(c, h) \/ Drain(c, h)
  /\ UNCHANGED <<up, relay>>

\* Shutdown of a cluster.  Its relay is shut down but stays set: a command
\* that still holds the object is safe.
Shutdown(cs) ==
  /\ up' = [c \in Names |-> up[c] /\ c \notin cs]
  /\ members' = [c \in Names |-> IF c \in cs THEN {} ELSE members[c]]
  /\ addr' = [c \in Names |-> IF c \in cs THEN [h \in Hosts |-> Unix] ELSE addr[c]]
  /\ status' = [c \in Names |-> IF c \in cs THEN [h \in Hosts |-> "ACTIVE"] ELSE status[c]]
  /\ relay' = [c \in Names |-> IF c \in cs THEN NoRelay ELSE relay[c]]
  /\ allow' = [c \in Names |-> IF c \in cs THEN NoList ELSE allow[c]]
  /\ barred' = [c \in Names |-> IF c \in cs THEN {} ELSE barred[c]]
  /\ caveat' = [c \in Names |-> IF c \in cs THEN "none" ELSE caveat[c]]
  /\ using' = IF using \in cs THEN NoName ELSE using

-----------------------------------------------------------------------------
(* Start and reload.                                                       *)

\* reload reads the file; a file it cannot read is only logged and is empty.
ReadConfig ==
  /\ pc = "idle"
  /\ config' \in Configs \cup {<<>>}
  /\ ci' = 1 /\ new_rtp_clusters' = <<>> /\ pc' = "cluster"
  /\ applied' = IF config' = applied THEN applied ELSE NoConfig
  /\ UNCHANGED <<cluster, starting, mi, todo, kept, rtp_clusters, using,
                 fresh, leaked, barred, caveat>>

\* The returns in the middle: main ends the process, reload just stops.
Fail ==
  /\ pc' = IF starting THEN "exit" ELSE "idle"
  /\ config' = <<>> /\ ci' = 1 /\ mi' = 1 /\ new_rtp_clusters' = <<>>
  /\ leaked' = IF starting THEN leaked ELSE leaked \cup fresh
  /\ fresh' = {} /\ applied' = NoConfig
  /\ UNCHANGED <<cluster, starting, todo, kept, rtp_clusters, using, barred, caveat>>

FindCluster ==
  /\ pc = "cluster" /\ ci <= Len(config)
  /\ \/ /\ ~ starting /\ This \in ToSet(rtp_clusters)
        /\ pc' = "drop"
        /\ UNCHANGED <<cluster, history>>
     \/ /\ (starting \/ This \notin ToSet(rtp_clusters)) /\ ~ up[This]
        /\ Create(This)
        /\ pc' = "drop"
  /\ UNCHANGED <<starting, config, ci, mi, todo, kept, lists, using>>

\* The address of the cluster is in use or wrong.
CreationFails ==
  /\ pc = "cluster" /\ ci <= Len(config)
  /\ starting \/ This \notin ToSet(rtp_clusters)
  /\ Fail

\* Mutation: the old relay is dropped even if its configuration is the same.
DropAlways ==
  /\ pc = "drop"
  /\ relay' = [relay EXCEPT ![This] = NoRelay]
  /\ kept' = IF Entry.relay = NoRelay THEN NoList ELSE allow[This]
  /\ allow' = [allow EXCEPT ![This] = NoList]
  /\ pc' = IF Entry.relay = NoRelay THEN "member" ELSE "relay"
  /\ UNCHANGED caveat
  /\ UNCHANGED <<up, members, addr, status, starting, config, ci, mi, todo, lists, using,
                 applied, fresh, leaked, barred>>

\* update_dnrelay, the first half: the relay in force stays or is shut down.
DropRelay ==
  /\ pc = "drop"
  /\ IF relay[This] # NoRelay /\ relay[This] = Entry.relay
       THEN pc' = "member" /\ UNCHANGED <<relay, allow, kept, caveat>>
       ELSE /\ relay' = [relay EXCEPT ![This] = NoRelay]
            /\ kept' = IF Entry.relay = NoRelay THEN NoList ELSE allow[This]
            /\ allow' = [allow EXCEPT ![This] = NoList]
            /\ pc' = IF Entry.relay = NoRelay THEN "member" ELSE "relay"
            /\ caveat' = IF Entry.relay = NoRelay
                           THEN [caveat EXCEPT ![This] = "lost"] ELSE caveat
  /\ UNCHANGED <<up, members, addr, status, starting, config, ci, mi, todo, lists, using,
                 applied, fresh, leaked, barred>>

\* Mutation: the allow list is not handed over.
NewRelayForgets ==
  /\ pc = "relay" /\ pc' = "member" /\ kept' = NoList
  /\ relay' = [relay EXCEPT ![This] = Entry.relay]
  /\ UNCHANGED <<up, allow, members, addr, status, starting, config, ci, mi, todo, lists,
                 using, history>>

\* The second half: the new relay gets the list of the old one, or cannot be
\* created, and the list is lost.
NewRelay ==
  /\ pc = "relay" /\ pc' = "member" /\ kept' = NoList
  /\ \/ /\ relay' = [relay EXCEPT ![This] = Entry.relay]
        /\ allow' = [allow EXCEPT ![This] = kept]
        /\ UNCHANGED caveat
     \/ /\ caveat' = [caveat EXCEPT ![This] = "lost"]
        /\ UNCHANGED <<relay, allow>>
  /\ UNCHANGED <<up, members, addr, status, starting, config, ci, mi, todo, lists, using,
                 applied, fresh, leaked, barred>>

UnsupportedMember ==
  /\ pc = "member" /\ mi <= Len(Entry.members) /\ ~ Entry.members[mi].supported
  /\ Fail

\* NewRtp_cluster_member returns nil for an address it cannot use, and its
\* callers go on with it.
UnusableMember ==
  /\ \/ /\ pc = "member" /\ mi <= Len(Entry.members)
        /\ Entry.members[mi].supported
        /\ starting \/ Entry.members[mi].host \notin members[This]
     \/ pc = "idle" /\ Additions # {}
  /\ pc' = "panic"
  /\ UNCHANGED <<cluster, starting, config, ci, mi, todo, kept, lists, using, history>>

\* Mutation: members that are there are left as they are.
LoadNewOnly ==
  /\ pc = "member" /\ mi <= Len(Entry.members)
  /\ mi' = mi + 1
  /\ LET m == Entry.members[mi]
     IN  /\ m.supported
         /\ IF m.host \in members[This] THEN UNCHANGED <<cluster, barred>>
                                        ELSE add_member(This, m)
  /\ UNCHANGED <<pc, starting, config, ci, todo, kept, lists, using,
                 applied, fresh, leaked, caveat>>

\* A member of that name is reconnected and its fields are overwritten, the
\* status of a draining one too; otherwise one is added.
LoadMember ==
  /\ pc = "member" /\ mi <= Len(Entry.members)
  /\ mi' = mi + 1
  /\ LET m == Entry.members[mi]
     IN  /\ m.supported
         /\ IF m.host \in members[This]
              THEN /\ addr' = [addr EXCEPT ![This][m.host] = m.addr]
                   /\ status' = [status EXCEPT ![This][m.host] = m.status]
                   /\ caveat' = IF m.addr = addr[This][m.host] THEN caveat
                                ELSE IF Accepts(This) THEN [caveat EXCEPT ![This] = "stale"]
                                ELSE Missing(This)
                   /\ UNCHANGED <<up, relay, allow, members, barred>>
              ELSE add_member(This, m) /\ UNCHANGED caveat
  /\ UNCHANGED <<pc, starting, config, ci, todo, kept, lists, using, applied, fresh, leaked>>

NextCluster ==
  /\ ci' = ci + 1 /\ mi' = 1 /\ pc' = "cluster"
  /\ new_rtp_clusters' = Append(new_rtp_clusters, This)

\* All members of the entry are loaded: main goes on with the next cluster,
\* reload looks for members to bring down.
MembersLoaded ==
  /\ pc = "member" /\ mi > Len(Entry.members)
  /\ IF starting THEN NextCluster /\ UNCHANGED todo
     ELSE /\ pc' = "sweep" /\ todo' = members[This]
          /\ UNCHANGED <<ci, mi, new_rtp_clusters>>
  /\ UNCHANGED <<cluster, starting, config, kept, rtp_clusters, using, history>>

\* The loop over all_members.  A removal shifts the list under the loop, and
\* hides one member from it (MemberSlices).
Sweep ==
  /\ pc = "sweep"
  /\ \/ /\ todo = {} /\ NextCluster
        /\ UNCHANGED <<cluster, todo, barred, caveat>>
     \/ /\ \E h \in todo :
             \/ h \in HostsOf(Entry) /\ todo' = todo \ {h} /\ UNCHANGED <<cluster, barred, caveat>>
             \/ /\ h \notin HostsOf(Entry) /\ bring_down(This, h)
                /\ \/ todo' = todo \ {h}
                   \/ h \notin members'[This] /\ \E hidden \in todo : todo' = todo \ {h, hidden}
        /\ UNCHANGED <<pc, ci, mi, new_rtp_clusters>>
  /\ UNCHANGED <<starting, config, kept, rtp_clusters, using, applied, fresh, leaked>>

AllLoaded ==
  /\ pc = "cluster" /\ ci > Len(config) /\ ~ starting
  /\ pc' = "shutdown"
  /\ UNCHANGED <<cluster, starting, config, ci, mi, todo, kept, lists, using, history>>

\* Mutation: clusters that are no longer configured only leave the list.
ShutdownForgotten(c) ==
  /\ pc = "shutdown" /\ c \in ToSet(rtp_clusters) \ ToSet(new_rtp_clusters) /\ up[c]
  /\ pc' = "idle" /\ rtp_clusters' = new_rtp_clusters
  /\ UNCHANGED <<cluster, starting, config, ci, mi, todo, kept, new_rtp_clusters, using, history>>

ShutdownOld(c) ==
  /\ pc = "shutdown" /\ c \in ToSet(rtp_clusters) \ ToSet(new_rtp_clusters) /\ up[c]
  /\ Shutdown({c})
  /\ UNCHANGED <<progress, lists, applied, fresh, leaked>>

Replaced ==
  /\ rtp_clusters' = new_rtp_clusters /\ new_rtp_clusters' = <<>>
  /\ applied' = config /\ config' = <<>> /\ ci' = 1 /\ fresh' = {}

\* The end of a reload; and of the start, unless it is a dry run.
Replace ==
  /\ \/ /\ pc = "shutdown"
        /\ \A c \in ToSet(rtp_clusters) \ ToSet(new_rtp_clusters) : ~ up[c]
     \/ pc = "cluster" /\ ci > Len(config) /\ starting
  /\ pc' = "idle" /\ starting' = FALSE
  /\ Replaced
  /\ UNCHANGED <<cluster, mi, todo, kept, using, leaked, barred, caveat>>

DryRun ==
  /\ pc = "cluster" /\ ci > Len(config) /\ starting
  /\ pc' = "exit"
  /\ Shutdown(ToSet(new_rtp_clusters))
  /\ UNCHANGED <<starting, config, ci, mi, todo, kept, lists, applied, fresh, leaked>>

-----------------------------------------------------------------------------
(* What else happens.                                                      *)

\* The administrator's modify: add, delete, pause and resume.
Modify(c) ==
  /\ pc = "idle" /\ c \in ToSet(rtp_clusters)
  /\ \/ \E a \in Additions :
          /\ a.to = c /\ a.member.supported /\ a.member.host \notin members[c]
          /\ add_member(c, a.member) /\ UNCHANGED caveat
     \/ \E h \in members[c] : bring_down(c, h)
     \/ \E h \in members[c], s \in {"ACTIVE", "SUSPENDED"} :
          /\ status' = [status EXCEPT ![c][h] = s]
          /\ UNCHANGED <<up, relay, allow, members, addr, barred, caveat>>
  /\ applied' = NoConfig
  /\ UNCHANGED <<progress, lists, using, fresh, leaked>>

\* The last session of a draining member ends.
DrainEnds(c, h) ==
  /\ pc \notin {"exit", "panic"}
  /\ h \in members[c] \cap barred[c] /\ status[c][h] = "DRAINING"
  /\ TakeOut(c, h)
  /\ UNCHANGED <<up, relay, allow, progress, lists, using, applied, fresh, leaked, caveat>>

\* A client's command finds that the cluster has a relay, and then uses it.
FindRelay(c) ==
  /\ pc \notin {"exit", "panic"}
  /\ using = NoName /\ up[c] /\ relay[c] # NoRelay
  /\ using' = c
  /\ UNCHANGED <<cluster, progress, lists, history>>

UseRelay ==
  /\ pc \notin {"exit", "panic"} /\ using # NoName
  /\ using' = NoName
  /\ pc' = IF relay[using] = NoRelay THEN "panic" ELSE pc
  /\ UNCHANGED <<cluster, starting, config, ci, mi, todo, kept, lists, history>>

Next ==
  \/ ReadConfig \/ FindCluster \/ CreationFails \/ DropRelay \/ NewRelay
  \/ UnsupportedMember \/ UnusableMember \/ LoadMember \/ MembersLoaded \/ Sweep
  \/ AllLoaded \/ Replace \/ DryRun \/ UseRelay
  \/ \E c \in Names :
       \/ ShutdownOld(c) \/ Modify(c) \/ FindRelay(c)
       \/ \E h \in Hosts : DrainEnds(c, h)

Spec == Init /\ [][Next]_vars

-----------------------------------------------------------------------------
(* Properties.                                                             *)

\* A cluster that runs can be reached by the administrator, or a command
\* that created it is still in progress, or one that failed left it behind.
RunningListed ==
  pc \notin {"exit", "panic"} =>
    \A c \in Names : up[c] => c \in ToSet(rtp_clusters) \cup fresh \cup leaked

\* After a reload, until something is changed, the clusters are those of the
\* file in its order, and run, and have the configured members with the
\* configured addresses and statuses, draining or paused before or not.
AppliedInForce ==
  pc = "idle" /\ applied # NoConfig =>
    /\ rtp_clusters = NamesOf(applied)
    /\ \A k \in DOMAIN applied :
         /\ up[applied[k].name]
         /\ \A m \in ToSet(applied[k].members) :
              /\ m.host \in members[applied[k].name]
              /\ addr[applied[k].name][m.host] = m.addr
              /\ status[applied[k].name][m.host] = m.status

\* Loading the configuration in force again, which resets no member as none
\* was changed, disturbs nothing that is configured: no relay that works, no
\* member, no cluster, and so no command that has found its relay.
ReloadHarmless ==
  [][applied # NoConfig /\ config = applied /\ pc \notin {"idle", "exit"} =>
       \A k \in DOMAIN applied :
            LET c == applied[k].name
            IN  /\ up'[c]
                /\ relay[c] # NoRelay => relay'[c] = relay[c]
                /\ \A h \in HostsOf(applied[k]) :
                     h \in members'[c] /\ addr'[c][h] = addr[c][h] /\ status'[c][h] = status[c][h]
     ]_vars

\* The relay accepts connections only from addresses of members, unless a
\* reload moved a member to another address.
AcceptsOnlyMembers ==
  \A c \in Names :
    Accepts(c) /\ caveat[c] # "stale"
      => allow[c] \subseteq {addr[c][h] : h \in members[c]}

\* It accepts them from every member that was not brought down, whatever
\* relays followed each other, unless there was none for a while, a member
\* was moved, or one that shared its address was brought down.
MembersAccepted ==
  \A c \in Names :
    relay[c] # NoRelay /\ caveat[c] = "none" =>
      \A h \in members[c] \ barred[c] :
        addr[c][h] # Unix => Accepts(c) /\ addr[c][h] \in allow[c]
=============================================================================
