---------------------------- MODULE ReloadProofs ----------------------------
(***************************************************************************)
(* Proofs about Reload, for any files, names, members and relays.          *)
(***************************************************************************)
EXTENDS Reload, SequenceTheorems, TLAPS

\* Within one entry of the file.
Loading == {"drop", "relay", "member", "sweep"}

Over == {"exit", "panic"}

\* The addresses of the members of c that bring_down was not called for.
Wanted(c) == {addr[c][h] : h \in members[c] \ barred[c]}

\* Where the loops are, there is an entry and its cluster runs.
AtEntry ==
  /\ pc \in Loading => ci \in 1 .. Len(config) /\ up[This]
  /\ pc = "relay" => Entry.relay # NoRelay /\ relay[This] = NoRelay

\* Who lists the clusters that run, and which of the listed ones run.
Listed ==
  /\ pc \notin Over =>
       /\ \A c \in Names : up[c] => c \in ToSet(rtp_clusters) \cup fresh \cup leaked
       /\ \A c \in fresh : c \in ToSet(new_rtp_clusters) \/ (pc \in Loading /\ c = This)
       /\ \A c \in ToSet(new_rtp_clusters) : up[c]
       /\ pc # "shutdown" => \A c \in ToSet(rtp_clusters) : up[c]
  /\ pc = "idle" => fresh = {}
  /\ starting => rtp_clusters = <<>>

\* What an allow list l of the cluster c holds, if the relay is to have one.
ListOK(c, l) ==
  /\ l # NoList /\ caveat[c] # "stale" => l \subseteq Wanted(c)
  /\ caveat[c] = "none" =>
       \A h \in members[c] \ barred[c] : addr[c][h] # Unix => l # NoList /\ addr[c][h] \in l

Allowed ==
  \A c \in Names :
    /\ ~ up[c] => members[c] = {}
    /\ relay[c] = NoRelay => allow[c] = NoList
    /\ relay[c] # NoRelay => ListOK(c, allow[c])

\* A cluster has no relay, and nothing was lost by that, only while it is new
\* or while update_dnrelay is at it; the list is in allow_from then.
Between ==
  /\ pc \notin Over =>
       \A c \in Names :
         up[c] /\ relay[c] = NoRelay /\ caveat[c] = "none" =>
           c = This /\ (pc = "relay" \/ (pc = "drop" /\ members[c] = {}))
  /\ pc = "relay" => ListOK(This, kept)

IInv == TypeOK /\ AtEntry /\ Listed /\ Allowed /\ Between

-----------------------------------------------------------------------------

LEMMA EntryOK ==
  ASSUME TypeOK, ci \in 1 .. Len(config)
  PROVE  /\ This \in Names /\ Entry.relay \in Relays \cup {NoRelay}
         /\ Entry.members \in Seq(MemberConfig)
<1>1. config \in Seq(Entries)
  BY ConfigsAssumption, EmptySeq DEF TypeOK
<1>2. Entry \in Entries
  BY <1>1 DEF Entry
<1> QED
  BY <1>2 DEF Entries, This

LEMMA MemberOK ==
  ASSUME NEW m \in MemberConfig
  PROVE  /\ m.host \in Hosts /\ m.addr \in Addresses \cup {Unix}
         /\ m.supported \in BOOLEAN /\ m.status \in {"ACTIVE", "SUSPENDED"}
BY DEF MemberConfig

LEMMA InitInv == Init => IInv
<1> SUFFICES ASSUME Init PROVE IInv
  OBVIOUS
<1>1. config \in Seq(Entries)
  BY ConfigsAssumption, EmptySeq DEF Init
<1>2. 1 \in 1 .. Len(config) + 1
  BY <1>1, LenProperties
<1>3. ClusterOK
  BY DEF Init, ClusterOK, Statuses
<1>4. TypeOK
  BY <1>2, <1>3, EmptySeq DEF Init, TypeOK
<1>5. AtEntry /\ Listed /\ Allowed
  BY EmptySeq DEF Init, AtEntry, Listed, Allowed, Loading, Over, ToSet
<1>6. Between
  BY DEF Init, Between, Over
<1> QED
  BY <1>4, <1>5, <1>6 DEF IInv

\* A step that changes no cluster keeps what is said of the clusters.
LEMMA KeepsClusters ==
  ASSUME ClusterOK, Allowed, UNCHANGED <<cluster, barred, caveat>>
  PROVE  /\ ClusterOK' /\ Allowed'
         /\ up' = up /\ relay' = relay /\ allow' = allow /\ members' = members
         /\ addr' = addr /\ status' = status /\ barred' = barred /\ caveat' = caveat
BY DEF cluster, ClusterOK, Allowed, ListOK, Wanted

\* What is said of a cluster depends on its own state only.
LEMMA OneCluster ==
  ASSUME NEW c \in Names, Allowed,
         UNCHANGED <<up[c], relay[c], allow[c], members[c], addr[c], barred[c], caveat[c]>>
  PROVE  /\ (~ up[c] => members[c] = {})'
         /\ (relay[c] = NoRelay => allow[c] = NoList)'
         /\ (relay[c] # NoRelay => ListOK(c, allow[c]))'
BY DEF Allowed, ListOK, Wanted

\* add_member: the address of the new member is allowed.
LEMMA AddMember ==
  ASSUME ClusterOK, Allowed, NEW c \in Names, up[c], NEW m \in MemberConfig,
         m.host \notin members[c], add_member(c, m), caveat' = caveat
  PROVE  ClusterOK' /\ Allowed'
<1> DEFINE h == m.host
           a == m.addr
<1>1. h \in Hosts /\ a \in Addresses \cup {Unix} /\ m.status \in Statuses
  BY MemberOK DEF Statuses
<1>2. /\ members' = [members EXCEPT ![c] = @ \cup {h}]
      /\ addr' = [addr EXCEPT ![c] = [@ EXCEPT ![h] = a]]
      /\ status' = [status EXCEPT ![c] = [@ EXCEPT ![h] = m.status]]
      /\ barred' = [barred EXCEPT ![c] = @ \ {h}]
      /\ up' = up /\ relay' = relay
      /\ a = Unix \/ relay[c] = NoRelay => allow' = allow
      /\ a # Unix /\ relay[c] # NoRelay =>
           \/ allow[c] # NoList /\ allow' = [allow EXCEPT ![c] = @ \cup {a}]
           \/ allow[c] = NoList /\ allow' = [allow EXCEPT ![c] = {a}]
      /\ h \notin members[c]
  BY DEF add_member, Accepts
<1> HIDE DEF h, a
<1>3. ClusterOK'
  <2>1. allow' \in [Names -> {NoList} \cup SUBSET Addresses]
    <3> DEFINE L == {NoList} \cup SUBSET Addresses
    <3>1. allow \in [Names -> L] /\ allow[c] \in L
      BY DEF ClusterOK
    <3>2. PICK l \in L : allow' = [allow EXCEPT ![c] = l]
      <4>1. CASE a = Unix \/ relay[c] = NoRelay
        <5> HIDE DEF L
        <5> QED
          BY <1>2, <3>1, <4>1
      <4>2. CASE a # Unix /\ relay[c] # NoRelay /\ allow[c] # NoList
        BY <1>1, <1>2, <3>1, <4>2
      <4>3. CASE a # Unix /\ relay[c] # NoRelay /\ allow[c] = NoList
        BY <1>1, <1>2, <4>3
      <4> QED
        BY <4>1, <4>2, <4>3
    <3> HIDE DEF L
    <3> QED
      BY <3>1, <3>2 DEF L
  <2>2. members' \in [Names -> SUBSET Hosts] /\ barred' \in [Names -> SUBSET Hosts]
    BY <1>1, <1>2 DEF ClusterOK
  <2>3. addr' \in [Names -> [Hosts -> Addresses \cup {Unix}]]
    BY <1>1, <1>2 DEF ClusterOK
  <2>4. status' \in [Names -> [Hosts -> Statuses]]
    <3>1. DEFINE s == m.status
    <3>2. s \in Statuses /\ status' = [status EXCEPT ![c] = [@ EXCEPT ![h] = s]]
      BY <1>1, <1>2
    <3> HIDE DEF s
    <3> QED
      BY <1>1, <3>2 DEF ClusterOK
  <2> QED
    BY <1>2, <2>1, <2>2, <2>3, <2>4 DEF ClusterOK
<1>4. ASSUME NEW d \in Names
      PROVE  /\ (~ up[d] => members[d] = {})'
             /\ (relay[d] = NoRelay => allow[d] = NoList)'
             /\ (relay[d] # NoRelay => ListOK(d, allow[d]))'
  <2>1. CASE d # c
    <3>1. UNCHANGED <<up[d], relay[d], allow[d], members[d], addr[d], barred[d], caveat[d]>>
      BY <1>2, <2>1 DEF ClusterOK
    <3> QED
      BY <3>1, OneCluster
  <2>2. CASE d = c
    <3>1. /\ up'[c] /\ relay'[c] = relay[c] /\ caveat'[c] = caveat[c]
          /\ members'[c] \ barred'[c] = (members[c] \ barred[c]) \cup {h}
          /\ addr'[c][h] = a
          /\ \A g \in members[c] : addr'[c][g] = addr[c][g]
      BY <1>1, <1>2 DEF ClusterOK
    <3>2. relay[c] = NoRelay => allow'[c] = NoList
      BY <1>2 DEF ClusterOK, Allowed
    <3>3. ASSUME relay[c] # NoRelay
          PROVE  ListOK(c, allow[c])'
      <4>1. ListOK(c, allow[c])
        BY <3>3 DEF Allowed
      <4>2. CASE a = Unix
        BY <1>2, <3>1, <4>1, <4>2 DEF ListOK, Wanted
      <4>3. CASE a # Unix
        <5>1. allow'[c] # NoList /\ a \in allow'[c]
          BY <1>1, <1>2, <3>3, <4>3, ListAssumption DEF ClusterOK
        <5>2. \A x \in allow'[c] : x = a \/ (allow[c] # NoList /\ x \in allow[c])
          BY <1>2, <3>3, <4>3 DEF ClusterOK
        <5>3. allow[c] # NoList => allow[c] \subseteq allow'[c]
          BY <1>2, <3>3, <4>3 DEF ClusterOK
        <5> QED
          BY <3>1, <4>1, <5>1, <5>2, <5>3 DEF ListOK, Wanted
      <4> QED
        BY <4>2, <4>3
    <3> QED
      BY <2>2, <3>1, <3>2, <3>3
  <2> QED
    BY <2>1, <2>2
<1> QED
  BY <1>3, <1>4 DEF Allowed

\* A member that is taken out, or drains.
LEMMA TakeOutType ==
  ASSUME ClusterOK, NEW c \in Names, NEW h \in Hosts, TakeOut(c, h) \/ Drain(c, h)
  PROVE  /\ members' \in [Names -> SUBSET Hosts] /\ barred' \in [Names -> SUBSET Hosts]
         /\ addr' \in [Names -> [Hosts -> Addresses \cup {Unix}]]
         /\ status' \in [Names -> [Hosts -> Statuses]]
         /\ members'[c] \subseteq members[c]
         /\ members'[c] \ barred'[c] = (members[c] \ barred[c]) \ {h}
         /\ \A g \in Hosts \ {h} : addr'[c][g] = addr[c][g]
         /\ \A d \in Names \ {c} : UNCHANGED <<members[d], addr[d], barred[d]>>
<1>1. CASE TakeOut(c, h)
  <2>1. /\ members' = [members EXCEPT ![c] = @ \ {h}]
        /\ barred' = [barred EXCEPT ![c] = @ \ {h}]
        /\ status' = [status EXCEPT ![c] = [@ EXCEPT ![h] = "ACTIVE"]]
        /\ addr' = [addr EXCEPT ![c] = [@ EXCEPT ![h] = Unix]]
    BY <1>1 DEF TakeOut
  <2>2. status' \in [Names -> [Hosts -> Statuses]]
    BY <2>1 DEF ClusterOK, Statuses
  <2>3. addr' \in [Names -> [Hosts -> Addresses \cup {Unix}]]
    BY <2>1 DEF ClusterOK
  <2> QED
    BY <2>1, <2>2, <2>3 DEF ClusterOK
<1>2. CASE Drain(c, h)
  <2>1. /\ members' = members /\ addr' = addr
        /\ barred' = [barred EXCEPT ![c] = @ \cup {h}]
        /\ status' = [status EXCEPT ![c] = [@ EXCEPT ![h] = "DRAINING"]]
    BY <1>2 DEF Drain
  <2>2. status' \in [Names -> [Hosts -> Statuses]]
    BY <2>1 DEF ClusterOK, Statuses
  <2> QED
    BY <2>1, <2>2 DEF ClusterOK
<1> QED
  BY <1>1, <1>2

\* bring_down: the address of the member is no longer allowed, and those of
\* the others are unless one of them has the same.
LEMMA BringDown ==
  ASSUME ClusterOK, Allowed, NEW c \in Names, NEW h \in Hosts, up[c], bring_down(c, h)
  PROVE  /\ ClusterOK' /\ Allowed'
         /\ \A d \in Names : caveat'[d] = "none" => caveat[d] = "none"
<1>1. /\ up' = up /\ relay' = relay
      /\ relay[c] = NoRelay \/ allow[c] = NoList => allow' = allow
      /\ relay[c] # NoRelay /\ allow[c] # NoList =>
           allow' = [allow EXCEPT ![c] = @ \ {addr[c][h]}]
      /\ TakeOut(c, h) \/ Drain(c, h)
  BY DEF bring_down, Accepts
<1>2. /\ caveat' = caveat \/ caveat' = Missing(c)
      /\ (\E other \in members[c] \ {h} : addr[c][other] = addr[c][h]) => caveat' = Missing(c)
  BY DEF bring_down
<1>3. PICK v \in {"none", "lost", "stale"} :
        /\ caveat' = [caveat EXCEPT ![c] = v]
        /\ v = "stale" <=> caveat[c] = "stale"
        /\ v = "none" => caveat[c] = "none"
        /\ v = "none" => \A g \in members[c] \ {h} : addr[c][g] # addr[c][h]
  <2>1. caveat[c] \in {"none", "lost", "stale"}
    BY DEF ClusterOK
  <2>2. CASE caveat' = Missing(c)
    <3>1. CASE caveat[c] = "stale"
      BY <2>2, <3>1 DEF Missing, ClusterOK
    <3>2. CASE caveat[c] # "stale"
      BY <2>2, <3>2 DEF Missing
    <3> QED
      BY <3>1, <3>2
  <2>3. CASE caveat' = caveat /\ caveat' # Missing(c)
    BY <1>2, <2>1, <2>3 DEF ClusterOK
  <2> QED
    BY <1>2, <2>2, <2>3
<1>4. ClusterOK'
  <2>1. allow' \in [Names -> {NoList} \cup SUBSET Addresses]
    <3>1. CASE relay[c] = NoRelay \/ allow[c] = NoList
      BY <1>1, <3>1 DEF ClusterOK
    <3>2. CASE relay[c] # NoRelay /\ allow[c] # NoList
      <4>1. allow[c] \ {addr[c][h]} \in SUBSET Addresses
        BY <3>2 DEF ClusterOK
      <4>2. allow' = [allow EXCEPT ![c] = allow[c] \ {addr[c][h]}]
        BY <1>1, <3>2
      <4> QED
        BY <4>1, <4>2 DEF ClusterOK
    <3> QED
      BY <3>1, <3>2
  <2>2. caveat' \in [Names -> {"none", "lost", "stale"}]
    BY <1>3 DEF ClusterOK
  <2> QED
    BY <1>1, <2>1, <2>2, TakeOutType DEF ClusterOK
<1>5. ASSUME NEW d \in Names
      PROVE  /\ (~ up[d] => members[d] = {})'
             /\ (relay[d] = NoRelay => allow[d] = NoList)'
             /\ (relay[d] # NoRelay => ListOK(d, allow[d]))'
  <2>1. CASE d # c
    <3>1. UNCHANGED <<members[d], addr[d], barred[d]>>
      BY <1>1, <2>1, TakeOutType
    <3>2. UNCHANGED <<up[d], relay[d], allow[d], caveat[d]>>
      BY <1>1, <1>3, <2>1 DEF ClusterOK
    <3> QED
      BY <3>1, <3>2, OneCluster
  <2>2. CASE d = c
    <3>1. /\ members'[c] \ barred'[c] = (members[c] \ barred[c]) \ {h}
          /\ \A g \in Hosts \ {h} : addr'[c][g] = addr[c][g]
      BY <1>1, TakeOutType
    <3>2. members[c] \subseteq Hosts /\ up'[c] /\ relay'[c] = relay[c]
      BY <1>1 DEF ClusterOK
    <3>3. /\ caveat'[c] # "stale" => caveat[c] # "stale"
          /\ caveat'[c] = "none" => caveat[c] = "none"
          /\ caveat'[c] = "none" => \A g \in members[c] \ {h} : addr[c][g] # addr[c][h]
      BY <1>3 DEF ClusterOK
    <3>4. relay[c] = NoRelay => allow'[c] = NoList
      BY <1>1 DEF Allowed
    <3>5. ASSUME relay[c] # NoRelay
          PROVE  ListOK(c, allow[c])'
      <4>1. ListOK(c, allow[c])
        BY <3>5 DEF Allowed
      <4>2. CASE allow[c] = NoList
        <5>1. allow'[c] = NoList
          BY <1>1, <4>2
        <5> QED
          BY <3>1, <3>2, <3>3, <4>1, <4>2, <5>1 DEF ListOK
      <4>3. CASE allow[c] # NoList
        <5>1. allow'[c] = allow[c] \ {addr[c][h]} /\ allow[c] \in SUBSET Addresses
          BY <1>1, <3>5, <4>3 DEF ClusterOK
        <5>2. allow'[c] # NoList
          BY <5>1, ListAssumption
        <5>3. caveat[c] # "stale" =>
                \A x \in allow'[c] : \E g \in members[c] \ barred[c] : g # h /\ x = addr[c][g]
          BY <4>1, <4>3, <5>1 DEF ListOK, Wanted
        <5>4. caveat'[c] # "stale" => allow'[c] \subseteq Wanted(c)'
          BY <3>1, <3>2, <3>3, <5>3 DEF Wanted
        <5>5. caveat'[c] = "none" =>
                \A g \in members'[c] \ barred'[c] : addr'[c][g] # Unix => addr'[c][g] \in allow'[c]
          BY <3>1, <3>2, <3>3, <4>1, <5>1 DEF ListOK
        <5> QED
          BY <5>2, <5>4, <5>5 DEF ListOK
      <4> QED
        BY <4>2, <4>3
    <3> QED
      BY <2>2, <3>2, <3>4, <3>5
  <2> QED
    BY <2>1, <2>2
<1>6. \A d \in Names : caveat'[d] = "none" => caveat[d] = "none"
  BY <1>3 DEF ClusterOK
<1> QED
  BY <1>4, <1>5, <1>6 DEF Allowed

\* The end of a drain takes out a member whose address was not wanted.
LEMMA TakeOutBarred ==
  ASSUME ClusterOK, Allowed, NEW c \in Names, NEW h \in members[c] \cap barred[c],
         TakeOut(c, h), UNCHANGED <<up, relay, allow, caveat>>
  PROVE  /\ ClusterOK' /\ Allowed'
         /\ members'[c] \subseteq members[c]
         /\ \A d \in Names : \A l : ListOK(d, l) => ListOK(d, l)'
<1>1. h \in Hosts
  BY DEF ClusterOK
<1>2. ClusterOK'
  BY <1>1, TakeOutType DEF ClusterOK
<1>3. ASSUME NEW d \in Names, d # c
      PROVE  UNCHANGED <<members[d], addr[d], barred[d]>>
  BY <1>1, <1>3, TakeOutType
<1>4. /\ members'[c] \ barred'[c] = members[c] \ barred[c]
      /\ members'[c] \subseteq members[c]
      /\ \A g \in members[c] \ barred[c] : addr'[c][g] = addr[c][g]
  <2>1. members[c] \subseteq Hosts
    BY DEF ClusterOK
  <2> QED
    BY <1>1, <2>1, TakeOutType
<1>5. ASSUME NEW d \in Names, NEW l, ListOK(d, l)
      PROVE  ListOK(d, l)'
  <2>1. CASE d # c
    BY <1>3, <1>5, <2>1 DEF ListOK, Wanted
  <2>2. CASE d = c
    BY <1>4, <1>5, <2>2 DEF ListOK, Wanted
  <2> QED
    BY <2>1, <2>2
<1>6. ASSUME NEW d \in Names
      PROVE  (~ up[d] => members[d] = {})'
  <2>1. CASE d # c
    BY <1>3, <2>1 DEF Allowed
  <2>2. CASE d = c
    BY <1>4, <2>2 DEF Allowed
  <2> QED
    BY <2>1, <2>2
<1> QED
  BY <1>2, <1>4, <1>5, <1>6 DEF Allowed

\* A member that was there gets another address: the list does not follow.
LEMMA Overwrite ==
  ASSUME ClusterOK, Allowed, NEW c \in Names, NEW h \in members[c],
         NEW a \in Addresses \cup {Unix}, NEW s \in Statuses,
         addr' = [addr EXCEPT ![c][h] = a], status' = [status EXCEPT ![c][h] = s],
         caveat' = IF a = addr[c][h] THEN caveat
                   ELSE IF Accepts(c) THEN [caveat EXCEPT ![c] = "stale"] ELSE Missing(c),
         UNCHANGED <<up, relay, allow, members, barred>>
  PROVE  /\ ClusterOK' /\ Allowed'
         /\ \A d \in Names : caveat'[d] = "none" => caveat[d] = "none"
<1>1. /\ addr' = [addr EXCEPT ![c] = [@ EXCEPT ![h] = a]]
      /\ status' = [status EXCEPT ![c] = [@ EXCEPT ![h] = s]]
      /\ h \in Hosts
  BY DEF ClusterOK
<1>2. PICK v \in {"none", "lost", "stale"} :
        /\ caveat' = [caveat EXCEPT ![c] = v]
        /\ a # addr[c][h] => v # "none" /\ (allow[c] # NoList => v = "stale")
        /\ a = addr[c][h] => v = caveat[c]
  <2>1. caveat \in [Names -> {"none", "lost", "stale"}]
    BY DEF ClusterOK
  <2>2. CASE a = addr[c][h]
    BY <2>1, <2>2
  <2>3. CASE a # addr[c][h] /\ Accepts(c)
    BY <2>3
  <2>4. CASE a # addr[c][h] /\ ~ Accepts(c)
    <3>1. caveat' = Missing(c) /\ allow[c] = NoList
      BY <2>4 DEF Accepts
    <3>2. CASE caveat[c] = "stale"
      BY <2>1, <2>4, <3>1, <3>2 DEF Missing
    <3>3. CASE caveat[c] # "stale"
      BY <2>1, <2>4, <3>1, <3>3 DEF Missing
    <3> QED
      BY <3>2, <3>3
  <2> QED
    BY <2>2, <2>3, <2>4
<1>3. ClusterOK'
  <2>1. addr' \in [Names -> [Hosts -> Addresses \cup {Unix}]]
    BY <1>1 DEF ClusterOK
  <2>2. status' \in [Names -> [Hosts -> Statuses]]
    BY <1>1 DEF ClusterOK
  <2>3. caveat' \in [Names -> {"none", "lost", "stale"}]
    BY <1>2 DEF ClusterOK
  <2> QED
    BY <2>1, <2>2, <2>3 DEF ClusterOK
<1>4. ASSUME NEW d \in Names
      PROVE  /\ (~ up[d] => members[d] = {})'
             /\ (relay[d] = NoRelay => allow[d] = NoList)'
             /\ (relay[d] # NoRelay => ListOK(d, allow[d]))'
  <2>1. CASE d # c
    <3>1. UNCHANGED <<up[d], relay[d], allow[d], members[d], addr[d], barred[d], caveat[d]>>
      BY <1>1, <1>2, <2>1 DEF ClusterOK
    <3> QED
      BY <3>1, OneCluster
  <2>2. CASE d = c
    <3>1. CASE a = addr[c][h]
      <4>1. UNCHANGED <<addr[c], caveat[c]>>
        BY <1>1, <1>2, <3>1 DEF ClusterOK
      <4> QED
        BY <2>2, <4>1, OneCluster
    <3>2. CASE a # addr[c][h]
      <4>1. caveat'[c] # "none" /\ (allow[c] # NoList => caveat'[c] = "stale")
        BY <1>2, <3>2 DEF ClusterOK
      <4> QED
        BY <2>2, <4>1 DEF Allowed, ListOK
    <3> QED
      BY <3>1, <3>2
  <2> QED
    BY <2>1, <2>2
<1>5. \A d \in Names : caveat'[d] = "none" => caveat[d] = "none"
  BY <1>2 DEF ClusterOK
<1> QED
  BY <1>3, <1>4, <1>5 DEF Allowed

\* Clusters that are shut down have no members and no list.
LEMMA ShutdownClusters ==
  ASSUME ClusterOK, Allowed, NEW cs, Shutdown(cs)
  PROVE  ClusterOK' /\ Allowed'
<1>1. up' \in [Names -> BOOLEAN] /\ relay' \in [Names -> Relays \cup {NoRelay}]
  BY DEF Shutdown, ClusterOK
<1>2. /\ members' \in [Names -> SUBSET Hosts] /\ barred' \in [Names -> SUBSET Hosts]
      /\ caveat' \in [Names -> {"none", "lost", "stale"}]
  BY DEF Shutdown, ClusterOK
<1>3. allow' \in [Names -> {NoList} \cup SUBSET Addresses]
  BY DEF Shutdown, ClusterOK
<1>4. /\ addr' \in [Names -> [Hosts -> Addresses \cup {Unix}]]
      /\ status' \in [Names -> [Hosts -> Statuses]]
  BY DEF Shutdown, ClusterOK, Statuses
<1>5. ASSUME NEW d \in Names
      PROVE  /\ (~ up[d] => members[d] = {})'
             /\ (relay[d] = NoRelay => allow[d] = NoList)'
             /\ (relay[d] # NoRelay => ListOK(d, allow[d]))'
  <2>1. CASE d \in cs
    BY <2>1 DEF Shutdown
  <2>2. CASE d \notin cs
    <3>1. UNCHANGED <<up[d], relay[d], allow[d], members[d], addr[d], barred[d], caveat[d]>>
      BY <2>2 DEF Shutdown, ClusterOK
    <3> QED
      BY <3>1, OneCluster
  <2> QED
    BY <2>1, <2>2
<1> QED
  BY <1>1, <1>2, <1>3, <1>4, <1>5 DEF ClusterOK, Allowed

\* A relay that comes or goes.
LEMMA SetRelay ==
  ASSUME ClusterOK, Allowed, NEW c \in Names,
         NEW r \in Relays \cup {NoRelay}, NEW l \in {NoList} \cup SUBSET Addresses,
         NEW v \in {"none", "lost", "stale"},
         relay' = [relay EXCEPT ![c] = r], allow' = [allow EXCEPT ![c] = l],
         caveat' = [caveat EXCEPT ![c] = v],
         UNCHANGED <<up, members, addr, status, barred>>,
         r = NoRelay => l = NoList,
         r # NoRelay => v = caveat[c] /\ ListOK(c, l)
  PROVE  ClusterOK' /\ Allowed'
<1>1. ClusterOK'
  <2>1. allow' \in [Names -> {NoList} \cup SUBSET Addresses]
    BY DEF ClusterOK
  <2> QED
    BY <2>1 DEF ClusterOK
<1>2. ASSUME NEW d \in Names
      PROVE  /\ (~ up[d] => members[d] = {})'
             /\ (relay[d] = NoRelay => allow[d] = NoList)'
             /\ (relay[d] # NoRelay => ListOK(d, allow[d]))'
  <2>1. CASE d # c
    <3>1. UNCHANGED <<up[d], relay[d], allow[d], members[d], addr[d], barred[d], caveat[d]>>
      BY <2>1 DEF ClusterOK
    <3> QED
      BY <3>1, OneCluster
  <2>2. CASE d = c
    <3>1. relay'[c] = r /\ allow'[c] = l /\ caveat'[c] = v
      BY DEF ClusterOK
    <3> QED
      BY <2>2, <3>1 DEF Allowed, ListOK, Wanted
  <2> QED
    BY <2>1, <2>2
<1> QED
  BY <1>1, <1>2 DEF Allowed

-----------------------------------------------------------------------------

\* The loops stay at their entry.
LEMMA SamePlace ==
  ASSUME UNCHANGED <<config, ci>>
  PROVE  Entry' = Entry /\ This' = This
BY DEF Entry, This

\* Outside of update_dnrelay no cluster is between two relays.
LEMMA NotBetween ==
  ASSUME Between, pc \notin Over, pc # "drop", pc # "relay", NEW c \in Names
  PROVE  ~ (up[c] /\ relay[c] = NoRelay /\ caveat[c] = "none")
BY DEF Between

\* A step outside of it brings none there.
LEMMA StaysNotBetween ==
  ASSUME Between, pc \notin Over, pc # "drop", pc # "relay", pc' # "relay",
         \A c \in Names : up'[c] /\ relay'[c] = NoRelay /\ caveat'[c] = "none"
                            => up[c] /\ relay[c] = NoRelay /\ caveat[c] = "none"
  PROVE  Between'
BY NotBetween DEF Between

LEMMA ReadConfigStep ==
  ASSUME IInv, ReadConfig
  PROVE  IInv'
<1> USE DEF IInv
<1>1. /\ pc = "idle" /\ pc' = "cluster" /\ config' \in Configs \cup {<<>>} /\ ci' = 1
      /\ new_rtp_clusters' = <<>> /\ rtp_clusters' = rtp_clusters /\ using' = using
      /\ starting' = starting /\ mi' = mi /\ todo' = todo /\ kept' = kept
      /\ fresh' = fresh /\ leaked' = leaked
      /\ applied' = applied \/ applied' = NoConfig
      /\ UNCHANGED <<cluster, barred, caveat>>
  BY DEF ReadConfig
<1>2. ClusterOK' /\ Allowed' /\ up' = up /\ relay' = relay /\ caveat' = caveat
  BY <1>1, KeepsClusters DEF TypeOK
<1>3. TypeOK'
  <2>1. config' \in Seq(Entries)
    BY <1>1, ConfigsAssumption, EmptySeq
  <2>2. 1 \in 1 .. Len(config') + 1
    BY <2>1, LenProperties
  <2> QED
    BY <1>1, <1>2, <2>2, EmptySeq DEF TypeOK
<1>4. AtEntry'
  BY <1>1 DEF AtEntry, Loading
<1>5. Listed'
  BY <1>1, <1>2, EmptySeq DEF Listed, Loading, Over, ToSet
<1>6. Between'
  BY <1>1, <1>2, StaysNotBetween DEF Over
<1> QED
  BY <1>2, <1>3, <1>4, <1>5, <1>6

\* A command that fails leaves the clusters it created.
LEMMA FailStep ==
  ASSUME IInv, pc \in {"cluster", "member"}, Fail
  PROVE  IInv'
<1> USE DEF IInv
<1>1. /\ pc' = IF starting THEN "exit" ELSE "idle"
      /\ config' = <<>> /\ ci' = 1 /\ mi' = 1 /\ new_rtp_clusters' = <<>>
      /\ leaked' = IF starting THEN leaked ELSE leaked \cup fresh
      /\ fresh' = {} /\ applied' = NoConfig /\ rtp_clusters' = rtp_clusters
      /\ starting' = starting /\ todo' = todo /\ kept' = kept /\ using' = using
      /\ UNCHANGED <<cluster, barred, caveat>>
  BY DEF Fail
<1>2. ClusterOK' /\ Allowed' /\ up' = up /\ relay' = relay /\ caveat' = caveat
  BY <1>1, KeepsClusters DEF TypeOK
<1>3. TypeOK'
  <2>1. 1 \in 1 .. Len(config') + 1 /\ <<>> \in Seq(Names)
    BY <1>1, EmptySeq
  <2> QED
    BY <1>1, <1>2, <2>1 DEF TypeOK
<1>4. AtEntry'
  BY <1>1 DEF AtEntry, Loading
<1>5. Listed'
  <2>1. ToSet(<<>>) = {}
    BY DEF ToSet
  <2>2. CASE starting
    BY <1>1, <2>2 DEF Listed, Over
  <2>3. CASE ~ starting
    BY <1>1, <1>2, <2>1, <2>3 DEF Listed, Over
  <2> QED
    BY <2>2, <2>3
<1>6. Between'
  BY <1>1, <1>2, StaysNotBetween DEF Over
<1> QED
  BY <1>2, <1>3, <1>4, <1>5, <1>6

LEMMA FindClusterStep ==
  ASSUME IInv, FindCluster
  PROVE  IInv'
<1> USE DEF IInv
<1>1. /\ pc = "cluster" /\ pc' = "drop" /\ config' = config /\ ci' = ci /\ mi' = mi
      /\ starting' = starting /\ todo' = todo /\ kept' = kept /\ using' = using
      /\ rtp_clusters' = rtp_clusters /\ new_rtp_clusters' = new_rtp_clusters
  BY DEF FindCluster, lists
<1>2. ci \in 1 .. Len(config)
  <2>1. ci <= Len(config) /\ ci \in 1 .. Len(config) + 1
    BY DEF FindCluster, TypeOK
  <2>2. Len(config) \in Nat
    BY ConfigsAssumption, EmptySeq DEF TypeOK
  <2> QED
    BY <2>1, <2>2
<1>3. This \in Names /\ This' = This /\ Entry' = Entry
  BY <1>1, <1>2, EntryOK, SamePlace
<1>4. CASE This \in ToSet(rtp_clusters) /\ UNCHANGED <<cluster, history>>
  <2>1. /\ fresh' = fresh /\ leaked' = leaked /\ applied' = applied
        /\ UNCHANGED <<cluster, barred, caveat>>
    BY <1>4 DEF history
  <2>2. ClusterOK' /\ Allowed' /\ up' = up /\ relay' = relay /\ caveat' = caveat
    BY <2>1, KeepsClusters DEF TypeOK
  <2>3. TypeOK'
    BY <1>1, <2>1, <2>2 DEF TypeOK
  <2>4. AtEntry'
    BY <1>1, <1>2, <1>3, <1>4, <2>2 DEF AtEntry, Listed, Over
  <2>5. Listed'
    BY <1>1, <1>3, <2>1, <2>2 DEF Listed, Loading, Over
  <2>6. Between'
    BY <1>1, <2>2, StaysNotBetween DEF Over
  <2> QED
    BY <2>2, <2>3, <2>4, <2>5, <2>6
<1>5. CASE ~ up[This] /\ Create(This)
  <2>1. /\ up' = [up EXCEPT ![This] = TRUE]
        /\ relay' = [relay EXCEPT ![This] = NoRelay]
        /\ allow' = [allow EXCEPT ![This] = NoList]
        /\ barred' = [barred EXCEPT ![This] = {}] /\ caveat' = [caveat EXCEPT ![This] = "none"]
        /\ fresh' = fresh \cup {This} /\ leaked' = leaked /\ applied' = applied
        /\ members' = members /\ addr' = addr /\ status' = status
    BY <1>5 DEF Create
  <2> DEFINE c == This
  <2>2. /\ up'[c] /\ relay'[c] = NoRelay /\ allow'[c] = NoList /\ members'[c] = {}
        /\ \A d \in Names \ {c} :
             UNCHANGED <<up[d], relay[d], allow[d], members[d], addr[d], barred[d], caveat[d]>>
    BY <1>3, <1>5, <2>1 DEF TypeOK, ClusterOK, Allowed
  <2>3. ClusterOK'
    <3>1. allow' \in [Names -> {NoList} \cup SUBSET Addresses]
      BY <2>1 DEF TypeOK, ClusterOK
    <3>2. relay' \in [Names -> Relays \cup {NoRelay}]
      BY <2>1 DEF TypeOK, ClusterOK
    <3> QED
      BY <2>1, <3>1, <3>2 DEF TypeOK, ClusterOK
  <2>4. Allowed'
    <3>1. ASSUME NEW d \in Names
          PROVE  /\ (~ up[d] => members[d] = {})'
                 /\ (relay[d] = NoRelay => allow[d] = NoList)'
                 /\ (relay[d] # NoRelay => ListOK(d, allow[d]))'
      <4>1. CASE d # c
        BY <2>2, <4>1, OneCluster
      <4>2. CASE d = c
        BY <2>2, <4>2
      <4> QED
        BY <4>1, <4>2
    <3> QED
      BY <3>1 DEF Allowed
  <2>5. TypeOK'
    BY <1>1, <1>3, <2>1, <2>3 DEF TypeOK
  <2>6. AtEntry'
    BY <1>1, <1>2, <1>3, <2>2 DEF AtEntry
  <2>7. Listed'
    <3>1. \A d \in Names : up[d] => up'[d]
      BY <2>1 DEF TypeOK, ClusterOK
    <3>2. ToSet(rtp_clusters) \subseteq Names /\ ToSet(new_rtp_clusters) \subseteq Names
      BY LenProperties DEF TypeOK, ToSet
    <3> QED
      BY <1>1, <1>3, <2>1, <2>2, <3>1, <3>2 DEF Listed, Loading, Over
  <2>8. Between'
    BY <1>1, <1>3, <2>2, NotBetween DEF Between, Over
  <2> QED
    BY <2>4, <2>5, <2>6, <2>7, <2>8
<1> QED
  BY <1>4, <1>5 DEF FindCluster

LEMMA DropRelayStep ==
  ASSUME IInv, DropRelay
  PROVE  IInv'
<1> USE DEF IInv
<1> DEFINE c == This
           e == Entry.relay
<1>1. /\ pc = "drop" /\ config' = config /\ ci' = ci /\ mi' = mi
      /\ starting' = starting /\ todo' = todo /\ using' = using
      /\ rtp_clusters' = rtp_clusters /\ new_rtp_clusters' = new_rtp_clusters
      /\ fresh' = fresh /\ leaked' = leaked /\ applied' = applied
      /\ up' = up /\ members' = members /\ addr' = addr /\ status' = status /\ barred' = barred
  BY DEF DropRelay, lists
<1>2. /\ c \in Names /\ c' = c /\ e' = e /\ e \in Relays \cup {NoRelay}
      /\ ci \in 1 .. Len(config) /\ up[c]
  BY <1>1, EntryOK, SamePlace DEF AtEntry, Loading
<1>3. CASE relay[c] # NoRelay /\ relay[c] = e
  <2>1. pc' = "member" /\ relay' = relay /\ allow' = allow /\ kept' = kept /\ caveat' = caveat
    BY <1>3 DEF DropRelay
  <2>2. ClusterOK' /\ Allowed'
    BY <1>1, <2>1, KeepsClusters DEF TypeOK, cluster
  <2>3. TypeOK'
    BY <1>1, <2>1, <2>2 DEF TypeOK
  <2>4. AtEntry'
    BY <1>1, <1>2, <2>1 DEF AtEntry
  <2>5. Listed'
    BY <1>1, <1>2, <2>1 DEF Listed, Loading, Over
  <2>6. Between'
    BY <1>1, <1>2, <1>3, <2>1 DEF Between, Over
  <2> QED
    BY <2>2, <2>3, <2>4, <2>5, <2>6
<1>4. CASE ~ (relay[c] # NoRelay /\ relay[c] = e)
  <2>1. /\ relay' = [relay EXCEPT ![c] = NoRelay] /\ allow' = [allow EXCEPT ![c] = NoList]
        /\ kept' = (IF e = NoRelay THEN NoList ELSE allow[c])
        /\ pc' = (IF e = NoRelay THEN "member" ELSE "relay")
        /\ caveat' = IF e = NoRelay THEN [caveat EXCEPT ![c] = "lost"] ELSE caveat
    BY <1>4 DEF DropRelay
  <2> HIDE DEF c, e
  <2>2. PICK v \in {"none", "lost", "stale"} :
          /\ caveat' = [caveat EXCEPT ![c] = v]
          /\ e = NoRelay => v = "lost"
          /\ e # NoRelay => v = caveat[c] /\ caveat' = caveat
    <3>1. caveat \in [Names -> {"none", "lost", "stale"}]
      BY DEF TypeOK, ClusterOK
    <3>2. CASE e = NoRelay
      BY <2>1, <3>2
    <3>3. CASE e # NoRelay
      BY <1>2, <2>1, <3>1, <3>3
    <3> QED
      BY <3>2, <3>3
  <2>3. ClusterOK' /\ Allowed'
    BY <1>1, <1>2, <2>1, <2>2, SetRelay DEF TypeOK
  <2>4. kept' \in {NoList} \cup SUBSET Addresses
    BY <1>2, <2>1 DEF TypeOK, ClusterOK
  <2>5. TypeOK'
    BY <1>1, <2>1, <2>3, <2>4 DEF TypeOK
  <2>6. /\ relay'[c] = NoRelay /\ \A d \in Names \ {c} : relay'[d] = relay[d] /\ caveat'[d] = caveat[d]
        /\ e = NoRelay => caveat'[c] = "lost"
    BY <1>2, <2>1, <2>2 DEF TypeOK, ClusterOK
  <2>7. AtEntry'
    BY <1>1, <1>2, <2>1, <2>6 DEF AtEntry, c, e
  <2>8. Listed'
    BY <1>1, <1>2, <2>1 DEF Listed, Loading, Over, c
  <2>9. Between'
    <3>1. ASSUME NEW d \in Names, up'[d], relay'[d] = NoRelay, caveat'[d] = "none"
          PROVE  d = c /\ pc' = "relay"
      <4>1. CASE d # c
        BY <1>1, <2>6, <3>1, <4>1 DEF Between, Over, c
      <4>2. CASE d = c
        BY <2>1, <2>6, <3>1, <4>2
      <4> QED
        BY <4>1, <4>2
    <3>2. ASSUME e # NoRelay
          PROVE  ListOK(c, kept)'
      <4>1. ListOK(c, allow[c])
        <5>1. CASE relay[c] # NoRelay
          BY <1>2, <5>1 DEF Allowed
        <5>2. CASE relay[c] = NoRelay
          <6>1. allow[c] = NoList /\ (caveat[c] = "none" => members[c] = {})
            BY <1>1, <1>2, <5>2 DEF Allowed, Between, Over
          <6> QED
            BY <6>1 DEF ListOK
        <5> QED
          BY <5>1, <5>2
      <4>2. kept' = allow[c] /\ caveat' = caveat
        BY <2>1, <3>2
      <4> QED
        BY <1>1, <1>2, <4>1, <4>2 DEF ListOK, Wanted
    <3> QED
      BY <1>2, <2>1, <3>1, <3>2 DEF Between, c
  <2> QED
    BY <2>3, <2>5, <2>7, <2>8, <2>9
<1> QED
  BY <1>3, <1>4

LEMMA NewRelayStep ==
  ASSUME IInv, NewRelay
  PROVE  IInv'
<1> USE DEF IInv
<1> DEFINE c == This
           e == Entry.relay
<1>1. /\ pc = "relay" /\ pc' = "member" /\ config' = config /\ ci' = ci /\ mi' = mi
      /\ starting' = starting /\ todo' = todo /\ using' = using /\ kept' = NoList
      /\ rtp_clusters' = rtp_clusters /\ new_rtp_clusters' = new_rtp_clusters
      /\ fresh' = fresh /\ leaked' = leaked /\ applied' = applied
      /\ up' = up /\ members' = members /\ addr' = addr /\ status' = status /\ barred' = barred
      /\ \/ /\ relay' = [relay EXCEPT ![c] = e] /\ allow' = [allow EXCEPT ![c] = kept]
            /\ caveat' = caveat
         \/ /\ caveat' = [caveat EXCEPT ![c] = "lost"]
            /\ relay' = relay /\ allow' = allow
  BY DEF NewRelay, lists
<1>2. /\ c \in Names /\ c' = c /\ e' = e /\ e \in Relays \cup {NoRelay} /\ e # NoRelay
      /\ ci \in 1 .. Len(config) /\ up[c] /\ relay[c] = NoRelay /\ allow[c] = NoList
  BY <1>1, EntryOK, SamePlace DEF AtEntry, Loading, Allowed
<1>3. ListOK(c, kept)
  BY <1>1 DEF Between
<1> HIDE DEF c, e
<1>4. PICK r \in Relays \cup {NoRelay}, l \in {NoList} \cup SUBSET Addresses,
           v \in {"none", "lost", "stale"} :
        /\ relay' = [relay EXCEPT ![c] = r] /\ allow' = [allow EXCEPT ![c] = l]
        /\ caveat' = [caveat EXCEPT ![c] = v]
        /\ r = NoRelay => l = NoList /\ v = "lost"
        /\ r # NoRelay => v = caveat[c] /\ l = kept
  <2>1. /\ relay \in [Names -> Relays \cup {NoRelay}]
        /\ allow \in [Names -> {NoList} \cup SUBSET Addresses]
        /\ caveat \in [Names -> {"none", "lost", "stale"}]
        /\ kept \in {NoList} \cup SUBSET Addresses
    BY DEF TypeOK, ClusterOK
  <2> DEFINE L == {NoList} \cup SUBSET Addresses
  <2>2. allow \in [Names -> L] /\ kept \in L /\ NoList \in L
    BY <2>1
  <2> HIDE DEF L
  <2>3. CASE relay' = [relay EXCEPT ![c] = e] /\ allow' = [allow EXCEPT ![c] = kept] /\ caveat' = caveat
    <3>1. caveat' = [caveat EXCEPT ![c] = caveat[c]] /\ caveat[c] \in {"none", "lost", "stale"}
      BY <1>2, <2>1, <2>3
    <3> QED
      BY <1>2, <2>2, <2>3, <3>1 DEF L
  <2>4. CASE caveat' = [caveat EXCEPT ![c] = "lost"] /\ relay' = relay /\ allow' = allow
    <3>1. relay' = [relay EXCEPT ![c] = NoRelay]
      BY <1>2, <2>1, <2>4
    <3>2. allow' = [allow EXCEPT ![c] = NoList]
      BY <1>2, <2>2, <2>4
    <3> QED
      BY <2>2, <2>4, <3>1, <3>2 DEF L
  <2> QED
    BY <1>1, <2>3, <2>4
<1>5. ClusterOK' /\ Allowed'
  BY <1>1, <1>2, <1>3, <1>4, SetRelay DEF TypeOK
<1>6. TypeOK'
  BY <1>1, <1>5 DEF TypeOK
<1>7. AtEntry'
  BY <1>1, <1>2 DEF AtEntry, c
<1>8. Listed'
  BY <1>1, <1>2 DEF Listed, Loading, Over, c
<1>9. Between'
  <2>1. ASSUME NEW d \in Names, up'[d], relay'[d] = NoRelay, caveat'[d] = "none"
        PROVE  FALSE
    <3>1. CASE d # c
      <4>1. up[d] /\ relay[d] = NoRelay /\ caveat[d] = "none"
        BY <1>1, <1>4, <2>1, <3>1 DEF TypeOK, ClusterOK
      <4> QED
        BY <1>1, <3>1, <4>1 DEF Between, Over, c
    <3>2. CASE d = c
      BY <1>2, <1>4, <2>1, <3>2 DEF TypeOK, ClusterOK
    <3> QED
      BY <3>1, <3>2
  <2> QED
    BY <1>1, <2>1 DEF Between
<1> QED
  BY <1>5, <1>6, <1>7, <1>8, <1>9

LEMMA LoadMemberStep ==
  ASSUME IInv, LoadMember
  PROVE  IInv'
<1> USE DEF IInv
<1> DEFINE c == This
           m == Entry.members[mi]
<1>1. /\ pc = "member" /\ pc' = pc /\ config' = config /\ ci' = ci /\ mi' = mi + 1
      /\ starting' = starting /\ todo' = todo /\ using' = using /\ kept' = kept
      /\ rtp_clusters' = rtp_clusters /\ new_rtp_clusters' = new_rtp_clusters
      /\ fresh' = fresh /\ leaked' = leaked /\ applied' = applied
      /\ mi <= Len(Entry.members)
  BY DEF LoadMember, lists
<1>2. /\ c \in Names /\ c' = c /\ ci \in 1 .. Len(config) /\ up[c]
      /\ Entry.members \in Seq(MemberConfig)
  BY <1>1, EntryOK, SamePlace DEF AtEntry, Loading
<1>3. m \in MemberConfig
  <2>1. mi \in 1 .. Len(Entry.members)
    BY <1>1, <1>2, LenProperties DEF TypeOK
  <2> QED
    BY <1>2, <2>1, ElementOfSeq
<1>4. /\ ClusterOK' /\ Allowed' /\ up' = up /\ relay' = relay
      /\ \A d \in Names : caveat'[d] = "none" => caveat[d] = "none"
  <2>1. CASE m.host \in members[c]
    <3>1. /\ addr' = [addr EXCEPT ![c][m.host] = m.addr]
          /\ status' = [status EXCEPT ![c][m.host] = m.status]
          /\ caveat' = IF m.addr = addr[c][m.host] THEN caveat
                       ELSE IF Accepts(c) THEN [caveat EXCEPT ![c] = "stale"] ELSE Missing(c)
          /\ UNCHANGED <<up, relay, allow, members, barred>>
      BY <2>1 DEF LoadMember
    <3>2. m.addr \in Addresses \cup {Unix} /\ m.status \in Statuses
      BY <1>3, MemberOK DEF Statuses
    <3> HIDE DEF c, m
    <3> QED
      BY <1>2, <2>1, <3>1, <3>2, Overwrite DEF TypeOK
  <2>2. CASE m.host \notin members[c]
    <3>1. add_member(c, m) /\ caveat' = caveat
      BY <2>2 DEF LoadMember
    <3>2. up' = up /\ relay' = relay
      BY <3>1 DEF add_member
    <3> HIDE DEF c, m
    <3> QED
      BY <1>2, <1>3, <2>2, <3>1, <3>2, AddMember DEF TypeOK
  <2> QED
    BY <2>1, <2>2
<1>5. TypeOK'
  BY <1>1, <1>4 DEF TypeOK
<1>6. AtEntry'
  BY <1>1, <1>2, <1>4 DEF AtEntry
<1>7. Listed'
  BY <1>1, <1>2, <1>4 DEF Listed, Loading, Over
<1>8. Between'
  BY <1>1, <1>4, StaysNotBetween DEF Over
<1> QED
  BY <1>4, <1>5, <1>6, <1>7, <1>8

\* The next entry: the cluster of this one is listed.
LEMMA NextEntry ==
  ASSUME IInv, pc \in {"member", "sweep"}, NextCluster, rtp_clusters' = rtp_clusters,
         up' = up, relay' = relay, caveat' = caveat, ClusterOK', Allowed',
         UNCHANGED <<starting, config, todo, kept, using, applied, fresh, leaked>>
  PROVE  IInv'
<1> USE DEF IInv
<1>1. /\ ci' = ci + 1 /\ mi' = 1 /\ pc' = "cluster"
      /\ new_rtp_clusters' = Append(new_rtp_clusters, This)
  BY DEF NextCluster
<1>2. This \in Names /\ ci \in 1 .. Len(config) /\ up[This]
  BY EntryOK DEF AtEntry, Loading
<1>3. /\ new_rtp_clusters' \in Seq(Names)
      /\ ToSet(new_rtp_clusters') = ToSet(new_rtp_clusters) \cup {This}
  <2> DEFINE s == new_rtp_clusters
             t == Append(s, This)
  <2>1. s \in Seq(Names)
    BY DEF TypeOK
  <2>2. /\ t \in Seq(Names) /\ Len(t) = Len(s) + 1 /\ t[Len(s) + 1] = This
        /\ \A i \in 1 .. Len(s) : t[i] = s[i]
    BY <1>2, <2>1, AppendProperties
  <2>3. DOMAIN t = 1 .. Len(s) + 1 /\ DOMAIN s = 1 .. Len(s) /\ Len(s) \in Nat
    BY <2>1, <2>2, LenProperties
  <2> HIDE DEF s, t
  <2>4. ToSet(t) = ToSet(s) \cup {This}
    BY <2>2, <2>3 DEF ToSet
  <2> QED
    BY <1>1, <2>2, <2>4 DEF s, t
<1>4. TypeOK'
  BY <1>1, <1>2, <1>3 DEF TypeOK
<1>5. AtEntry'
  BY <1>1 DEF AtEntry, Loading
<1>6. Listed'
  BY <1>1, <1>2, <1>3 DEF Listed, Loading, Over
<1>7. Between'
  BY <1>1, StaysNotBetween DEF Over
<1> QED
  BY <1>4, <1>5, <1>6, <1>7

LEMMA MembersLoadedStep ==
  ASSUME IInv, MembersLoaded
  PROVE  IInv'
<1> USE DEF IInv
<1>1. /\ pc = "member" /\ config' = config
      /\ starting' = starting /\ using' = using /\ kept' = kept
      /\ rtp_clusters' = rtp_clusters
      /\ fresh' = fresh /\ leaked' = leaked /\ applied' = applied
      /\ UNCHANGED <<cluster, barred, caveat>>
  BY DEF MembersLoaded, history
<1>2. /\ ClusterOK' /\ Allowed'
      /\ up' = up /\ relay' = relay /\ caveat' = caveat /\ members' = members
  BY <1>1, KeepsClusters DEF TypeOK
<1>3. CASE NextCluster /\ UNCHANGED todo
  BY <1>1, <1>2, <1>3, NextEntry
<1>4. CASE /\ pc' = "sweep" /\ todo' = members[This]
           /\ UNCHANGED <<ci, mi, new_rtp_clusters>>
  <2>1. This \in Names /\ This' = This /\ ci \in 1 .. Len(config) /\ up[This]
    BY <1>1, <1>4, EntryOK, SamePlace DEF AtEntry, Loading
  <2>2. TypeOK'
    BY <1>1, <1>2, <1>4, <2>1 DEF TypeOK, ClusterOK
  <2>3. AtEntry'
    BY <1>1, <1>2, <1>4, <2>1 DEF AtEntry
  <2>4. Listed'
    BY <1>1, <1>2, <1>4, <2>1 DEF Listed, Loading, Over
  <2>5. Between'
    BY <1>1, <1>2, <1>4, StaysNotBetween DEF Over
  <2> QED
    BY <1>2, <2>2, <2>3, <2>4, <2>5
<1> QED
  BY <1>3, <1>4 DEF MembersLoaded

LEMMA SweepStep ==
  ASSUME IInv, Sweep
  PROVE  IInv'
<1> USE DEF IInv
<1>1. /\ pc = "sweep" /\ config' = config
      /\ starting' = starting /\ using' = using /\ kept' = kept
      /\ rtp_clusters' = rtp_clusters
      /\ fresh' = fresh /\ leaked' = leaked /\ applied' = applied
  BY DEF Sweep
<1>2. CASE NextCluster /\ UNCHANGED <<cluster, todo, barred, caveat>>
  <2>1. ClusterOK' /\ Allowed' /\ up' = up /\ relay' = relay /\ caveat' = caveat
    BY <1>2, KeepsClusters DEF TypeOK
  <2> QED
    BY <1>1, <1>2, <2>1, NextEntry
<1>3. ASSUME NEW h \in todo, UNCHANGED <<pc, ci, mi, new_rtp_clusters>>, todo' \subseteq todo,
             UNCHANGED <<cluster, barred, caveat>> \/ bring_down(This, h)
      PROVE  IInv'
  <2>1. This \in Names /\ This' = This /\ ci \in 1 .. Len(config) /\ up[This] /\ h \in Hosts
    BY <1>1, <1>3, EntryOK, SamePlace DEF AtEntry, Loading, TypeOK
  <2>2. /\ ClusterOK' /\ Allowed' /\ up' = up /\ relay' = relay
        /\ \A d \in Names : caveat'[d] = "none" => caveat[d] = "none"
    <3>1. CASE UNCHANGED <<cluster, barred, caveat>>
      BY <3>1, KeepsClusters DEF TypeOK
    <3>2. CASE bring_down(This, h)
      <4>1. up' = up /\ relay' = relay
        BY <3>2 DEF bring_down
      <4> QED
        BY <2>1, <3>2, <4>1, BringDown DEF TypeOK
    <3> QED
      BY <1>3, <3>1, <3>2
  <2>3. TypeOK'
    BY <1>1, <1>3, <2>2 DEF TypeOK
  <2>4. AtEntry'
    BY <1>1, <1>3, <2>1, <2>2 DEF AtEntry
  <2>5. Listed'
    BY <1>1, <1>3, <2>1, <2>2 DEF Listed, Loading, Over
  <2>6. Between'
    BY <1>1, <1>3, <2>2, StaysNotBetween DEF Over
  <2> QED
    BY <2>2, <2>3, <2>4, <2>5, <2>6
<1> QED
  <2>1. \/ NextCluster /\ UNCHANGED <<cluster, todo, barred, caveat>>
        \/ /\ UNCHANGED <<pc, ci, mi, new_rtp_clusters>>
           /\ \E h \in todo : /\ todo' \subseteq todo
                              /\ UNCHANGED <<cluster, barred, caveat>> \/ bring_down(This, h)
    BY DEF Sweep
  <2> QED
    BY <1>2, <1>3, <2>1

LEMMA AllLoadedStep ==
  ASSUME IInv, AllLoaded
  PROVE  IInv'
<1> USE DEF IInv
<1>1. /\ pc = "cluster" /\ pc' = "shutdown" /\ ~ starting
      /\ UNCHANGED <<starting, config, ci, mi, todo, kept, using, rtp_clusters, new_rtp_clusters>>
      /\ UNCHANGED <<applied, fresh, leaked>>
      /\ UNCHANGED <<cluster, barred, caveat>>
  BY DEF AllLoaded, lists, history
<1>2. ClusterOK' /\ Allowed' /\ up' = up /\ relay' = relay /\ caveat' = caveat
  BY <1>1, KeepsClusters DEF TypeOK
<1>3. TypeOK'
  BY <1>1, <1>2 DEF TypeOK
<1>4. AtEntry' /\ Listed'
  BY <1>1, <1>2 DEF AtEntry, Listed, Loading, Over
<1>5. Between'
  BY <1>1, <1>2, StaysNotBetween DEF Over
<1> QED
  BY <1>2, <1>3, <1>4, <1>5

\* The new list replaces the old one: who is in neither was shut down.
LEMMA ReplaceStep ==
  ASSUME IInv, Replace
  PROVE  IInv'
<1> USE DEF IInv
<1>1. /\ pc' = "idle" /\ starting' = FALSE
      /\ rtp_clusters' = new_rtp_clusters /\ new_rtp_clusters' = <<>>
      /\ applied' = config /\ config' = <<>> /\ ci' = 1 /\ fresh' = {}
      /\ UNCHANGED <<mi, todo, kept, using, leaked>>
      /\ UNCHANGED <<cluster, barred, caveat>>
      /\ \/ /\ pc = "shutdown"
            /\ \A c \in ToSet(rtp_clusters) \ ToSet(new_rtp_clusters) : ~ up[c]
         \/ pc = "cluster" /\ starting
  BY DEF Replace, Replaced
<1>2. ClusterOK' /\ Allowed' /\ up' = up /\ relay' = relay /\ caveat' = caveat
  BY <1>1, KeepsClusters DEF TypeOK
<1>3. TypeOK'
  <2>1. 1 \in 1 .. Len(config') + 1 /\ <<>> \in Seq(Names)
    BY <1>1, EmptySeq
  <2> QED
    BY <1>1, <1>2, <2>1 DEF TypeOK
<1>4. AtEntry'
  BY <1>1 DEF AtEntry, Loading
<1>5. Listed'
  <2>1. ToSet(<<>>) = {}
    BY DEF ToSet
  <2>2. \A c \in Names : up[c] => c \in ToSet(new_rtp_clusters) \cup leaked
    BY <1>1, <2>1 DEF Listed, Loading, Over
  <2> QED
    BY <1>1, <1>2, <2>1, <2>2 DEF Listed, Over
<1>6. Between'
  BY <1>1, <1>2, StaysNotBetween DEF Over
<1> QED
  BY <1>2, <1>3, <1>4, <1>5, <1>6

LEMMA DryRunStep ==
  ASSUME IInv, DryRun
  PROVE  IInv'
<1> USE DEF IInv
<1>1. /\ pc = "cluster" /\ pc' = "exit" /\ Shutdown(ToSet(new_rtp_clusters))
      /\ UNCHANGED <<starting, config, ci, mi, todo, kept, rtp_clusters, new_rtp_clusters>>
      /\ UNCHANGED <<applied, fresh, leaked>>
      /\ using' \in {using, NoName}
  BY DEF DryRun, Shutdown, lists
<1>2. ClusterOK' /\ Allowed'
  BY <1>1, ShutdownClusters DEF TypeOK
<1>3. TypeOK'
  BY <1>1, <1>2 DEF TypeOK
<1>4. AtEntry' /\ Listed' /\ Between'
  BY <1>1 DEF AtEntry, Listed, Between, Loading, Over
<1> QED
  BY <1>2, <1>3, <1>4

LEMMA ShutdownOldStep ==
  ASSUME IInv, NEW c \in Names, ShutdownOld(c)
  PROVE  IInv'
<1> USE DEF IInv
<1>1. /\ pc = "shutdown" /\ pc' = pc /\ Shutdown({c})
      /\ c \in ToSet(rtp_clusters) \ ToSet(new_rtp_clusters)
      /\ UNCHANGED <<starting, config, ci, mi, todo, kept, rtp_clusters, new_rtp_clusters>>
      /\ UNCHANGED <<applied, fresh, leaked>>
      /\ using' \in {using, NoName}
  BY DEF ShutdownOld, Shutdown, progress, lists
<1>2. ClusterOK' /\ Allowed'
  BY <1>1, ShutdownClusters DEF TypeOK
<1>3. TypeOK'
  BY <1>1, <1>2 DEF TypeOK
<1>4. /\ ~ up'[c]
      /\ \A d \in Names \ {c} : up'[d] = up[d] /\ relay'[d] = relay[d] /\ caveat'[d] = caveat[d]
  BY <1>1 DEF Shutdown, TypeOK, ClusterOK
<1>5. AtEntry' /\ Listed'
  <2>1. ToSet(new_rtp_clusters) \subseteq Names
    BY LenProperties DEF TypeOK, ToSet
  <2> QED
    BY <1>1, <1>4, <2>1 DEF AtEntry, Listed, Loading, Over
<1>6. Between'
  BY <1>1, <1>4, StaysNotBetween DEF Over
<1> QED
  BY <1>2, <1>3, <1>5, <1>6

LEMMA ModifyStep ==
  ASSUME IInv, NEW c \in Names, Modify(c)
  PROVE  IInv'
<1> USE DEF IInv
<1>1. /\ pc = "idle" /\ pc' = pc /\ c \in ToSet(rtp_clusters) /\ applied' = NoConfig
      /\ UNCHANGED <<starting, config, ci, mi, todo, kept, rtp_clusters, new_rtp_clusters>>
      /\ UNCHANGED <<using, fresh, leaked>>
  BY DEF Modify, progress, lists
<1>2. up[c]
  BY <1>1 DEF Listed, Over
<1> DEFINE Kept == /\ ClusterOK' /\ Allowed' /\ up' = up /\ relay' = relay
                   /\ \A d \in Names : caveat'[d] = "none" => caveat[d] = "none"
<1>3. Kept
  <2>1. ASSUME NEW a \in Additions, a.member.host \notin members[c], add_member(c, a.member),
               caveat' = caveat
        PROVE  Kept
    <3>1. a.member \in MemberConfig
      BY ConfigsAssumption
    <3>2. up' = up /\ relay' = relay
      BY <2>1 DEF add_member
    <3> QED
      BY <1>2, <2>1, <3>1, <3>2, AddMember DEF TypeOK
  <2>2. ASSUME NEW h \in members[c], bring_down(c, h)
        PROVE  Kept
    <3>1. h \in Hosts
      BY DEF TypeOK, ClusterOK
    <3>2. up' = up /\ relay' = relay
      BY <2>2 DEF bring_down
    <3> QED
      BY <1>2, <2>2, <3>1, <3>2, BringDown DEF TypeOK
  <2>3. ASSUME NEW h \in members[c], NEW s \in {"ACTIVE", "SUSPENDED"},
               status' = [status EXCEPT ![c][h] = s],
               UNCHANGED <<up, relay, allow, members, addr, barred, caveat>>
        PROVE  Kept
    <3>1. h \in Hosts /\ s \in Statuses
      BY DEF TypeOK, ClusterOK, Statuses
    <3>2. status' = [status EXCEPT ![c] = [@ EXCEPT ![h] = s]]
      BY <2>3
    <3>3. status' \in [Names -> [Hosts -> Statuses]]
      BY <3>1, <3>2 DEF TypeOK, ClusterOK
    <3>4. ClusterOK'
      BY <2>3, <3>3 DEF TypeOK, ClusterOK
    <3>5. Allowed'
      BY <2>3 DEF Allowed, ListOK, Wanted
    <3> QED
      BY <2>3, <3>4, <3>5
  <2> QED
    BY <2>1, <2>2, <2>3 DEF Modify
<1>4. TypeOK'
  BY <1>1, <1>3 DEF TypeOK
<1>5. AtEntry' /\ Listed'
  BY <1>1, <1>3 DEF AtEntry, Listed, Loading, Over
<1>6. Between'
  BY <1>1, <1>3, StaysNotBetween DEF Over
<1> QED
  BY <1>3, <1>4, <1>5, <1>6

LEMMA DrainEndsStep ==
  ASSUME IInv, NEW c \in Names, NEW h \in Hosts, DrainEnds(c, h)
  PROVE  IInv'
<1> USE DEF IInv
<1>1. /\ h \in members[c] \cap barred[c] /\ TakeOut(c, h)
      /\ up' = up /\ relay' = relay /\ allow' = allow /\ caveat' = caveat
      /\ pc' = pc /\ starting' = starting /\ config' = config /\ ci' = ci /\ mi' = mi
      /\ todo' = todo /\ kept' = kept /\ using' = using
      /\ rtp_clusters' = rtp_clusters /\ new_rtp_clusters' = new_rtp_clusters
      /\ applied' = applied /\ fresh' = fresh /\ leaked' = leaked
  BY DEF DrainEnds, progress, lists
<1>2. /\ ClusterOK' /\ Allowed' /\ members'[c] \subseteq members[c]
      /\ \A d \in Names : \A l : ListOK(d, l) => ListOK(d, l)'
  BY <1>1, TakeOutBarred DEF TypeOK
<1>3. TypeOK'
  BY <1>1, <1>2 DEF TypeOK
<1>4. This' = This /\ Entry' = Entry
  BY <1>1, SamePlace
<1>5. AtEntry' /\ Listed'
  BY <1>1, <1>4 DEF AtEntry, Listed
<1>6. Between'
  <2>1. \A d \in Names : members'[d] \subseteq members[d]
    <3>1. \A d \in Names \ {c} : members'[d] = members[d]
      BY <1>1 DEF TakeOut, TypeOK, ClusterOK
    <3> QED
      BY <1>2, <3>1
  <2>2. ASSUME pc = "relay"
        PROVE  ListOK(This, kept)'
    <3>1. PICK d, l : d = This /\ l = kept
      OBVIOUS
    <3>2. d \in Names
      BY <2>2, <3>1, EntryOK DEF AtEntry, Loading
    <3>3. ListOK(d, l)
      BY <2>2, <3>1 DEF Between
    <3>4. ListOK(d, l)'
      BY <1>2, <3>2, <3>3
    <3> QED
      BY <1>1, <1>4, <3>1, <3>4 DEF ListOK, Wanted
  <2> QED
    BY <1>1, <1>4, <2>1, <2>2 DEF Between
<1> QED
  BY <1>2, <1>3, <1>5, <1>6

\* A member that cannot be used, and a client's command that uses the relay,
\* change nothing here but may end the process.
LEMMA OtherStep ==
  ASSUME IInv, UNCHANGED <<cluster, starting, config, ci, mi, todo, kept, lists, history>>,
         pc' \in {pc, "panic"}, using' \in Names \cup {NoName}
  PROVE  IInv'
<1> USE DEF IInv
<1>1. /\ rtp_clusters' = rtp_clusters /\ new_rtp_clusters' = new_rtp_clusters
      /\ applied' = applied /\ fresh' = fresh /\ leaked' = leaked
      /\ UNCHANGED <<cluster, barred, caveat>>
  BY DEF lists, history
<1>2. /\ ClusterOK' /\ Allowed' /\ up' = up /\ relay' = relay /\ members' = members
      /\ addr' = addr /\ barred' = barred /\ caveat' = caveat
  BY <1>1, KeepsClusters DEF TypeOK
<1>3. TypeOK'
  BY <1>1, <1>2 DEF TypeOK
<1>4. This' = This /\ Entry' = Entry
  BY SamePlace
<1>5. AtEntry' /\ Listed'
  BY <1>1, <1>2, <1>4 DEF AtEntry, Listed, Loading, Over
<1>6. Between'
  BY <1>1, <1>2, <1>4 DEF Between, Over, ListOK, Wanted
<1> QED
  BY <1>2, <1>3, <1>5, <1>6

-----------------------------------------------------------------------------

\* Every step keeps the invariant.
THEOREM Invariance == Spec => []IInv
<1>1. Init => IInv
  BY InitInv
<1>2. IInv /\ [Next]_vars => IInv'
  <2> SUFFICES ASSUME IInv, [Next]_vars PROVE IInv'
    OBVIOUS
  <2>1. ASSUME NEW c \in Names,
               \/ ShutdownOld(c) \/ Modify(c) \/ FindRelay(c)
               \/ \E h \in Hosts : DrainEnds(c, h)
        PROVE  IInv'
    <3>1. CASE FindRelay(c)
      <4>1. /\ UNCHANGED <<cluster, starting, config, ci, mi, todo, kept, lists, history>>
            /\ pc' = pc /\ using' = c
        BY <3>1 DEF FindRelay, progress
      <4> QED
        BY <4>1, OtherStep
    <3> QED
      BY <2>1, <3>1, ShutdownOldStep, ModifyStep, DrainEndsStep
  <2>2. CASE CreationFails \/ UnsupportedMember
    BY <2>2, FailStep DEF CreationFails, UnsupportedMember
  <2>3. CASE UnusableMember \/ UseRelay \/ UNCHANGED vars
    <3>1. /\ UNCHANGED <<cluster, starting, config, ci, mi, todo, kept, lists, history>>
          /\ pc' \in {pc, "panic"} /\ using' \in {using, NoName}
      BY <2>3 DEF UnusableMember, UseRelay, vars, progress
    <3> QED
      BY <3>1, OtherStep DEF IInv, TypeOK
  <2> QED
    BY <2>1, <2>2, <2>3, ReadConfigStep, FindClusterStep, DropRelayStep, NewRelayStep,
       LoadMemberStep, MembersLoadedStep, SweepStep, AllLoadedStep, ReplaceStep, DryRunStep
       DEF Next
<1> QED
  BY <1>1, <1>2, PTL DEF Spec

\* The clusters, the loops of a reload and the lists keep their types: a loop
\* never runs past the entries of the file.
THEOREM TypeCorrect == Spec => []TypeOK
<1>1. IInv => TypeOK
  BY DEF IInv
<1> QED
  BY <1>1, Invariance, PTL

\* A cluster that runs is listed, new, or left behind by a failed command.
THEOREM Reachable == Spec => []RunningListed
<1>1. IInv => RunningListed
  BY DEF IInv, Listed, Over, RunningListed
<1> QED
  BY <1>1, Invariance, PTL

\* Whatever reloads, additions, removals and drains follow each other, a relay
\* accepts only addresses of members, unless a reload moved a member.
THEOREM OnlyMembers == Spec => []AcceptsOnlyMembers
<1>1. IInv => AcceptsOnlyMembers
  <2> SUFFICES ASSUME IInv, NEW c \in Names, allow[c] # NoList, caveat[c] # "stale"
               PROVE  allow[c] \subseteq {addr[c][h] : h \in members[c]}
    BY DEF AcceptsOnlyMembers, Accepts
  <2>1. relay[c] # NoRelay
    BY DEF IInv, Allowed
  <2> QED
    BY <2>1 DEF IInv, Allowed, ListOK, Wanted
<1> QED
  BY <1>1, Invariance, PTL

\* And it accepts those of all members, unless an address was lost.
THEOREM AllMembers == Spec => []MembersAccepted
<1>1. IInv => MembersAccepted
  BY DEF IInv, Allowed, ListOK, MembersAccepted, Accepts
<1> QED
  BY <1>1, Invariance, PTL

-----------------------------------------------------------------------------
(***************************************************************************)
(* What a reload puts in force and what it must not disturb, whatever      *)
(* drains and commands of clients come between its steps.                  *)
(***************************************************************************)

\* A cluster has the members of an entry of the file as they are there, and
\* no other relay; it may have other members, that drain.
MemberAs(c, m) ==
  m.host \in members[c] /\ addr[c][m.host] = m.addr /\ status[c][m.host] = m.status
MembersAs(e) == \A m \in ToSet(e.members) : MemberAs(e.name, m)
RelayAs(e) == relay[e.name] \in {NoRelay, e.relay}
InForce(e) == up[e.name] /\ MembersAs(e) /\ RelayAs(e)

\* The entries the outer loop is through with are in force, and listed anew;
\* and so are the members of the current one that the inner loop has seen.
Done == {config[k] : k \in 1 .. ci - 1}

Loaded ==
  /\ pc \notin Over \cup {"idle"} =>
       /\ Len(new_rtp_clusters) = ci - 1
       /\ \A k \in 1 .. ci - 1 : new_rtp_clusters[k] = config[k].name
       /\ \A e \in Done : InForce(e)
  /\ pc \in {"idle", "cluster", "drop", "relay", "shutdown"} => mi = 1
  /\ pc = "member" =>
       \A j \in DOMAIN Entry.members : j < mi => MemberAs(This, Entry.members[j])
  /\ pc \in {"member", "sweep"} => \A e \in {Entry} : RelayAs(e)
  /\ pc = "sweep" => \A e \in {Entry} : MembersAs(e)
  /\ pc = "shutdown" => ci = Len(config) + 1

\* The configuration applied last is in force: also while it is applied again.
Applied ==
  applied # NoConfig /\ pc \notin Over =>
    /\ rtp_clusters = NamesOf(applied)
    /\ \A e \in ToSet(applied) : InForce(e)
    /\ ~ starting
    /\ pc # "idle" => config = applied

FInv == IInv /\ Loaded /\ Applied

\* What a step does to the configuration in force: nothing.
Undisturbed ==
  \A e \in ToSet(applied) :
    InForce(e)' /\ (relay[e.name] # NoRelay => relay'[e.name] = relay[e.name])

-----------------------------------------------------------------------------

\* Elements of a sequence.
LEMMA Elements ==
  ASSUME NEW S, NEW s \in Seq(S)
  PROVE  ToSet(s) = {s[k] : k \in 1 .. Len(s)} /\ ToSet(s) \subseteq S
BY LenProperties DEF ToSet

\* The entries of a file, their names and those of their members.
LEMMA FileOK ==
  ASSUME NEW c \in Configs \cup {<<>>}
  PROVE  /\ c \in Seq(Entries) /\ ToSet(c) \subseteq Entries
         /\ \A j, k \in 1 .. Len(c) : c[j].name = c[k].name => j = k
         /\ \A e \in ToSet(c) : \A j, k \in 1 .. Len(e.members) :
              e.members[j].host = e.members[k].host => j = k
<1>1. c \in Seq(Entries)
  BY ConfigsAssumption, EmptySeq
<1>2. ToSet(c) \subseteq Entries /\ DOMAIN c = 1 .. Len(c)
  BY <1>1, Elements, LenProperties
<1>3. \A e \in Entries : DOMAIN e.members = 1 .. Len(e.members)
  BY LenProperties DEF Entries
<1>4. CASE c \in Configs
  BY <1>1, <1>2, <1>3, <1>4, NamesAssumption
<1>5. CASE c = <<>>
  <2>1. Len(c) = 0 /\ ToSet(c) = {}
    BY <1>5 DEF ToSet
  <2> QED
    BY <1>1, <1>2, <2>1
<1> QED
  BY <1>4, <1>5

\* The entry the loops are at is the only one of its name.
LEMMA OneEntry ==
  ASSUME TypeOK, ci \in 1 .. Len(config)
  PROVE  /\ Entry \in Entries /\ Entry \in ToSet(config)
         /\ Done \subseteq ToSet(config) /\ ToSet(config) \subseteq Entries
         /\ \A e \in Done : e.name # This
         /\ \A e \in ToSet(config) : e.name = This => e = Entry
<1>1. config \in Configs \cup {<<>>}
  BY DEF TypeOK
<1>2. config \in Seq(Entries) /\ ToSet(config) = {config[k] : k \in 1 .. Len(config)}
  BY <1>1, FileOK, Elements
<1>3. Done \subseteq ToSet(config)
  BY <1>2 DEF Done
<1>4. \A k \in 1 .. Len(config) : config[k].name = config[ci].name => k = ci
  BY <1>1, FileOK
<1>5. \A e \in Done : e.name # This
  <2> SUFFICES ASSUME NEW k \in 1 .. ci - 1 PROVE config[k].name # config[ci].name
    BY DEF Done, This, Entry
  <2> QED
    BY <1>4
<1> QED
  BY <1>1, <1>2, <1>3, <1>4, <1>5, FileOK DEF This, Entry

LEMMA AppliedOK ==
  ASSUME TypeOK, applied # NoConfig
  PROVE  applied \in Seq(Entries) /\ ToSet(applied) \subseteq Entries
BY FileOK DEF TypeOK

LEMMA DoneOK ==
  ASSUME TypeOK
  PROVE  Done \subseteq Entries
<1>1. config \in Seq(Entries) /\ ci \in 1 .. Len(config) + 1
  BY FileOK DEF TypeOK
<1> QED
  BY <1>1 DEF Done

-----------------------------------------------------------------------------
(* What keeps an entry in force.                                           *)

LEMMA OtherCluster ==
  ASSUME NEW e, InForce(e),
         UNCHANGED <<up[e.name], relay[e.name], members[e.name], addr[e.name], status[e.name]>>
  PROVE  InForce(e)'
BY DEF InForce, MembersAs, MemberAs, RelayAs

\* The removal, at once or later, of a member that is not in the entry.
LEMMA OtherMember ==
  ASSUME ClusterOK, NEW c \in Names, NEW h \in Hosts, TakeOut(c, h) \/ Drain(c, h),
         up' = up, relay' = relay,
         NEW e \in Entries, e.name # c \/ h \notin HostsOf(e)
  PROVE  /\ InForce(e) => InForce(e)'
         /\ MembersAs(e) => MembersAs(e)'
         /\ RelayAs(e) => RelayAs(e)'
<1>1. ASSUME NEW m \in ToSet(e.members), MemberAs(e.name, m)
      PROVE  MemberAs(e.name, m)'
  <2>1. e.name # c \/ m.host # h
    BY DEF HostsOf
  <2>2. e.name \in Names /\ m.host \in Hosts
    <3>1. e.members \in Seq(MemberConfig)
      BY DEF Entries
    <3>2. m \in MemberConfig
      BY <3>1, Elements
    <3> QED
      BY <3>2, MemberOK DEF Entries
  <2>3. CASE TakeOut(c, h)
    <3>1. /\ members' = [members EXCEPT ![c] = @ \ {h}]
          /\ addr' = [addr EXCEPT ![c] = [@ EXCEPT ![h] = Unix]]
          /\ status' = [status EXCEPT ![c] = [@ EXCEPT ![h] = "ACTIVE"]]
      BY <2>3 DEF TakeOut
    <3>2. CASE e.name # c
      BY <1>1, <2>2, <3>1, <3>2 DEF MemberAs, ClusterOK
    <3>3. CASE e.name = c
      BY <1>1, <2>1, <2>2, <3>1, <3>3 DEF MemberAs, ClusterOK
    <3> QED
      BY <3>2, <3>3
  <2>4. CASE Drain(c, h)
    <3>1. /\ members' = members /\ addr' = addr
          /\ status' = [status EXCEPT ![c] = [@ EXCEPT ![h] = "DRAINING"]]
      BY <2>4 DEF Drain
    <3>2. CASE e.name # c
      BY <1>1, <2>2, <3>1, <3>2 DEF MemberAs, ClusterOK
    <3>3. CASE e.name = c
      BY <1>1, <2>1, <2>2, <3>1, <3>3 DEF MemberAs, ClusterOK
    <3> QED
      BY <3>2, <3>3
  <2> QED
    BY <2>3, <2>4
<1>2. MembersAs(e) => MembersAs(e)'
  BY <1>1 DEF MembersAs
<1> QED
  BY <1>2 DEF InForce, RelayAs

\* What a step is to show that keeps the loops at their entry.
LEMMA StaysAtEntry ==
  ASSUME FInv, pc' = pc, config' = config, ci' = ci, mi' = mi, starting' = starting,
         rtp_clusters' = rtp_clusters, new_rtp_clusters' = new_rtp_clusters,
         applied' \in {applied, NoConfig},
         pc \notin Over =>
           /\ pc # "idle" => \A e \in Done : InForce(e)'
           /\ pc = "member" =>
                \A j \in DOMAIN Entry.members : j < mi => MemberAs(This, Entry.members[j])'
           /\ pc \in {"member", "sweep"} => \A e \in {Entry} : RelayAs(e)'
           /\ pc = "sweep" => \A e \in {Entry} : MembersAs(e)'
           /\ applied' # NoConfig => \A e \in ToSet(applied) : InForce(e)'
  PROVE  Loaded' /\ Applied'
<1>1. Done' = Done /\ Entry' = Entry /\ This' = This
  BY SamePlace DEF Done
<1>2. Loaded'
  BY <1>1 DEF FInv, Loaded, Over
<1>3. Applied'
  BY DEF FInv, Applied, Over
<1> QED
  BY <1>2, <1>3

\* Steps that change no cluster but perhaps its allow list.
LEMMA SameClusters ==
  ASSUME FInv, up' = up, relay' = relay, members' = members, addr' = addr, status' = status
  PROVE  /\ \A e : /\ InForce(e) => InForce(e)'
                   /\ MembersAs(e) => MembersAs(e)'
                   /\ RelayAs(e) => RelayAs(e)'
         /\ \A c, m : MemberAs(c, m) => MemberAs(c, m)'
         /\ pc \notin Over /\ applied # NoConfig => Undisturbed
<1>1. /\ \A e : /\ InForce(e) => InForce(e)'
                /\ MembersAs(e) => MembersAs(e)'
                /\ RelayAs(e) => RelayAs(e)'
      /\ \A c, m : MemberAs(c, m) => MemberAs(c, m)'
  BY DEF InForce, MembersAs, MemberAs, RelayAs
<1>2. pc \notin Over /\ applied # NoConfig => Undisturbed
  BY <1>1 DEF Undisturbed, FInv, Applied
<1> QED
  BY <1>1, <1>2

-----------------------------------------------------------------------------
(* The steps.                                                              *)

LEMMA InitForce == Init => Loaded /\ Applied
<1> SUFFICES ASSUME Init PROVE Loaded /\ Applied
  OBVIOUS
<1>1. Loaded
  BY EmptySeq DEF Init, Loaded, Done, Over
<1>2. Applied
  BY DEF Init, Applied
<1> QED
  BY <1>1, <1>2

LEMMA ReadConfigForce ==
  ASSUME FInv, ReadConfig
  PROVE  Loaded' /\ Applied'
<1>1. /\ pc = "idle" /\ pc' = "cluster" /\ ci' = 1
      /\ new_rtp_clusters' = <<>> /\ rtp_clusters' = rtp_clusters
      /\ starting' = starting /\ mi' = mi
      /\ applied' = IF config' = applied THEN applied ELSE NoConfig
      /\ up' = up /\ relay' = relay /\ members' = members /\ addr' = addr /\ status' = status
  BY DEF ReadConfig, cluster
<1>2. Loaded'
  BY <1>1, EmptySeq DEF FInv, Loaded, Done, Over
<1>3. Applied'
  BY <1>1, SameClusters DEF FInv, Applied, Over
<1> QED
  BY <1>2, <1>3

LEMMA FailForce ==
  ASSUME FInv, pc \in {"cluster", "member"}, Fail
  PROVE  Loaded' /\ Applied' /\ (applied # NoConfig => Undisturbed)
<1>1. /\ pc' \in {"exit", "idle"} /\ mi' = 1 /\ applied' = NoConfig
      /\ up' = up /\ relay' = relay /\ members' = members /\ addr' = addr /\ status' = status
  BY DEF Fail, cluster
<1>2. Loaded' /\ Applied'
  BY <1>1 DEF Loaded, Applied, Over
<1> QED
  BY <1>1, <1>2, SameClusters DEF Over

LEMMA FindClusterForce ==
  ASSUME FInv, FindCluster
  PROVE  Loaded' /\ Applied' /\ (applied # NoConfig => Undisturbed)
<1> USE DEF FInv, IInv
<1>1. /\ pc = "cluster" /\ pc' = "drop" /\ config' = config /\ ci' = ci /\ mi' = mi
      /\ starting' = starting
      /\ rtp_clusters' = rtp_clusters /\ new_rtp_clusters' = new_rtp_clusters
  BY DEF FindCluster, lists
<1>2. ci \in 1 .. Len(config)
  <2>1. ci <= Len(config) /\ ci \in 1 .. Len(config) + 1
    BY DEF FindCluster, TypeOK
  <2>2. Len(config) \in Nat
    BY ConfigsAssumption, EmptySeq DEF TypeOK
  <2> QED
    BY <2>1, <2>2
<1>3. Done' = Done
  BY <1>1 DEF Done
<1>4. CASE UNCHANGED <<cluster, history>>
  <2>1. /\ applied' = applied
        /\ up' = up /\ relay' = relay /\ members' = members /\ addr' = addr /\ status' = status
    BY <1>4 DEF cluster, history
  <2>2. Loaded'
    BY <1>1, <1>3, <2>1, SameClusters DEF Loaded, Over
  <2>3. Applied'
    BY <1>1, <2>1, SameClusters DEF Applied, Over
  <2> QED
    BY <1>1, <2>1, <2>2, <2>3, SameClusters DEF Over
<1>5. CASE This \notin ToSet(rtp_clusters) /\ ~ up[This] /\ Create(This)
  <2>1. /\ \A c \in Names \ {This} : up'[c] = up[c] /\ relay'[c] = relay[c]
        /\ members' = members /\ addr' = addr /\ status' = status /\ applied' = applied
    BY <1>5 DEF Create, TypeOK, ClusterOK
  <2>2. \A e \in Done : e.name \in Names \ {This} /\ InForce(e)
    BY <1>1, <1>2, OneEntry DEF Loaded, Over, Entries
  <2>3. \A e \in Done : InForce(e)'
    BY <2>1, <2>2, OtherCluster
  <2>4. Loaded'
    BY <1>1, <1>3, <2>3 DEF Loaded, Over
  <2>5. applied = NoConfig
    <3> SUFFICES ASSUME applied # NoConfig PROVE up[This]
      BY <1>5
    <3> QED
      BY <1>1, <1>2, OneEntry DEF Applied, InForce, This, Over
  <2> QED
    BY <2>1, <2>4, <2>5 DEF Applied
<1>6. CASE starting /\ ~ up[This] /\ Create(This)
  <2>1. /\ \A c \in Names \ {This} : up'[c] = up[c] /\ relay'[c] = relay[c]
        /\ members' = members /\ addr' = addr /\ status' = status /\ applied' = applied
    BY <1>6 DEF Create, TypeOK, ClusterOK
  <2>2. \A e \in Done : e.name \in Names \ {This} /\ InForce(e)
    BY <1>1, <1>2, OneEntry DEF Loaded, Over, Entries
  <2>3. \A e \in Done : InForce(e)'
    BY <2>1, <2>2, OtherCluster
  <2>4. Loaded'
    BY <1>1, <1>3, <2>3 DEF Loaded, Over
  <2>5. applied = NoConfig
    BY <1>1, <1>6 DEF Applied, Over
  <2> QED
    BY <2>1, <2>4, <2>5 DEF Applied
<1> QED
  BY <1>4, <1>5, <1>6 DEF FindCluster

LEMMA DropRelayForce ==
  ASSUME FInv, DropRelay
  PROVE  Loaded' /\ Applied' /\ (applied # NoConfig => Undisturbed)
<1> USE DEF FInv, IInv
<1> DEFINE c == This
           r == Entry.relay
<1>1. /\ pc = "drop" /\ config' = config /\ ci' = ci /\ mi' = mi /\ starting' = starting
      /\ rtp_clusters' = rtp_clusters /\ new_rtp_clusters' = new_rtp_clusters
      /\ applied' = applied
      /\ up' = up /\ members' = members /\ addr' = addr /\ status' = status
      /\ pc' \in {"member", "relay"}
  BY DEF DropRelay, lists
<1>2. ci \in 1 .. Len(config) /\ c \in Names
  BY <1>1, EntryOK DEF AtEntry, Loading
<1>3. Done' = Done /\ Entry' = Entry /\ This' = This
  BY <1>1, SamePlace DEF Done
<1>4. /\ \A d \in Names \ {c} : relay'[d] = relay[d]
      /\ relay'[c] \in {NoRelay, r}
      /\ relay[c] \in {NoRelay, r} => relay'[c] \in {NoRelay, r}
      /\ relay[c] # NoRelay /\ relay[c] = r => relay' = relay
  <2>1. relay' = relay \/ relay' = [relay EXCEPT ![c] = NoRelay]
    BY DEF DropRelay
  <2>2. relay[c] # NoRelay /\ relay[c] = r => relay' = relay
    BY DEF DropRelay
  <2>3. ~ (relay[c] # NoRelay /\ relay[c] = r) => relay'[c] = NoRelay
    BY <1>2 DEF DropRelay, TypeOK, ClusterOK
  <2> QED
    BY <1>2, <2>1, <2>2, <2>3 DEF TypeOK, ClusterOK
<1>5. \A e \in Done : InForce(e)'
  <2>1. \A e \in Done : e.name \in Names \ {c} /\ InForce(e)
    BY <1>1, <1>2, OneEntry DEF Loaded, Over, Entries
  <2> QED
    BY <1>1, <1>4, <2>1, OtherCluster
<1>6. Loaded'
  <2>1. \A e \in {Entry} : RelayAs(e)'
    BY <1>4 DEF RelayAs, This
  <2>2. mi = 1 /\ \A j \in DOMAIN Entry.members : ~ (j < mi)
    <3>1. DOMAIN Entry.members = 1 .. Len(Entry.members)
      BY <1>2, EntryOK, LenProperties
    <3> QED
      BY <1>1, <3>1 DEF Loaded
  <2> QED
    BY <1>1, <1>3, <1>5, <2>1, <2>2 DEF Loaded, Over
<1>7. applied # NoConfig => Undisturbed
  <2> SUFFICES ASSUME applied # NoConfig, NEW e \in ToSet(applied)
               PROVE  InForce(e)' /\ (relay[e.name] # NoRelay => relay'[e.name] = relay[e.name])
    BY DEF Undisturbed
  <2>1. InForce(e) /\ e \in Entries /\ e \in ToSet(config)
    BY <1>1, AppliedOK DEF Applied, Over
  <2>2. CASE e.name # c
    BY <1>1, <1>4, <2>1, <2>2, OtherCluster DEF Entries
  <2>3. CASE e.name = c
    <3>1. e = Entry
      BY <1>2, <2>1, <2>3, OneEntry
    <3>2. relay[c] \in {NoRelay, r}
      BY <2>1, <2>3, <3>1 DEF InForce, RelayAs
    <3> QED
      BY <1>1, <1>4, <2>1, <2>3, <3>1, <3>2 DEF InForce, MembersAs, MemberAs, RelayAs
  <2> QED
    BY <2>2, <2>3
<1>8. Applied'
  BY <1>1, <1>7 DEF Applied, Undisturbed, Over
<1> QED
  BY <1>6, <1>7, <1>8

LEMMA NewRelayForce ==
  ASSUME FInv, NewRelay
  PROVE  Loaded' /\ Applied' /\ (applied # NoConfig => Undisturbed)
<1> USE DEF FInv, IInv
<1> DEFINE c == This
           r == Entry.relay
<1>1. /\ pc = "relay" /\ config' = config /\ ci' = ci /\ mi' = mi /\ starting' = starting
      /\ rtp_clusters' = rtp_clusters /\ new_rtp_clusters' = new_rtp_clusters
      /\ applied' = applied
      /\ up' = up /\ members' = members /\ addr' = addr /\ status' = status
      /\ pc' = "member" /\ relay' \in {relay, [relay EXCEPT ![c] = r]}
  BY DEF NewRelay, lists
<1>2. ci \in 1 .. Len(config) /\ c \in Names /\ relay[c] = NoRelay
  BY <1>1, EntryOK DEF AtEntry, Loading
<1>3. Done' = Done /\ Entry' = Entry /\ This' = This
  BY <1>1, SamePlace DEF Done
<1>4. (\A d \in Names \ {c} : relay'[d] = relay[d]) /\ relay'[c] \in {NoRelay, r}
  BY <1>1, <1>2 DEF TypeOK, ClusterOK
<1>5. \A e \in Done : InForce(e)'
  <2>1. \A e \in Done : e.name \in Names \ {c} /\ InForce(e)
    BY <1>1, <1>2, OneEntry DEF Loaded, Over, Entries
  <2> QED
    BY <1>1, <1>4, <2>1, OtherCluster
<1>6. Loaded'
  <2>1. \A e \in {Entry} : RelayAs(e)'
    BY <1>4 DEF RelayAs, This
  <2>2. mi = 1 /\ \A j \in DOMAIN Entry.members : ~ (j < mi)
    <3>1. DOMAIN Entry.members = 1 .. Len(Entry.members)
      BY <1>2, EntryOK, LenProperties
    <3> QED
      BY <1>1, <3>1 DEF Loaded
  <2> QED
    BY <1>1, <1>3, <1>5, <2>1, <2>2 DEF Loaded, Over
<1>7. applied # NoConfig => Undisturbed
  <2> SUFFICES ASSUME applied # NoConfig, NEW e \in ToSet(applied)
               PROVE  InForce(e)' /\ (relay[e.name] # NoRelay => relay'[e.name] = relay[e.name])
    BY DEF Undisturbed
  <2>1. InForce(e) /\ e \in Entries /\ e \in ToSet(config)
    BY <1>1, AppliedOK DEF Applied, Over
  <2>2. CASE e.name # c
    BY <1>1, <1>4, <2>1, <2>2, OtherCluster DEF Entries
  <2>3. CASE e.name = c
    <3>1. e = Entry
      BY <1>2, <2>1, <2>3, OneEntry
    <3> QED
      BY <1>1, <1>2, <1>4, <2>1, <2>3, <3>1 DEF InForce, MembersAs, MemberAs, RelayAs
  <2> QED
    BY <2>2, <2>3
<1>8. Applied'
  BY <1>1, <1>7 DEF Applied, Undisturbed, Over
<1> QED
  BY <1>6, <1>7, <1>8

\* A member that was loaded, added or there before, is as the entry has it.
LEMMA LoadMemberForce ==
  ASSUME FInv, LoadMember
  PROVE  Loaded' /\ Applied' /\ (applied # NoConfig => Undisturbed)
<1> USE DEF FInv, IInv
<1> DEFINE c == This
           m == Entry.members[mi]
           h == Entry.members[mi].host
<1>1. /\ pc = "member" /\ pc' = pc /\ config' = config /\ ci' = ci /\ mi' = mi + 1
      /\ starting' = starting
      /\ rtp_clusters' = rtp_clusters /\ new_rtp_clusters' = new_rtp_clusters
      /\ applied' = applied /\ up' = up /\ relay' = relay /\ mi <= Len(Entry.members)
      /\ members' = members \/ members' = [members EXCEPT ![c] = @ \cup {h}]
      /\ addr' = [addr EXCEPT ![c] = [@ EXCEPT ![h] = m.addr]]
      /\ status' = [status EXCEPT ![c] = [@ EXCEPT ![h] = m.status]]
      /\ members' = members => h \in members[c]
  <2>1. /\ pc = "member" /\ pc' = pc /\ config' = config /\ ci' = ci /\ mi' = mi + 1
        /\ starting' = starting
        /\ rtp_clusters' = rtp_clusters /\ new_rtp_clusters' = new_rtp_clusters
        /\ applied' = applied /\ mi <= Len(Entry.members)
    BY DEF LoadMember, lists
  <2>2. CASE h \in members[c]
    BY <2>1, <2>2 DEF LoadMember
  <2>3. CASE h \notin members[c]
    <3>1. add_member(c, m)
      BY <2>3 DEF LoadMember
    <3>2. c \in Names
      BY <2>1, EntryOK DEF AtEntry, Loading
    <3>3. members' # members
      <4>1. members' = [members EXCEPT ![c] = @ \cup {h}]
        BY <3>1 DEF add_member
      <4>2. h \in members'[c]
        BY <3>2, <4>1 DEF TypeOK, ClusterOK
      <4> QED
        BY <2>3, <4>2
    <3> QED
      BY <2>1, <3>1, <3>3 DEF add_member
  <2> QED
    BY <2>2, <2>3
<1>2. ci \in 1 .. Len(config) /\ c \in Names /\ mi \in 1 .. Len(Entry.members)
  <2>1. ci \in 1 .. Len(config) /\ c \in Names /\ Entry.members \in Seq(MemberConfig)
    BY <1>1, EntryOK DEF AtEntry, Loading
  <2>2. Len(Entry.members) \in Nat
    BY <2>1, LenProperties
  <2> QED
    BY <1>1, <2>1, <2>2 DEF TypeOK
<1>3. Done' = Done /\ Entry' = Entry /\ This' = This
  BY <1>1, SamePlace DEF Done
<1>4. /\ Entry.members \in Seq(MemberConfig)
      /\ DOMAIN Entry.members = 1 .. Len(Entry.members)
      /\ ToSet(Entry.members) = {Entry.members[j] : j \in 1 .. Len(Entry.members)}
      /\ \A j \in 1 .. Len(Entry.members) :
           Entry.members[j] \in MemberConfig /\ Entry.members[j].host \in Hosts
  BY <1>2, EntryOK, Elements, LenProperties, MemberOK
<1>5. \A j \in 1 .. Len(Entry.members) : Entry.members[j].host = h => j = mi
  <2>1. config \in Configs \cup {<<>>}
    BY DEF TypeOK
  <2>2. \A e \in ToSet(config) : \A j, k \in 1 .. Len(e.members) :
          e.members[j].host = e.members[k].host => j = k
    BY <2>1, FileOK
  <2> QED
    BY <1>2, <2>2, OneEntry
<1>6. ASSUME NEW j \in 1 .. Len(Entry.members), j = mi
      PROVE  MemberAs(c, Entry.members[j])'
  <2>1. h \in Hosts
    BY <1>2, <1>4
  <2>2. h \in members'[c]
    BY <1>1, <1>2 DEF TypeOK, ClusterOK
  <2>3. addr'[c][h] = m.addr /\ status'[c][h] = m.status
    BY <1>1, <1>2, <2>1 DEF TypeOK, ClusterOK
  <2> QED
    BY <1>3, <1>6, <2>2, <2>3 DEF MemberAs
<1>7. ASSUME NEW j \in 1 .. Len(Entry.members), j # mi, MemberAs(c, Entry.members[j])
      PROVE  MemberAs(c, Entry.members[j])'
  <2> DEFINE g == Entry.members[j].host
  <2>1. g # h /\ g \in Hosts
    BY <1>4, <1>5, <1>7
  <2>2. (g \in members[c] => g \in members'[c]) /\ addr'[c][g] = addr[c][g] /\ status'[c][g] = status[c][g]
    <3>1. g \in members[c] => g \in members'[c]
      BY <1>1, <1>2 DEF TypeOK, ClusterOK
    <3>2. addr'[c][g] = addr[c][g] /\ status'[c][g] = status[c][g]
      BY <1>1, <1>2, <2>1 DEF TypeOK, ClusterOK
    <3> QED
      BY <3>1, <3>2
  <2> QED
    BY <1>3, <1>7, <2>2 DEF MemberAs
<1>8. \A d \in Names \ {c} : /\ members'[d] = members[d] /\ addr'[d] = addr[d]
                             /\ status'[d] = status[d]
  BY <1>1, <1>2 DEF TypeOK, ClusterOK
<1>9. \A e \in Done : InForce(e)'
  <2>1. \A e \in Done : e.name \in Names \ {c} /\ InForce(e)
    BY <1>1, <1>2, OneEntry DEF Loaded, Over, Entries
  <2> QED
    BY <1>1, <1>8, <2>1, OtherCluster
<1>10. Loaded'
  <2>1. \A e \in {Entry} : RelayAs(e)'
    BY <1>1 DEF RelayAs, Loaded
  <2>2. \A j \in DOMAIN Entry.members : j < mi + 1 => MemberAs(c, Entry.members[j])'
    <3> SUFFICES ASSUME NEW j \in 1 .. Len(Entry.members), j < mi + 1
                 PROVE  MemberAs(c, Entry.members[j])'
      BY <1>4
    <3>1. CASE j = mi
      BY <1>6, <3>1
    <3>2. CASE j # mi
      <4>1. j < mi
        BY <1>2, <3>2
      <4> QED
        BY <1>1, <1>4, <1>7, <3>2, <4>1 DEF Loaded
    <3> QED
      BY <3>1, <3>2
  <2> QED
    BY <1>1, <1>3, <1>9, <2>1, <2>2 DEF Loaded, Over, MemberAs
<1>11. applied # NoConfig => Undisturbed
  <2> SUFFICES ASSUME applied # NoConfig, NEW e \in ToSet(applied) PROVE InForce(e)'
    BY <1>1 DEF Undisturbed
  <2>1. InForce(e) /\ e \in Entries /\ e \in ToSet(config)
    BY <1>1, AppliedOK DEF Applied, Over
  <2>2. CASE e.name # c
    BY <1>1, <1>8, <2>1, <2>2, OtherCluster DEF Entries
  <2>3. CASE e.name = c
    <3>1. e = Entry
      BY <1>2, <2>1, <2>3, OneEntry
    <3>2. ASSUME NEW j \in 1 .. Len(Entry.members)
          PROVE  MemberAs(c, Entry.members[j])'
      <4>1. MemberAs(c, Entry.members[j])
        BY <1>4, <2>1, <2>3, <3>1 DEF InForce, MembersAs
      <4>2. CASE j = mi
        BY <1>6, <4>2
      <4>3. CASE j # mi
        BY <1>7, <4>1, <4>3
      <4> QED
        BY <4>2, <4>3
    <3>3. \A x \in ToSet(Entry.members) : /\ x.host \in members'[c]
                                          /\ addr'[c][x.host] = x.addr
                                          /\ status'[c][x.host] = x.status
      BY <1>3, <1>4, <3>2 DEF MemberAs
    <3> QED
      BY <1>1, <2>1, <2>3, <3>1, <3>3 DEF InForce, MembersAs, MemberAs, RelayAs
  <2> QED
    BY <2>2, <2>3
<1>12. Applied'
  BY <1>1, <1>11 DEF Applied, Undisturbed, Over
<1> QED
  BY <1>10, <1>11, <1>12

\* The loop goes on to the next entry: this one is in force.
LEMMA NextEntryForce ==
  ASSUME FInv, pc \in {"member", "sweep"}, NextCluster, \A e \in {Entry} : MembersAs(e),
         config' = config, rtp_clusters' = rtp_clusters, starting' = starting,
         applied' = applied,
         up' = up, relay' = relay, members' = members, addr' = addr, status' = status
  PROVE  Loaded' /\ Applied' /\ (applied # NoConfig => Undisturbed)
<1> USE DEF FInv, IInv
<1>1. /\ ci' = ci + 1 /\ mi' = 1 /\ pc' = "cluster"
      /\ new_rtp_clusters' = Append(new_rtp_clusters, This)
  BY DEF NextCluster
<1>2. ci \in 1 .. Len(config) /\ up[This] /\ This \in Names
  BY EntryOK DEF AtEntry, Loading
<1>3. Done' = Done \cup {Entry}
  <2>1. 1 .. ci' - 1 = (1 .. ci - 1) \cup {ci}
    BY <1>1, <1>2
  <2> QED
    BY <2>1 DEF Done, Entry
<1>4. /\ Len(new_rtp_clusters') = ci
      /\ \A k \in 1 .. ci : new_rtp_clusters'[k] = config[k].name
  <2>1. new_rtp_clusters \in Seq(Names) /\ Len(new_rtp_clusters) = ci - 1
    BY DEF TypeOK, Loaded, Over
  <2>2. /\ Len(new_rtp_clusters') = ci /\ new_rtp_clusters'[ci] = This
        /\ \A k \in 1 .. ci - 1 : new_rtp_clusters'[k] = new_rtp_clusters[k]
    <3>1. \A t : t = Append(new_rtp_clusters, This) =>
            /\ Len(t) = Len(new_rtp_clusters) + 1 /\ t[Len(new_rtp_clusters) + 1] = This
            /\ \A k \in 1 .. Len(new_rtp_clusters) : t[k] = new_rtp_clusters[k]
      BY <1>2, <2>1, AppendProperties
    <3> QED
      BY <1>1, <1>2, <2>1, <3>1
  <2>3. ASSUME NEW k \in 1 .. ci
        PROVE  new_rtp_clusters'[k] = config[k].name
    <3>1. CASE k = ci
      BY <2>2, <3>1 DEF This, Entry
    <3>2. CASE k # ci
      <4>1. k \in 1 .. ci - 1
        BY <1>2, <3>2
      <4> QED
        BY <2>2, <4>1 DEF Loaded, Over
    <3> QED
      BY <3>1, <3>2
  <2> QED
    BY <2>2, <2>3
<1>5. \A e \in Done \cup {Entry} : InForce(e)'
  <2>1. \A e \in Done \cup {Entry} : InForce(e)
    <3>1. \A e \in Done : InForce(e)
      BY DEF Loaded, Over
    <3>2. \A e \in {Entry} : InForce(e)
      BY <1>2 DEF InForce, Loaded, This
    <3> QED
      BY <3>1, <3>2
  <2> QED
    BY <2>1, SameClusters
<1>6. Loaded'
  <2>1. ci' - 1 = ci
    BY <1>1, <1>2
  <2> QED
    BY <1>1, <1>3, <1>4, <1>5, <2>1 DEF Loaded, Over
<1>7. applied # NoConfig => Undisturbed
  BY SameClusters DEF Over
<1>8. Applied'
  BY <1>1, <1>7 DEF Applied, Undisturbed, Over
<1> QED
  BY <1>6, <1>7, <1>8

LEMMA MembersLoadedForce ==
  ASSUME FInv, MembersLoaded
  PROVE  Loaded' /\ Applied' /\ (applied # NoConfig => Undisturbed)
<1> USE DEF FInv, IInv
<1>1. /\ pc = "member" /\ mi > Len(Entry.members)
      /\ config' = config /\ starting' = starting /\ rtp_clusters' = rtp_clusters
      /\ applied' = applied
      /\ up' = up /\ relay' = relay /\ members' = members /\ addr' = addr /\ status' = status
  BY DEF MembersLoaded, history, cluster
<1>2. \A e \in {Entry} : MembersAs(e)
  <2>1. /\ ToSet(Entry.members) = {Entry.members[j] : j \in 1 .. Len(Entry.members)}
        /\ DOMAIN Entry.members = 1 .. Len(Entry.members)
        /\ Len(Entry.members) \in Nat
    <3>1. Entry.members \in Seq(MemberConfig)
      BY <1>1, EntryOK DEF AtEntry, Loading
    <3> QED
      BY <3>1, Elements, LenProperties
  <2>2. \A j \in 1 .. Len(Entry.members) : j < mi
    BY <1>1, <2>1 DEF TypeOK
  <2>3. \A j \in 1 .. Len(Entry.members) : MemberAs(This, Entry.members[j])
    BY <1>1, <2>1, <2>2 DEF Loaded
  <2> QED
    BY <2>1, <2>3 DEF MembersAs, This
<1>3. CASE NextCluster
  BY <1>1, <1>2, <1>3, NextEntryForce
<1>4. CASE pc' = "sweep" /\ UNCHANGED <<ci, mi, new_rtp_clusters>>
  <2>1. Done' = Done /\ Entry' = Entry
    BY <1>1, <1>4, SamePlace DEF Done
  <2>2. (\A e \in Done : InForce(e)') /\ \A e \in {Entry} : MembersAs(e)' /\ RelayAs(e)'
    BY <1>1, <1>2, SameClusters DEF Loaded, Over
  <2>3. Loaded'
    BY <1>1, <1>4, <2>1, <2>2 DEF Loaded, Over
  <2>4. applied # NoConfig => Undisturbed
    BY <1>1, SameClusters DEF Over
  <2>5. Applied'
    BY <1>1, <1>4, <2>4 DEF Applied, Undisturbed, Over
  <2> QED
    BY <2>3, <2>4, <2>5
<1> QED
  BY <1>3, <1>4 DEF MembersLoaded

\* The members brought down are in no entry that is in force.
LEMMA SweepForce ==
  ASSUME FInv, Sweep
  PROVE  Loaded' /\ Applied' /\ (applied # NoConfig => Undisturbed)
<1> USE DEF FInv, IInv
<1>1. /\ pc = "sweep" /\ config' = config /\ starting' = starting
      /\ rtp_clusters' = rtp_clusters /\ applied' = applied
  BY DEF Sweep
<1>2. CASE NextCluster /\ UNCHANGED cluster
  <2>1. \A e \in {Entry} : MembersAs(e)
    BY <1>1 DEF Loaded
  <2> QED
    BY <1>1, <1>2, <2>1, NextEntryForce DEF cluster
<1>3. CASE UNCHANGED <<pc, ci, mi, new_rtp_clusters>> /\ UNCHANGED cluster
  <2>1. up' = up /\ relay' = relay /\ members' = members /\ addr' = addr /\ status' = status
    BY <1>3 DEF cluster
  <2>2. applied # NoConfig => Undisturbed
    BY <1>1, <2>1, SameClusters DEF Over
  <2>3. /\ \A e \in Done : InForce(e)'
        /\ \A e \in {Entry} : RelayAs(e)' /\ MembersAs(e)'
    BY <1>1, <2>1, SameClusters DEF Loaded, Over
  <2> QED
    BY <1>1, <1>3, <2>2, <2>3, StaysAtEntry DEF Undisturbed
<1>4. ASSUME UNCHANGED <<pc, ci, mi, new_rtp_clusters>>, NEW h \in todo,
             h \notin HostsOf(Entry), bring_down(This, h)
      PROVE  Loaded' /\ Applied' /\ (applied # NoConfig => Undisturbed)
  <2>1. This \in Names /\ h \in Hosts /\ ci \in 1 .. Len(config)
    BY <1>1, EntryOK DEF AtEntry, Loading, TypeOK
  <2>2. PICK c \in Names : c = This
    BY <2>1
  <2>3. /\ up' = up /\ relay' = relay
        /\ \A e \in ToSet(config) :
             /\ InForce(e) => InForce(e)'
             /\ MembersAs(e) => MembersAs(e)'
             /\ RelayAs(e) => RelayAs(e)'
    <3>1. up' = up /\ relay' = relay /\ (TakeOut(c, h) \/ Drain(c, h))
      BY <1>4, <2>2 DEF bring_down, TakeOut, Drain
    <3>2. \A e \in ToSet(config) : e \in Entries /\ (e.name # c \/ h \notin HostsOf(e))
      BY <1>4, <2>1, <2>2, OneEntry
    <3> QED
      BY <2>1, <3>1, <3>2, OtherMember DEF TypeOK
  <2>4. /\ \A e \in Done : InForce(e)'
        /\ \A e \in {Entry} : RelayAs(e)' /\ MembersAs(e)'
    BY <1>1, <2>1, <2>3, OneEntry DEF Loaded, Over
  <2>5. applied # NoConfig => Undisturbed
    <3> SUFFICES ASSUME applied # NoConfig, NEW e \in ToSet(applied) PROVE InForce(e)'
      BY <2>3 DEF Undisturbed
    <3>1. e \in ToSet(config) /\ InForce(e)
      BY <1>1 DEF Applied, Over
    <3> QED
      BY <2>3, <3>1
  <2> QED
    BY <1>1, <1>4, <2>4, <2>5, StaysAtEntry DEF Undisturbed
<1> QED
  BY <1>2, <1>3, <1>4 DEF Sweep

LEMMA AllLoadedForce ==
  ASSUME FInv, AllLoaded
  PROVE  Loaded' /\ Applied' /\ (applied # NoConfig => Undisturbed)
<1> USE DEF FInv, IInv
<1>1. /\ pc = "cluster" /\ pc' = "shutdown" /\ ci > Len(config)
      /\ config' = config /\ ci' = ci /\ starting' = starting
      /\ rtp_clusters' = rtp_clusters /\ new_rtp_clusters' = new_rtp_clusters
      /\ applied' = applied
      /\ up' = up /\ relay' = relay /\ members' = members /\ addr' = addr /\ status' = status
      /\ mi' = mi
  BY DEF AllLoaded, lists, history, cluster
<1>2. ci = Len(config) + 1
  <2>1. Len(config) \in Nat /\ ci \in 1 .. Len(config) + 1
    BY FileOK, LenProperties DEF TypeOK
  <2> QED
    BY <1>1, <2>1
<1>3. Done' = Done /\ \A e \in Done : InForce(e)'
  BY <1>1, SameClusters DEF Loaded, Done, Over
<1>4. Loaded'
  BY <1>1, <1>2, <1>3 DEF Loaded, Over
<1>5. applied # NoConfig => Undisturbed
  BY <1>1, SameClusters DEF Over
<1>6. Applied'
  BY <1>1, <1>5 DEF Applied, Undisturbed, Over
<1> QED
  BY <1>4, <1>5, <1>6

\* The clusters of the new list are the configured ones, so all stay up.
LEMMA ShutdownOldForce ==
  ASSUME FInv, NEW c \in Names, ShutdownOld(c)
  PROVE  Loaded' /\ Applied' /\ (applied # NoConfig => Undisturbed)
<1> USE DEF FInv, IInv
<1>1. /\ pc = "shutdown" /\ pc' = pc /\ Shutdown({c})
      /\ c \in ToSet(rtp_clusters) \ ToSet(new_rtp_clusters)
      /\ UNCHANGED <<starting, config, ci, mi, rtp_clusters, new_rtp_clusters>>
      /\ applied' = applied
  BY DEF ShutdownOld, progress, lists
<1>2. \A d \in Names \ {c} : /\ up'[d] = up[d] /\ relay'[d] = relay[d]
                             /\ members'[d] = members[d] /\ addr'[d] = addr[d]
                             /\ status'[d] = status[d]
  BY <1>1 DEF Shutdown, TypeOK, ClusterOK
<1>3. config \in Seq(Entries) /\ ToSet(config) = {config[k] : k \in 1 .. Len(config)}
  BY FileOK, Elements DEF TypeOK
<1>4. ToSet(new_rtp_clusters) = {config[k].name : k \in 1 .. Len(config)}
  <2>1. Len(new_rtp_clusters) = ci - 1 /\ ci - 1 = Len(config)
    BY <1>1, <1>3, LenProperties DEF Loaded, Over
  <2>2. ToSet(new_rtp_clusters) = {new_rtp_clusters[k] : k \in 1 .. Len(new_rtp_clusters)}
    BY Elements DEF TypeOK
  <2>3. \A k \in 1 .. Len(config) : new_rtp_clusters[k] = config[k].name
    BY <1>1, <2>1 DEF Loaded, Over
  <2> QED
    BY <2>1, <2>2, <2>3
<1>5. \A e \in ToSet(config) : e.name \in Names \ {c}
  <2>1. \A e \in ToSet(config) : e.name \in ToSet(new_rtp_clusters)
    BY <1>3, <1>4
  <2>2. ToSet(config) \subseteq Entries
    BY <1>3, Elements
  <2> QED
    BY <1>1, <2>1, <2>2 DEF Entries
<1>6. \A e \in ToSet(config) : InForce(e) => InForce(e)'
  BY <1>2, <1>5, OtherCluster
<1>7. applied # NoConfig => Undisturbed
  <2> SUFFICES ASSUME applied # NoConfig, NEW e \in ToSet(applied)
               PROVE  InForce(e)' /\ relay'[e.name] = relay[e.name]
    BY DEF Undisturbed
  <2>1. e \in ToSet(config) /\ InForce(e)
    BY <1>1 DEF Applied, Over
  <2> QED
    BY <1>2, <1>5, <1>6, <2>1
<1>8. \A e \in Done : InForce(e)'
  <2>1. Done \subseteq ToSet(config)
    BY <1>1, <1>3, LenProperties DEF Done, Loaded
  <2> QED
    BY <1>1, <1>6, <2>1 DEF Loaded, Over
<1> QED
  BY <1>1, <1>7, <1>8, StaysAtEntry DEF Undisturbed

\* The end: the file is in force, and its clusters are listed in its order.
LEMMA ReplaceForce ==
  ASSUME FInv, Replace
  PROVE  Loaded' /\ Applied' /\ (applied # NoConfig => Undisturbed)
<1> USE DEF FInv, IInv
<1>1. /\ pc \in {"shutdown", "cluster"} /\ pc' = "idle" /\ starting' = FALSE
      /\ rtp_clusters' = new_rtp_clusters /\ applied' = config /\ mi' = mi
      /\ up' = up /\ relay' = relay /\ members' = members /\ addr' = addr /\ status' = status
      /\ pc = "cluster" => ci > Len(config)
  BY DEF Replace, Replaced, cluster
<1>2. /\ config \in Seq(Entries) /\ ToSet(config) = {config[k] : k \in 1 .. Len(config)}
      /\ Len(config) \in Nat /\ ci \in 1 .. Len(config) + 1 /\ DOMAIN config = 1 .. Len(config)
  BY FileOK, Elements, LenProperties DEF TypeOK
<1>3. ci - 1 = Len(config)
  BY <1>1, <1>2 DEF Loaded
<1>4. new_rtp_clusters = NamesOf(config)
  <2>1. new_rtp_clusters \in Seq(Names) /\ Len(new_rtp_clusters) = Len(config)
    BY <1>1, <1>3 DEF TypeOK, Loaded, Over
  <2>2. new_rtp_clusters \in [1 .. Len(config) -> Names]
    BY <2>1, LenProperties
  <2>3. \A k \in 1 .. Len(config) : new_rtp_clusters[k] = config[k].name
    BY <1>1, <1>3 DEF Loaded, Over
  <2> QED
    BY <1>2, <2>2, <2>3 DEF NamesOf
<1>5. \A e \in ToSet(config) : InForce(e)'
  <2>1. \A e \in ToSet(config) : InForce(e)
    BY <1>1, <1>2, <1>3 DEF Loaded, Done, Over
  <2> QED
    BY <1>1, <2>1, SameClusters
<1>6. Loaded'
  BY <1>1, <1>3 DEF Loaded, Over
<1>7. Applied'
  BY <1>1, <1>4, <1>5 DEF Applied
<1> QED
  BY <1>1, <1>6, <1>7, SameClusters DEF Over

\* A member whose drain ends is not configured, as its status is none of a file.
LEMMA DrainEndsForce ==
  ASSUME FInv, NEW c \in Names, NEW h \in Hosts, DrainEnds(c, h)
  PROVE  Loaded' /\ Applied' /\ (applied # NoConfig => Undisturbed)
<1> USE DEF FInv, IInv
<1>1. /\ pc \notin Over /\ TakeOut(c, h) /\ status[c][h] = "DRAINING"
      /\ up' = up /\ relay' = relay
      /\ pc' = pc /\ starting' = starting /\ config' = config /\ ci' = ci /\ mi' = mi
      /\ rtp_clusters' = rtp_clusters /\ new_rtp_clusters' = new_rtp_clusters
      /\ applied' = applied
  BY DEF DrainEnds, progress, lists, Over
<1>2. ASSUME NEW e \in Entries, MembersAs(e)
      PROVE  MembersAs(e)'
  <2>1. e.name # c \/ h \notin HostsOf(e)
    <3> SUFFICES ASSUME NEW m \in ToSet(e.members), e.name = c, m.host = h PROVE FALSE
      BY DEF HostsOf
    <3>1. e.members \in Seq(MemberConfig)
      BY DEF Entries
    <3>2. m.status \in {"ACTIVE", "SUSPENDED"}
      BY <3>1, Elements, MemberOK
    <3> QED
      BY <1>1, <1>2, <3>2 DEF MembersAs, MemberAs
  <2> QED
    BY <1>1, <1>2, <2>1, OtherMember DEF TypeOK
<1>3. \A e \in Entries : InForce(e) => InForce(e)'
  BY <1>1, <1>2 DEF InForce, RelayAs
<1>4. applied # NoConfig => Undisturbed
  <2> SUFFICES ASSUME applied # NoConfig, NEW e \in ToSet(applied) PROVE InForce(e)'
    BY <1>1 DEF Undisturbed
  <2>1. e \in Entries /\ InForce(e)
    BY <1>1, AppliedOK DEF Applied
  <2> QED
    BY <1>3, <2>1
<1>5. pc # "idle" => \A e \in Done : InForce(e)'
  BY <1>1, <1>3, DoneOK DEF Loaded, Over
<1>6. ASSUME pc \in {"member", "sweep"}
      PROVE  /\ ci \in 1 .. Len(config) /\ Entry \in Entries /\ Entry' = Entry
             /\ \A e \in {Entry} : RelayAs(e)'
             /\ pc = "sweep" => \A e \in {Entry} : MembersAs(e)'
  <2>1. ci \in 1 .. Len(config) /\ Entry \in Entries /\ Entry' = Entry
    BY <1>1, <1>6, OneEntry, SamePlace DEF AtEntry, Loading
  <2> QED
    BY <1>1, <1>2, <1>6, <2>1 DEF Loaded, RelayAs
<1>7. ASSUME pc = "member", NEW j \in DOMAIN Entry.members, j < mi
      PROVE  MemberAs(This, Entry.members[j])'
  <2>1. PICK d, m : d = This /\ m = Entry.members[j]
    OBVIOUS
  <2>2. d \in Names /\ m \in MemberConfig /\ MemberAs(d, m)
    <3>1. Entry.members \in Seq(MemberConfig) /\ This \in Names
      BY <1>6, <1>7, EntryOK
    <3> QED
      BY <1>7, <2>1, <3>1, LenProperties DEF Loaded
  <2>3. m.host \in Hosts /\ (d # c \/ m.host # h)
    BY <1>1, <2>2, MemberOK DEF MemberAs
  <2>4. MemberAs(d, m)'
    <3>1. /\ members' = [members EXCEPT ![c] = @ \ {h}]
          /\ addr' = [addr EXCEPT ![c] = [@ EXCEPT ![h] = Unix]]
          /\ status' = [status EXCEPT ![c] = [@ EXCEPT ![h] = "ACTIVE"]]
      BY <1>1 DEF TakeOut
    <3>2. CASE d # c
      BY <2>2, <3>1, <3>2 DEF MemberAs, TypeOK, ClusterOK
    <3>3. CASE d = c
      BY <2>2, <2>3, <3>1, <3>3 DEF MemberAs, TypeOK, ClusterOK
    <3> QED
      BY <3>2, <3>3
  <2>5. This' = This /\ Entry' = Entry
    BY <1>1, SamePlace
  <2> QED
    BY <2>1, <2>4, <2>5 DEF MemberAs
<1> QED
  BY <1>1, <1>4, <1>5, <1>6, <1>7, StaysAtEntry DEF Undisturbed

\* Steps after which nothing is said: the process has ended, or what was
\* applied was changed by hand.
LEMMA EndForce ==
  ASSUME FInv, DryRun \/ UnusableMember
  PROVE  Loaded' /\ Applied'
BY DEF DryRun, UnusableMember, Loaded, Applied, Over

LEMMA ModifyForce ==
  ASSUME FInv, NEW c \in Names, Modify(c)
  PROVE  Loaded' /\ Applied'
<1>1. pc = "idle" /\ pc' = pc /\ mi' = mi /\ applied' = NoConfig
  BY DEF Modify, progress
<1> QED
  BY <1>1 DEF FInv, Loaded, Applied, Over

\* A client's command, and steps that change nothing.
LEMMA ClientForce ==
  ASSUME FInv, UseRelay \/ (\E c \in Names : FindRelay(c)) \/ UNCHANGED vars
  PROVE  Loaded' /\ Applied'
<1>1. /\ pc' = pc \/ pc' = "panic"
      /\ starting' = starting /\ config' = config /\ ci' = ci /\ mi' = mi
      /\ rtp_clusters' = rtp_clusters /\ new_rtp_clusters' = new_rtp_clusters
      /\ applied' = applied
      /\ up' = up /\ relay' = relay /\ members' = members /\ addr' = addr /\ status' = status
  BY DEF UseRelay, FindRelay, vars, cluster, progress, lists, history
<1>2. CASE pc' = "panic"
  BY <1>2 DEF Loaded, Applied, Over
<1>3. CASE pc' = pc
  <2>1. /\ \A e : InForce(e) => InForce(e)'
        /\ \A e : MembersAs(e) => MembersAs(e)'
        /\ \A e : RelayAs(e) => RelayAs(e)'
        /\ \A c, m : MemberAs(c, m) => MemberAs(c, m)'
    BY <1>1, SameClusters
  <2>2. pc \notin Over /\ applied # NoConfig => \A e \in ToSet(applied) : InForce(e)'
    BY <2>1 DEF FInv, Applied
  <2>3. pc \notin Over \cup {"idle"} => \A e \in Done : InForce(e)'
    BY <2>1 DEF FInv, Loaded
  <2>4. /\ pc \in {"member", "sweep"} => \A e \in {Entry} : RelayAs(e)'
        /\ pc = "sweep" => \A e \in {Entry} : MembersAs(e)'
    BY <2>1 DEF FInv, Loaded
  <2>5. ASSUME pc = "member", NEW j \in DOMAIN Entry.members, j < mi
        PROVE  MemberAs(This, Entry.members[j])'
    <3>1. MemberAs(This, Entry.members[j])
      BY <2>5 DEF FInv, Loaded
    <3>2. This' = This /\ Entry' = Entry
      BY <1>1, SamePlace
    <3> QED
      BY <1>1, <3>1, <3>2 DEF MemberAs
  <2> QED
    BY <1>1, <1>3, <2>2, <2>3, <2>4, <2>5, StaysAtEntry
<1> QED
  BY <1>1, <1>2, <1>3

-----------------------------------------------------------------------------

LEMMA Failing ==
  ASSUME CreationFails \/ UnsupportedMember
  PROVE  pc \in {"cluster", "member"} /\ Fail
BY DEF CreationFails, UnsupportedMember

\* Every step of a reload, and every step that can come between two of them,
\* keeps what is loaded and disturbs nothing of what is in force.
LEMMA ForceStep ==
  ASSUME FInv, [Next]_vars
  PROVE  /\ Loaded' /\ Applied'
         /\ applied # NoConfig /\ pc \notin Over \cup {"idle"} => Undisturbed
<1>1. ASSUME NEW c \in Names, ShutdownOld(c) \/ \E h \in Hosts : DrainEnds(c, h)
      PROVE  Loaded' /\ Applied' /\ (applied # NoConfig => Undisturbed)
  BY <1>1, ShutdownOldForce, DrainEndsForce
<1>2. CASE CreationFails \/ UnsupportedMember
  BY <1>2, Failing, FailForce
<1>3. CASE DryRun \/ UnusableMember
  <2>1. Loaded' /\ Applied'
    BY <1>3, EndForce
  <2>2. pc \notin Over \cup {"idle"} /\ DryRun => starting
    BY DEF DryRun
  <2>3. pc \notin Over /\ applied # NoConfig => ~ starting
    BY DEF FInv, Applied
  <2>4. UnusableMember => UNCHANGED <<up, relay, members, addr, status>>
    BY DEF UnusableMember, cluster
  <2> QED
    BY <1>3, <2>1, <2>2, <2>3, <2>4, SameClusters
<1>4. ASSUME NEW c \in Names, Modify(c)
      PROVE  Loaded' /\ Applied' /\ pc = "idle"
  BY <1>4, ModifyForce DEF Modify
<1>5. CASE ReadConfig
  BY <1>5, ReadConfigForce DEF ReadConfig
<1>6. CASE UseRelay \/ (\E c \in Names : FindRelay(c)) \/ UNCHANGED vars
  <2>1. up' = up /\ relay' = relay /\ members' = members /\ addr' = addr /\ status' = status
    BY <1>6 DEF UseRelay, FindRelay, vars, cluster
  <2> QED
    BY <1>6, <2>1, ClientForce, SameClusters
<1> QED
  BY <1>1, <1>2, <1>3, <1>4, <1>5, <1>6, FindClusterForce, DropRelayForce, NewRelayForce,
     LoadMemberForce, MembersLoadedForce, SweepForce, AllLoadedForce, ReplaceForce DEF Next

\* Files are loaded entry by entry and member by member, and what is loaded
\* stays as it is.
THEOREM InForceInvariance == Spec => []FInv
<1>1. IInv /\ Init => FInv
  BY InitForce DEF FInv
<1>2. IInv' /\ FInv /\ [Next]_vars => FInv'
  BY ForceStep DEF FInv
<1> QED
  BY <1>1, <1>2, Invariance, PTL DEF Spec

\* After a reload of any file, until something is changed, every cluster runs
\* and has the configured members, addresses and statuses, in whatever state
\* the members were before and whatever reloads failed.
THEOREM FileInForce == Spec => []AppliedInForce
<1>1. FInv => AppliedInForce
  <2> SUFFICES ASSUME FInv, pc = "idle", applied # NoConfig
               PROVE  /\ rtp_clusters = NamesOf(applied)
                      /\ \A k \in DOMAIN applied : InForce(applied[k])
    BY DEF AppliedInForce, InForce, MembersAs, MemberAs
  <2>1. ToSet(applied) = {applied[k] : k \in DOMAIN applied}
    BY DEF ToSet
  <2> QED
    BY <2>1 DEF FInv, Applied, Over
<1> QED
  BY <1>1, InForceInvariance, PTL

\* Loading the file in force again disturbs nothing that is configured, at no
\* step, whatever happens between.
THEOREM SameFileHarmless == Spec => ReloadHarmless
<1> DEFINE Harmless ==
      applied # NoConfig /\ config = applied /\ pc \notin {"idle", "exit"} =>
        \A k \in DOMAIN applied :
          LET c == applied[k].name
          IN  /\ up'[c]
              /\ relay[c] # NoRelay => relay'[c] = relay[c]
              /\ \A h \in HostsOf(applied[k]) :
                   h \in members'[c] /\ addr'[c][h] = addr[c][h] /\ status'[c][h] = status[c][h]
<1>1. FInv /\ FInv' /\ [Next]_vars => [Harmless]_vars
  <2> SUFFICES ASSUME FInv, Next, applied # NoConfig, pc \notin {"idle", "exit"},
                      NEW e \in ToSet(applied)
               PROVE  /\ up'[e.name]
                      /\ relay[e.name] # NoRelay => relay'[e.name] = relay[e.name]
                      /\ \A h \in HostsOf(e) :
                           /\ h \in members'[e.name]
                           /\ addr'[e.name][h] = addr[e.name][h]
                           /\ status'[e.name][h] = status[e.name][h]
    BY DEF ToSet
  <2>1. pc # "panic"
    BY DEF Next, ReadConfig, FindCluster, CreationFails, DropRelay, NewRelay, UnsupportedMember,
       UnusableMember, LoadMember, MembersLoaded, Sweep, AllLoaded, Replace, DryRun, UseRelay,
       ShutdownOld, Modify, FindRelay, DrainEnds
  <2>2. Undisturbed /\ InForce(e)
    BY <2>1, ForceStep DEF FInv, Applied, Over
  <2>3. InForce(e)' /\ (relay[e.name] # NoRelay => relay'[e.name] = relay[e.name])
    BY <2>2 DEF Undisturbed
  <2>4. ASSUME NEW h \in HostsOf(e)
        PROVE  /\ h \in members'[e.name] /\ addr'[e.name][h] = addr[e.name][h]
               /\ status'[e.name][h] = status[e.name][h]
    BY <2>2, <2>3 DEF HostsOf, InForce, MembersAs, MemberAs
  <2> QED
    BY <2>3, <2>4 DEF InForce
<1> QED
  BY <1>1, InForceInvariance, PTL DEF Spec, ReloadHarmless

=============================================================================
