------------------------ MODULE ClusterConfigProofs ------------------------
(***************************************************************************)
(* What the reader of ClusterConfig makes of any document, of any size and *)
(* however deep, with any texts.                                           *)
(*                                                                         *)
(* The handler's stack lists the sections that are open, in their order,   *)
(* so its last entry is the innermost one; a pointer that is not nil is at *)
(* the section of its kind begun last among those open, whose record is    *)
(* where the place says.                                                   *)
(***************************************************************************)
EXTENDS ClusterConfig, SequenceTheorems, TLAPS

AllFields == ClusterFields \cup ProxyFields \cup NotifyFields
Elements == {"rtp_cluster_config", "capacity_limit", "unknown"} \cup Sections \cup AllFields

\* The place of a record, and none for elements that are no sections.
Places == Seq(Nat)

\* What the handler puts on its stack.
Stackable == {"rtp_cluster_config", "rtp_cluster", "rtpproxy", "dnconfig"}

Typed ==
  /\ TypeOK
  /\ open \in Seq([name : Elements, place : Places])
  /\ ctx \in Seq(Stackable)
  /\ element \in Elements \cup {""}
  /\ rtp_cluster \in Places /\ rtpproxy \in Places /\ dnconfig \in Places

\* Once the root was begun it stays at the bottom of the stack; until then
\* there is no stack and no document.
Rooted ==
  /\ IF begun THEN ctx # <<>> /\ ctx[1] = "rtp_cluster_config"
     ELSE open = <<>> /\ ctx = <<>>
  /\ \A k \in DOMAIN open : open[k].name = "rtp_cluster_config" <=> k = 1

\* The name a section has on the stack.
CtxName(name) == IF name = "disconnect_notify" THEN "dnconfig" ELSE name

\* f are the places in the document of what is on the stack above the root.
Stacked(f) ==
  /\ f \in [1 .. Len(ctx) - 1 -> DOMAIN open]
  /\ \A a, b \in DOMAIN f : a < b => f[a] < f[b]
  /\ \A a \in DOMAIN f : open[f[a]].name \in Sections /\ ctx[a + 1] = CtxName(open[f[a]].name)
  /\ \A k \in DOMAIN open : open[k].name \in Sections => \E a \in DOMAIN f : f[a] = k

InStep == begun => \E f \in [1 .. Len(ctx) - 1 -> DOMAIN open] : Stacked(f)

\* A name of a field is only kept while the document is directly inside of it.
InField == element \in AllFields => open # <<>> /\ Last(open).name = element

\* x is the last element of its kind.
LastOf(list, x) ==
  \E k \in DOMAIN list : list[k] = x /\ \A j \in DOMAIN list : j > k => list[j].name # x.name

\* A pointer is nil or at the element of its kind begun last among those open.
Pointing ==
  /\ rtp_cluster # <<>> => LastOf(open, [name |-> "rtp_cluster", place |-> rtp_cluster])
  /\ rtpproxy # <<>> => LastOf(open, [name |-> "rtpproxy", place |-> rtpproxy])
  /\ dnconfig # <<>> => LastOf(open, [name |-> "disconnect_notify", place |-> dnconfig])

\* Element k of the document began inside of cluster c.
Enclosed(k, c) ==
  \E j \in 1 .. k - 1 :
    /\ open[j] = [name |-> "rtp_cluster", place |-> <<c>>]
    /\ \A i \in j + 1 .. k - 1 : open[i].name # "rtp_cluster"

PlacedAt(k) ==
  LET at == open[k].place
  IN  /\ open[k].name = "rtp_cluster" => \E c \in DOMAIN config : at = <<c>>
      /\ open[k].name = "rtpproxy" =>
           \E c \in DOMAIN config : \E p \in DOMAIN config[c].proxies :
             at = <<c, p>> /\ Enclosed(k, c)
      /\ open[k].name = "disconnect_notify" =>
           \E c \in DOMAIN config :
             at = <<c>> /\ config[c].notify # <<>> /\ Enclosed(k, c)

Placed == \A k \in DOMAIN open : PlacedAt(k)

\* Where every section is where it belongs, no pointer is nil in its section.
Orderly ==
  ~ odd =>
    \A k \in DOMAIN open :
      /\ open[k].name = "rtp_cluster" => k = 2 /\ rtp_cluster # <<>>
      /\ open[k].name = "rtpproxy" => k = 3 /\ rtpproxy # <<>>
      /\ open[k].name = "disconnect_notify" => k = 3 /\ dnconfig # <<>>

IInv == Typed /\ Rooted /\ InStep /\ InField /\ Pointing /\ Placed /\ Orderly
        /\ OrderlyFilesAreRead /\ NamesDistinct

-----------------------------------------------------------------------------
(* Sequences.                                                              *)

LEMMA Appended ==
  ASSUME NEW S, NEW s \in Seq(S), NEW e \in S
  PROVE  /\ Append(s, e) \in Seq(S)
         /\ Len(s) \in Nat /\ Len(Append(s, e)) = Len(s) + 1
         /\ DOMAIN s = 1 .. Len(s) /\ DOMAIN Append(s, e) = 1 .. Len(s) + 1
         /\ \A k \in 1 .. Len(s) : Append(s, e)[k] = s[k]
         /\ Append(s, e)[Len(s) + 1] = e
BY AppendProperties, LenProperties

LEMMA Fronted ==
  ASSUME NEW S, NEW s \in Seq(S), s # <<>>
  PROVE  /\ Front(s) \in Seq(S)
         /\ Len(s) \in Nat \ {0} /\ Len(Front(s)) = Len(s) - 1
         /\ DOMAIN s = 1 .. Len(s) /\ DOMAIN Front(s) = 1 .. Len(s) - 1
         /\ \A k \in 1 .. Len(s) - 1 : Front(s)[k] = s[k]
<1>1. Len(s) \in Nat \ {0} /\ DOMAIN s = 1 .. Len(s)
  BY EmptySeq, LenProperties
<1>2. \A k \in 1 .. Len(s) - 1 : s[k] \in S
  BY <1>1, ElementOfSeq
<1>3. /\ Front(s) \in Seq(S) /\ Len(Front(s)) = Len(s) - 1
      /\ \A k \in 1 .. Len(s) - 1 : Front(s)[k] = s[1 + k - 1]
  BY <1>1, <1>2, SubSeqProperties DEF Front
<1> QED
  BY <1>1, <1>3, LenProperties

LEMMA Replaced ==
  ASSUME NEW S, NEW s \in Seq(S), NEW c \in DOMAIN s, NEW r \in S
  PROVE  /\ [s EXCEPT ![c] = r] \in Seq(S)
         /\ DOMAIN [s EXCEPT ![c] = r] = DOMAIN s
         /\ [s EXCEPT ![c] = r][c] = r
         /\ \A k \in DOMAIN s : k # c => [s EXCEPT ![c] = r][k] = s[k]
BY ExceptSeq, LenProperties

-----------------------------------------------------------------------------
(* What happens to the records.                                            *)

\* No record, no member and no section on notifications goes away.
Grows ==
  \A c \in DOMAIN config :
    /\ c \in DOMAIN config'
    /\ DOMAIN config[c].proxies \subseteq DOMAIN config'[c].proxies
    /\ config[c].notify # <<>> => config'[c].notify # <<>>

\* Cluster c becomes r.
Becomes(c, r) ==
  /\ c \in DOMAIN config /\ r \in Cluster
  /\ config' \in Seq(Cluster) /\ DOMAIN config' = DOMAIN config
  /\ config'[c] = r /\ \A k \in DOMAIN config : k # c => config'[k] = config[k]

LEMMA BecomesFacts ==
  ASSUME config \in Seq(Cluster), NEW c \in DOMAIN config, NEW r \in Cluster,
         config' = [config EXCEPT ![c] = r]
  PROVE  Becomes(c, r)
BY Replaced DEF Becomes

LEMMA ClusterFacts ==
  ASSUME config \in Seq(Cluster), NEW c \in DOMAIN config
  PROVE  /\ config[c] \in Cluster
         /\ config[c].proxies \in Seq(Proxy)
         /\ config[c].name \in Field /\ config[c].address \in Field
         /\ config[c].soft \in BOOLEAN
         /\ config[c].notify # <<>> =>
              \E f \in Field : config[c].notify = <<[inbound_address |-> f]>>
<1>1. config[c] \in Cluster
  BY LenProperties, ElementOfSeq
<1> QED
  BY <1>1 DEF Cluster

\* A member begins with the defaults, in the cluster rtp_cluster is at.
LEMMA BeginProxyConfig ==
  ASSUME Typed, BeginProxy
  PROVE  LET c == rtp_cluster[1]
             r == [config[c] EXCEPT !.proxies = Append(@, NewRtpProxy)]
         IN  /\ Becomes(c, r) /\ NewRtpProxy \in Proxy /\ config[c].proxies \in Seq(Proxy)
             /\ r.proxies = Append(config[c].proxies, NewRtpProxy)
             /\ r.name = config[c].name /\ r.address = config[c].address
             /\ r.soft = config[c].soft /\ r.notify = config[c].notify
<1> DEFINE c == rtp_cluster[1]
           r == [config[c] EXCEPT !.proxies = Append(@, NewRtpProxy)]
<1>1. config \in Seq(Cluster) /\ c \in DOMAIN config
  BY DEF Typed, TypeOK, BeginProxy
<1>2. config' = [config EXCEPT ![c] = r]
  BY DEF BeginProxy
<1>3. config[c] \in Cluster /\ config[c].proxies \in Seq(Proxy)
  BY <1>1, ClusterFacts
<1>4. NewRtpProxy \in Proxy
  BY DEF NewRtpProxy, Proxy, Field
<1>5. Append(config[c].proxies, NewRtpProxy) \in Seq(Proxy)
  BY <1>3, <1>4, Appended
<1>6. /\ r \in Cluster /\ r.proxies = Append(config[c].proxies, NewRtpProxy)
      /\ r.name = config[c].name /\ r.address = config[c].address
      /\ r.soft = config[c].soft /\ r.notify = config[c].notify
  BY <1>3, <1>5 DEF Cluster
<1>7. Becomes(c, r)
  <2> HIDE DEF c, r
  <2> QED
    BY <1>1, <1>2, <1>6, BecomesFacts
<1> QED
  BY <1>3, <1>4, <1>6, <1>7

LEMMA BeginNotifyConfig ==
  ASSUME Typed, BeginNotify
  PROVE  LET c == rtp_cluster[1]
             r == [config[c] EXCEPT !.notify = <<NewDisconnectNotify>>]
         IN  /\ Becomes(c, r)
             /\ r.proxies = config[c].proxies /\ r.name = config[c].name
             /\ r.address = config[c].address /\ r.soft = config[c].soft
             /\ r.notify # <<>>
<1> DEFINE c == rtp_cluster[1]
           r == [config[c] EXCEPT !.notify = <<NewDisconnectNotify>>]
<1>1. config \in Seq(Cluster) /\ c \in DOMAIN config
  BY DEF Typed, TypeOK, BeginNotify
<1>2. config' = [config EXCEPT ![c] = r]
  BY DEF BeginNotify
<1>3. config[c] \in Cluster
  BY <1>1, ClusterFacts
<1>4. NewDisconnectNotify = [inbound_address |-> Default] /\ Default \in Field
  BY DEF NewDisconnectNotify, Field
<1>5. /\ r \in Cluster
      /\ r.proxies = config[c].proxies /\ r.name = config[c].name
      /\ r.address = config[c].address /\ r.soft = config[c].soft
      /\ r.notify = <<NewDisconnectNotify>>
  BY <1>3, <1>4 DEF Cluster
<1>6. Becomes(c, r)
  <2> HIDE DEF c, r
  <2> QED
    BY <1>1, <1>2, <1>5, BecomesFacts
<1> QED
  BY <1>5, <1>6

LEMMA BeginLimitConfig ==
  ASSUME Typed, BeginLimit, config' # config
  PROVE  /\ Last(ctx) = "rtp_cluster" /\ rtp_cluster # <<>>
         /\ \E r \in Cluster :
              /\ Becomes(rtp_cluster[1], r)
              /\ r.proxies = config[rtp_cluster[1]].proxies
              /\ r.name = config[rtp_cluster[1]].name
              /\ r.address = config[rtp_cluster[1]].address
              /\ r.notify = config[rtp_cluster[1]].notify
<1> DEFINE c == rtp_cluster[1]
<1>1. PICK soft \in BOOLEAN :
        /\ Last(ctx) = "rtp_cluster" /\ rtp_cluster # <<>>
        /\ config' = [config EXCEPT ![c].soft = soft]
  BY DEF BeginLimit
<1> DEFINE r == [config[c] EXCEPT !.soft = soft]
<1>2. config \in Seq(Cluster) /\ c \in DOMAIN config
  BY <1>1 DEF Typed, TypeOK
<1>3. config' = [config EXCEPT ![c] = r]
  BY <1>1
<1>4. config[c] \in Cluster
  BY <1>2, ClusterFacts
<1>5. /\ r \in Cluster
      /\ r.proxies = config[c].proxies /\ r.name = config[c].name
      /\ r.address = config[c].address /\ r.notify = config[c].notify
  BY <1>4 DEF Cluster
<1>6. Becomes(c, r)
  <2> HIDE DEF c, r
  <2> QED
    BY <1>2, <1>3, <1>5, BecomesFacts
<1> QED
  BY <1>1, <1>5, <1>6

\* What Set stores into a cluster, a member and a section on notifications.
LEMMA SetClusterField ==
  ASSUME NEW r \in Cluster, NEW t \in Texts, element \in ClusterFields
  PROVE  /\ Set(r, t) \in Cluster
         /\ Set(r, t).soft = r.soft /\ Set(r, t).notify = r.notify
         /\ Set(r, t).proxies = r.proxies
         /\ \A f \in ClusterFields : Set(r, t)[f] = IF f = element THEN t ELSE r[f]
<1>1. t \in Field
  BY DEF Field
<1>2. CASE element = "name"
  <2>1. Set(r, t) = [r EXCEPT !.name = t]
    BY <1>2 DEF Set
  <2> QED
    BY <1>1, <1>2, <2>1 DEF Cluster, ClusterFields
<1>3. CASE element = "address"
  <2>1. Set(r, t) = [r EXCEPT !.address = t]
    BY <1>3 DEF Set
  <2> QED
    BY <1>1, <1>3, <2>1 DEF Cluster, ClusterFields
<1> QED
  BY <1>2, <1>3 DEF ClusterFields

LEMMA SetProxyField ==
  ASSUME NEW r \in Proxy, NEW t \in Texts, element \in ProxyFields
  PROVE  /\ Set(r, t) \in Proxy
         /\ \A f \in ProxyFields : f # element => Set(r, t)[f] = r[f]
         /\ element = "name" => Set(r, t).name = t
<1>1. t \in Field
  BY DEF Field
<1>2. CASE element = "name"
  <2>1. Set(r, t) = [r EXCEPT !.name = t]
    BY <1>2 DEF Set
  <2> QED
    BY <1>1, <1>2, <2>1 DEF Proxy, ProxyFields
<1>3. CASE element = "address"
  <2>1. Set(r, t) = [r EXCEPT !.address = t]
    BY <1>3 DEF Set
  <2> QED
    BY <1>1, <1>3, <2>1 DEF Proxy, ProxyFields
<1>4. CASE element = "weight"
  <2>1. PICK w \in Int : Set(r, t) = [r EXCEPT !.weight = w]
    <3>1. Atoi[t] \in Int \cup {NaN} /\ r.weight \in Int
      BY ConfigAssumption DEF Proxy
    <3>2. CASE Atoi[t] = NaN
      <4>1. Set(r, t) = [r EXCEPT !.weight = r.weight]
        BY <1>4, <3>2 DEF Set
      <4> QED
        BY <3>1, <4>1
    <3>3. CASE Atoi[t] # NaN
      <4>1. Set(r, t) = [r EXCEPT !.weight = Atoi[t]]
        BY <1>4, <3>3 DEF Set
      <4> QED
        BY <3>1, <3>3, <4>1
    <3> QED
      BY <3>2, <3>3
  <2> QED
    BY <1>4, <2>1 DEF Proxy, ProxyFields
<1> QED
  BY <1>2, <1>3, <1>4 DEF ProxyFields

LEMMA SetClusterConfig ==
  ASSUME Typed, NEW t \in Texts, SetCluster(t), config' # config
  PROVE  LET c == rtp_cluster[1]
             r == Set(config[c], t)
         IN  /\ Becomes(c, r)
             /\ r.soft = config[c].soft /\ r.notify = config[c].notify
             /\ r.proxies = config[c].proxies
             /\ \A f \in ClusterFields : r[f] = IF f = element THEN t ELSE config[c][f]
             /\ element = "name" => ~ Taken(config, t)
<1> DEFINE c == rtp_cluster[1]
           r == Set(config[c], t)
<1>1. config \in Seq(Cluster) /\ c \in DOMAIN config
  BY DEF Typed, TypeOK, SetCluster
<1>2. /\ config' = [config EXCEPT ![c] = r] /\ element \in ClusterFields
      /\ element = "name" => ~ Taken(config, t)
  BY DEF SetCluster, In, Set
<1>3. config[c] \in Cluster
  BY <1>1, ClusterFacts
<1>4. /\ r \in Cluster
      /\ r.soft = config[c].soft /\ r.notify = config[c].notify
      /\ r.proxies = config[c].proxies
      /\ \A f \in ClusterFields : r[f] = IF f = element THEN t ELSE config[c][f]
  BY <1>2, <1>3, SetClusterField, Zenon
<1>5. Becomes(c, r)
  <2> HIDE DEF c, r
  <2> QED
    BY <1>1, <1>2, <1>4, BecomesFacts
<1> QED
  BY <1>2, <1>4, <1>5

LEMMA SetProxyConfig ==
  ASSUME Typed, NEW t \in Texts, SetProxy(t), config' # config
  PROVE  LET c == rtpproxy[1]
             p == rtpproxy[2]
             old == config[c].proxies
             r == [config[c] EXCEPT !.proxies = [old EXCEPT ![p] = Set(old[p], t)]]
         IN  /\ Becomes(c, r) /\ old \in Seq(Proxy) /\ p \in DOMAIN old
             /\ r.name = config[c].name /\ r.address = config[c].address
             /\ r.soft = config[c].soft /\ r.notify = config[c].notify
             /\ r.proxies \in Seq(Proxy) /\ DOMAIN r.proxies = DOMAIN old
             /\ \A k \in DOMAIN old : k # p => r.proxies[k] = old[k]
             /\ \A f \in ProxyFields : f # element => r.proxies[p][f] = old[p][f]
             /\ element = "name" =>
                  /\ r.proxies[p].name = t
                  /\ rtp_cluster # <<>> /\ ~ Taken(config[rtp_cluster[1]].proxies, t)
<1> DEFINE c == rtpproxy[1]
           p == rtpproxy[2]
           old == config[c].proxies
           x == Set(old[p], t)
           new == [old EXCEPT ![p] = x]
           r == [config[c] EXCEPT !.proxies = new]
<1>1. config \in Seq(Cluster) /\ c \in DOMAIN config /\ p \in DOMAIN old
  BY DEF Typed, TypeOK, SetProxy
<1>2. /\ config' = [config EXCEPT ![c] = r] /\ element \in ProxyFields
      /\ element = "name" => rtp_cluster # <<>> /\ ~ Taken(config[rtp_cluster[1]].proxies, t)
  BY DEF SetProxy, In, Set
<1>3. config[c] \in Cluster /\ old \in Seq(Proxy)
  BY <1>1, ClusterFacts
<1>4. old[p] \in Proxy
  BY <1>1, <1>3, LenProperties, ElementOfSeq
<1>5. /\ x \in Proxy
      /\ \A f \in ProxyFields : f # element => x[f] = old[p][f]
      /\ element = "name" => x.name = t
  BY <1>2, <1>4, SetProxyField, Zenon
<1>6. /\ new \in Seq(Proxy) /\ DOMAIN new = DOMAIN old /\ new[p] = x
      /\ \A k \in DOMAIN old : k # p => new[k] = old[k]
  <2> HIDE DEF x, old, p
  <2> QED
    BY <1>1, <1>3, <1>5, Replaced
<1>7. /\ r \in Cluster /\ r.proxies = new
      /\ r.name = config[c].name /\ r.address = config[c].address
      /\ r.soft = config[c].soft /\ r.notify = config[c].notify
  <2> HIDE DEF new, c
  <2> QED
    BY <1>3, <1>6 DEF Cluster
<1>8. Becomes(c, r)
  <2> HIDE DEF c, r
  <2> QED
    BY <1>1, <1>2, <1>7, BecomesFacts
<1> HIDE DEF r
<1> QED
  <2>1. /\ r.proxies \in Seq(Proxy) /\ DOMAIN r.proxies = DOMAIN old
        /\ \A k \in DOMAIN old : k # p => r.proxies[k] = old[k]
        /\ \A f \in ProxyFields : f # element => r.proxies[p][f] = old[p][f]
        /\ element = "name" => r.proxies[p].name = t
    <3> HIDE DEF new, old, x
    <3> QED
      BY <1>5, <1>6, <1>7
  <2> QED
    BY <1>1, <1>2, <1>3, <1>7, <1>8, <2>1, Zenon DEF r

LEMMA SetNotifyConfig ==
  ASSUME Typed, NEW t \in Texts, SetNotify(t), config[dnconfig[1]].notify # <<>>
  PROVE  /\ element \in NotifyFields
         /\ \E r \in Cluster :
              /\ Becomes(dnconfig[1], r)
              /\ r.name = config[dnconfig[1]].name
              /\ r.address = config[dnconfig[1]].address
              /\ r.soft = config[dnconfig[1]].soft
              /\ r.proxies = config[dnconfig[1]].proxies
              /\ r.notify # <<>>
<1> DEFINE c == dnconfig[1]
           x == Set(config[c].notify[1], t)
           r == [config[c] EXCEPT !.notify = <<x>>]
<1>1. config \in Seq(Cluster) /\ c \in DOMAIN config
  BY DEF Typed, TypeOK, SetNotify
<1>2. config' = [config EXCEPT ![c] = r] /\ element = "inbound_address"
  BY DEF SetNotify, In, NotifyFields
<1>3. config[c] \in Cluster
  BY <1>1, ClusterFacts
<1>4. PICK f \in Field : config[c].notify = <<[inbound_address |-> f]>>
  BY <1>1, ClusterFacts
<1>5. x = [inbound_address |-> t] /\ t \in Field
  BY <1>2, <1>4 DEF Set, Field
<1>6. /\ r \in Cluster /\ r.notify = <<x>>
      /\ r.name = config[c].name /\ r.address = config[c].address
      /\ r.soft = config[c].soft /\ r.proxies = config[c].proxies
  <2> HIDE DEF x, c
  <2> QED
    BY <1>3, <1>5 DEF Cluster
<1>7. Becomes(c, r)
  <2> HIDE DEF c, r
  <2> QED
    BY <1>1, <1>2, <1>6, BecomesFacts
<1>8. r.notify # <<>>
  <2> HIDE DEF x, r
  <2> QED
    BY <1>6
<1> HIDE DEF r, x
<1> QED
  BY <1>2, <1>6, <1>7, <1>8 DEF NotifyFields

LEMMA BeginClusterConfig ==
  ASSUME Typed, BeginCluster
  PROVE  /\ config' \in Seq(Cluster) /\ Len(config) \in Nat /\ Len(config') = Len(config) + 1
         /\ DOMAIN config = 1 .. Len(config) /\ DOMAIN config' = 1 .. Len(config) + 1
         /\ \A k \in DOMAIN config : config'[k] = config[k]
         /\ config'[Len(config) + 1] = NewRtpCluster
<1>1. NewRtpCluster \in Cluster
  <2>1. <<>> \in Seq(Proxy)
    BY EmptySeq
  <2> QED
    BY <2>1 DEF NewRtpCluster, Cluster, Field
<1>2. config \in Seq(Cluster) /\ config' = Append(config, NewRtpCluster)
  BY DEF Typed, TypeOK, BeginCluster
<1> QED
  BY <1>1, <1>2, Appended

\* The section on notifications that dnconfig is at is there.
LEMMA NotifyIsThere ==
  ASSUME Typed, Pointing, Placed, dnconfig # <<>>
  PROVE  config[dnconfig[1]].notify # <<>>
<1>1. PICK k \in DOMAIN open : open[k] = [name |-> "disconnect_notify", place |-> dnconfig]
  BY DEF Pointing, LastOf
<1>2. PICK c \in DOMAIN config : dnconfig = <<c>> /\ config[c].notify # <<>>
  <2>1. open[k].name = "disconnect_notify" /\ open[k].place = dnconfig
    BY <1>1
  <2> QED
    BY <2>1 DEF Placed, PlacedAt
<1> QED
  BY <1>2

LEMMA BecomesGrows ==
  ASSUME NEW c, NEW r, Becomes(c, r),
         DOMAIN config[c].proxies \subseteq DOMAIN r.proxies,
         config[c].notify # <<>> => r.notify # <<>>
  PROVE  config' \in Seq(Cluster) /\ Grows
BY DEF Becomes, Grows

LEMMA ConfigStep ==
  ASSUME Typed, Pointing, Placed, Next
  PROVE  config' \in Seq(Cluster) /\ Grows
<1>1. CASE UNCHANGED config
  BY <1>1 DEF Typed, TypeOK, Grows
<1>2. CASE BeginCluster
  BY <1>2, BeginClusterConfig DEF Grows
<1>3. CASE BeginProxy
  <2> DEFINE c == rtp_cluster[1]
             r == [config[c] EXCEPT !.proxies = Append(@, NewRtpProxy)]
  <2>1. /\ Becomes(c, r) /\ NewRtpProxy \in Proxy /\ config[c].proxies \in Seq(Proxy)
        /\ r.proxies = Append(config[c].proxies, NewRtpProxy)
        /\ r.notify = config[c].notify
    BY <1>3, BeginProxyConfig, Zenon
  <2> HIDE DEF r, c
  <2>2. DOMAIN config[c].proxies \subseteq DOMAIN r.proxies
    BY <2>1, Appended
  <2> QED
    BY <2>1, <2>2, BecomesGrows
<1>4. CASE BeginNotify
  <2> DEFINE c == rtp_cluster[1]
             r == [config[c] EXCEPT !.notify = <<NewDisconnectNotify>>]
  <2>1. Becomes(c, r) /\ r.proxies = config[c].proxies /\ r.notify # <<>>
    BY <1>4, BeginNotifyConfig, Zenon
  <2> HIDE DEF r, c
  <2> QED
    BY <2>1, BecomesGrows
<1>5. CASE BeginLimit /\ config' # config
  <2>1. PICK r \in Cluster :
          /\ Becomes(rtp_cluster[1], r)
          /\ r.proxies = config[rtp_cluster[1]].proxies
          /\ r.notify = config[rtp_cluster[1]].notify
    BY <1>5, BeginLimitConfig, Zenon
  <2> QED
    BY <2>1, BecomesGrows
<1>6. ASSUME NEW t \in Texts, SetCluster(t), config' # config
      PROVE  config' \in Seq(Cluster) /\ Grows
  <2> DEFINE c == rtp_cluster[1]
             r == Set(config[c], t)
  <2>1. Becomes(c, r) /\ r.proxies = config[c].proxies /\ r.notify = config[c].notify
    BY <1>6, SetClusterConfig, Zenon
  <2> HIDE DEF r, c
  <2> QED
    BY <2>1, BecomesGrows
<1>7. ASSUME NEW t \in Texts, SetProxy(t), config' # config
      PROVE  config' \in Seq(Cluster) /\ Grows
  <2> DEFINE c == rtpproxy[1]
             p == rtpproxy[2]
             old == config[c].proxies
             r == [config[c] EXCEPT !.proxies = [old EXCEPT ![p] = Set(old[p], t)]]
  <2>1. Becomes(c, r) /\ DOMAIN r.proxies = DOMAIN old /\ r.notify = config[c].notify
    BY <1>7, SetProxyConfig, Zenon
  <2> HIDE DEF r, c
  <2> QED
    BY <2>1, BecomesGrows
<1>8. ASSUME NEW t \in Texts, SetNotify(t)
      PROVE  config' \in Seq(Cluster) /\ Grows
  <2>1. config[dnconfig[1]].notify # <<>>
    BY <1>8, NotifyIsThere DEF SetNotify
  <2>2. PICK r \in Cluster :
          /\ Becomes(dnconfig[1], r)
          /\ r.proxies = config[dnconfig[1]].proxies
          /\ r.notify # <<>>
    BY <1>8, <2>1, SetNotifyConfig, Zenon
  <2> QED
    BY <2>2, BecomesGrows
<1> QED
  <2>1. CASE BeginConfig \/ BeginOther \/ BeginNowhere \/ EndElement \/ TextNowhere \/ Return
    BY <1>1, <2>1 DEF BeginConfig, BeginOther, BeginNowhere, EndElement, TextNowhere, Return
  <2> QED
    BY <1>1, <1>2, <1>3, <1>4, <1>5, <1>6, <1>7, <1>8, <2>1 DEF Next

-----------------------------------------------------------------------------
(* What happens to the document and the stack.                             *)

\* Element e begins.
Pushed(e, place) ==
  /\ MayBegin(e) /\ e \in Elements /\ place \in Places
  /\ open' = Append(open, [name |-> e, place |-> place])
  /\ begun' = TRUE /\ Misplaced(e) /\ element' = e

SectionBegins(e, place) ==
  e \in Sections /\ Pushed(e, place) /\ ctx' = Append(ctx, CtxName(e))

OtherBegins(e) ==
  /\ e \notin Sections \cup {"rtp_cluster_config"}
  /\ Pushed(e, <<>>) /\ UNCHANGED <<ctx, pointers>>

Still == UNCHANGED <<open, begun, element, ctx, pointers>> /\ (odd => odd')

LEMMA StepKinds ==
  ASSUME Typed, Next, config' \in Seq(Cluster)
  PROVE  \/ BeginConfig /\ Pushed("rtp_cluster_config", <<>>)
         \/ BeginCluster /\ SectionBegins("rtp_cluster", rtp_cluster')
         \/ BeginProxy /\ SectionBegins("rtpproxy", rtpproxy')
         \/ BeginNotify /\ SectionBegins("disconnect_notify", dnconfig')
         \/ \E e \in Elements : OtherBegins(e)
         \/ EndElement
         \/ Still
<1>1. <<>> \in Places
  BY EmptySeq DEF Places
<1>2. DOMAIN config \subseteq Nat
  <2>1. DOMAIN config = 1 .. Len(config) /\ Len(config) \in Nat
    BY LenProperties DEF Typed, TypeOK
  <2> QED
    BY <2>1
<1>3. CASE BeginConfig
  BY <1>1, <1>3 DEF BeginConfig, Begin, Pushed, Elements
<1>4. CASE BeginCluster
  <2>1. rtp_cluster' \in Places
    BY <1>4, LenProperties DEF BeginCluster, Places
  <2> QED
    BY <1>4, <2>1 DEF BeginCluster, Begin, Pushed, SectionBegins, Sections, CtxName, Elements
<1>5. CASE BeginProxy
  <2>1. rtp_cluster[1] \in Nat
    BY <1>2, <1>5 DEF BeginProxy, Typed, TypeOK
  <2>2. Len(config'[rtp_cluster[1]].proxies) \in Nat
    <3> DEFINE c == rtp_cluster[1]
               r == [config[c] EXCEPT !.proxies = Append(@, NewRtpProxy)]
    <3>1. Becomes(c, r)
      BY <1>5, BeginProxyConfig, Zenon
    <3>2. config'[c] \in Cluster
      BY <3>1 DEF Becomes
    <3> QED
      BY <3>2, LenProperties DEF Cluster
  <2>3. rtpproxy' \in Places
    BY <1>5, <2>1, <2>2 DEF BeginProxy, Places
  <2> QED
    BY <1>5, <2>3 DEF BeginProxy, Begin, Pushed, SectionBegins, Sections, CtxName, Elements
<1>6. CASE BeginNotify
  <2>1. rtp_cluster \in Places
    BY <1>6 DEF BeginNotify, Typed, TypeOK, Places
  <2> QED
    BY <1>6, <2>1 DEF BeginNotify, Begin, Pushed, SectionBegins, Sections, CtxName, Elements
<1>7. CASE BeginLimit
  BY <1>1, <1>7 DEF BeginLimit, Begin, Pushed, OtherBegins, Sections, Elements
<1>8. CASE BeginOther
  BY <1>1, <1>8
     DEF BeginOther, Begin, Pushed, OtherBegins, Sections, Elements, ClusterFields, ProxyFields,
         NotifyFields, AllFields
<1>9. CASE BeginNowhere
  BY <1>9 DEF BeginNowhere, Misplaced, Still, pointers
<1>10. ASSUME NEW t \in Texts, SetCluster(t) \/ SetProxy(t) \/ SetNotify(t)
       PROVE  Still
  BY <1>10 DEF SetCluster, SetProxy, SetNotify, Still, doc, pointers
<1>11. CASE TextNowhere \/ Return
  BY <1>11 DEF TextNowhere, Return, Still, doc, pointers
<1> QED
  BY <1>3, <1>4, <1>5, <1>6, <1>7, <1>8, <1>9, <1>10, <1>11 DEF Next

\* Elements are pushed onto the document, and the one on top is popped.
LEMMA PushFacts ==
  ASSUME Typed, NEW e, NEW place, Pushed(e, place)
  PROVE  /\ Len(open) \in Nat /\ DOMAIN open = 1 .. Len(open)
         /\ DOMAIN open' = 1 .. Len(open) + 1 /\ Len(open') = Len(open) + 1
         /\ open' \in Seq([name : Elements, place : Places])
         /\ \A k \in 1 .. Len(open) : open'[k] = open[k]
         /\ open'[Len(open) + 1] = [name |-> e, place |-> place]
         /\ open'[Len(open) + 1].name = e /\ open'[Len(open) + 1].place = place
<1> DEFINE x == [name |-> e, place |-> place]
           All == [name : Elements, place : Places]
<1>1. x \in All
  BY DEF Pushed
<1>2. open' = Append(open, x)
  BY DEF Pushed
<1>3. open \in Seq(All)
  BY DEF Typed
<1> HIDE DEF x, All
<1>4. /\ open' \in Seq(All)
      /\ Len(open) \in Nat /\ DOMAIN open = 1 .. Len(open)
      /\ DOMAIN open' = 1 .. Len(open) + 1 /\ Len(open') = Len(open) + 1
      /\ \A k \in 1 .. Len(open) : open'[k] = open[k]
      /\ open'[Len(open) + 1] = x
  BY <1>1, <1>2, <1>3, Appended
<1> QED
  BY <1>4 DEF x, All

LEMMA PopFacts ==
  ASSUME Typed, EndElement
  PROVE  /\ Len(open) \in Nat \ {0} /\ DOMAIN open = 1 .. Len(open)
         /\ DOMAIN open' = 1 .. Len(open) - 1 /\ Len(open') = Len(open) - 1
         /\ open' \in Seq([name : Elements, place : Places])
         /\ \A k \in 1 .. Len(open) - 1 : open'[k] = open[k]
         /\ Parent = open[Len(open)].name
<1>1. open # <<>> /\ open' = Front(open)
  BY DEF EndElement
<1> QED
  BY <1>1, Fronted DEF Typed, Parent, Last

LEMMA TypedStep ==
  ASSUME Typed, Rooted, Pointing, Placed, Next, config' \in Seq(Cluster), Grows
  PROVE  Typed'
<1>1. /\ begun' \in BOOLEAN /\ odd' \in BOOLEAN
      /\ outcome' \in {"reading", "returned", "panicked"}
  <2>1. begun \in BOOLEAN /\ odd \in BOOLEAN /\ outcome \in {"reading", "returned", "panicked"}
    BY DEF Typed, TypeOK
  <2> QED
    BY <2>1
       DEF Next, BeginConfig, BeginCluster, BeginProxy, BeginNotify, BeginLimit, BeginOther,
           BeginNowhere, Begin, Misplaced, EndElement, SetCluster, SetProxy, SetNotify, doc,
           TextNowhere, Return
<1>2. \A at \in {rtp_cluster', dnconfig'} \ {<<>>} : at[1] \in DOMAIN config'
  <2>1. \A at \in {rtp_cluster, dnconfig} \ {<<>>} : at[1] \in DOMAIN config'
    BY DEF Typed, TypeOK, Grows
  <2>2. CASE BeginCluster
    <3>1. rtp_cluster' = <<Len(config')>> /\ dnconfig' = dnconfig
      BY <2>2 DEF BeginCluster
    <3>2. Len(config') \in DOMAIN config'
      BY <2>2, BeginClusterConfig
    <3> QED
      BY <2>1, <3>1, <3>2
  <2>3. CASE BeginNotify
    BY <2>1, <2>3 DEF BeginNotify
  <2>4. \/ rtp_cluster' \in {<<>>, rtp_cluster} /\ dnconfig' \in {<<>>, dnconfig}
        \/ BeginCluster \/ BeginNotify
    BY DEF Next, BeginConfig, BeginProxy, BeginLimit, BeginOther, BeginNowhere, pointers,
           EndElement, SetCluster, SetProxy, SetNotify, TextNowhere, Return
  <2> QED
    BY <2>1, <2>2, <2>3, <2>4
<1>3. rtpproxy' # <<>> =>
        /\ rtpproxy'[1] \in DOMAIN config'
        /\ rtpproxy'[2] \in DOMAIN config'[rtpproxy'[1]].proxies
  <2>1. rtpproxy # <<>> =>
          /\ rtpproxy[1] \in DOMAIN config'
          /\ rtpproxy[2] \in DOMAIN config'[rtpproxy[1]].proxies
    BY DEF Typed, TypeOK, Grows
  <2>2. CASE BeginProxy
    <3> DEFINE c == rtp_cluster[1]
               r == [config[c] EXCEPT !.proxies = Append(@, NewRtpProxy)]
    <3>1. /\ Becomes(c, r) /\ NewRtpProxy \in Proxy /\ config[c].proxies \in Seq(Proxy)
          /\ r.proxies = Append(config[c].proxies, NewRtpProxy)
      BY <2>2, BeginProxyConfig, Zenon
    <3>2. c \in DOMAIN config' /\ config'[c].proxies = Append(config[c].proxies, NewRtpProxy)
      BY <3>1 DEF Becomes
    <3>3. rtpproxy' = <<c, Len(config'[c].proxies)>>
      BY <2>2 DEF BeginProxy
    <3> HIDE DEF c, r
    <3>4. Len(config'[c].proxies) \in DOMAIN config'[c].proxies
      BY <3>1, <3>2, Appended
    <3> QED
      BY <3>2, <3>3, <3>4
  <2>3. rtpproxy' \in {<<>>, rtpproxy} \/ BeginProxy
    BY DEF Next, BeginConfig, BeginCluster, BeginNotify, BeginLimit, BeginOther, BeginNowhere,
           pointers, EndElement, SetCluster, SetProxy, SetNotify, TextNowhere, Return
  <2> QED
    BY <2>1, <2>2, <2>3
<1>4. TypeOK'
  BY <1>1, <1>2, <1>3 DEF TypeOK
<1>5. <<>> \in Places
  BY EmptySeq DEF Places
<1>6. CASE BeginConfig /\ Pushed("rtp_cluster_config", <<>>)
  <2>1. ctx' = Append(ctx, "rtp_cluster_config") /\ UNCHANGED pointers
    BY <1>6 DEF BeginConfig
  <2>2. ctx' \in Seq(Stackable)
    BY <2>1, Appended DEF Typed, Stackable
  <2> QED
    BY <1>4, <1>6, <2>1, <2>2, PushFacts DEF Typed, Pushed, pointers
<1>7. ASSUME NEW e, NEW place, SectionBegins(e, place)
      PROVE  /\ open' \in Seq([name : Elements, place : Places]) /\ ctx' \in Seq(Stackable)
             /\ element' \in Elements /\ place \in Places
  <2>1. CtxName(e) \in Stackable /\ ctx' = Append(ctx, CtxName(e))
    BY <1>7 DEF SectionBegins, Sections, CtxName, Stackable
  <2>2. ctx' \in Seq(Stackable)
    BY <2>1, Appended DEF Typed
  <2> QED
    BY <1>7, <2>2, PushFacts DEF Pushed, SectionBegins
<1>8. CASE BeginCluster /\ SectionBegins("rtp_cluster", rtp_cluster')
  BY <1>4, <1>7, <1>8 DEF BeginCluster, Typed
<1>9. CASE BeginProxy /\ SectionBegins("rtpproxy", rtpproxy')
  BY <1>4, <1>7, <1>9 DEF BeginProxy, Typed
<1>10. CASE BeginNotify /\ SectionBegins("disconnect_notify", dnconfig')
  BY <1>4, <1>7, <1>10 DEF BeginNotify, Typed
<1>11. ASSUME NEW e \in Elements, OtherBegins(e) PROVE Typed'
  BY <1>4, <1>11, PushFacts DEF OtherBegins, Pushed, Typed, pointers
<1>12. CASE EndElement
  <2>1. ctx' \in Seq(Stackable)
    <3>1. ctx # <<>>
      BY <1>12 DEF EndElement, Rooted
    <3>2. ctx' = ctx \/ ctx' = Front(ctx)
      BY <1>12 DEF EndElement, Pop
    <3> QED
      BY <3>1, <3>2, Fronted DEF Typed
  <2>2. element' \in {"", element}
    BY <1>12 DEF EndElement, ClearElement
  <2>3. rtp_cluster' \in Places /\ rtpproxy' \in Places /\ dnconfig' \in Places
    BY <1>5, <1>12 DEF EndElement, pointers, Typed
  <2> QED
    BY <1>4, <1>12, <2>1, <2>2, <2>3, PopFacts DEF Typed
<1>13. CASE Still
  BY <1>4, <1>13 DEF Still, Typed, pointers
<1> QED
  BY <1>6, <1>8, <1>9, <1>10, <1>11, <1>12, <1>13, StepKinds

\* Below the root, only what the root may hold begins.
LEMMA BeginsBelow ==
  ASSUME Typed, Rooted, NEW e, NEW place, Pushed(e, place)
  PROVE  /\ e = "rtp_cluster_config" => open = <<>> /\ ~ begun
         /\ e # "rtp_cluster_config" =>
              /\ open # <<>> /\ Len(open) \in Nat \ {0} /\ begun
              /\ Parent = open[Len(open)].name /\ e \in Children(Parent)
<1>1. CASE open = <<>>
  BY <1>1 DEF Pushed, MayBegin
<1>2. CASE open # <<>>
  <2>1. Len(open) \in Nat \ {0} /\ DOMAIN open = 1 .. Len(open)
    BY <1>2, Fronted DEF Typed
  <2>2. begun /\ e \in Children(Parent) /\ Parent = open[Len(open)].name
    BY <1>2 DEF Rooted, Pushed, MayBegin, Parent, Last
  <2>3. e # "rtp_cluster_config"
    BY <2>2 DEF Children, Sections, ClusterFields, ProxyFields, NotifyFields
  <2> QED
    BY <1>2, <2>1, <2>2, <2>3
<1> QED
  BY <1>1, <1>2

\* The section on top of the document is the one on top of the stack.
LEMMA TopSection ==
  ASSUME Typed, open # <<>>, Parent \in Sections, ctx # <<>>,
         NEW f, Stacked(f)
  PROVE  /\ Len(ctx) \in Nat /\ Len(ctx) >= 2 /\ Len(open) \in Nat \ {0}
         /\ f[Len(ctx) - 1] = Len(open)
<1>1. /\ Len(ctx) \in Nat \ {0} /\ Len(open) \in Nat \ {0} /\ DOMAIN open = 1 .. Len(open)
      /\ Parent = open[Len(open)].name
  BY Fronted DEF Typed, Parent, Last
<1>2. /\ DOMAIN f = 1 .. Len(ctx) - 1 /\ \A a \in DOMAIN f : f[a] \in 1 .. Len(open)
      /\ \A a, b \in DOMAIN f : a < b => f[a] < f[b]
  BY <1>1 DEF Stacked
<1>3. PICK a \in DOMAIN f : f[a] = Len(open)
  <2>1. Len(open) \in DOMAIN open /\ open[Len(open)].name \in Sections
    BY <1>1
  <2> QED
    BY <2>1 DEF Stacked
<1>4. ~ a < Len(ctx) - 1
  BY <1>1, <1>2, <1>3
<1> QED
  BY <1>1, <1>2, <1>3, <1>4

\* What is on top of the stack is the innermost section of the document.
LEMMA LastOfStack ==
  ASSUME Typed, Rooted, InStep, ctx # <<>>, Last(ctx) # "rtp_cluster_config"
  PROVE  \E k \in DOMAIN open :
           /\ open[k].name \in Sections /\ Last(ctx) = CtxName(open[k].name)
           /\ \A j \in DOMAIN open : j > k => open[j].name \notin Sections
<1>1. begun /\ ctx[1] = "rtp_cluster_config"
  BY DEF Rooted
<1>2. PICK f : Stacked(f)
  BY <1>1 DEF InStep
<1>3. /\ Len(ctx) \in Nat \ {0} /\ Len(ctx) # 1 /\ Last(ctx) = ctx[Len(ctx)]
  BY <1>1, EmptySeq DEF Typed, Last
<1> DEFINE a == Len(ctx) - 1
<1>4. /\ DOMAIN f = 1 .. a /\ a \in 1 .. a /\ f[a] \in DOMAIN open
      /\ open[f[a]].name \in Sections /\ ctx[a + 1] = CtxName(open[f[a]].name)
  <2>1. DOMAIN f = 1 .. a /\ a \in 1 .. a
    <3>1. f \in [1 .. a -> DOMAIN open] /\ a \in Nat \ {0}
      BY <1>2, <1>3 DEF Stacked
    <3> HIDE DEF a
    <3> QED
      BY <3>1
  <2>2. f \in [1 .. a -> DOMAIN open] /\ a \in DOMAIN f
    BY <1>2, <2>1 DEF Stacked
  <2>3. open[f[a]].name \in Sections /\ ctx[a + 1] = CtxName(open[f[a]].name)
    BY <1>2, <2>2, Zenon DEF Stacked
  <2> HIDE DEF a
  <2> QED
    BY <2>1, <2>2, <2>3
<1>5. ASSUME NEW j \in DOMAIN open, j > f[a], open[j].name \in Sections
      PROVE  FALSE
  <2>1. PICK b \in DOMAIN f : f[b] = j
    BY <1>2, <1>5 DEF Stacked
  <2>2. b < a => f[b] < f[a]
    BY <1>2, <1>4 DEF Stacked
  <2>3. DOMAIN open \subseteq Nat
    <3>1. DOMAIN open = 1 .. Len(open) /\ Len(open) \in Nat
      BY LenProperties DEF Typed
    <3> QED
      BY <3>1
  <2>4. b \in 1 .. a /\ a \in Nat /\ f[a] \in Nat /\ f[b] \in Nat
    BY <1>3, <1>4, <2>1, <2>3
  <2> HIDE DEF a
  <2> QED
    BY <1>5, <2>1, <2>2, <2>4
<1> QED
  BY <1>3, <1>4, <1>5

LEMMA RootedStep ==
  ASSUME Typed, Rooted, InStep, Next, config' \in Seq(Cluster)
  PROVE  Rooted'
<1>1. ctx # <<>> => Len(ctx) \in Nat \ {0}
  BY EmptySeq DEF Typed
<1>2. CASE BeginConfig /\ Pushed("rtp_cluster_config", <<>>)
  <2>1. open = <<>> /\ ~ begun /\ ctx = <<>>
    BY <1>2, BeginsBelow DEF Rooted
  <2>2. ctx' = Append(ctx, "rtp_cluster_config")
    BY <1>2 DEF BeginConfig
  <2>3. ctx' # <<>> /\ ctx'[1] = "rtp_cluster_config"
    BY <2>1, <2>2
  <2>4. Len(open) = 0
    BY <2>1
  <2>5. \A k \in DOMAIN open' : k = 1 /\ open'[k].name = "rtp_cluster_config"
    <3>1. /\ DOMAIN open' = 1 .. Len(open) + 1
          /\ open'[Len(open) + 1] = [name |-> "rtp_cluster_config", place |-> <<>>]
      BY <1>2, PushFacts
    <3> QED
      BY <2>4, <3>1
  <2> QED
    BY <1>2, <2>3, <2>5 DEF Rooted, Pushed
<1>3. ASSUME NEW e, NEW place, Pushed(e, place), e # "rtp_cluster_config",
             ctx' = ctx \/ \E x \in {"rtp_cluster", "rtpproxy", "dnconfig"} : ctx' = Append(ctx, x)
      PROVE  Rooted'
  <2>1. open # <<>> /\ begun /\ ctx # <<>> /\ ctx[1] = "rtp_cluster_config" /\ Len(open) \in Nat \ {0}
    BY <1>3, BeginsBelow DEF Rooted
  <2>2. ctx' # <<>> /\ ctx'[1] = "rtp_cluster_config"
    <3>1. CASE ctx' = ctx
      BY <2>1, <3>1
    <3>2. ASSUME NEW x \in {"rtp_cluster", "rtpproxy", "dnconfig"}, ctx' = Append(ctx, x)
          PROVE  ctx' # <<>> /\ ctx'[1] = "rtp_cluster_config"
      <4>1. x \in Stackable /\ ctx \in Seq(Stackable) /\ Len(ctx) \in Nat \ {0}
        BY <1>1, <2>1, <3>2 DEF Typed, Stackable
      <4>2. ctx' # <<>> /\ ctx'[1] = ctx[1]
        BY <3>2, <4>1, AppendProperties
      <4> QED
        BY <2>1, <4>2
    <3> QED
      BY <1>3, <3>1, <3>2
  <2>3. \A k \in DOMAIN open' : open'[k].name = "rtp_cluster_config" <=> k = 1
    <3>1. /\ DOMAIN open = 1 .. Len(open) /\ DOMAIN open' = 1 .. Len(open) + 1
          /\ \A k \in 1 .. Len(open) : open'[k] = open[k]
          /\ open'[Len(open) + 1].name = e
      <4>1. /\ DOMAIN open = 1 .. Len(open) /\ DOMAIN open' = 1 .. Len(open) + 1
            /\ \A k \in 1 .. Len(open) : open'[k] = open[k]
            /\ open'[Len(open) + 1] = [name |-> e, place |-> place]
        BY <1>3, PushFacts, Zenon
      <4> QED
        BY <4>1
    <3> QED
      BY <1>3, <2>1, <3>1 DEF Rooted
  <2> QED
    BY <1>3, <2>2, <2>3 DEF Rooted, Pushed
<1>4. ASSUME NEW e, NEW place, SectionBegins(e, place)
      PROVE  Rooted'
  <2>1. Pushed(e, place) /\ e # "rtp_cluster_config"
    BY <1>4 DEF SectionBegins, Sections
  <2>2. CtxName(e) \in {"rtp_cluster", "rtpproxy", "dnconfig"} /\ ctx' = Append(ctx, CtxName(e))
    BY <1>4 DEF SectionBegins, Sections, CtxName
  <2> QED
    BY <1>3, <2>1, <2>2
<1>5. ASSUME NEW e \in Elements, OtherBegins(e)
      PROVE  Rooted'
  BY <1>3, <1>5 DEF OtherBegins
<1>6. CASE EndElement
  <2>1. begun /\ begun' = begun /\ ctx # <<>> /\ ctx[1] = "rtp_cluster_config"
    BY <1>6 DEF EndElement, Rooted
  <2>2. \A k \in DOMAIN open' : open'[k].name = "rtp_cluster_config" <=> k = 1
    BY <1>6, PopFacts DEF Rooted
  <2>3. ctx' # <<>> /\ ctx'[1] = "rtp_cluster_config"
    <3>1. CASE ctx' = ctx
      BY <2>1, <3>1
    <3>2. CASE ctx' = Front(ctx) /\ Parent \in Sections
      <4>1. PICK f : Stacked(f)
        BY <2>1 DEF InStep
      <4>2. Len(ctx) \in Nat /\ Len(ctx) >= 2
        BY <1>6, <2>1, <3>2, <4>1, TopSection DEF EndElement
      <4>3. Len(ctx') = Len(ctx) - 1 /\ ctx'[1] = ctx[1]
        <5>1. /\ Len(ctx') = Len(ctx) - 1
              /\ \A k \in 1 .. Len(ctx) - 1 : ctx'[k] = ctx[k]
          BY <2>1, <3>2, Fronted DEF Typed
        <5> QED
          BY <4>2, <5>1
      <4>4. Len(ctx') # 0
        BY <4>2, <4>3
      <4> QED
        BY <2>1, <4>3, <4>4
    <3> QED
      BY <1>6, <3>1, <3>2 DEF EndElement, Pop, Sections
  <2> QED
    BY <2>1, <2>2, <2>3 DEF Rooted
<1>7. CASE Still
  BY <1>7 DEF Still, Rooted
<1> QED
  BY <1>2, <1>4, <1>5, <1>6, <1>7, StepKinds

LEMMA InStepStep ==
  ASSUME Typed, Rooted, InStep, Next, config' \in Seq(Cluster)
  PROVE  InStep'
<1>1. CASE BeginConfig /\ Pushed("rtp_cluster_config", <<>>)
  <2>1. open = <<>> /\ ctx = <<>>
    BY <1>1, BeginsBelow DEF Rooted
  <2>2. ctx' = Append(ctx, "rtp_cluster_config") /\ Len(open) = 0
    BY <1>1, <2>1 DEF BeginConfig
  <2>3. Len(ctx') = 1
    BY <2>1, <2>2
  <2>4. /\ DOMAIN open' = 1 .. Len(open) + 1
        /\ open'[Len(open) + 1] = [name |-> "rtp_cluster_config", place |-> <<>>]
    BY <1>1, PushFacts, Zenon
  <2>5. \A k \in DOMAIN open' : open'[k].name \notin Sections
    BY <2>2, <2>4 DEF Sections
  <2> DEFINE f == [a \in 1 .. 0 |-> 1]
  <2>6. f \in [1 .. Len(ctx') - 1 -> DOMAIN open'] /\ DOMAIN f = {}
    BY <2>3
  <2> HIDE DEF f
  <2>7. Stacked(f)'
    BY <2>3, <2>5, <2>6 DEF Stacked
  <2> QED
    BY <2>6, <2>7 DEF InStep
<1>2. ASSUME NEW e, NEW place, SectionBegins(e, place)
      PROVE  InStep'
  <2>1. Pushed(e, place) /\ e # "rtp_cluster_config" /\ e \in Sections
    BY <1>2 DEF SectionBegins, Sections
  <2>2. begun /\ ctx # <<>>
    BY <2>1, BeginsBelow DEF Rooted
  <2>3. PICK f : Stacked(f)
    BY <2>2 DEF InStep
  <2> DEFINE n == Len(open)
             c == Len(ctx)
  <2>4. /\ n \in Nat /\ DOMAIN open = 1 .. n /\ DOMAIN open' = 1 .. n + 1
        /\ \A k \in 1 .. n : open'[k] = open[k]
        /\ open'[n + 1].name = e
    <3>1. /\ n \in Nat /\ DOMAIN open = 1 .. n /\ DOMAIN open' = 1 .. n + 1
          /\ \A k \in 1 .. n : open'[k] = open[k]
          /\ open'[n + 1] = [name |-> e, place |-> place]
      BY <2>1, PushFacts, Zenon
    <3> QED
      BY <3>1
  <2>5. c \in Nat \ {0}
    BY <2>2, EmptySeq DEF Typed
  <2>6. /\ Len(ctx') = c + 1
        /\ \A k \in 1 .. c : ctx'[k] = ctx[k]
        /\ ctx'[c + 1] = CtxName(e)
    <3>1. ctx' = Append(ctx, CtxName(e)) /\ CtxName(e) \in Stackable
      BY <1>2 DEF SectionBegins, Sections, CtxName, Stackable
    <3>2. ctx \in Seq(Stackable)
      BY DEF Typed
    <3> QED
      BY <3>1, <3>2, Appended DEF c
  <2>7. /\ \A a \in 1 .. c - 1 : f[a] \in 1 .. n
        /\ \A a, b \in 1 .. c - 1 : a < b => f[a] < f[b]
        /\ \A a \in 1 .. c - 1 : open[f[a]].name \in Sections /\ ctx[a + 1] = CtxName(open[f[a]].name)
        /\ \A k \in 1 .. n : open[k].name \in Sections => \E a \in 1 .. c - 1 : f[a] = k
    BY <2>3, <2>4 DEF Stacked
  <2> HIDE DEF n, c
  <2>8. PICK g \in [1 .. Len(ctx') - 1 -> DOMAIN open'] :
          (\A a \in 1 .. c - 1 : g[a] = f[a]) /\ g[c] = n + 1
    <3> DEFINE h == [a \in 1 .. c |-> IF a < c THEN f[a] ELSE n + 1]
    <3>1. h \in [1 .. Len(ctx') - 1 -> DOMAIN open']
      <4>1. \A a \in 1 .. c : (IF a < c THEN f[a] ELSE n + 1) \in 1 .. n + 1
        <5> SUFFICES ASSUME NEW a \in 1 .. c, a < c PROVE f[a] \in 1 .. n + 1
          BY <2>4
        <5>1. a \in 1 .. c - 1
          BY <2>5
        <5> QED
          BY <2>4, <2>7, <5>1
      <4>2. Len(ctx') - 1 = c /\ DOMAIN open' = 1 .. n + 1
        BY <2>4, <2>5, <2>6
      <4> QED
        BY <4>1, <4>2
    <3>2. (\A a \in 1 .. c - 1 : h[a] = f[a]) /\ h[c] = n + 1
      BY <2>5
    <3> HIDE DEF h
    <3> QED
      BY <3>1, <3>2
  <2>9. DOMAIN g = 1 .. c
    BY <2>5, <2>6
  <2>10. \A a, b \in DOMAIN g : a < b => g[a] < g[b]
    <3> SUFFICES ASSUME NEW a \in 1 .. c, NEW b \in 1 .. c, a < b PROVE g[a] < g[b]
      BY <2>9
    <3>1. a \in 1 .. c - 1
      BY <2>5
    <3>2. CASE b = c
      BY <2>4, <2>7, <2>8, <3>1, <3>2
    <3>3. CASE b # c
      <4>1. b \in 1 .. c - 1
        BY <2>5, <3>3
      <4> QED
        BY <2>7, <2>8, <3>1, <4>1
    <3> QED
      BY <3>2, <3>3
  <2>11. ASSUME NEW a \in DOMAIN g
         PROVE  open'[g[a]].name \in Sections /\ ctx'[a + 1] = CtxName(open'[g[a]].name)
    <3>1. CASE a = c
      BY <2>1, <2>4, <2>6, <2>8, <3>1
    <3>2. CASE a # c
      <4>1. a \in 1 .. c - 1 /\ a + 1 \in 1 .. c /\ g[a] = f[a] /\ f[a] \in 1 .. n
        BY <2>5, <2>7, <2>8, <2>9, <3>2
      <4>2. open'[f[a]] = open[f[a]] /\ ctx'[a + 1] = ctx[a + 1]
        BY <2>4, <2>6, <4>1
      <4> QED
        BY <2>7, <4>1, <4>2
    <3> QED
      BY <3>1, <3>2
  <2>12. \A k \in DOMAIN open' : open'[k].name \in Sections => \E a \in DOMAIN g : g[a] = k
    <3> SUFFICES ASSUME NEW k \in DOMAIN open', open'[k].name \in Sections
                 PROVE  \E a \in DOMAIN g : g[a] = k
      OBVIOUS
    <3>1. CASE k = n + 1
      BY <2>5, <2>8, <2>9, <3>1
    <3>2. CASE k # n + 1
      <4>1. k \in 1 .. n /\ open[k].name \in Sections
        BY <2>4, <3>2
      <4>2. PICK a \in 1 .. c - 1 : f[a] = k
        BY <2>7, <4>1
      <4> QED
        BY <2>5, <2>8, <2>9, <4>2
    <3> QED
      BY <3>1, <3>2
  <2>13. Stacked(g)'
    BY <2>8, <2>10, <2>11, <2>12 DEF Stacked
  <2> QED
    BY <2>8, <2>13 DEF InStep
<1>3. ASSUME NEW e \in Elements, OtherBegins(e)
      PROVE  InStep'
  <2>1. Pushed(e, <<>>) /\ e # "rtp_cluster_config" /\ e \notin Sections /\ ctx' = ctx
    BY <1>3 DEF OtherBegins
  <2>2. begun
    BY <2>1, BeginsBelow
  <2>3. PICK f : Stacked(f)
    BY <2>2 DEF InStep
  <2>4. /\ Len(open) \in Nat /\ DOMAIN open = 1 .. Len(open)
        /\ DOMAIN open' = 1 .. Len(open) + 1
        /\ \A k \in 1 .. Len(open) : open'[k] = open[k]
        /\ open'[Len(open) + 1].name = e
    <3>1. /\ Len(open) \in Nat /\ DOMAIN open = 1 .. Len(open)
          /\ DOMAIN open' = 1 .. Len(open) + 1
          /\ \A k \in 1 .. Len(open) : open'[k] = open[k]
          /\ open'[Len(open) + 1] = [name |-> e, place |-> <<>>]
      BY <2>1, PushFacts, Zenon
    <3> QED
      BY <3>1
  <2>5. DOMAIN open \subseteq DOMAIN open' /\ \A k \in DOMAIN open : open'[k] = open[k]
    BY <2>4
  <2>6. \A k \in DOMAIN open' : open'[k].name \in Sections => k \in DOMAIN open
    BY <2>1, <2>4
  <2>7. f \in [1 .. Len(ctx) - 1 -> DOMAIN open'] /\ \A a \in DOMAIN f : f[a] \in DOMAIN open
    BY <2>3, <2>5 DEF Stacked
  <2>8. Stacked(f)'
    BY <2>1, <2>3, <2>5, <2>6, <2>7 DEF Stacked
  <2> QED
    BY <2>1, <2>7, <2>8 DEF InStep
<1>4. CASE EndElement
  <2>1. begun /\ begun' = begun /\ ctx # <<>> /\ open # <<>>
    BY <1>4 DEF EndElement, Rooted
  <2>2. PICK f : Stacked(f)
    BY <2>1 DEF InStep
  <2> DEFINE n == Len(open)
             c == Len(ctx)
  <2>3. /\ n \in Nat \ {0} /\ DOMAIN open = 1 .. n /\ DOMAIN open' = 1 .. n - 1
        /\ \A k \in 1 .. n - 1 : open'[k] = open[k]
        /\ Parent = open[n].name
    BY <1>4, PopFacts, Zenon
  <2>4. /\ c \in Nat \ {0} /\ DOMAIN f = 1 .. c - 1
        /\ \A a \in 1 .. c - 1 : f[a] \in 1 .. n
        /\ \A a, b \in 1 .. c - 1 : a < b => f[a] < f[b]
        /\ \A a \in 1 .. c - 1 : open[f[a]].name \in Sections /\ ctx[a + 1] = CtxName(open[f[a]].name)
        /\ \A k \in 1 .. n : open[k].name \in Sections => \E a \in 1 .. c - 1 : f[a] = k
    BY <2>1, <2>2, <2>3, EmptySeq DEF Stacked, Typed
  <2>5. CASE Parent \notin Sections
    <3>1. ctx' = ctx
      BY <1>4, <2>5 DEF EndElement, Sections
    <3>2. \A a \in 1 .. c - 1 : f[a] # n
      BY <2>3, <2>4, <2>5
    <3>3. f \in [1 .. c - 1 -> DOMAIN open]
      BY <2>2 DEF Stacked
    <3> HIDE DEF n, c
    <3>4. f \in [1 .. c - 1 -> DOMAIN open'] /\ \A a \in DOMAIN f : open'[f[a]] = open[f[a]]
      BY <2>3, <2>4, <3>2, <3>3
    <3>5. \A k \in DOMAIN open' : k \in DOMAIN open /\ open'[k] = open[k]
      BY <2>3
    <3>6. Stacked(f)'
      BY <2>2, <3>1, <3>4, <3>5 DEF Stacked, c
    <3> QED
      BY <3>1, <3>4, <3>6 DEF InStep, c
  <2>6. CASE Parent \in Sections
    <3>1. ctx' = Front(ctx)
      BY <1>4, <2>6 DEF EndElement, Sections, Pop
    <3>2. Len(ctx') = c - 1 /\ \A k \in 1 .. c - 1 : ctx'[k] = ctx[k]
      BY <2>1, <3>1, Fronted DEF Typed
    <3>3. c >= 2 /\ f[c - 1] = n
      BY <2>1, <2>2, <2>6, TopSection
    <3> HIDE DEF n, c
    <3>4. \A a \in 1 .. c - 2 : f[a] \in 1 .. n - 1
      BY <2>3, <2>4, <3>3
    <3>5. PICK g : DOMAIN g = 1 .. c - 2 /\ (\A a \in 1 .. c - 2 : g[a] = f[a])
                   /\ g \in [1 .. Len(ctx') - 1 -> DOMAIN open']
      <4> DEFINE h == [a \in 1 .. c - 2 |-> f[a]]
      <4>1. DOMAIN h = 1 .. c - 2 /\ \A a \in 1 .. c - 2 : h[a] = f[a]
        OBVIOUS
      <4>2. h \in [1 .. Len(ctx') - 1 -> DOMAIN open']
        BY <2>3, <2>4, <3>2, <3>3, <3>4
      <4> HIDE DEF h
      <4> QED
        BY <4>1, <4>2
    <3>7. \A a, b \in DOMAIN g : a < b => g[a] < g[b]
      <4> SUFFICES ASSUME NEW a \in 1 .. c - 2, NEW b \in 1 .. c - 2, a < b PROVE g[a] < g[b]
        BY <3>5
      <4>1. a \in 1 .. c - 1 /\ b \in 1 .. c - 1
        BY <2>4
      <4> QED
        BY <2>4, <3>5, <4>1
    <3>8. ASSUME NEW a \in DOMAIN g
          PROVE  open'[g[a]].name \in Sections /\ ctx'[a + 1] = CtxName(open'[g[a]].name)
      <4>1. a \in 1 .. c - 1 /\ a + 1 \in 1 .. c - 1 /\ g[a] = f[a] /\ f[a] \in 1 .. n - 1
        BY <2>4, <3>4, <3>5
      <4>2. open'[f[a]] = open[f[a]] /\ ctx'[a + 1] = ctx[a + 1]
        BY <2>3, <3>2, <4>1
      <4> QED
        BY <2>4, <4>1, <4>2
    <3>9. ASSUME NEW k \in DOMAIN open', open'[k].name \in Sections
          PROVE  \E a \in DOMAIN g : g[a] = k
      <4>1. k \in 1 .. n /\ k # n /\ open[k].name \in Sections
        BY <2>3, <3>9
      <4>2. PICK a \in 1 .. c - 1 : f[a] = k
        BY <2>4, <4>1
      <4>3. a \in 1 .. c - 2
        BY <2>4, <3>3, <4>1, <4>2
      <4> QED
        BY <3>5, <4>2, <4>3
    <3>10. Stacked(g)'
      BY <3>5, <3>7, <3>8, <3>9 DEF Stacked
    <3> QED
      BY <3>5, <3>10 DEF InStep
  <2> QED
    BY <2>5, <2>6
<1>5. CASE Still
  BY <1>5 DEF Still, InStep, Stacked
<1> QED
  BY <1>1, <1>2, <1>3, <1>4, <1>5, StepKinds

LEMMA InFieldStep ==
  ASSUME Typed, Rooted, InField, Next, config' \in Seq(Cluster)
  PROVE  InField'
<1>1. ASSUME NEW e, NEW place, Pushed(e, place)
      PROVE  InField'
  <2>1. /\ Len(open) \in Nat /\ Len(open') = Len(open) + 1
        /\ open'[Len(open) + 1].name = e /\ element' = e
    BY <1>1, PushFacts, Zenon DEF Pushed
  <2>2. Last(open').name = element' /\ Len(open') # 0
    BY <2>1 DEF Last
  <2> QED
    BY <2>2 DEF InField
<1>2. CASE EndElement
  <2>1. Parent = Last(open).name
    BY <1>2 DEF EndElement, Parent
  <2>2. element' = "" \/ (element' = element /\ (Parent \in Sections \/ element # Parent))
    BY <1>2 DEF EndElement, ClearElement, Sections
  <2>3. element' \notin AllFields
    BY <2>1, <2>2 DEF InField, AllFields, ClusterFields, ProxyFields, NotifyFields, Sections
  <2> QED
    BY <2>3 DEF InField, AllFields
<1>3. CASE Still
  BY <1>3 DEF Still, InField, AllFields
<1> QED
  BY <1>1, <1>2, <1>3, StepKinds DEF SectionBegins, OtherBegins

-----------------------------------------------------------------------------
(* Where the pointers are.                                                 *)

\* The last element of a kind stays the last while another kind begins, and
\* while the element that ends is of another kind.
LEMMA LastKeptByPush ==
  ASSUME Typed, NEW e, NEW place, Pushed(e, place), NEW x, LastOf(open, x), x.name # e
  PROVE  LastOf(open', x)
<1>1. /\ Len(open) \in Nat /\ DOMAIN open = 1 .. Len(open)
      /\ DOMAIN open' = 1 .. Len(open) + 1
      /\ \A k \in 1 .. Len(open) : open'[k] = open[k]
      /\ open'[Len(open) + 1].name = e
  BY PushFacts, Zenon
<1>2. PICK k \in 1 .. Len(open) :
        open[k] = x /\ \A j \in 1 .. Len(open) : j > k => open[j].name # x.name
  BY <1>1 DEF LastOf
<1>3. k \in DOMAIN open' /\ open'[k] = x
  BY <1>1, <1>2
<1>4. ASSUME NEW j \in DOMAIN open', j > k PROVE open'[j].name # x.name
  <2>1. CASE j = Len(open) + 1
    BY <1>1, <2>1
  <2>2. CASE j # Len(open) + 1
    BY <1>1, <1>2, <1>4, <2>2
  <2> QED
    BY <2>1, <2>2
<1> QED
  BY <1>3, <1>4 DEF LastOf

LEMMA LastAfterPush ==
  ASSUME Typed, NEW e, NEW place, Pushed(e, place)
  PROVE  LastOf(open', [name |-> e, place |-> place])
<1>1. /\ Len(open) \in Nat /\ DOMAIN open' = 1 .. Len(open) + 1
      /\ open'[Len(open) + 1] = [name |-> e, place |-> place]
  BY PushFacts, Zenon
<1> QED
  BY <1>1 DEF LastOf

LEMMA LastKeptByPop ==
  ASSUME Typed, EndElement, NEW x, LastOf(open, x), x.name # Parent
  PROVE  LastOf(open', x)
<1>1. /\ Len(open) \in Nat \ {0} /\ DOMAIN open = 1 .. Len(open)
      /\ DOMAIN open' = 1 .. Len(open) - 1
      /\ \A k \in 1 .. Len(open) - 1 : open'[k] = open[k]
      /\ Parent = open[Len(open)].name
  BY PopFacts, Zenon
<1>2. PICK k \in 1 .. Len(open) :
        open[k] = x /\ \A j \in 1 .. Len(open) : j > k => open[j].name # x.name
  BY <1>1 DEF LastOf
<1>3. k \in DOMAIN open' /\ open'[k] = x
  BY <1>1, <1>2
<1>4. \A j \in DOMAIN open' : j > k => open'[j].name # x.name
  BY <1>1, <1>2
<1> QED
  BY <1>3, <1>4 DEF LastOf

LEMMA PointingStep ==
  ASSUME Typed, Pointing, Next, config' \in Seq(Cluster)
  PROVE  Pointing'
<1> DEFINE C == [name |-> "rtp_cluster", place |-> rtp_cluster]
           P == [name |-> "rtpproxy", place |-> rtpproxy]
           D == [name |-> "disconnect_notify", place |-> dnconfig]
<1>1. /\ rtp_cluster # <<>> => LastOf(open, C)
      /\ rtpproxy # <<>> => LastOf(open, P)
      /\ dnconfig # <<>> => LastOf(open, D)
  BY DEF Pointing
<1>2. CASE BeginConfig /\ Pushed("rtp_cluster_config", <<>>)
  BY <1>1, <1>2, LastKeptByPush DEF BeginConfig, pointers, Pointing
<1>3. CASE BeginCluster /\ SectionBegins("rtp_cluster", rtp_cluster')
  <2>1. Pushed("rtp_cluster", rtp_cluster') /\ UNCHANGED <<rtpproxy, dnconfig>>
    BY <1>3 DEF BeginCluster, SectionBegins
  <2>2. LastOf(open', [name |-> "rtp_cluster", place |-> rtp_cluster'])
    BY <2>1, LastAfterPush
  <2>3. /\ rtpproxy # <<>> => LastOf(open', P)
        /\ dnconfig # <<>> => LastOf(open', D)
    BY <1>1, <2>1, LastKeptByPush
  <2> QED
    BY <2>1, <2>2, <2>3 DEF Pointing
<1>4. CASE BeginProxy /\ SectionBegins("rtpproxy", rtpproxy')
  <2>1. Pushed("rtpproxy", rtpproxy') /\ UNCHANGED <<rtp_cluster, dnconfig>>
    BY <1>4 DEF BeginProxy, SectionBegins
  <2>2. LastOf(open', [name |-> "rtpproxy", place |-> rtpproxy'])
    BY <2>1, LastAfterPush
  <2>3. /\ rtp_cluster # <<>> => LastOf(open', C)
        /\ dnconfig # <<>> => LastOf(open', D)
    BY <1>1, <2>1, LastKeptByPush
  <2> QED
    BY <2>1, <2>2, <2>3 DEF Pointing
<1>5. CASE BeginNotify /\ SectionBegins("disconnect_notify", dnconfig')
  BY <1>1, <1>5, LastKeptByPush, LastAfterPush DEF BeginNotify, SectionBegins, Pointing
<1>6. ASSUME NEW e \in Elements, OtherBegins(e)
      PROVE  Pointing'
  BY <1>1, <1>6, LastKeptByPush DEF OtherBegins, pointers, Sections, Pointing
<1>7. CASE EndElement
  BY <1>1, <1>7, LastKeptByPop DEF EndElement, pointers, Sections, Pointing
<1>8. CASE Still
  BY <1>8 DEF Still, pointers, Pointing, LastOf
<1> QED
  BY <1>2, <1>3, <1>4, <1>5, <1>6, <1>7, <1>8, StepKinds

\* A place stays what it is while elements begin and end above it.
LEMMA PlaceKept ==
  ASSUME Typed, Grows, NEW k \in DOMAIN open, PlacedAt(k), \A j \in 1 .. k : open'[j] = open[j]
  PROVE  PlacedAt(k)'
<1>1. k \in Nat \ {0}
  <2>1. DOMAIN open = 1 .. Len(open) /\ Len(open) \in Nat
    BY LenProperties DEF Typed
  <2> QED
    BY <2>1
<1>2. open'[k] = open[k]
  BY <1>1
<1>3. ASSUME NEW c, Enclosed(k, c) PROVE Enclosed(k, c)'
  <2>1. PICK j \in 1 .. k - 1 :
          /\ open[j] = [name |-> "rtp_cluster", place |-> <<c>>]
          /\ \A i \in j + 1 .. k - 1 : open[i].name # "rtp_cluster"
    BY <1>3 DEF Enclosed
  <2>2. \A i \in 1 .. k - 1 : open'[i] = open[i]
    BY <1>1
  <2>3. \A i \in j + 1 .. k - 1 : i \in 1 .. k - 1
    BY <1>1
  <2> QED
    BY <2>1, <2>2, <2>3 DEF Enclosed
<1> QED
  BY <1>2, <1>3 DEF PlacedAt, Grows

\* rtp_cluster is the place of a cluster.
LEMMA CurrentCluster ==
  ASSUME Typed, Pointing, Placed, rtp_cluster # <<>>
  PROVE  \E c \in DOMAIN config : rtp_cluster = <<c>>
<1>1. PICK j \in DOMAIN open : open[j] = [name |-> "rtp_cluster", place |-> rtp_cluster]
  BY DEF Pointing, LastOf
<1>2. open[j].name = "rtp_cluster" /\ open[j].place = rtp_cluster
  BY <1>1
<1> QED
  BY <1>2 DEF Placed, PlacedAt

\* The element that begins is inside of the cluster rtp_cluster is at.
LEMMA InsideOfCurrent ==
  ASSUME Typed, Pointing, NEW c, rtp_cluster = <<c>>, NEW e, NEW place, Pushed(e, place),
         NEW m, m = Len(open) + 1
  PROVE  Enclosed(m, c)'
<1>1. PICK j \in DOMAIN open :
        /\ open[j] = [name |-> "rtp_cluster", place |-> rtp_cluster]
        /\ \A i \in DOMAIN open : i > j => open[i].name # "rtp_cluster"
  BY DEF Pointing, LastOf
<1>2. /\ Len(open) \in Nat /\ DOMAIN open = 1 .. Len(open)
      /\ \A k \in 1 .. Len(open) : open'[k] = open[k]
  BY PushFacts, Zenon
<1>3. j \in 1 .. m - 1 /\ \A i \in j + 1 .. m - 1 : i \in DOMAIN open /\ i > j
  BY <1>1, <1>2
<1>4. open'[j] = [name |-> "rtp_cluster", place |-> <<c>>]
  BY <1>1, <1>2
<1>5. \A i \in j + 1 .. m - 1 : open'[i].name # "rtp_cluster"
  BY <1>1, <1>2, <1>3
<1> QED
  BY <1>3, <1>4, <1>5 DEF Enclosed

LEMMA PlacedStep ==
  ASSUME Typed, Pointing, Placed, Next, config' \in Seq(Cluster), Grows
  PROVE  Placed'
<1>1. ASSUME NEW e, NEW place, Pushed(e, place),
             \A m : m = Len(open) + 1 => PlacedAt(m)'
      PROVE  Placed'
  <2>1. /\ Len(open) \in Nat /\ DOMAIN open = 1 .. Len(open)
        /\ DOMAIN open' = 1 .. Len(open) + 1
        /\ \A k \in 1 .. Len(open) : open'[k] = open[k]
    BY <1>1, PushFacts, Zenon
  <2>2. \A k \in DOMAIN open : PlacedAt(k)'
    <3> TAKE k \in DOMAIN open
    <3>1. \A j \in 1 .. k : open'[j] = open[j]
      BY <2>1
    <3> QED
      BY <3>1, PlaceKept DEF Placed
  <2> QED
    BY <1>1, <2>1, <2>2 DEF Placed
<1>2. ASSUME NEW e, NEW place, Pushed(e, place), e \notin Sections
      PROVE  Placed'
  <2>1. open'[Len(open) + 1].name = e
    BY <1>2, PushFacts, Zenon
  <2>2. ASSUME NEW m, m = Len(open) + 1 PROVE PlacedAt(m)'
    BY <1>2, <2>1, <2>2 DEF PlacedAt, Sections
  <2> QED
    BY <1>1, <1>2, <2>2
<1>3. CASE BeginCluster /\ SectionBegins("rtp_cluster", rtp_cluster')
  <2>1. /\ open'[Len(open) + 1].name = "rtp_cluster"
        /\ open'[Len(open) + 1].place = rtp_cluster'
    BY <1>3, PushFacts, Zenon DEF SectionBegins
  <2>2. rtp_cluster' = <<Len(config')>> /\ Len(config') \in DOMAIN config'
    BY <1>3, BeginClusterConfig DEF BeginCluster
  <2>3. ASSUME NEW m, m = Len(open) + 1 PROVE PlacedAt(m)'
    BY <2>1, <2>2, <2>3 DEF PlacedAt
  <2> QED
    BY <1>1, <1>3, <2>3 DEF SectionBegins
<1>4. CASE BeginProxy /\ SectionBegins("rtpproxy", rtpproxy')
  <2>1. /\ open'[Len(open) + 1].name = "rtpproxy"
        /\ open'[Len(open) + 1].place = rtpproxy'
    BY <1>4, PushFacts, Zenon DEF SectionBegins
  <2>2. PICK c \in DOMAIN config : rtp_cluster = <<c>>
    BY <1>4, CurrentCluster DEF BeginProxy
  <2>3. rtpproxy' = <<c, Len(config'[c].proxies)>>
    BY <1>4, <2>2 DEF BeginProxy
  <2>4. c \in DOMAIN config' /\ Len(config'[c].proxies) \in DOMAIN config'[c].proxies
    <3> DEFINE r == [config[rtp_cluster[1]] EXCEPT !.proxies = Append(@, NewRtpProxy)]
    <3>1. /\ Becomes(rtp_cluster[1], r) /\ NewRtpProxy \in Proxy
          /\ config[rtp_cluster[1]].proxies \in Seq(Proxy)
          /\ r.proxies = Append(config[rtp_cluster[1]].proxies, NewRtpProxy)
      BY <1>4, BeginProxyConfig, Zenon
    <3>2. /\ c \in DOMAIN config' /\ config[c].proxies \in Seq(Proxy)
          /\ config'[c].proxies = Append(config[c].proxies, NewRtpProxy)
      BY <2>2, <3>1 DEF Becomes
    <3> QED
      BY <3>1, <3>2, Appended
  <2>5. ASSUME NEW m, m = Len(open) + 1 PROVE PlacedAt(m)'
    <3>1. Enclosed(m, c)'
      BY <1>4, <2>2, <2>5, InsideOfCurrent DEF SectionBegins
    <3> QED
      BY <2>1, <2>3, <2>4, <2>5, <3>1 DEF PlacedAt
  <2> QED
    BY <1>1, <1>4, <2>5 DEF SectionBegins
<1>5. CASE BeginNotify /\ SectionBegins("disconnect_notify", dnconfig')
  <2>1. /\ open'[Len(open) + 1].name = "disconnect_notify"
        /\ open'[Len(open) + 1].place = dnconfig'
    BY <1>5, PushFacts, Zenon DEF SectionBegins
  <2>2. PICK c \in DOMAIN config : rtp_cluster = <<c>>
    BY <1>5, CurrentCluster DEF BeginNotify
  <2>3. dnconfig' = <<c>>
    BY <1>5, <2>2 DEF BeginNotify
  <2>4. c \in DOMAIN config' /\ config'[c].notify # <<>>
    <3> DEFINE r == [config[rtp_cluster[1]] EXCEPT !.notify = <<NewDisconnectNotify>>]
    <3>1. Becomes(rtp_cluster[1], r) /\ r.notify # <<>>
      BY <1>5, BeginNotifyConfig, Zenon
    <3> HIDE DEF r
    <3> QED
      BY <2>2, <3>1 DEF Becomes
  <2>5. ASSUME NEW m, m = Len(open) + 1 PROVE PlacedAt(m)'
    <3>1. Enclosed(m, c)'
      BY <1>5, <2>2, <2>5, InsideOfCurrent DEF SectionBegins
    <3> QED
      BY <2>1, <2>3, <2>4, <2>5, <3>1 DEF PlacedAt
  <2> QED
    BY <1>1, <1>5, <2>5 DEF SectionBegins
<1>6. CASE EndElement
  <2>1. /\ Len(open) \in Nat \ {0} /\ DOMAIN open = 1 .. Len(open)
        /\ DOMAIN open' = 1 .. Len(open) - 1
        /\ \A k \in 1 .. Len(open) - 1 : open'[k] = open[k]
    BY <1>6, PopFacts, Zenon
  <2>2. \A k \in DOMAIN open' : k \in DOMAIN open /\ \A j \in 1 .. k : open'[j] = open[j]
    BY <2>1
  <2> QED
    BY <2>2, PlaceKept DEF Placed
<1>7. CASE Still
  BY <1>7, PlaceKept DEF Still, Placed
<1> QED
  <2>1. "rtp_cluster_config" \notin Sections
    BY DEF Sections
  <2> QED
    BY <1>2, <1>3, <1>4, <1>5, <1>6, <1>7, <2>1, StepKinds DEF OtherBegins

LEMMA OrderlyStep ==
  ASSUME Typed, Rooted, Orderly, Next, config' \in Seq(Cluster)
  PROVE  Orderly'
<1> SUFFICES ASSUME ~ odd'
             PROVE  \A k \in DOMAIN open' :
                      /\ open'[k].name = "rtp_cluster" => k = 2 /\ rtp_cluster' # <<>>
                      /\ open'[k].name = "rtpproxy" => k = 3 /\ rtpproxy' # <<>>
                      /\ open'[k].name = "disconnect_notify" => k = 3 /\ dnconfig' # <<>>
  BY DEF Orderly
<1> DEFINE Fine(k) ==
      /\ open[k].name = "rtp_cluster" => k = 2 /\ rtp_cluster # <<>>
      /\ open[k].name = "rtpproxy" => k = 3 /\ rtpproxy # <<>>
      /\ open[k].name = "disconnect_notify" => k = 3 /\ dnconfig # <<>>
\* What begins is where it belongs, and one level deeper.
<1>1. ASSUME NEW e, NEW place, Pushed(e, place)
      PROVE  /\ ~ odd /\ Len(open) \in Nat /\ DOMAIN open = 1 .. Len(open)
             /\ DOMAIN open' = 1 .. Len(open) + 1
             /\ \A k \in 1 .. Len(open) : open'[k] = open[k] /\ Fine(k)
             /\ open'[Len(open) + 1].name = e
             /\ e = "rtp_cluster" => Len(open) = 1
             /\ e \in {"rtpproxy", "disconnect_notify"} => Len(open) = 2
  <2>1. /\ Len(open) \in Nat /\ DOMAIN open = 1 .. Len(open)
        /\ DOMAIN open' = 1 .. Len(open) + 1
        /\ \A k \in 1 .. Len(open) : open'[k] = open[k]
        /\ open'[Len(open) + 1].name = e
    BY <1>1, PushFacts, Zenon
  <2>2. ~ odd /\ (e \in Sections => Parent # "unknown")
    BY <1>1 DEF Pushed, Misplaced
  <2>3. \A k \in 1 .. Len(open) : Fine(k)
    BY <2>1, <2>2 DEF Orderly
  <2>4. e \in Sections => /\ Len(open) \in 1 .. Len(open) /\ Parent = open[Len(open)].name
                          /\ e \in Children(Parent)
    BY <1>1, BeginsBelow DEF Sections
  <2>5. e = "rtp_cluster" => Parent = "rtp_cluster_config"
    BY <2>2, <2>4 DEF Children, Sections, ClusterFields, ProxyFields, NotifyFields
  <2>6. e \in {"rtpproxy", "disconnect_notify"} => Parent = "rtp_cluster"
    BY <2>2, <2>4 DEF Children, Sections, ClusterFields, ProxyFields, NotifyFields
  <2>7. e = "rtp_cluster" => Len(open) = 1
    BY <2>1, <2>4, <2>5 DEF Rooted, Sections
  <2>8. e \in {"rtpproxy", "disconnect_notify"} => Len(open) = 2
    BY <2>3, <2>4, <2>6 DEF Sections
  <2> QED
    BY <2>1, <2>2, <2>3, <2>7, <2>8
<1>2. CASE BeginConfig /\ Pushed("rtp_cluster_config", <<>>)
  BY <1>1, <1>2 DEF BeginConfig, pointers
<1>3. CASE BeginCluster /\ SectionBegins("rtp_cluster", rtp_cluster')
  <2>1. rtp_cluster' # <<>> /\ UNCHANGED <<rtpproxy, dnconfig>>
    BY <1>3 DEF BeginCluster
  <2>2. Pushed("rtp_cluster", rtp_cluster')
    BY <1>3 DEF SectionBegins
  <2>3. /\ Len(open) = 1 /\ DOMAIN open' = 1 .. Len(open) + 1
        /\ \A k \in 1 .. Len(open) : open'[k] = open[k] /\ Fine(k)
        /\ open'[Len(open) + 1].name = "rtp_cluster"
    BY <1>1, <2>2
  <2> QED
    BY <2>1, <2>2, <2>3
<1>4. CASE BeginProxy /\ SectionBegins("rtpproxy", rtpproxy')
  <2>1. rtpproxy' # <<>> /\ UNCHANGED <<rtp_cluster, dnconfig>>
    BY <1>4 DEF BeginProxy
  <2>2. Pushed("rtpproxy", rtpproxy')
    BY <1>4 DEF SectionBegins
  <2>3. /\ Len(open) = 2 /\ DOMAIN open' = 1 .. Len(open) + 1
        /\ \A k \in 1 .. Len(open) : open'[k] = open[k] /\ Fine(k)
        /\ open'[Len(open) + 1].name = "rtpproxy"
    BY <1>1, <2>2
  <2> QED
    BY <2>1, <2>2, <2>3
<1>5. CASE BeginNotify /\ SectionBegins("disconnect_notify", dnconfig')
  <2>1. dnconfig' # <<>> /\ UNCHANGED <<rtp_cluster, rtpproxy>>
    BY <1>5 DEF BeginNotify
  <2>2. Pushed("disconnect_notify", dnconfig')
    BY <1>5 DEF SectionBegins
  <2>3. /\ Len(open) = 2 /\ DOMAIN open' = 1 .. Len(open) + 1
        /\ \A k \in 1 .. Len(open) : open'[k] = open[k] /\ Fine(k)
        /\ open'[Len(open) + 1].name = "disconnect_notify"
    BY <1>1, <2>2
  <2> QED
    BY <2>1, <2>2, <2>3
<1>6. ASSUME NEW e \in Elements, OtherBegins(e), NEW k \in DOMAIN open'
      PROVE  Fine(k)'
  BY <1>1, <1>6 DEF OtherBegins, pointers, Sections
<1>7. CASE EndElement
  <2>1. /\ Len(open) \in Nat \ {0} /\ DOMAIN open = 1 .. Len(open)
        /\ DOMAIN open' = 1 .. Len(open) - 1
        /\ \A k \in 1 .. Len(open) - 1 : open'[k] = open[k]
        /\ Parent = open[Len(open)].name
    BY <1>7, PopFacts, Zenon
  <2>2. ~ odd
    BY <1>7 DEF EndElement
  <2>3. \A k \in 1 .. Len(open) : Fine(k)
    BY <2>1, <2>2 DEF Orderly
  <2>4. /\ Parent # "rtp_cluster" => rtp_cluster' = rtp_cluster
        /\ Parent # "rtpproxy" => rtpproxy' = rtpproxy
        /\ Parent # "disconnect_notify" => dnconfig' = dnconfig
    BY <1>7 DEF EndElement, pointers, Sections
  <2>5. \A k \in 1 .. Len(open) - 1 :
          /\ open[k].name = "rtp_cluster" => Parent # "rtp_cluster"
          /\ open[k].name = "rtpproxy" => Parent \notin {"rtpproxy", "disconnect_notify"}
          /\ open[k].name = "disconnect_notify" => Parent \notin {"rtpproxy", "disconnect_notify"}
    BY <2>1, <2>3
  <2> QED
    BY <2>1, <2>3, <2>4, <2>5
<1>8. CASE Still
  <2>1. ~ odd
    BY <1>8 DEF Still
  <2> QED
    BY <1>8, <2>1 DEF Still, Orderly, pointers
<1> QED
  BY <1>2, <1>3, <1>4, <1>5, <1>6, <1>7, <1>8, StepKinds

-----------------------------------------------------------------------------
(* Where the handler takes a text to be.                                   *)

\* If the handler takes a kind of section for the innermost one, it is, and
\* the last of its kind.
LEMMA Innermost ==
  ASSUME Typed, Rooted, InStep, ctx # <<>>, NEW name \in Sections, Last(ctx) = CtxName(name)
  PROVE  \E k \in DOMAIN open :
           /\ open[k].name = name
           /\ \A j \in DOMAIN open : j > k => open[j].name \notin Sections
<1>1. Last(ctx) # "rtp_cluster_config"
  BY DEF CtxName, Sections
<1>2. PICK k \in DOMAIN open :
        /\ open[k].name \in Sections /\ Last(ctx) = CtxName(open[k].name)
        /\ \A j \in DOMAIN open : j > k => open[j].name \notin Sections
  BY <1>1, LastOfStack
<1>3. open[k].name = name
  BY <1>2 DEF CtxName, Sections
<1> QED
  BY <1>2, <1>3

LEMMA InnermostIs ==
  ASSUME Typed, Rooted, InStep, ctx # <<>>, NEW name \in Sections, Last(ctx) = CtxName(name),
         NEW place, LastOf(open, [name |-> name, place |-> place])
  PROVE  \E k \in DOMAIN open :
           /\ open[k] = [name |-> name, place |-> place]
           /\ \A j \in DOMAIN open : j > k => open[j].name \notin Sections
<1>1. PICK k \in DOMAIN open :
        /\ open[k].name = name
        /\ \A j \in DOMAIN open : j > k => open[j].name \notin Sections
  BY Innermost
<1>2. PICK i \in DOMAIN open :
        /\ open[i] = [name |-> name, place |-> place]
        /\ \A j \in DOMAIN open : j > i => open[j].name # name
  BY DEF LastOf
<1>3. open[i].name = name
  BY <1>2
<1>4. i \in Nat /\ k \in Nat
  <2>1. DOMAIN open = 1 .. Len(open) /\ Len(open) \in Nat
    BY LenProperties DEF Typed
  <2> QED
    BY <2>1
<1>5. i = k
  BY <1>1, <1>2, <1>3, <1>4
<1> QED
  BY <1>1, <1>2, <1>5

\* A member whose section is the innermost one is of the cluster rtp_cluster
\* is at.
LEMMA ProxyInCurrent ==
  ASSUME Typed, Rooted, InStep, Pointing, Placed,
         ctx # <<>>, Last(ctx) = "rtpproxy", rtpproxy # <<>>, rtp_cluster # <<>>
  PROVE  rtp_cluster[1] = rtpproxy[1]
<1>1. PICK k \in DOMAIN open :
        /\ open[k] = [name |-> "rtpproxy", place |-> rtpproxy]
        /\ \A j \in DOMAIN open : j > k => open[j].name \notin Sections
  <2>1. "rtpproxy" \in Sections /\ CtxName("rtpproxy") = "rtpproxy"
    BY DEF Sections, CtxName
  <2> QED
    BY <2>1, InnermostIs DEF Pointing
<1>2. open[k].name = "rtpproxy" /\ open[k].place = rtpproxy
  BY <1>1
<1>3. PICK c, p : rtpproxy = <<c, p>> /\ Enclosed(k, c)
  BY <1>2 DEF Placed, PlacedAt
<1>4. DOMAIN open = 1 .. Len(open) /\ Len(open) \in Nat
  BY LenProperties DEF Typed
<1>5. PICK j \in 1 .. k - 1 :
        /\ open[j] = [name |-> "rtp_cluster", place |-> <<c>>]
        /\ \A i \in j + 1 .. k - 1 : open[i].name # "rtp_cluster"
  BY <1>3 DEF Enclosed
<1>6. PICK l \in DOMAIN open :
        /\ open[l] = [name |-> "rtp_cluster", place |-> rtp_cluster]
        /\ \A i \in DOMAIN open : i > l => open[i].name # "rtp_cluster"
  BY DEF Pointing, LastOf
<1>7. l = j
  <2>1. open[j].name = "rtp_cluster" /\ open[l].name = "rtp_cluster" /\ j \in DOMAIN open
    BY <1>4, <1>5, <1>6
  <2>2. ~ l < j
    BY <1>4, <1>6, <2>1
  <2>3. ~ l > k
    BY <1>1, <2>1 DEF Sections
  <2>4. l # k
    BY <1>2, <2>1
  <2>5. l \notin j + 1 .. k - 1
    BY <1>5, <2>1
  <2> QED
    BY <1>4, <1>5, <2>2, <2>3, <2>4, <2>5
<1>8. rtp_cluster = <<c>>
  BY <1>5, <1>6, <1>7
<1> QED
  BY <1>3, <1>8

-----------------------------------------------------------------------------
(* The properties.                                                         *)

LEMMA OrderlyFilesStep ==
  ASSUME Typed, Rooted, InStep, Pointing, Placed, Orderly, OrderlyFilesAreRead, Next
  PROVE  OrderlyFilesAreRead'
<1> SUFFICES ASSUME outcome' = "panicked", begun', ~ odd'
             PROVE  FALSE
  BY DEF OrderlyFilesAreRead
<1>1. outcome = "reading" /\ (BeginNowhere \/ TextNowhere)
  BY DEF Next, BeginConfig, BeginCluster, BeginProxy, BeginNotify, BeginLimit, BeginOther,
         Begin, MayBegin, EndElement, SetCluster, SetProxy, SetNotify, Text, Return,
         BeginNowhere, TextNowhere
<1>2. begun /\ ~ odd
  <2>1. CASE BeginNowhere
    <3>1. PICK e : Misplaced(e)
      BY <2>1 DEF BeginNowhere
    <3>2. ~ odd
      BY <3>1 DEF Misplaced
    <3>3. begun' = begun
      BY <2>1 DEF BeginNowhere
    <3> QED
      BY <3>2, <3>3
  <2>2. CASE TextNowhere
    BY <2>2 DEF TextNowhere, doc
  <2> QED
    BY <1>1, <2>1, <2>2
<1>3. ctx # <<>>
  BY <1>2 DEF Rooted
<1>4. \A k \in DOMAIN open :
        /\ open[k].name = "rtp_cluster" => rtp_cluster # <<>>
        /\ open[k].name = "rtpproxy" => rtpproxy # <<>>
        /\ open[k].name = "disconnect_notify" => dnconfig # <<>>
  BY <1>2 DEF Orderly
<1>5. ASSUME NEW name \in Sections, Last(ctx) = CtxName(name)
      PROVE  /\ name = "rtp_cluster" => rtp_cluster # <<>>
             /\ name = "rtpproxy" => rtpproxy # <<>> /\ rtp_cluster # <<>>
             /\ name = "disconnect_notify" => dnconfig # <<>>
  <2>1. PICK k \in DOMAIN open : open[k].name = name
    BY <1>3, <1>5, Innermost
  <2>2. name = "rtpproxy" => \E j \in DOMAIN open : open[j].name = "rtp_cluster"
    <3> SUFFICES ASSUME name = "rtpproxy" PROVE \E j \in DOMAIN open : open[j].name = "rtp_cluster"
      OBVIOUS
    <3>1. PICK c : Enclosed(k, c)
      BY <2>1 DEF Placed, PlacedAt
    <3>2. PICK j \in 1 .. k - 1 : open[j] = [name |-> "rtp_cluster", place |-> <<c>>]
      BY <3>1 DEF Enclosed
    <3>3. DOMAIN open = 1 .. Len(open) /\ Len(open) \in Nat
      BY LenProperties DEF Typed
    <3>4. j \in DOMAIN open /\ open[j].name = "rtp_cluster"
      BY <3>2, <3>3
    <3> QED
      BY <3>4
  <2> QED
    BY <1>4, <2>1, <2>2
<1>6. CASE BeginNowhere
  <2>1. PICK e \in {"rtpproxy", "disconnect_notify", "capacity_limit"} :
          /\ MayBegin(e) /\ Misplaced(e)
          /\ e = "capacity_limit" => Last(ctx) = "rtp_cluster"
    BY <1>6 DEF BeginNowhere
  <2>2. rtp_cluster = <<>>
    BY <1>6 DEF BeginNowhere
  <2>3. CASE e = "capacity_limit"
    BY <1>5, <2>1, <2>2, <2>3 DEF Sections, CtxName
  <2>4. CASE e # "capacity_limit"
    <3>1. open # <<>> /\ e \in Children(Parent) /\ Parent # "unknown"
      BY <1>2, <2>1, <2>4 DEF MayBegin, Misplaced, Sections
    <3>2. Parent = "rtp_cluster"
      BY <2>1, <2>4, <3>1 DEF Children, Sections, ClusterFields, ProxyFields, NotifyFields
    <3>3. Len(open) \in DOMAIN open /\ open[Len(open)].name = "rtp_cluster"
      <4>1. Len(open) \in DOMAIN open
        <5>1. Len(open) \in Nat \ {0} /\ DOMAIN open = 1 .. Len(open)
          BY <3>1, Fronted DEF Typed
        <5> QED
          BY <5>1
      <4> QED
        BY <3>1, <3>2, <4>1 DEF Parent, Last
    <3> QED
      BY <1>4, <2>2, <3>3
  <2> QED
    BY <2>3, <2>4
<1>7. CASE TextNowhere
  <2>1. /\ "rtp_cluster" \in Sections /\ CtxName("rtp_cluster") = "rtp_cluster"
        /\ "rtpproxy" \in Sections /\ CtxName("rtpproxy") = "rtpproxy"
        /\ "disconnect_notify" \in Sections /\ CtxName("disconnect_notify") = "dnconfig"
    BY DEF Sections, CtxName
  <2> QED
    BY <1>3, <1>5, <1>7, <2>1 DEF TextNowhere, In
<1> QED
  BY <1>1, <1>6, <1>7

Distinct(records) ==
  \A j, k \in DOMAIN records :
    j # k /\ records[j].name # Unnamed => records[j].name # records[k].name

LEMMA NamesAre ==
  NamesDistinct <=> Distinct(config) /\ \A c \in DOMAIN config : Distinct(config[c].proxies)
BY DEF NamesDistinct, Distinct

LEMMA NamesAreThen ==
  NamesDistinct' <=> Distinct(config') /\ \A c \in DOMAIN config' : Distinct(config'[c].proxies)
BY DEF NamesDistinct, Distinct

\* A record that is added has no name yet.
LEMMA DistinctAppended ==
  ASSUME NEW S, NEW s \in Seq(S), NEW r \in S, Distinct(s), r.name = Unnamed
  PROVE  Distinct(Append(s, r))
<1> DEFINE t == Append(s, r)
<1>1. /\ Len(s) \in Nat /\ DOMAIN s = 1 .. Len(s) /\ DOMAIN t = 1 .. Len(s) + 1
      /\ \A k \in 1 .. Len(s) : t[k] = s[k]
      /\ t[Len(s) + 1] = r
  BY Appended
<1> HIDE DEF t
<1>2. ASSUME NEW j \in DOMAIN t, NEW k \in DOMAIN t, j # k, t[j].name # Unnamed
      PROVE  t[j].name # t[k].name
  <2>1. j # Len(s) + 1
    BY <1>1, <1>2
  <2>2. j \in DOMAIN s /\ t[j] = s[j]
    BY <1>1, <2>1
  <2>3. CASE k = Len(s) + 1
    BY <1>1, <1>2, <2>3
  <2>4. CASE k # Len(s) + 1
    <3>1. k \in DOMAIN s /\ t[k] = s[k]
      BY <1>1, <2>4
    <3> QED
      BY <1>2, <2>2, <3>1 DEF Distinct
  <2> QED
    BY <2>3, <2>4
<1> QED
  BY <1>2 DEF Distinct, t

\* A record that changes keeps its name or gets one that no other has.
LEMMA DistinctReplaced ==
  ASSUME NEW s, NEW t, NEW c \in DOMAIN s, DOMAIN t = DOMAIN s,
         \A k \in DOMAIN s : k # c => t[k] = s[k],
         Distinct(s),
         t[c].name = s[c].name \/ ~ Taken(s, t[c].name)
  PROVE  Distinct(t)
<1> SUFFICES ASSUME NEW j \in DOMAIN s, NEW k \in DOMAIN s, j # k, t[j].name # Unnamed
             PROVE  t[j].name # t[k].name
  BY DEF Distinct
<1>1. CASE t[c].name = s[c].name
  BY <1>1 DEF Distinct
<1>2. CASE ~ Taken(s, t[c].name)
  BY <1>2 DEF Distinct, Taken
<1> QED
  BY <1>1, <1>2

\* Cluster c changes otherwise than in its name, or gets one no other has, and
\* the names of its members differ.
LEMMA NamesStayDistinct ==
  ASSUME NamesDistinct, NEW c, NEW r, Becomes(c, r),
         r.name = config[c].name \/ ~ Taken(config, r.name),
         Distinct(r.proxies)
  PROVE  NamesDistinct'
<1>1. Distinct(config')
  BY NamesAre, DistinctReplaced DEF Becomes
<1>2. \A k \in DOMAIN config' : Distinct(config'[k].proxies)
  BY NamesAre DEF Becomes
<1> QED
  BY <1>1, <1>2, NamesAreThen

LEMMA NamesStep ==
  ASSUME Typed, Rooted, InStep, Pointing, Placed, NamesDistinct, Next
  PROVE  NamesDistinct'
<1>1. CASE UNCHANGED config
  BY <1>1 DEF NamesDistinct
<1>2. CASE BeginCluster
  <2>1. NewRtpCluster \in Cluster /\ config \in Seq(Cluster)
    <3>1. <<>> \in Seq(Proxy)
      BY EmptySeq
    <3> QED
      BY <3>1 DEF NewRtpCluster, Cluster, Field, Typed, TypeOK
  <2>2. Distinct(config')
    <3>1. NewRtpCluster.name = Unnamed /\ config' = Append(config, NewRtpCluster)
      BY <1>2 DEF NewRtpCluster, BeginCluster
    <3> QED
      BY <2>1, <3>1, DistinctAppended, NamesAre
  <2>3. Distinct(NewRtpCluster.proxies)
    BY DEF NewRtpCluster, Distinct
  <2>4. \A c \in DOMAIN config' : Distinct(config'[c].proxies)
    <3> TAKE c \in DOMAIN config'
    <3>1. CASE c \in DOMAIN config
      BY <1>2, <3>1, BeginClusterConfig, NamesAre
    <3>2. CASE c \notin DOMAIN config
      <4>1. config'[c] = NewRtpCluster
        BY <1>2, <3>2, BeginClusterConfig
      <4> QED
        BY <2>3, <4>1
    <3> QED
      BY <3>1, <3>2
  <2> QED
    BY <2>2, <2>4, NamesAreThen
<1>3. CASE BeginProxy
  <2> DEFINE c == rtp_cluster[1]
             r == [config[c] EXCEPT !.proxies = Append(@, NewRtpProxy)]
  <2>1. /\ Becomes(c, r) /\ NewRtpProxy \in Proxy /\ config[c].proxies \in Seq(Proxy)
        /\ r.proxies = Append(config[c].proxies, NewRtpProxy) /\ r.name = config[c].name
    BY <1>3, BeginProxyConfig, Zenon
  <2> HIDE DEF r, c
  <2>2. NewRtpProxy.name = Unnamed /\ Distinct(config[c].proxies)
    BY <2>1, NamesAre DEF NewRtpProxy, Becomes
  <2>3. Distinct(r.proxies)
    BY <2>1, <2>2, DistinctAppended
  <2> QED
    BY <2>1, <2>3, NamesStayDistinct
<1>4. CASE BeginNotify
  <2> DEFINE c == rtp_cluster[1]
             r == [config[c] EXCEPT !.notify = <<NewDisconnectNotify>>]
  <2>1. Becomes(c, r) /\ r.proxies = config[c].proxies /\ r.name = config[c].name
    BY <1>4, BeginNotifyConfig, Zenon
  <2> HIDE DEF r, c
  <2>2. Distinct(r.proxies)
    BY <2>1, NamesAre DEF Becomes
  <2> QED
    BY <2>1, <2>2, NamesStayDistinct
<1>5. CASE BeginLimit /\ config' # config
  <2>1. PICK r \in Cluster :
          /\ Becomes(rtp_cluster[1], r)
          /\ r.proxies = config[rtp_cluster[1]].proxies
          /\ r.name = config[rtp_cluster[1]].name
    BY <1>5, BeginLimitConfig, Zenon
  <2>2. Distinct(r.proxies)
    BY <2>1, NamesAre DEF Becomes
  <2> QED
    BY <2>1, <2>2, NamesStayDistinct
<1>6. ASSUME NEW t \in Texts, SetCluster(t), config' # config
      PROVE  NamesDistinct'
  <2> DEFINE c == rtp_cluster[1]
             r == Set(config[c], t)
  <2>1. /\ Becomes(c, r) /\ r.proxies = config[c].proxies
        /\ \A f \in ClusterFields : r[f] = IF f = element THEN t ELSE config[c][f]
        /\ element = "name" => ~ Taken(config, t)
    BY <1>6, SetClusterConfig, Zenon
  <2> HIDE DEF r, c
  <2>2. r.name = config[c].name \/ ~ Taken(config, r.name)
    <3>1. r["name"] = IF element = "name" THEN t ELSE config[c]["name"]
      BY <2>1 DEF ClusterFields
    <3> QED
      BY <2>1, <3>1
  <2>3. Distinct(r.proxies)
    BY <2>1, NamesAre DEF Becomes
  <2> QED
    BY <2>1, <2>2, <2>3, NamesStayDistinct
<1>7. ASSUME NEW t \in Texts, SetProxy(t), config' # config
      PROVE  NamesDistinct'
  <2> DEFINE c == rtpproxy[1]
             p == rtpproxy[2]
             old == config[c].proxies
             r == [config[c] EXCEPT !.proxies = [old EXCEPT ![p] = Set(old[p], t)]]
  <2>1. /\ Becomes(c, r) /\ p \in DOMAIN old /\ r.name = config[c].name
        /\ DOMAIN r.proxies = DOMAIN old
        /\ \A k \in DOMAIN old : k # p => r.proxies[k] = old[k]
        /\ \A f \in ProxyFields : f # element => r.proxies[p][f] = old[p][f]
        /\ element = "name" =>
             /\ r.proxies[p].name = t
             /\ rtp_cluster # <<>> /\ ~ Taken(config[rtp_cluster[1]].proxies, t)
    BY <1>7, SetProxyConfig, Zenon
  <2> HIDE DEF r
  <2>2. element = "name" => ~ Taken(old, t)
    <3>1. ctx # <<>> /\ Last(ctx) = "rtpproxy" /\ rtpproxy # <<>>
      BY <1>7 DEF SetProxy, In
    <3> QED
      BY <2>1, <3>1, ProxyInCurrent
  <2> HIDE DEF old, c, p
  <2>3. r.proxies[p].name = old[p].name \/ ~ Taken(old, r.proxies[p].name)
    <3>1. CASE element = "name"
      BY <2>1, <2>2, <3>1
    <3>2. CASE element # "name"
      <4>1. r.proxies[p]["name"] = old[p]["name"]
        BY <2>1, <3>2 DEF ProxyFields
      <4> QED
        BY <4>1
    <3> QED
      BY <3>1, <3>2
  <2>4. Distinct(old)
    BY <2>1, NamesAre DEF Becomes, old
  <2>5. Distinct(r.proxies)
    BY <2>1, <2>3, <2>4, DistinctReplaced
  <2> QED
    BY <2>1, <2>5, NamesStayDistinct
<1>8. ASSUME NEW t \in Texts, SetNotify(t)
      PROVE  NamesDistinct'
  <2>1. config[dnconfig[1]].notify # <<>>
    BY <1>8, NotifyIsThere DEF SetNotify
  <2>2. PICK r \in Cluster :
          /\ Becomes(dnconfig[1], r)
          /\ r.name = config[dnconfig[1]].name
          /\ r.proxies = config[dnconfig[1]].proxies
    BY <1>8, <2>1, SetNotifyConfig, Zenon
  <2>3. Distinct(r.proxies)
    BY <2>2, NamesAre DEF Becomes
  <2> QED
    BY <2>2, <2>3, NamesStayDistinct
<1> QED
  <2>1. CASE BeginConfig \/ BeginOther \/ BeginNowhere \/ EndElement \/ TextNowhere \/ Return
    BY <1>1, <2>1 DEF BeginConfig, BeginOther, BeginNowhere, EndElement, TextNowhere, Return
  <2> QED
    BY <1>1, <1>2, <1>3, <1>4, <1>5, <1>6, <1>7, <1>8, <2>1 DEF Next

-----------------------------------------------------------------------------
(* Where records change.                                                   *)

LEMMA SelectLast ==
  ASSUME NEW s, NEW k \in 1 .. Len(s), Len(s) \in Nat, s[k].name \in Sections,
         \A j \in 1 .. Len(s) : j > k => s[j].name \notin Sections
  PROVE  SelectLastInSeq(s, LAMBDA e : e.name \in Sections) = k
<1> DEFINE I == {i \in 1 .. Len(s) : s[i].name \in Sections}
<1>1. k \in I /\ \A i \in I : k >= i /\ i \in Nat
  OBVIOUS
<1>2. Max(I) = k
  BY <1>1 DEF Max
<1>3. I # {}
  BY <1>1
<1> QED
  BY <1>2, <1>3 DEF SelectLastInSeq

LEMMA SectionIs ==
  ASSUME Typed, NEW k \in DOMAIN open, open[k].name \in Sections,
         \A j \in DOMAIN open : j > k => open[j].name \notin Sections
  PROVE  Section = open[k]
<1>1. DOMAIN open = 1 .. Len(open) /\ Len(open) \in Nat
  BY LenProperties DEF Typed
<1>2. SelectLastInSeq(open, LAMBDA e : e.name \in Sections) = k
  BY <1>1, SelectLast
<1>3. k # 0
  BY <1>1
<1> QED
  BY <1>2, <1>3 DEF Section

LEMMA SectionIsThen ==
  ASSUME Len(open') \in Nat, DOMAIN open' = 1 .. Len(open'), NEW k \in DOMAIN open',
         open'[k].name \in Sections,
         \A j \in DOMAIN open' : j > k => open'[j].name \notin Sections
  PROVE  Section' = open'[k]
<1> DEFINE I == {i \in 1 .. Len(open') : open'[i].name \in Sections}
<1>1. k \in I /\ \A i \in I : k >= i /\ i \in Nat
  OBVIOUS
<1>2. I # {} /\ Max(I) = k /\ k # 0
  BY <1>1 DEF Max
<1> QED
  BY <1>2 DEF Section, SelectLastInSeq

\* If the handler stores into a section, the document is in that section.
LEMMA SectionInHand ==
  ASSUME Typed, Rooted, InStep, ctx # <<>>, NEW name \in Sections, Last(ctx) = CtxName(name),
         NEW place, LastOf(open, [name |-> name, place |-> place])
  PROVE  Section = [name |-> name, place |-> place]
<1>1. PICK k \in DOMAIN open :
        /\ open[k] = [name |-> name, place |-> place]
        /\ \A j \in DOMAIN open : j > k => open[j].name \notin Sections
  BY InnermostIs
<1>2. open[k].name = name
  BY <1>1
<1> QED
  BY <1>1, <1>2, SectionIs

InPlace(c) ==
  LET was == config[c]
      is == config'[c]
  IN  /\ \A f \in ClusterFields :
           is[f] # was[f] => Section = [name |-> "rtp_cluster", place |-> <<c>>] /\ Parent = f
      /\ is.soft # was.soft =>
           /\ Section = [name |-> "rtp_cluster", place |-> <<c>>]
           /\ Last(open').name = "capacity_limit"
      /\ is.notify # was.notify =>
           \/ Section'.name = "disconnect_notify" /\ Len(open') > Len(open)
           \/ /\ Section = [name |-> "disconnect_notify", place |-> <<c>>]
              /\ Parent \in NotifyFields
      /\ \A p \in DOMAIN was.proxies : \A f \in ProxyFields :
           is.proxies[p][f] # was.proxies[p][f] =>
             Section = [name |-> "rtpproxy", place |-> <<c, p>>] /\ Parent = f

LEMMA SameInPlace ==
  ASSUME NEW c, config'[c] = config[c]
  PROVE  InPlace(c)
BY DEF InPlace

LEMMA OthersInPlace ==
  ASSUME NEW c, NEW r, Becomes(c, r), InPlace(c)
  PROVE  \A k \in DOMAIN config : InPlace(k)
BY SameInPlace DEF Becomes

LEMMA InPlaceStep ==
  ASSUME Typed, Rooted, InStep, InField, Pointing, Placed, Next, config' \in Seq(Cluster),
         Typed'
  PROVE  \A c \in DOMAIN config : InPlace(c)
<1>0. /\ "rtp_cluster" \in Sections /\ CtxName("rtp_cluster") = "rtp_cluster"
      /\ "rtpproxy" \in Sections /\ CtxName("rtpproxy") = "rtpproxy"
      /\ "disconnect_notify" \in Sections /\ CtxName("disconnect_notify") = "dnconfig"
  BY DEF Sections, CtxName
<1>1. CASE UNCHANGED config
  BY <1>1, SameInPlace
<1>2. CASE BeginCluster
  BY <1>2, BeginClusterConfig, SameInPlace
<1>3. CASE BeginProxy
  <2> DEFINE c == rtp_cluster[1]
             r == [config[c] EXCEPT !.proxies = Append(@, NewRtpProxy)]
             old == config[c].proxies
  <2>1. /\ Becomes(c, r) /\ NewRtpProxy \in Proxy /\ old \in Seq(Proxy)
        /\ r.proxies = Append(old, NewRtpProxy)
        /\ r.name = config[c].name /\ r.address = config[c].address
        /\ r.soft = config[c].soft /\ r.notify = config[c].notify
    BY <1>3, BeginProxyConfig, Zenon
  <2> HIDE DEF r, c
  <2>2. \A p \in DOMAIN old : r.proxies[p] = old[p]
    BY <2>1, Appended
  <2>3. \A f \in ClusterFields : r[f] = config[c][f]
    BY <2>1 DEF ClusterFields
  <2>4. InPlace(c)
    BY <2>1, <2>2, <2>3 DEF InPlace, Becomes
  <2> QED
    BY <2>1, <2>4, OthersInPlace
<1>4. CASE BeginNotify
  <2> DEFINE c == rtp_cluster[1]
             r == [config[c] EXCEPT !.notify = <<NewDisconnectNotify>>]
  <2>1. /\ Becomes(c, r) /\ r.proxies = config[c].proxies /\ r.name = config[c].name
        /\ r.address = config[c].address /\ r.soft = config[c].soft
    BY <1>4, BeginNotifyConfig, Zenon
  <2> HIDE DEF r, c
  <2>2. \A f \in ClusterFields : r[f] = config[c][f]
    BY <2>1 DEF ClusterFields
  <2>3. Pushed("disconnect_notify", dnconfig')
    <3>1. dnconfig' \in Places
      BY DEF Typed
    <3> QED
      BY <1>4, <3>1 DEF BeginNotify, Begin, Pushed, Elements, Sections
  <2>4. Section'.name = "disconnect_notify" /\ Len(open') > Len(open)
    <3>1. /\ Len(open) \in Nat /\ Len(open') = Len(open) + 1
          /\ DOMAIN open' = 1 .. Len(open) + 1
          /\ open'[Len(open) + 1].name = "disconnect_notify"
      BY <2>3, PushFacts, Zenon
    <3>2. Section' = open'[Len(open) + 1]
      BY <1>0, <3>1, SectionIsThen
    <3> QED
      BY <3>1, <3>2
  <2>5. InPlace(c)
    BY <2>1, <2>2, <2>4 DEF InPlace, Becomes
  <2> QED
    BY <2>1, <2>5, OthersInPlace
<1>5. CASE BeginLimit /\ config' # config
  <2>1. Last(ctx) = "rtp_cluster" /\ rtp_cluster # <<>>
    BY <1>5, BeginLimitConfig, Zenon
  <2>2. PICK r \in Cluster :
          /\ Becomes(rtp_cluster[1], r)
          /\ r.proxies = config[rtp_cluster[1]].proxies
          /\ r.name = config[rtp_cluster[1]].name
          /\ r.address = config[rtp_cluster[1]].address
          /\ r.notify = config[rtp_cluster[1]].notify
    BY <1>5, BeginLimitConfig, Zenon
  <2>3. PICK c \in DOMAIN config : rtp_cluster = <<c>>
    BY <2>1, CurrentCluster
  <2>4. Pushed("capacity_limit", <<>>)
    <3>1. <<>> \in Places
      BY EmptySeq DEF Places
    <3> QED
      BY <1>5, <3>1 DEF BeginLimit, Begin, Pushed, Elements
  <2>5. Last(open').name = "capacity_limit"
    <3>1. /\ Len(open') = Len(open) + 1
          /\ open'[Len(open) + 1].name = "capacity_limit"
      BY <2>4, PushFacts, Zenon
    <3> QED
      BY <3>1 DEF Last
  <2>6. Section = [name |-> "rtp_cluster", place |-> <<c>>]
    <3>1. ctx # <<>>
      BY <2>4, BeginsBelow DEF Rooted
    <3> QED
      BY <1>0, <2>1, <2>3, <3>1, SectionInHand DEF Pointing
  <2>7. \A f \in ClusterFields : r[f] = config[c][f]
    BY <2>2, <2>3 DEF ClusterFields
  <2>8. InPlace(c)
    BY <2>2, <2>3, <2>5, <2>6, <2>7 DEF InPlace, Becomes
  <2> QED
    BY <2>2, <2>3, <2>8, OthersInPlace
<1>6. ASSUME NEW t \in Texts, SetCluster(t), config' # config
      PROVE  \A c \in DOMAIN config : InPlace(c)
  <2>1. /\ ctx # <<>> /\ Last(ctx) = "rtp_cluster" /\ rtp_cluster # <<>>
        /\ element \in ClusterFields
    BY <1>6 DEF SetCluster, In
  <2>2. PICK c \in DOMAIN config : rtp_cluster = <<c>>
    BY <2>1, CurrentCluster
  <2>3. Section = [name |-> "rtp_cluster", place |-> <<c>>]
    BY <1>0, <2>1, <2>2, SectionInHand DEF Pointing
  <2>4. Parent = element
    BY <2>1 DEF InField, AllFields, Parent
  <2> DEFINE r == Set(config[c], t)
  <2>5. /\ Becomes(c, r) /\ r.soft = config[c].soft /\ r.notify = config[c].notify
        /\ r.proxies = config[c].proxies
        /\ \A f \in ClusterFields : r[f] = IF f = element THEN t ELSE config[c][f]
    <3>1. rtp_cluster[1] = c
      BY <2>2
    <3> QED
      BY <1>6, <3>1, SetClusterConfig, Zenon
  <2> HIDE DEF r
  <2>6. InPlace(c)
    BY <2>3, <2>4, <2>5 DEF InPlace, Becomes
  <2> QED
    BY <2>5, <2>6, OthersInPlace
<1>7. ASSUME NEW t \in Texts, SetProxy(t), config' # config
      PROVE  \A c \in DOMAIN config : InPlace(c)
  <2>1. /\ ctx # <<>> /\ Last(ctx) = "rtpproxy" /\ rtpproxy # <<>>
        /\ element \in ProxyFields
    BY <1>7 DEF SetProxy, In
  <2>2. PICK c, p : rtpproxy = <<c, p>>
    <3>1. PICK k \in DOMAIN open : open[k] = [name |-> "rtpproxy", place |-> rtpproxy]
      BY <2>1 DEF Pointing, LastOf
    <3>2. open[k].name = "rtpproxy" /\ open[k].place = rtpproxy
      BY <3>1
    <3> QED
      BY <3>2 DEF Placed, PlacedAt
  <2>3. Section = [name |-> "rtpproxy", place |-> <<c, p>>]
    BY <1>0, <2>1, <2>2, SectionInHand DEF Pointing
  <2>4. Parent = element
    BY <2>1 DEF InField, AllFields, Parent
  <2> DEFINE c0 == rtpproxy[1]
             p0 == rtpproxy[2]
             old0 == config[c0].proxies
             r == [config[c0] EXCEPT !.proxies = [old0 EXCEPT ![p0] = Set(old0[p0], t)]]
  <2>5. /\ Becomes(c0, r) /\ p0 \in DOMAIN old0
        /\ r.name = config[c0].name /\ r.address = config[c0].address
        /\ r.soft = config[c0].soft /\ r.notify = config[c0].notify
        /\ \A k \in DOMAIN old0 : k # p0 => r.proxies[k] = old0[k]
        /\ \A f \in ProxyFields : f # element => r.proxies[p0][f] = old0[p0][f]
    BY <1>7, SetProxyConfig, Zenon
  <2>6. c0 = c /\ p0 = p
    BY <2>2
  <2> HIDE DEF r, c0, p0
  <2> DEFINE old == config[c].proxies
  <2>7. /\ Becomes(c, r) /\ p \in DOMAIN old
        /\ r.name = config[c].name /\ r.address = config[c].address
        /\ r.soft = config[c].soft /\ r.notify = config[c].notify
        /\ \A k \in DOMAIN old : k # p => r.proxies[k] = old[k]
        /\ \A f \in ProxyFields : f # element => r.proxies[p][f] = old[p][f]
    BY <2>5, <2>6, Zenon
  <2>8. \A f \in ClusterFields : r[f] = config[c][f]
    BY <2>7 DEF ClusterFields
  <2>9. InPlace(c)
    BY <2>3, <2>4, <2>7, <2>8 DEF InPlace, Becomes
  <2> QED
    BY <2>7, <2>9, OthersInPlace
<1>8. ASSUME NEW t \in Texts, SetNotify(t)
      PROVE  \A c \in DOMAIN config : InPlace(c)
  <2>1. /\ ctx # <<>> /\ Last(ctx) = "dnconfig" /\ dnconfig # <<>>
        /\ element \in NotifyFields
    BY <1>8 DEF SetNotify, In
  <2>2. config[dnconfig[1]].notify # <<>>
    BY <2>1, NotifyIsThere
  <2>3. PICK c : dnconfig = <<c>>
    <3>1. PICK k \in DOMAIN open : open[k] = [name |-> "disconnect_notify", place |-> dnconfig]
      BY <2>1 DEF Pointing, LastOf
    <3>2. open[k].name = "disconnect_notify" /\ open[k].place = dnconfig
      BY <3>1
    <3> QED
      BY <3>2 DEF Placed, PlacedAt
  <2>4. Section = [name |-> "disconnect_notify", place |-> <<c>>]
    BY <1>0, <2>1, <2>3, SectionInHand DEF Pointing
  <2>5. Parent \in NotifyFields
    BY <2>1 DEF InField, AllFields, Parent
  <2>6. PICK r \in Cluster :
          /\ Becomes(c, r)
          /\ r.name = config[c].name /\ r.address = config[c].address
          /\ r.soft = config[c].soft /\ r.proxies = config[c].proxies
    <3>1. dnconfig[1] = c
      BY <2>3
    <3> QED
      BY <1>8, <2>2, <3>1, SetNotifyConfig, Zenon
  <2>7. \A f \in ClusterFields : r[f] = config[c][f]
    BY <2>6 DEF ClusterFields
  <2>8. InPlace(c)
    BY <2>4, <2>5, <2>6, <2>7 DEF InPlace, Becomes
  <2> QED
    BY <2>6, <2>8, OthersInPlace
<1> QED
  <2>1. CASE BeginConfig \/ BeginOther \/ BeginNowhere \/ EndElement \/ TextNowhere \/ Return
    BY <1>1, <2>1 DEF BeginConfig, BeginOther, BeginNowhere, EndElement, TextNowhere, Return
  <2> QED
    BY <1>1, <1>2, <1>3, <1>4, <1>5, <1>6, <1>7, <1>8, <2>1 DEF Next

-----------------------------------------------------------------------------
(* The theorems.                                                           *)

LEMMA Starts ==
  ASSUME Init
  PROVE  IInv
<1>1. /\ <<>> \in Seq([name : Elements, place : Places]) /\ <<>> \in Seq(Stackable)
      /\ <<>> \in Places /\ <<>> \in Seq(Cluster)
  BY EmptySeq DEF Places
<1>2. Typed
  BY <1>1 DEF Init, Typed, TypeOK
<1>3. /\ open = <<>> /\ config = <<>> /\ ctx = <<>> /\ outcome = "reading"
      /\ ~ begun
  BY Zenon DEF Init
<1>4. DOMAIN open = {} /\ DOMAIN config = {}
  BY <1>3
<1>5. Rooted /\ InStep
  BY <1>3, <1>4, Zenon DEF Rooted, InStep
<1>6. InField /\ Pointing
  BY DEF Init, InField, AllFields, ClusterFields, ProxyFields, NotifyFields, Pointing
<1>7. Placed /\ Orderly
  BY <1>4 DEF Placed, Orderly
<1>8. OrderlyFilesAreRead /\ NamesDistinct
  BY <1>3, <1>4, NamesAre DEF OrderlyFilesAreRead, Distinct
<1> QED
  BY <1>2, <1>5, <1>6, <1>7, <1>8 DEF IInv

LEMMA NextKeeps ==
  ASSUME IInv, Next
  PROVE  IInv'
<1>1. config' \in Seq(Cluster) /\ Grows
  BY ConfigStep DEF IInv
<1>2. Typed'
  BY <1>1, TypedStep DEF IInv
<1>3. Rooted' /\ InStep' /\ InField' /\ Pointing'
  BY <1>1, RootedStep, InStepStep, InFieldStep, PointingStep DEF IInv
<1>4. Placed' /\ Orderly'
  BY <1>1, PlacedStep, OrderlyStep DEF IInv
<1>5. OrderlyFilesAreRead' /\ NamesDistinct'
  BY OrderlyFilesStep, NamesStep DEF IInv
<1> QED
  BY <1>2, <1>3, <1>4, <1>5 DEF IInv

LEMMA StillHolds ==
  ASSUME IInv, UNCHANGED vars
  PROVE  IInv'
<1>1. UNCHANGED <<open, begun, odd, element, ctx, rtp_cluster, rtpproxy, dnconfig, config,
                  outcome, size>>
  BY DEF vars, doc, pointers
<1>2. Typed' /\ Rooted' /\ InStep' /\ InField'
  BY <1>1 DEF IInv, Typed, TypeOK, Rooted, InStep, Stacked, InField
<1>3. Pointing'
  BY <1>1 DEF IInv, Pointing, LastOf
<1>4. Placed'
  <2>1. \A k \in DOMAIN open : PlacedAt(k)' <=> PlacedAt(k)
    BY <1>1 DEF PlacedAt, Enclosed
  <2> QED
    BY <1>1, <2>1 DEF IInv, Placed
<1>5. Orderly' /\ OrderlyFilesAreRead'
  BY <1>1 DEF IInv, Orderly, OrderlyFilesAreRead
<1>6. NamesDistinct'
  BY <1>1 DEF IInv, NamesDistinct
<1> QED
  BY <1>2, <1>3, <1>4, <1>5, <1>6 DEF IInv

\* What is open, the stack, the pointers and the records fit together.
THEOREM Invariance == Spec => []IInv
BY Starts, NextKeeps, StillHolds, PTL DEF Spec

\* No pointer is beyond the clusters and the members that were read.
THEOREM TypeCorrect == Spec => []TypeOK
<1>1. IInv => TypeOK
  BY DEF IInv, Typed
<1> QED
  BY <1>1, Invariance, PTL

\* A file whose sections are where they belong ends the process only by a
\* text before its root element.
THEOREM OrderlyFilesRead == Spec => []OrderlyFilesAreRead
<1>1. IInv => OrderlyFilesAreRead
  BY DEF IInv
<1> QED
  BY <1>1, Invariance, PTL

\* The names of clusters differ, and those of the members of a cluster.
THEOREM NamesStayDifferent == Spec => []NamesDistinct
<1>1. IInv => NamesDistinct
  BY DEF IInv
<1> QED
  BY <1>1, Invariance, PTL

\* A text goes to the field and the section it stands in, and to nothing else.
THEOREM TextsInPlace == Spec => TextsStayInPlace
<1> DEFINE A == \A c \in DOMAIN config : InPlace(c)
<1>1. ASSUME IInv, IInv', [Next]_vars
      PROVE  [A]_vars
  <2>1. CASE Next
    <3>1. config' \in Seq(Cluster) /\ Typed'
      BY <1>1 DEF IInv, Typed, TypeOK
    <3> QED
      BY <1>1, <2>1, <3>1, InPlaceStep DEF IInv
  <2> QED
    BY <1>1, <2>1
<1>2. A <=> \A c \in DOMAIN config :
       LET in(name, at) == Section = [name |-> name, place |-> at]
           was == config[c]  is == config'[c]
       IN  /\ \A f \in ClusterFields :
                is[f] # was[f] => in("rtp_cluster", <<c>>) /\ Parent = f
           /\ is.soft # was.soft =>
                in("rtp_cluster", <<c>>) /\ Last(open').name = "capacity_limit"
           /\ is.notify # was.notify =>
                \/ Section'.name = "disconnect_notify" /\ Len(open') > Len(open)
                \/ in("disconnect_notify", <<c>>) /\ Parent \in NotifyFields
           /\ \A p \in DOMAIN was.proxies : \A f \in ProxyFields :
                is.proxies[p][f] # was.proxies[p][f] => in("rtpproxy", <<c, p>>) /\ Parent = f
  BY DEF InPlace
<1> QED
  BY <1>1, <1>2, Invariance, PTL DEF Spec, TextsStayInPlace
=============================================================================
