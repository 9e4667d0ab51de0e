---------------------------- MODULE CommandCache ----------------------------
(***************************************************************************)
(* Commands over UDP (rtp_cluster.go: up_command_udp, down_command,        *)
(* rCachePurge, udpCLIM).  A command carries a cookie; the sender repeats  *)
(* it until it is answered.  The cluster drops a repetition of a command   *)
(* that is being handled, answers a repetition of one it has answered from *)
(* two generations of cached replies, and handles anything else.           *)
(*                                                                         *)
(* The UDP server runs a handler goroutine for every datagram, so a        *)
(* datagram may arrive between any two steps; a datagram that is lost,     *)
(* repeated or late is one that arrives never, again or later.  What       *)
(* up_command does between the two ends of a handler is here only its      *)
(* outcome: an answer, or none.                                            *)
(***************************************************************************)
EXTENDS Naturals

CONSTANTS
  Cookies,   \* the cookies of the commands
  Handlers,  \* the goroutines that can be handling commands at one time
  Replies,   \* the answers up_command can produce
  MayDrop,   \* TRUE: up_command may return without an answer (a command that
             \* does not parse, a notify tag that cannot be unescaped)
  NoReply,   \* a cookie that is not in a cache map
  NoCookie   \* the cookie of an idle handler

ASSUME CommandCacheAssumption ==
  /\ MayDrop \in BOOLEAN
  /\ NoReply \notin Replies
  /\ NoCookie \notin Cookies

VARIABLES
  commands_inflight,  \* cookies of the commands being handled
  l1rcache, l2rcache, \* replies of this purge period and of the one before
  hpc,                \* idle, handling, answering or caching
  hcookie, hreply,    \* the command of a handler and its answer
  lost,               \* history: cookies whose handler returned unanswered
  sent,               \* history: the replies sent by the handlers of a cookie
  stored, periods     \* history: the last reply cached, and the number of
                      \* purges since: 2 stands for two or more, or for never

caches  == <<l1rcache, l2rcache>>
handler == <<hpc, hcookie, hreply>>
history == <<lost, sent, stored, periods>>
cacheVars == <<commands_inflight, caches, handler, history>>

Cache == [Cookies -> Replies \cup {NoReply}]

CacheTypeOK ==
  /\ commands_inflight \in SUBSET Cookies
  /\ l1rcache \in Cache /\ l2rcache \in Cache
  /\ hpc \in [Handlers -> {"idle", "handling", "answering", "caching"}]
  /\ hcookie \in [Handlers -> Cookies \cup {NoCookie}]
  /\ hreply \in [Handlers -> Replies \cup {NoReply}]
  /\ lost \in SUBSET Cookies
  /\ sent \in [Cookies -> SUBSET Replies]
  /\ stored \in Cache
  /\ periods \in [Cookies -> 0 .. 2]

EmptyCache == [c \in Cookies |-> NoReply]

CacheInit ==
  /\ commands_inflight = {}
  /\ l1rcache = EmptyCache /\ l2rcache = EmptyCache
  /\ hpc = [h \in Handlers |-> "idle"]
  /\ hcookie = [h \in Handlers |-> NoCookie]
  /\ hreply = [h \in Handlers |-> NoReply]
  /\ lost = {}
  /\ sent = [c \in Cookies |-> {}]
  /\ stored = EmptyCache
  /\ periods = [c \in Cookies |-> 2]

-----------------------------------------------------------------------------
\* Mutation: the older generation is looked at first.
OlderFirst(c) == IF l2rcache[c] # NoReply THEN l2rcache[c] ELSE l1rcache[c]

\* The cached reply of a cookie.
cresp(c) == IF l1rcache[c] # NoReply THEN l1rcache[c] ELSE l2rcache[c]

\* Mutation: only the current generation is looked at.
ArrivalIgnoresL2(c) ==
  /\ c \notin commands_inflight /\ l1rcache[c] = NoReply
  /\ \E h \in Handlers :
       /\ hpc[h] = "idle"
       /\ hpc' = [hpc EXCEPT ![h] = "handling"]
       /\ hcookie' = [hcookie EXCEPT ![h] = c]
       /\ UNCHANGED hreply
  /\ commands_inflight' = commands_inflight \cup {c}
  /\ UNCHANGED <<caches, history>>

\* A datagram that has to be handled, up to the call of up_command.  The
\* lock is held from the look-up to the new entry.  A datagram in flight or
\* answered from the cache changes nothing.
up_command_udp(c) ==
  /\ c \notin commands_inflight /\ cresp(c) = NoReply
  /\ \E h \in Handlers :
       /\ hpc[h] = "idle"
       /\ hpc' = [hpc EXCEPT ![h] = "handling"]
       /\ hcookie' = [hcookie EXCEPT ![h] = c]
       /\ UNCHANGED hreply
  /\ commands_inflight' = commands_inflight \cup {c}
  /\ UNCHANGED <<caches, history>>

\* The goroutine is over.
Finish(h) ==
  /\ hpc' = [hpc EXCEPT ![h] = "idle"]
  /\ hcookie' = [hcookie EXCEPT ![h] = NoCookie]
  /\ hreply' = [hreply EXCEPT ![h] = NoReply]

\* up_command returns early: nothing takes the cookie out of the map.
Drop(h) ==
  /\ MayDrop
  /\ hpc[h] = "handling"
  /\ lost' = lost \cup {hcookie[h]}
  /\ Finish(h)
  /\ UNCHANGED <<commands_inflight, caches, sent, stored, periods>>

\* Mutation: the entry of the command is left in the map.
BeginWithoutDelete(h) ==
  /\ hpc[h] = "handling"
  /\ \E r \in Replies : hreply' = [hreply EXCEPT ![h] = r]
  /\ hpc' = [hpc EXCEPT ![h] = "answering"]
  /\ UNCHANGED <<commands_inflight, caches, hcookie, history>>

\* down_command, from the handler or from the callback of a member.  It
\* takes the cookie out of the map of the commands in flight ...
down_command(h) ==
  /\ hpc[h] = "handling"
  /\ \E r \in Replies : hreply' = [hreply EXCEPT ![h] = r]
  /\ commands_inflight' = commands_inflight \ {hcookie[h]}
  /\ hpc' = [hpc EXCEPT ![h] = "answering"]
  /\ UNCHANGED <<caches, hcookie, history>>

\* Mutation: the reply is cached, and not sent.
CacheWithoutSend(h) ==
  /\ hpc[h] = "answering"
  /\ hpc' = [hpc EXCEPT ![h] = "caching"]
  /\ UNCHANGED <<commands_inflight, caches, hcookie, hreply, history>>

\* ... sends the reply without the lock ...
Send(h) ==
  LET c == hcookie[h] IN
  /\ hpc[h] = "answering"
  /\ sent' = [sent EXCEPT ![c] = @ \cup {hreply[h]}]
  /\ hpc' = [hpc EXCEPT ![h] = "caching"]
  /\ UNCHANGED <<commands_inflight, caches, hcookie, hreply, lost, stored,
                 periods>>

\* ... and caches it.
CacheReply(h) ==
  LET c == hcookie[h] IN
  /\ hpc[h] = "caching"
  /\ l1rcache' = [l1rcache EXCEPT ![c] = hreply[h]]
  /\ stored' = [stored EXCEPT ![c] = hreply[h]]
  /\ periods' = [periods EXCEPT ![c] = 0]
  /\ Finish(h)
  /\ UNCHANGED <<commands_inflight, l2rcache, lost, sent>>

\* Every ten seconds.
rCachePurge ==
  /\ l2rcache' = l1rcache
  /\ l1rcache' = EmptyCache
  /\ periods' = [c \in Cookies |-> IF periods[c] = 0 THEN 1 ELSE 2]
  /\ UNCHANGED <<commands_inflight, handler, lost, sent, stored>>

CacheNext ==
  \/ \E c \in Cookies : up_command_udp(c)
  \/ \E h \in Handlers : \/ Drop(h)
                         \/ down_command(h) \/ Send(h) \/ CacheReply(h)
  \/ rCachePurge

CacheSpec == CacheInit /\ [][CacheNext]_cacheVars

\* A member's client calls back once for every command, with an empty result
\* if its RTPproxy does not answer; a handler that runs goes on.
CacheFairness ==
  \A h \in Handlers :
    WF_cacheVars(down_command(h)) /\ WF_cacheVars(Send(h)) /\ WF_cacheVars(CacheReply(h))

FairCacheSpec == CacheSpec /\ CacheFairness

-----------------------------------------------------------------------------
(* Properties.                                                             *)

\* A cookie is in flight for exactly one handler, or for one that returned
\* without an answer: no command is handled twice at once, and no cookie of
\* an answered command stays blocked.
InflightOwned ==
  /\ \A h, k \in Handlers :
       hpc[h] = "handling" /\ hpc[k] = "handling" /\ hcookie[h] = hcookie[k]
         => h = k
  /\ commands_inflight =
       {hcookie[h] : h \in {k \in Handlers : hpc[k] = "handling"}} \cup lost

\* The reply cached last is the one a repetition gets, for the rest of the
\* purge period and all of the next: never an older one, never none.
CacheHoldsLast == \A c \in Cookies : periods[c] < 2 => cresp(c) = stored[c]

\* A repetition is answered with something the cluster has answered before.
CachedWasSent ==
  \A c \in Cookies : cresp(c) # NoReply => cresp(c) \in sent[c]

\* A command that was answered is handled again only if no reply to it was
\* cached since the purge before last: after that, or in the gap between the
\* end of its flight and the caching of its reply.
HandledAgainOnlyIfForgotten ==
  [][\A c \in commands_inflight' \ commands_inflight : periods[c] = 2]_cacheVars

\* Unless up_command returns without an answer, no cookie stays blocked: in
\* the end a repetition is answered from the cache or handled again.
CookiesAreReleased ==
  \A c \in Cookies :
    c \in commands_inflight ~> c \notin commands_inflight \/ c \in lost
=============================================================================
