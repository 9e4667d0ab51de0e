---------------------------- MODULE DNRelayProofs ----------------------------
(***************************************************************************)
(* Where the notifications are in DNRelay and in which order they are      *)
(* received, for any connections, destinations and queues, whichever       *)
(* destinations fail and whenever the relay is shut down.                  *)
(***************************************************************************)
EXTENDS DNRelay, ListLemmas

\* A connection that is not idle has a notification and knows where to.
Connected ==
  \A c \in Conns :
    cpc[c] # "idle" => dest[c] \in Dests /\ count[c] \in 1 .. MaxNotes

\* A worker has a notification exactly while it delivers it; a destination that
\* is not in the map has no worker, unless the map is gone.
Working ==
  /\ \A d \in Dests : wi[d] # NoNote <=> wpc[d] \in {"deliver", "write"}
  /\ relay \in {"up", "stopping"} => \A d \in Dests \ workers : wpc[d] = "none"

\* What is anywhere was read from its connection before.
Sent == \A n \in Notes, x \in Places : At(n, x) => n[2] <= count[n[1]]

\* If n and q are of one connection, n was sent first.
Before(n, q) == n[1] = q[1] => n[2] < q[2]

BySender(list) == \A i, j \in DOMAIN list : i < j => Before(list[i], list[j])

\* What a destination received comes before what its worker holds, and that
\* before what is in its queue.
Ordered ==
  \A d \in Dests :
    /\ BySender(got[d]) /\ BySender(queue[d])
    /\ \A n \in Delivered(d), q \in Queued(d) : Before(n, q)
    /\ wi[d] # NoNote =>
         /\ \A n \in Delivered(d) : Before(n, wi[d])
         /\ \A q \in Queued(d) : Before(wi[d], q)

IInv == TypeOK /\ Connected /\ Working /\ Sent /\ InOnePlace /\ Ordered

-----------------------------------------------------------------------------
(* Lists in the order of their senders.                                    *)

\* What comes after everything of its sender can be appended.
LEMMA AppendInOrder ==
  ASSUME NEW l \in Seq(Notes), NEW e \in Notes
  PROVE  /\ Append(l, e) \in Seq(Notes) /\ Len(Append(l, e)) = Len(l) + 1
         /\ ToSet(Append(l, e)) = ToSet(l) \cup {e}
         /\ BySender(l) /\ (\A n \in ToSet(l) : Before(n, e))
              => BySender(Append(l, e))
<1> DEFINE t == Append(l, e)
<1>1. /\ t \in Seq(Notes) /\ Len(t) = Len(l) + 1
      /\ \A i \in 1 .. Len(l) : t[i] = l[i]
      /\ t[Len(l) + 1] = e
  BY AppendProperties
<1>2. /\ Len(l) \in Nat /\ DOMAIN l = 1 .. Len(l)
      /\ DOMAIN t = 1 .. Len(l) + 1
  BY <1>1, LenProperties
<1> HIDE DEF t
<1>3. ToSet(t) = ToSet(l) \cup {e}
  BY <1>1, <1>2 DEF ToSet
<1>4. ASSUME BySender(l), \A n \in ToSet(l) : Before(n, e),
             NEW i \in 1 .. Len(l) + 1, NEW j \in 1 .. Len(l) + 1, i < j
      PROVE  Before(t[i], t[j])
  <2>1. i \in 1 .. Len(l) /\ t[i] = l[i]
    BY <1>1, <1>2, <1>4
  <2>2. CASE j \in 1 .. Len(l)
    <3>1. Before(l[i], l[j]) /\ t[j] = l[j]
      BY <1>1, <1>2, <1>4, <2>1, <2>2 DEF BySender
    <3> QED
      BY <2>1, <3>1
  <2>3. CASE j = Len(l) + 1
    <3>1. Before(l[i], e) /\ t[j] = e
      BY <1>1, <1>2, <1>4, <2>1, <2>3 DEF ToSet
    <3> QED
      BY <2>1, <3>1
  <2> QED
    BY <1>2, <2>2, <2>3
<1> QED
  BY <1>1, <1>2, <1>3, <1>4 DEF t, BySender

\* The first of a list in order comes before the rest and is not in it.
LEMMA RestInOrder ==
  ASSUME NEW l \in Seq(Notes), l # <<>>, BySender(l)
  PROVE  /\ Head(l) \in Notes /\ Tail(l) \in Seq(Notes)
         /\ Len(Tail(l)) = Len(l) - 1
         /\ ToSet(l) = {Head(l)} \cup ToSet(Tail(l))
         /\ BySender(Tail(l))
         /\ \A q \in ToSet(Tail(l)) : Before(Head(l), q) /\ q # Head(l)
<1> DEFINE t == Tail(l)
<1>1. /\ Head(l) \in Notes /\ Head(l) = l[1] /\ t \in Seq(Notes)
      /\ Len(t) = Len(l) - 1 /\ \A i \in 1 .. Len(t) : t[i] = l[i + 1]
  BY HeadTailProperties
<1>2. Len(l) \in Nat \ {0} /\ DOMAIN l = 1 .. Len(l) /\ DOMAIN t = 1 .. Len(l) - 1
  BY <1>1, LenProperties, EmptySeq
<1>3. ToSet(l) = {Head(l)} \cup ToSet(t)
  BY FirstAndRest
<1> HIDE DEF t
<1>4. \A i \in 1 .. Len(l) - 1 : i + 1 \in 1 .. Len(l) /\ t[i] = l[i + 1]
  BY <1>1, <1>2
<1>5. BySender(t)
  <2> SUFFICES ASSUME NEW i \in 1 .. Len(l) - 1, NEW j \in 1 .. Len(l) - 1, i < j
               PROVE  Before(t[i], t[j])
    BY <1>2 DEF BySender
  <2>1. Before(l[i + 1], l[j + 1])
    BY <1>2, <1>4 DEF BySender
  <2> QED
    BY <1>4, <2>1
<1>6. ASSUME NEW q \in ToSet(t)
      PROVE  Before(l[1], q) /\ q # l[1]
  <2>1. PICK i \in 1 .. Len(l) - 1 : q = t[i]
    BY <1>2 DEF ToSet
  <2>2. Before(l[1], l[i + 1]) /\ q = l[i + 1]
    BY <1>2, <1>4, <2>1 DEF BySender
  <2>3. ~Before(l[1], l[1])
    BY <1>1 DEF Before, Notes
  <2> QED
    BY <2>2, <2>3
<1> QED
  BY <1>1, <1>3, <1>5, <1>6 DEF t

-----------------------------------------------------------------------------
(* Steps that move one notification, or none.                              *)

\* After a step that moves the notification n from wherever it is to the place
\* p, it is in that place only, and the others are where they were.
LEMMA Moved ==
  ASSUME InOnePlace, Sent, NEW n \in Notes, NEW p \in Places,
         \A k \in Notes, x \in Places :
           At(k, x)' <=> IF k = n THEN x = p ELSE At(k, x),
         n[2] <= count'[n[1]],
         \A k \in Notes :
           k # n => (k[2] <= count'[k[1]] <=> k[2] <= count[k[1]])
  PROVE  InOnePlace' /\ Sent'
<1>1. ASSUME NEW k \in Notes, k[2] <= count'[k[1]]
      PROVE  \E x \in Places : \A y \in Places : At(k, y)' <=> y = x
  <2>1. CASE k = n
    BY <2>1
  <2>2. CASE k # n
    <3>1. PICK x \in Places : \A y \in Places : At(k, y) <=> y = x
      BY <1>1, <2>2 DEF InOnePlace
    <3> QED
      BY <2>2, <3>1
  <2> QED
    BY <2>1, <2>2
<1>2. InOnePlace'
  BY <1>1 DEF InOnePlace
<1>3. Sent'
  BY DEF Sent
<1> QED
  BY <1>2, <1>3

\* A step that moves none.
LEMMA NoneMoved ==
  ASSUME InOnePlace, Sent, UNCHANGED <<count, queue, wi, got, failed>>,
         \A d \in Dests : Held(d)' = Held(d)
  PROVE  InOnePlace' /\ Sent'
<1>1. \A k \in Notes, x \in Places : At(k, x)' <=> At(k, x)
  BY DEF At, Queued, Delivered, Places
<1> QED
  BY <1>1 DEF InOnePlace, Sent

\* The order is a matter of the queues, the workers and the destinations.
LEMMA OrderKept ==
  ASSUME Ordered, UNCHANGED <<queue, wi, got>>
  PROVE  Ordered'
BY DEF Ordered, Queued, Delivered, BySender

\* What is at a place is at no other.
LEMMA OnlyThere ==
  ASSUME InOnePlace, Sent, NEW n \in Notes, NEW p \in Places, At(n, p)
  PROVE  \A x \in Places : At(n, x) <=> x = p
BY DEF InOnePlace, Sent

\* A connection reads a notification, which nobody has seen before.
LEMMA RecvStep ==
  ASSUME IInv, NEW c \in Conns, Recv(c)
  PROVE  IInv'
<1> USE DNRelayAssumption DEF IInv
<1>1. PICK d \in DestsOf[c] : dest' = [dest EXCEPT ![c] = d]
  BY DEF Recv
<1>2. /\ d \in Dests /\ count[c] \in 0 .. MaxNotes /\ count[c] < MaxNotes
      /\ cpc[c] = "idle" /\ count' = [count EXCEPT ![c] = @ + 1]
      /\ cpc' = [cpc EXCEPT ![c] = "lookup"]
      /\ UNCHANGED <<relay, workers, tostop, queue, wpc, wi, told, s, peer, got, failed>>
  BY DEF Recv, TypeOK, relayVars, workerVars, destVars
<1>3. TypeOK'
  <2>1. count' \in [Conns -> 0 .. MaxNotes]
    BY <1>2 DEF TypeOK
  <2> QED
    BY <1>1, <1>2, <2>1 DEF TypeOK
<1>4. Connected' /\ Working'
  BY <1>1, <1>2 DEF Connected, Working, TypeOK
<1> DEFINE n == <<c, count[c] + 1>>
           p == <<"held", d>>
<1>5. n \in Notes /\ p \in Places
  BY <1>2 DEF Notes, Places
<1>6. \A x \in Places : ~At(n, x)
  BY <1>2, <1>5 DEF Sent
<1>7. \A e \in Dests : Held(e)' = IF e = d THEN Held(e) \cup {n} ELSE Held(e)
  BY <1>1, <1>2 DEF Held, Note, TypeOK
<1>8. \A k \in Notes, x \in Places : At(k, x)' <=> IF k = n THEN x = p ELSE At(k, x)
  <2> SUFFICES ASSUME NEW k \in Notes, NEW x \in Places
               PROVE  At(k, x)' <=> IF k = n THEN x = p ELSE At(k, x)
    OBVIOUS
  <2>1. At(k, x)' <=> At(k, x) \/ (k = n /\ x = p)
    BY <1>2, <1>7 DEF At, Queued, Delivered, Places
  <2> QED
    BY <1>6, <2>1
<1> HIDE DEF n, p
<1>9. InOnePlace' /\ Sent'
  <2>1. /\ n[1] = c /\ n[2] = count[c] + 1
        /\ \A k \in Notes : k[1] = c /\ k # n => k[2] # count[c] + 1
    BY DEF n, Notes
  <2>2. \A k \in Notes : /\ k[1] \in Conns /\ k[2] \in Nat /\ count[k[1]] \in Nat
                         /\ count'[k[1]] = IF k[1] = c THEN count[c] + 1 ELSE count[k[1]]
    BY <1>2 DEF Notes, TypeOK
  <2> QED
    BY <1>2, <1>5, <1>8, <2>1, <2>2, Moved
<1> QED
  BY <1>2, <1>3, <1>4, <1>9, OrderKept

\* The worker of a destination is found or made; nothing moves.
LEMMA LookupStep ==
  ASSUME IInv, NEW c \in Conns, Lookup(c)
  PROVE  IInv'
<1> USE DNRelayAssumption DEF IInv
<1>1. PICK d \in Dests : d = dest[c]
  BY DEF Lookup, Connected
<1>2. /\ cpc[c] = "lookup" /\ cpc' = [cpc EXCEPT ![c] = "send"]
      /\ UNCHANGED <<dest, count, queue, wi, told, s, peer, got, failed>>
  BY DEF Lookup, destVars
<1>3. \/ UNCHANGED <<relay, workers, tostop, wpc>>
      \/ /\ d \notin workers /\ relay \in {"up", "stopping"}
         /\ workers' = workers \cup {d} /\ wpc' = [wpc EXCEPT ![d] = "idle"]
         /\ tostop' \subseteq tostop \cup {d} /\ relay' = relay
      \/ relay' = "panic" /\ UNCHANGED <<workers, tostop, wpc>>
  BY <1>1 DEF Lookup, StartWorker, relayVars
<1>4. TypeOK'
  <2>1. /\ cpc' \in [Conns -> {"idle", "lookup", "send"}]
        /\ relay' \in {"up", "stopping", "down", "panic"}
    BY <1>2, <1>3 DEF TypeOK
  <2>2. workers' \subseteq Dests /\ tostop' \subseteq workers'
    BY <1>3 DEF TypeOK
  <2>3. wpc' \in [Dests -> {"none", "idle", "deliver", "write", "gone"}]
    BY <1>3 DEF TypeOK
  <2> QED
    BY <1>2, <2>1, <2>2, <2>3 DEF TypeOK
<1>5. Connected'
  BY <1>2 DEF Connected, TypeOK
<1>6. Working'
  <2>1. CASE UNCHANGED <<relay, workers, tostop, wpc>>
    BY <1>2, <2>1 DEF Working
  <2>2. CASE /\ d \notin workers /\ relay \in {"up", "stopping"}
             /\ workers' = workers \cup {d} /\ wpc' = [wpc EXCEPT ![d] = "idle"]
    <3>1. wpc[d] = "none" /\ wi[d] = NoNote
      BY <2>2 DEF Working
    <3>2. \A e \in Dests : wpc'[e] = IF e = d THEN "idle" ELSE wpc[e]
      BY <2>2 DEF TypeOK
    <3>3. \A e \in Dests : wi'[e] # NoNote <=> wpc'[e] \in {"deliver", "write"}
      BY <1>2, <3>1, <3>2 DEF Working
    <3>4. \A e \in Dests \ workers' : wpc'[e] = "none"
      BY <2>2, <3>2 DEF Working
    <3> QED
      BY <3>3, <3>4 DEF Working
  <2>3. CASE relay' = "panic" /\ UNCHANGED <<workers, tostop, wpc>>
    BY <1>2, <2>3 DEF Working
  <2> QED
    BY <1>3, <2>1, <2>2, <2>3
<1>7. \A e \in Dests : Held(e)' = Held(e)
  BY <1>2 DEF Held, Note, TypeOK
<1> QED
  BY <1>2, <1>4, <1>5, <1>6, <1>7, NoneMoved, OrderKept

\* A connection puts its notification into a queue, behind all it sent before.
LEMMA SendStep ==
  ASSUME IInv, NEW c \in Conns, Send_denotify(c)
  PROVE  IInv'
<1> USE DNRelayAssumption DEF IInv
<1>1. PICK d \in Dests, n \in Notes : d = dest[c] /\ n = Note(c)
  BY DEF Send_denotify, Connected, Note, Notes
<1>2. /\ cpc[c] = "send" /\ Len(queue[d]) < QueueSize
      /\ queue' = [queue EXCEPT ![d] = Append(queue[d], n)]
      /\ cpc' = [cpc EXCEPT ![c] = "idle"]
      /\ dest' = [dest EXCEPT ![c] = NoDest]
      /\ UNCHANGED <<relay, workers, tostop, count, wpc, wi, told, s, peer, got, failed>>
  BY <1>1 DEF Send_denotify, Enqueue, relayVars, destVars
<1>3. queue \in [Dests -> Seq(Notes)] /\ queue[d] \in Seq(Notes)
  BY DEF TypeOK
<1>4. /\ queue'[d] = Append(queue[d], n) /\ queue'[d] \in Seq(Notes)
      /\ Len(queue'[d]) = Len(queue[d]) + 1
      /\ Queued(d)' = Queued(d) \cup {n}
      /\ \A e \in Dests \ {d} : queue'[e] = queue[e]
  BY <1>2, <1>3, AppendInOrder DEF Queued
<1>5. \A e \in Dests : Len(queue'[e]) <= QueueSize
  BY <1>2, <1>3, <1>4, LenProperties DEF TypeOK
<1>6. TypeOK'
  <2>1. queue' \in [Dests -> Seq(Notes)]
    BY <1>2, <1>3, <1>4
  <2> QED
    BY <1>2, <1>5, <2>1 DEF TypeOK
<1>7. Connected' /\ Working'
  BY <1>2 DEF Connected, Working, TypeOK
<1> DEFINE p == <<"queued", d>>
           o == <<"held", d>>
<1>8. p \in Places /\ o \in Places /\ At(n, o)
  BY <1>1, <1>2 DEF Places, At, Held
<1>9. \A x \in Places : At(n, x) <=> x = o
  BY <1>8, OnlyThere
<1>10. \A e \in Dests : Held(e)' = Held(e) \ {n}
  <2>1. \A x \in Conns : Note(x) = n => x = c
    BY <1>1 DEF Note
  <2>2. \A x \in Conns : Note(x)' = Note(x)
    BY <1>2 DEF Note
  <2>3. \A x \in Conns : cpc'[x] # "idle" <=> cpc[x] # "idle" /\ x # c
    BY <1>2 DEF TypeOK
  <2>4. \A x \in Conns : x # c => dest'[x] = dest[x]
    BY <1>2 DEF TypeOK
  <2> QED
    BY <1>1, <2>1, <2>2, <2>3, <2>4 DEF Held
<1>11. \A k \in Notes, x \in Places : At(k, x)' <=> IF k = n THEN x = p ELSE At(k, x)
  <2> SUFFICES ASSUME NEW k \in Notes, NEW x \in Places
               PROVE  At(k, x)' <=> IF k = n THEN x = p ELSE At(k, x)
    OBVIOUS
  <2>1. At(k, x)' <=> (At(k, x) /\ (k # n \/ x[1] # "held")) \/ (k = n /\ x = p)
    BY <1>2, <1>4, <1>10 DEF At, Queued, Delivered, Places
  <2> QED
    BY <1>9, <2>1
<1>12. \A k \in Notes, x \in Places : At(k, x) /\ x # o => Before(k, n)
  <2> SUFFICES ASSUME NEW k \in Notes, NEW x \in Places, At(k, x), x # o, k[1] = n[1]
               PROVE  k[2] < n[2]
    BY DEF Before
  <2>1. k # n
    BY <1>9
  <2>2. n[1] = c /\ n[2] = count[c] /\ k[2] <= count[c]
    BY <1>1 DEF Note, Sent
  <2>3. k = <<k[1], k[2]>> /\ n = <<n[1], n[2]>> /\ k[2] \in Nat /\ n[2] \in Nat
    BY DEF Notes
  <2> QED
    BY <2>1, <2>2, <2>3
<1> HIDE DEF p, o
<1>13. InOnePlace' /\ Sent'
  <2>1. n[2] <= count[n[1]]
    BY <1>8 DEF Sent
  <2> QED
    BY <1>2, <1>8, <1>11, <2>1, Moved
<1>14. /\ \A k \in Queued(d) : k \in Notes /\ Before(k, n)
       /\ \A k \in Delivered(d) : k \in Notes /\ Before(k, n)
       /\ wi[d] # NoNote => Before(wi[d], n)
  <2>1. \A x \in {"queued", "taken", "got"} : <<x, d>> \in Places /\ <<x, d>> # o
    BY DEF Places, o
  <2>2. Queued(d) \subseteq Notes /\ Delivered(d) \subseteq Notes
    BY LenProperties DEF Queued, Delivered, ToSet, TypeOK
  <2>3. \A k \in Queued(d) : At(k, <<"queued", d>>)
    BY DEF At
  <2>4. \A k \in Delivered(d) : At(k, <<"got", d>>)
    BY DEF At
  <2>5. wi[d] # NoNote => wi[d] \in Notes /\ At(wi[d], <<"taken", d>>)
    BY DEF At, TypeOK
  <2> QED
    BY <1>12, <2>1, <2>2, <2>3, <2>4, <2>5
<1>15. Ordered'
  <2> SUFFICES ASSUME NEW e \in Dests
               PROVE  /\ BySender(got[e]') /\ BySender(queue[e]')
                      /\ \A k \in Delivered(e)', q \in Queued(e)' : Before(k, q)
                      /\ wi[e]' # NoNote =>
                           /\ \A k \in Delivered(e)' : Before(k, wi[e]')
                           /\ \A q \in Queued(e)' : Before(wi[e]', q)
    BY DEF Ordered, BySender, Before
  <2>1. UNCHANGED <<got, wi>> /\ Delivered(e)' = Delivered(e)
    BY <1>2 DEF Delivered
  <2>2. CASE e # d
    <3>1. queue'[e] = queue[e] /\ Queued(e)' = Queued(e)
      BY <1>4, <2>2 DEF Queued
    <3> QED
      BY <2>1, <3>1 DEF Ordered
  <2>3. CASE e = d
    <3>1. BySender(queue[d])
      BY DEF Ordered
    <3>2. BySender(queue'[d])
      BY <1>3, <1>4, <1>14, <3>1, AppendInOrder DEF Queued
    <3> QED
      BY <1>4, <1>14, <2>1, <2>3, <3>2 DEF Ordered
  <2> QED
    BY <2>2, <2>3
<1> QED
  BY <1>6, <1>7, <1>13, <1>15

\* A worker takes the first notification of its queue.
LEMMA TakeStep ==
  ASSUME IInv, NEW d \in Dests, Take(d)
  PROVE  IInv'
<1> USE DNRelayAssumption DEF IInv
<1>1. queue \in [Dests -> Seq(Notes)] /\ queue[d] \in Seq(Notes) /\ queue[d] # <<>>
  BY DEF Take, TypeOK
<1>2. BySender(queue[d])
  BY DEF Ordered
<1>3. PICK n \in Notes : n = Head(queue[d])
  BY <1>1, <1>2, RestInOrder
<1>4. /\ wpc[d] = "idle" /\ wi' = [wi EXCEPT ![d] = n]
      /\ queue' = [queue EXCEPT ![d] = Tail(queue[d])]
      /\ wpc' = [wpc EXCEPT ![d] = IF s[d] = "nil" THEN "deliver" ELSE "write"]
      /\ UNCHANGED <<relay, workers, tostop, cpc, dest, count, told, s, peer, got, failed>>
  BY <1>3 DEF Take, relayVars, connVars, destVars
<1>5. /\ queue'[d] \in Seq(Notes) /\ Len(queue'[d]) = Len(queue[d]) - 1
      /\ Queued(d) = {n} \cup Queued(d)' /\ BySender(queue'[d])
      /\ \A q \in Queued(d)' : Before(n, q) /\ q # n
      /\ \A e \in Dests \ {d} : queue'[e] = queue[e] /\ Queued(e)' = Queued(e)
  BY <1>1, <1>2, <1>3, <1>4, RestInOrder DEF Queued
<1>6. wi[d] = NoNote /\ n # NoNote
  BY <1>4 DEF Working, Notes
<1>7. \A e \in Dests : wi'[e] = IF e = d THEN n ELSE wi[e]
  BY <1>4 DEF TypeOK
<1>8. TypeOK'
  <2>1. queue' \in [Dests -> Seq(Notes)]
    BY <1>1, <1>4, <1>5
  <2>2. \A e \in Dests : Len(queue'[e]) <= QueueSize
    <3>1. /\ Len(queue[d]) \in Nat /\ QueueSize \in Nat /\ Len(queue[d]) <= QueueSize
          /\ \A e \in Dests \ {d} : queue'[e] = queue[e] /\ Len(queue[e]) <= QueueSize
      BY <1>1, <1>5, LenProperties DEF TypeOK
    <3>2. Len(queue'[d]) <= QueueSize
      BY <1>5, <3>1
    <3> QED
      BY <3>1, <3>2
  <2>3. /\ wpc' \in [Dests -> {"none", "idle", "deliver", "write", "gone"}]
        /\ wi' \in [Dests -> Notes \cup {NoNote}]
    BY <1>4 DEF TypeOK
  <2> QED
    BY <1>4, <2>1, <2>2, <2>3 DEF TypeOK
<1>9. Connected'
  BY <1>4 DEF Connected
<1>10. Working'
  <2>1. \A e \in Dests : wpc'[e] = IF e # d THEN wpc[e]
                                  ELSE IF s[d] = "nil" THEN "deliver" ELSE "write"
    BY <1>4 DEF TypeOK
  <2>2. relay \in {"up", "stopping"} => d \in workers
    BY <1>4 DEF Working
  <2> QED
    BY <1>4, <1>6, <1>7, <2>1, <2>2 DEF Working
<1> DEFINE p == <<"taken", d>>
           o == <<"queued", d>>
<1>11. p \in Places /\ o \in Places /\ At(n, o)
  BY <1>5 DEF Places, At
<1>12. \A x \in Places : At(n, x) <=> x = o
  BY <1>11, OnlyThere
<1>13. \A e \in Dests : Held(e)' = Held(e) /\ Delivered(e)' = Delivered(e)
  BY <1>4 DEF Held, Note, Delivered
<1>14. \A k \in Notes, x \in Places : At(k, x)' <=> IF k = n THEN x = p ELSE At(k, x)
  <2> SUFFICES ASSUME NEW k \in Notes, NEW x \in Places
               PROVE  At(k, x)' <=> IF k = n THEN x = p ELSE At(k, x)
    OBVIOUS
  <2>1. k # NoNote
    BY DEF Notes
  <2>2. At(k, x)' <=> (At(k, x) /\ (k # n \/ x # o)) \/ (k = n /\ x = p)
    BY <1>4, <1>5, <1>6, <1>7, <1>13, <2>1 DEF At, Places
  <2> QED
    BY <1>12, <2>2
<1> HIDE DEF p, o
<1>15. InOnePlace' /\ Sent'
  <2>1. n[2] <= count[n[1]]
    BY <1>11 DEF Sent
  <2> QED
    BY <1>4, <1>11, <1>14, <2>1, Moved
<1>16. Ordered'
  <2> SUFFICES ASSUME NEW e \in Dests
               PROVE  /\ BySender(got[e]') /\ BySender(queue[e]')
                      /\ \A k \in Delivered(e)', q \in Queued(e)' : Before(k, q)
                      /\ wi[e]' # NoNote =>
                           /\ \A k \in Delivered(e)' : Before(k, wi[e]')
                           /\ \A q \in Queued(e)' : Before(wi[e]', q)
    BY DEF Ordered, BySender, Before
  <2>1. got'[e] = got[e] /\ Delivered(e)' = Delivered(e)
    BY <1>4, <1>13
  <2>2. CASE e # d
    BY <1>5, <1>7, <2>1, <2>2 DEF Ordered
  <2>3. CASE e = d
    BY <1>5, <1>7, <2>1, <2>3 DEF Ordered
  <2> QED
    BY <2>2, <2>3
<1> QED
  BY <1>8, <1>9, <1>10, <1>15, <1>16

\* The worker forgets the notification it could not deliver.
LEMMA FailStep ==
  ASSUME IInv, NEW d \in Dests, wpc[d] \in {"deliver", "write"}, Fail(d),
         UNCHANGED <<relayVars, connVars, queue, told, s, peer, got>>
  PROVE  IInv'
<1> USE DNRelayAssumption DEF IInv
<1>1. PICK n \in Notes : n = wi[d]
  BY DEF Working, TypeOK
<1>2. /\ wi' = [wi EXCEPT ![d] = NoNote] /\ wpc' = [wpc EXCEPT ![d] = "idle"]
      /\ failed' = [failed EXCEPT ![d] = failed[d] \cup {n}]
      /\ UNCHANGED <<relay, workers, tostop, cpc, dest, count, queue, told, s, peer, got>>
  BY <1>1 DEF Fail, Next_wi, relayVars, connVars
<1>3. \A e \in Dests : /\ wi'[e] = IF e = d THEN NoNote ELSE wi[e]
                       /\ wpc'[e] = IF e = d THEN "idle" ELSE wpc[e]
                       /\ failed'[e] = IF e = d THEN failed[d] \cup {n} ELSE failed[e]
  BY <1>2 DEF TypeOK
<1>4. TypeOK'
  BY <1>2 DEF TypeOK
<1>5. Connected' /\ Working'
  BY <1>2, <1>3 DEF Connected, Working
<1> DEFINE p == <<"failed", d>>
           o == <<"taken", d>>
<1>6. p \in Places /\ o \in Places /\ At(n, o)
  BY <1>1 DEF Places, At
<1>7. \A x \in Places : At(n, x) <=> x = o
  BY <1>6, OnlyThere
<1>8. \A e \in Dests : /\ Held(e)' = Held(e) /\ Queued(e)' = Queued(e)
                       /\ Delivered(e)' = Delivered(e)
  BY <1>2 DEF Held, Note, Queued, Delivered
<1>9. \A k \in Notes, x \in Places : At(k, x)' <=> IF k = n THEN x = p ELSE At(k, x)
  <2> SUFFICES ASSUME NEW k \in Notes, NEW x \in Places
               PROVE  At(k, x)' <=> IF k = n THEN x = p ELSE At(k, x)
    OBVIOUS
  <2>1. k # NoNote
    BY DEF Notes
  <2>2. At(k, x)' <=> (At(k, x) /\ (k # n \/ x # o)) \/ (k = n /\ x = p)
    BY <1>1, <1>3, <1>8, <2>1 DEF At, Places
  <2> QED
    BY <1>7, <2>2
<1> HIDE DEF p, o
<1>10. InOnePlace' /\ Sent'
  <2>1. n[2] <= count[n[1]]
    BY <1>6 DEF Sent
  <2> QED
    BY <1>2, <1>6, <1>9, <2>1, Moved
<1>11. Ordered'
  BY <1>2, <1>3, <1>8 DEF Ordered, BySender
<1> QED
  BY <1>4, <1>5, <1>10, <1>11

\* The destination receives what its worker holds, after all it has received.
LEMMA GotStep ==
  ASSUME IInv, NEW d \in Dests, wpc[d] = "write",
         got' = [got EXCEPT ![d] = Append(@, wi[d])], Next_wi(d),
         UNCHANGED <<relayVars, connVars, queue, told, s, peer, failed>>
  PROVE  IInv'
<1> USE DNRelayAssumption DEF IInv
<1>1. PICK n \in Notes : n = wi[d]
  BY DEF Working, TypeOK
<1>2. /\ wi' = [wi EXCEPT ![d] = NoNote] /\ wpc' = [wpc EXCEPT ![d] = "idle"]
      /\ got' = [got EXCEPT ![d] = Append(got[d], n)]
      /\ UNCHANGED <<relay, workers, tostop, cpc, dest, count, queue, told, s, peer, failed>>
  BY <1>1 DEF Next_wi, relayVars, connVars
<1>3. \A e \in Dests : /\ wi'[e] = IF e = d THEN NoNote ELSE wi[e]
                       /\ wpc'[e] = IF e = d THEN "idle" ELSE wpc[e]
  BY <1>2 DEF TypeOK
<1>4. n # NoNote /\ got \in [Dests -> Seq(Notes)] /\ got[d] \in Seq(Notes)
  BY DEF Notes, TypeOK
<1>5. BySender(got[d]) /\ \A k \in Delivered(d) : Before(k, n)
  BY <1>1, <1>4 DEF Ordered
<1>6. /\ got'[d] \in Seq(Notes) /\ Delivered(d)' = Delivered(d) \cup {n}
      /\ BySender(got'[d])
      /\ \A e \in Dests \ {d} : got'[e] = got[e] /\ Delivered(e)' = Delivered(e)
  BY <1>2, <1>4, <1>5, AppendInOrder DEF Delivered
<1>7. TypeOK'
  <2>1. got' \in [Dests -> Seq(Notes)]
    BY <1>2, <1>4, <1>6
  <2> QED
    BY <1>2, <2>1 DEF TypeOK
<1>8. Connected' /\ Working'
  BY <1>2, <1>3 DEF Connected, Working
<1> DEFINE p == <<"got", d>>
           o == <<"taken", d>>
<1>9. p \in Places /\ o \in Places /\ At(n, o)
  BY <1>1 DEF Places, At
<1>10. \A x \in Places : At(n, x) <=> x = o
  BY <1>9, OnlyThere
<1>11. \A e \in Dests : Held(e)' = Held(e) /\ Queued(e)' = Queued(e)
  BY <1>2 DEF Held, Note, Queued
<1>12. \A k \in Notes, x \in Places : At(k, x)' <=> IF k = n THEN x = p ELSE At(k, x)
  <2> SUFFICES ASSUME NEW k \in Notes, NEW x \in Places
               PROVE  At(k, x)' <=> IF k = n THEN x = p ELSE At(k, x)
    OBVIOUS
  <2>1. k # NoNote
    BY DEF Notes
  <2>2. At(k, x)' <=> (At(k, x) /\ (k # n \/ x # o)) \/ (k = n /\ x = p)
    BY <1>1, <1>2, <1>3, <1>6, <1>11, <2>1 DEF At, Places
  <2> QED
    BY <1>10, <2>2
<1> HIDE DEF p, o
<1>13. InOnePlace' /\ Sent'
  <2>1. n[2] <= count[n[1]]
    BY <1>9 DEF Sent
  <2> QED
    BY <1>2, <1>9, <1>12, <2>1, Moved
<1>14. Ordered'
  <2> SUFFICES ASSUME NEW e \in Dests
               PROVE  /\ BySender(got[e]') /\ BySender(queue[e]')
                      /\ \A k \in Delivered(e)', q \in Queued(e)' : Before(k, q)
                      /\ wi[e]' # NoNote =>
                           /\ \A k \in Delivered(e)' : Before(k, wi[e]')
                           /\ \A q \in Queued(e)' : Before(wi[e]', q)
    BY DEF Ordered, BySender, Before
  <2>1. queue'[e] = queue[e] /\ Queued(e)' = Queued(e)
    BY <1>2, <1>11
  <2>2. CASE e # d
    BY <1>3, <1>6, <2>1, <2>2 DEF Ordered
  <2>3. CASE e = d
    <3>1. BySender(queue[d]) /\ \A q \in Queued(d) : Before(n, q)
      BY <1>1, <1>4 DEF Ordered
    <3> QED
      BY <1>3, <1>6, <2>1, <2>3, <3>1 DEF Ordered
  <2> QED
    BY <2>2, <2>3
<1> QED
  BY <1>7, <1>8, <1>13, <1>14

\* A worker finds its destination down or gets a socket.
LEMMA ConnectStep ==
  ASSUME IInv, NEW d \in Dests, Connect(d)
  PROVE  IInv'
<1>1. CASE peer[d] = "down"
  <2>1. Fail(d) /\ wpc[d] = "deliver"
        /\ UNCHANGED <<relayVars, connVars, queue, told, s, peer, got>>
    BY <1>1 DEF Connect
  <2> QED
    BY <2>1, FailStep
<1>2. CASE peer[d] # "down"
  <2>1. /\ wpc[d] = "deliver" /\ wpc' = [wpc EXCEPT ![d] = "write"]
        /\ s' = [s EXCEPT ![d] = "open"]
        /\ UNCHANGED <<relay, workers, tostop, cpc, dest, count, queue, wi, told, peer, got, failed>>
    BY <1>2 DEF Connect, relayVars, connVars
  <2>2. TypeOK'
    BY <2>1 DEF IInv, TypeOK
  <2>3. Connected' /\ Working'
    BY <2>1 DEF IInv, TypeOK, Connected, Working
  <2>4. \A e \in Dests : Held(e)' = Held(e)
    BY <2>1 DEF Held, Note
  <2> QED
    BY <2>1, <2>2, <2>3, <2>4, NoneMoved, OrderKept DEF IInv
<1> QED
  BY <1>1, <1>2

LEMMA WriteStep ==
  ASSUME IInv, NEW d \in Dests, Write(d)
  PROVE  IInv'
BY FailStep, GotStep DEF Write

\* Steps that leave connections, queues and notifications alone.
LEMMA OtherSteps ==
  ASSUME IInv, UNCHANGED <<cpc, dest, count, queue, wi, got, failed>>,
         TypeOK', Working'
  PROVE  IInv'
<1>1. \A e \in Dests : Held(e)' = Held(e)
  BY DEF Held, Note
<1>2. Connected'
  BY DEF IInv, Connected
<1> QED
  BY <1>1, <1>2, NoneMoved, OrderKept DEF IInv

LEMMA StopStep ==
  ASSUME IInv, NEW d \in Dests, Stop(d)
  PROVE  IInv'
<1>1. /\ wpc[d] = "idle" /\ told' = [told EXCEPT ![d] = FALSE]
      /\ wpc' = [wpc EXCEPT ![d] = "gone"]
      /\ UNCHANGED <<relay, workers, tostop, cpc, dest, count, queue, wi, s, peer, got, failed>>
  BY DEF Stop, relayVars, connVars, destVars
<1>2. TypeOK'
  BY <1>1 DEF IInv, TypeOK
<1>3. Working'
  BY <1>1 DEF IInv, TypeOK, Working
<1> QED
  BY <1>1, <1>2, <1>3, OtherSteps

LEMMA ShutdownSteps ==
  ASSUME IInv, ShutdownBegin \/ ShutdownEnd \/ \E d \in Dests : Tell(d)
  PROVE  IInv'
<1>1. CASE ShutdownBegin
  <2>1. TypeOK' /\ Working'
    BY <1>1 DEF IInv, TypeOK, Working, ShutdownBegin, connVars, workerVars, destVars
  <2> QED
    BY <1>1, <2>1, OtherSteps DEF ShutdownBegin, connVars, workerVars, destVars
<1>2. CASE ShutdownEnd
  <2>1. TypeOK' /\ Working'
    BY <1>2 DEF IInv, TypeOK, Working, ShutdownEnd, connVars, workerVars, destVars
  <2> QED
    BY <1>2, <2>1, OtherSteps DEF ShutdownEnd, connVars, workerVars, destVars
<1>3. ASSUME NEW d \in Dests, Tell(d)
      PROVE  IInv'
  <2>1. TypeOK'
    BY <1>3 DEF IInv, TypeOK, Tell, connVars, destVars
  <2>2. Working'
    BY <1>3 DEF IInv, Working, Tell
  <2> QED
    BY <1>3, <2>1, <2>2, OtherSteps DEF Tell, connVars, destVars
<1> QED
  BY <1>1, <1>2, <1>3

LEMMA PeerStep ==
  ASSUME IInv, NEW d \in Dests, NEW p \in {"up", "stuck", "down"}, PeerChange(d, p)
  PROVE  IInv'
<1>1. /\ peer' = [peer EXCEPT ![d] = p]
      /\ s' = [s EXCEPT ![d] = IF p = "down" /\ s[d] = "open" THEN "broken" ELSE s[d]]
      /\ UNCHANGED <<relay, workers, tostop, cpc, dest, count, queue, wpc, wi, told, got, failed>>
  BY DEF PeerChange, relayVars, connVars
<1>2. TypeOK'
  BY <1>1 DEF IInv, TypeOK
<1>3. Working'
  BY <1>1 DEF IInv, Working
<1> QED
  BY <1>1, <1>2, <1>3, OtherSteps

-----------------------------------------------------------------------------
LEMMA InitIInv == Init => IInv
<1> SUFFICES ASSUME Init PROVE IInv
  OBVIOUS
<1> USE DNRelayAssumption
<1>1. <<>> \in Seq(Notes) /\ Len(<<>>) = 0 /\ DOMAIN <<>> = {} /\ ToSet(<<>>) = {}
  BY EmptySeq DEF ToSet
<1>2. TypeOK
  BY <1>1 DEF Init, TypeOK
<1>3. Connected /\ Working
  BY DEF Init, Connected, Working
<1>4. \A n \in Notes, x \in Places : ~At(n, x)
  BY <1>1 DEF Init, Places, At, Held, Queued, Delivered, Notes
<1>5. Sent
  BY <1>4 DEF Sent
<1>6. InOnePlace
  BY DEF Init, InOnePlace, Notes
<1>7. Ordered
  BY <1>1 DEF Init, Ordered, BySender, Delivered, Queued
<1> QED
  BY <1>2, <1>3, <1>5, <1>6, <1>7 DEF IInv

LEMMA NextIInv == IInv /\ [Next]_vars => IInv'
<1> SUFFICES ASSUME IInv, [Next]_vars PROVE IInv'
  OBVIOUS
<1>1. CASE \E c \in Conns : ConnNext(c)
  BY <1>1, RecvStep, LookupStep, SendStep DEF ConnNext
<1>2. CASE \E d \in Dests : WorkerNext(d)
  BY <1>2, TakeStep, ConnectStep, WriteStep, StopStep DEF WorkerNext
<1>3. CASE ShutdownBegin \/ ShutdownEnd \/ \E d \in Dests : Tell(d)
  BY <1>3, ShutdownSteps
<1>4. CASE \E d \in Dests, p \in {"up", "stuck", "down"} : PeerChange(d, p)
  BY <1>4, PeerStep
<1>5. CASE UNCHANGED vars
  <2>1. UNCHANGED <<cpc, dest, count, queue, wi, got, failed>> /\ TypeOK' /\ Working'
    BY <1>5 DEF IInv, TypeOK, Working, vars, relayVars, connVars, workerVars, destVars
  <2> QED
    BY <2>1, OtherSteps
<1> QED
  BY <1>1, <1>2, <1>3, <1>4, <1>5 DEF Next

\* The invariant of the relay.
THEOREM Invariance == Spec => []IInv
BY InitIInv, NextIInv, PTL DEF Spec

\* The relay's variables have their types; no queue outgrows its channel
\* (self.wi <- dnstring waits), whatever the connections and the workers do.
THEOREM TypeCorrect == Spec => []TypeOK
<1>1. IInv => TypeOK
  BY DEF IInv
<1> QED
  BY <1>1, Invariance, PTL

\* No notification is lost or doubled between the connection that read it
\* (Recv_dnotify) and the destination or the logged error of its worker
\* (deliver_dnotify), whenever Shutdown runs.
THEOREM NotesAreInOnePlace == Spec => []InOnePlace
<1>1. IInv => InOnePlace
  BY DEF IInv
<1> QED
  BY <1>1, Invariance, PTL

\* What a destination receives from one connection has the order in which the
\* connection read it: the channel and the single worker keep the order.
THEOREM OrderOfSenders == Spec => []SenderOrderKept
<1>1. IInv => SenderOrderKept
  BY DEF IInv, Ordered, BySender, Before, SenderOrderKept
<1> QED
  BY <1>1, Invariance, PTL
=============================================================================
