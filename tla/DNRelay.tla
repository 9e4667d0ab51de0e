------------------------------ MODULE DNRelay ------------------------------
(***************************************************************************)
(* The relay for disconnect notifications (dnrelay.go).  RTPproxies connect*)
(* to it and send notifications, each for one destination socket.  Every   *)
(* destination has a worker with a queue; the first notification for it    *)
(* creates the worker.  A connection puts its notification into the queue  *)
(* without the relay's lock and waits while the queue is full.             *)
(*                                                                         *)
(* Shutdown, called when the configuration changes, tells the workers to   *)
(* stop and drops the map of workers, without the lock.  It closes the     *)
(* listening socket; the connections there are go on.                      *)
(*                                                                         *)
(* The destinations are not part of the source: one may be restarted or    *)
(* stop reading at any time.                                               *)
(***************************************************************************)
EXTENDS Integers, Sequences, SequencesExt

CONSTANTS
  Conns,      \* the connections of RTPproxies
  Dests,      \* the destinations, the keys of the map of workers
  DestsOf,    \* those each connection has notifications for
  Faulty,     \* the destinations that may go down or stop reading
  QueueSize,  \* 1000 in the code
  MaxNotes,   \* bound on the notifications of one connection
  NoNote, NoDest

ASSUME DNRelayAssumption ==
  /\ Faulty \subseteq Dests
  /\ DestsOf \in [Conns -> SUBSET Dests]
  /\ QueueSize \in Nat \ {0} /\ MaxNotes \in Nat
  /\ NoNote \notin Conns \X Nat /\ NoDest \notin Dests

VARIABLES
  relay,       \* "up", "stopping" (inside Shutdown), "down", "panic"
  workers,     \* the keys of the map; it is nil when the relay is down
  tostop,      \* the workers the loop of Shutdown has yet to tell
  cpc, dest,   \* where a connection is, and the destination it sends to
  count,       \* the number of notifications a connection has sent
  queue,       \* the channel wi of the destination's worker
  wpc, wi,     \* where the worker is, and the notification it delivers
  told,        \* the worker's shutdown_chan holds a value
  s,           \* the worker's socket: "nil", "open" or "broken"
  peer,        \* the destination: "up", "stuck" (does not read) or "down"
  got,         \* history: what the destination received, in order
  failed       \* history: what its worker failed to deliver

relayVars  == <<relay, workers, tostop>>
connVars   == <<cpc, dest, count>>
workerVars == <<queue, wpc, wi, told, s>>
destVars   == <<peer, got, failed>>
vars       == <<relayVars, connVars, workerVars, destVars>>

Notes == Conns \X (1 .. MaxNotes)

\* The notification a connection is working on.
Note(c) == <<c, count[c]>>

TypeOK ==
  /\ relay \in {"up", "stopping", "down", "panic"}
  /\ workers \subseteq Dests /\ tostop \subseteq workers
  /\ cpc \in [Conns -> {"idle", "lookup", "send"}]
  /\ dest \in [Conns -> Dests \cup {NoDest}]
  /\ count \in [Conns -> 0 .. MaxNotes]
  /\ queue \in [Dests -> Seq(Notes)]
  /\ \A d \in Dests : Len(queue[d]) <= QueueSize
  /\ wpc \in [Dests -> {"none", "idle", "deliver", "write", "gone"}]
  /\ wi \in [Dests -> Notes \cup {NoNote}]
  /\ told \in [Dests -> BOOLEAN]
  /\ s \in [Dests -> {"nil", "open", "broken"}]
  /\ peer \in [Dests -> {"up", "stuck", "down"}]
  /\ got \in [Dests -> Seq(Notes)]
  /\ failed \in [Dests -> SUBSET Notes]

\* NewDNRelay.
Init ==
  /\ relay = "up" /\ workers = {} /\ tostop = {}
  /\ cpc = [c \in Conns |-> "idle"]
  /\ dest = [c \in Conns |-> NoDest]
  /\ count = [c \in Conns |-> 0]
  /\ queue = [d \in Dests |-> <<>>]
  /\ wpc = [d \in Dests |-> "none"]
  /\ wi = [d \in Dests |-> NoNote]
  /\ told = [d \in Dests |-> FALSE]
  /\ s = [d \in Dests |-> "nil"]
  /\ peer = [d \in Dests |-> "up"]
  /\ got = [d \in Dests |-> <<>>]
  /\ failed = [d \in Dests |-> {}]

Alive == relay # "panic"

-----------------------------------------------------------------------------
(* Recv_dnotify, in the goroutine of a connection.                         *)

\* A notification is read and split.  (One without a space would make the
\* process panic; up_command puts one into every tag it rewrites.)
Recv(c) ==
  /\ Alive /\ cpc[c] = "idle" /\ count[c] < MaxNotes
  /\ \E d \in DestsOf[c] : dest' = [dest EXCEPT ![c] = d]
  /\ count' = [count EXCEPT ![c] = @ + 1]
  /\ cpc' = [cpc EXCEPT ![c] = "lookup"]
  /\ UNCHANGED <<relayVars, workerVars, destVars>>

\* newDNWorker: the goroutine of the worker runs.
StartWorker(d) ==
  /\ workers' = workers \cup {d}
  /\ wpc' = [wpc EXCEPT ![d] = "idle"]

\* Mutation: the lock is kept while another connection waits for room.
LookupWaitsForSenders(c) ==
  /\ Alive /\ cpc[c] = "lookup"
  /\ \A x \in Conns : cpc[x] # "send"
  /\ cpc' = [cpc EXCEPT ![c] = "send"]
  /\ \/ dest[c] \in workers /\ UNCHANGED <<relayVars, wpc>>
     \/ /\ dest[c] \notin workers /\ relay = "up"
        /\ StartWorker(dest[c]) /\ UNCHANGED <<relay, tostop>>
  /\ UNCHANGED <<dest, count, queue, wi, told, s, destVars>>

\* Mutation: a new worker takes the place of the one there is.
LookupReplaces(c) ==
  /\ Alive /\ cpc[c] = "lookup" /\ relay = "up"
  /\ StartWorker(dest[c])
  /\ queue' = [queue EXCEPT ![dest[c]] = <<>>]
  /\ cpc' = [cpc EXCEPT ![c] = "send"]
  /\ UNCHANGED <<relay, tostop, dest, count, wi, told, s, destVars>>

\* The worker is looked up under the lock and created if there is none.
\* During the loop of Shutdown a new entry may be seen by the loop or not, or
\* the runtime may stop the process; afterwards the map is nil.
Lookup(c) ==
  LET d == dest[c] IN
  /\ Alive /\ cpc[c] = "lookup"
  /\ cpc' = [cpc EXCEPT ![c] = "send"]
  /\ \/ d \in workers /\ UNCHANGED <<relayVars, wpc>>
     \/ /\ d \notin workers /\ relay \in {"up", "stopping"}
        /\ StartWorker(d)
        /\ tostop' \in IF relay = "up" THEN {tostop}
                                       ELSE {tostop, tostop \cup {d}}
        /\ UNCHANGED relay
     \/ /\ d \notin workers /\ relay \in {"stopping", "down"}
        /\ relay' = "panic"
        /\ UNCHANGED <<workers, tostop, wpc>>
  /\ UNCHANGED <<dest, count, queue, wi, told, s, destVars>>

Enqueue(c) ==
  /\ queue' = [queue EXCEPT ![dest[c]] = Append(@, Note(c))]
  /\ cpc' = [cpc EXCEPT ![c] = "idle"]
  /\ dest' = [dest EXCEPT ![c] = NoDest]
  /\ UNCHANGED <<relayVars, count, wpc, wi, told, s, destVars>>

\* Mutation: the queue has no limit.
SendWithoutLimit(c) == Alive /\ cpc[c] = "send" /\ Enqueue(c)

\* self.wi <- dnstring: waits while the queue is full.
Send_denotify(c) ==
  /\ Alive /\ cpc[c] = "send" /\ Len(queue[dest[c]]) < QueueSize
  /\ Enqueue(c)

-----------------------------------------------------------------------------
(* The goroutine of a worker: run, deliver_dnotify, Connect.               *)

\* The worker is done with its notification.
Next_wi(d) ==
  /\ wpc' = [wpc EXCEPT ![d] = "idle"]
  /\ wi' = [wi EXCEPT ![d] = NoNote]

\* An error is logged and the notification forgotten.
Fail(d) ==
  /\ failed' = [failed EXCEPT ![d] = @ \cup {wi[d]}]
  /\ Next_wi(d)

Take(d) ==
  /\ Alive /\ wpc[d] = "idle" /\ queue[d] # <<>>
  /\ wi' = [wi EXCEPT ![d] = Head(queue[d])]
  /\ queue' = [queue EXCEPT ![d] = Tail(@)]
  /\ wpc' = [wpc EXCEPT ![d] = IF s[d] = "nil" THEN "deliver" ELSE "write"]
  /\ UNCHANGED <<relayVars, connVars, told, s, destVars>>

Connect(d) ==
  /\ Alive /\ wpc[d] = "deliver"
  /\ IF peer[d] = "down"
       THEN Fail(d) /\ UNCHANGED s
       ELSE /\ s' = [s EXCEPT ![d] = "open"]
            /\ wpc' = [wpc EXCEPT ![d] = "write"]
            /\ UNCHANGED <<wi, failed>>
  /\ UNCHANGED <<relayVars, connVars, queue, told, peer, got>>

\* Mutation: a write that was interrupted is repeated from its start.
WriteAgain(d) ==
  /\ Alive /\ wpc[d] = "write"
  /\ \/ /\ s[d] = "open" /\ peer[d] = "up"
        /\ got' = [got EXCEPT ![d] = Append(@, wi[d])]
        /\ Next_wi(d) \/ UNCHANGED <<wpc, wi>>
        /\ UNCHANGED failed
     \/ s[d] = "broken" /\ Fail(d) /\ UNCHANGED got
  /\ UNCHANGED <<relayVars, connVars, queue, told, s, peer>>

\* Write blocks while the destination does not read.  Its errors are wrapped
\* by the net package and equal none of the errno values the code looks for:
\* there is no second try, and a broken socket is kept.
Write(d) ==
  /\ Alive /\ wpc[d] = "write"
  /\ \/ /\ s[d] = "open" /\ peer[d] = "up"
        /\ got' = [got EXCEPT ![d] = Append(@, wi[d])]
        /\ Next_wi(d) /\ UNCHANGED failed
     \/ s[d] = "broken" /\ Fail(d) /\ UNCHANGED got
  /\ UNCHANGED <<relayVars, connVars, queue, told, s, peer>>

\* select takes shutdown_chan, also when there is work.
Stop(d) ==
  /\ Alive /\ wpc[d] = "idle" /\ told[d]
  /\ told' = [told EXCEPT ![d] = FALSE]
  /\ wpc' = [wpc EXCEPT ![d] = "gone"]
  /\ UNCHANGED <<relayVars, connVars, queue, wi, s, destVars>>

-----------------------------------------------------------------------------
(* Shutdown.                                                               *)

\* for _, rworker := range self.workers
ShutdownBegin ==
  /\ relay = "up"
  /\ relay' = "stopping" /\ tostop' = workers
  /\ UNCHANGED <<workers, connVars, workerVars, destVars>>

\* Mutation: a worker that does not wait for the value misses it.
TellIfIdle(d) ==
  /\ relay = "stopping" /\ d \in tostop
  /\ told' = [told EXCEPT ![d] = wpc[d] = "idle"]
  /\ tostop' = tostop \ {d}
  /\ UNCHANGED <<relay, workers, connVars, queue, wpc, wi, s, destVars>>

\* rworker.shutdown_chan <- true: the channel has room for one value.
Tell(d) ==
  /\ relay = "stopping" /\ d \in tostop
  /\ told' = [told EXCEPT ![d] = TRUE]
  /\ tostop' = tostop \ {d}
  /\ UNCHANGED <<relay, workers, connVars, queue, wpc, wi, s, destVars>>

\* clim.Shutdown() and self.workers = nil.
ShutdownEnd ==
  /\ relay = "stopping" /\ tostop = {}
  /\ relay' = "down" /\ workers' = {}
  /\ UNCHANGED <<tostop, connVars, workerVars, destVars>>

(* The destinations.                                                       *)

PeerChange(d, p) ==
  /\ Alive /\ d \in Faulty /\ p # peer[d]
  /\ peer' = [peer EXCEPT ![d] = p]
  /\ s' = [s EXCEPT ![d] = IF p = "down" /\ @ = "open" THEN "broken" ELSE @]
  /\ UNCHANGED <<relayVars, connVars, queue, wpc, wi, told, got, failed>>

-----------------------------------------------------------------------------
ConnNext(c) == Recv(c) \/ Lookup(c) \/ Send_denotify(c)

WorkerNext(d) == Take(d) \/ Connect(d) \/ Write(d) \/ Stop(d)

Next ==
  \/ \E c \in Conns : ConnNext(c)
  \/ \E d \in Dests : WorkerNext(d) \/ Tell(d)
  \/ ShutdownBegin \/ ShutdownEnd
  \/ \E d \in Dests, p \in {"up", "stuck", "down"} : PeerChange(d, p)

Spec == Init /\ [][Next]_vars

\* Goroutines that can run do.  (With unboundedly many notifications Stop
\* would need strong fairness: select chooses at random.)
Fairness ==
  /\ \A c \in Conns : WF_vars(Lookup(c)) /\ WF_vars(Send_denotify(c))
  /\ \A d \in Dests : /\ WF_vars(Take(d) \/ Connect(d) \/ Write(d))
                      /\ WF_vars(Stop(d))
                      /\ WF_vars(Tell(d))

FairSpec == Spec /\ Fairness

-----------------------------------------------------------------------------
(* Properties.                                                             *)

\* Where a notification can be.
Held(d)      == {Note(c) : c \in {x \in Conns : cpc[x] # "idle" /\ dest[x] = d}}
Queued(d)    == ToSet(queue[d])
Delivered(d) == ToSet(got[d])

Places == {"held", "queued", "taken", "got", "failed"} \X Dests

At(n, x) ==
  LET d == x[2] IN
  \/ x[1] = "held"   /\ n \in Held(d)
  \/ x[1] = "queued" /\ n \in Queued(d)
  \/ x[1] = "taken"  /\ n = wi[d]
  \/ x[1] = "got"    /\ n \in Delivered(d)
  \/ x[1] = "failed" /\ n \in failed[d]

\* A notification is never lost or doubled on its way: it is with its
\* connection, in one queue, with the worker, received or reported as failed,
\* and in exactly one of these places.
InOnePlace ==
  \A n \in Notes : n[2] <= count[n[1]] =>
    \E x \in Places : \A y \in Places : At(n, y) <=> y = x

\* A destination receives what one connection sent in the order it was sent,
\* each notification once.
SenderOrderKept ==
  \A d \in Dests : \A i, j \in DOMAIN got[d] :
    i < j /\ got[d][i][1] = got[d][j][1] => got[d][i][2] < got[d][j][2]

\* A notification for a destination that is up and reads is delivered,
\* whatever other destinations do: connections that wait for the queue of one
\* do not hold up those that send to another.
HealthyServed ==
  \A c \in Conns : \A d \in Dests \ Faulty : \A n \in 1 .. MaxNotes :
    (cpc[c] = "lookup" /\ dest[c] = d /\ count[c] = n)
      ~> (<<c, n>> \in Delivered(d) \/ relay # "up")

\* A worker the loop of Shutdown comes to stops, if its destination reads.
ToldWorkersStop ==
  \A d \in Dests \ Faulty :
    d \in tostop ~> (wpc[d] = "gone" \/ relay = "panic")
=============================================================================
