---------------------------- MODULE MemberSlices ----------------------------
(***************************************************************************)
(* The member lists of a cluster with the arrays behind them               *)
(* (rtp_cluster.go, and reload and ls of rtp_cluster_cli.go).              *)
(*                                                                         *)
(* A Go slice is an array and a length.  The operations that hold the      *)
(* cluster lock append in the array and remove by shifting it in place.    *)
(* The goroutines here called threads take a slice without the lock, that  *)
(* is, they copy the length and keep using the array:                      *)
(*   - is_in_active reads entry after entry;                               *)
(*   - rtpp_by_name and all_members append the pending members to the      *)
(*     active ones, and as the array has room, they write them into it;    *)
(*   - reload runs over that slice and brings members down as it goes;     *)
(*   - ls sorts the active members in place.                               *)
(***************************************************************************)
EXTENDS Integers, Sequences, FiniteSets

CONSTANTS
  Members,   \* the member objects, ordered as their names are
  Threads,   \* connections and handlers that use the lists without the lock
  Obsolete,  \* the members the configuration no longer has
  NoMember   \* the contents of an array where nothing was written

ASSUME SlicesAssumption ==
  /\ IsFiniteSet(Members) /\ Members \subseteq Int
  /\ Obsolete \subseteq Members /\ NoMember \notin Members

\* The room of the arrays: 1000 in the code, here enough for all members.
Room == Cardinality(Members)

VARIABLES
  active, pending, \* the slices
  created, gone,   \* members that were added, and those removed again
  pc,              \* what a thread does
  header,          \* the lengths it copied: of active and of pending
  i,               \* the entry it is at
  item,            \* the member it looks for
  (* history *)
  others,          \* what the others did to active since it began: only
                   \* appended, or more
  seen,            \* what it should meet as the lists were when it began:
                   \* the member it looks for, or all entries it runs over
  down,            \* members its reload took out of active, or tried to
  torn             \* an entry of active may have been overwritten

slices  == <<active, pending>>
local   == <<pc, header, i, item>>
history == <<others, seen, down, torn>>
members == <<created, gone>>
vars    == <<slices, members, local, history>>

Slice == [a : [1 .. Room -> Members \cup {NoMember}], n : 0 .. Room]
Doings == {"nothing", "append", "more"}
Steps == {"idle", "scan", "copy_find", "find", "copy_reload", "reload",
          "less", "swap", "panic"}

Items(s) == SubSeq(s.a, 1, s.n)
Listed(s) == {s.a[k] : k \in 1 .. s.n}

TypeOK ==
  /\ active \in Slice /\ pending \in Slice
  /\ created \in SUBSET Members /\ gone \in SUBSET created
  /\ pc \in [Threads -> Steps]
  /\ header \in [Threads -> (0 .. Room) \X (0 .. Room + 2)]
  /\ i \in [Threads -> 0 .. Room + 2]
  /\ item \in [Threads -> Members \cup {NoMember}]
  /\ others \in [Threads -> Doings]
  /\ seen \in [Threads -> Seq(Members \cup {NoMember})]
  /\ down \in [Threads -> SUBSET Members]
  /\ torn \in BOOLEAN

Empty == [a |-> [k \in 1 .. Room |-> NoMember], n |-> 0]

Init ==
  /\ active = Empty /\ pending = Empty /\ created = {} /\ gone = {}
  /\ pc = [t \in Threads |-> "idle"]
  /\ header = [t \in Threads |-> <<0, 0>>]
  /\ i = [t \in Threads |-> 0]
  /\ item = [t \in Threads |-> NoMember]
  /\ others = [t \in Threads |-> "nothing"]
  /\ seen = [t \in Threads |-> <<>>]
  /\ down = [t \in Threads |-> {}]
  /\ torn = FALSE

\* append(s, m) with room in the array.
append(s, m) == [a |-> [s.a EXCEPT ![s.n + 1] = m], n |-> s.n + 1]

\* Mutation: the length is not taken back.
DeleteKeepsLength(s, k) ==
  [s EXCEPT !.a = [j \in 1 .. Room |-> IF k <= j /\ j < s.n THEN s.a[j + 1] ELSE s.a[j]]]

\* Mutation: append(s[:k+1], s[k+2:]...), one entry too far.
DeleteNext(s, k) ==
  [a |-> [j \in 1 .. Room |-> IF k < j /\ j < s.n THEN s.a[j + 1] ELSE s.a[j]],
   n |-> s.n - 1]

\* append(s[:k], s[k+1:]...): the entries after place k move down, and what
\* was the last entry stays behind the new end.
delete(s, k) ==
  [a |-> [j \in 1 .. Room |-> IF k <= j /\ j < s.n THEN s.a[j + 1] ELSE s.a[j]],
   n |-> s.n - 1]

IsFirst(s, m, k) == k \in 1 .. s.n /\ s.a[k] = m /\ \A j \in 1 .. k - 1 : s.a[j] # m

\* What the threads at work among ts see being done by another; what they
\* began with is forgotten where it no longer matters.
Note(ts, what) ==
  LET misled(t) == t \in ts /\ pc[t] \notin {"idle", "less", "swap"}
      dropped(t) == misled(t) /\ (what = "more" \/ pc[t] # "scan")
  IN  /\ others' = [t \in Threads |->
                      IF misled(t) /\ others[t] # "more" THEN what ELSE others[t]]
      /\ seen' = [t \in Threads |-> IF dropped(t) THEN <<>> ELSE seen[t]]

-----------------------------------------------------------------------------
(* Under the lock: additions and what the clients of members report.       *)

append_active(m) ==
  /\ m \notin created /\ created' = created \cup {m}
  /\ active' = append(active, m)
  /\ Note(Threads, "append")
  /\ UNCHANGED <<pending, gone, local, down, torn>>

append_pending(m) ==
  /\ m \notin created /\ created' = created \cup {m}
  /\ pending' = append(pending, m)
  /\ UNCHANGED <<active, gone, local, history>>

move_to_active(m) ==
  \E k \in 1 .. pending.n :
    /\ IsFirst(pending, m, k)
    /\ pending' = delete(pending, k)
    /\ active' = append(active, m)
    /\ Note(Threads, "append")
    /\ UNCHANGED <<members, local, down, torn>>

move_to_pending(m) ==
  \E k \in 1 .. active.n :
    /\ IsFirst(active, m, k)
    /\ active' = delete(active, k)
    /\ pending' = append(pending, m)
    /\ Note(Threads, "more")
    /\ UNCHANGED <<members, local, down, torn>>

-----------------------------------------------------------------------------
(* Without the lock.                                                       *)

\* A thread begins: it copies the lengths.
Begin(t, step, m) ==
  /\ pc[t] = "idle"
  /\ pc' = [pc EXCEPT ![t] = step]
  /\ header' = [header EXCEPT ![t] = <<active.n, IF step = "less" THEN 2 ELSE pending.n>>]
  /\ i' = [i EXCEPT ![t] = IF step = "less" THEN 2 ELSE 1]
  /\ item' = [item EXCEPT ![t] = m]
  /\ others' = [others EXCEPT ![t] = "nothing"]
  /\ seen' = [seen EXCEPT ![t] =
                CASE step = "scan"        -> IF m \in Listed(active) THEN <<m>> ELSE <<>>
                  [] step = "copy_find"   -> IF m \in Listed(active) \cup Listed(pending)
                                               THEN <<m>> ELSE <<>>
                  [] step = "copy_reload" -> Items(active) \o Items(pending)
                  [] step = "less"        -> <<>>]
  /\ down' = [down EXCEPT ![t] = {}]
  /\ UNCHANGED <<slices, members, torn>>

\* It ends and forgets: a look-up that stops before the end has found its
\* member.
End(t) ==
  /\ pc' = [pc EXCEPT ![t] = "idle"]
  /\ header' = [header EXCEPT ![t] = <<0, 0>>]
  /\ i' = [i EXCEPT ![t] = 0]
  /\ item' = [item EXCEPT ![t] = NoMember]
  /\ others' = [others EXCEPT ![t] = "nothing"]
  /\ seen' = [seen EXCEPT ![t] = <<>>]
  /\ down' = [down EXCEPT ![t] = {}]
  /\ UNCHANGED <<slices, members, torn>>

Advance(t) ==
  /\ i' = [i EXCEPT ![t] = @ + 1]
  /\ UNCHANGED <<slices, members, pc, header, item, history>>

\* for _, v := range self.active { if rtpp == v ...
is_in_active(t) ==
  /\ pc[t] = "scan"
  /\ IF i[t] > header[t][1] \/ active.a[i[t]] = item[t] THEN End(t) ELSE Advance(t)

\* Mutation: one entry too early, over the last active member.
CopyOverLast(t, after) ==
  LET n == IF header[t][1] = 0 THEN 0 ELSE header[t][1] - 1
  IN  /\ active' = [active EXCEPT !.a =
                      [k \in 1 .. Room |-> IF k \in n + 1 .. n + header[t][2]
                                             THEN pending.a[k - n] ELSE @[k]]]
      /\ pc' = [pc EXCEPT ![t] = after]
      /\ UNCHANGED <<pending, members, header, i, item, history>>

\* The threads for which the pending members are not, or may no longer be,
\* where thread t writes them.
Elsewhere(t) ==
  {u \in Threads \ {t} : pc[u] = "reload" \/ header[u][1] # header[t][1]}

\* append(self.active, self.pending...): the pending members are written
\* behind the length the thread has seen, wherever active ends by now.
Copy(t, after) ==
  LET n == header[t][1]
  IN  /\ active' = [active EXCEPT !.a =
                      [k \in 1 .. Room |-> IF k \in n + 1 .. n + header[t][2]
                                             THEN pending.a[k - n] ELSE @[k]]]
      /\ pc' = [pc EXCEPT ![t] = after]
      /\ IF header[t][2] > 0
           THEN /\ Note(Elsewhere(t), IF n < active.n THEN "more" ELSE "append")
                /\ torn' = (torn \/ n < active.n)
           ELSE UNCHANGED <<others, seen, torn>>
      /\ UNCHANGED <<pending, members, header, i, item, down>>

all_members(t) ==
  \/ pc[t] = "copy_find" /\ Copy(t, "find")
  \/ pc[t] = "copy_reload" /\ Copy(t, "reload")

\* The loop of rtpp_by_name.
rtpp_by_name(t) ==
  /\ pc[t] = "find"
  /\ IF i[t] > header[t][1] + header[t][2] \/ active.a[i[t]] = item[t]
       THEN End(t) ELSE Advance(t)

\* bring_down in the loop of reload: an idle member is taken out of its list,
\* a busy one of active stays and drains.  Its own scan is is_in_active above;
\* what the interleavings of bring_down lead to is in Cluster.
bring_down(t, m) ==
  \/ \E k \in 1 .. active.n :
       /\ IsFirst(active, m, k)
       /\ \/ active' = delete(active, k) /\ gone' = gone \cup {m} /\ Note(Threads \ {t}, "more")
          \/ UNCHANGED <<active, gone, others, seen>>
       /\ UNCHANGED pending
  \/ \E k \in 1 .. pending.n :
       /\ m \notin Listed(active) /\ IsFirst(pending, m, k)
       /\ pending' = delete(pending, k) /\ gone' = gone \cup {m} /\ Note(Threads \ {t}, "more")
       /\ UNCHANGED active
  \/ /\ m \notin Listed(active) \cup Listed(pending)
     /\ gone' = gone \cup {m}
     /\ UNCHANGED <<slices, others, seen>>

\* Mutation: it runs over the active members only.
ReloadActiveOnly(t) ==
  /\ pc[t] = "reload"
  /\ IF i[t] > header[t][1] THEN End(t)
     ELSE LET m == active.a[i[t]]
          IN  IF m \notin Obsolete THEN Advance(t)
              ELSE /\ bring_down(t, m)
                   /\ i' = [i EXCEPT ![t] = @ + 1]
                   /\ down' = [down EXCEPT ![t] = IF others[t] = "nothing" THEN @ \cup {m}
                                                                           ELSE {}]
                   /\ UNCHANGED <<created, pc, header, item, torn>>

reload(t) ==
  /\ pc[t] = "reload"
  /\ IF i[t] > header[t][1] + header[t][2] THEN End(t)
     ELSE LET m == active.a[i[t]]
          IN  IF m \notin Obsolete THEN Advance(t)
              ELSE /\ bring_down(t, m)
                   /\ i' = [i EXCEPT ![t] = @ + 1]
                   /\ down' = [down EXCEPT ![t] = IF others[t] = "nothing" THEN @ \cup {m}
                                                                           ELSE {}]
                   /\ UNCHANGED <<created, pc, header, item, torn>>

\* sort.Slice, an insertion sort of so few entries; header[t][2] is the entry
\* that is sorted in.  The comparison indexes the list as it is now, and
\* panics beyond its end; the exchange uses the slice that was passed.
NextEntry(t) ==
  LET next == header[t][2] + 1
  IN  header' = [header EXCEPT ![t][2] = next] /\ i' = [i EXCEPT ![t] = next]

SortLess(t) ==
  /\ pc[t] = "less"
  /\ IF header[t][2] > header[t][1] THEN End(t)
     ELSE /\ IF i[t] > active.n
               THEN pc' = [pc EXCEPT ![t] = "panic"] /\ UNCHANGED <<header, i>>
             ELSE IF active.a[i[t]] < active.a[i[t] - 1]
               THEN pc' = [pc EXCEPT ![t] = "swap"] /\ UNCHANGED <<header, i>>
             ELSE NextEntry(t) /\ UNCHANGED pc
          /\ UNCHANGED <<slices, members, item, history>>

SortSwap(t) ==
  /\ pc[t] = "swap"
  /\ LET j == i[t]
     IN  /\ active' = [active EXCEPT !.a = [@ EXCEPT ![j] = active.a[j - 1],
                                                     ![j - 1] = active.a[j]]]
         /\ torn' = (torn \/ j = active.n + 1)
         /\ IF j > 2 THEN i' = [i EXCEPT ![t] = j - 1] /\ UNCHANGED header
                     ELSE NextEntry(t)
  /\ pc' = [pc EXCEPT ![t] = "less"]
  /\ Note(Threads \ {t}, "more")
  /\ UNCHANGED <<pending, members, item, down>>

Locked(m) == append_active(m) \/ append_pending(m) \/ move_to_active(m) \/ move_to_pending(m)

Start(t) ==
  \/ \E m \in created : Begin(t, "scan", m) \/ Begin(t, "copy_find", m)
  \/ Begin(t, "copy_reload", NoMember)
  \/ Begin(t, "less", NoMember)

Unlocked(t) ==
  \/ Start(t) \/ is_in_active(t) \/ all_members(t) \/ rtpp_by_name(t) \/ reload(t)
  \/ SortLess(t) \/ SortSwap(t)

Next ==
  /\ \A t \in Threads : pc[t] # "panic"
  /\ (\E m \in Members : Locked(m)) \/ (\E t \in Threads : Unlocked(t))

Spec == Init /\ [][Next]_vars

-----------------------------------------------------------------------------
(* Properties.                                                             *)

Lists == INSTANCE MemberLists WITH active <- Items(active), pending <- Items(pending)

\* In spite of the shared arrays the lists behave as values, but for entries
\* of active that are overwritten or exchanged.
ActsAsLists == Lists!Spec

\* What may be overwritten is limited: as long as no read of all members
\* overlapped an addition to active, and no ls a removal, every member that
\* was added and not removed is listed, and listed once.
ListedOnceUnlessTorn ==
  LET all == Items(active) \o Items(pending)
  IN  ~ torn => /\ {all[k] : k \in DOMAIN all} = created \ gone
                /\ \A j, k \in DOMAIN all : all[j] = all[k] => j = k

\* is_in_active can be trusted unless a member leaves active, ls sorts it or
\* a read overwrites an entry meanwhile: additions alone do not mislead it.
\* rtpp_by_name can be trusted if nothing at all is done to active meanwhile.
CalmLookupsExact ==
  [][\A t \in Threads :
       /\ pc[t] = "scan" /\ pc'[t] = "idle" /\ others[t] # "more" =>
            (i[t] <= header[t][1] <=> seen[t] = <<item[t]>>)
       /\ pc[t] = "find" /\ pc'[t] = "idle" /\ others[t] = "nothing" =>
            (i[t] <= header[t][1] + header[t][2] <=> seen[t] = <<item[t]>>)]_vars

\* A reload that nobody disturbs misses a member the configuration no longer
\* has only if it took out the member listed before it; so it never misses
\* all of them, and repeating it gets rid of every one.
SkippedBehindRemoved ==
  [][\A t \in Threads :
       pc[t] = "reload" /\ pc'[t] = "idle" /\ others[t] = "nothing" /\ ~ torn =>
         \A k \in DOMAIN seen[t] :
           seen[t][k] \in Obsolete \ down[t]
             => /\ k \in 2 .. header[t][1]
                /\ seen[t][k - 1] \in down[t] \cap gone]_vars
=============================================================================
