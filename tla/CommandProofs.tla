---------------------------- MODULE CommandProofs ----------------------------
(***************************************************************************)
(* What the sender of a command is promised.                               *)
(*                                                                         *)
(* Broadcast, for any number of members: bcount is the number of members   *)
(* still to be counted, so exactly one callback finishes, and what it      *)
(* replies fits the members whose statistics were added up.                *)
(*                                                                         *)
(* CommandCache, for any sets of cookies, handlers and replies, whether or *)
(* not commands may go unanswered: where every reply and every cookie in   *)
(* flight is.                                                              *)
(*                                                                         *)
(* PickProxy, for any number of members and any weights, capacities, loads *)
(* and rounding: whom a new session goes to.  The recorded sums tie the    *)
(* loops together: the sum at an available member is the sum before it and *)
(* its own weight, so what is left of the drawn number is positive as long *)
(* as the loop goes on.                                                    *)
(***************************************************************************)
EXTENDS Broadcast, CommandCache, PickProxy, FiniteSetTheorems, TLAPS

-----------------------------------------------------------------------------
(* Broadcasts.                                                             *)

\* A member is in the queue until it was sent to, and its callback takes
\* the steps of its kind.
StepInv ==
  /\ \A m \in queue : pc[m] = "unsent"
  /\ \A m \in Members :
       /\ pc[m] \in {"append", "count_session"} => kind = "session"
       /\ pc[m] \in {"success", "count_stats"} => kind = "stats"
       /\ pc[m] # "unsent" => rtpp \in Members

\* The counter counts; the callback that brought it to zero is alone, and
\* has not replied yet.
CountInv ==
  /\ bcount = Cardinality(Uncounted)
  /\ Uncounted # {} => nparts > 0 /\ replies = <<>>
  /\ \A m \in Members :
       pc[m] = "finish" => Uncounted = {} /\ nparts > 0 /\ replies = <<>>
  /\ \A m, o \in Members : pc[m] = "finish" /\ pc[o] = "finish" => m = o
  /\ Len(replies) <= 1

\* The members whose statistics were not added up, as far as their step and
\* their copy of ecount tell.
NotAdded ==
  queue \cup {m \in Members : \/ pc[m] \in {"sent", "success"}
                              \/ /\ pc[m] \in {"count_stats", "finish", "done"}
                                 /\ ecopy[m] = nparts}

StatsInv ==
  /\ ecount <= nparts
  /\ kind = "session" => ecount = nparts
  /\ Cardinality(NotAdded) <= ecount
  /\ \A m \in Members :
       /\ ecopy[m] <= nparts
       /\ kind = "session" => ecopy[m] = 0
       /\ kind = "stats" /\ pc[m] \in {"success", "count_stats", "finish"}
            => ecount <= ecopy[m]

IInv == TypeOK /\ StepInv /\ CountInv /\ StatsInv /\ StatsReplyJustified

-----------------------------------------------------------------------------
(* Sizes of sets of members.                                               *)

\* Every set of members is finite, its size is between 0 and that of
\* Members, and a subset is not larger.
LEMMA Sizes ==
  ASSUME NEW S \in SUBSET Members, NEW T \in SUBSET S
  PROVE  /\ IsFiniteSet(S) /\ Cardinality(S) \in Nat
         /\ Cardinality(T) \in Nat /\ Cardinality(T) <= Cardinality(S)
         /\ Cardinality(S) <= Cardinality(Members)
         /\ Cardinality(Members) \in Nat
<1>1. IsFiniteSet(Members)
  BY BroadcastAssumption
<1>2. IsFiniteSet(S) /\ Cardinality(S) <= Cardinality(Members)
  BY <1>1, FS_Subset
<1>3. IsFiniteSet(T) /\ Cardinality(T) <= Cardinality(S)
  BY <1>2, FS_Subset
<1> QED
  BY <1>1, <1>2, <1>3, FS_CardinalityType

\* Taking a member out of a set makes it smaller by one.
LEMMA OneLess ==
  ASSUME NEW S \in SUBSET Members, NEW m \in S
  PROVE  Cardinality(S \ {m}) = Cardinality(S) - 1 /\ Cardinality(S) > 0
<1>1. IsFiniteSet(S) /\ Cardinality(S) \in Nat
  BY Sizes
<1>2. Cardinality(S \ {m}) = Cardinality(S) - 1
  BY <1>1, FS_RemoveElement
<1>3. Cardinality(S) # 0
  BY <1>1, FS_EmptySet
<1> QED
  BY <1>1, <1>2, <1>3

\* The sets the invariant counts are sets of members.
LEMMA Counted ==
  ASSUME TypeOK
  PROVE  Uncounted \in SUBSET Members /\ NotAdded \in SUBSET Members
BY DEF TypeOK, Uncounted, NotAdded

-----------------------------------------------------------------------------
(* Each step keeps the invariant.                                          *)

LEMMA InitInv == Init => IInv
<1> SUFFICES ASSUME Init PROVE IInv
  OBVIOUS
<1>1. queue \in SUBSET Members /\ Uncounted = queue /\ NotAdded \subseteq queue
  BY DEF Init, Uncounted, Counting, NotAdded
<1>2. /\ Cardinality(queue) \in Nat /\ Cardinality(queue) <= Cardinality(Members)
      /\ Cardinality(Members) \in Nat /\ IsFiniteSet(queue)
      /\ Cardinality(NotAdded) <= Cardinality(queue)
  BY <1>1, Sizes
<1>3. TypeOK
  BY <1>2, BroadcastAssumption DEF Init, TypeOK, Lengths, Answers, Steps, ReplySet
<1>4. StepInv
  BY DEF Init, StepInv
<1>5. Uncounted # {} => nparts > 0
  BY <1>1, <1>2, FS_EmptySet DEF Init
<1>6. CountInv
  BY <1>1, <1>5 DEF Init, CountInv
<1>7. StatsInv
  BY <1>2 DEF Init, StatsInv
<1>8. StatsReplyJustified
  BY DEF Init, StatsReplyJustified, Replied
<1> QED
  BY <1>3, <1>4, <1>6, <1>7, <1>8 DEF IInv

\* The loop only moves a member from the queue to those that were sent to.
LEMMA SendInv ==
  ASSUME IInv, NEW m \in Members, SendCommand(m)
  PROVE  IInv'
<1> USE DEF IInv
<1>1. TypeOK'
  BY DEF TypeOK, SendCommand, Goto, counters, locals, Steps
<1>2. StepInv'
  BY DEF TypeOK, StepInv, SendCommand, Goto
<1>3. Uncounted' = Uncounted
  BY DEF TypeOK, StepInv, Uncounted, Counting, SendCommand, Goto
<1>4. NotAdded' = NotAdded
  BY DEF TypeOK, StepInv, NotAdded, SendCommand, Goto, locals
<1>5. CountInv'
  BY <1>3 DEF TypeOK, CountInv, SendCommand, Goto, counters
<1>6. StatsInv' 
  BY <1>4 DEF TypeOK, StatsInv, StepInv, SendCommand, Goto, counters, locals
<1>7. StatsReplyJustified'
  BY DEF StatsReplyJustified, Replied, SendCommand, counters
<1> QED
  BY <1>1, <1>2, <1>5, <1>6, <1>7

\* An answer that arrives, or is appended, is not counted yet.
LEMMA ArriveInv ==
  ASSUME IInv, NEW m \in Members, MergeBegin(m) \/ MergeAppend(m) \/ StatsBegin(m)
  PROVE  IInv'
<1> USE DEF IInv
<1>0. \E step \in Counting : pc' = [pc EXCEPT ![m] = step]
  BY DEF MergeBegin, MergeAppend, StatsBegin, Goto, Counting
<1>1. TypeOK'
  <2>1. CASE MergeBegin(m)
    BY <2>1 DEF TypeOK, MergeBegin, Goto, loop, counters, Steps
  <2>2. CASE MergeAppend(m)
    BY <2>2, BroadcastAssumption DEF TypeOK, Lengths, MergeAppend, Goto, loop, counters, locals, Steps
  <2>3. CASE StatsBegin(m)
    <3>1. pc' \in [Members -> Steps]
      BY <1>0 DEF TypeOK, Steps, Counting
    <3>2. stats_cache' \in SUBSET Members
      BY <2>3 DEF TypeOK, StepInv, StatsBegin
    <3>3. ecopy' = [ecopy EXCEPT ![m] = ecount]
      BY <2>3 DEF StatsBegin
    <3> QED
      BY <2>3, <3>1, <3>2, <3>3 DEF TypeOK, StatsBegin, loop, counters
  <2> QED
    BY <2>1, <2>2, <2>3
<1>2. StepInv'
  BY DEF TypeOK, StepInv, MergeBegin, MergeAppend, StatsBegin, Goto, loop
<1>3. Uncounted' = Uncounted
  BY DEF TypeOK, StepInv, Uncounted, Counting, MergeBegin, MergeAppend, StatsBegin, Goto, loop
<1>4. NotAdded' \subseteq NotAdded
  BY DEF TypeOK, StepInv, NotAdded, MergeBegin, MergeAppend, StatsBegin, Goto, loop, locals
<1>5. CountInv'
  BY <1>3 DEF TypeOK, CountInv, MergeBegin, MergeAppend, StatsBegin, Goto, counters, loop
<1>6. Cardinality(NotAdded') <= Cardinality(NotAdded) /\ Cardinality(NotAdded') \in Nat
        /\ Cardinality(NotAdded) \in Nat
  BY <1>4, Counted, Sizes
<1>7. StatsInv'
  <2>1. CASE MergeBegin(m) \/ MergeAppend(m)
    BY <2>1, <1>6 DEF TypeOK, StatsInv, StepInv, MergeBegin, MergeAppend, Goto,
        counters, loop, locals
  <2>2. CASE StatsBegin(m)
    <3>1. ecopy' = [ecopy EXCEPT ![m] = ecount] /\ UNCHANGED <<kind, ecount, nparts>>
            /\ kind = "stats"
      BY <2>2 DEF StatsBegin, counters, loop
    <3>2. \A o \in Members : o # m => pc'[o] = pc[o] /\ ecopy'[o] = ecopy[o]
      BY <1>0, <3>1 DEF TypeOK
    <3> QED
      BY <3>1, <3>2, <1>6 DEF TypeOK, StatsInv
  <2> QED
    BY <2>1, <2>2
<1>8. StatsReplyJustified'
  BY DEF StatsReplyJustified, Replied, MergeBegin, MergeAppend, StatsBegin, counters, loop
<1> QED
  BY <1>1, <1>2, <1>5, <1>7, <1>8

\* Statistics that are added up take their member out of NotAdded and one
\* off ecount.
LEMMA AddInv ==
  ASSUME IInv, NEW m \in Members, StatsAdd(m)
  PROVE  IInv'
<1> USE DEF IInv
<1>1. m \in NotAdded /\ kind = "stats" /\ pc[m] = "success"
  BY DEF NotAdded, StatsAdd, StepInv
<1>2. Cardinality(NotAdded) > 0 /\ Cardinality(NotAdded) \in Nat
        /\ Cardinality(NotAdded \ {m}) = Cardinality(NotAdded) - 1
  BY <1>1, Counted, OneLess, Sizes
<1>3. ecount > 0 /\ ecount \in Nat /\ nparts \in Nat /\ ecount <= nparts
        /\ Cardinality(NotAdded) <= ecount
  BY <1>2, Sizes DEF TypeOK, StatsInv
<1>4. TypeOK'
  <2>1. Cardinality(Members) \in Nat
    BY Sizes
  <2>2. pc' = [pc EXCEPT ![m] = "count_stats"]
    BY DEF StatsAdd, Goto
  <2>3. ecount' \in 0 .. Cardinality(Members) /\ ecopy' \in [Members -> 0 .. Cardinality(Members)]
    <3>1. ecount' \in 0 .. Cardinality(Members)
      BY <1>3, <2>1 DEF TypeOK, StatsAdd
    <3>2. ecopy' = [ecopy EXCEPT ![m] = ecount'] \/ ecopy' = ecopy
      BY DEF StatsAdd
    <3> QED
      BY <3>1, <3>2 DEF TypeOK
  <2> QED
    BY <2>2, <2>3 DEF TypeOK, StatsAdd, loop, Steps
<1>5. StepInv'
  BY DEF TypeOK, StepInv, StatsAdd, Goto, loop
<1>6. Uncounted' = Uncounted
  BY DEF TypeOK, StepInv, Uncounted, Counting, StatsAdd, Goto, loop
<1>7. CountInv'
  BY <1>6 DEF TypeOK, CountInv, StatsAdd, Goto, loop
<1>8. StatsInv'
  <2>1. CASE ecount' = ecount - 1 /\ ecopy' = [ecopy EXCEPT ![m] = ecount']
    <3>1. NotAdded' \subseteq NotAdded \ {m}
      <4>1. m \notin queue' /\ ecopy'[m] # nparts' /\ pc'[m] = "count_stats"
        BY <2>1, <1>3, <1>1 DEF TypeOK, StepInv, StatsAdd, Goto, loop
      <4>2. m \notin NotAdded'
        BY <4>1 DEF NotAdded
      <4>3. NotAdded' \subseteq NotAdded
        BY <2>1, <1>1 DEF TypeOK, NotAdded, StatsAdd, Goto, loop
      <4> QED
        BY <4>2, <4>3
    <3>2. Cardinality(NotAdded') <= Cardinality(NotAdded \ {m})
            /\ Cardinality(NotAdded') \in Nat
      BY <3>1, Counted, Sizes
    <3>3. Cardinality(NotAdded') <= ecount'
      BY <3>2, <2>1, <1>2, <1>3
    <3> QED
      BY <3>3, <2>1, <1>1, <1>3 DEF TypeOK, StatsInv, StatsAdd, Goto, loop
  <2>2. CASE UNCHANGED <<ecount, ecopy>>
    <3>1. NotAdded' \subseteq NotAdded
      BY <2>2 DEF TypeOK, NotAdded, StatsAdd, Goto, loop
    <3>2. Cardinality(NotAdded') <= Cardinality(NotAdded)
            /\ Cardinality(NotAdded') \in Nat
      BY <3>1, Counted, Sizes
    <3> QED
      BY <3>2, <2>2, <1>2, <1>3 DEF TypeOK, StatsInv, StatsAdd, Goto, loop
  <2> QED
    BY <2>1, <2>2 DEF StatsAdd
<1>9. StatsReplyJustified'
  BY <1>6, <1>1 DEF CountInv, Uncounted, Counting, StatsReplyJustified, Replied, StatsAdd
<1> QED
  BY <1>4, <1>5, <1>7, <1>8, <1>9

\* The counter goes down with the set it counts; whoever empties it finishes.
LEMMA CountStepInv ==
  ASSUME IInv, NEW m \in Members, MergeCount(m) \/ StatsCount(m)
  PROVE  IInv' /\ m \in Uncounted /\ Uncounted' = Uncounted \ {m}
<1> USE DEF IInv
<1>1. m \in Uncounted /\ pc[m] \in {"count_session", "count_stats"}
        /\ pc[m] # "unsent"
  BY DEF Uncounted, Counting, MergeCount, StatsCount
<1>2. Cardinality(Uncounted) > 0 /\ Cardinality(Uncounted) \in Nat
        /\ Cardinality(Uncounted \ {m}) = Cardinality(Uncounted) - 1
        /\ bcount = Cardinality(Uncounted) /\ IsFiniteSet(Uncounted \ {m})
  BY <1>1, Counted, OneLess, Sizes DEF CountInv
<1>3. Uncounted' = Uncounted \ {m}
  BY <1>1 DEF TypeOK, StepInv, Uncounted, Counting, MergeCount, StatsCount, Goto, loop
<1>4. bcount' = Cardinality(Uncounted') /\ bcount' \in Nat
  BY <1>2, <1>3 DEF MergeCount, StatsCount
<1>5. IF bcount' > 0 THEN Uncounted' # {} /\ pc' = [pc EXCEPT ![m] = "done"]
                     ELSE Uncounted' = {} /\ pc' = [pc EXCEPT ![m] = "finish"]
  <2>1. Cardinality(Uncounted') = 0 <=> Uncounted' = {}
    BY <1>2, <1>3, FS_EmptySet
  <2> QED
    BY <2>1, <1>4 DEF MergeCount, StatsCount, Goto
<1>6. TypeOK'
  <2>1. bcount' \in 0 .. Cardinality(Members)
    BY <1>2, <1>4, Sizes DEF TypeOK, MergeCount, StatsCount
  <2> QED
    BY <2>1, <1>5 DEF TypeOK, MergeCount, StatsCount, loop, locals, Steps
<1>7. StepInv'
  BY <1>5, <1>1 DEF TypeOK, StepInv, MergeCount, StatsCount, loop
<1>8. CountInv'
  BY <1>1, <1>4, <1>5 DEF TypeOK, CountInv, MergeCount, StatsCount, loop
<1>9. NotAdded' \subseteq NotAdded
  <2>1. UNCHANGED <<queue, nparts, ecopy>>
    BY DEF MergeCount, StatsCount, loop, locals
  <2>2. \A o \in Members : o # m => pc'[o] = pc[o]
    BY <1>5 DEF TypeOK
  <2>3. m \in NotAdded' => m \in NotAdded
    <3>1. CASE pc[m] = "count_stats"
      BY <3>1, <2>1, <1>5 DEF TypeOK, NotAdded
    <3>2. CASE pc[m] = "count_session"
      <4>1. ecopy[m] = 0 /\ nparts > 0 /\ m \notin queue
        BY <3>2, <1>1 DEF StepInv, StatsInv, CountInv
      <4>2. pc'[m] \in {"done", "finish"}
        BY <1>5 DEF TypeOK
      <4> QED
        BY <4>1, <4>2, <2>1 DEF NotAdded
    <3> QED
      BY <3>1, <3>2, <1>1
  <2> QED
    BY <2>1, <2>2, <2>3 DEF TypeOK, NotAdded
<1>10. Cardinality(NotAdded') <= Cardinality(NotAdded) /\ Cardinality(NotAdded') \in Nat
        /\ Cardinality(NotAdded) \in Nat
  BY <1>9, Counted, Sizes
<1>11. StatsInv'
  BY <1>10, <1>5, <1>1 DEF TypeOK, StatsInv, StepInv, MergeCount, StatsCount, loop, locals
<1>12. StatsReplyJustified'
  BY DEF StatsReplyJustified, Replied, MergeCount, StatsCount, loop
<1> QED
  BY <1>1, <1>3, <1>6, <1>7, <1>8, <1>11, <1>12

\* The reply of the one callback that finishes is the first, and fits ecount.
LEMMA ReplyInv ==
  ASSUME IInv, NEW m \in Members, MergeReply(m) \/ StatsReply(m)
  PROVE  /\ IInv'
         /\ Uncounted = {} /\ Uncounted' = {} /\ nparts > 0 /\ replies = <<>>
         /\ replies' = <<replies'[1]>> /\ replies'[1] \in ReplySet
         /\ kind = "session" => replies'[1] = "no_result"
<1> USE DEF IInv
<1>1. pc[m] = "finish" /\ pc' = [pc EXCEPT ![m] = "done"]
  BY DEF MergeReply, StatsReply, Goto
<1>2. Uncounted = {} /\ nparts > 0 /\ replies = <<>>
  BY <1>1 DEF CountInv
<1>3. PICK r \in ReplySet : replies' = <<r>>
                             /\ (kind = "session" => r = "no_result")
                             /\ (kind = "stats" => r = IF ecopy[m] # nparts THEN "stats"
                                                                           ELSE "E993")
  BY <1>2, BroadcastAssumption DEF TypeOK, Lengths, MergeReply, StatsReply, ReplySet
<1>4. TypeOK'
  BY <1>1, <1>3 DEF TypeOK, MergeReply, StatsReply, loop, counters, locals, Steps
<1>5. Uncounted' = {}
  BY <1>1, <1>2 DEF TypeOK, Uncounted, Counting, MergeReply, StatsReply, loop
<1>6. StepInv'
  BY <1>1 DEF TypeOK, StepInv, MergeReply, StatsReply, loop
<1>7. CountInv'
  <2>1. \A o \in Members : pc'[o] # "finish"
    BY <1>1 DEF TypeOK, CountInv
  <2>2. bcount' = Cardinality(Uncounted')
    BY <1>2, <1>5 DEF CountInv, MergeReply, StatsReply, counters
  <2> QED
    BY <2>1, <2>2, <1>3, <1>5 DEF CountInv
<1>8. NotAdded' = NotAdded
  BY <1>1 DEF TypeOK, NotAdded, MergeReply, StatsReply, loop, locals
<1>9. StatsInv'
  BY <1>1, <1>8 DEF TypeOK, StatsInv, MergeReply, StatsReply, loop, counters, locals
<1>10. StatsReplyJustified'
  <2> SUFFICES ASSUME kind = "stats"
               PROVE  \/ r = "stats" /\ ecount < nparts
                      \/ r = "E993" /\ ecount > 0
    BY <1>3 DEF StatsReplyJustified, MergeReply, StatsReply, loop, counters
  <2>1. CASE ecopy[m] # nparts
    BY <2>1, <1>1, <1>3 DEF TypeOK, StatsInv
  <2>2. CASE ecopy[m] = nparts
    <3>1. m \in NotAdded
      BY <2>2, <1>1 DEF NotAdded
    <3>2. Cardinality(NotAdded) > 0 /\ Cardinality(NotAdded) \in Nat
      BY <3>1, Counted, OneLess, Sizes
    <3> QED
      BY <3>2, <2>2, <1>3 DEF TypeOK, StatsInv
  <2> QED
    BY <2>1, <2>2
<1> QED
  BY <1>2, <1>3, <1>4, <1>5, <1>6, <1>7, <1>9, <1>10

LEMMA StutterInv ==
  ASSUME IInv, UNCHANGED vars
  PROVE  IInv' /\ UNCHANGED Uncounted
BY DEF IInv, TypeOK, StepInv, CountInv, StatsInv, NotAdded, StatsReplyJustified, Replied,
       Uncounted, vars, loop, counters, locals

\* The inductive invariant of a broadcast, for any members and any answers.
THEOREM Invariance == Spec => []IInv
<1>1. IInv /\ [Next]_vars => IInv'
  <2> SUFFICES ASSUME IInv, [Next]_vars PROVE IInv'
    OBVIOUS
  <2>1. CASE \E m \in Members : SendCommand(m)
    BY <2>1, SendInv
  <2>2. CASE \E m \in Members : Callback(m)
    BY <2>2, ArriveInv, AddInv, CountStepInv, ReplyInv DEF Callback
  <2>3. CASE UNCHANGED vars
    BY <2>3, StutterInv
  <2> QED
    BY <2>1, <2>2, <2>3 DEF Next
<1> QED
  BY <1>1, InitInv, PTL DEF Spec

\* The state of a broadcast keeps its type: bcount and ecount stay between
\* zero and the number of members.
THEOREM TypeCorrect == Spec => []TypeOK
BY Invariance, PTL DEF IInv

\* merge_results and merge_stats_results send one reply between them, after
\* every member that was asked has called back.
THEOREM OneReply == Spec => []RepliedOnce
<1>1. IInv => RepliedOnce
  <2> SUFFICES ASSUME IInv, Replied
               PROVE  queue = {} /\ \A m \in Members : pc[m] \in {"unsent", "done"}
    BY DEF IInv, CountInv, RepliedOnce
  <2>1. Uncounted = {}
    BY DEF IInv, CountInv, Replied
  <2>2. \A m \in Members : pc[m] # "finish" /\ pc[m] \in Steps
    BY DEF IInv, TypeOK, CountInv, Replied
  <2> QED
    BY <2>1, <2>2 DEF Uncounted, Counting, Steps
<1> QED
  BY <1>1, Invariance, PTL

\* G reports statistics only if some were added up, and E993 only if some
\* were not, although the last callback looks at an old copy of ecount.
THEOREM RepliesJustified == Spec => []StatsReplyJustified
BY Invariance, PTL DEF IInv

-----------------------------------------------------------------------------
(* The refinement.                                                         *)

LEMMA InitRefines == Init => Gathering!Init
<1> SUFFICES ASSUME Init PROVE Gathering!Init
  OBVIOUS
<1>1. Uncounted = queue
  BY DEF Init, Uncounted, Counting
<1>2. nparts - ecount = 0
  <2>1. Cardinality(queue) \in Nat
    BY Sizes DEF Init
  <2> QED
    BY <2>1 DEF Init
<1>3. Gathering!Cardinality(queue) = Cardinality(queue)
  BY DEF Gathering!Cardinality, Cardinality, Gathering!IsFiniteSet, IsFiniteSet
<1> QED
  BY <1>1, <1>2, <1>3 DEF Init, Gathering!Init

LEMMA StepRefines ==
  ASSUME IInv, [Next]_vars
  PROVE  [Gathering!Next]_Gathering!vars
<1>1. CASE UNCHANGED vars
  BY <1>1, StutterInv DEF Gathering!vars, vars, loop, counters
<1>2. ASSUME NEW m \in Members, SendCommand(m)
      PROVE  UNCHANGED Gathering!vars
  <2>1. Uncounted' = Uncounted
    BY <1>2 DEF IInv, TypeOK, StepInv, Uncounted, Counting, SendCommand, Goto
  <2> QED
    BY <1>2, <2>1 DEF Gathering!vars, SendCommand, counters
<1>3. ASSUME NEW m \in Members, MergeBegin(m) \/ MergeAppend(m) \/ StatsBegin(m)
      PROVE  UNCHANGED Gathering!vars
  <2>1. Uncounted' = Uncounted
    BY <1>3 DEF IInv, TypeOK, StepInv, Uncounted, Counting, MergeBegin, MergeAppend,
       StatsBegin, Goto, loop
  <2> QED
    BY <1>3, <2>1 DEF Gathering!vars, MergeBegin, MergeAppend, StatsBegin, counters, loop
<1>4. ASSUME NEW m \in Members, StatsAdd(m)
      PROVE  Gathering!Use \/ UNCHANGED Gathering!vars
  <2>1. m \in Uncounted /\ Uncounted' = Uncounted /\ m \in NotAdded /\ kind = "stats"
    BY <1>4 DEF IInv, TypeOK, StepInv, Uncounted, Counting, NotAdded, StatsAdd, Goto, loop
  <2>2. ecount > 0 /\ ecount \in Nat /\ nparts \in Nat
    <3>1. Cardinality(NotAdded) > 0 /\ Cardinality(NotAdded) \in Nat
      BY <2>1, Counted, OneLess, Sizes DEF IInv
    <3>2. Cardinality(Members) \in Nat
      BY Sizes
    <3> QED
      BY <3>1, <3>2 DEF IInv, TypeOK, StatsInv
  <2>3. CASE ecount' = ecount - 1
    <3>1. nparts - ecount' = (nparts - ecount) + 1 /\ nparts - ecount < nparts
      BY <2>2, <2>3
    <3> QED
      BY <3>1, <2>1, <1>4 DEF Gathering!Use, StatsAdd, loop
  <2>4. CASE UNCHANGED ecount
    BY <2>4, <2>1, <1>4 DEF Gathering!vars, StatsAdd, loop
  <2> QED
    BY <2>3, <2>4, <1>4 DEF StatsAdd
<1>5. ASSUME NEW m \in Members, MergeCount(m) \/ StatsCount(m)
      PROVE  Gathering!Answer(m)
  BY <1>5, CountStepInv DEF Gathering!Answer, MergeCount, StatsCount, loop
<1>6. ASSUME NEW m \in Members, MergeReply(m) \/ StatsReply(m)
      PROVE  Gathering!Reply
  <2>1. /\ Uncounted = {} /\ Uncounted' = {} /\ nparts > 0 /\ replies = <<>>
        /\ replies' # <<>> /\ replies'[1] \in ReplySet
        /\ kind = "session" => replies'[1] = "no_result"
    BY <1>6, ReplyInv
  <2>2. UNCHANGED <<nparts, kind, ecount>> /\ StatsReplyJustified'
    BY <1>6, ReplyInv DEF MergeReply, StatsReply, loop, counters, IInv
  <2>3. CASE kind = "session"
    BY <2>1, <2>2, <2>3 DEF Gathering!Reply
  <2>4. CASE kind # "session"
    <3>1. kind = "stats"
      BY <2>4, BroadcastAssumption DEF IInv, TypeOK
    <3>2. nparts - ecount \in Int /\ (ecount < nparts => nparts - ecount > 0)
            /\ (ecount > 0 => nparts - ecount < nparts)
      BY DEF IInv, TypeOK
    <3>3. \/ replies'[1] = "stats" /\ nparts - ecount > 0
          \/ replies'[1] = "E993" /\ nparts - ecount < nparts
      BY <2>1, <2>2, <3>1, <3>2 DEF StatsReplyJustified, Replied
    <3> QED
      BY <3>1, <3>3, <2>1, <2>2 DEF Gathering!Reply
  <2> QED
    BY <2>3, <2>4
<1> QED
  BY <1>1, <1>2, <1>3, <1>4, <1>5, <1>6 DEF Next, Callback, Gathering!Next

\* A broadcast of the code is a gathering of answers: every step of the
\* sending loop and of the callbacks is a step of Gather, or invisible.
THEOREM Refinement == Spec => GathersAnswers
<1>1. IInv /\ [Next]_vars => [Gathering!Next]_Gathering!vars
  BY StepRefines
<1> QED
  BY <1>1, InitRefines, Invariance, PTL DEF Spec, GathersAnswers, Gathering!Spec

-----------------------------------------------------------------------------
(* Repeated commands.                                                      *)

\* A handler that is not idle has a command, and once it began to answer a
\* reply; one about to cache its reply has sent it.
HandlerInv ==
  \A h \in Handlers :
    /\ hpc[h] # "idle" => hcookie[h] \in Cookies
    /\ hpc[h] \in {"answering", "caching"} => hreply[h] \in Replies
    /\ hpc[h] = "caching" => hreply[h] \in sent[hcookie[h]]
    /\ hpc[h] = "handling" => hcookie[h] \notin lost

\* Which generation holds the reply cached last, by its age.
CacheInv ==
  \A c \in Cookies :
    /\ periods[c] = 0 => stored[c] \in Replies /\ l1rcache[c] = stored[c]
    /\ periods[c] = 1 => /\ stored[c] \in Replies /\ l2rcache[c] = stored[c]
                         /\ l1rcache[c] = NoReply
    /\ periods[c] = 2 => l1rcache[c] = NoReply /\ l2rcache[c] = NoReply
    /\ l1rcache[c] # NoReply => l1rcache[c] \in sent[c]
    /\ l2rcache[c] # NoReply => l2rcache[c] \in sent[c]

CacheIInv == CacheTypeOK /\ InflightOwned /\ HandlerInv /\ CacheInv

-----------------------------------------------------------------------------
\* The initial state, where nothing is in flight or cached.
LEMMA CacheInitIInv == CacheInit => CacheIInv
BY CommandCacheAssumption
   DEF CacheInit, CacheIInv, CacheTypeOK, InflightOwned, HandlerInv, CacheInv, Cache,
       EmptyCache

\* Every step keeps the types: a handler answers only a command it has.
LEMMA CacheTypeStep == CacheIInv /\ [CacheNext]_cacheVars => CacheTypeOK'
<1> SUFFICES ASSUME CacheIInv, [CacheNext]_cacheVars PROVE CacheTypeOK'
  OBVIOUS
<1> USE CommandCacheAssumption DEF CacheIInv, CacheTypeOK, HandlerInv, Cache
<1>1. ASSUME NEW c \in Cookies, up_command_udp(c) PROVE CacheTypeOK'
  BY <1>1 DEF up_command_udp, caches, history
<1>2. ASSUME NEW h \in Handlers, Drop(h) PROVE CacheTypeOK'
  BY <1>2 DEF Drop, Finish, caches
<1>3. ASSUME NEW h \in Handlers, down_command(h) PROVE CacheTypeOK'
  BY <1>3 DEF down_command, caches, history
<1>4. ASSUME NEW h \in Handlers, Send(h) PROVE CacheTypeOK'
  BY <1>4 DEF Send, caches
<1>5. ASSUME NEW h \in Handlers, CacheReply(h) PROVE CacheTypeOK'
  BY <1>5 DEF CacheReply, Finish
<1>6. CASE rCachePurge
  BY <1>6 DEF rCachePurge, EmptyCache, handler
<1>7. CASE UNCHANGED cacheVars
  BY <1>7 DEF cacheVars, caches, handler, history
<1> QED
  BY <1>1, <1>2, <1>3, <1>4, <1>5, <1>6, <1>7 DEF CacheNext

\* A cookie enters commands_inflight with one handler and leaves it with
\* that handler, or stays for ever if the handler returns without an answer.
LEMMA InflightStep == CacheIInv /\ [CacheNext]_cacheVars => InflightOwned'
<1> SUFFICES ASSUME CacheIInv, [CacheNext]_cacheVars PROVE InflightOwned'
  OBVIOUS
<1> USE CommandCacheAssumption DEF CacheIInv, CacheTypeOK, InflightOwned
<1>1. ASSUME NEW c \in Cookies, up_command_udp(c) PROVE InflightOwned'
  BY <1>1 DEF up_command_udp, caches, history
<1>2. ASSUME NEW h \in Handlers, Drop(h) PROVE InflightOwned'
  BY <1>2 DEF Drop, Finish, caches, HandlerInv
<1>3. ASSUME NEW h \in Handlers, down_command(h) PROVE InflightOwned'
  BY <1>3 DEF down_command, caches, history, HandlerInv
<1>4. ASSUME NEW h \in Handlers, Send(h) PROVE InflightOwned'
  BY <1>4 DEF Send, caches
<1>5. ASSUME NEW h \in Handlers, CacheReply(h) PROVE InflightOwned'
  BY <1>5 DEF CacheReply, Finish
<1>6. CASE rCachePurge
  BY <1>6 DEF rCachePurge, handler
<1>7. CASE UNCHANGED cacheVars
  BY <1>7 DEF cacheVars, caches, handler, history
<1> QED
  BY <1>1, <1>2, <1>3, <1>4, <1>5, <1>6, <1>7 DEF CacheNext

\* A handler reaches the caching of its reply only through the sending of it,
\* and no other handler handles the cookie of one that gives up.
LEMMA HandlerStep == CacheIInv /\ [CacheNext]_cacheVars => HandlerInv'
<1> SUFFICES ASSUME CacheIInv, [CacheNext]_cacheVars PROVE HandlerInv'
  OBVIOUS
<1> USE CommandCacheAssumption DEF CacheIInv, CacheTypeOK, HandlerInv
<1>1. ASSUME NEW c \in Cookies, up_command_udp(c) PROVE HandlerInv'
  BY <1>1 DEF up_command_udp, caches, history, InflightOwned
<1>2. ASSUME NEW h \in Handlers, Drop(h) PROVE HandlerInv'
  BY <1>2 DEF Drop, Finish, caches, InflightOwned
<1>3. ASSUME NEW h \in Handlers, down_command(h) PROVE HandlerInv'
  BY <1>3 DEF down_command, caches, history
<1>4. ASSUME NEW h \in Handlers, Send(h) PROVE HandlerInv'
  BY <1>4 DEF Send, caches
<1>5. ASSUME NEW h \in Handlers, CacheReply(h) PROVE HandlerInv'
  BY <1>5 DEF CacheReply, Finish
<1>6. CASE rCachePurge
  BY <1>6 DEF rCachePurge, handler
<1>7. CASE UNCHANGED cacheVars
  BY <1>7 DEF cacheVars, caches, handler, history
<1> QED
  BY <1>1, <1>2, <1>3, <1>4, <1>5, <1>6, <1>7 DEF CacheNext

\* A reply moves from the first generation to the second and then out.
LEMMA CacheStep == CacheIInv /\ [CacheNext]_cacheVars => CacheInv'
<1> SUFFICES ASSUME CacheIInv, [CacheNext]_cacheVars PROVE CacheInv'
  OBVIOUS
<1> USE CommandCacheAssumption DEF CacheIInv, CacheTypeOK, CacheInv, Cache
<1>1. ASSUME NEW c \in Cookies, up_command_udp(c) PROVE CacheInv'
  BY <1>1 DEF up_command_udp, caches, history
<1>2. ASSUME NEW h \in Handlers, Drop(h) PROVE CacheInv'
  BY <1>2 DEF Drop, caches
<1>3. ASSUME NEW h \in Handlers, down_command(h) PROVE CacheInv'
  BY <1>3 DEF down_command, caches, history
<1>4. ASSUME NEW h \in Handlers, Send(h) PROVE CacheInv'
  BY <1>4 DEF Send, caches, HandlerInv
<1>5. ASSUME NEW h \in Handlers, CacheReply(h) PROVE CacheInv'
  BY <1>5 DEF CacheReply, HandlerInv
<1>6. CASE rCachePurge
  BY <1>6 DEF rCachePurge, EmptyCache, handler
<1>7. CASE UNCHANGED cacheVars
  BY <1>7 DEF cacheVars, caches, handler, history
<1> QED
  BY <1>1, <1>2, <1>3, <1>4, <1>5, <1>6, <1>7 DEF CacheNext

\* The inductive invariant: where every reply and every cookie in flight is.
THEOREM CacheInvariance == CacheSpec => []CacheIInv
<1>1. CacheIInv /\ [CacheNext]_cacheVars => CacheIInv'
  BY CacheTypeStep, InflightStep, HandlerStep, CacheStep DEF CacheIInv
<1> QED
  BY CacheInitIInv, <1>1, PTL DEF CacheSpec

-----------------------------------------------------------------------------
\* The type invariant of the maps and the handlers.
THEOREM CacheTypeCorrect == CacheSpec => []CacheTypeOK
BY CacheInvariance, PTL DEF CacheIInv

\* commands_inflight holds the cookie of exactly one running handler, or of
\* one that returned without an answer.
THEOREM InflightCorrect == CacheSpec => []InflightOwned
BY CacheInvariance, PTL DEF CacheIInv

\* A repetition within two purge periods finds the reply cached last.
THEOREM CacheCorrect == CacheSpec => []CacheHoldsLast
<1>1. CacheIInv => CacheHoldsLast
  BY CommandCacheAssumption
     DEF CacheIInv, CacheTypeOK, CacheInv, CacheHoldsLast, cresp
<1> QED
  BY CacheInvariance, <1>1, PTL

\* What the cache answers was sent before by a handler.
THEOREM CacheAnswersWereSent == CacheSpec => []CachedWasSent
<1>1. CacheIInv => CachedWasSent
  BY DEF CacheIInv, CacheInv, CachedWasSent, cresp
<1> QED
  BY CacheInvariance, <1>1, PTL

\* A command is handled again only when the reply cached for it, if any, has
\* outlived two purges.
THEOREM NoNeedlessHandling == CacheSpec => HandledAgainOnlyIfForgotten
<1> DEFINE A == \A c \in commands_inflight' \ commands_inflight :
                   periods[c] = 2
<1>1. CacheIInv /\ [CacheNext]_cacheVars => [A]_cacheVars
  <2> SUFFICES ASSUME CacheIInv, CacheNext,
                      NEW c \in commands_inflight', c \notin commands_inflight
               PROVE  periods[c] = 2
    BY DEF cacheVars
  <2>1. up_command_udp(c)
    BY DEF CacheNext, up_command_udp, Drop, down_command, Send, CacheReply,
           rCachePurge
  <2>2. c \in Cookies /\ cresp(c) = NoReply
    BY <2>1, CacheTypeStep DEF up_command_udp, CacheIInv, CacheTypeOK
  <2> QED
    BY <2>2, CommandCacheAssumption DEF CacheIInv, CacheTypeOK, CacheInv, cresp
<1> QED
  BY CacheInvariance, <1>1, PTL DEF CacheSpec, HandledAgainOnlyIfForgotten

-----------------------------------------------------------------------------
(* The choice of a member.                                                 *)

\* The sums recorded with the available members.
Sums ==
  /\ available = <<>> => total = 0
  /\ available # <<>> => /\ total = available[Len(available)].upto
                          /\ available[1].upto = available[1].weight
  /\ \A k \in 2 .. Len(available) :
       available[k].upto = available[k - 1].upto + available[k].weight

\* The available members are active ones, and all with a positive weight are.
AvailableAreActive ==
  /\ \A k \in 1 .. Len(available) :
       \E j \in 1 .. Len(active) :
         active[j].rtpp = available[k].rtpp /\ active[j].weight = available[k].weight
  /\ available = <<>> => \A j \in 1 .. Len(active) : ~ Greater(active[j].weight, 0)

Walking ==
  phase = "walk" =>
    /\ i \in 1 .. Len(available) /\ thr > 0
    /\ thr = drawn - (available[i].upto - available[i].weight)

Maximizing ==
  phase = "overload" =>
    /\ available = <<>> /\ active # <<>> /\ soft
    /\ max_it \in 1 .. Len(active) /\ i \in 2 .. Len(active) + 1
    /\ \A j \in 1 .. i - 1 : ~ Greater(active[j].weight, active[max_it].weight)

Unpicked == phase # "done" => picked = 0

PickIInv ==
  /\ PickTypeOK /\ Sums /\ AvailableAreActive /\ Walking /\ Maximizing /\ Unpicked
  /\ PickedByWeight /\ PickedWithinCapacity

-----------------------------------------------------------------------------

\* A weight is a number or none, whatever the settings.
LEMMA WeightType == \A s \in Settings : WeightNow(s) \in Int \cup {NaN}
<1> SUFFICES ASSUME NEW s \in Settings PROVE WeightNow(s) \in Int \cup {NaN}
  OBVIOUS
<1>1. s.weight \in Nat /\ s.capacity \in Nat /\ s.sessions \in Nat
  BY SettingsAssumption
<1>2. CASE s.capacity # 0
  <2>1. Unit \div s.capacity \in Int
    BY <1>1, <1>2, PickAssumption
  <2>2. s.weight * (s.capacity - s.sessions) \in Int
    BY <1>1
  <2>3. s.weight * (s.capacity - s.sessions) * (Unit \div s.capacity) \in Int
    BY <2>1, <2>2
  <2> QED
    BY <1>2, <2>3 DEF WeightNow
<1>3. CASE s.capacity = 0
  BY <1>3, PickAssumption DEF WeightNow
<1> QED
  BY <1>1, <1>2, <1>3

LEMMA PickInitInv == PickInit => PickIInv
<1> SUFFICES ASSUME PickInit PROVE PickIInv
  OBVIOUS
<1>1. PickTypeOK
  BY PickAssumption DEF PickInit, PickTypeOK
<1>2. Sums /\ AvailableAreActive
  BY DEF PickInit, Sums, AvailableAreActive
<1> QED
  BY <1>1, <1>2 DEF PickInit, PickIInv, Walking, Maximizing, Unpicked, PickedByWeight, PickedWithinCapacity

\* What a sequence is after Append.
LEMMA AppendFacts ==
  ASSUME NEW S, NEW s \in Seq(S), NEW e \in S
  PROVE  /\ Append(s, e) \in Seq(S) /\ Append(s, e) # <<>>
         /\ Len(Append(s, e)) = Len(s) + 1
         /\ Append(s, e)[Len(s) + 1] = e
         /\ \A j \in 1 .. Len(s) : Append(s, e)[j] = s[j]
  OBVIOUS

LEMMA ElementIn ==
  ASSUME NEW S, NEW s \in Seq(S), NEW k \in 1 .. Len(s)
  PROVE  s[k] \in S
  OBVIOUS

\* An eligible member keeps the sums and joins active, and available if its
\* weight is positive.
LEMMA ConsiderInv ==
  ASSUME PickIInv, phase = "scan", i <= n, NEW w \in Int \cup {NaN}, Consider(w), UNCHANGED n
  PROVE  /\ active' \in Seq([rtpp : 1 .. n, weight : Int \cup {NaN}])
         /\ available' \in Seq([rtpp : 1 .. n, weight : Nat \ {0}, upto : Nat])
         /\ total' \in Nat
         /\ Sums' /\ AvailableAreActive'
<1> DEFINE a == [rtpp |-> i, weight |-> w]
<1> DEFINE v == [rtpp |-> i, weight |-> w, upto |-> total + w]
<1>1. i \in 1 .. n /\ total \in Nat
  BY DEF PickIInv, PickTypeOK
<1>2. /\ active \in Seq([rtpp : 1 .. n, weight : Int \cup {NaN}])
      /\ available \in Seq([rtpp : 1 .. n, weight : Nat \ {0}, upto : Nat])
  BY DEF PickIInv, PickTypeOK
<1>3. a \in [rtpp : 1 .. n, weight : Int \cup {NaN}] /\ active' = Append(active, a)
  BY <1>1 DEF Consider
<1>0. Len(active) \in Nat /\ Len(available) \in Nat
  BY <1>2
<1> HIDE DEF a
<1>4. active' \in Seq([rtpp : 1 .. n, weight : Int \cup {NaN}])
  BY <1>2, <1>3
<1>7. /\ Len(active') = Len(active) + 1
      /\ active'[Len(active) + 1] = a
      /\ \A j \in 1 .. Len(active) : active'[j] = active[j]
  BY <1>2, <1>3, AppendFacts
<1>8. a.rtpp = i /\ a.weight = w
  BY DEF a
<1>5. CASE ~ Greater(w, 0)
  <2>1. UNCHANGED <<available, total>>
    BY <1>5 DEF Consider
  <2>2. Sums'
    BY <2>1 DEF PickIInv, Sums
  <2>3. AvailableAreActive'
    <3>1. \A k \in 1 .. Len(available) :
            \E j \in 1 .. Len(active') :
              active'[j].rtpp = available[k].rtpp /\ active'[j].weight = available[k].weight
      <4> SUFFICES ASSUME NEW k \in 1 .. Len(available)
                   PROVE  \E j \in 1 .. Len(active') : /\ active'[j].rtpp = available[k].rtpp
                                                       /\ active'[j].weight = available[k].weight
        OBVIOUS
      <4>1. PICK j \in 1 .. Len(active) :
              active[j].rtpp = available[k].rtpp /\ active[j].weight = available[k].weight
        BY DEF PickIInv, AvailableAreActive
      <4>2. j \in 1 .. Len(active') /\ active'[j] = active[j]
        BY <1>0, <1>7
      <4> QED
        BY <4>1, <4>2
    <3>2. available = <<>> => \A j \in 1 .. Len(active') : ~ Greater(active'[j].weight, 0)
      <4> SUFFICES ASSUME available = <<>>, NEW j \in 1 .. Len(active')
                   PROVE  ~ Greater(active'[j].weight, 0)
        OBVIOUS
      <4>1. CASE j = Len(active) + 1
        BY <4>1, <1>7, <1>8, <1>5
      <4>2. CASE j \in 1 .. Len(active)
        BY <4>2, <1>7 DEF PickIInv, AvailableAreActive
      <4> QED
        BY <4>1, <4>2, <1>0, <1>7
    <3> QED
      BY <2>1, <3>1, <3>2 DEF AvailableAreActive
  <2> QED
    BY <1>1, <1>2, <1>4, <2>1, <2>2, <2>3
<1>6. CASE Greater(w, 0)
  <2>1. w \in Nat \ {0} /\ total + w \in Nat
    BY <1>1, <1>6 DEF Greater
  <2>2. available' = Append(available, v) /\ total' = total + w
    BY <1>6 DEF Consider
  <2>3. v \in [rtpp : 1 .. n, weight : Nat \ {0}, upto : Nat]
    BY <1>1, <2>1
  <2> HIDE DEF v
  <2>4. available' \in Seq([rtpp : 1 .. n, weight : Nat \ {0}, upto : Nat])
    BY <1>2, <2>2, <2>3
  <2> DEFINE S == [rtpp : 1 .. n, weight : Nat \ {0}, upto : Nat]
  <2>11. available \in Seq(S) /\ v \in S
    BY <1>2, <2>3
  <2>12. \A k \in 1 .. Len(available) : available[k] \in S
    <3> HIDE DEF S
    <3> QED
      BY <2>11, ElementIn
  <2> HIDE DEF S
  <2>7. /\ Len(available') = Len(available) + 1 /\ available' # <<>>
        /\ available'[Len(available) + 1] = v
        /\ \A k \in 1 .. Len(available) : available'[k] = available[k]
    BY <2>11, <2>2, AppendFacts
  <2>8. v.rtpp = i /\ v.weight = w /\ v.upto = total + w
    BY DEF v
  <2>9. available = <<>> <=> Len(available) = 0
    BY <1>2
  <2>10. ASSUME NEW k \in 1 .. Len(available)
         PROVE  available[k].weight \in Nat /\ available[k].upto \in Nat
    BY <2>12, <2>10 DEF S
  <2>5. Sums'
    <3>1. total' = available'[Len(available')].upto
      BY <1>0, <2>2, <2>7, <2>8
    <3>2. available'[1].upto = available'[1].weight
      <4>1. CASE available = <<>>
        <5>1. available'[1] = v /\ total = 0
          BY <4>1, <2>7, <2>9 DEF PickIInv, Sums
        <5> QED
          BY <5>1, <2>8, <2>1
      <4>2. CASE available # <<>>
        BY <4>2, <1>0, <2>7, <2>9 DEF PickIInv, Sums
      <4> QED
        BY <4>1, <4>2
    <3>3. ASSUME NEW k \in 2 .. Len(available')
          PROVE  available'[k].upto = available'[k - 1].upto + available'[k].weight
      <4>1. CASE k \in 1 .. Len(available)
        <5>1. available'[k] = available[k] /\ available'[k - 1] = available[k - 1]
          BY <4>1, <1>0, <2>7
        <5> QED
          BY <4>1, <5>1 DEF PickIInv, Sums
      <4>2. CASE k = Len(available) + 1
        <5>1. available # <<>> /\ k - 1 = Len(available)
          BY <4>2, <1>0, <2>9
        <5>2. available'[k - 1] = available[Len(available)]
          BY <5>1, <1>0, <2>7, <2>9
        <5>3. available'[k - 1].upto = total
          BY <5>1, <5>2 DEF PickIInv, Sums
        <5> QED
          BY <4>2, <5>3, <2>7, <2>8
      <4> QED
        BY <4>1, <4>2, <1>0, <2>7
    <3> QED
      BY <2>7, <3>1, <3>2, <3>3 DEF Sums
  <2>6. AvailableAreActive'
    <3>1. ASSUME NEW k \in 1 .. Len(available')
          PROVE  \E j \in 1 .. Len(active') :
                   /\ active'[j].rtpp = available'[k].rtpp
                   /\ active'[j].weight = available'[k].weight
      <4>1. CASE k \in 1 .. Len(available)
        <5>1. PICK j \in 1 .. Len(active) :
                active[j].rtpp = available[k].rtpp /\ active[j].weight = available[k].weight
          BY <4>1 DEF PickIInv, AvailableAreActive
        <5>2. j \in 1 .. Len(active') /\ active'[j] = active[j] /\ available'[k] = available[k]
          BY <4>1, <1>0, <1>7, <2>7
        <5> QED
          BY <5>1, <5>2
      <4>2. CASE k = Len(available) + 1
        <5>1. Len(active) + 1 \in 1 .. Len(active')
          BY <1>0, <1>7
        <5>2. /\ active'[Len(active) + 1].rtpp = available'[k].rtpp
              /\ active'[Len(active) + 1].weight = available'[k].weight
          BY <4>2, <1>7, <1>8, <2>7, <2>8
        <5> QED
          BY <5>1, <5>2
      <4> QED
        BY <4>1, <4>2, <1>0, <2>7
    <3> QED
      BY <2>7, <3>1 DEF AvailableAreActive
  <2> QED
    BY <1>4, <2>1, <2>2, <2>4, <2>5, <2>6
<1> QED
  BY <1>5, <1>6

\* What the types say of the members recorded.
LEMMA Entries ==
  ASSUME PickTypeOK
  PROVE  /\ Len(active) \in Nat /\ (active = <<>> <=> Len(active) = 0)
         /\ Len(available) \in Nat /\ (available = <<>> <=> Len(available) = 0)
         /\ \A k \in 1 .. Len(active) :
              active[k].rtpp \in 1 .. n /\ active[k].weight \in Int \cup {NaN}
         /\ \A k \in 1 .. Len(available) :
              /\ available[k].rtpp \in 1 .. n
              /\ available[k].weight \in Nat \ {0} /\ available[k].upto \in Nat
<1> DEFINE A == [rtpp : 1 .. n, weight : Int \cup {NaN}]
<1> DEFINE S == [rtpp : 1 .. n, weight : Nat \ {0}, upto : Nat]
<1>1. active \in Seq(A) /\ available \in Seq(S)
  BY DEF PickTypeOK
<1>2. /\ Len(active) \in Nat /\ (active = <<>> <=> Len(active) = 0)
      /\ Len(available) \in Nat /\ (available = <<>> <=> Len(available) = 0)
  BY <1>1
<1>3. /\ \A k \in 1 .. Len(active) : active[k] \in A
      /\ \A k \in 1 .. Len(available) : available[k] \in S
  <2> HIDE DEF A, S
  <2> QED
    BY <1>1, ElementIn
<1> QED
  BY <1>2, <1>3

LEMMA ScanInv == PickIInv /\ Scan => PickIInv'
<1> SUFFICES ASSUME PickIInv, Scan PROVE PickIInv'
  OBVIOUS
<1>1. /\ phase = "scan" /\ i <= n /\ i' = i + 1
      /\ UNCHANGED <<soft, n, phase, thr, max_it, picked, drawn>>
  BY DEF Scan
<1>2. /\ active' \in Seq([rtpp : 1 .. n, weight : Int \cup {NaN}])
      /\ available' \in Seq([rtpp : 1 .. n, weight : Nat \ {0}, upto : Nat])
      /\ total' \in Nat
      /\ Sums' /\ AvailableAreActive'
  <2>1. CASE \E s \in Settings : Consider(WeightNow(s))
    <3>1. PICK s \in Settings : Consider(WeightNow(s))
      BY <2>1
    <3> QED
      BY <1>1, <3>1, WeightType, ConsiderInv
  <2>2. CASE UNCHANGED <<active, available, total>>
    BY <2>2 DEF PickIInv, PickTypeOK, Sums, AvailableAreActive
  <2> QED
    BY <2>1, <2>2 DEF Scan
<1>3. PickTypeOK'
  <2>1. i' \in Nat \ {0}
    BY <1>1 DEF PickIInv, PickTypeOK
  <2> QED
    BY <1>1, <1>2, <2>1 DEF PickIInv, PickTypeOK
<1> QED
  BY <1>1, <1>2, <1>3
     DEF PickIInv, Walking, Maximizing, Unpicked, PickedByWeight, PickedWithinCapacity

LEMMA DrawInv == PickIInv /\ Draw => PickIInv'
<1> SUFFICES ASSUME PickIInv, Draw PROVE PickIInv'
  OBVIOUS
<1>1. /\ available # <<>> /\ phase' = "walk" /\ i' = 1
      /\ drawn' = thr' /\ thr' \in 1 .. total + Rounding /\ picked = 0
      /\ UNCHANGED <<soft, n, active, available, total, max_it, picked>>
  BY DEF Draw, PickIInv, Unpicked
<1>2. thr' \in Int /\ thr' > 0 /\ drawn' \in Nat /\ i' \in Nat \ {0}
  BY <1>1, PickAssumption DEF PickIInv, PickTypeOK
<1>3. PickTypeOK'
  BY <1>1, <1>2 DEF PickIInv, PickTypeOK
<1>4. Sums' /\ AvailableAreActive'
  BY <1>1 DEF PickIInv, Sums, AvailableAreActive
<1>5. Walking'
  <2>1. /\ 1 \in 1 .. Len(available)
        /\ available[1].upto = available[1].weight /\ available[1].weight \in Nat
    BY <1>1, Entries DEF PickIInv, Sums
  <2>2. thr' = drawn' - (available[1].upto - available[1].weight)
    BY <1>1, <1>2, <2>1
  <2> QED
    BY <1>1, <1>2, <2>1, <2>2 DEF Walking
<1> QED
  BY <1>1, <1>3, <1>4, <1>5
     DEF PickIInv, Maximizing, Unpicked, PickedByWeight, PickedWithinCapacity

\* What is left is positive while the loop goes on; if it is not, or nobody
\* is left, the drawn number lies in the part of the member the loop is at.
LEMMA WalkInv == PickIInv /\ Walk => PickIInv'
<1> SUFFICES ASSUME PickIInv, Walk PROVE PickIInv'
  OBVIOUS
<1>1. /\ phase = "walk" /\ thr' = thr - available[i].weight
      /\ UNCHANGED <<soft, n, active, available, total, max_it, drawn>>
  BY DEF Walk
<1>2. /\ i \in 1 .. Len(available) /\ thr > 0 /\ thr \in Int /\ drawn \in Nat
      /\ thr = drawn - (available[i].upto - available[i].weight)
  BY <1>1 DEF PickIInv, Walking, PickTypeOK
<1>3. /\ available[i].rtpp \in 1 .. n
      /\ available[i].weight \in Nat \ {0} /\ available[i].upto \in Nat
      /\ Len(available) \in Nat /\ available # <<>>
  BY <1>2, Entries DEF PickIInv
<1>4. Sums' /\ AvailableAreActive'
  BY <1>1 DEF PickIInv, Sums, AvailableAreActive
<1>5. thr' \in Int /\ thr' = drawn - available[i].upto
  BY <1>1, <1>2, <1>3
<1>6. CASE thr' <= 0 \/ i = Len(available)
  <2>1. picked' = available[i].rtpp /\ phase' = "done" /\ UNCHANGED i
    BY <1>6 DEF Walk
  <2>2. PickTypeOK'
    <3>1. picked' \in 0 .. n
      BY <1>3, <2>1 DEF PickIInv, PickTypeOK
    <3> QED
      BY <1>1, <1>5, <2>1, <3>1 DEF PickIInv, PickTypeOK
  <2>3. PickedByWeight'
    <3>1. /\ picked' = available[i].rtpp
          /\ available[i].upto - available[i].weight < drawn
          /\ drawn <= available[i].upto \/ i = Len(available)
      BY <1>2, <1>3, <1>5, <1>6, <2>1
    <3> QED
      BY <1>1, <1>2, <3>1 DEF PickedByWeight
  <2>4. PickedWithinCapacity'
    <3>1. PICK j \in 1 .. Len(active) :
            active[j].rtpp = available[i].rtpp /\ active[j].weight = available[i].weight
      BY <1>2 DEF PickIInv, AvailableAreActive
    <3>2. Greater(active[j].weight, 0)
      BY <1>3, <3>1, PickAssumption DEF Greater
    <3>3. picked' # 0 /\ picked' = active[j].rtpp
      BY <1>3, <2>1, <3>1
    <3> QED
      BY <1>1, <3>2, <3>3 DEF PickedWithinCapacity
  <2> QED
    BY <1>4, <2>1, <2>2, <2>3, <2>4 DEF PickIInv, Walking, Maximizing, Unpicked
<1>7. CASE ~ (thr' <= 0 \/ i = Len(available))
  <2>1. i' = i + 1 /\ UNCHANGED <<picked, phase>>
    BY <1>7 DEF Walk
  <2>2. i + 1 \in 2 .. Len(available) /\ i + 1 \in Nat \ {0} /\ thr' > 0
    BY <1>2, <1>3, <1>5, <1>7
  <2>3. PickTypeOK'
    BY <1>1, <1>5, <2>1, <2>2 DEF PickIInv, PickTypeOK
  <2>4. Walking'
    <3>1. (i + 1) - 1 = i /\ i + 1 \in 1 .. Len(available)
      BY <1>2, <2>2
    <3>2. available[i + 1].upto = available[i].upto + available[i + 1].weight
      BY <2>2, <3>1 DEF PickIInv, Sums
    <3>3. available[i + 1].weight \in Nat \ {0} /\ available[i + 1].upto \in Nat
      BY <3>1, Entries DEF PickIInv
    <3>4. drawn \in Nat /\ available[i].upto \in Nat /\ thr' = drawn - available[i].upto
      BY <1>2, <1>3, <1>5
    <3>5. available[i].upto = available[i + 1].upto - available[i + 1].weight
      BY <3>2, <3>3, <3>4
    <3>6. thr' = drawn - (available[i + 1].upto - available[i + 1].weight)
      BY <3>4, <3>5
    <3> QED
      BY <1>1, <2>1, <2>2, <3>1, <3>6 DEF Walking
  <2> QED
    BY <1>1, <1>4, <2>1, <2>3, <2>4
       DEF PickIInv, Maximizing, Unpicked, PickedByWeight, PickedWithinCapacity
<1> QED
  BY <1>6, <1>7

LEMMA OverloadInv == PickIInv /\ Overload => PickIInv'
<1> SUFFICES ASSUME PickIInv, Overload PROVE PickIInv'
  OBVIOUS
<1>1. /\ available = <<>> /\ active # <<>> /\ soft
      /\ phase' = "overload" /\ max_it' = 1 /\ i' = 2 /\ picked = 0
      /\ UNCHANGED <<soft, n, active, available, total, thr, picked, drawn>>
  BY DEF Overload, PickIInv, Unpicked
<1>2. PickTypeOK'
  BY <1>1 DEF PickIInv, PickTypeOK
<1>3. Sums' /\ AvailableAreActive'
  BY <1>1 DEF PickIInv, Sums, AvailableAreActive
<1>4. Maximizing'
  <2>1. Len(active) \in Nat /\ Len(active) # 0 /\ active[1].weight \in Int \cup {NaN}
    BY <1>1, Entries DEF PickIInv
  <2>2. \A j \in 1 .. 2 - 1 : ~ Greater(active[j].weight, active[1].weight)
    BY <2>1 DEF Greater
  <2> QED
    BY <1>1, <2>1, <2>2 DEF Maximizing
<1> QED
  BY <1>1, <1>2, <1>3, <1>4
     DEF PickIInv, Walking, Unpicked, PickedByWeight, PickedWithinCapacity

\* No weight seen so far is greater than that at max_it, for the greater of
\* two is not smaller than what the other is not smaller than.
LEMMA FindMaxInv == PickIInv /\ FindMax => PickIInv'
<1> SUFFICES ASSUME PickIInv, FindMax PROVE PickIInv'
  OBVIOUS
<1>1. /\ phase = "overload" /\ UNCHANGED <<soft, n, active, available, total, thr, drawn>>
  BY DEF FindMax
<1>2. /\ available = <<>> /\ active # <<>> /\ soft /\ picked = 0
      /\ max_it \in 1 .. Len(active) /\ i \in 2 .. Len(active) + 1
      /\ \A j \in 1 .. i - 1 : ~ Greater(active[j].weight, active[max_it].weight)
  BY <1>1 DEF PickIInv, Maximizing, Unpicked
<1>3. /\ Len(active) \in Nat
      /\ \A k \in 1 .. Len(active) :
           active[k].rtpp \in 1 .. n /\ active[k].weight \in Int \cup {NaN}
  BY Entries DEF PickIInv
<1>4. Sums' /\ AvailableAreActive'
  BY <1>1 DEF PickIInv, Sums, AvailableAreActive
<1>5. \A j \in 1 .. Len(active) : ~ Greater(active[j].weight, 0)
  BY <1>2 DEF PickIInv, AvailableAreActive
<1>6. CASE i > Len(active)
  <2>1. picked' = active[max_it].rtpp /\ phase' = "done" /\ UNCHANGED <<i, max_it>>
    BY <1>6 DEF FindMax
  <2>2. picked' \in 0 .. n /\ picked' # 0
    BY <1>2, <1>3, <2>1 DEF PickIInv, PickTypeOK
  <2>3. PickTypeOK'
    BY <1>1, <2>1, <2>2 DEF PickIInv, PickTypeOK
  <2>4. \A j \in 1 .. Len(active) : ~ Greater(active[j].weight, active[max_it].weight)
    BY <1>2, <1>3, <1>6
  <2>5. PickedWithinCapacity'
    BY <1>1, <1>2, <1>5, <2>1, <2>2, <2>4 DEF PickedWithinCapacity
  <2> QED
    BY <1>1, <1>2, <1>4, <2>1, <2>3, <2>5
       DEF PickIInv, Walking, Maximizing, Unpicked, PickedByWeight
<1>7. CASE ~ (i > Len(active))
  <2>1. /\ i' = i + 1 /\ UNCHANGED <<picked, phase>>
        /\ Greater(active[i].weight, active[max_it].weight) => max_it' = i
        /\ ~ Greater(active[i].weight, active[max_it].weight) => max_it' = max_it
    BY <1>7 DEF FindMax
  <2>2. i \in 1 .. Len(active) /\ i \in Nat /\ max_it \in 1 .. Len(active)
    BY <1>2, <1>3, <1>7
  <2>3. max_it' \in 1 .. Len(active)
    BY <2>1, <2>2
  <2>4. i + 1 \in 2 .. Len(active) + 1 /\ i + 1 \in Nat \ {0} /\ max_it' \in Nat
    BY <1>2, <1>3, <1>7, <2>3
  <2>5. PickTypeOK'
    BY <1>1, <2>1, <2>4 DEF PickIInv, PickTypeOK
  <2>6. ASSUME NEW j \in 1 .. (i + 1) - 1
        PROVE  ~ Greater(active[j].weight, active[max_it'].weight)
    <3>1. j \in 1 .. Len(active) /\ (j = i \/ j \in 1 .. i - 1)
      BY <1>3, <2>2
    <3>2. /\ active[j].weight \in Int \cup {NaN} /\ active[i].weight \in Int \cup {NaN}
          /\ active[max_it].weight \in Int \cup {NaN}
      BY <1>3, <2>2, <3>1
    <3>3. CASE Greater(active[i].weight, active[max_it].weight)
      <4>1. CASE j = i
        BY <2>1, <3>2, <3>3, <4>1 DEF Greater
      <4>2. CASE j \in 1 .. i - 1
        <5>1. ~ Greater(active[j].weight, active[max_it].weight)
          BY <4>2, <1>2
        <5> QED
          BY <2>1, <3>2, <3>3, <5>1 DEF Greater
      <4> QED
        BY <3>1, <4>1, <4>2
    <3>4. CASE ~ Greater(active[i].weight, active[max_it].weight)
      BY <1>2, <2>1, <3>1, <3>4
    <3> QED
      BY <3>3, <3>4
  <2>7. Maximizing'
    BY <1>1, <1>2, <2>1, <2>3, <2>4, <2>6 DEF Maximizing
  <2> QED
    BY <1>1, <1>4, <2>1, <2>5, <2>7
       DEF PickIInv, Walking, Unpicked, PickedByWeight, PickedWithinCapacity
<1> QED
  BY <1>6, <1>7

LEMMA NoProxyInv == PickIInv /\ NoProxy => PickIInv'
<1> SUFFICES ASSUME PickIInv, NoProxy PROVE PickIInv'
  OBVIOUS
<1>1. /\ available = <<>> /\ (active = <<>> \/ ~ soft) /\ picked = 0 /\ phase' = "done"
      /\ UNCHANGED <<soft, n, i, active, available, total, thr, max_it, picked, drawn>>
  BY DEF NoProxy, PickIInv, Unpicked
<1>2. PickTypeOK' /\ Sums' /\ AvailableAreActive'
  BY <1>1 DEF PickIInv, PickTypeOK, Sums, AvailableAreActive
<1>3. PickedWithinCapacity'
  BY <1>1 DEF PickIInv, AvailableAreActive, PickedWithinCapacity
<1> QED
  BY <1>1, <1>2, <1>3 DEF PickIInv, Walking, Maximizing, Unpicked, PickedByWeight

-----------------------------------------------------------------------------

\* pick_proxy keeps the sums and what its loops have established so far.
THEOREM PickInvariance == PickSpec => []PickIInv
<1>1. PickIInv /\ [PickNext]_pickVars => PickIInv'
  <2> SUFFICES ASSUME PickIInv, [PickNext]_pickVars PROVE PickIInv'
    OBVIOUS
  <2>1. CASE UNCHANGED pickVars
    BY <2>1 DEF pickVars, PickIInv, PickTypeOK, Sums, AvailableAreActive, Walking, Maximizing,
                Unpicked, PickedByWeight, PickedWithinCapacity
  <2> QED
    BY <2>1, ScanInv, DrawInv, WalkInv, OverloadInv, FindMaxInv, NoProxyInv DEF PickNext
<1> QED
  BY <1>1, PickInitInv, PTL DEF PickSpec

\* The variables of pick_proxy keep their types: its indexes stay in range,
\* and the weights that are summed up are positive numbers.
THEOREM PickTypeCorrect == PickSpec => []PickTypeOK
<1>1. PickIInv => PickTypeOK
  BY DEF PickIInv
<1> QED
  BY <1>1, PickInvariance, PTL

\* A member is picked by as many of the numbers that can be drawn as its
\* weight has units, whatever the members, their weights and their loads.
THEOREM ByWeight == PickSpec => []PickedByWeight
<1>1. PickIInv => PickedByWeight
  BY DEF PickIInv
<1> QED
  BY <1>1, PickInvariance, PTL

\* A full member is picked only if all are and the limit is soft, and then
\* one with the greatest weight; nobody is picked only if nobody may be.
THEOREM WithinCapacity == PickSpec => []PickedWithinCapacity
<1>1. PickIInv => PickedWithinCapacity
  BY DEF PickIInv
<1> QED
  BY <1>1, PickInvariance, PTL
=============================================================================
