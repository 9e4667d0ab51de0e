----------------------------- MODULE Broadcast -----------------------------
(***************************************************************************)
(* A command sent to every active member (rtp_cluster.go: broadcaster, the *)
(* two broadcasts of up_command, merge_results, merge_stats_results).      *)
(*                                                                         *)
(* Kind "session" is a command for a call nobody knows: the answers are    *)
(* collected in br.results, and the callback that brings bcount to zero    *)
(* replies.  Kind "stats" is G: answers that parse are added up and        *)
(* counted down in ecount.                                                 *)
(*                                                                         *)
(* Every member's answer comes in a goroutine of its own; only the two     *)
(* counters are atomic.  br.results is appended to by reading the slice    *)
(* and storing it back, and the callbacks name the member by the loop      *)
(* variable they share with the sending loop.                              *)
(***************************************************************************)
EXTENDS Integers, FiniteSets, Sequences

CONSTANTS
  Members,        \* the active members
  Kinds,          \* "session", "stats"
  InitialResults, \* the length br.results is made with: 1000 in the code
  NoMember        \* the loop variable before the loop

ASSUME BroadcastAssumption ==
  /\ IsFiniteSet(Members) /\ Members # {} /\ NoMember \notin Members
  /\ Kinds \subseteq {"session", "stats"}
  /\ InitialResults \in Nat /\ InitialResults > 1

VARIABLES
  kind,          \* of this broadcast
  queue,         \* members the loop has not sent to yet; it takes them in the
                 \* order of the list, which may be any
  nparts,        \* the number of members it is sent to
  rtpp,          \* the loop variable, shared by the callbacks
  answer,        \* what each member's callback gets
  bcount, ecount,
  results,       \* length of br.results; every entry past InitialResults
                 \* is a positive answer
  stats_cache,   \* the members whose cache holds statistics
  pc,            \* where the callback of each member is
  slice, ecopy,  \* its local copies of len(br.results) and of ecount
  replies        \* what was passed to down_command, in order

counters == <<bcount, ecount>>
locals   == <<slice, ecopy>>
loop     == <<queue, nparts, rtpp, answer>>
vars     == <<kind, loop, counters, results, stats_cache, pc, locals, replies>>

Answers == {"none", "E", "positive", "not_found"}
Steps == {"unsent", "sent", "append", "count_session", "success",
          "count_stats", "finish", "done"}
ReplySet == {"positive", "no_result", "E993", "stats"}
Lengths == {n \in Nat : n >= InitialResults}

TypeOK ==
  /\ kind \in Kinds
  /\ queue \in SUBSET Members
  /\ nparts \in 0 .. Cardinality(Members)
  /\ rtpp \in Members \cup {NoMember}
  /\ answer \in [Members -> Answers]
  /\ bcount \in 0 .. Cardinality(Members)
  /\ ecount \in 0 .. Cardinality(Members)
  /\ results \in Lengths
  /\ stats_cache \in SUBSET Members
  /\ pc \in [Members -> Steps]
  /\ slice \in [Members -> Lengths]
  /\ ecopy \in [Members -> 0 .. Cardinality(Members)]
  /\ replies \in Seq(ReplySet)

\* newBroadcaster, with the members that are online.  An answer "not_found" is the "0" of U and L, "none" a timeout.
Init ==
  /\ kind \in Kinds
  /\ queue \in SUBSET Members
  /\ nparts = Cardinality(queue)
  /\ rtpp = NoMember
  /\ answer \in [Members -> Answers]
  /\ kind = "stats" => \A m \in Members : answer[m] # "not_found"
  /\ bcount = nparts /\ ecount = nparts
  /\ results = InitialResults
  /\ stats_cache \in IF kind = "stats" THEN SUBSET Members ELSE {{}}
  /\ pc = [m \in Members |-> "unsent"]
  /\ slice = [m \in Members |-> InitialResults]
  /\ ecopy = [m \in Members |-> 0]
  /\ replies = <<>>

Goto(m, step) == pc' = [pc EXCEPT ![m] = step]

-----------------------------------------------------------------------------
\* for _, rtpp = range active { rtpp.SendCommand(...) }
SendCommand(m) ==
  /\ m \in queue
  /\ rtpp' = m
  /\ queue' = queue \ {m}
  /\ Goto(m, "sent")
  /\ UNCHANGED <<kind, nparts, answer, counters, results, stats_cache, locals,
                 replies>>

(* merge_results                                                           *)

\* The answer arrives; a positive one starts the append.
MergeBegin(m) ==
  /\ kind = "session" /\ pc[m] = "sent"
  /\ IF answer[m] = "positive"
       THEN /\ slice' = [slice EXCEPT ![m] = results]
            /\ Goto(m, "append")
       ELSE /\ UNCHANGED slice
            /\ Goto(m, "count_session")
  /\ UNCHANGED <<kind, loop, counters, results, stats_cache, ecopy, replies>>

\* br.results = append(br.results, result): an append in between is lost.
MergeAppend(m) ==
  /\ pc[m] = "append"
  /\ results' = slice[m] + 1
  /\ Goto(m, "count_session")
  /\ UNCHANGED <<kind, loop, counters, stats_cache, locals, replies>>

\* Mutation: every callback that finds no member left to answer replies.
CountWithoutReturn(m) ==
  /\ pc[m] = "count_session"
  /\ bcount' = bcount - 1
  /\ Goto(m, "finish")
  /\ UNCHANGED <<kind, loop, ecount, results, stats_cache, locals, replies>>

\* Mutation: the callback before the last goes on already.
CountEarly(m) ==
  /\ pc[m] = "count_session"
  /\ bcount' = bcount - 1
  /\ Goto(m, IF bcount' > 1 THEN "done" ELSE "finish")
  /\ UNCHANGED <<kind, loop, ecount, results, stats_cache, locals, replies>>

\* bcount := br.dec_bcount(): only the last callback goes on.
MergeCount(m) ==
  /\ pc[m] = "count_session"
  /\ bcount' = bcount - 1
  /\ Goto(m, IF bcount' > 0 THEN "done" ELSE "finish")
  /\ UNCHANGED <<kind, loop, ecount, results, stats_cache, locals, replies>>

\* The reply: "no_result" is "0" for U and L, E995 for the others.
MergeReply(m) ==
  /\ kind = "session" /\ pc[m] = "finish"
  /\ replies' = Append(replies, IF results = 1 THEN "positive"
                                               ELSE "no_result")
  /\ Goto(m, "done")
  /\ UNCHANGED <<kind, loop, counters, results, stats_cache, locals>>

(* merge_stats_results                                                     *)

\* An empty result is replaced by the cached statistics of the member the
\* loop variable names, and a good one is cached for that member; then
\* ecount is read.
StatsBegin(m) ==
  /\ kind = "stats" /\ pc[m] = "sent"
  /\ stats_cache' = IF answer[m] = "positive" THEN stats_cache \cup {rtpp}
                                              ELSE stats_cache
  /\ ecopy' = [ecopy EXCEPT ![m] = ecount]
  /\ Goto(m, IF \/ answer[m] = "positive"
                \/ answer[m] = "none" /\ rtpp \in stats_cache
               THEN "success" ELSE "count_stats")
  /\ UNCHANGED <<kind, loop, counters, results, slice, replies>>

\* ParseAndAdd: statistics that do not parse change nothing.
StatsAdd(m) ==
  /\ pc[m] = "success"
  /\ \/ /\ ecount' = ecount - 1
        /\ ecopy' = [ecopy EXCEPT ![m] = ecount']
     \/ UNCHANGED <<ecount, ecopy>>
  /\ Goto(m, "count_stats")
  /\ UNCHANGED <<kind, loop, bcount, results, stats_cache, slice, replies>>

\* Mutation: the last callback returns too (bcount >= 0).
StatsCountNeverLast(m) ==
  /\ pc[m] = "count_stats"
  /\ bcount' = bcount - 1
  /\ Goto(m, "done")
  /\ UNCHANGED <<kind, loop, ecount, results, stats_cache, locals, replies>>

StatsCount(m) ==
  /\ pc[m] = "count_stats"
  /\ bcount' = bcount - 1
  /\ Goto(m, IF bcount' > 0 THEN "done" ELSE "finish")
  /\ UNCHANGED <<kind, loop, ecount, results, stats_cache, locals, replies>>

\* Mutation: the counter is compared with zero.
StatsReplyComparesZero(m) ==
  /\ kind = "stats" /\ pc[m] = "finish"
  /\ replies' = Append(replies, IF ecopy[m] # 0 THEN "stats" ELSE "E993")
  /\ Goto(m, "done")
  /\ UNCHANGED <<kind, loop, counters, results, stats_cache, locals>>

StatsReply(m) ==
  /\ kind = "stats" /\ pc[m] = "finish"
  /\ replies' = Append(replies, IF ecopy[m] # nparts THEN "stats" ELSE "E993")
  /\ Goto(m, "done")
  /\ UNCHANGED <<kind, loop, counters, results, stats_cache, locals>>

Callback(m) ==
  \/ MergeBegin(m) \/ MergeAppend(m) \/ MergeCount(m) \/ MergeReply(m)
  \/ StatsBegin(m) \/ StatsAdd(m) \/ StatsCount(m) \/ StatsReply(m)

Next == \E m \in Members : SendCommand(m) \/ Callback(m)

Spec == Init /\ [][Next]_vars

\* The loop runs to its end, and a client calls back for every command.
FairSpec ==
  /\ Spec
  /\ WF_vars(\E m \in Members : SendCommand(m))
  /\ \A m \in Members : WF_vars(Callback(m))

-----------------------------------------------------------------------------
(* Properties.                                                             *)

Replied == replies # <<>>

\* The callbacks send one reply between them, and not before every member
\* that was asked has answered.
RepliedOnce ==
  /\ Len(replies) <= 1
  /\ Replied => queue = {} /\ \A m \in Members : pc[m] \in {"unsent", "done"}

\* Statistics are reported only if those of some member were added up, and
\* E993 only if those of some member were not.
StatsReplyJustified ==
  kind = "stats" /\ Replied =>
    \/ replies[1] = "stats" /\ ecount < nparts
    \/ replies[1] = "E993" /\ ecount > 0

\* A broadcast to at least one member is answered.
BroadcastAnswered == nparts > 0 ~> Replied

\* Still to be counted down in bcount.
Counting == {"sent", "append", "count_session", "success", "count_stats"}
Uncounted == queue \cup {m \in Members : pc[m] \in Counting}

\* A broadcast is a gathering of answers.  The answers to a session command
\* are never used: its results start at InitialResults, not empty.
Gathering == INSTANCE Gather WITH
  asked   <- nparts,
  waiting <- Uncounted,
  used    <- IF kind = "stats" THEN nparts - ecount ELSE 0,
  reply   <- IF replies = <<>> THEN "none"
             ELSE IF replies[1] \in {"positive", "stats"} THEN "merged"
             ELSE "failed"

\* Whatever the interleaving of the sending loop and of the callbacks, their
\* steps are those of a gathering, or invisible to it.
GathersAnswers == Gathering!Spec
=============================================================================
