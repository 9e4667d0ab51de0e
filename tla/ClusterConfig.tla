--------------------------- MODULE ClusterConfig ---------------------------
(***************************************************************************)
(* Read_cluster_config and its ValidateHandler of rtp_cluster_config.go:   *)
(* clusters, members and notification sections, put together from the      *)
(* tokens of encoding/xml.  The handler does not see the document: it      *)
(* knows the name of the element last begun and a stack of section names.  *)
(*                                                                         *)
(* The decoder is the environment.  It reports the elements of a           *)
(* well-formed document, nested as Rtp_cluster_config.dtd has them but in  *)
(* any number and order, elements the file format does not know around     *)
(* any others, text before the root and between any two tags, a text in    *)
(* pieces where a comment parts it; and an error, or the end, anywhere.    *)
(*                                                                         *)
(* Of the fields, name stands for itself, weight for the two numbers, and  *)
(* address for all that are stored whether they are valid or not.          *)
(***************************************************************************)
EXTENDS Integers, Sequences, SequencesExt

CONSTANTS
  Texts, Atoi,               \* texts, and the numbers they mean, or NaN
  NaN, Unnamed, Default,     \* no number, the empty name, a field not given
  MaxDepth, MaxSize          \* bounds on the nesting of a file, and on its
                             \* sections and the texts in its fields

ASSUME ConfigAssumption ==
  /\ Atoi \in [Texts -> Int \cup {NaN}] /\ NaN \notin Int
  /\ Unnamed \notin Texts /\ Default \notin Texts

VARIABLES
  open,         \* the document: the elements that are open, with the place
                \* of the record of a section,
  begun, odd,   \* whether it has a root yet, and a section out of place
  element, ctx,                    \* the handler
  rtp_cluster, rtpproxy, dnconfig, \* its pointers: places, <<>> for nil
  config,
  outcome,
  size          \* bound: sections and texts read so far

doc == <<open, begun, odd>>
pointers == <<rtp_cluster, rtpproxy, dnconfig>>
vars == <<doc, element, ctx, pointers, config, outcome, size>>

ClusterFields == {"name", "address"}
ProxyFields == {"name", "address", "weight"}
NotifyFields == {"inbound_address"}
Sections == {"rtp_cluster", "rtpproxy", "disconnect_notify"}

NewRtpCluster ==
  [name |-> Unnamed, address |-> Default, soft |-> FALSE, notify |-> <<>>, proxies |-> <<>>]
NewRtpProxy == [name |-> Unnamed, address |-> Default, weight |-> 100]
NewDisconnectNotify == [inbound_address |-> Default]

\* What the document may begin inside of an element.
Children(e) ==
  CASE e = "rtp_cluster_config" -> {"rtp_cluster", "unknown"}
    [] e = "rtp_cluster" ->
         {"rtpproxy", "disconnect_notify", "capacity_limit", "unknown"} \cup ClusterFields
    [] e = "rtpproxy" -> {"capacity_limit", "unknown"} \cup ProxyFields
    [] e = "disconnect_notify" -> {"unknown"} \cup NotifyFields
    [] e = "unknown" -> Sections \cup {"name", "capacity_limit"}
    [] OTHER -> {"unknown"}

Init ==
  /\ open = <<>> /\ begun = FALSE /\ odd = FALSE
  /\ element = "" /\ ctx = <<>>
  /\ rtp_cluster = <<>> /\ rtpproxy = <<>> /\ dnconfig = <<>>
  /\ config = <<>> /\ outcome = "reading" /\ size = 0

-----------------------------------------------------------------------------
(* Start and end of elements.                                              *)

Read == size < MaxSize /\ size' = size + 1

Parent == IF open = <<>> THEN "" ELSE Last(open).name

MayBegin(e) ==
  /\ outcome = "reading" /\ Len(open) < MaxDepth
  /\ IF open = <<>> THEN ~ begun /\ e = "rtp_cluster_config" ELSE e \in Children(Parent)

\* History: a section inside of an element that is not known.
Misplaced(e) == odd' = (odd \/ (e \in Sections /\ Parent = "unknown"))

\* The token StartElement, which all cases note; place is that of the record.
Begin(e, place) ==
  /\ MayBegin(e)
  /\ open' = Append(open, [name |-> e, place |-> place])
  /\ begun' = TRUE
  /\ Misplaced(e)
  /\ element' = e
  /\ IF e \in Sections THEN Read ELSE UNCHANGED size
  /\ UNCHANGED outcome

BeginConfig ==
  /\ Begin("rtp_cluster_config", <<>>)
  /\ ctx' = Append(ctx, "rtp_cluster_config")
  /\ UNCHANGED <<pointers, config>>

BeginCluster ==
  /\ config' = Append(config, NewRtpCluster)
  /\ rtp_cluster' = <<Len(config')>>
  /\ ctx' = Append(ctx, "rtp_cluster")
  /\ Begin("rtp_cluster", rtp_cluster')
  /\ UNCHANGED <<rtpproxy, dnconfig>>

BeginProxy ==
  /\ rtp_cluster # <<>>
  /\ config' = [config EXCEPT ![rtp_cluster[1]].proxies = Append(@, NewRtpProxy)]
  /\ rtpproxy' = <<rtp_cluster[1], Len(config'[rtp_cluster[1]].proxies)>>
  /\ ctx' = Append(ctx, "rtpproxy")
  /\ Begin("rtpproxy", rtpproxy')
  /\ UNCHANGED <<rtp_cluster, dnconfig>>

BeginNotify ==
  /\ rtp_cluster # <<>>
  /\ config' = [config EXCEPT ![rtp_cluster[1]].notify = <<NewDisconnectNotify>>]
  /\ dnconfig' = rtp_cluster
  /\ ctx' = Append(ctx, "dnconfig")
  /\ Begin("disconnect_notify", dnconfig')
  /\ UNCHANGED <<rtp_cluster, rtpproxy>>

\* The type of a limit counts only in a cluster, and if there is one.
BeginLimit ==
  /\ Begin("capacity_limit", <<>>)
  /\ \/ /\ Last(ctx) = "rtp_cluster" /\ rtp_cluster # <<>>
        /\ \E soft \in BOOLEAN : config' = [config EXCEPT ![rtp_cluster[1]].soft = soft]
     \/ UNCHANGED config
  /\ UNCHANGED <<ctx, pointers>>

BeginOther ==
  /\ \E e \in ClusterFields \cup ProxyFields \cup NotifyFields \cup {"unknown"} :
       Begin(e, <<>>)
  /\ UNCHANGED <<ctx, pointers, config>>

\* self.rtp_cluster is nil where something of a cluster begins.
BeginNowhere ==
  /\ rtp_cluster = <<>>
  /\ \E e \in {"rtpproxy", "disconnect_notify", "capacity_limit"} :
       /\ MayBegin(e) /\ Misplaced(e)
       /\ e = "capacity_limit" => Last(ctx) = "rtp_cluster"
  /\ outcome' = "panicked"
  /\ UNCHANGED <<open, begun, element, ctx, pointers, config, size>>

\* Mutation: the section stays on the stack.
LeaveOnStack == UNCHANGED ctx

Pop == ctx' = Front(ctx)

\* Mutation: an element that ends is not forgotten.
KeepElement(name) == UNCHANGED element

\* The branch for all elements but three: rtp_cluster_config stays in ctx.
ClearElement(name) == element' = IF name = element THEN "" ELSE element

\* The token EndElement, for the element last opened.
EndElement ==
  /\ outcome = "reading" /\ open # <<>>
  /\ open' = Front(open)
  /\ \/ /\ Parent = "rtp_cluster" /\ Pop
        /\ rtp_cluster' = <<>> /\ UNCHANGED <<element, rtpproxy, dnconfig>>
     \/ /\ Parent = "rtpproxy" /\ Pop
        /\ rtpproxy' = <<>> /\ UNCHANGED <<element, rtp_cluster, dnconfig>>
     \/ /\ Parent = "disconnect_notify" /\ Pop
        /\ dnconfig' = <<>> /\ UNCHANGED <<element, rtp_cluster, rtpproxy>>
     \/ /\ Parent \notin Sections /\ ClearElement(Parent)
        /\ UNCHANGED <<ctx, pointers>>
  /\ UNCHANGED <<begun, odd, config, outcome, size>>

-----------------------------------------------------------------------------
(* Text.  What Characters returns is ignored by Read_cluster_config.       *)

In(section, fields) == ctx # <<>> /\ Last(ctx) = section /\ element \in fields

\* The token CharData, where it is stored unless the name is taken.
Text == outcome = "reading" /\ Read

\* Mutation: a name must differ from that of the first record only.
TakenByFirst(records, t) == records[1].name = t

Taken(records, t) == \E k \in DOMAIN records : records[k].name = t

\* Mutation: a number is stored before its error is looked at.
SetAnyNumber(record, t) ==
  [record EXCEPT ![element] = IF element # "weight" THEN t ELSE Atoi[t]]

\* The record with its field set: a number that is none is not stored, one
\* that is not positive is.
Set(record, t) ==
  [record EXCEPT ![element] = IF element # "weight" THEN t
                              ELSE IF Atoi[t] = NaN THEN @ ELSE Atoi[t]]

SetCluster(t) ==
  /\ Text /\ In("rtp_cluster", ClusterFields) /\ rtp_cluster # <<>>
  /\ IF element = "name" /\ Taken(config, t) THEN UNCHANGED config
     ELSE config' = [config EXCEPT ![rtp_cluster[1]] = Set(@, t)]
  /\ UNCHANGED <<doc, element, ctx, pointers, outcome>>

SetProxy(t) ==
  /\ Text /\ In("rtpproxy", ProxyFields) /\ rtpproxy # <<>>
  /\ element = "name" => rtp_cluster # <<>>
  /\ IF element = "name" /\ Taken(config[rtp_cluster[1]].proxies, t) THEN UNCHANGED config
     ELSE config' = [config EXCEPT ![rtpproxy[1]].proxies[rtpproxy[2]] = Set(@, t)]
  /\ UNCHANGED <<doc, element, ctx, pointers, outcome>>

SetNotify(t) ==
  /\ Text /\ In("dnconfig", NotifyFields) /\ dnconfig # <<>>
  /\ config' = [config EXCEPT ![dnconfig[1]].notify = <<Set(@[1], t)>>]
  /\ UNCHANGED <<doc, element, ctx, pointers, outcome>>

\* ctx has no last element, or what the text belongs to is nil.
TextNowhere ==
  /\ outcome = "reading"
  /\ \/ ctx = <<>>
     \/ In("rtp_cluster", ClusterFields) /\ rtp_cluster = <<>>
     \/ In("rtpproxy", ProxyFields) /\ rtpproxy = <<>>
     \/ In("rtpproxy", {"name"}) /\ rtp_cluster = <<>>
     \/ In("dnconfig", NotifyFields) /\ dnconfig = <<>>
  /\ outcome' = "panicked"
  /\ UNCHANGED <<doc, element, ctx, pointers, config, size>>

\* An error of the decoder, and the end of the file, end the loop alike.
Return ==
  /\ outcome = "reading"
  /\ outcome' = "returned"
  /\ UNCHANGED <<doc, element, ctx, pointers, config, size>>

Next ==
  \/ BeginConfig \/ BeginCluster \/ BeginProxy \/ BeginNotify \/ BeginLimit
  \/ BeginOther \/ BeginNowhere \/ EndElement
  \/ \E t \in Texts : SetCluster(t) \/ SetProxy(t) \/ SetNotify(t)
  \/ TextNowhere \/ Return

Spec == Init /\ [][Next]_vars

-----------------------------------------------------------------------------
(* Properties.                                                             *)

Field == Texts \cup {Unnamed, Default}
Proxy == [name : Field, address : Field, weight : Int]
Cluster ==
  [name : Field, address : Field, soft : BOOLEAN,
   notify : {<<>>} \cup {<<[inbound_address |-> f]>> : f \in Field}, proxies : Seq(Proxy)]

TypeOK ==
  /\ begun \in BOOLEAN /\ odd \in BOOLEAN /\ outcome \in {"reading", "returned", "panicked"}
  /\ config \in Seq(Cluster)
  /\ \A at \in {rtp_cluster, dnconfig} \ {<<>>} : at[1] \in DOMAIN config
  /\ rtpproxy # <<>> =>
       rtpproxy[1] \in DOMAIN config /\ rtpproxy[2] \in DOMAIN config[rtpproxy[1]].proxies

\* A file whose sections are where they belong is read to its end: only a
\* text before the root element ends the process.
OrderlyFilesAreRead == outcome = "panicked" => ~ begun \/ odd

\* The names of clusters, and those of the members of a cluster, differ,
\* in whatever pieces and how often they are given, except that any number of
\* them may be unnamed.
NamesDistinct ==
  LET distinct(records) ==
        \A j, k \in DOMAIN records :
          j # k /\ records[j].name # Unnamed => records[j].name # records[k].name
  IN  distinct(config) /\ \A c \in DOMAIN config : distinct(config[c].proxies)

\* The element of the section the document is in.
Section == LET k == SelectLastInSeq(open, LAMBDA e : e.name \in Sections)
           IN  IF k = 0 THEN [name |-> "", place |-> <<>>] ELSE open[k]

\* A record changes only while its section is the innermost one open, and
\* only in the field of the element the document is in: what the handler
\* takes for the place of a text is where the text stands, and a section that
\* has ended is final, even if the rest of the file cannot be read.
TextsStayInPlace ==
  [][\A c \in DOMAIN config :
       LET in(name, at) == Section = [name |-> name, place |-> at]
           was == config[c]  is == config'[c]
       IN  /\ \A f \in ClusterFields :
                is[f] # was[f] => in("rtp_cluster", <<c>>) /\ Parent = f
           /\ is.soft # was.soft =>
                in("rtp_cluster", <<c>>) /\ Last(open').name = "capacity_limit"
           /\ is.notify # was.notify =>
                \/ Section'.name = "disconnect_notify" /\ Len(open') > Len(open)
                \/ in("disconnect_notify", <<c>>) /\ Parent \in NotifyFields
           /\ \A p \in DOMAIN was.proxies : \A f \in ProxyFields :
                is.proxies[p][f] # was.proxies[p][f] => in("rtpproxy", <<c, p>>) /\ Parent = f]_vars
=============================================================================
