----------------------------- MODULE PickProxy -----------------------------
(***************************************************************************)
(* pick_proxy of rtp_cluster.go and get_caputil of rtp_cluster_member.go:  *)
(* the member a new session goes to, drawn by weight among those that are  *)
(* below their capacity.                                                   *)
(*                                                                         *)
(* The loop reads status, availability, weight and load of one member      *)
(* after the other while other goroutines change them: a step reads any    *)
(* values they may have.  Floating point numbers are whole multiples of a  *)
(* small unit here, and what rounding may add to the drawn number is a     *)
(* constant.                                                               *)
(***************************************************************************)
EXTENDS Integers, Sequences

CONSTANTS
  MaxMembers, \* bound on the length of the active list
  Settings,   \* weight, capacity and load a member may have
  Unit,       \* number of units in 1, a multiple of the capacities
  Rounding,   \* by how many units a drawn number may be too large
  Lowest,     \* stands for minus infinity: below all weights
  NaN

ASSUME PickAssumption ==
  /\ MaxMembers \in Nat /\ Rounding \in Nat /\ Unit \in Nat \ {0}
  /\ NaN \notin Int /\ Lowest \in Int /\ Lowest < 0

\* Bound: weights are not negative, though the reader of the configuration
\* lets such a weight pass.
ASSUME SettingsAssumption ==
  Settings \subseteq [weight : Nat, capacity : Nat, sessions : Nat]

VARIABLES
  soft,      \* capacity_limit_soft
  n,         \* the length of the list the loop runs over
  phase, i,
  active,    \* members that may be picked, by place, with their weights
  available, \* those below their capacity, and total_weight at each of them
  total,     \* total_weight
  thr,       \* thr_weight
  max_it,
  picked,    \* rtpp: the place of the member picked, 0 for nil
  drawn      \* history: thr_weight as it was drawn

pickVars == <<soft, n, phase, i, active, available, total, thr, max_it, picked, drawn>>

PickTypeOK ==
  /\ soft \in BOOLEAN /\ n \in 0 .. MaxMembers
  /\ phase \in {"scan", "walk", "overload", "done"}
  /\ i \in Nat \ {0} /\ max_it \in Nat /\ picked \in 0 .. n
  /\ active \in Seq([rtpp : 1 .. n, weight : Int \cup {NaN}])
  /\ available \in Seq([rtpp : 1 .. n, weight : Nat \ {0}, upto : Nat])
  /\ total \in Nat /\ thr \in Int /\ drawn \in Nat

PickInit ==
  /\ soft \in BOOLEAN /\ n \in 0 .. MaxMembers
  /\ phase = "scan" /\ i = 1 /\ max_it = 0 /\ picked = 0
  /\ active = <<>> /\ available = <<>>
  /\ total = 0 /\ thr = 0 /\ drawn = 0

\* float64(weight) * (1 - get_caputil()), in units.  A capacity of 0 gives
\* infinities, and 0 / 0 and 0 * infinity are not numbers.
WeightNow(s) ==
  IF s.capacity # 0 THEN s.weight * (s.capacity - s.sessions) * (Unit \div s.capacity)
  ELSE IF s.sessions = 0 \/ s.weight = 0 THEN NaN
  ELSE Lowest

\* it.weight > other, false if one is not a number.
Greater(v, w) == v # NaN /\ w # NaN /\ v > w

\* Mutation: a member without a free place is available, too.
AvailableIfFull(w) ==
  /\ active' = Append(active, [rtpp |-> i, weight |-> w])
  /\ IF Greater(w, -1)
       THEN /\ available' = Append(available, [rtpp |-> i, weight |-> w, upto |-> total + w])
            /\ total' = total + w
       ELSE UNCHANGED <<available, total>>

\* An ACTIVE member that is online joins active, and available if it has a
\* positive weight.
Consider(w) ==
  /\ active' = Append(active, [rtpp |-> i, weight |-> w])
  /\ IF Greater(w, 0)
       THEN /\ available' = Append(available, [rtpp |-> i, weight |-> w, upto |-> total + w])
            /\ total' = total + w
       ELSE UNCHANGED <<available, total>>

Scan ==
  /\ phase = "scan" /\ i <= n
  /\ \/ \E s \in Settings : Consider(WeightNow(s))
     \/ UNCHANGED <<active, available, total>>
  /\ i' = i + 1
  /\ UNCHANGED <<soft, n, phase, thr, max_it, picked, drawn>>

\* (1.0 - rand.Float64()) * total_weight: above 0, and up to total_weight.
\* As weights are whole, only the units a number reaches into matter.
Draw ==
  /\ phase = "scan" /\ i > n /\ available # <<>>
  /\ thr' \in 1 .. total + Rounding
  /\ drawn' = thr' /\ phase' = "walk" /\ i' = 1
  /\ UNCHANGED <<soft, n, active, available, total, max_it, picked>>

\* Mutation: the loop goes on if nothing is left.
WalkTooFar ==
  /\ phase = "walk"
  /\ thr' = thr - available[i].weight
  /\ IF thr' < 0 \/ i = Len(available)
       THEN picked' = available[i].rtpp /\ phase' = "done" /\ UNCHANGED i
       ELSE i' = i + 1 /\ UNCHANGED <<picked, phase>>
  /\ UNCHANGED <<soft, n, active, available, total, max_it, drawn>>

\* The loop that takes weights off; it ends with the last member anyway.
Walk ==
  /\ phase = "walk"
  /\ thr' = thr - available[i].weight
  /\ IF thr' <= 0 \/ i = Len(available)
       THEN picked' = available[i].rtpp /\ phase' = "done" /\ UNCHANGED i
       ELSE i' = i + 1 /\ UNCHANGED <<picked, phase>>
  /\ UNCHANGED <<soft, n, active, available, total, max_it, drawn>>

\* All are full, and the limit is soft: the greatest weight is looked for.
Overload ==
  /\ phase = "scan" /\ i > n /\ available = <<>> /\ active # <<>> /\ soft
  /\ phase' = "overload" /\ max_it' = 1 /\ i' = 2
  /\ UNCHANGED <<soft, n, active, available, total, thr, picked, drawn>>

FindMax ==
  /\ phase = "overload"
  /\ IF i > Len(active)
       THEN picked' = active[max_it].rtpp /\ phase' = "done" /\ UNCHANGED <<i, max_it>>
       ELSE /\ max_it' = IF Greater(active[i].weight, active[max_it].weight) THEN i ELSE max_it
            /\ i' = i + 1
            /\ UNCHANGED <<picked, phase>>
  /\ UNCHANGED <<soft, n, active, available, total, thr, drawn>>

NoProxy ==
  /\ phase = "scan" /\ i > n /\ available = <<>> /\ (active = <<>> \/ ~ soft)
  /\ phase' = "done"
  /\ UNCHANGED <<soft, n, i, active, available, total, thr, max_it, picked, drawn>>

PickNext == Scan \/ Draw \/ Walk \/ Overload \/ FindMax \/ NoProxy

PickSpec == PickInit /\ [][PickNext]_pickVars

-----------------------------------------------------------------------------
(* Properties.                                                             *)

\* A member is picked by as many of the numbers that can be drawn as its
\* weight has units: the numbers above the weights before it, up to and with
\* its own.  What rounding adds at the end falls to the last member.
PickedByWeight ==
  phase = "done" /\ available # <<>> =>
    \E k \in 1 .. Len(available) :
      /\ picked = available[k].rtpp
      /\ available[k].upto - available[k].weight < drawn
      /\ drawn <= available[k].upto \/ k = Len(available)

\* The capacity is a limit: a member that is full is picked only if all are
\* and the limit is soft, and then none has a greater weight; and no member
\* is picked only if there is none, or all are full and the limit is hard.
PickedWithinCapacity ==
  LET full(a) == ~ Greater(a.weight, 0)
      allFull == \A k \in 1 .. Len(active) : full(active[k])
  IN  phase = "done" =>
        IF picked = 0 THEN allFull /\ (active = <<>> \/ ~ soft)
        ELSE \E k \in 1 .. Len(active) :
               /\ picked = active[k].rtpp
               /\ full(active[k]) =>
                    /\ soft /\ allFull
                    /\ \A j \in 1 .. Len(active) :
                         ~ Greater(active[j].weight, active[k].weight)
=============================================================================
