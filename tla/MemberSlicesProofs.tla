------------------------- MODULE MemberSlicesProofs -------------------------
(***************************************************************************)
(* That the slices of MemberSlices act as lists, whatever any number of    *)
(* threads do to their arrays, and what a look-up or a reload without the  *)
(* lock can be trusted to find.                                            *)
(***************************************************************************)
EXTENDS MemberSlices, SequenceTheorems, FiniteSetTheorems, TLAPS

Scanning == {"scan"}
Copying  == {"copy_find", "copy_reload"}
Reading  == {"find", "reload"}
Sorting  == {"less", "swap"}

\* The lists have room in their arrays, and their entries were written.
Filled ==
  /\ active.n + pending.n <= Cardinality(created)
  /\ \A k \in 1 .. active.n : active.a[k] \in created
  /\ \A k \in 1 .. pending.n : pending.a[k] \in created

\* Where a thread is; what it may read or copy was written.
Position(t) ==
  LET h == header[t][1]
      g == header[t][2]
  IN  /\ pc[t] \in Scanning \cup Copying \cup Reading => h + g <= Room
      /\ pc[t] \in Scanning => i[t] \in 1 .. h + 1
      /\ pc[t] \in Copying => i[t] = 1
      /\ pc[t] \in Reading => i[t] \in 1 .. h + g + 1
      /\ pc[t] \in Sorting => 2 <= i[t] /\ i[t] <= g
      /\ pc[t] = "less" => g <= h + 1 \/ g = 2
      /\ pc[t] = "swap" => g <= h
      /\ pc[t] # "idle" => \A k \in 1 .. h : active.a[k] \in created
      /\ pc[t] \in Copying => \A k \in 1 .. g : pending.a[k] \in created
      /\ pc[t] \in Reading => \A k \in 1 .. h + g : active.a[k] \in created

Base == TypeOK /\ Filled /\ \A t \in Threads : Position(t)

\* No member is listed twice.
Distinct(sl) == \A j, k \in 1 .. sl.n : sl.a[j] = sl.a[k] => j = k

Exact ==
  ~ torn => /\ Listed(active) \cup Listed(pending) = created \ gone
            /\ Listed(active) \cap Listed(pending) = {}
            /\ Distinct(active) /\ Distinct(pending)

\* What an is_in_active that may be trusted has met.
Scan(t) ==
  /\ header[t][1] <= active.n
  /\ \A k \in 1 .. i[t] - 1 : active.a[k] # item[t]
  /\ seen[t] = IF \E k \in 1 .. header[t][1] : active.a[k] = item[t]
                 THEN <<item[t]>> ELSE <<>>

\* What a thread that nobody disturbs copied or is going to copy.
Undisturbed(t) == header[t][1] = active.n /\ header[t][2] <= pending.n

Copied(t) ==
  \A k \in 1 .. header[t][2] : active.a[header[t][1] + k] = pending.a[k]

Find(t) ==
  /\ Undisturbed(t)
  /\ pc[t] = "find" => Copied(t) /\ \A k \in 1 .. i[t] - 1 : active.a[k] # item[t]
  /\ seen[t] = IF \/ \E k \in 1 .. header[t][1] : active.a[k] = item[t]
                  \/ \E k \in 1 .. header[t][2] : pending.a[k] = item[t]
                 THEN <<item[t]>> ELSE <<>>

Lookup(t) ==
  /\ pc[t] = "scan" /\ others[t] # "more" => Scan(t)
  /\ pc[t] \in {"find", "copy_find"} /\ others[t] = "nothing" => Find(t)

\* What a reload that nobody disturbs runs over: the entries it began with, of
\* which it passes one whenever it removes a member of active.
Sweep(t) ==
  LET h == header[t][1]
      removed == h - active.n
  IN  /\ Len(seen[t]) = h + header[t][2]
      /\ pc[t] = "copy_reload" =>
           /\ Undisturbed(t)
           /\ \A k \in 1 .. h : active.a[k] = seen[t][k]
           /\ \A k \in 1 .. header[t][2] : pending.a[k] = seen[t][h + k]
      /\ pc[t] = "reload" =>
           /\ removed >= 0
           /\ \A k \in 1 .. h :
                k >= i[t] => active.a[k] = seen[t][IF k + removed <= h THEN k + removed ELSE h]
           /\ \A k \in 1 .. header[t][2] : active.a[h + k] = seen[t][h + k]
           /\ \A k \in 1 .. h :
                k < i[t] + removed /\ seen[t][k] \in Obsolete \ down[t]
                  => k > 1 /\ seen[t][k - 1] \in down[t] \cap gone
           /\ \A k \in 1 .. header[t][2] :
                h + k < i[t] /\ seen[t][h + k] \in Obsolete => seen[t][h + k] \in down[t]

Reload(t) ==
  pc[t] \in {"copy_reload", "reload"} /\ others[t] = "nothing" /\ ~ torn => Sweep(t)

IInv == Base /\ Exact /\ \A t \in Threads : Lookup(t) /\ Reload(t)

-----------------------------------------------------------------------------
(* Operations on slices.                                                   *)

LEMMA RoomNat == Room \in Nat
BY SlicesAssumption, FS_CardinalityType DEF Room

LEMMA SliceFacts ==
  ASSUME NEW sl \in Slice
  PROVE  /\ sl.n \in 0 .. Room /\ sl.a \in [1 .. Room -> Members \cup {NoMember}]
         /\ sl = [a |-> sl.a, n |-> sl.n]
BY DEF Slice

\* The entries of a slice, as a sequence.
LEMMA ItemsOf ==
  ASSUME NEW sl \in Slice
  PROVE  /\ Items(sl) = [k \in 1 .. sl.n |-> sl.a[k]]
         /\ Items(sl) \in Seq(Members \cup {NoMember})
         /\ Len(Items(sl)) = sl.n
<1> DEFINE M == Members \cup {NoMember}
<1>1. sl.n \in 0 .. Room /\ sl.n \in Nat /\ \A k \in 1 .. sl.n : sl.a[k] \in M
  BY RoomNat, SliceFacts
<1>2. /\ Items(sl) \in Seq(M) /\ Len(Items(sl)) = sl.n
      /\ \A k \in 1 .. sl.n : Items(sl)[k] = sl.a[k]
  <2>1. /\ SubSeq(sl.a, 1, sl.n) \in Seq(M)
        /\ Len(SubSeq(sl.a, 1, sl.n)) = IF 1 <= sl.n THEN sl.n - 1 + 1 ELSE 0
        /\ \A k \in 1 .. sl.n - 1 + 1 : SubSeq(sl.a, 1, sl.n)[k] = sl.a[1 + k - 1]
    BY <1>1, SubSeqProperties
  <2>2. \A k \in 1 .. sl.n : k \in 1 .. sl.n - 1 + 1 /\ 1 + k - 1 = k
    BY <1>1
  <2>3. Len(SubSeq(sl.a, 1, sl.n)) = sl.n
    BY <1>1, <2>1
  <2> QED
    BY <2>1, <2>2, <2>3 DEF Items
<1>3. Items(sl) \in [1 .. sl.n -> M]
  BY <1>1, <1>2, LenProperties
<1> QED
  BY <1>2, <1>3

LEMMA AppendSlice ==
  ASSUME NEW sl \in Slice, NEW m \in Members, sl.n < Room
  PROVE  /\ append(sl, m) \in Slice /\ append(sl, m).n = sl.n + 1
         /\ \A k \in 1 .. Room : append(sl, m).a[k] = IF k = sl.n + 1 THEN m ELSE sl.a[k]
         /\ Listed(append(sl, m)) = Listed(sl) \cup {m}
         /\ Items(append(sl, m)) = Append(Items(sl), m)
<1> DEFINE t == append(sl, m)
<1>1. sl.n \in Nat /\ sl.n + 1 \in 1 .. Room /\ sl.a \in [1 .. Room -> Members \cup {NoMember}]
  BY RoomNat, SliceFacts
<1>2. /\ t \in Slice /\ t.n = sl.n + 1
      /\ \A k \in 1 .. Room : t.a[k] = IF k = sl.n + 1 THEN m ELSE sl.a[k]
  BY <1>1, RoomNat DEF append, Slice
<1> HIDE DEF t
<1>3. Listed(t) = Listed(sl) \cup {m}
  <2>1. \A k \in 1 .. sl.n : k \in 1 .. sl.n + 1 /\ t.a[k] = sl.a[k]
    BY <1>1, <1>2, RoomNat
  <2>2. \A k \in 1 .. sl.n + 1 : t.a[k] = m \/ (k \in 1 .. sl.n /\ t.a[k] = sl.a[k])
    BY <1>1, <1>2, RoomNat
  <2>3. sl.n + 1 \in 1 .. sl.n + 1 /\ t.a[sl.n + 1] = m
    BY <1>1, <1>2
  <2> QED
    BY <1>2, <2>1, <2>2, <2>3 DEF Listed
<1>4. Items(t) = Append(Items(sl), m)
  <2>1. /\ Append(Items(sl), m) \in Seq(Members \cup {NoMember})
        /\ Len(Append(Items(sl), m)) = sl.n + 1
        /\ \A k \in 1 .. sl.n : Append(Items(sl), m)[k] = Items(sl)[k]
        /\ Append(Items(sl), m)[sl.n + 1] = m
    BY ItemsOf, AppendProperties
  <2>2. /\ Items(t) \in Seq(Members \cup {NoMember}) /\ Len(Items(t)) = sl.n + 1
        /\ \A k \in 1 .. sl.n + 1 : Items(t)[k] = t.a[k]
        /\ \A k \in 1 .. sl.n : Items(sl)[k] = sl.a[k]
    BY <1>2, ItemsOf
  <2>3. \A k \in 1 .. sl.n + 1 : Items(t)[k] = Append(Items(sl), m)[k]
    BY <1>1, <1>2, <2>1, <2>2, RoomNat
  <2> QED
    BY <2>1, <2>2, <2>3, SeqEqual
<1> QED
  BY <1>2, <1>3, <1>4 DEF t

LEMMA DeleteSlice ==
  ASSUME NEW sl \in Slice, NEW k \in 1 .. sl.n
  PROVE  /\ delete(sl, k) \in Slice /\ delete(sl, k).n = sl.n - 1
         /\ \A j \in 1 .. Room :
              delete(sl, k).a[j] = IF k <= j /\ j < sl.n THEN sl.a[j + 1] ELSE sl.a[j]
         /\ Items(delete(sl, k)) = Lists!Without(Items(sl), k)
<1> DEFINE t == delete(sl, k)
<1>1. /\ sl.n \in 0 .. Room /\ sl.n - 1 \in 0 .. Room
      /\ sl.a \in [1 .. Room -> Members \cup {NoMember}]
  BY RoomNat, SliceFacts
<1>2. /\ t \in Slice /\ t.n = sl.n - 1
      /\ \A j \in 1 .. Room : t.a[j] = IF k <= j /\ j < sl.n THEN sl.a[j + 1] ELSE sl.a[j]
  BY <1>1, RoomNat DEF delete, Slice
<1> HIDE DEF t
<1>3. Items(t) = Lists!Without(Items(sl), k)
  <2>1. /\ Items(t) = [j \in 1 .. sl.n - 1 |-> t.a[j]]
        /\ Items(sl) = [j \in 1 .. sl.n |-> sl.a[j]] /\ Len(Items(sl)) = sl.n
    BY <1>2, ItemsOf
  <2>2. \A j \in 1 .. sl.n - 1 : t.a[j] = IF j < k THEN Items(sl)[j] ELSE Items(sl)[j + 1]
    BY <1>1, <1>2, <2>1, RoomNat
  <2> QED
    BY <2>1, <2>2 DEF Lists!Without
<1> QED
  BY <1>2, <1>3 DEF t

\* If no member is in a list twice, a removal takes one out, and no other.
LEMMA DeleteDistinct ==
  ASSUME NEW sl \in Slice, NEW k \in 1 .. sl.n, Distinct(sl)
  PROVE  /\ Listed(delete(sl, k)) = Listed(sl) \ {sl.a[k]}
         /\ Distinct(delete(sl, k))
<1> DEFINE t == delete(sl, k)
<1>1. /\ sl.n \in 0 .. Room /\ t.n = sl.n - 1
      /\ \A j \in 1 .. sl.n - 1 : t.a[j] = IF k <= j THEN sl.a[j + 1] ELSE sl.a[j]
  BY RoomNat, SliceFacts, DeleteSlice
<1>2. \A j, l \in 1 .. sl.n : sl.a[j] = sl.a[l] => j = l
  BY DEF Distinct
<1> HIDE DEF t
<1>3. Distinct(t)
  <2> SUFFICES ASSUME NEW j \in 1 .. sl.n - 1, NEW l \in 1 .. sl.n - 1, t.a[j] = t.a[l]
               PROVE  j = l
    BY <1>1 DEF Distinct
  <2>1. j \in 1 .. sl.n /\ l \in 1 .. sl.n /\ j + 1 \in 1 .. sl.n /\ l + 1 \in 1 .. sl.n
    BY <1>1, RoomNat
  <2> QED
    BY <1>1, <1>2, <2>1
<1>4. Listed(t) \subseteq Listed(sl) \ {sl.a[k]}
  <2> SUFFICES ASSUME NEW j \in 1 .. sl.n - 1
               PROVE  t.a[j] \in Listed(sl) \ {sl.a[k]}
    BY <1>1 DEF Listed
  <2>1. j \in 1 .. sl.n /\ j + 1 \in 1 .. sl.n
    BY <1>1, RoomNat
  <2> QED
    BY <1>1, <1>2, <2>1 DEF Listed
<1>5. Listed(sl) \ {sl.a[k]} \subseteq Listed(t)
  <2> SUFFICES ASSUME NEW j \in 1 .. sl.n, j # k
               PROVE  \E l \in 1 .. sl.n - 1 : t.a[l] = sl.a[j]
    BY <1>1 DEF Listed
  <2>1. CASE j < k
    <3>1. j \in 1 .. sl.n - 1 /\ t.a[j] = sl.a[j]
      BY <1>1, <2>1, RoomNat
    <3> QED
      BY <3>1
  <2>2. CASE j > k
    <3>1. j - 1 \in 1 .. sl.n - 1 /\ k <= j - 1 /\ (j - 1) + 1 = j
      BY <1>1, <2>2, RoomNat
    <3>2. t.a[j - 1] = sl.a[j]
      BY <1>1, <3>1
    <3> QED
      BY <3>1, <3>2
  <2> QED
    BY <1>1, <2>1, <2>2
<1> QED
  BY <1>3, <1>4, <1>5 DEF t

-----------------------------------------------------------------------------
(* Types, room and what was written.                                       *)

\* What was written stays written.
Grows ==
  /\ created \subseteq created'
  /\ \A k \in 1 .. Room :
       /\ active.a[k] \in created => active'.a[k] \in created'
       /\ pending.a[k] \in created => pending'.a[k] \in created'

LEMMA PositionKept ==
  ASSUME TypeOK, NEW t \in Threads, Position(t), Grows,
         pc'[t] = pc[t], header'[t] = header[t], i'[t] = i[t]
  PROVE  Position(t)'
<1>1. /\ header[t][1] \in 0 .. Room /\ header[t][2] \in 0 .. Room + 2 /\ Room \in Nat
      /\ pc[t] \in Copying \cup Reading => header[t][1] + header[t][2] <= Room
  BY RoomNat DEF TypeOK, Position
<1>2. \A k \in 1 .. header[t][1] : k \in 1 .. Room
  BY <1>1
<1>3. pc[t] \in Copying \cup Reading =>
        /\ \A k \in 1 .. header[t][2] : k \in 1 .. Room
        /\ \A k \in 1 .. header[t][1] + header[t][2] : k \in 1 .. Room
  BY <1>1
<1> QED
  BY <1>2, <1>3 DEF Position, Grows

\* An addition finds room.
LEMMA RoomLeft ==
  ASSUME Base, NEW m \in Members \ created
  PROVE  /\ active.n < Room /\ pending.n < Room /\ created \cup {m} \in SUBSET Members
         /\ active.n + pending.n + 1 <= Cardinality(created \cup {m})
<1>1. created \subseteq Members /\ IsFiniteSet(created) /\ IsFiniteSet(Members)
  BY SlicesAssumption, FS_Subset DEF Base, TypeOK
<1>2. /\ Cardinality(created) \in Nat
      /\ Cardinality(created \cup {m}) = Cardinality(created) + 1
  BY <1>1, FS_CardinalityType, FS_AddElement
<1>3. Cardinality(created \cup {m}) <= Room
  BY <1>1, FS_Subset DEF Room
<1>4. active.n \in Nat /\ pending.n \in Nat /\ active.n + pending.n <= Cardinality(created)
  BY RoomNat, SliceFacts DEF Base, Filled, TypeOK
<1> QED
  BY <1>1, <1>2, <1>3, <1>4, RoomNat

\* What the threads see.
LEMMA NoteFacts ==
  ASSUME TypeOK, NEW ts, NEW what \in {"append", "more"}, Note(ts, what)
  PROVE  /\ others' \in [Threads -> Doings]
         /\ seen' \in [Threads -> Seq(Members \cup {NoMember})]
         /\ \A t \in Threads : pc[t] \notin {"idle", "less", "swap"} =>
              /\ others'[t] = "nothing" =>
                   t \notin ts /\ others[t] = "nothing" /\ seen'[t] = seen[t]
              /\ pc[t] = "scan" /\ others'[t] # "more" =>
                   /\ others[t] # "more" /\ seen'[t] = seen[t]
                   /\ t \in ts => what = "append"
<1>1. <<>> \in Seq(Members \cup {NoMember})
  BY EmptySeq
<1> DEFINE misled(t) == t \in ts /\ pc[t] \notin {"idle", "less", "swap"}
           dropped(t) == misled(t) /\ (what = "more" \/ pc[t] # "scan")
<1>2. /\ others' = [t \in Threads |-> IF misled(t) /\ others[t] # "more" THEN what ELSE others[t]]
      /\ seen' = [t \in Threads |-> IF dropped(t) THEN <<>> ELSE seen[t]]
  BY DEF Note
<1>3. \A t \in Threads :
        /\ others[t] \in Doings /\ seen[t] \in Seq(Members \cup {NoMember})
        /\ others'[t] = IF misled(t) /\ others[t] # "more" THEN what ELSE others[t]
        /\ seen'[t] = IF dropped(t) THEN <<>> ELSE seen[t]
  BY <1>2 DEF TypeOK
<1>4. others' \in [Threads -> Doings]
  BY <1>2, <1>3 DEF Doings
<1>5. seen' \in [Threads -> Seq(Members \cup {NoMember})]
  BY <1>1, <1>2, <1>3
<1> QED
  BY <1>3, <1>4, <1>5

\* A step under the lock.
LEMMA LockedBase ==
  ASSUME Base, UNCHANGED <<gone, pc, header, i, item, down, torn>>,
         Grows, Filled', active' \in Slice, pending' \in Slice,
         created' \in SUBSET Members, others' \in [Threads -> Doings],
         seen' \in [Threads -> Seq(Members \cup {NoMember})]
  PROVE  Base'
<1>1. TypeOK'
  BY DEF Base, TypeOK, Grows
<1>2. \A t \in Threads : Position(t)'
  BY PositionKept DEF Base
<1> QED
  BY <1>1, <1>2 DEF Base

LEMMA AppendActiveStep ==
  ASSUME Base, NEW m \in Members, append_active(m)
  PROVE  Base' /\ Lists!AddActive(m)
<1>1. /\ m \in Members \ created /\ created' = created \cup {m}
      /\ active' = append(active, m) /\ Note(Threads, "append")
      /\ UNCHANGED <<pending, gone, pc, header, i, item, down, torn>>
  BY DEF append_active, local
<1>2. active \in Slice /\ pending \in Slice /\ TypeOK
  BY DEF Base, TypeOK
<1>3. /\ active' \in Slice /\ active'.n = active.n + 1
      /\ \A k \in 1 .. Room : active'.a[k] = IF k = active.n + 1 THEN m ELSE active.a[k]
      /\ Items(active)' = Append(Items(active), m)
  BY <1>1, <1>2, RoomLeft, AppendSlice DEF Items
<1>4. Grows
  BY <1>1, <1>3 DEF Grows
<1>5. Filled'
  <2>1. active'.n + pending'.n <= Cardinality(created')
    <3>1. active.n \in Nat /\ pending.n \in Nat /\ pending' = pending
      BY <1>1, <1>2, SliceFacts, RoomNat
    <3>2. active.n + 1 + pending.n = active.n + pending.n + 1
      BY <3>1
    <3> QED
      BY <1>1, <1>3, <3>1, <3>2, RoomLeft
  <2>2. \A k \in 1 .. active'.n : k \in 1 .. Room /\ (k = active.n + 1 \/ k \in 1 .. active.n)
    BY <1>2, <1>3, SliceFacts, RoomNat
  <2> QED
    BY <1>1, <1>3, <2>1, <2>2 DEF Filled, Base
<1>6. Base'
  BY <1>1, <1>2, <1>3, <1>4, <1>5, RoomLeft, NoteFacts, LockedBase
<1> QED
  BY <1>1, <1>3, <1>6 DEF Lists!AddActive, Items

LEMMA AppendPendingStep ==
  ASSUME Base, NEW m \in Members, append_pending(m)
  PROVE  Base' /\ Lists!AddPending(m)
<1>1. /\ m \in Members \ created /\ created' = created \cup {m}
      /\ pending' = append(pending, m)
      /\ UNCHANGED <<active, gone, pc, header, i, item, others, seen, down, torn>>
  BY DEF append_pending, local, history
<1>2. active \in Slice /\ pending \in Slice /\ TypeOK
  BY DEF Base, TypeOK
<1>3. /\ pending' \in Slice /\ pending'.n = pending.n + 1
      /\ \A k \in 1 .. Room : pending'.a[k] = IF k = pending.n + 1 THEN m ELSE pending.a[k]
      /\ Items(pending)' = Append(Items(pending), m)
  BY <1>1, <1>2, RoomLeft, AppendSlice DEF Items
<1>4. Grows
  BY <1>1, <1>3 DEF Grows
<1>5. Filled'
  <2>1. active'.n + pending'.n <= Cardinality(created')
    <3>1. active.n \in Nat /\ pending.n \in Nat /\ active' = active
      BY <1>1, <1>2, SliceFacts, RoomNat
    <3>2. active.n + (pending.n + 1) = active.n + pending.n + 1
      BY <3>1
    <3> QED
      BY <1>1, <1>3, <3>1, <3>2, RoomLeft
  <2>2. \A k \in 1 .. pending'.n : k \in 1 .. Room /\ (k = pending.n + 1 \/ k \in 1 .. pending.n)
    BY <1>2, <1>3, SliceFacts, RoomNat
  <2> QED
    BY <1>1, <1>3, <2>1, <2>2 DEF Filled, Base
<1>6. Base'
  BY <1>1, <1>2, <1>3, <1>4, <1>5, RoomLeft, LockedBase DEF TypeOK
<1> QED
  BY <1>1, <1>3, <1>6 DEF Lists!AddPending, Items

\* A member moves from the slice sl to the slice d.
LEMMA MoveSlices ==
  ASSUME NEW sl \in Slice, NEW d \in Slice, NEW M \in SUBSET Members,
         sl.n + d.n <= Room, NEW k \in 1 .. sl.n, NEW m, m = sl.a[k],
         \A j \in 1 .. sl.n : sl.a[j] \in M, \A j \in 1 .. d.n : d.a[j] \in M
  PROVE  /\ m \in M /\ d.n < Room
         /\ delete(sl, k).n + append(d, m).n = sl.n + d.n
         /\ \A j \in 1 .. delete(sl, k).n : delete(sl, k).a[j] \in M
         /\ \A j \in 1 .. append(d, m).n : append(d, m).a[j] \in M
         /\ \A j \in 1 .. Room :
              /\ sl.a[j] \in M => delete(sl, k).a[j] \in M
              /\ d.a[j] \in M => append(d, m).a[j] \in M
<1>1. sl.n \in 0 .. Room /\ d.n \in 0 .. Room /\ Room \in Nat
  BY SliceFacts, RoomNat
<1>2. m \in M /\ m \in Members /\ d.n < Room
  BY <1>1
<1>3. /\ delete(sl, k).n = sl.n - 1 /\ append(d, m).n = d.n + 1
      /\ \A j \in 1 .. Room :
           /\ delete(sl, k).a[j] = IF k <= j /\ j < sl.n THEN sl.a[j + 1] ELSE sl.a[j]
           /\ append(d, m).a[j] = IF j = d.n + 1 THEN m ELSE d.a[j]
  BY <1>2, AppendSlice, DeleteSlice
<1>4. \A j \in 1 .. Room : k <= j /\ j < sl.n => sl.a[j + 1] \in M
  <2>1. \A j \in 1 .. Room : k <= j /\ j < sl.n => j + 1 \in 1 .. sl.n
    BY <1>1
  <2> QED
    BY <2>1
<1>5. \A j \in 1 .. delete(sl, k).n : j \in 1 .. Room /\ j \in 1 .. sl.n
  BY <1>1, <1>3
<1>6. \A j \in 1 .. append(d, m).n : j \in 1 .. Room /\ (j = d.n + 1 \/ j \in 1 .. d.n)
  BY <1>1, <1>2, <1>3
<1>7. delete(sl, k).n + append(d, m).n = sl.n + d.n
  BY <1>1, <1>3
<1> QED
  BY <1>2, <1>3, <1>4, <1>5, <1>6, <1>7

LEMMA ListsHaveRoom ==
  ASSUME Base
  PROVE  /\ active \in Slice /\ pending \in Slice /\ created \in SUBSET Members
         /\ active.n + pending.n <= Room /\ pending.n + active.n <= Room
<1>1. created \subseteq Members /\ IsFiniteSet(Members) /\ IsFiniteSet(created)
  BY SlicesAssumption, FS_Subset DEF Base, TypeOK
<1>2. Cardinality(created) <= Room /\ Cardinality(created) \in Nat
  BY <1>1, FS_Subset, FS_CardinalityType DEF Room
<1>3. active \in Slice /\ pending \in Slice /\ active.n + pending.n <= Cardinality(created)
  BY DEF Base, TypeOK, Filled
<1>4. active.n \in Nat /\ pending.n \in Nat
  BY <1>3, SliceFacts, RoomNat
<1> QED
  BY <1>1, <1>2, <1>3, <1>4, RoomNat

LEMMA FirstItem ==
  ASSUME NEW sl \in Slice, NEW m, NEW k \in 1 .. sl.n, IsFirst(sl, m, k)
  PROVE  k \in 1 .. Len(Items(sl)) /\ Lists!IsFirst(Items(sl), m, k)
<1>1. /\ Len(Items(sl)) = sl.n /\ sl.n \in Nat
      /\ \A j \in 1 .. sl.n : Items(sl)[j] = sl.a[j]
  BY ItemsOf, SliceFacts, RoomNat
<1>2. \A j \in 1 .. k - 1 : j \in 1 .. sl.n /\ sl.a[j] # m
  BY <1>1 DEF IsFirst
<1> QED
  BY <1>1, <1>2 DEF IsFirst, Lists!IsFirst

LEMMA MoveToActiveStep ==
  ASSUME Base, NEW m \in Members, move_to_active(m)
  PROVE  Base' /\ Lists!MoveToActive(m)
<1>1. PICK k \in 1 .. pending.n :
        /\ IsFirst(pending, m, k)
        /\ pending' = delete(pending, k) /\ active' = append(active, m)
        /\ Note(Threads, "append")
        /\ UNCHANGED <<created, gone, pc, header, i, item, down, torn>>
  BY DEF move_to_active, members, local
<1>2. m = pending.a[k] /\ TypeOK /\ Filled
  BY <1>1 DEF IsFirst, Base
<1>3. /\ m \in created /\ active.n < Room
      /\ delete(pending, k).n + append(active, m).n = pending.n + active.n
      /\ \A j \in 1 .. delete(pending, k).n : delete(pending, k).a[j] \in created
      /\ \A j \in 1 .. append(active, m).n : append(active, m).a[j] \in created
      /\ \A j \in 1 .. Room :
           /\ pending.a[j] \in created => delete(pending, k).a[j] \in created
           /\ active.a[j] \in created => append(active, m).a[j] \in created
  BY <1>2, ListsHaveRoom, MoveSlices DEF Filled
<1>4. /\ active' \in Slice /\ pending' \in Slice
      /\ Items(active)' = Append(Items(active), m)
      /\ Items(pending)' = Lists!Without(Items(pending), k)
  BY <1>1, <1>3, ListsHaveRoom, AppendSlice, DeleteSlice DEF Items
<1>5. Grows
  BY <1>1, <1>3 DEF Grows
<1>6. Filled'
  <2>1. /\ active.n \in Nat /\ pending.n \in Nat /\ active'.n \in Nat /\ pending'.n \in Nat
        /\ active.n + pending.n <= Cardinality(created)
        /\ pending'.n + active'.n = pending.n + active.n
    BY <1>1, <1>2, <1>3, <1>4, ListsHaveRoom, SliceFacts, RoomNat DEF Filled
  <2>2. active'.n + pending'.n <= Cardinality(created)
    <3>1. active'.n + pending'.n = active.n + pending.n
      BY <2>1
    <3> QED
      BY <2>1, <3>1
  <2> QED
    BY <1>1, <1>3, <2>2 DEF Filled
<1>7. Base'
  BY <1>1, <1>2, <1>4, <1>5, <1>6, ListsHaveRoom, NoteFacts, LockedBase
<1>8. /\ k \in 1 .. Len(Items(pending)) /\ Lists!IsFirst(Items(pending), m, k)
  BY <1>1, ListsHaveRoom, FirstItem
<1> QED
  BY <1>4, <1>7, <1>8 DEF Lists!MoveToActive, Items

LEMMA MoveToPendingStep ==
  ASSUME Base, NEW m \in Members, move_to_pending(m)
  PROVE  Base' /\ Lists!MoveToPending(m)
<1>1. PICK k \in 1 .. active.n :
        /\ IsFirst(active, m, k)
        /\ active' = delete(active, k) /\ pending' = append(pending, m)
        /\ Note(Threads, "more")
        /\ UNCHANGED <<created, gone, pc, header, i, item, down, torn>>
  BY DEF move_to_pending, members, local
<1>2. m = active.a[k] /\ TypeOK /\ Filled
  BY <1>1 DEF IsFirst, Base
<1>3. /\ m \in created /\ pending.n < Room
      /\ delete(active, k).n + append(pending, m).n = active.n + pending.n
      /\ \A j \in 1 .. delete(active, k).n : delete(active, k).a[j] \in created
      /\ \A j \in 1 .. append(pending, m).n : append(pending, m).a[j] \in created
      /\ \A j \in 1 .. Room :
           /\ active.a[j] \in created => delete(active, k).a[j] \in created
           /\ pending.a[j] \in created => append(pending, m).a[j] \in created
  BY <1>2, ListsHaveRoom, MoveSlices DEF Filled
<1>4. /\ active' \in Slice /\ pending' \in Slice
      /\ Items(pending)' = Append(Items(pending), m)
      /\ Items(active)' = Lists!Without(Items(active), k)
  BY <1>1, <1>3, ListsHaveRoom, AppendSlice, DeleteSlice DEF Items
<1>5. Grows
  BY <1>1, <1>3 DEF Grows
<1>6. Filled'
  BY <1>1, <1>2, <1>3 DEF Filled
<1>7. Base'
  BY <1>1, <1>2, <1>4, <1>5, <1>6, ListsHaveRoom, NoteFacts, LockedBase
<1>8. /\ k \in 1 .. Len(Items(active)) /\ Lists!IsFirst(Items(active), m, k)
  BY <1>1, ListsHaveRoom, FirstItem
<1> QED
  BY <1>4, <1>7, <1>8 DEF Lists!MoveToPending, Items

\* A step of a thread that changes no list.
LEMMA ThreadBase ==
  ASSUME Base, NEW t \in Threads, UNCHANGED <<active, pending, created, gone>>,
         TypeOK', Position(t)',
         \A u \in Threads \ {t} : pc'[u] = pc[u] /\ header'[u] = header[u] /\ i'[u] = i[u]
  PROVE  Base'
<1>1. Grows /\ Filled'
  BY DEF Grows, Filled, Base
<1>2. \A u \in Threads \ {t} : Position(u)'
  BY <1>1, PositionKept DEF Base
<1> QED
  BY <1>1, <1>2 DEF Base

LEMMA BeginStep ==
  ASSUME Base, NEW t \in Threads, NEW step \in {"scan", "copy_find", "copy_reload", "less"},
         NEW m \in created \cup {NoMember}, Begin(t, step, m)
  PROVE  Base'
<1>1. /\ header' = [header EXCEPT ![t] = <<active.n, IF step = "less" THEN 2 ELSE pending.n>>]
      /\ i' = [i EXCEPT ![t] = IF step = "less" THEN 2 ELSE 1]
      /\ pc' = [pc EXCEPT ![t] = step] /\ item' = [item EXCEPT ![t] = m]
      /\ others' = [others EXCEPT ![t] = "nothing"] /\ down' = [down EXCEPT ![t] = {}]
      /\ UNCHANGED <<active, pending, created, gone, torn>>
  BY DEF Begin, slices, members
<1>2. /\ active.n \in 0 .. Room /\ pending.n \in 0 .. Room /\ Room \in Nat
      /\ active.n + pending.n <= Room /\ TypeOK /\ Filled
  BY ListsHaveRoom, SliceFacts, RoomNat DEF Base
<1>3. seen' \in [Threads -> Seq(Members \cup {NoMember})]
  <2>1. PICK e : e \in Seq(Members \cup {NoMember}) /\ seen' = [seen EXCEPT ![t] = e]
    <3> DEFINE S == Seq(Members \cup {NoMember})
    <3>1. <<>> \in S /\ <<m>> \in S
      BY <1>2, EmptySeq DEF TypeOK
    <3>2. Items(active) \o Items(pending) \in S
      BY ListsHaveRoom, ItemsOf, ConcatProperties
    <3>3. CASE step = "scan"
      <4>1. seen' = [seen EXCEPT ![t] = IF m \in Listed(active) THEN <<m>> ELSE <<>>]
        BY <3>3 DEF Begin
      <4> QED
        BY <3>1, <4>1
    <3>4. CASE step = "copy_find"
      <4>1. seen' = [seen EXCEPT ![t] = IF m \in Listed(active) \cup Listed(pending) THEN <<m>> ELSE <<>>]
        BY <3>4 DEF Begin
      <4> QED
        BY <3>1, <4>1
    <3>5. CASE step = "copy_reload"
      BY <3>2, <3>5 DEF Begin
    <3>6. CASE step = "less"
      BY <3>1, <3>6 DEF Begin
    <3> QED
      BY <3>3, <3>4, <3>5, <3>6
  <2> QED
    BY <1>2, <2>1 DEF TypeOK
<1>4. TypeOK'
  <2>1. header' \in [Threads -> (0 .. Room) \X (0 .. Room + 2)]
    BY <1>1, <1>2 DEF TypeOK
  <2>2. i' \in [Threads -> 0 .. Room + 2]
    BY <1>1, <1>2 DEF TypeOK
  <2>3. /\ pc' \in [Threads -> Steps] /\ item' \in [Threads -> Members \cup {NoMember}]
        /\ others' \in [Threads -> Doings] /\ down' \in [Threads -> SUBSET Members]
    BY <1>1, <1>2 DEF TypeOK, Steps, Doings
  <2> QED
    BY <1>1, <1>2, <1>3, <2>1, <2>2, <2>3 DEF TypeOK
<1>5. Position(t)'
  <2>1. /\ pc'[t] = step /\ header'[t][1] = active.n
        /\ header'[t][2] = IF step = "less" THEN 2 ELSE pending.n
        /\ i'[t] = IF step = "less" THEN 2 ELSE 1
    BY <1>1, <1>2 DEF TypeOK
  <2> QED
    BY <1>1, <1>2, <2>1 DEF Position, Filled, Scanning, Copying, Reading, Sorting
<1>6. \A u \in Threads \ {t} : pc'[u] = pc[u] /\ header'[u] = header[u] /\ i'[u] = i[u]
  BY <1>1, <1>2 DEF TypeOK
<1> QED
  BY <1>1, <1>4, <1>5, <1>6, ThreadBase

LEMMA EndStep ==
  ASSUME Base, NEW t \in Threads, End(t)
  PROVE  Base'
<1>1. /\ header' = [header EXCEPT ![t] = <<0, 0>>] /\ i' = [i EXCEPT ![t] = 0]
      /\ pc' = [pc EXCEPT ![t] = "idle"] /\ item' = [item EXCEPT ![t] = NoMember]
      /\ others' = [others EXCEPT ![t] = "nothing"] /\ down' = [down EXCEPT ![t] = {}]
      /\ seen' = [seen EXCEPT ![t] = <<>>]
      /\ UNCHANGED <<active, pending, created, gone, torn>>
  BY DEF End, slices, members
<1>2. TypeOK /\ Room \in Nat /\ <<>> \in Seq(Members \cup {NoMember})
  BY RoomNat, EmptySeq DEF Base
<1>3. TypeOK'
  <2>1. header' \in [Threads -> (0 .. Room) \X (0 .. Room + 2)]
    BY <1>1, <1>2 DEF TypeOK
  <2>2. i' \in [Threads -> 0 .. Room + 2]
    BY <1>1, <1>2 DEF TypeOK
  <2>3. /\ pc' \in [Threads -> Steps] /\ item' \in [Threads -> Members \cup {NoMember}]
        /\ others' \in [Threads -> Doings] /\ down' \in [Threads -> SUBSET Members]
        /\ seen' \in [Threads -> Seq(Members \cup {NoMember})]
    BY <1>1, <1>2 DEF TypeOK, Steps, Doings
  <2> QED
    BY <1>1, <1>2, <2>1, <2>2, <2>3 DEF TypeOK
<1>4. Position(t)'
  BY <1>1, <1>2 DEF Position, TypeOK, Scanning, Copying, Reading, Sorting
<1>5. \A u \in Threads \ {t} : pc'[u] = pc[u] /\ header'[u] = header[u] /\ i'[u] = i[u]
  BY <1>1, <1>2 DEF TypeOK
<1> QED
  BY <1>1, <1>3, <1>4, <1>5, ThreadBase

\* The loops go on as long as there are entries.
LEMMA AdvanceStep ==
  ASSUME Base, NEW t \in Threads, Advance(t),
         \/ pc[t] = "scan" /\ i[t] <= header[t][1]
         \/ pc[t] \in Reading /\ i[t] <= header[t][1] + header[t][2]
  PROVE  Base'
<1>1. /\ i' = [i EXCEPT ![t] = i[t] + 1]
      /\ UNCHANGED <<active, pending, created, gone, pc, header, item, others, seen, down, torn>>
  BY DEF Advance, slices, members, history
<1>2. /\ TypeOK /\ Position(t) /\ Room \in Nat
      /\ header[t][1] \in 0 .. Room /\ header[t][2] \in 0 .. Room + 2 /\ i[t] \in 0 .. Room + 2
  BY RoomNat DEF Base, TypeOK
<1>3. i[t] + 1 \in 0 .. Room + 2 /\ i'[t] = i[t] + 1
  BY <1>1, <1>2 DEF Position, TypeOK, Scanning, Reading
<1>4. TypeOK'
  BY <1>1, <1>2, <1>3 DEF TypeOK
<1>5. Position(t)'
  BY <1>1, <1>2, <1>3 DEF Position, Scanning, Copying, Reading, Sorting
<1>6. \A u \in Threads \ {t} : pc'[u] = pc[u] /\ header'[u] = header[u] /\ i'[u] = i[u]
  BY <1>1, <1>2 DEF TypeOK
<1> QED
  BY <1>1, <1>4, <1>5, <1>6, ThreadBase
\* A step of a thread that changes the lists.
LEMMA StepBase ==
  ASSUME Base, NEW t \in Threads, TypeOK', Grows, Filled', Position(t)',
         \A u \in Threads \ {t} : pc'[u] = pc[u] /\ header'[u] = header[u] /\ i'[u] = i[u]
  PROVE  Base'
<1>1. \A u \in Threads \ {t} : Position(u)'
  BY PositionKept DEF Base
<1> QED
  BY <1>1 DEF Base

\* Entries of active are replaced: the list has the length it had.
LEMMA Replaced ==
  ASSUME Base, active' \in Slice, active'.n = active.n, pending' = pending,
         created' \in SUBSET Members, Filled'
  PROVE  Lists!Overwritten
<1>1. /\ Items(active)' = [k \in 1 .. active.n |-> active'.a[k]]
      /\ Len(Items(active)) = active.n
  <2>1. active \in Slice
    BY DEF Base, TypeOK
  <2>2. Items(active') = [k \in 1 .. active'.n |-> active'.a[k]]
    BY ItemsOf
  <2>3. Len(Items(active)) = active.n
    BY <2>1, ItemsOf
  <2> QED
    BY <2>2, <2>3 DEF Items
<1>2. \A k \in 1 .. active.n : active'.a[k] \in Members
  BY DEF Filled
<1> QED
  BY <1>1, <1>2 DEF Lists!Overwritten, Items

LEMMA CopyStep ==
  ASSUME Base, NEW t \in Threads, NEW after,
         \/ pc[t] = "copy_find" /\ after = "find"
         \/ pc[t] = "copy_reload" /\ after = "reload",
         Copy(t, after)
  PROVE  Base' /\ Lists!Overwritten
<1> DEFINE h == header[t][1]
           g == header[t][2]
<1>1. /\ active' = [active EXCEPT !.a =
                      [k \in 1 .. Room |-> IF k \in h + 1 .. h + g
                                             THEN pending.a[k - h] ELSE @[k]]]
      /\ pc' = [pc EXCEPT ![t] = after]
      /\ UNCHANGED <<pending, created, gone, header, i, item, down>>
  BY DEF Copy, members
<1>2. /\ TypeOK /\ Filled /\ Position(t) /\ Room \in Nat /\ active \in Slice /\ pending \in Slice
      /\ h \in 0 .. Room /\ g \in 0 .. Room + 2
  BY RoomNat DEF Base, TypeOK
<1>3. /\ h + g <= Room /\ i[t] = 1
      /\ \A k \in 1 .. h : active.a[k] \in created
      /\ \A k \in 1 .. g : pending.a[k] \in created
  BY <1>2 DEF Position, Copying
<1>4. others' \in [Threads -> Doings] /\ seen' \in [Threads -> Seq(Members \cup {NoMember})]
  <2>1. CASE g > 0
    <3>1. PICK what \in {"append", "more"} : Note(Elsewhere(t), what)
      BY <2>1 DEF Copy
    <3> QED
      BY <1>2, <3>1, NoteFacts
  <2>2. CASE ~ (g > 0)
    BY <1>2, <2>2 DEF Copy, TypeOK
  <2> QED
    BY <2>1, <2>2
<1>5. torn' \in BOOLEAN
  BY <1>2 DEF Copy, TypeOK
<1>6. \A k \in h + 1 .. h + g : k - h \in 1 .. g /\ k - h \in 1 .. Room
  BY <1>2, <1>3
<1>7. /\ active' \in Slice /\ active'.n = active.n
      /\ \A k \in 1 .. Room :
           active'.a[k] = IF k \in h + 1 .. h + g THEN pending.a[k - h] ELSE active.a[k]
  BY <1>1, <1>2, <1>6 DEF Slice
<1>8. TypeOK'
  <2>1. pc' \in [Threads -> Steps]
    BY <1>1, <1>2 DEF TypeOK, Steps
  <2> QED
    BY <1>1, <1>2, <1>4, <1>5, <1>7, <2>1 DEF TypeOK
<1>9. Grows
  BY <1>1, <1>3, <1>6, <1>7 DEF Grows
<1>10. Filled'
  <2>1. \A k \in 1 .. active.n : k \in 1 .. Room
    BY <1>2, SliceFacts
  <2> QED
    BY <1>1, <1>2, <1>7, <1>9, <2>1 DEF Filled, Grows
<1>11. Position(t)'
  <2>1. pc'[t] = after /\ header'[t] = header[t] /\ i'[t] = 1 /\ h \in Nat /\ g \in Nat
    BY <1>1, <1>2, <1>3 DEF TypeOK
  <2>2. \A k \in 1 .. h + g : k \in 1 .. Room /\ (k \in 1 .. h \/ k \in h + 1 .. h + g)
    BY <1>2, <1>3, <2>1
  <2>3. \A k \in 1 .. h + g : active'.a[k] \in created'
    BY <1>1, <1>3, <1>6, <1>7, <2>2
  <2>4. \A k \in 1 .. h : active'.a[k] \in created'
    BY <2>1, <2>3
  <2> QED
    BY <1>3, <2>1, <2>3, <2>4 DEF Position, Scanning, Copying, Reading, Sorting
<1>12. \A u \in Threads \ {t} : pc'[u] = pc[u] /\ header'[u] = header[u] /\ i'[u] = i[u]
  BY <1>1, <1>2 DEF TypeOK
<1>13. created' \in SUBSET Members
  BY <1>1, <1>2 DEF TypeOK
<1> QED
  BY <1>1, <1>2, <1>7, <1>8, <1>9, <1>10, <1>11, <1>12, <1>13, StepBase, Replaced
\* A removal leaves what was written, and moves it down.
LEMMA Removal ==
  ASSUME NEW sl \in Slice, NEW k \in 1 .. sl.n, NEW M,
         \A j \in 1 .. sl.n : sl.a[j] \in M
  PROVE  /\ delete(sl, k) \in Slice /\ delete(sl, k).n = sl.n - 1
         /\ \A j \in 1 .. delete(sl, k).n : delete(sl, k).a[j] \in M
         /\ \A j \in 1 .. Room : sl.a[j] \in M => delete(sl, k).a[j] \in M
<1>1. sl.n \in 0 .. Room /\ Room \in Nat
  BY SliceFacts, RoomNat
<1>2. /\ delete(sl, k) \in Slice /\ delete(sl, k).n = sl.n - 1
      /\ \A j \in 1 .. Room :
           delete(sl, k).a[j] = IF k <= j /\ j < sl.n THEN sl.a[j + 1] ELSE sl.a[j]
  BY DeleteSlice
<1>3. \A j \in 1 .. Room : k <= j /\ j < sl.n => j + 1 \in 1 .. sl.n
  BY <1>1
<1>4. \A j \in 1 .. sl.n - 1 : j \in 1 .. Room /\ j \in 1 .. sl.n
  BY <1>1
<1> QED
  BY <1>2, <1>3, <1>4

\* What bring_down does to the lists.
LEMMA BringDown ==
  ASSUME Base, NEW t \in Threads, NEW m \in created, bring_down(t, m)
  PROVE  /\ active' \in Slice /\ pending' \in Slice
         /\ gone' \subseteq created /\ gone \subseteq gone'
         /\ others' \in [Threads -> Doings]
         /\ seen' \in [Threads -> Seq(Members \cup {NoMember})]
         /\ created' = created => Grows /\ Filled'
         /\ \/ Lists!RemoveActive(m) \/ Lists!RemovePending(m)
            \/ UNCHANGED <<active, pending>>
<1>1. /\ TypeOK /\ Filled /\ active \in Slice /\ pending \in Slice /\ gone \subseteq created
      /\ active.n \in Nat /\ pending.n \in Nat
      /\ active.n + pending.n <= Cardinality(created)
      /\ \A k \in 1 .. active.n : active.a[k] \in created
      /\ \A k \in 1 .. pending.n : pending.a[k] \in created
  BY SliceFacts, RoomNat DEF Base, TypeOK, Filled
<1>2. Cardinality(created) \in Nat
  BY SlicesAssumption, FS_Subset, FS_CardinalityType DEF Base, TypeOK
<1>3. CASE UNCHANGED <<active, pending>>
  <2>1. gone' \in {gone, gone \cup {m}}
    BY DEF bring_down
  <2>2. Note(Threads \ {t}, "more") \/ UNCHANGED <<others, seen>>
    BY DEF bring_down
  <2>3. others' \in [Threads -> Doings] /\ seen' \in [Threads -> Seq(Members \cup {NoMember})]
    BY <1>1, <2>2, NoteFacts DEF TypeOK
  <2>4. created' = created => Grows /\ Filled'
    BY <1>1, <1>3 DEF Grows, Filled
  <2> QED
    BY <1>1, <1>3, <2>1, <2>3, <2>4
<1>4. ASSUME NEW k \in 1 .. active.n, IsFirst(active, m, k), active' = delete(active, k),
             gone' = gone \cup {m}, Note(Threads \ {t}, "more"), UNCHANGED pending
      PROVE  /\ active' \in Slice /\ Lists!RemoveActive(m)
             /\ created' = created => Grows /\ Filled'
  <2>1. /\ active' \in Slice /\ active'.n = active.n - 1
        /\ \A j \in 1 .. active'.n : active'.a[j] \in created
        /\ \A j \in 1 .. Room : active.a[j] \in created => active'.a[j] \in created
    BY <1>1, <1>4, Removal
  <2>2. active'.n + pending.n <= Cardinality(created)
    BY <1>1, <1>2, <2>1
  <2>3. created' = created => Grows /\ Filled'
    BY <1>1, <1>4, <2>1, <2>2 DEF Grows, Filled
  <2>4. Items(active)' = Lists!Without(Items(active), k)
    BY <1>1, <1>4, DeleteSlice DEF Items
  <2>5. k \in 1 .. Len(Items(active)) /\ Lists!IsFirst(Items(active), m, k)
    BY <1>1, <1>4, FirstItem
  <2> QED
    BY <1>4, <2>1, <2>3, <2>4, <2>5 DEF Lists!RemoveActive, Items
<1>5. ASSUME NEW k \in 1 .. pending.n, IsFirst(pending, m, k), pending' = delete(pending, k),
             gone' = gone \cup {m}, Note(Threads \ {t}, "more"), UNCHANGED active
      PROVE  /\ pending' \in Slice /\ Lists!RemovePending(m)
             /\ created' = created => Grows /\ Filled'
  <2>1. /\ pending' \in Slice /\ pending'.n = pending.n - 1
        /\ \A j \in 1 .. pending'.n : pending'.a[j] \in created
        /\ \A j \in 1 .. Room : pending.a[j] \in created => pending'.a[j] \in created
    BY <1>1, <1>5, Removal
  <2>2. active.n + pending'.n <= Cardinality(created)
    BY <1>1, <1>2, <2>1
  <2>3. created' = created => Grows /\ Filled'
    BY <1>1, <1>5, <2>1, <2>2 DEF Grows, Filled
  <2>4. Items(pending)' = Lists!Without(Items(pending), k)
    BY <1>1, <1>5, DeleteSlice DEF Items
  <2>5. k \in 1 .. Len(Items(pending)) /\ Lists!IsFirst(Items(pending), m, k)
    BY <1>1, <1>5, FirstItem
  <2> QED
    BY <1>5, <2>1, <2>3, <2>4, <2>5 DEF Lists!RemovePending, Items
<1>6. Note(Threads \ {t}, "more") =>
        others' \in [Threads -> Doings] /\ seen' \in [Threads -> Seq(Members \cup {NoMember})]
  BY <1>1, NoteFacts
<1> QED
  BY <1>1, <1>3, <1>4, <1>5, <1>6 DEF bring_down, slices

\* Its loop; what it does to the lists.
LEMMA ReloadStep ==
  ASSUME Base, NEW t \in Threads, reload(t)
  PROVE  Base' /\ [Lists!Next]_<<Items(active), Items(pending)>>
<1> DEFINE h == header[t][1]
           g == header[t][2]
           m == active.a[i[t]]
<1>1. /\ TypeOK /\ Position(t) /\ pc[t] = "reload" /\ Room \in Nat
      /\ h \in 0 .. Room /\ g \in 0 .. Room + 2 /\ h + g <= Room
      /\ i[t] \in 1 .. h + g + 1 /\ \A k \in 1 .. h + g : active.a[k] \in created
  BY RoomNat DEF reload, Base, Position, TypeOK, Scanning, Copying, Reading
<1>2. CASE i[t] > h + g
  BY <1>2, EndStep DEF reload, End, slices, Items
<1>3. CASE ~ (i[t] > h + g) /\ m \notin Obsolete
  <2>1. Advance(t) /\ i[t] <= h + g
    BY <1>1, <1>3 DEF reload
  <2> QED
    BY <1>1, <2>1, AdvanceStep DEF Advance, slices, Items, Reading
<1>4. CASE ~ (i[t] > h + g) /\ m \in Obsolete
  <2>1. /\ bring_down(t, m) /\ i' = [i EXCEPT ![t] = i[t] + 1]
        /\ down' = [down EXCEPT ![t] = IF others[t] = "nothing" THEN down[t] \cup {m} ELSE {}]
        /\ UNCHANGED <<created, pc, header, item, torn>>
    BY <1>4 DEF reload
  <2>2. i[t] \in 1 .. h + g /\ m \in created /\ m \in Members
    BY <1>1, <1>4 DEF TypeOK
  <2>3. /\ active' \in Slice /\ pending' \in Slice /\ gone' \in SUBSET created
        /\ others' \in [Threads -> Doings]
        /\ seen' \in [Threads -> Seq(Members \cup {NoMember})] /\ Grows /\ Filled'
        /\ \/ Lists!RemoveActive(m) \/ Lists!RemovePending(m)
           \/ UNCHANGED <<active, pending>>
    BY <2>1, <2>2, BringDown
  <2>4. TypeOK'
    <3>1. i[t] + 1 \in 0 .. Room + 2
      BY <1>1, <2>2
    <3>2. i' \in [Threads -> 0 .. Room + 2]
      BY <1>1, <2>1, <3>1 DEF TypeOK
    <3>3. down' \in [Threads -> SUBSET Members]
      <4>1. down[t] \cup {m} \in SUBSET Members /\ {} \in SUBSET Members
        BY <1>1, <2>2 DEF TypeOK
      <4> QED
        BY <1>1, <2>1, <4>1 DEF TypeOK
    <3> QED
      BY <1>1, <2>1, <2>3, <3>2, <3>3 DEF TypeOK
  <2>5. Position(t)'
    <3>1. pc'[t] = "reload" /\ header'[t] = header[t] /\ i'[t] = i[t] + 1
      BY <1>1, <2>1 DEF TypeOK
    <3>2. \A k \in 1 .. h + g : active'.a[k] \in created'
      <4>1. \A k \in 1 .. h + g : k \in 1 .. Room
        BY <1>1
      <4> QED
        BY <1>1, <2>3, <4>1 DEF Grows
    <3>3. \A k \in 1 .. h : k \in 1 .. h + g
      BY <1>1
    <3>4. i[t] + 1 \in 1 .. h + g + 1
      BY <1>1, <2>2
    <3> QED
      BY <1>1, <3>1, <3>2, <3>3, <3>4 DEF Position, Scanning, Copying, Reading, Sorting
  <2>6. \A u \in Threads \ {t} : pc'[u] = pc[u] /\ header'[u] = header[u] /\ i'[u] = i[u]
    BY <1>1, <2>1 DEF TypeOK
  <2>7. Base'
    BY <2>3, <2>4, <2>5, <2>6, StepBase
  <2> QED
    BY <2>2, <2>3, <2>7 DEF Lists!Next, Items
<1> QED
  BY <1>2, <1>3, <1>4
\* The next entry is sorted in.
LEMMA NextEntryFacts ==
  ASSUME TypeOK, NEW t \in Threads, NextEntry(t), header[t][2] <= header[t][1]
  PROVE  /\ header' \in [Threads -> (0 .. Room) \X (0 .. Room + 2)]
         /\ i' \in [Threads -> 0 .. Room + 2]
         /\ header'[t] = <<header[t][1], header[t][2] + 1>> /\ i'[t] = header[t][2] + 1
         /\ \A u \in Threads \ {t} : header'[u] = header[u] /\ i'[u] = i[u]
<1> DEFINE next == header[t][2] + 1
<1>1. /\ Room \in Nat /\ header[t] \in (0 .. Room) \X (0 .. Room + 2)
      /\ header[t][1] \in 0 .. Room /\ header[t][2] \in 0 .. Room + 2
  BY RoomNat DEF TypeOK
<1>2. next \in 0 .. Room + 2
  BY <1>1
<1>3. /\ header' = [header EXCEPT ![t] = [header[t] EXCEPT ![2] = next]]
      /\ i' = [i EXCEPT ![t] = next]
  BY DEF NextEntry
<1>4. [header[t] EXCEPT ![2] = next] = <<header[t][1], next>>
  BY <1>1
<1>5. header' = [header EXCEPT ![t] = <<header[t][1], next>>]
  BY <1>3, <1>4
<1>6. header' \in [Threads -> (0 .. Room) \X (0 .. Room + 2)]
  <2>1. <<header[t][1], next>> \in (0 .. Room) \X (0 .. Room + 2)
    BY <1>1, <1>2
  <2> QED
    BY <1>5, <2>1 DEF TypeOK
<1>7. i' \in [Threads -> 0 .. Room + 2]
  BY <1>2, <1>3 DEF TypeOK
<1> QED
  BY <1>3, <1>5, <1>6, <1>7 DEF TypeOK

LEMMA SortLessStep ==
  ASSUME Base, NEW t \in Threads, SortLess(t)
  PROVE  Base' /\ UNCHANGED <<active, pending>>
<1> DEFINE h == header[t][1]
           g == header[t][2]
<1>1. /\ TypeOK /\ Position(t) /\ pc[t] = "less" /\ Room \in Nat
      /\ h \in 0 .. Room /\ g \in 0 .. Room + 2
      /\ i[t] \in 0 .. Room + 2 /\ 2 <= i[t] /\ i[t] <= g
      /\ \A k \in 1 .. h : active.a[k] \in created
  BY RoomNat DEF SortLess, Base, Position, TypeOK, Sorting
<1>2. CASE g > h
  BY <1>2, EndStep DEF SortLess, End, slices
<1>3. CASE ~ (g > h)
  <2>1. UNCHANGED <<active, pending, created, gone, item, others, seen, down, torn>>
    BY <1>3 DEF SortLess, slices, members, history
  <2>2. CASE NextEntry(t) /\ UNCHANGED pc
    <3>1. g <= h
      BY <1>1, <1>3
    <3>2. TypeOK'
      BY <1>1, <2>1, <2>2, <3>1, NextEntryFacts DEF TypeOK
    <3>3. header'[t] = <<h, g + 1>> /\ i'[t] = g + 1 /\ pc'[t] = "less"
      BY <1>1, <2>2, <3>1, NextEntryFacts
    <3>4. Position(t)'
      <4>1. 2 <= g + 1 /\ g + 1 <= h + 1 /\ header'[t][1] = h /\ header'[t][2] = g + 1
        BY <1>1, <3>1, <3>3
      <4> QED
        BY <1>1, <2>1, <3>3, <4>1 DEF Position, Scanning, Copying, Reading, Sorting
    <3>5. \A u \in Threads \ {t} : pc'[u] = pc[u] /\ header'[u] = header[u] /\ i'[u] = i[u]
      BY <1>1, <2>2, <3>1, NextEntryFacts
    <3> QED
      BY <2>1, <3>2, <3>4, <3>5, ThreadBase
  <2>3. ASSUME NEW step \in {"panic", "swap"}, pc' = [pc EXCEPT ![t] = step],
               UNCHANGED <<header, i>>
        PROVE  Base'
    <3>1. TypeOK' /\ pc'[t] = step /\ header'[t] = header[t] /\ i'[t] = i[t]
      BY <1>1, <2>1, <2>3 DEF TypeOK, Steps
    <3>2. Position(t)'
      BY <1>1, <1>3, <2>1, <3>1 DEF Position, Scanning, Copying, Reading, Sorting
    <3>3. \A u \in Threads \ {t} : pc'[u] = pc[u] /\ header'[u] = header[u] /\ i'[u] = i[u]
      BY <1>1, <2>3 DEF TypeOK
    <3> QED
      BY <2>1, <3>1, <3>2, <3>3, ThreadBase
  <2>4. \/ NextEntry(t) /\ UNCHANGED pc
        \/ pc' = [pc EXCEPT ![t] = "panic"] /\ UNCHANGED <<header, i>>
        \/ pc' = [pc EXCEPT ![t] = "swap"] /\ UNCHANGED <<header, i>>
    BY <1>3 DEF SortLess
  <2> QED
    BY <2>1, <2>2, <2>3, <2>4
<1> QED
  BY <1>2, <1>3

LEMMA SortSwapStep ==
  ASSUME Base, NEW t \in Threads, SortSwap(t)
  PROVE  Base' /\ Lists!Overwritten
<1> DEFINE h == header[t][1]
           g == header[t][2]
           j == i[t]
<1>1. /\ TypeOK /\ Filled /\ Position(t) /\ pc[t] = "swap" /\ Room \in Nat /\ active \in Slice
      /\ h \in 0 .. Room /\ g \in 0 .. Room + 2 /\ 2 <= j /\ j <= g /\ g <= h
      /\ j \in 0 .. Room + 2 /\ \A k \in 1 .. h : active.a[k] \in created
  BY RoomNat DEF SortSwap, Base, Position, TypeOK, Sorting
<1>2. /\ active' = [active EXCEPT !.a = [@ EXCEPT ![j] = active.a[j - 1],
                                                   ![j - 1] = active.a[j]]]
      /\ pc' = [pc EXCEPT ![t] = "less"]
      /\ UNCHANGED <<pending, created, gone, item, down>>
  BY DEF SortSwap, members
<1>3. j \in 1 .. h /\ j - 1 \in 1 .. h /\ j \in 1 .. Room /\ j - 1 \in 1 .. Room /\ j # j - 1
  BY <1>1
<1>4. /\ active' \in Slice /\ active'.n = active.n
      /\ \A k \in 1 .. Room :
           active'.a[k] = IF k = j THEN active.a[j - 1]
                          ELSE IF k = j - 1 THEN active.a[j] ELSE active.a[k]
  BY <1>1, <1>2, <1>3 DEF Slice
<1>5. Grows
  BY <1>1, <1>2, <1>3, <1>4 DEF Grows
<1>6. Filled'
  <2>1. \A k \in 1 .. active.n : k \in 1 .. Room
    BY <1>1, SliceFacts
  <2> QED
    BY <1>1, <1>2, <1>4, <1>5, <2>1 DEF Filled, Grows
<1>7. /\ header' \in [Threads -> (0 .. Room) \X (0 .. Room + 2)] /\ i' \in [Threads -> 0 .. Room + 2]
      /\ \A u \in Threads \ {t} : header'[u] = header[u] /\ i'[u] = i[u]
      /\ header'[t][1] = h /\ 2 <= i'[t] /\ i'[t] <= header'[t][2] /\ header'[t][2] <= h + 1
  <2>1. CASE j > 2
    <3>1. i' = [i EXCEPT ![t] = j - 1] /\ header' = header
      BY <2>1 DEF SortSwap
    <3>2. j - 1 \in 0 .. Room + 2
      BY <1>1
    <3> QED
      BY <1>1, <2>1, <3>1, <3>2 DEF TypeOK
  <2>2. CASE ~ (j > 2)
    <3>1. NextEntry(t)
      BY <2>2 DEF SortSwap
    <3>2. /\ header'[t] = <<h, g + 1>> /\ i'[t] = g + 1
          /\ header' \in [Threads -> (0 .. Room) \X (0 .. Room + 2)]
          /\ i' \in [Threads -> 0 .. Room + 2]
          /\ \A u \in Threads \ {t} : header'[u] = header[u] /\ i'[u] = i[u]
      BY <1>1, <3>1, NextEntryFacts
    <3> QED
      BY <1>1, <3>2
  <2> QED
    BY <2>1, <2>2
<1>8. others' \in [Threads -> Doings] /\ seen' \in [Threads -> Seq(Members \cup {NoMember})]
  BY <1>1, NoteFacts DEF SortSwap
<1>9. TypeOK'
  <2>1. pc' \in [Threads -> Steps] /\ torn' \in BOOLEAN
    BY <1>1, <1>2 DEF SortSwap, TypeOK, Steps
  <2> QED
    BY <1>1, <1>2, <1>4, <1>7, <1>8, <2>1 DEF TypeOK
<1>10. Position(t)'
  <2>1. pc'[t] = "less"
    BY <1>1, <1>2 DEF TypeOK
  <2>2. \A k \in 1 .. h : active'.a[k] \in created'
    <3>1. \A k \in 1 .. h : k \in 1 .. Room
      BY <1>1
    <3> QED
      BY <1>1, <1>5, <3>1 DEF Grows
  <2> QED
    BY <1>7, <2>1, <2>2 DEF Position, Scanning, Copying, Reading, Sorting
<1>11. \A u \in Threads \ {t} : pc'[u] = pc[u] /\ header'[u] = header[u] /\ i'[u] = i[u]
  BY <1>1, <1>2, <1>7 DEF TypeOK
<1>12. created' \in SUBSET Members
  BY <1>1, <1>2 DEF TypeOK
<1> QED
  BY <1>2, <1>4, <1>5, <1>6, <1>9, <1>10, <1>11, <1>12, StepBase, Replaced

LEMMA ReadingStep ==
  ASSUME Base, NEW t \in Threads, is_in_active(t) \/ rtpp_by_name(t)
  PROVE  Base' /\ UNCHANGED <<active, pending>>
<1>1. TypeOK /\ header[t][1] \in Nat /\ header[t][2] \in Nat /\ i[t] \in Nat
  BY RoomNat DEF Base, TypeOK
<1>2. \/ End(t)
      \/ /\ Advance(t)
         /\ \/ pc[t] = "scan" /\ i[t] <= header[t][1]
            \/ pc[t] \in Reading /\ i[t] <= header[t][1] + header[t][2]
  BY <1>1 DEF is_in_active, rtpp_by_name, Reading
<1> QED
  BY <1>2, EndStep, AdvanceStep DEF End, Advance, slices

LEMMA StartStep ==
  ASSUME Base, NEW t \in Threads, Start(t)
  PROVE  Base' /\ UNCHANGED <<active, pending>>
<1>1. PICK step \in {"scan", "copy_find", "copy_reload", "less"}, m \in created \cup {NoMember} :
        Begin(t, step, m)
  BY DEF Start
<1> QED
  BY <1>1, BeginStep DEF Begin, slices

LEMMA InitBase ==
  ASSUME Init
  PROVE  Base /\ Items(active) = <<>> /\ Items(pending) = <<>>
<1>1. Room \in Nat /\ <<>> \in Seq(Members \cup {NoMember}) /\ Cardinality({}) = 0
  BY RoomNat, EmptySeq, FS_EmptySet
<1>2. Empty \in Slice /\ Empty.n = 0
  BY <1>1 DEF Empty, Slice
<1>3. TypeOK
  <2>1. <<0, 0>> \in (0 .. Room) \X (0 .. Room + 2) /\ 0 \in 0 .. Room + 2
    BY <1>1
  <2> QED
    BY <1>1, <1>2, <2>1 DEF Init, TypeOK, Steps, Doings
<1>4. Filled /\ \A t \in Threads : Position(t)
  BY <1>1, <1>2 DEF Init, Filled, Position, Scanning, Copying, Reading, Sorting
<1>5. Items(Empty) = <<>>
  BY <1>2, ItemsOf, EmptySeq
<1> QED
  BY <1>3, <1>4, <1>5 DEF Base, Init

LEMMA BaseStep ==
  ASSUME Base, [Next]_vars
  PROVE  Base' /\ [Lists!Next]_<<Items(active), Items(pending)>>
<1>1. CASE UNCHANGED vars
  <2>1. UNCHANGED <<active, pending, created, gone, pc, header, i, item, others, seen, down, torn>>
    BY <1>1 DEF vars, slices, members, local, history
  <2> QED
    BY <2>1 DEF Base, TypeOK, Filled, Position, Items
<1>2. ASSUME NEW m \in Members, Locked(m)
      PROVE  Base' /\ Lists!Next
  BY <1>2, AppendActiveStep, AppendPendingStep, MoveToActiveStep, MoveToPendingStep
     DEF Locked, Lists!Next
<1>3. ASSUME NEW t \in Threads, Unlocked(t)
      PROVE  Base' /\ [Lists!Next]_<<Items(active), Items(pending)>>
  <2>1. CASE Start(t) \/ is_in_active(t) \/ rtpp_by_name(t) \/ SortLess(t)
    BY <2>1, StartStep, ReadingStep, SortLessStep DEF Items
  <2>2. CASE all_members(t)
    <3>1. PICK after : /\ Copy(t, after)
                       /\ \/ pc[t] = "copy_find" /\ after = "find"
                          \/ pc[t] = "copy_reload" /\ after = "reload"
      BY <2>2 DEF all_members
    <3> QED
      BY <3>1, CopyStep DEF Lists!Next
  <2>3. CASE reload(t)
    BY <2>3, ReloadStep
  <2>4. CASE SortSwap(t)
    BY <2>4, SortSwapStep DEF Lists!Next
  <2> QED
    BY <1>3, <2>1, <2>2, <2>3, <2>4 DEF Unlocked
<1> QED
  BY <1>1, <1>2, <1>3 DEF Next

\* Types, the room in the arrays, and what was written.
THEOREM BaseInvariant == Spec => []Base
<1>1. Init => Base
  BY InitBase
<1>2. Base /\ [Next]_vars => Base'
  BY BaseStep
<1> QED
  BY <1>1, <1>2, PTL DEF Spec

\* Any number of threads that read, write and sort the arrays without the lock
\* leave lists, and do no more to them than to replace entries of active.
THEOREM SlicesActAsLists == Spec => ActsAsLists
<1>1. Init => Lists!Init
  BY InitBase DEF Lists!Init
<1>2. Base /\ [Next]_vars => [Lists!Next]_(Lists!lists)
  BY BaseStep DEF Lists!lists
<1> QED
  BY <1>1, <1>2, BaseInvariant, PTL DEF Spec, ActsAsLists, Lists!Spec

\* Every variable has its type, for any number of members and threads.
THEOREM TypeCorrect == Spec => []TypeOK
<1>1. Base => TypeOK
  BY DEF Base
<1> QED
  BY <1>1, BaseInvariant, PTL
-----------------------------------------------------------------------------
(* Every member that was added and not removed is listed once.             *)

LEMMA AppendDistinct ==
  ASSUME NEW sl \in Slice, NEW m \in Members, sl.n < Room, m \notin Listed(sl), Distinct(sl)
  PROVE  Distinct(append(sl, m))
<1> DEFINE d == append(sl, m)
<1>1. /\ d.n = sl.n + 1 /\ sl.n \in 0 .. Room /\ Room \in Nat
      /\ \A k \in 1 .. Room : d.a[k] = IF k = sl.n + 1 THEN m ELSE sl.a[k]
  BY AppendSlice, SliceFacts, RoomNat
<1>2. \A k \in 1 .. sl.n : sl.a[k] # m
  BY DEF Listed
<1> HIDE DEF d
<1>3. \A k \in 1 .. d.n : /\ k \in 1 .. Room
                          /\ \/ k = sl.n + 1 /\ d.a[k] = m
                             \/ k \in 1 .. sl.n /\ d.a[k] = sl.a[k]
  BY <1>1
<1>4. Distinct(d)
  BY <1>2, <1>3 DEF Distinct
<1> QED
  BY <1>4 DEF d

\* A step that leaves the entries of the lists where they are.
LEMMA SameLists ==
  ASSUME Exact, active'.n = active.n, \A k \in 1 .. active.n : active'.a[k] = active.a[k],
         UNCHANGED <<pending, created, gone>>, torn => torn'
  PROVE  Exact'
<1>1. Listed(active)' = Listed(active) /\ Listed(pending)' = Listed(pending)
  BY DEF Listed
<1>2. Distinct(active) <=> Distinct(active)'
  BY DEF Distinct
<1>3. Distinct(pending) <=> Distinct(pending)'
  BY DEF Distinct
<1> QED
  BY <1>1, <1>2, <1>3 DEF Exact

\* A member moves from the slice sl to the slice d.
LEMMA MoveDistinct ==
  ASSUME NEW sl \in Slice, NEW d \in Slice, d.n < Room,
         NEW k \in 1 .. sl.n, NEW m \in Members, m = sl.a[k],
         Listed(sl) \cap Listed(d) = {}, Distinct(sl), Distinct(d)
  PROVE  /\ Listed(delete(sl, k)) \cup Listed(append(d, m)) = Listed(sl) \cup Listed(d)
         /\ Listed(delete(sl, k)) \cap Listed(append(d, m)) = {}
         /\ Distinct(delete(sl, k)) /\ Distinct(append(d, m))
<1>1. m \in Listed(sl) /\ m \notin Listed(d)
  BY DEF Listed
<1>2. Distinct(append(d, m)) /\ Listed(append(d, m)) = Listed(d) \cup {m}
  BY <1>1, AppendDistinct, AppendSlice
<1>3. Distinct(delete(sl, k)) /\ Listed(delete(sl, k)) = Listed(sl) \ {m}
  BY DeleteDistinct
<1> QED
  BY <1>1, <1>2, <1>3

LEMMA LockedExact ==
  ASSUME Base, Exact, NEW m \in Members, Locked(m)
  PROVE  Exact'
<1>1. /\ active \in Slice /\ pending \in Slice /\ TypeOK /\ Filled /\ gone \subseteq created
      /\ Listed(active) \subseteq created /\ Listed(pending) \subseteq created
  BY ListsHaveRoom DEF Base, TypeOK, Filled, Listed
<1>2. torn' = torn /\ gone' = gone
  BY DEF Locked, append_active, append_pending, move_to_active, move_to_pending, members, history
<1> SUFFICES ASSUME ~ torn
             PROVE  /\ Listed(active)' \cup Listed(pending)' = created' \ gone
                    /\ Listed(active)' \cap Listed(pending)' = {}
                    /\ Distinct(active)' /\ Distinct(pending)'
  BY <1>2 DEF Exact
<1>3. /\ Listed(active) \cup Listed(pending) = created \ gone
      /\ Listed(active) \cap Listed(pending) = {}
      /\ Distinct(active) /\ Distinct(pending)
  BY DEF Exact
<1>4. CASE append_active(m)
  <2>1. /\ m \notin created /\ created' = created \cup {m}
        /\ active' = append(active, m) /\ pending' = pending
    BY <1>4 DEF append_active
  <2>2. active.n < Room /\ m \notin Listed(active) /\ m \notin Listed(pending)
    BY <1>1, <2>1, RoomLeft
  <2>3. Distinct(append(active, m)) /\ Listed(append(active, m)) = Listed(active) \cup {m}
    BY <1>1, <1>3, <2>2, AppendDistinct, AppendSlice
  <2>4. /\ Listed(active)' = Listed(active) \cup {m} /\ Listed(pending)' = Listed(pending)
        /\ Distinct(active)' /\ Distinct(pending)'
    BY <1>3, <2>1, <2>3 DEF Listed, Distinct
  <2> QED
    BY <1>1, <1>3, <2>1, <2>2, <2>4
<1>5. CASE append_pending(m)
  <2>1. /\ m \notin created /\ created' = created \cup {m}
        /\ pending' = append(pending, m) /\ active' = active
    BY <1>5 DEF append_pending
  <2>2. pending.n < Room /\ m \notin Listed(active) /\ m \notin Listed(pending)
    BY <1>1, <2>1, RoomLeft
  <2>3. Distinct(append(pending, m)) /\ Listed(append(pending, m)) = Listed(pending) \cup {m}
    BY <1>1, <1>3, <2>2, AppendDistinct, AppendSlice
  <2>4. /\ Listed(pending)' = Listed(pending) \cup {m} /\ Listed(active)' = Listed(active)
        /\ Distinct(active)' /\ Distinct(pending)'
    BY <1>3, <2>1, <2>3 DEF Listed, Distinct
  <2> QED
    BY <1>1, <1>3, <2>1, <2>2, <2>4
<1>6. CASE move_to_active(m)
  <2>1. PICK k \in 1 .. pending.n :
          /\ m = pending.a[k] /\ pending' = delete(pending, k) /\ active' = append(active, m)
          /\ created' = created
    BY <1>6 DEF move_to_active, IsFirst, members
  <2>2. active.n < Room
    BY <1>1, <2>1, ListsHaveRoom, MoveSlices DEF Filled
  <2>3. /\ Listed(delete(pending, k)) \cup Listed(append(active, m)) = Listed(pending) \cup Listed(active)
        /\ Listed(delete(pending, k)) \cap Listed(append(active, m)) = {}
        /\ Distinct(delete(pending, k)) /\ Distinct(append(active, m))
    BY <1>1, <1>3, <2>1, <2>2, MoveDistinct
  <2>4. /\ Listed(pending)' = Listed(delete(pending, k)) /\ Listed(active)' = Listed(append(active, m))
        /\ Distinct(active)' /\ Distinct(pending)'
    BY <2>1, <2>3 DEF Listed, Distinct
  <2> QED
    BY <1>3, <2>1, <2>3, <2>4
<1>7. CASE move_to_pending(m)
  <2>1. PICK k \in 1 .. active.n :
          /\ m = active.a[k] /\ active' = delete(active, k) /\ pending' = append(pending, m)
          /\ created' = created
    BY <1>7 DEF move_to_pending, IsFirst, members
  <2>2. pending.n < Room
    BY <1>1, <2>1, ListsHaveRoom, MoveSlices DEF Filled
  <2>3. /\ Listed(delete(active, k)) \cup Listed(append(pending, m)) = Listed(active) \cup Listed(pending)
        /\ Listed(delete(active, k)) \cap Listed(append(pending, m)) = {}
        /\ Distinct(delete(active, k)) /\ Distinct(append(pending, m))
    BY <1>1, <1>3, <2>1, <2>2, MoveDistinct
  <2>4. /\ Listed(active)' = Listed(delete(active, k)) /\ Listed(pending)' = Listed(append(pending, m))
        /\ Distinct(active)' /\ Distinct(pending)'
    BY <2>1, <2>3 DEF Listed, Distinct
  <2> QED
    BY <1>3, <2>1, <2>3, <2>4
<1> QED
  BY <1>4, <1>5, <1>6, <1>7 DEF Locked
\* What copying writes.
LEMMA CopyFacts ==
  ASSUME Base, NEW t \in Threads, NEW after, Copy(t, after), pc[t] \in Copying
  PROVE  LET h == header[t][1]
             g == header[t][2]
         IN  /\ active' \in Slice /\ active'.n = active.n /\ pending' = pending
             /\ \A k \in 1 .. Room :
                  active'.a[k] = IF k \in h + 1 .. h + g THEN pending.a[k - h] ELSE active.a[k]
<1> DEFINE h == header[t][1]
           g == header[t][2]
<1>1. /\ active' = [active EXCEPT !.a =
                      [k \in 1 .. Room |-> IF k \in h + 1 .. h + g
                                             THEN pending.a[k - h] ELSE @[k]]]
      /\ pending' = pending
  BY DEF Copy
<1>2. /\ active \in Slice /\ pending \in Slice /\ Room \in Nat
      /\ h \in 0 .. Room /\ g \in 0 .. Room + 2 /\ h + g <= Room
  BY RoomNat DEF Base, TypeOK, Position, Copying
<1>3. \A k \in h + 1 .. h + g : k - h \in 1 .. Room
  BY <1>2
<1> QED
  BY <1>1, <1>2, <1>3 DEF Slice

\* What an exchange writes.
LEMMA SwapFacts ==
  ASSUME Base, NEW t \in Threads, SortSwap(t)
  PROVE  LET j == i[t]
         IN  /\ active' \in Slice /\ active'.n = active.n /\ pending' = pending
             /\ j \in 2 .. Room
             /\ \A k \in 1 .. Room :
                  active'.a[k] = IF k = j THEN active.a[j - 1]
                                 ELSE IF k = j - 1 THEN active.a[j] ELSE active.a[k]
<1> DEFINE j == i[t]
<1>1. /\ active \in Slice /\ Room \in Nat /\ j \in 0 .. Room + 2 /\ 2 <= j
      /\ header[t][1] \in 0 .. Room /\ header[t][2] \in 0 .. Room + 2
      /\ j <= header[t][2] /\ header[t][2] <= header[t][1]
  BY RoomNat DEF SortSwap, Base, Position, TypeOK, Sorting
<1>2. j \in 2 .. Room /\ j \in 1 .. Room /\ j - 1 \in 1 .. Room
  BY <1>1
<1>3. /\ active' = [active EXCEPT !.a = [@ EXCEPT ![j] = active.a[j - 1], ![j - 1] = active.a[j]]]
      /\ pending' = pending
  BY DEF SortSwap
<1> QED
  BY <1>1, <1>2, <1>3 DEF Slice

LEMMA CopyExact ==
  ASSUME Base, Exact, NEW t \in Threads, all_members(t)
  PROVE  Exact'
<1>1. PICK after : Copy(t, after) /\ pc[t] \in Copying
  BY DEF all_members, Copying
<1> DEFINE h == header[t][1]
           g == header[t][2]
<1>2. /\ active' \in Slice /\ active'.n = active.n
      /\ \A k \in 1 .. Room :
           active'.a[k] = IF k \in h + 1 .. h + g THEN pending.a[k - h] ELSE active.a[k]
      /\ UNCHANGED <<pending, created, gone>>
  BY <1>1, CopyFacts DEF Copy, members
<1>3. /\ h \in Nat /\ g \in Nat /\ active.n \in 0 .. Room /\ Room \in Nat /\ torn \in BOOLEAN
  BY RoomNat, SliceFacts DEF Base, TypeOK
<1>4. CASE ~ torn' /\ ~ torn
  <2>1. g > 0 => h >= active.n
    <3>1. g > 0 => torn' = (torn \/ h < active.n)
      BY <1>1 DEF Copy
    <3>2. g > 0 => ~ (h < active.n)
      BY <1>4, <3>1, Zenon
    <3> QED
      BY <1>3, <3>2
  <2>2. \A k \in 1 .. active.n : k \in 1 .. Room /\ k \notin h + 1 .. h + g
    BY <1>3, <2>1
  <2> QED
    BY <1>2, <1>4, <2>2, SameLists
<1>5. CASE torn' \/ torn
  <2>1. torn'
    BY <1>1, <1>5 DEF Copy
  <2> QED
    BY <2>1 DEF Exact
<1> QED
  BY <1>3, <1>4, <1>5

LEMMA SwapExact ==
  ASSUME Base, Exact, NEW t \in Threads, SortSwap(t)
  PROVE  Exact'
<1> DEFINE j == i[t]
<1>1. /\ active' \in Slice /\ active'.n = active.n /\ j \in 2 .. Room
      /\ \A k \in 1 .. Room :
           active'.a[k] = IF k = j THEN active.a[j - 1]
                          ELSE IF k = j - 1 THEN active.a[j] ELSE active.a[k]
      /\ UNCHANGED <<pending, created, gone>> /\ torn' = (torn \/ j = active.n + 1)
  BY SwapFacts DEF SortSwap, members
<1>2. active.n \in 0 .. Room /\ Room \in Nat /\ torn \in BOOLEAN
  BY RoomNat, SliceFacts DEF Base, TypeOK
<1>3. CASE torn \/ j = active.n + 1
  BY <1>1, <1>3 DEF Exact
<1>4. CASE ~ torn /\ j > active.n + 1
  <2>1. \A k \in 1 .. active.n : k \in 1 .. Room /\ k # j /\ k # j - 1
    BY <1>1, <1>2, <1>4
  <2> QED
    BY <1>1, <1>4, <2>1, SameLists
<1>5. CASE ~ torn /\ j <= active.n
  <2> DEFINE to(k) == IF k = j THEN j - 1 ELSE IF k = j - 1 THEN j ELSE k
  <2>1. \A k \in 1 .. active.n :
          to(k) \in 1 .. active.n /\ active'.a[k] = active.a[to(k)] /\ to(to(k)) = k
    BY <1>1, <1>2, <1>5
  <2> HIDE DEF to
  <2>2. Listed(active)' = Listed(active)
    <3>1. Listed(active)' \subseteq Listed(active)
      BY <1>1, <2>1 DEF Listed
    <3>2. \A k \in 1 .. active.n : active.a[k] = active'.a[to(k)]
      BY <2>1
    <3>3. Listed(active) \subseteq Listed(active)'
      BY <1>1, <2>1, <3>2 DEF Listed
    <3> QED
      BY <3>1, <3>3
  <2>3. Distinct(active) => Distinct(active)'
    <3> SUFFICES ASSUME Distinct(active), NEW k \in 1 .. active.n, NEW l \in 1 .. active.n,
                        active'.a[k] = active'.a[l]
                 PROVE  k = l
      BY <1>1 DEF Distinct
    <3>1. to(k) = to(l)
      BY <2>1 DEF Distinct
    <3> QED
      BY <2>1, <3>1
  <2>4. Listed(pending)' = Listed(pending) /\ (Distinct(pending) => Distinct(pending)')
    BY <1>1 DEF Listed, Distinct
  <2> QED
    BY <1>1, <1>5, <2>2, <2>3, <2>4 DEF Exact
<1> QED
  BY <1>1, <1>2, <1>3, <1>4, <1>5

LEMMA ReloadExact ==
  ASSUME Base, Exact, NEW t \in Threads, NEW m \in created, bring_down(t, m),
         UNCHANGED <<created, torn>>
  PROVE  Exact'
<1>1. /\ active \in Slice /\ pending \in Slice /\ gone \subseteq created
  BY ListsHaveRoom DEF Base, TypeOK
<1> SUFFICES ASSUME ~ torn
             PROVE  /\ Listed(active)' \cup Listed(pending)' = created \ gone'
                    /\ Listed(active)' \cap Listed(pending)' = {}
                    /\ Distinct(active)' /\ Distinct(pending)'
  BY DEF Exact
<1>2. /\ Listed(active) \cup Listed(pending) = created \ gone
      /\ Listed(active) \cap Listed(pending) = {}
      /\ Distinct(active) /\ Distinct(pending)
  BY DEF Exact
<1>3. ASSUME NEW k \in 1 .. active.n, IsFirst(active, m, k), active' = delete(active, k),
             gone' = gone \cup {m}, UNCHANGED pending
      PROVE  /\ Listed(active)' \cup Listed(pending)' = created \ gone'
             /\ Listed(active)' \cap Listed(pending)' = {}
             /\ Distinct(active)' /\ Distinct(pending)'
  <2>1. m = active.a[k] /\ m \in Listed(active)
    BY <1>3 DEF IsFirst, Listed
  <2>2. /\ Listed(delete(active, k)) = Listed(active) \ {m}
        /\ Distinct(delete(active, k))
    BY <1>1, <1>2, <2>1, DeleteDistinct
  <2>3. /\ Listed(active)' = Listed(active) \ {m} /\ Listed(pending)' = Listed(pending)
        /\ Distinct(active)' /\ Distinct(pending)'
    BY <1>2, <1>3, <2>2 DEF Listed, Distinct
  <2> QED
    BY <1>2, <1>3, <2>1, <2>3
<1>4. ASSUME NEW k \in 1 .. pending.n, IsFirst(pending, m, k), pending' = delete(pending, k),
             gone' = gone \cup {m}, UNCHANGED active
      PROVE  /\ Listed(active)' \cup Listed(pending)' = created \ gone'
             /\ Listed(active)' \cap Listed(pending)' = {}
             /\ Distinct(active)' /\ Distinct(pending)'
  <2>1. m = pending.a[k] /\ m \in Listed(pending)
    BY <1>4 DEF IsFirst, Listed
  <2>2. /\ Listed(delete(pending, k)) = Listed(pending) \ {m}
        /\ Distinct(delete(pending, k))
    BY <1>1, <1>2, <2>1, DeleteDistinct
  <2>3. /\ Listed(pending)' = Listed(pending) \ {m} /\ Listed(active)' = Listed(active)
        /\ Distinct(active)' /\ Distinct(pending)'
    BY <1>2, <1>4, <2>2 DEF Listed, Distinct
  <2> QED
    BY <1>2, <1>4, <2>1, <2>3
<1>5. CASE /\ UNCHANGED <<active, pending>>
           /\ gone' = gone \/ (m \notin Listed(active) \cup Listed(pending) /\ gone' = gone \cup {m})
  <2>1. /\ Listed(active)' = Listed(active) /\ Listed(pending)' = Listed(pending)
        /\ Distinct(active)' /\ Distinct(pending)'
    BY <1>2, <1>5 DEF Listed, Distinct
  <2> QED
    BY <1>2, <1>5, <2>1
<1> QED
  BY <1>3, <1>4, <1>5 DEF bring_down, slices

LEMMA ExactStep ==
  ASSUME Base, Exact, [Next]_vars
  PROVE  Exact'
<1>1. CASE UNCHANGED vars
  BY <1>1, SameLists DEF vars, slices, members, history
<1>2. ASSUME NEW t \in Threads, Unlocked(t)
      PROVE  Exact'
  <2>1. ASSUME UNCHANGED <<active, pending, created, gone, torn>>
        PROVE  Exact'
    BY <2>1, SameLists
  <2>2. CASE Start(t)
    BY <2>1, <2>2 DEF Start, Begin, slices, members
  <2>3. CASE is_in_active(t) \/ rtpp_by_name(t)
    BY <2>1, <2>3 DEF is_in_active, rtpp_by_name, End, Advance, slices, members, history
  <2>4. CASE SortLess(t)
    BY <2>1, <2>4 DEF SortLess, End, slices, members, history
  <2>5. CASE reload(t)
    <3>1. \/ End(t) \/ Advance(t)
          \/ /\ ~ (i[t] > header[t][1] + header[t][2]) /\ bring_down(t, active.a[i[t]])
             /\ UNCHANGED <<created, torn>>
      BY <2>5 DEF reload
    <3>2. CASE End(t) \/ Advance(t)
      BY <2>1, <3>2 DEF End, Advance, slices, members, history
    <3>3. CASE /\ ~ (i[t] > header[t][1] + header[t][2]) /\ bring_down(t, active.a[i[t]])
               /\ UNCHANGED <<created, torn>>
      <4>1. /\ pc[t] = "reload" /\ header[t][1] \in Nat /\ header[t][2] \in Nat
            /\ i[t] \in 1 .. header[t][1] + header[t][2] + 1
            /\ \A k \in 1 .. header[t][1] + header[t][2] : active.a[k] \in created
        BY <2>5, RoomNat DEF reload, Base, TypeOK, Position, Reading
      <4>2. active.a[i[t]] \in created
        BY <3>3, <4>1
      <4> QED
        BY <3>3, <4>2, ReloadExact
    <3> QED
      BY <3>1, <3>2, <3>3
  <2> QED
    BY <1>2, <2>2, <2>3, <2>4, <2>5, CopyExact, SwapExact DEF Unlocked
<1> QED
  BY <1>1, <1>2, LockedExact DEF Next

\* In terms of the lists as sequences.
LEMMA ListedOnce ==
  ASSUME Base, Exact
  PROVE  ListedOnceUnlessTorn
<1> DEFINE all == Items(active) \o Items(pending)
           n == active.n
           p == pending.n
<1>1. active \in Slice /\ pending \in Slice /\ n \in Nat /\ p \in Nat
  BY ListsHaveRoom, SliceFacts, RoomNat
<1>2. /\ Len(all) = n + p
      /\ \A k \in 1 .. n + p : all[k] = IF k <= n THEN active.a[k] ELSE pending.a[k - n]
  <2>1. /\ Items(active) \in Seq(Members \cup {NoMember}) /\ Len(Items(active)) = n
        /\ Items(pending) \in Seq(Members \cup {NoMember}) /\ Len(Items(pending)) = p
        /\ \A k \in 1 .. n : Items(active)[k] = active.a[k]
        /\ \A k \in 1 .. p : Items(pending)[k] = pending.a[k]
    BY <1>1, ItemsOf
  <2>2. /\ Len(all) = n + p
        /\ \A k \in 1 .. n + p : all[k] = IF k <= n THEN Items(active)[k] ELSE Items(pending)[k - n]
    <3> DEFINE S == Seq(Members \cup {NoMember})
    <3>1. /\ Len(all) = Len(Items(active)) + Len(Items(pending))
          /\ \A k \in 1 .. Len(Items(active)) + Len(Items(pending)) :
               all[k] = IF k <= Len(Items(active)) THEN Items(active)[k]
                        ELSE Items(pending)[k - Len(Items(active))]
      BY <2>1, ConcatProperties
    <3> QED
      BY <2>1, <3>1
  <2>3. \A k \in 1 .. n + p : IF k <= n THEN k \in 1 .. n ELSE k - n \in 1 .. p
    BY <1>1
  <2> QED
    BY <2>1, <2>2, <2>3
<1>3. DOMAIN all = 1 .. n + p
  <2>1. all \in Seq(Members \cup {NoMember})
    BY <1>1, ItemsOf, ConcatProperties
  <2> QED
    BY <1>2, <2>1, LenProperties
<1> HIDE DEF all
<1>4. \A k \in 1 .. n + p : \/ k \in 1 .. n /\ all[k] = active.a[k]
                            \/ k - n \in 1 .. p /\ all[k] = pending.a[k - n] /\ k > n
  BY <1>1, <1>2
<1>5. {all[k] : k \in 1 .. n + p} = Listed(active) \cup Listed(pending)
  <2>1. \A k \in 1 .. n : k \in 1 .. n + p /\ all[k] = active.a[k]
    BY <1>1, <1>2
  <2>2. \A k \in 1 .. p : k + n \in 1 .. n + p /\ all[k + n] = pending.a[k]
    BY <1>1, <1>2
  <2> QED
    BY <1>4, <2>1, <2>2 DEF Listed
<1>6. ASSUME ~ torn, NEW j \in 1 .. n + p, NEW k \in 1 .. n + p, all[j] = all[k]
      PROVE  j = k
  <2>1. /\ Listed(active) \cap Listed(pending) = {}
        /\ Distinct(active) /\ Distinct(pending)
    BY <1>6 DEF Exact
  <2>2. CASE j \in 1 .. n /\ k \in 1 .. n
    BY <1>4, <1>6, <2>1, <2>2, <1>2, <1>1 DEF Distinct
  <2>3. CASE j > n /\ k > n
    <3>1. j - n = k - n
      BY <1>1, <1>4, <1>6, <2>1, <2>3 DEF Distinct
    <3> QED
      BY <1>1, <3>1
  <2>4. CASE (j \in 1 .. n /\ k > n) \/ (k \in 1 .. n /\ j > n)
    BY <1>1, <1>4, <1>6, <2>1, <2>4 DEF Listed
  <2> QED
    BY <1>1, <2>2, <2>3, <2>4
<1>7. ~ torn => Listed(active) \cup Listed(pending) = created \ gone
  BY DEF Exact
<1> QED
  BY <1>3, <1>5, <1>6, <1>7 DEF ListedOnceUnlessTorn, all

\* As long as no copy of the pending members overlapped an addition to active,
\* and no sort a removal, every member that was added and not removed is listed
\* once.
THEOREM MembersListedOnce == Spec => []ListedOnceUnlessTorn
<1>1. Init => Exact
  <2>1. ASSUME Init
        PROVE  active.n = 0 /\ pending.n = 0 /\ created = {} /\ gone = {}
    BY <2>1 DEF Init, Empty
  <2> QED
    BY <2>1 DEF Exact, Listed, Distinct
<1>2. Base /\ Exact /\ [Next]_vars => Exact'
  BY ExactStep
<1>3. Base /\ Exact => ListedOnceUnlessTorn
  BY ListedOnce
<1> QED
  BY <1>1, <1>2, <1>3, BaseInvariant, PTL DEF Spec
-----------------------------------------------------------------------------
(* What a thread that is not misled relies on.                             *)

Kept(h) == \A k \in 1 .. h : active'.a[k] = active.a[k]

\* A step leaves thread t alone: as long as the step does not mislead it, what
\* it is going to read stays as it is.
Spared(t) ==
  LET h == header[t][1]
      g == header[t][2]
  IN  /\ pc'[t] = pc[t] /\ header'[t] = header[t] /\ i'[t] = i[t]
      /\ item'[t] = item[t] /\ down'[t] = down[t]
      /\ gone \subseteq gone' /\ (torn => torn')
      /\ pc[t] = "scan" /\ others'[t] # "more" =>
           /\ others[t] # "more" /\ seen'[t] = seen[t]
           /\ h <= active.n => h <= active'.n /\ Kept(h)
      /\ pc[t] \in Copying \cup Reading /\ others'[t] = "nothing" =>
           /\ others[t] = "nothing" /\ seen'[t] = seen[t]
           /\ active'.n = active.n /\ Kept(h)
           /\ g <= pending.n => g <= pending'.n
           /\ \A k \in 1 .. pending.n : pending'.a[k] = pending.a[k]
           /\ pc[t] = "reload" \/ (pc[t] = "find" /\ g <= pending.n /\ Copied(t)) => Kept(h + g)

LEMMA SparedLookup ==
  ASSUME Base, NEW t \in Threads, Spared(t), Lookup(t)
  PROVE  Lookup(t)'
<1> DEFINE h == header[t][1]
           g == header[t][2]
<1>1. /\ h \in Nat /\ g \in Nat /\ i[t] \in Nat /\ active.n \in Nat /\ pending.n \in Nat
      /\ Position(t)
  BY ListsHaveRoom, SliceFacts, RoomNat DEF Base, TypeOK
<1>2. /\ pc'[t] = pc[t] /\ header'[t] = header[t] /\ i'[t] = i[t] /\ item'[t] = item[t]
  BY DEF Spared
<1>3. ASSUME pc[t] = "scan", others'[t] # "more"
      PROVE  Scan(t)'
  <2>1. h <= active.n /\ Scan(t)
    <3>1. others[t] # "more"
      BY <1>3 DEF Spared, Lookup
    <3> QED
      BY <1>3, <3>1 DEF Lookup, Scan
  <2>2. seen'[t] = seen[t] /\ \A k \in 1 .. h : active'.a[k] = active.a[k]
    BY <1>3, <2>1 DEF Spared, Kept
  <2>3. h <= active'.n
    BY <1>3, <2>1 DEF Spared
  <2>4. \A k \in 1 .. i[t] - 1 : k \in 1 .. h
    BY <1>1, <1>3 DEF Position, Scanning
  <2> QED
    BY <1>2, <2>1, <2>2, <2>3, <2>4 DEF Scan
<1>4. ASSUME pc[t] \in {"find", "copy_find"}, others'[t] = "nothing"
      PROVE  Find(t)'
  <2>1. /\ others[t] = "nothing" /\ seen'[t] = seen[t]
        /\ active'.n = active.n /\ (g <= pending.n => g <= pending'.n)
        /\ \A k \in 1 .. h : active'.a[k] = active.a[k]
        /\ \A k \in 1 .. pending.n : pending'.a[k] = pending.a[k]
    BY <1>4 DEF Spared, Kept, Copying, Reading
  <2>2. Find(t) /\ Undisturbed(t)
    BY <1>4, <2>1 DEF Lookup, Find
  <2>3. h = active.n /\ g <= pending.n /\ \A k \in 1 .. g : k \in 1 .. pending.n
    BY <1>1, <2>2 DEF Undisturbed
  <2>4. Undisturbed(t)'
    BY <1>1, <1>2, <2>1, <2>3 DEF Undisturbed
  <2>5. pc[t] = "find" => Copied(t)' /\ \A k \in 1 .. i[t] - 1 : active'.a[k] # item[t]
    <3> SUFFICES ASSUME pc[t] = "find"
                 PROVE  Copied(t)' /\ \A k \in 1 .. i[t] - 1 : active'.a[k] # item[t]
      OBVIOUS
    <3>1. Copied(t) /\ \A k \in 1 .. i[t] - 1 : active.a[k] # item[t]
      BY <2>2 DEF Find
    <3>2. \A k \in 1 .. h + g : active'.a[k] = active.a[k]
      BY <1>4, <2>3, <3>1 DEF Spared, Kept, Reading
    <3>3. \A k \in 1 .. i[t] - 1 : k \in 1 .. h + g
      BY <1>1 DEF Position, Reading
    <3>4. \A k \in 1 .. g : h + k \in 1 .. h + g
      BY <1>1
    <3> QED
      BY <1>2, <2>1, <2>3, <3>1, <3>2, <3>3, <3>4 DEF Copied
  <2> QED
    BY <1>2, <2>1, <2>2, <2>3, <2>4, <2>5 DEF Find
<1> QED
  BY <1>2, <1>3, <1>4 DEF Lookup

LEMMA SparedReload ==
  ASSUME Base, NEW t \in Threads, Spared(t), Reload(t)
  PROVE  Reload(t)'
<1> DEFINE h == header[t][1]
           g == header[t][2]
<1>1. /\ h \in Nat /\ g \in Nat /\ i[t] \in Nat /\ active.n \in Nat /\ pending.n \in Nat
  BY ListsHaveRoom, SliceFacts, RoomNat DEF Base, TypeOK
<1>2. /\ pc'[t] = pc[t] /\ header'[t] = header[t] /\ i'[t] = i[t] /\ down'[t] = down[t]
      /\ gone \subseteq gone' /\ (torn => torn')
  BY DEF Spared
<1> SUFFICES ASSUME pc[t] \in {"copy_reload", "reload"}, others'[t] = "nothing", ~ torn'
             PROVE  Sweep(t)'
  BY <1>2 DEF Reload
<1>3. /\ others[t] = "nothing" /\ seen'[t] = seen[t]
      /\ active'.n = active.n /\ (g <= pending.n => g <= pending'.n)
      /\ \A k \in 1 .. h : active'.a[k] = active.a[k]
      /\ \A k \in 1 .. pending.n : pending'.a[k] = pending.a[k]
      /\ pc[t] = "reload" => \A k \in 1 .. h + g : active'.a[k] = active.a[k]
  BY DEF Spared, Kept, Copying, Reading
<1>4. Sweep(t)
  BY <1>2, <1>3 DEF Reload
<1>5. CASE pc[t] = "copy_reload"
  <2>1. /\ Len(seen[t]) = h + g /\ h = active.n /\ g <= pending.n
        /\ \A k \in 1 .. h : active.a[k] = seen[t][k]
        /\ \A k \in 1 .. g : pending.a[k] = seen[t][h + k]
    BY <1>4, <1>5 DEF Sweep, Undisturbed
  <2>2. \A k \in 1 .. g : k \in 1 .. pending.n
    BY <1>1, <2>1
  <2>3. Undisturbed(t)'
    BY <1>1, <1>2, <1>3, <2>1 DEF Undisturbed
  <2> QED
    BY <1>2, <1>3, <1>5, <2>1, <2>2, <2>3 DEF Sweep
<1>6. CASE pc[t] = "reload"
  <2> DEFINE removed == h - active.n
             at(k) == IF k + removed <= h THEN k + removed ELSE h
  <2>1. /\ Len(seen[t]) = h + g /\ removed >= 0
        /\ \A k \in 1 .. h : k >= i[t] => active.a[k] = seen[t][at(k)]
        /\ \A k \in 1 .. g : active.a[h + k] = seen[t][h + k]
        /\ \A k \in 1 .. h :
             k < i[t] + removed /\ seen[t][k] \in Obsolete \ down[t]
               => k > 1 /\ seen[t][k - 1] \in down[t] \cap gone
        /\ \A k \in 1 .. g :
             h + k < i[t] /\ seen[t][h + k] \in Obsolete => seen[t][h + k] \in down[t]
    BY <1>4, <1>6 DEF Sweep
  <2>2. \A k \in 1 .. g : h + k \in 1 .. h + g
    BY <1>1
  <2>3. \A k \in 1 .. h : k >= i[t] => active'.a[k] = seen[t][at(k)]
    BY <1>3, <2>1
  <2>4. \A k \in 1 .. g : active'.a[h + k] = seen[t][h + k]
    BY <1>3, <1>6, <2>1, <2>2
  <2>5. \A k \in 1 .. h :
          k < i[t] + removed /\ seen[t][k] \in Obsolete \ down[t]
            => k > 1 /\ seen[t][k - 1] \in down[t] \cap gone'
    BY <1>2, <2>1
  <2> QED
    BY <1>2, <1>3, <1>6, <2>1, <2>3, <2>4, <2>5 DEF Sweep
<1> QED
  BY <1>5, <1>6

\* A step that leaves the lists, but may append to the pending members.
LEMMA QuietStep ==
  ASSUME Base, NEW t \in Threads,
         active'.n = active.n, \A k \in 1 .. Room : active'.a[k] = active.a[k],
         pending'.n \in Nat, pending.n <= pending'.n,
         \A k \in 1 .. pending.n : pending'.a[k] = pending.a[k],
         gone \subseteq gone', torn => torn',
         pc'[t] = pc[t], header'[t] = header[t], i'[t] = i[t], item'[t] = item[t],
         down'[t] = down[t], others'[t] = others[t], seen'[t] = seen[t]
  PROVE  Spared(t)
<1>1. /\ header[t][1] \in 0 .. Room /\ header[t][2] \in 0 .. Room + 2 /\ Room \in Nat
      /\ active.n \in Nat /\ pending.n \in Nat
      /\ pc[t] \in Copying \cup Reading => header[t][1] + header[t][2] <= Room
  BY ListsHaveRoom, SliceFacts, RoomNat DEF Base, TypeOK, Position
<1>2. Kept(header[t][1])
  BY <1>1 DEF Kept
<1>3. pc[t] \in Copying \cup Reading => Kept(header[t][1] + header[t][2])
  BY <1>1 DEF Kept
<1>4. header[t][2] <= pending.n => header[t][2] <= pending'.n
  BY <1>1
<1> QED
  BY <1>2, <1>3, <1>4 DEF Spared, Reading

\* A step that misleads all other threads.
LEMMA MisleadingStep ==
  ASSUME Base, NEW ts, NEW t \in Threads \cap ts, Note(ts, "more"),
         gone \subseteq gone', torn => torn',
         pc'[t] = pc[t], header'[t] = header[t], i'[t] = i[t], item'[t] = item[t],
         down'[t] = down[t]
  PROVE  Spared(t)
<1>1. pc[t] \in Scanning \cup Copying \cup Reading => others'[t] = "more"
  BY DEF Note, Base, TypeOK, Scanning, Copying, Reading, Doings
<1> QED
  BY <1>1 DEF Spared, Scanning

LEMMA LockedSpares ==
  ASSUME Base, NEW m \in Members, Locked(m), NEW t \in Threads
  PROVE  Spared(t)
<1>1. /\ TypeOK /\ active \in Slice /\ pending \in Slice
      /\ active.n \in 0 .. Room /\ pending.n \in 0 .. Room /\ Room \in Nat
      /\ header[t][1] \in 0 .. Room
  BY ListsHaveRoom, SliceFacts, RoomNat DEF Base, TypeOK
<1>2. UNCHANGED <<gone, pc, header, i, item, down, torn>>
  BY DEF Locked, append_active, append_pending, move_to_active, move_to_pending, members,
         local, history
<1>3. CASE append_active(m) \/ move_to_active(m)
  <2>1. active' = append(active, m) /\ active.n < Room /\ Note(Threads, "append")
    <3>1. CASE append_active(m)
      BY <1>1, <3>1, RoomLeft DEF append_active
    <3>2. CASE move_to_active(m)
      <4>1. PICK k \in 1 .. pending.n :
              /\ m = pending.a[k] /\ active' = append(active, m) /\ Note(Threads, "append")
        BY <3>2 DEF move_to_active, IsFirst
      <4> QED
        BY <1>1, <4>1, ListsHaveRoom, MoveSlices DEF Base, Filled
    <3> QED
      BY <1>3, <3>1, <3>2
  <2>2. /\ active'.n = active.n + 1
        /\ \A k \in 1 .. Room : active'.a[k] = IF k = active.n + 1 THEN m ELSE active.a[k]
    BY <1>1, <2>1, AppendSlice
  <2>3. header[t][1] <= active.n => Kept(header[t][1])
    <3>1. header[t][1] <= active.n =>
            \A k \in 1 .. header[t][1] : k \in 1 .. Room /\ k # active.n + 1
      BY <1>1
    <3> QED
      BY <2>2, <3>1 DEF Kept
  <2>4. pc[t] \in Copying \cup Reading => others'[t] # "nothing"
    BY <1>1, <2>1, NoteFacts DEF Copying, Reading
  <2>5. pc[t] = "scan" /\ others'[t] # "more" => others[t] # "more" /\ seen'[t] = seen[t]
    BY <1>1, <2>1, NoteFacts
  <2>6. header[t][1] <= active.n => header[t][1] <= active'.n
    BY <1>1, <2>2
  <2> QED
    BY <1>2, <2>3, <2>4, <2>5, <2>6 DEF Spared
<1>4. CASE append_pending(m)
  <2>1. /\ pending' = append(pending, m) /\ UNCHANGED <<active, others, seen>>
        /\ m \notin created
    BY <1>4 DEF append_pending, history
  <2>2. /\ pending'.n = pending.n + 1
        /\ \A k \in 1 .. Room : pending'.a[k] = IF k = pending.n + 1 THEN m ELSE pending.a[k]
    BY <1>1, <2>1, RoomLeft, AppendSlice
  <2>3. \A k \in 1 .. pending.n : k \in 1 .. Room /\ k # pending.n + 1
    BY <1>1
  <2>4. pending'.n \in Nat /\ pending.n <= pending'.n
    BY <1>1, <2>2
  <2> QED
    BY <1>2, <2>1, <2>2, <2>3, <2>4, QuietStep
<1>5. CASE move_to_pending(m)
  BY <1>2, <1>5, MisleadingStep DEF move_to_pending
<1> QED
  BY <1>3, <1>4, <1>5 DEF Locked
\* A copy misleads those for which the pending members are elsewhere.
LEMMA CopySpares ==
  ASSUME Base, NEW u \in Threads, all_members(u), NEW t \in Threads \ {u}
  PROVE  Spared(t)
<1>1. PICK after : Copy(u, after) /\ pc[u] \in Copying
  BY DEF all_members, Copying
<1> DEFINE h == header[t][1]
           g == header[t][2]
           hu == header[u][1]
           gu == header[u][2]
<1>2. /\ TypeOK /\ active.n \in 0 .. Room /\ pending.n \in 0 .. Room /\ Room \in Nat
      /\ h \in 0 .. Room /\ g \in 0 .. Room + 2 /\ hu \in 0 .. Room /\ gu \in 0 .. Room + 2
      /\ pc[t] \in Copying \cup Reading => h + g <= Room
  BY ListsHaveRoom, SliceFacts, RoomNat DEF Base, TypeOK, Position
<1>3. /\ active'.n = active.n /\ pending' = pending
      /\ \A k \in 1 .. Room :
           active'.a[k] = IF k \in hu + 1 .. hu + gu THEN pending.a[k - hu] ELSE active.a[k]
  BY <1>1, CopyFacts
<1>4. /\ pc'[t] = pc[t] /\ header'[t] = header[t] /\ i'[t] = i[t] /\ item'[t] = item[t]
      /\ down'[t] = down[t] /\ gone' = gone
  BY <1>1, <1>2 DEF Copy, members, TypeOK
<1>5. torn => torn'
  BY <1>1 DEF Copy
<1>6. CASE ~ (gu > 0)
  <2>1. others' = others /\ seen' = seen
    BY <1>1, <1>6 DEF Copy
  <2>2. \A k \in 1 .. Room : active'.a[k] = active.a[k]
    BY <1>2, <1>3, <1>6
  <2> QED
    BY <1>2, <1>3, <1>4, <1>5, <2>1, <2>2, QuietStep
<1>7. CASE gu > 0
  <2>1. PICK what \in {"append", "more"} :
          Note(Elsewhere(u), what) /\ (what = "append" => ~ (hu < active.n))
    BY <1>1, <1>7 DEF Copy
  <2>2. t \notin Elsewhere(u) => pc[t] # "reload" /\ h = hu
    BY DEF Elsewhere
  <2>3. h = hu => Kept(h)
    BY <1>2, <1>3 DEF Kept
  <2>4. ASSUME pc[t] = "scan", others'[t] # "more"
        PROVE  /\ others[t] # "more" /\ seen'[t] = seen[t]
               /\ h <= active.n => h <= active'.n /\ Kept(h)
    <3>1. /\ others[t] # "more" /\ seen'[t] = seen[t]
          /\ t \in Elsewhere(u) => what = "append"
      <4>1. pc[t] \notin {"idle", "less", "swap"}
        BY <2>4
      <4>2. Note(Elsewhere(u), what) /\ what \in {"append", "more"} /\ TypeOK
        BY <1>2, <2>1
      <4>3. pc[t] = "scan" /\ others'[t] # "more" =>
              /\ others[t] # "more" /\ seen'[t] = seen[t]
              /\ t \in Elsewhere(u) => what = "append"
        BY <4>1, <4>2, NoteFacts
      <4> QED
        BY <2>4, <4>3
    <3>2. ~ (hu < active.n) /\ h <= active.n => Kept(h)
      <4>1. ~ (hu < active.n) /\ h <= active.n =>
              \A k \in 1 .. h : k \in 1 .. Room /\ k \notin hu + 1 .. hu + gu
        BY <1>2
      <4> QED
        BY <1>3, <4>1 DEF Kept
    <3> QED
      BY <1>3, <2>1, <2>2, <2>3, <3>1, <3>2
  <2>5. ASSUME pc[t] \in Copying \cup Reading, others'[t] = "nothing"
        PROVE  /\ others[t] = "nothing" /\ seen'[t] = seen[t] /\ Kept(h) /\ pc[t] # "reload"
               /\ pc[t] = "find" /\ g <= pending.n /\ Copied(t) => Kept(h + g)
    <3>1. pc[t] \notin {"idle", "less", "swap"}
      BY <2>5 DEF Copying, Reading
    <3>2. others[t] = "nothing" /\ seen'[t] = seen[t] /\ t \notin Elsewhere(u)
      BY <1>2, <2>1, <2>5, <3>1, NoteFacts
    <3>3. ASSUME Copied(t), NEW k \in 1 .. h + g
          PROVE  active'.a[k] = active.a[k]
      <4>1. k \in 1 .. Room
        BY <1>2, <2>5
      <4>2. CASE k \in h + 1 .. h + g /\ k \in hu + 1 .. hu + gu
        <5>1. k - h \in 1 .. g /\ h + (k - h) = k
          BY <1>2, <4>2
        <5>2. active.a[k] = pending.a[k - h]
          BY <3>3, <5>1 DEF Copied
        <5> QED
          BY <1>3, <2>2, <3>2, <4>1, <4>2, <5>2
      <4>3. CASE k \notin hu + 1 .. hu + gu
        BY <1>3, <4>1, <4>3
      <4> QED
        BY <1>2, <2>2, <3>2, <4>2, <4>3
    <3>4. Copied(t) => Kept(h + g)
      BY <3>3 DEF Kept
    <3> QED
      BY <2>2, <2>3, <3>2, <3>4
  <2> QED
    BY <1>3, <1>4, <1>5, <2>4, <2>5 DEF Spared
<1> QED
  BY <1>2, <1>6, <1>7

LEMMA UnlockedSpares ==
  ASSUME Base, NEW u \in Threads, Unlocked(u), NEW t \in Threads \ {u}
  PROVE  Spared(t)
<1>1. /\ TypeOK /\ active \in Slice /\ pending \in Slice /\ pending.n \in Nat
  BY ListsHaveRoom, SliceFacts, RoomNat DEF Base
<1>2. ASSUME UNCHANGED <<active, pending, gone, torn>>, others'[t] = others[t], seen'[t] = seen[t],
             pc'[t] = pc[t], header'[t] = header[t], i'[t] = i[t], item'[t] = item[t],
             down'[t] = down[t]
      PROVE  Spared(t)
  <2>1. pending'.n \in Nat /\ pending.n <= pending'.n
    BY <1>1, <1>2
  <2> QED
    BY <1>2, <2>1, QuietStep
<1>3. CASE Start(u)
  <2>1. PICK step \in {"scan", "copy_find", "copy_reload", "less"} : \E m : Begin(u, step, m)
    BY <1>3 DEF Start
  <2>4. PICK m : Begin(u, step, m)
    BY <2>1
  <2>2. /\ UNCHANGED <<active, pending, gone, torn>> /\ others'[t] = others[t]
        /\ pc'[t] = pc[t] /\ header'[t] = header[t] /\ i'[t] = i[t] /\ item'[t] = item[t]
        /\ down'[t] = down[t]
    BY <1>1, <2>4 DEF Begin, slices, members, TypeOK
  <2>3. seen'[t] = seen[t]
    BY <1>1, <2>4 DEF Begin, TypeOK
  <2> QED
    BY <1>2, <2>2, <2>3
<1>4. CASE End(u)
  BY <1>1, <1>2, <1>4 DEF End, slices, members, TypeOK
<1>5. CASE Advance(u)
  BY <1>1, <1>2, <1>5 DEF Advance, slices, members, history, TypeOK
<1>6. CASE SortLess(u)
  <2>1. CASE header[u][2] > header[u][1]
    BY <1>4, <1>6, <2>1 DEF SortLess
  <2>2. CASE ~ (header[u][2] > header[u][1])
    <3>1. /\ UNCHANGED <<active, pending, gone, torn, item, others, seen, down>>
      BY <1>6, <2>2 DEF SortLess, slices, members, history
    <3>2. /\ NextEntry(u) \/ UNCHANGED <<header, i>>
          /\ \E step : pc' = [pc EXCEPT ![u] = step] \/ pc' = pc
      BY <1>6, <2>2 DEF SortLess
    <3>3. pc'[t] = pc[t] /\ header'[t] = header[t] /\ i'[t] = i[t]
      BY <1>1, <3>2 DEF NextEntry, TypeOK
    <3> QED
      BY <1>2, <3>1, <3>3
  <2> QED
    BY <2>1, <2>2
<1>7. CASE SortSwap(u)
  <2>1. Note(Threads \ {u}, "more") /\ gone' = gone /\ item' = item /\ down' = down
    BY <1>7 DEF SortSwap, members
  <2>2. torn => torn'
    BY <1>7 DEF SortSwap
  <2>3. pc' = [pc EXCEPT ![u] = "less"] /\ (NextEntry(u) \/ (header' = header /\ \E k : i' = [i EXCEPT ![u] = k]))
    BY <1>7 DEF SortSwap
  <2>4. pc'[t] = pc[t] /\ header'[t] = header[t] /\ i'[t] = i[t]
    BY <1>1, <2>3 DEF NextEntry, TypeOK
  <2> QED
    BY <2>1, <2>2, <2>4, MisleadingStep
<1>8. CASE reload(u)
  <2>1. CASE End(u) \/ Advance(u)
    BY <1>4, <1>5, <2>1
  <2>2. CASE ~ (End(u) \/ Advance(u))
    <3>1. /\ bring_down(u, active.a[i[u]]) /\ UNCHANGED <<pc, header, item, torn>>
          /\ \E k : i' = [i EXCEPT ![u] = k]
          /\ \E d : down' = [down EXCEPT ![u] = d]
      BY <1>8, <2>2 DEF reload
    <3>2. /\ pc'[t] = pc[t] /\ header'[t] = header[t] /\ i'[t] = i[t] /\ item'[t] = item[t]
          /\ down'[t] = down[t]
      BY <1>1, <3>1 DEF TypeOK
    <3>3. gone \subseteq gone'
      BY <3>1 DEF bring_down
    <3>4. CASE Note(Threads \ {u}, "more")
      BY <3>1, <3>2, <3>3, <3>4, MisleadingStep
    <3>5. CASE UNCHANGED <<active, pending, others, seen>>
      <4>1. pending'.n \in Nat /\ pending.n <= pending'.n
        BY <1>1, <3>5
      <4> QED
        BY <3>1, <3>2, <3>3, <3>5, <4>1, QuietStep
    <3>6. Note(Threads \ {u}, "more") \/ UNCHANGED <<active, pending, others, seen>>
      BY <3>1 DEF bring_down, slices
    <3> QED
      BY <3>4, <3>5, <3>6
  <2> QED
    BY <2>1, <2>2
<1>9. CASE is_in_active(u) \/ rtpp_by_name(u)
  BY <1>4, <1>5, <1>9 DEF is_in_active, rtpp_by_name
<1> QED
  BY <1>3, <1>6, <1>7, <1>8, <1>9, CopySpares DEF Unlocked
\* Both lists, as a thread meets them.
LEMMA Entries ==
  ASSUME Base
  PROVE  /\ active.n \in 0 .. Room /\ pending.n \in 0 .. Room /\ Room \in Nat
         /\ Len(Items(active) \o Items(pending)) = active.n + pending.n
         /\ \A k \in 1 .. active.n : (Items(active) \o Items(pending))[k] = active.a[k]
         /\ \A k \in 1 .. pending.n :
              (Items(active) \o Items(pending))[active.n + k] = pending.a[k]
<1> DEFINE all == Items(active) \o Items(pending)
           n == active.n
           p == pending.n
<1>1. active \in Slice /\ pending \in Slice /\ n \in 0 .. Room /\ p \in 0 .. Room /\ Room \in Nat
  BY ListsHaveRoom, SliceFacts, RoomNat
<1>2. /\ Items(active) \in Seq(Members \cup {NoMember}) /\ Len(Items(active)) = n
      /\ Items(pending) \in Seq(Members \cup {NoMember}) /\ Len(Items(pending)) = p
      /\ \A k \in 1 .. n : Items(active)[k] = active.a[k]
      /\ \A k \in 1 .. p : Items(pending)[k] = pending.a[k]
  BY <1>1, ItemsOf
<1>3. /\ Len(all) = Len(Items(active)) + Len(Items(pending))
      /\ \A k \in 1 .. Len(Items(active)) + Len(Items(pending)) :
           all[k] = IF k <= Len(Items(active)) THEN Items(active)[k]
                    ELSE Items(pending)[k - Len(Items(active))]
  BY <1>2, ConcatProperties
<1> HIDE DEF all
<1>4. \A k \in 1 .. n : k \in 1 .. n + p /\ k <= n
  BY <1>1
<1>5. \A k \in 1 .. p : n + k \in 1 .. n + p /\ ~ (n + k <= n) /\ (n + k) - n = k
  BY <1>1
<1>6. \A k \in 1 .. n : all[k] = active.a[k]
  BY <1>2, <1>3, <1>4
<1>7. \A k \in 1 .. p : all[n + k] = pending.a[k]
  BY <1>2, <1>3, <1>5
<1>8. Len(all) = n + p
  BY <1>2, <1>3
<1> QED
  BY <1>1, <1>6, <1>7, <1>8 DEF all

LEMMA BeginExpects ==
  ASSUME Base, NEW t \in Threads, NEW step \in {"scan", "copy_find", "copy_reload", "less"},
         NEW m, Begin(t, step, m)
  PROVE  Lookup(t)' /\ Reload(t)'
<1>1. /\ TypeOK /\ active.n \in 0 .. Room /\ pending.n \in 0 .. Room /\ Room \in Nat
  BY Entries DEF Base
<1>2. /\ pc'[t] = step /\ header'[t][1] = active.n /\ item'[t] = m /\ down'[t] = {}
      /\ step # "less" => header'[t][2] = pending.n /\ i'[t] = 1
      /\ active' = active /\ pending' = pending
  BY <1>1 DEF Begin, TypeOK, slices
<1>3. CASE step = "scan"
  <2>1. seen'[t] = IF m \in Listed(active) THEN <<m>> ELSE <<>>
    BY <1>1, <1>3 DEF Begin, TypeOK
  <2>2. m \in Listed(active) <=> \E k \in 1 .. active.n : active.a[k] = m
    BY DEF Listed
  <2> QED
    BY <1>1, <1>2, <1>3, <2>1, <2>2 DEF Lookup, Reload, Scan
<1>4. CASE step = "copy_find"
  <2>1. seen'[t] = IF m \in Listed(active) \cup Listed(pending) THEN <<m>> ELSE <<>>
    BY <1>1, <1>4 DEF Begin, TypeOK
  <2>2. m \in Listed(active) \cup Listed(pending) <=>
          \/ \E k \in 1 .. active.n : active.a[k] = m
          \/ \E k \in 1 .. pending.n : pending.a[k] = m
    BY DEF Listed
  <2>3. Undisturbed(t)'
    BY <1>1, <1>2, <1>4 DEF Undisturbed
  <2> QED
    BY <1>1, <1>2, <1>4, <2>1, <2>2, <2>3 DEF Lookup, Reload, Find
<1>5. CASE step = "copy_reload"
  <2>1. seen'[t] = Items(active) \o Items(pending)
    BY <1>1, <1>5 DEF Begin, TypeOK
  <2>2. Undisturbed(t)'
    BY <1>1, <1>2, <1>5 DEF Undisturbed
  <2>3. /\ Len(seen'[t]) = active.n + pending.n
        /\ \A k \in 1 .. active.n : active.a[k] = seen'[t][k]
        /\ \A k \in 1 .. pending.n : pending.a[k] = seen'[t][active.n + k]
    BY <2>1, Entries
  <2> QED
    BY <1>2, <1>5, <2>2, <2>3 DEF Lookup, Reload, Sweep
<1>6. CASE step = "less"
  BY <1>2, <1>6 DEF Lookup, Reload
<1> QED
  BY <1>3, <1>4, <1>5, <1>6

\* No look-up and no reload any more.
LEMMA NothingExpected ==
  ASSUME NEW t \in Threads, pc'[t] \in {"idle", "less", "swap", "panic"}
  PROVE  Lookup(t)' /\ Reload(t)'
BY DEF Lookup, Reload

LEMMA EndExpects ==
  ASSUME Base, NEW t \in Threads, End(t)
  PROVE  Lookup(t)' /\ Reload(t)'
<1>1. pc'[t] = "idle"
  BY DEF End, Base, TypeOK
<1> QED
  BY <1>1, NothingExpected

LEMMA ScanStep ==
  ASSUME Base, NEW t \in Threads, Lookup(t), is_in_active(t)
  PROVE  Lookup(t)' /\ Reload(t)'
<1>1. CASE ~ Advance(t)
  BY <1>1, EndExpects DEF is_in_active
<1>2. CASE Advance(t) /\ active.a[i[t]] # item[t]
  <2>1. /\ TypeOK /\ i[t] \in Nat /\ pc[t] = "scan"
    BY RoomNat DEF Base, TypeOK, is_in_active
  <2>2. /\ i'[t] = i[t] + 1
        /\ UNCHANGED <<active, pending, created, gone, pc, header, item, others, seen, down, torn>>
    BY <1>2, <2>1 DEF Advance, TypeOK, slices, members, history
  <2>3. Reload(t)'
    BY <2>1, <2>2 DEF Reload
  <2>4. ASSUME others[t] # "more"
        PROVE  Scan(t)'
    <3>1. Scan(t)
      BY <2>1, <2>4 DEF Lookup
    <3>2. \A k \in 1 .. i'[t] - 1 : k \in 1 .. i[t] - 1 \/ k = i[t]
      BY <2>1, <2>2
    <3> QED
      BY <1>2, <2>2, <3>1, <3>2 DEF Scan
  <2> QED
    BY <2>1, <2>2, <2>3, <2>4 DEF Lookup
<1>3. Advance(t) => active.a[i[t]] # item[t]
  <2>1. End(t) => ~ Advance(t)
    <3>1. pc[t] = "scan" /\ End(t) => pc'[t] = "idle"
      BY DEF End, Base, TypeOK
    <3> QED
      BY <3>1 DEF Advance, is_in_active
  <2> QED
    BY <2>1 DEF is_in_active
<1> QED
  BY <1>1, <1>2, <1>3

LEMMA FindStep ==
  ASSUME Base, NEW t \in Threads, Lookup(t), rtpp_by_name(t)
  PROVE  Lookup(t)' /\ Reload(t)'
<1>1. CASE ~ Advance(t)
  BY <1>1, EndExpects DEF rtpp_by_name
<1>2. CASE Advance(t) /\ active.a[i[t]] # item[t]
  <2>1. /\ TypeOK /\ i[t] \in Nat /\ pc[t] = "find"
    BY RoomNat DEF Base, TypeOK, rtpp_by_name
  <2>2. /\ i'[t] = i[t] + 1
        /\ UNCHANGED <<active, pending, created, gone, pc, header, item, others, seen, down, torn>>
    BY <1>2, <2>1 DEF Advance, TypeOK, slices, members, history
  <2>3. Reload(t)'
    BY <2>1, <2>2 DEF Reload
  <2>4. ASSUME others[t] = "nothing"
        PROVE  Find(t)'
    <3>1. Find(t)
      BY <2>1, <2>4 DEF Lookup
    <3>2. \A k \in 1 .. i'[t] - 1 : k \in 1 .. i[t] - 1 \/ k = i[t]
      BY <2>1, <2>2
    <3>3. Undisturbed(t)' /\ Copied(t)'
      BY <2>1, <2>2, <3>1 DEF Find, Undisturbed, Copied
    <3> QED
      BY <1>2, <2>1, <2>2, <3>1, <3>2, <3>3 DEF Find
  <2> QED
    BY <2>1, <2>2, <2>3, <2>4 DEF Lookup
<1>3. Advance(t) => active.a[i[t]] # item[t]
  <2>1. End(t) => ~ Advance(t)
    <3>1. pc[t] = "find" /\ End(t) => pc'[t] = "idle"
      BY DEF End, Base, TypeOK
    <3> QED
      BY <3>1 DEF Advance, rtpp_by_name
  <2> QED
    BY <2>1 DEF rtpp_by_name
<1> QED
  BY <1>1, <1>2, <1>3

\* A copy puts the pending members where the thread is going to read them.
LEMMA CopyExpects ==
  ASSUME Base, NEW t \in Threads, Lookup(t), Reload(t), all_members(t)
  PROVE  Lookup(t)' /\ Reload(t)'
<1>1. PICK after :
        /\ Copy(t, after) /\ pc[t] \in Copying
        /\ \/ pc[t] = "copy_find" /\ after = "find"
           \/ pc[t] = "copy_reload" /\ after = "reload"
  BY DEF all_members, Copying
<1> DEFINE h == header[t][1]
           g == header[t][2]
<1>2. /\ TypeOK /\ h \in 0 .. Room /\ g \in 0 .. Room + 2 /\ h + g <= Room /\ i[t] = 1
      /\ active.n \in 0 .. Room /\ Room \in Nat
  BY <1>1, Entries DEF Base, TypeOK, Position
<1>3. /\ active'.n = active.n /\ pending' = pending
      /\ \A k \in 1 .. Room :
           active'.a[k] = IF k \in h + 1 .. h + g THEN pending.a[k - h] ELSE active.a[k]
  BY <1>1, CopyFacts
<1>4. /\ pc'[t] = after /\ header' = header /\ i' = i /\ item' = item /\ down' = down
      /\ gone' = gone
  BY <1>1, <1>2 DEF Copy, members, TypeOK
<1>5. others'[t] = others[t] /\ seen'[t] = seen[t]
  <2>1. CASE g > 0
    <3>1. PICK what \in {"append", "more"} : Note(Elsewhere(t), what)
      BY <1>1, <2>1 DEF Copy
    <3>2. t \notin Elsewhere(t)
      BY DEF Elsewhere
    <3> QED
      BY <1>2, <3>1, <3>2 DEF Note, TypeOK
  <2>2. CASE ~ (g > 0)
    BY <1>1, <2>2 DEF Copy
  <2> QED
    BY <2>1, <2>2
<1>6. torn => torn'
  BY <1>1 DEF Copy
<1>7. \A k \in 1 .. h : active'.a[k] = active.a[k]
  BY <1>2, <1>3
<1>8. \A k \in 1 .. g : active'.a[h + k] = pending.a[k]
  <2> TAKE k \in 1 .. g
  <2>1. h + k \in 1 .. Room /\ h + k \in h + 1 .. h + g /\ (h + k) - h = k
    BY <1>2
  <2> QED
    BY <1>3, <2>1
<1>9. CASE after = "find"
  <2>1. ASSUME others[t] = "nothing"
        PROVE  Find(t)'
    <3>1. Find(t)
      BY <1>1, <1>9, <2>1 DEF Lookup
    <3>2. Undisturbed(t)' /\ Copied(t)'
      BY <1>3, <1>4, <1>8, <3>1 DEF Find, Undisturbed, Copied
    <3>3. \A k \in 1 .. i'[t] - 1 : FALSE
      BY <1>2, <1>4
    <3> QED
      BY <1>3, <1>4, <1>5, <1>7, <3>1, <3>2, <3>3 DEF Find
  <2> QED
    BY <1>4, <1>5, <1>9, <2>1 DEF Lookup, Reload
<1>10. CASE after = "reload"
  <2>1. ASSUME others[t] = "nothing", ~ torn
        PROVE  Sweep(t)'
    <3>1. Sweep(t) /\ pc[t] = "copy_reload"
      BY <1>1, <1>10, <2>1 DEF Reload
    <3>2. /\ Len(seen[t]) = h + g /\ h = active.n
          /\ \A k \in 1 .. h : active.a[k] = seen[t][k]
          /\ \A k \in 1 .. g : pending.a[k] = seen[t][h + k]
      BY <3>1 DEF Sweep, Undisturbed
    <3>3. h - active.n = 0 /\ \A k \in 1 .. h : k + 0 = k /\ k <= h
      BY <1>2, <3>2
    <3>4. /\ \A k \in 1 .. h : ~ (k < 1 + 0)
          /\ \A k \in 1 .. g : ~ (h + k < 1)
      BY <1>2
    <3>5. \A k \in 1 .. h : active'.a[k] = seen[t][IF k + 0 <= h THEN k + 0 ELSE h]
      BY <1>7, <3>2, <3>3
    <3>6. /\ h - active'.n = 0 /\ h - active'.n >= 0
      BY <1>3, <3>3
    <3>7. \A k \in 1 .. g : active'.a[h + k] = seen[t][h + k]
      BY <1>8, <3>2
    <3> QED
      BY <1>2, <1>4, <1>5, <1>10, <3>2, <3>4, <3>5, <3>6, <3>7 DEF Sweep
  <2> QED
    BY <1>4, <1>5, <1>6, <1>10, <2>1 DEF Lookup, Reload
<1> QED
  BY <1>1, <1>9, <1>10
\* The entry a reload is at was there when it began.
LEMMA SweepFacts ==
  ASSUME Base, NEW t \in Threads, Sweep(t), pc[t] = "reload"
  PROVE  LET h == header[t][1]
             g == header[t][2]
             removed == h - active.n
         IN  /\ h \in 0 .. Room /\ g \in 0 .. Room + 2 /\ h + g <= Room /\ Room \in Nat
             /\ active.n \in Nat /\ removed \in Nat /\ i[t] \in 1 .. h + g + 1
             /\ Len(seen[t]) = h + g
             /\ \A k \in 1 .. h :
                  k >= i[t] => active.a[k] = seen[t][IF k + removed <= h THEN k + removed ELSE h]
             /\ \A k \in 1 .. g : active.a[h + k] = seen[t][h + k]
             /\ \A k \in 1 .. h :
                  k < i[t] + removed /\ seen[t][k] \in Obsolete \ down[t]
                    => k > 1 /\ seen[t][k - 1] \in down[t] \cap gone
             /\ \A k \in 1 .. g :
                  h + k < i[t] /\ seen[t][h + k] \in Obsolete => seen[t][h + k] \in down[t]
<1>1. /\ header[t][1] \in 0 .. Room /\ header[t][2] \in 0 .. Room + 2
      /\ header[t][1] + header[t][2] <= Room /\ Room \in Nat /\ active.n \in Nat
      /\ i[t] \in 1 .. header[t][1] + header[t][2] + 1
  BY Entries DEF Base, TypeOK, Position, Reading
<1>2. header[t][1] - active.n >= 0
  BY DEF Sweep
<1>3. header[t][1] - active.n \in Nat
  BY <1>1, <1>2
<1> QED
  BY <1>1, <1>3 DEF Sweep

\* It passes an entry without removing it from active.
LEMMA SweepOn ==
  ASSUME Base, NEW t \in Threads, Sweep(t), pc[t] = "reload",
         i[t] <= header[t][1] + header[t][2],
         active' = active, i'[t] = i[t] + 1,
         pc'[t] = pc[t], header'[t] = header[t], seen'[t] = seen[t],
         gone \subseteq gone', down[t] \subseteq down'[t],
         active.a[i[t]] \in Obsolete => active.a[i[t]] \in down'[t]
  PROVE  Sweep(t)'
<1> DEFINE h == header[t][1]
           g == header[t][2]
           removed == h - active.n
           sn == seen[t]
           j == i[t]
           at(k) == IF k + removed <= h THEN k + removed ELSE h
<1>0. h \in Nat /\ g \in Nat /\ removed \in Nat /\ j \in 1 .. h + g
  <2>1. h \in Nat /\ g \in Nat /\ removed \in Nat /\ j \in 1 .. h + g + 1
    BY SweepFacts
  <2> QED
    BY <2>1
<1>1. /\ Len(sn) = h + g
      /\ \A k \in 1 .. h : k >= j => active.a[k] = sn[at(k)]
      /\ \A k \in 1 .. g : active.a[h + k] = sn[h + k]
      /\ \A k \in 1 .. h :
           k < j + removed /\ sn[k] \in Obsolete \ down[t]
             => k > 1 /\ sn[k - 1] \in down[t] \cap gone
      /\ \A k \in 1 .. g : h + k < j /\ sn[h + k] \in Obsolete => sn[h + k] \in down[t]
  BY SweepFacts
<1>2. \A k \in 1 .. h : k >= j + 1 => active.a[k] = sn[at(k)]
  <2>1. \A k \in 1 .. h : k >= j + 1 => k >= j
    BY <1>0
  <2> QED
    BY <1>1, <2>1
<1>3. ASSUME NEW k \in 1 .. h, k < j + 1 + removed, sn[k] \in Obsolete \ down'[t]
      PROVE  k > 1 /\ sn[k - 1] \in down'[t] \cap gone'
  <2>1. CASE k < j + removed
    BY <1>1, <1>3, <2>1
  <2>2. CASE ~ (k < j + removed)
    <3>1. j \in 1 .. h /\ j >= j /\ at(j) = k
      BY <1>0, <1>3, <2>2
    <3>2. active.a[j] = sn[k]
      BY <1>1, <3>1
    <3> QED
      BY <1>3, <3>2
  <2> QED
    BY <2>1, <2>2
<1>4. ASSUME NEW k \in 1 .. g, h + k < j + 1, sn[h + k] \in Obsolete
      PROVE  sn[h + k] \in down'[t]
  <2>1. CASE h + k < j
    BY <1>1, <1>4, <2>1
  <2>2. CASE ~ (h + k < j)
    <3>1. h + k = j
      BY <1>0, <1>4, <2>2
    <3> QED
      BY <1>1, <1>4, <3>1
  <2> QED
    BY <2>1, <2>2
<1>5. removed >= 0
  BY <1>0
<1> QED
  BY <1>1, <1>2, <1>3, <1>4, <1>5 DEF Sweep

\* It removes the entry from active, and passes the one that was behind it.
LEMMA SweepPast ==
  ASSUME Base, NEW t \in Threads, Sweep(t), pc[t] = "reload", Distinct(active),
         i[t] <= header[t][1] + header[t][2],
         NEW l \in 1 .. active.n, IsFirst(active, active.a[i[t]], l),
         active' = delete(active, l), i'[t] = i[t] + 1,
         pc'[t] = pc[t], header'[t] = header[t], seen'[t] = seen[t],
         gone' = gone \cup {active.a[i[t]]}, down'[t] = down[t] \cup {active.a[i[t]]}
  PROVE  Sweep(t)'
<1> DEFINE h == header[t][1]
           g == header[t][2]
           n == active.n
           removed == h - n
           sn == seen[t]
           j == i[t]
           at(k) == IF k + removed <= h THEN k + removed ELSE h
<1>0. /\ h \in Nat /\ g \in Nat /\ removed \in Nat /\ j \in 1 .. h + g /\ n \in Nat
      /\ h + g <= Room /\ Room \in Nat
  <2>1. /\ h \in Nat /\ g \in Nat /\ removed \in Nat /\ j \in 1 .. h + g + 1 /\ n \in Nat
        /\ h + g <= Room /\ Room \in Nat
    BY SweepFacts
  <2> QED
    BY <2>1
<1>1. /\ Len(sn) = h + g
      /\ \A k \in 1 .. h : k >= j => active.a[k] = sn[at(k)]
      /\ \A k \in 1 .. g : active.a[h + k] = sn[h + k]
      /\ \A k \in 1 .. h :
           k < j + removed /\ sn[k] \in Obsolete \ down[t]
             => k > 1 /\ sn[k - 1] \in down[t] \cap gone
      /\ \A k \in 1 .. g : h + k < j /\ sn[h + k] \in Obsolete => sn[h + k] \in down[t]
  BY SweepFacts
<1>2. /\ active'.n = n - 1
      /\ \A k \in 1 .. Room : active'.a[k] = IF l <= k /\ k < n THEN active.a[k + 1] ELSE active.a[k]
  BY ListsHaveRoom, DeleteSlice
<1>3. l \in 1 .. n /\ active.a[l] = active.a[j] /\ (j <= n => l = j)
  BY <1>0 DEF IsFirst, Distinct
<1>4. h - active'.n = removed + 1 /\ removed + 1 >= 0
  BY <1>0, <1>2
<1>5. ASSUME NEW k \in 1 .. h, k >= j + 1
      PROVE  active'.a[k] = sn[IF k + (removed + 1) <= h THEN k + (removed + 1) ELSE h]
  <2>1. k \in 1 .. Room /\ k >= j
    BY <1>0, <1>5
  <2>4. active.a[k] = sn[at(k)]
    BY <1>1, <2>1
  <2>2. CASE k < n
    <3>1. l <= k /\ k + 1 \in 1 .. h /\ k + 1 >= j /\ at(k + 1) = k + (removed + 1)
          /\ k + (removed + 1) <= h
      BY <1>0, <1>3, <1>5, <2>2
    <3> QED
      BY <1>1, <1>2, <2>1, <2>2, <3>1
  <2>3. CASE ~ (k < n)
    <3>1. at(k) = h /\ ~ (k + (removed + 1) <= h)
      BY <1>0, <2>3
    <3> QED
      BY <1>2, <2>1, <2>3, <2>4, <3>1
  <2> QED
    BY <2>2, <2>3
<1>6. ASSUME NEW k \in 1 .. g
      PROVE  active'.a[h + k] = sn[h + k]
  <2>1. h + k \in 1 .. Room /\ ~ (h + k < n)
    BY <1>0
  <2> QED
    BY <1>1, <1>2, <2>1
<1>7. ASSUME NEW k \in 1 .. h, k < j + 1 + (removed + 1), sn[k] \in Obsolete \ down'[t]
      PROVE  k > 1 /\ sn[k - 1] \in down'[t] \cap gone'
  <2>1. CASE k < j + removed
    BY <1>1, <1>7, <2>1
  <2>2. CASE k = j + removed
    <3>1. j \in 1 .. h /\ j >= j /\ at(j) = k
      BY <1>0, <2>2
    <3>2. active.a[j] = sn[k]
      BY <1>1, <3>1
    <3> QED
      BY <1>7, <3>2
  <2>3. CASE k = j + removed + 1
    <3>1. j \in 1 .. h /\ j >= j /\ at(j) = k - 1 /\ k > 1
      BY <1>0, <2>3
    <3>2. active.a[j] = sn[k - 1]
      BY <1>1, <3>1
    <3> QED
      BY <3>1, <3>2
  <2> QED
    BY <1>0, <1>7, <2>1, <2>2, <2>3
<1>8. ASSUME NEW k \in 1 .. g, h + k < j + 1, sn[h + k] \in Obsolete
      PROVE  sn[h + k] \in down'[t]
  <2>1. CASE h + k < j
    BY <1>1, <1>8, <2>1
  <2>2. CASE ~ (h + k < j)
    <3>1. h + k = j
      BY <1>0, <1>8, <2>2
    <3> QED
      BY <1>1, <3>1
  <2> QED
    BY <2>1, <2>2
<1> QED
  BY <1>1, <1>4, <1>5, <1>6, <1>7, <1>8 DEF Sweep

LEMMA ReloadExpects ==
  ASSUME Base, Exact, NEW t \in Threads, Reload(t), reload(t)
  PROVE  Lookup(t)' /\ Reload(t)'
<1> DEFINE m == active.a[i[t]]
<1>1. TypeOK /\ pc[t] = "reload"
  BY DEF Base, reload
<1>2. CASE End(t)
  BY <1>2, EndExpects
<1>3. CASE /\ i[t] <= header[t][1] + header[t][2] /\ m \notin Obsolete /\ Advance(t)
  <2>1. /\ i'[t] = i[t] + 1
        /\ UNCHANGED <<active, pending, created, gone, pc, header, item, others, seen, down, torn>>
    BY <1>1, <1>3 DEF Advance, TypeOK, slices, members, history
  <2>2. others[t] = "nothing" /\ ~ torn => Sweep(t)'
    BY <1>1, <1>3, <2>1, SweepOn DEF Reload
  <2> QED
    BY <1>1, <2>1, <2>2 DEF Lookup, Reload
<1>4. CASE /\ i[t] <= header[t][1] + header[t][2] /\ bring_down(t, m)
           /\ i' = [i EXCEPT ![t] = i[t] + 1]
           /\ down' = [down EXCEPT ![t] = IF others[t] = "nothing" THEN down[t] \cup {m} ELSE {}]
           /\ UNCHANGED <<created, pc, header, item, torn>>
  <2>1. others'[t] = others[t] /\ seen'[t] = seen[t] /\ i'[t] = i[t] + 1
    <3>1. Note(Threads \ {t}, "more") => others'[t] = others[t] /\ seen'[t] = seen[t]
      BY <1>1 DEF Note, TypeOK
    <3>2. Note(Threads \ {t}, "more") \/ UNCHANGED <<others, seen>>
      BY <1>4 DEF bring_down
    <3> QED
      BY <1>1, <1>4, <3>1, <3>2 DEF TypeOK
  <2>2. ASSUME others[t] = "nothing", ~ torn
        PROVE  Sweep(t)'
    <3>1. Sweep(t) /\ down'[t] = down[t] \cup {m} /\ Distinct(active)
      BY <1>1, <1>4, <2>2 DEF Reload, Exact, TypeOK
    <3>2. ASSUME NEW l \in 1 .. active.n, IsFirst(active, m, l), active' = delete(active, l),
                 gone' = gone \cup {m}
          PROVE  Sweep(t)'
      BY <1>1, <1>4, <2>1, <3>1, <3>2, SweepPast
    <3>3. CASE active' = active /\ gone \subseteq gone'
      BY <1>1, <1>4, <2>1, <3>1, <3>3, SweepOn
    <3>4. \/ \E l \in 1 .. active.n : /\ IsFirst(active, m, l) /\ active' = delete(active, l)
                                      /\ gone' = gone \cup {m}
          \/ active' = active /\ gone \subseteq gone'
      BY <1>4 DEF bring_down, slices
    <3> QED
      BY <3>2, <3>3, <3>4
  <2> QED
    BY <1>1, <1>4, <2>1, <2>2 DEF Lookup, Reload
<1>5. \/ End(t)
      \/ i[t] <= header[t][1] + header[t][2] /\ m \notin Obsolete /\ Advance(t)
      \/ /\ i[t] <= header[t][1] + header[t][2] /\ bring_down(t, m)
         /\ i' = [i EXCEPT ![t] = i[t] + 1]
         /\ down' = [down EXCEPT ![t] = IF others[t] = "nothing" THEN down[t] \cup {m} ELSE {}]
         /\ UNCHANGED <<created, pc, header, item, torn>>
  <2>1. header[t][1] \in Nat /\ header[t][2] \in Nat /\ i[t] \in Nat
    BY <1>1, RoomNat DEF TypeOK
  <2> QED
    BY <2>1 DEF reload
<1> QED
  BY <1>2, <1>3, <1>4, <1>5

LEMMA ExpectsStep ==
  ASSUME IInv, [Next]_vars, NEW t \in Threads
  PROVE  Lookup(t)' /\ Reload(t)'
<1>1. Base /\ Exact /\ Lookup(t) /\ Reload(t)
  BY DEF IInv
<1>2. CASE UNCHANGED vars
  <2>1. UNCHANGED <<active, pending, created, gone, pc, header, i, item, others, seen, down, torn>>
    BY <1>2 DEF vars, slices, members, local, history
  <2>2. Lookup(t)'
    BY <1>1, <2>1 DEF Lookup, Scan, Find, Undisturbed, Copied
  <2>3. Reload(t)'
    BY <1>1, <2>1 DEF Reload, Sweep, Undisturbed
  <2> QED
    BY <2>2, <2>3
<1>3. CASE Spared(t)
  BY <1>1, <1>3, SparedLookup, SparedReload
<1>4. ASSUME Unlocked(t)
      PROVE  Lookup(t)' /\ Reload(t)'
  <2>1. CASE Start(t)
    <3>1. PICK step \in {"scan", "copy_find", "copy_reload", "less"} : \E m : Begin(t, step, m)
      BY <2>1 DEF Start
    <3> QED
      BY <1>1, <3>1, BeginExpects
  <2>2. CASE SortLess(t) \/ SortSwap(t)
    <3>1. pc'[t] \in {"idle", "less", "swap", "panic"}
      BY <1>1, <2>2 DEF SortLess, SortSwap, End, Base, TypeOK
    <3> QED
      BY <3>1, NothingExpected
  <2> QED
    BY <1>1, <1>4, <2>1, <2>2, ScanStep, FindStep, CopyExpects, ReloadExpects DEF Unlocked
<1> QED
  BY <1>1, <1>2, <1>3, <1>4, LockedSpares, UnlockedSpares DEF Next

\* What the threads rely on is so in every state.
THEOREM Invariance == Spec => []IInv
<1>1. Init => IInv
  <2>1. Init => Base
    BY InitBase
  <2>2. ASSUME Init
        PROVE  Exact /\ \A t \in Threads : Lookup(t) /\ Reload(t)
    <3>1. Exact
      <4>1. active.n = 0 /\ pending.n = 0 /\ created = {} /\ gone = {}
        BY <2>2 DEF Init, Empty
      <4> QED
        BY <4>1 DEF Exact, Listed, Distinct
    <3>2. \A t \in Threads : pc[t] = "idle"
      BY <2>2 DEF Init
    <3> QED
      BY <3>1, <3>2 DEF Lookup, Reload
  <2> QED
    BY <2>1, <2>2 DEF IInv
<1>2. IInv /\ [Next]_vars => IInv'
  <2> SUFFICES ASSUME IInv, [Next]_vars
               PROVE  IInv'
    OBVIOUS
  <2>1. Base' /\ Exact'
    BY BaseStep, ExactStep DEF IInv
  <2>2. \A t \in Threads : Lookup(t)' /\ Reload(t)'
    BY ExpectsStep
  <2> QED
    BY <2>1, <2>2 DEF IInv
<1> QED
  BY <1>1, <1>2, PTL DEF Spec

\* Only the thread itself ends what it does.
LEMMA OnlyItself ==
  ASSUME Base, [Next]_vars, NEW t \in Threads, pc'[t] # pc[t]
  PROVE  Unlocked(t)
<1>1. ~ UNCHANGED vars
  BY DEF vars, local
<1>2. ~ Spared(t)
  BY DEF Spared
<1> QED
  BY <1>1, <1>2, LockedSpares, UnlockedSpares DEF Next

\* An is_in_active that begins to scan the active members finds the member if,
\* and only if, it was active then, unless more than additions were done to
\* active meanwhile; rtpp_by_name finds it if, and only if, it was listed when
\* it began, if nothing was done meanwhile.
THEOREM LookupsAreExact == Spec => CalmLookupsExact
<1>1. ASSUME IInv, [Next]_vars, NEW t \in Threads,
             pc[t] = "scan", pc'[t] = "idle", others[t] # "more"
      PROVE  i[t] <= header[t][1] <=> seen[t] = <<item[t]>>
  <2>1. Base /\ Scan(t)
    BY <1>1 DEF IInv, Lookup
  <2>2. is_in_active(t) /\ ~ Advance(t)
    <3>1. Unlocked(t)
      BY <1>1, <2>1, OnlyItself
    <3>2. ~ Advance(t)
      BY <1>1 DEF Advance
    <3> QED
      BY <1>1, <3>1, <3>2 DEF Unlocked, Start, Begin, all_members, rtpp_by_name, reload,
                             SortLess, SortSwap
  <2>3. i[t] > header[t][1] \/ active.a[i[t]] = item[t]
    BY <2>2 DEF is_in_active
  <2>4. i[t] \in 1 .. header[t][1] + 1 /\ header[t][1] \in Nat
    BY <1>1, <2>1, RoomNat DEF Base, Position, Scanning, TypeOK
  <2>5. CASE i[t] <= header[t][1]
    <3>1. i[t] \in 1 .. header[t][1] /\ active.a[i[t]] = item[t]
      BY <2>3, <2>4, <2>5
    <3> QED
      BY <2>1, <2>5, <3>1 DEF Scan
  <2>6. CASE ~ (i[t] <= header[t][1])
    <3>1. \A k \in 1 .. header[t][1] : k \in 1 .. i[t] - 1
      BY <2>4, <2>6
    <3>2. seen[t] = <<>>
      BY <2>1, <3>1 DEF Scan
    <3> QED
      BY <2>6, <3>2
  <2> QED
    BY <2>5, <2>6
<1>2. ASSUME IInv, [Next]_vars, NEW t \in Threads,
             pc[t] = "find", pc'[t] = "idle", others[t] = "nothing"
      PROVE  i[t] <= header[t][1] + header[t][2] <=> seen[t] = <<item[t]>>
  <2> DEFINE h == header[t][1]
             g == header[t][2]
  <2>1. Base /\ Find(t)
    BY <1>2 DEF IInv, Lookup
  <2>2. rtpp_by_name(t) /\ ~ Advance(t)
    <3>1. Unlocked(t)
      BY <1>2, <2>1, OnlyItself
    <3>2. ~ Advance(t)
      BY <1>2 DEF Advance
    <3> QED
      BY <1>2, <3>1, <3>2 DEF Unlocked, Start, Begin, all_members, is_in_active, reload,
                             SortLess, SortSwap
  <2>3. i[t] > h + g \/ active.a[i[t]] = item[t]
    BY <2>2 DEF rtpp_by_name
  <2>4. i[t] \in 1 .. h + g + 1 /\ h \in Nat /\ g \in Nat
    BY <1>2, <2>1, RoomNat DEF Base, Position, Reading, TypeOK
  <2>5. /\ \A k \in 1 .. g : active.a[h + k] = pending.a[k]
        /\ \A k \in 1 .. i[t] - 1 : active.a[k] # item[t]
        /\ seen[t] = IF \/ \E k \in 1 .. h : active.a[k] = item[t]
                        \/ \E k \in 1 .. g : pending.a[k] = item[t]
                       THEN <<item[t]>> ELSE <<>>
    BY <1>2, <2>1 DEF Find, Copied
  <2>6. CASE i[t] <= h + g
    <3>1. active.a[i[t]] = item[t] /\ (i[t] \in 1 .. h \/ i[t] - h \in 1 .. g)
      BY <2>3, <2>4, <2>6
    <3>2. h + (i[t] - h) = i[t]
      BY <2>4
    <3>3. i[t] - h \in 1 .. g => pending.a[i[t] - h] = item[t]
      BY <2>5, <3>1, <3>2
    <3> QED
      BY <2>5, <2>6, <3>1, <3>3
  <2>7. CASE ~ (i[t] <= h + g)
    <3>1. /\ \A k \in 1 .. h : k \in 1 .. i[t] - 1
          /\ \A k \in 1 .. g : h + k \in 1 .. i[t] - 1
      BY <2>4, <2>7
    <3>2. seen[t] = <<>>
      BY <2>5, <3>1
    <3> QED
      BY <2>7, <3>2
  <2> QED
    BY <2>6, <2>7
<1>3. ASSUME IInv, [Next]_vars
      PROVE  [\A t \in Threads :
                /\ pc[t] = "scan" /\ pc'[t] = "idle" /\ others[t] # "more" =>
                     (i[t] <= header[t][1] <=> seen[t] = <<item[t]>>)
                /\ pc[t] = "find" /\ pc'[t] = "idle" /\ others[t] = "nothing" =>
                     (i[t] <= header[t][1] + header[t][2] <=> seen[t] = <<item[t]>>)]_vars
  BY <1>1, <1>2, <1>3, Zenon
<1> QED
  BY <1>3, Invariance, PTL DEF Spec, CalmLookupsExact

\* A reload that nobody disturbs misses an obsolete member only behind one that
\* it took out.
THEOREM ReloadsSkip == Spec => SkippedBehindRemoved
<1>1. ASSUME IInv, [Next]_vars, NEW t \in Threads,
             pc[t] = "reload", pc'[t] = "idle", others[t] = "nothing", ~ torn,
             NEW k \in DOMAIN seen[t], seen[t][k] \in Obsolete \ down[t]
      PROVE  k \in 2 .. header[t][1] /\ seen[t][k - 1] \in down[t] \cap gone
  <2> DEFINE h == header[t][1]
             g == header[t][2]
             removed == h - active.n
  <2>1. Base /\ Sweep(t)
    BY <1>1 DEF IInv, Reload
  <2>2. reload(t) /\ pc' # pc
    <3>1. Unlocked(t)
      BY <1>1, <2>1, OnlyItself
    <3> QED
      BY <1>1, <3>1 DEF Unlocked, Start, Begin, all_members, is_in_active, rtpp_by_name,
                        SortLess, SortSwap
  <2>3. i[t] > h + g
    BY <2>2 DEF reload, Advance
  <2>4. /\ h \in Nat /\ g \in Nat /\ removed \in Nat /\ i[t] \in Nat /\ Len(seen[t]) = h + g
        /\ \A l \in 1 .. h :
             l < i[t] + removed /\ seen[t][l] \in Obsolete \ down[t]
               => l > 1 /\ seen[t][l - 1] \in down[t] \cap gone
        /\ \A l \in 1 .. g : h + l < i[t] /\ seen[t][h + l] \in Obsolete => seen[t][h + l] \in down[t]
    <3>1. pc[t] = "reload"
      BY <1>1
    <3>2. /\ h \in 0 .. Room /\ g \in 0 .. Room + 2 /\ Room \in Nat /\ removed \in Nat
          /\ i[t] \in 1 .. h + g + 1 /\ Len(seen[t]) = h + g
      BY <2>1, <3>1, SweepFacts, Zenon
    <3>3. /\ h \in Nat /\ g \in Nat
      <4> HIDE DEF h, g
      <4> QED
        BY <3>2
    <3>4. i[t] \in Nat
      <4> HIDE DEF h, g
      <4> QED
        BY <3>2, <3>3
    <3>5. \A l \in 1 .. h :
             l < i[t] + removed /\ seen[t][l] \in Obsolete \ down[t]
               => l > 1 /\ seen[t][l - 1] \in down[t] \cap gone
      BY <2>1, <3>1, SweepFacts, Zenon
    <3>6. \A l \in 1 .. g : h + l < i[t] /\ seen[t][h + l] \in Obsolete => seen[t][h + l] \in down[t]
      BY <2>1, <3>1, SweepFacts, Zenon
    <3> QED
      BY <3>2, <3>3, <3>4, <3>5, <3>6, Zenon
  <2>5. k \in 1 .. h + g
    <3>1. seen[t] \in Seq(Members \cup {NoMember})
      BY <2>1 DEF Base, TypeOK
    <3> QED
      BY <1>1, <2>4, <3>1, LenProperties
  <2>6. CASE k <= h
    <3>1. k \in 1 .. h /\ k < i[t] + removed
      BY <2>3, <2>4, <2>5, <2>6
    <3>2. k > 1 /\ seen[t][k - 1] \in down[t] \cap gone
      BY <1>1, <2>4, <3>1
    <3> QED
      BY <2>4, <3>1, <3>2
  <2>7. CASE k > h
    <3>1. h \in Nat /\ g \in Nat /\ i[t] \in Nat
      BY <2>4
    <3>2. k - h \in 1 .. g /\ h + (k - h) = k /\ h + (k - h) < i[t]
      BY <2>3, <2>5, <2>7, <3>1
    <3> QED
      BY <1>1, <2>4, <3>2
  <2> QED
    BY <2>4, <2>5, <2>6, <2>7
<1>2. ASSUME IInv, [Next]_vars
      PROVE  [\A t \in Threads :
                pc[t] = "reload" /\ pc'[t] = "idle" /\ others[t] = "nothing" /\ ~ torn =>
                  \A k \in DOMAIN seen[t] :
                    seen[t][k] \in Obsolete \ down[t]
                      => /\ k \in 2 .. header[t][1]
                         /\ seen[t][k - 1] \in down[t] \cap gone]_vars
  BY <1>1, <1>2, Zenon
<1> QED
  BY <1>2, Invariance, PTL DEF Spec, SkippedBehindRemoved
=============================================================================
