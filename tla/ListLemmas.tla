----------------------------- MODULE ListLemmas -----------------------------
(***************************************************************************)
(* What the list operations of Cluster do to the set of members in a list  *)
(* in which no member occurs twice.                                        *)
(***************************************************************************)
EXTENDS SequencesExt, SequenceTheorems, FiniteSetTheorems, TLAPS

\* Appending an element that is not in the list adds it, once.
LEMMA AppendInjective2 ==
  ASSUME NEW S, NEW s \in Seq(S), NEW e \in S, IsInjective(s), e \notin ToSet(s)
  PROVE  /\ Append(s, e) \in Seq(S)
         /\ IsInjective(Append(s, e))
         /\ ToSet(Append(s, e)) = ToSet(s) \cup {e}
<1> DEFINE t == Append(s, e)
<1>1. /\ t \in Seq(S) /\ Len(t) = Len(s) + 1
      /\ \A i \in 1 .. Len(s) : t[i] = s[i]
      /\ t[Len(s) + 1] = e
  BY AppendProperties
<1>2. DOMAIN t = 1 .. Len(s) + 1 /\ DOMAIN s = 1 .. Len(s)
  BY <1>1, LenProperties
<1>3. \A i \in 1 .. Len(s) : s[i] # e
  BY <1>2 DEF ToSet
<1> HIDE DEF t
<1>4. IsInjective(t)
  BY <1>1, <1>2, <1>3, LenProperties DEF IsInjective
<1>5. ToSet(t) = ToSet(s) \cup {e}
  BY <1>1, <1>2, LenProperties DEF ToSet
<1> QED
  BY <1>1, <1>4, <1>5 DEF t

\* The length of what follows the place i of a list of length n.
LEMMA RestLength ==
  ASSUME NEW n \in Nat, NEW i \in 1 .. n, NEW k,
         k = IF i + 1 <= n THEN n - (i + 1) + 1 ELSE 0
  PROVE  k = n - i
OBVIOUS

\* RemoveFirst takes out the one place where the element is.
LEMMA RemoveFirstInjective ==
  ASSUME NEW S, NEW s \in Seq(S), NEW e, IsInjective(s)
  PROVE  /\ RemoveFirst(s, e) \in Seq(S)
         /\ IsInjective(RemoveFirst(s, e))
         /\ ToSet(RemoveFirst(s, e)) = ToSet(s) \ {e}
<1>0. DOMAIN s = 1 .. Len(s) /\ Len(s) \in Nat
  BY LenProperties
<1>1. CASE ~ \E i \in 1 .. Len(s) : s[i] = e
  <2>1. RemoveFirst(s, e) = s
    BY <1>1 DEF RemoveFirst
  <2>2. e \notin ToSet(s)
    BY <1>0, <1>1 DEF ToSet
  <2> QED
    BY <2>1, <2>2
<1>2. ASSUME NEW i \in 1 .. Len(s), s[i] = e
      PROVE  /\ RemoveFirst(s, e) \in Seq(S)
             /\ IsInjective(RemoveFirst(s, e))
             /\ ToSet(RemoveFirst(s, e)) = ToSet(s) \ {e}
  <2> DEFINE l == SubSeq(s, 1, i - 1)
             r == SubSeq(s, i + 1, Len(s))
             t == l \o r
  <2>1. {j \in 1 .. Len(s) : s[j] = e} = {i}
    BY <1>0, <1>2 DEF IsInjective
  <2>2. Min({i}) = i
    BY <1>0 DEF Min
  <2>3. RemoveFirst(s, e) = t
    BY <1>2, <2>1, <2>2 DEF RemoveFirst, SelectInSeq, RemoveAt
  <2>4. /\ l \in Seq(S) /\ Len(l) = i - 1
        /\ \A j \in 1 .. i - 1 : l[j] = s[j]
    BY <1>0, SubSeqProperties
  <2>5. /\ r \in Seq(S) /\ Len(r) = Len(s) - i
        /\ \A j \in 1 .. Len(s) - i : r[j] = s[i + j]
    <3>1. SubSeq(s, i + 1, Len(s)) \in Seq(S)
      BY <1>0, SubSeqProperties
    <3>2. Len(r) = IF i + 1 <= Len(s) THEN Len(s) - (i + 1) + 1 ELSE 0
      <4>1. \A k \in i + 1 .. Len(s) : s[k] \in S
        BY <1>0
      <4> QED
        BY <1>0, <4>1, SubSeqProperties
    <3>3. \A j \in 1 .. Len(s) - i : r[j] = s[(i + 1) + j - 1]
      BY <1>0, SubSeqProperties
    <3>4. \A j \in 1 .. Len(s) - i : (i + 1) + j - 1 = i + j
      BY <1>0
    <3>5. Len(r) = Len(s) - i
      BY <1>0, <3>2, RestLength
    <3> QED
      BY <3>1, <3>3, <3>4, <3>5
  <2> HIDE DEF l, r
  <2>6. t \in Seq(S) /\ Len(t) = Len(s) - 1
    <3>1. t \in Seq(S) /\ Len(t) = Len(l) + Len(r)
      BY <2>4, <2>5, ConcatProperties
    <3> QED
      BY <1>0, <2>4, <2>5, <3>1
  <2>7. DOMAIN t = 1 .. Len(s) - 1
    BY <2>6, LenProperties
  <2>8. \A j \in 1 .. Len(s) - 1 : t[j] = IF j < i THEN s[j] ELSE s[j + 1]
    <3> TAKE j \in 1 .. Len(s) - 1
    <3>1. t[j] = IF j <= Len(l) THEN l[j] ELSE r[j - Len(l)]
      BY <1>0, <2>4, <2>5, ConcatProperties
    <3>2. CASE j < i
      BY <1>0, <2>4, <3>1, <3>2
    <3>3. CASE j >= i
      BY <1>0, <2>4, <2>5, <3>1, <3>3
    <3>4. j < i \/ j >= i
      BY <1>0
    <3> QED
      BY <3>2, <3>3, <3>4
  <2> HIDE DEF t
  <2>9. IsInjective(t)
    <3> SUFFICES ASSUME NEW a \in 1 .. Len(s) - 1, NEW b \in 1 .. Len(s) - 1,
                        t[a] = t[b]
                 PROVE  a = b
      BY <2>7 DEF IsInjective
    <3>1. \A j, k \in 1 .. Len(s) : s[j] = s[k] => j = k
      BY <1>0 DEF IsInjective
    <3>2. CASE a < i /\ b < i
      BY <1>0, <2>8, <3>1, <3>2
    <3>3. CASE a < i /\ b >= i
      BY <1>0, <2>8, <3>1, <3>3
    <3>4. CASE a >= i /\ b < i
      BY <1>0, <2>8, <3>1, <3>4
    <3>5. CASE a >= i /\ b >= i
      BY <1>0, <2>8, <3>1, <3>5
    <3> QED
      BY <1>0, <3>2, <3>3, <3>4, <3>5
  <2>10. ToSet(t) \subseteq ToSet(s) \ {e}
    BY <1>0, <1>2, <2>7, <2>8 DEF ToSet, IsInjective
  <2>11. ToSet(s) \ {e} \subseteq ToSet(t)
    <3> SUFFICES ASSUME NEW k \in 1 .. Len(s), k # i PROVE s[k] \in ToSet(t)
      BY <1>0, <1>2 DEF ToSet
    <3>1. CASE k < i
      BY <1>0, <2>7, <2>8, <3>1 DEF ToSet
    <3>2. CASE k > i
      <4>1. k - 1 \in 1 .. Len(s) - 1 /\ t[k - 1] = s[k]
        BY <1>0, <2>8, <3>2
      <4> QED
        BY <2>7, <4>1 DEF ToSet
    <3> QED
      BY <1>0, <3>1, <3>2
  <2> QED
    BY <2>3, <2>6, <2>9, <2>10, <2>11
<1> QED
  BY <1>1, <1>2

\* A set of numbers that is not empty has a least one.
LEMMA LeastNumber ==
  ASSUME NEW S \in SUBSET Nat, S # {}
  PROVE  Min(S) \in S /\ \A n \in S : Min(S) <= n
<1> DEFINE below == {0 .. n : n \in S}
<1>1. below \subseteq FiniteSubsetsOf(Nat) /\ below # {}
  <2>1. \A n \in S : 0 .. n \in SUBSET Nat /\ IsFiniteSet(0 .. n)
    BY FS_Interval
  <2> QED
    BY <2>1 DEF FiniteSubsetsOf
<1>2. PICK b \in below : \A c \in below : <<c, b>> \notin StrictSubsetOrdering(Nat)
  <2> HIDE DEF below
  <2> QED
    BY <1>1, FS_StrictSubsetOrderingWellFounded, WFMin
<1>3. PICK k \in S : b = 0 .. k
  OBVIOUS
<1>4. \A n \in S : k <= n
  <2> SUFFICES ASSUME NEW n \in S, n < k PROVE FALSE
    OBVIOUS
  <2>1. 0 .. n \in below /\ 0 .. n \in SUBSET Nat /\ 0 .. k \in SUBSET Nat
    OBVIOUS
  <2>2. 0 .. n \subseteq 0 .. k /\ k \in 0 .. k /\ k \notin 0 .. n
    OBVIOUS
  <2> QED
    BY <1>2, <1>3, <2>1, <2>2 DEF StrictSubsetOrdering
<1> QED
  BY <1>4 DEF Min

\* A list is its first element and the rest, which does not have it again if
\* the list has no duplicates.
LEMMA FirstAndRest ==
  ASSUME NEW S, NEW s \in Seq(S), s # <<>>
  PROVE  /\ Head(s) \in S /\ Tail(s) \in Seq(S)
         /\ ToSet(s) = {Head(s)} \cup ToSet(Tail(s))
         /\ IsInjective(s) => IsInjective(Tail(s)) /\ Head(s) \notin ToSet(Tail(s))
<1> DEFINE t == Tail(s)
<1>1. /\ Head(s) \in S /\ Head(s) = s[1] /\ t \in Seq(S)
      /\ Len(t) = Len(s) - 1 /\ \A i \in 1 .. Len(t) : t[i] = s[i + 1]
  BY HeadTailProperties
<1>2. Len(s) \in Nat \ {0} /\ DOMAIN s = 1 .. Len(s) /\ DOMAIN t = 1 .. Len(s) - 1
  BY <1>1, LenProperties, EmptySeq
<1> HIDE DEF t
<1>3. ToSet(s) \subseteq {s[1]} \cup ToSet(t)
  <2> SUFFICES ASSUME NEW i \in 1 .. Len(s), i # 1 PROVE s[i] \in ToSet(t)
    BY <1>2 DEF ToSet
  <2>1. i - 1 \in 1 .. Len(s) - 1 /\ t[i - 1] = s[i]
    BY <1>1, <1>2
  <2> QED
    BY <1>2, <2>1 DEF ToSet
<1>4. {s[1]} \cup ToSet(t) \subseteq ToSet(s)
  <2>1. \A i \in DOMAIN t : i + 1 \in DOMAIN s /\ t[i] = s[i + 1]
    BY <1>1, <1>2
  <2>2. 1 \in DOMAIN s
    BY <1>2
  <2> QED
    BY <2>1, <2>2 DEF ToSet
<1>5. IsInjective(s) => IsInjective(t) /\ s[1] \notin ToSet(t)
  <2> SUFFICES ASSUME \A i, j \in 1 .. Len(s) : s[i] = s[j] => i = j
               PROVE  IsInjective(t) /\ s[1] \notin ToSet(t)
    BY <1>2 DEF IsInjective
  <2>1. \A i \in 1 .. Len(s) - 1 : i + 1 \in 1 .. Len(s) /\ t[i] = s[i + 1]
    BY <1>1, <1>2
  <2>2. \A i \in 1 .. Len(s) - 1 : s[1] # t[i]
    BY <1>2, <2>1
  <2>3. \A i, j \in 1 .. Len(s) - 1 : t[i] = t[j] => i = j
    <3> TAKE i, j \in 1 .. Len(s) - 1
    <3>1. t[i] = t[j] => i + 1 = j + 1
      BY <2>1
    <3> QED
      BY <3>1
  <2> QED
    BY <1>2, <2>2, <2>3 DEF IsInjective, ToSet
<1> QED
  BY <1>1, <1>3, <1>4, <1>5 DEF t
=============================================================================
