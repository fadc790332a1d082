--------------------------- MODULE RotationFacts ----------------------------
(***************************************************************************)
(* What rotation keeps, for every finite set of rows and every policy with *)
(* counts that are not negative.  The two lemmas the rest of the project   *)
(* cites are KeepAntitone (a row kept among many is kept among fewer) and  *)
(* KeepStable (removing rows that are not kept changes nothing).           *)
(***************************************************************************)
EXTENDS Rotation, FiniteSetTheorems, TLAPS

\* A finite set of numbers that is not empty has a largest element (used for
\* the keys of one bucket dictionary).
LEMMA FiniteMax ==
    ASSUME NEW D, D \subseteq Nat, IsFiniteSet(D), D # {}
    PROVE  \E m \in D : \A n \in D : ~(n > m)
<1> DEFINE Above(x) == {y \in D : y > x}
           T == {Above(x) : x \in D}
<1>1. T \subseteq FiniteSubsetsOf(D)
  BY FS_Subset DEF FiniteSubsetsOf
<1>2. T # {}
  OBVIOUS
<1>3. IsWellFoundedOn(StrictSubsetOrdering(D), FiniteSubsetsOf(D))
  BY FS_StrictSubsetOrderingWellFounded
<1>4. PICK A \in T : \A B \in T : ~(<<B, A>> \in StrictSubsetOrdering(D))
  <2> HIDE DEF T
  <2> QED BY <1>1, <1>2, <1>3, WFMin
<1>5. PICK m \in D : A = Above(m)
  OBVIOUS
<1>6. ASSUME NEW n \in D, n > m
      PROVE  FALSE
  <2>1. Above(n) \subseteq Above(m)
    <3> SUFFICES ASSUME NEW y \in D, y > n
                 PROVE  y > m
      OBVIOUS
    <3>1. y \in Nat /\ n \in Nat /\ m \in Nat
      OBVIOUS
    <3> HIDE DEF T, Above
    <3> QED BY <1>6, <3>1
  <2>2. n \in Above(m) /\ n \notin Above(n)
    BY <1>6
  <2>3. <<Above(n), Above(m)>> \in StrictSubsetOrdering(D)
    BY <2>1, <2>2 DEF StrictSubsetOrdering
  <2> QED BY <1>4, <1>5, <2>3
<1> QED BY <1>6

\* Newer is a strict total order on artifacts.
LEMMA NewerOrder ==
    ASSUME NEW a \in Artifact, NEW b \in Artifact, NEW c \in Artifact
    PROVE  /\ ~Newer(a, a)
           /\ Newer(a, b) => ~Newer(b, a)
           /\ Newer(a, b) /\ Newer(b, c) => Newer(a, c)
           /\ a = b \/ Newer(a, b) \/ Newer(b, a)
<1>1. /\ a.at \in Nat /\ b.at \in Nat /\ c.at \in Nat
      /\ a.id \in Nat /\ b.id \in Nat /\ c.id \in Nat
  BY CalendarAssumption DEF Artifact
<1>2. a.at = b.at /\ a.id = b.id => a = b
  BY DEF Artifact
<1> QED BY <1>1, <1>2 DEF Newer

\* A finite set of artifacts that is not empty has a newest element (the head
\* of a bucket's list).
LEMMA FiniteNewest ==
    ASSUME NEW D, D \subseteq Artifact, IsFiniteSet(D), D # {}
    PROVE  \E m \in D : \A n \in D : ~Newer(n, m)
<1> DEFINE Above(x) == {y \in D : Newer(y, x)}
           T == {Above(x) : x \in D}
<1>1. T \subseteq FiniteSubsetsOf(D)
  BY FS_Subset DEF FiniteSubsetsOf
<1>2. T # {}
  OBVIOUS
<1>3. IsWellFoundedOn(StrictSubsetOrdering(D), FiniteSubsetsOf(D))
  BY FS_StrictSubsetOrderingWellFounded
<1>4. PICK A \in T : \A B \in T : ~(<<B, A>> \in StrictSubsetOrdering(D))
  <2> HIDE DEF T
  <2> QED BY <1>1, <1>2, <1>3, WFMin
<1>5. PICK m \in D : A = Above(m)
  OBVIOUS
<1>6. ASSUME NEW n \in D, Newer(n, m)
      PROVE  FALSE
  <2>1. Above(n) \subseteq Above(m)
    BY <1>6, NewerOrder
  <2>2. n \in Above(m) /\ n \notin Above(n)
    BY <1>6, NewerOrder
  <2>3. <<Above(n), Above(m)>> \in StrictSubsetOrdering(D)
    BY <2>1, <2>2 DEF StrictSubsetOrdering
  <2> QED BY <1>4, <1>5, <2>3
<1> QED BY <1>6

\* The keys of a finite set of rows are finitely many numbers.
LEMMA KeysFinite ==
    ASSUME NEW g \in Grans, NEW S, S \subseteq Artifact, IsFiniteSet(S)
    PROVE  /\ IsFiniteSet(Keys(g, S))
           /\ Keys(g, S) \subseteq Nat
<1>3. Keys(g, S) \subseteq Nat
  <2> SUFFICES ASSUME NEW a \in S
               PROVE  BucketOf[g][a.at] \in Nat
    BY DEF Keys
  <2>1. a.at \in Times
    BY DEF Artifact
  <2> QED BY <2>1, CalendarAssumption
<1> DEFINE f == [a \in S |-> BucketOf[g][a.at]]
<1>1. f \in Surjection(S, Keys(g, S))
  BY DEF Surjection, Keys
<1>2. IsFiniteSet(Keys(g, S))
  <2> HIDE DEF f
  <2> QED BY <1>1, FS_Surjection
<1> QED BY <1>2, <1>3

\* With a count that is not negative, a key leads the list iff fewer than n
\* keys are larger, and it still leads the list of a subset.
LEMMA TopKeysAntitone ==
    ASSUME NEW K, NEW L, K \subseteq L, L \subseteq Nat, IsFiniteSet(L),
           NEW n \in Nat, NEW k \in K, k \in TopKeys(L, n)
    PROVE  k \in TopKeys(K, n)
<1>1. /\ IsFiniteSet(Later(L, k))
      /\ Later(K, k) \in SUBSET Later(L, k)
  BY FS_Subset DEF Later
<1>2. Cardinality(Later(K, k)) <= Cardinality(Later(L, k))
  BY <1>1, FS_Subset
<1>3. Cardinality(Later(K, k)) \in Nat /\ Cardinality(Later(L, k)) \in Nat
  BY <1>1, FS_Subset, FS_CardinalityType
<1>4. Cardinality(Later(L, k)) < n
  BY DEF TopKeys
<1> QED BY <1>2, <1>3, <1>4 DEF TopKeys

\* A row rotation keeps among T it also keeps among fewer rows.
LEMMA KeepAntitone ==
    ASSUME NEW T, T \subseteq Artifact, IsFiniteSet(T),
           NEW S, S \subseteq T, NEW p, NonNegative(p),
           NEW a \in S, a \in Keep(p, T)
    PROVE  a \in Keep(p, S)
<1>1. PICK g \in Grans : a \in KeepFromBucket(g, p.keep[g], T)
  BY DEF Keep
<1>2. Keys(g, S) \subseteq Keys(g, T) /\ BucketOf[g][a.at] \in Keys(g, S)
  BY DEF Keys
<1>3. BucketOf[g][a.at] \in TopKeys(Keys(g, S), p.keep[g])
  BY <1>1, <1>2, KeysFinite, TopKeysAntitone DEF KeepFromBucket, NonNegative
<1>4. NewestInBucket(g, a, S)
  BY <1>1 DEF KeepFromBucket, NewestInBucket
<1> QED BY <1>3, <1>4 DEF Keep, KeepFromBucket

\* The newest row of a bucket that leads its granularity's list is kept.
LEMMA BucketLeaderKept ==
    ASSUME NEW T, T \subseteq Artifact, IsFiniteSet(T), NEW p, NEW g \in Grans,
           NEW k, k \in TopKeys(Keys(g, T), p.keep[g])
    PROVE  \E a \in Keep(p, T) : BucketOf[g][a.at] = k
<1> DEFINE D == {a \in T : BucketOf[g][a.at] = k}
<1>1. D # {}
  BY DEF TopKeys, Keys
<1>2. D \subseteq Artifact /\ IsFiniteSet(D)
  BY FS_Subset
<1>3. PICK m \in D : \A b \in D : ~Newer(b, m)
  <2> HIDE DEF D
  <2> QED BY <1>1, <1>2, FiniteNewest
<1>4. NewestInBucket(g, m, T)
  BY <1>3 DEF NewestInBucket
<1>5. m \in Keep(p, T)
  BY <1>4 DEF Keep, KeepFromBucket
<1> QED BY <1>5

\* Once everything that was not kept is gone, or any part of it, rotation keeps
\* exactly the same rows: a second rotation never deletes more.
LEMMA KeepStable ==
    ASSUME NEW T, T \subseteq Artifact, IsFiniteSet(T),
           NEW p, NonNegative(p),
           NEW S, S \subseteq T, Keep(p, T) \subseteq S
    PROVE  Keep(p, S) = Keep(p, T)
<1>1. Keep(p, T) \subseteq Keep(p, S)
  BY KeepAntitone
<1>2. ASSUME NEW a \in Keep(p, S)
      PROVE  a \in Keep(p, T)
  <2>1. PICK g \in Grans : a \in KeepFromBucket(g, p.keep[g], S)
    BY <1>2 DEF Keep
  <2> DEFINE n == p.keep[g]
             key == BucketOf[g][a.at]
             LaterT == Later(Keys(g, T), key)
             LaterS == Later(Keys(g, S), key)
  <2>2. a \in S /\ a \in T /\ n \in Nat
    BY <2>1 DEF KeepFromBucket, NonNegative
  <2>3. IsFiniteSet(S)
    BY FS_Subset
  <2>4. /\ IsFiniteSet(Keys(g, T)) /\ Keys(g, T) \subseteq Nat
        /\ Keys(g, S) \subseteq Keys(g, T)
        /\ key \in Keys(g, S)
    BY <2>2, KeysFinite DEF Keys
  <2>5. /\ IsFiniteSet(LaterS) /\ IsFiniteSet(LaterT)
        /\ LaterS \subseteq LaterT /\ LaterT \subseteq Nat
    BY <2>4, FS_Subset DEF Later
  <2>6. Cardinality(LaterS) < n
    BY <2>1, <2>2 DEF KeepFromBucket, TopKeys
  <2>7. LaterT \subseteq LaterS
    <3> SUFFICES ASSUME LaterT \ LaterS # {}
                 PROVE  FALSE
      OBVIOUS
    <3>1. /\ LaterT \ LaterS \subseteq Nat
          /\ IsFiniteSet(LaterT \ LaterS)
      BY <2>5, FS_Subset
    <3>2. PICK m \in LaterT \ LaterS : \A l \in LaterT \ LaterS : ~(l > m)
      <4> HIDE DEF LaterT, LaterS
      <4> QED BY <3>1, FiniteMax
    <3>3. Later(Keys(g, T), m) \subseteq LaterS
      <4> SUFFICES ASSUME NEW l \in Keys(g, T), l > m
                   PROVE  l \in LaterS
        BY DEF Later
      <4>1. l \in Nat /\ m \in Nat /\ key \in Nat /\ m > key
        BY <2>4, <3>2 DEF Later
      <4>2. l \in LaterT
        BY <4>1 DEF Later
      <4> QED BY <3>2, <4>2
    <3>4. Cardinality(Later(Keys(g, T), m)) < n
      <4> DEFINE U == Later(Keys(g, T), m)
      <4>1. Cardinality(U) <= Cardinality(LaterS)
        BY <2>5, <3>3, FS_Subset
      <4>2. IsFiniteSet(U) /\ Cardinality(U) \in Nat /\ Cardinality(LaterS) \in Nat
        BY <2>5, <3>3, FS_Subset, FS_CardinalityType
      <4> QED BY <2>2, <2>6, <4>1, <4>2
    <3>5. m \in TopKeys(Keys(g, T), n)
      BY <2>2, <3>2, <3>4 DEF TopKeys, Later
    <3>6. PICK b \in Keep(p, T) : BucketOf[g][b.at] = m
      BY <3>5, BucketLeaderKept
    <3>7. m \in Keys(g, S)
      BY <3>6 DEF Keys
    <3> QED BY <3>2, <3>7 DEF Later
  <2>8. key \in TopKeys(Keys(g, T), n)
    <3>1. LaterT = LaterS
      BY <2>5, <2>7
    <3> QED BY <2>2, <2>4, <2>6, <3>1 DEF TopKeys
  <2>9. NewestInBucket(g, a, T)
    <3> SUFFICES ASSUME NEW b \in T, BucketOf[g][b.at] = key, Newer(b, a)
                 PROVE  FALSE
      BY DEF NewestInBucket
    <3> DEFINE D == {c \in T : BucketOf[g][c.at] = key}
    <3>1. D # {} /\ D \subseteq Artifact /\ IsFiniteSet(D)
      BY FS_Subset
    <3>2. PICK m \in D : \A c \in D : ~Newer(c, m)
      <4> HIDE DEF D
      <4> QED BY <3>1, FiniteNewest
    <3>3. NewestInBucket(g, m, T)
      BY <3>2 DEF NewestInBucket
    <3>4. m \in Keep(p, T)
      BY <2>8, <3>3 DEF Keep, KeepFromBucket
    <3>5. ~Newer(m, a)
      BY <2>1, <3>4 DEF KeepFromBucket, NewestInBucket
    <3>6. m \in Artifact /\ a \in Artifact /\ b \in Artifact
      BY <2>2
    <3>7. m = a
      BY <3>2, <3>5, <3>6, <2>2, NewerOrder
    <3> QED BY <3>2, <3>7
  <2> QED BY <2>2, <2>8, <2>9 DEF Keep, KeepFromBucket
<1> QED BY <1>1, <1>2

\* The newest row of all is kept as soon as one count is positive.
LEMMA NewestKept ==
    ASSUME NEW S, S \subseteq Artifact, NEW p \in PolicyType, KeepsSomething(p),
           NEW a \in S, \A b \in S : ~Newer(b, a)
    PROVE  a \in Keep(p, S)
<1>1. PICK g \in Grans : p.keep[g] > 0
  BY DEF KeepsSomething, Counted
<1>2. Later(Keys(g, S), BucketOf[g][a.at]) = {}
  <2> SUFFICES ASSUME NEW b \in S, BucketOf[g][b.at] > BucketOf[g][a.at]
               PROVE  FALSE
    BY DEF Keys, Later
  <2>1. /\ a.at \in Times /\ b.at \in Times
        /\ a.at \in Nat /\ b.at \in Nat
    BY CalendarAssumption DEF Artifact
  <2>2. ~(b.at > a.at)
    BY DEF Newer
  <2>3. BucketOf[g][b.at] <= BucketOf[g][a.at]
    BY <2>1, <2>2, CalendarAssumption
  <2>4. BucketOf[g][b.at] \in Nat /\ BucketOf[g][a.at] \in Nat
    BY <2>1, CalendarAssumption
  <2> QED BY <2>3, <2>4
<1>3. BucketOf[g][a.at] \in TopKeys(Keys(g, S), p.keep[g])
  <2>1. p.keep[g] \in Int
    BY DEF PolicyType
  <2>2. Cardinality(Later(Keys(g, S), BucketOf[g][a.at])) = 0
    BY <1>2, FS_EmptySet
  <2>3. BucketOf[g][a.at] \in Keys(g, S)
    BY DEF Keys
  <2> QED BY <1>1, <2>1, <2>2, <2>3 DEF TopKeys
<1>4. NewestInBucket(g, a, S)
  BY DEF NewestInBucket
<1> QED BY <1>3, <1>4 DEF Keep, KeepFromBucket
=============================================================================
