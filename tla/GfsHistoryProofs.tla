-------------------------- MODULE GfsHistoryProofs --------------------------
(***************************************************************************)
(* IncrementalIsBatch, NewestSurvives and FewUnannounced for every         *)
(* calendar, every set of series and policies and any number of backups.   *)
(* The strengthening that makes them inductive is RowsOK: the rows are     *)
(* finite, older than the clock and numbered below nextId, so that a new   *)
(* artifact is always the newest of its series.                            *)
(***************************************************************************)
EXTENDS GfsHistory, RotationFacts

RowsOK ==
    \A s \in Series :
        /\ IsFiniteSet(live[s]) /\ IsFiniteSet(Pool(s))
        /\ \A a \in live[s] \cup Pool(s) : a.id < nextId /\ a.at <= now
        /\ live[s] \subseteq Pool(s)

IInv == TypeOK /\ RowsOK /\ IncrementalIsBatch

\* What rotation marks is exactly what it does not keep (the max-age branch of
\* rotation.py:85-88 never adds anything).
LEMMA MarkedIsRest ==
    ASSUME NEW p, NEW S, NEW t
    PROVE  Marked(p, S, t) = S \ Keep(p, S)
BY DEF Marked

\* The fields of a row of any series, typed.
LEMMA RowTypes ==
    ASSUME TypeOK, NEW s \in Series
    PROVE  /\ live[s] \subseteq Artifact /\ Pool(s) \subseteq Artifact
           /\ \A a \in live[s] \cup Pool(s) : a.id \in Nat /\ a.at \in Nat
<1>1. live[s] \subseteq Artifact /\ Pool(s) \subseteq Artifact
  BY DEF TypeOK, Pool
<1>2. \A a \in Artifact : a.id \in Nat /\ a.at \in Nat
  BY CalendarAssumption DEF Artifact
<1> QED BY <1>1, <1>2

\* The empty table satisfies the invariant.
LEMMA InitIInv == Init => IInv
<1> SUFFICES ASSUME Init
             PROVE  IInv
  OBVIOUS
<1>1. TypeOK
  BY DEF Init, TypeOK
<1>2. \A s \in Series : live[s] = {} /\ base[s] = {} /\ since[s] = {} /\ Pool(s) = {}
                       /\ ~rotated[s]
  BY DEF Init, Pool
<1>3. RowsOK
  BY <1>2, FS_EmptySet DEF RowsOK
<1>4. IncrementalIsBatch
  BY <1>2 DEF IncrementalIsBatch
<1> QED BY <1>1, <1>3, <1>4 DEF IInv

\* The state after a backup of s, spelt out once for the steps below.
LEMMA BackupEffect ==
    ASSUME IInv, NEW s \in Series, Backup(s)
    PROVE  LET new == [id |-> nextId, at |-> now]
               rows == live[s] \cup {new}
           IN  /\ new \in Artifact
               /\ new \notin live[s] \cup Pool(s)
               /\ \A a \in live[s] \cup Pool(s) : Newer(new, a)
               /\ rows \subseteq Pool(s) \cup {new}
               /\ Pool(s)' = Pool(s) \cup {new}
               /\ since'[s] = since[s] \cup {new}
               /\ live'[s] = IF policy[s] = NoPolicy THEN rows
                             ELSE Keep(policy[s], rows)
<1> USE DEF IInv
<1> DEFINE new == [id |-> nextId, at |-> now]
           rows == live[s] \cup {new}
<1>1. /\ nextId \in Nat /\ now \in Times /\ now \in Nat
      /\ live[s] \subseteq Artifact /\ Pool(s) \subseteq Artifact
  BY CalendarAssumption DEF TypeOK, Pool
<1>2. new \in Artifact
  BY <1>1 DEF Artifact
<1>3. \A a \in live[s] \cup Pool(s) : a.id < nextId /\ a.at <= now
  BY DEF RowsOK
<1>4. \A a \in live[s] \cup Pool(s) : Newer(new, a)
  <2> SUFFICES ASSUME NEW a \in live[s] \cup Pool(s)
               PROVE  Newer(new, a)
    OBVIOUS
  <2>1. a.id \in Nat /\ a.at \in Nat
    BY <1>1, CalendarAssumption DEF Artifact
  <2> QED BY <1>1, <1>3, <2>1 DEF Newer
<1>5. new \notin live[s] \cup Pool(s)
  BY <1>1, <1>3
<1>6. rows \subseteq Pool(s) \cup {new}
  BY DEF RowsOK
<1>7. since'[s] = since[s] \cup {new} /\ base'[s] = base[s]
  BY DEF Backup, Succeed, TypeOK
<1>8. Pool(s)' = Pool(s) \cup {new}
  BY <1>7 DEF Pool
<1>9. live'[s] = IF policy[s] = NoPolicy THEN rows ELSE Keep(policy[s], rows)
  <2>1. live'[s] = rows \ RotatedAway(policy[s], rows)
    BY DEF Backup, Succeed, TypeOK
  <2>2. Keep(policy[s], rows) \subseteq rows
    BY DEF Keep, KeepFromBucket
  <2> QED BY <2>1, <2>2, MarkedIsRest DEF RotatedAway
<1> HIDE DEF new, rows
<1> QED BY <1>2, <1>4, <1>5, <1>6, <1>7, <1>8, <1>9 DEF new, rows

\* The state after a run of s that brought no artifact.
LEMMA WithoutFileEffect ==
    ASSUME TypeOK, NEW s \in Series, BackupWithoutFile(s)
    PROVE  /\ live'[s] = IF policy[s] = NoPolicy THEN live[s]
                         ELSE Keep(policy[s], live[s])
           /\ live'[s] \subseteq live[s]
           /\ since' = since /\ base' = base /\ policy' = policy
           /\ now' = now /\ nextId' = nextId
           /\ rotated'[s] = TRUE
           /\ \A u \in Series \ {s} : live'[u] = live[u] /\ rotated'[u] = rotated[u]
<1>1. live'[s] = live[s] \ RotatedAway(policy[s], live[s])
  BY DEF BackupWithoutFile, Succeed, TypeOK
<1>2. Keep(policy[s], live[s]) \subseteq live[s]
  BY DEF Keep, KeepFromBucket
<1>3. live'[s] = IF policy[s] = NoPolicy THEN live[s] ELSE Keep(policy[s], live[s])
  BY <1>1, <1>2, MarkedIsRest DEF RotatedAway
<1>4. /\ since' = since /\ base' = base /\ policy' = policy
      /\ now' = now /\ nextId' = nextId
      /\ rotated'[s] = TRUE
      /\ \A u \in Series \ {s} : live'[u] = live[u] /\ rotated'[u] = rotated[u]
  BY DEF BackupWithoutFile, Succeed, TypeOK
<1> QED BY <1>2, <1>3, <1>4

\* Types last: a rotation leaves rows, a backup adds one.
LEMMA TypePreserved == TypeOK /\ [Next]_vars => TypeOK'
<1> SUFFICES ASSUME TypeOK, [Next]_vars
             PROVE  TypeOK'
  OBVIOUS
<1>1. CASE UNCHANGED vars
  BY <1>1 DEF TypeOK, vars
<1>2. ASSUME NEW s \in Series, Backup(s)
      PROVE  TypeOK'
  <2> DEFINE new == [id |-> nextId, at |-> now]
             rows == live[s] \cup {new}
             away == RotatedAway(policy[s], rows)
  <2>1. new \in Artifact
    BY DEF TypeOK, Artifact
  <2>2. rows \in SUBSET Artifact /\ away \in SUBSET rows
    BY <2>1 DEF TypeOK, RotatedAway, Marked
  <2>3. nextId' \in Nat /\ now' \in Times /\ policy' = policy /\ base' = base
    BY <1>2 DEF Backup, Succeed, TypeOK
  <2>4. /\ live' = [live EXCEPT ![s] = rows \ away]
        /\ marked' = [marked EXCEPT ![s] = @ \cup away]
        /\ since' = [since EXCEPT ![s] = @ \cup {new}]
        /\ rotated' = [rotated EXCEPT ![s] = TRUE]
    BY <1>2 DEF Backup, Succeed
  <2> HIDE DEF new, rows, away
  <2>5. /\ live' \in [Series -> SUBSET Artifact]
        /\ marked' \in [Series -> SUBSET Artifact]
        /\ since' \in [Series -> SUBSET Artifact]
        /\ rotated' \in [Series -> BOOLEAN]
    BY <2>1, <2>2, <2>4 DEF TypeOK
  <2> QED BY <2>3, <2>5 DEF TypeOK
<1>5. ASSUME NEW s \in Series, BackupWithoutFile(s)
      PROVE  TypeOK'
  <2> DEFINE away == RotatedAway(policy[s], live[s] \cup {})
  <2>1. away \in SUBSET Artifact
    BY DEF TypeOK, RotatedAway, Marked
  <2>2. /\ live' = [live EXCEPT ![s] = (live[s] \cup {}) \ away]
        /\ marked' = [marked EXCEPT ![s] = @ \cup away]
        /\ since' = [since EXCEPT ![s] = @ \cup {}]
        /\ rotated' = [rotated EXCEPT ![s] = TRUE]
        /\ UNCHANGED <<now, nextId, policy, base>>
    BY <1>5 DEF BackupWithoutFile, Succeed
  <2> HIDE DEF away
  <2> QED BY <2>1, <2>2 DEF TypeOK
<1>3. ASSUME NEW s \in Series, NEW p \in Policies \cup {NoPolicy}, SetPolicy(s, p)
      PROVE  TypeOK'
  BY <1>3 DEF TypeOK, SetPolicy
<1>4. CASE Tick
  BY <1>4 DEF TypeOK, Tick
<1> QED BY <1>1, <1>2, <1>3, <1>4, <1>5 DEF Next

\* Rows stay finitely many, of the past, each with an id of its own.
LEMMA RowsPreserved == IInv /\ [Next]_vars => RowsOK'
<1> SUFFICES ASSUME IInv, [Next]_vars
             PROVE  RowsOK'
  OBVIOUS
<1> USE DEF IInv
<1>0. TypeOK' /\ now \in Nat /\ now' \in Nat /\ nextId \in Nat
  BY TypePreserved, CalendarAssumption DEF TypeOK
<1>a. ASSUME NEW u \in Series, live'[u] = live[u], base'[u] = base[u],
             since'[u] = since[u], now <= now', nextId <= nextId', nextId' \in Nat
      PROVE  /\ IsFiniteSet(live'[u]) /\ IsFiniteSet(Pool(u)')
             /\ \A a \in live'[u] \cup Pool(u)' : a.id < nextId' /\ a.at <= now'
             /\ live'[u] \subseteq Pool(u)'
  <2>1. Pool(u)' = Pool(u)
    BY <1>a DEF Pool
  <2>2. \A a \in live[u] \cup Pool(u) : a.id \in Nat /\ a.at \in Nat
    BY RowTypes
  <2> QED BY <1>0, <1>a, <2>1, <2>2 DEF RowsOK
<1>1. CASE UNCHANGED vars
  BY <1>0, <1>1, <1>a DEF vars, RowsOK
<1>2. ASSUME NEW s \in Series, Backup(s)
      PROVE  RowsOK'
  <2> DEFINE new == [id |-> nextId, at |-> now]
             rows == live[s] \cup {new}
  <2>1. /\ new \notin live[s] \cup Pool(s)
        /\ rows \subseteq Pool(s) \cup {new}
        /\ Pool(s)' = Pool(s) \cup {new}
        /\ live'[s] \subseteq rows
    BY <1>2, BackupEffect DEF Keep, KeepFromBucket
  <2>2. now' = now /\ nextId' = nextId + 1
    BY <1>2 DEF Backup, Succeed
  <2>3. IsFiniteSet(Pool(s)') /\ IsFiniteSet(live'[s])
    <3>1. IsFiniteSet(Pool(s)) /\ IsFiniteSet(live[s])
      BY DEF RowsOK
    <3>2. IsFiniteSet(Pool(s) \cup {new}) /\ IsFiniteSet(rows)
      <4> HIDE DEF new
      <4> QED BY <3>1, FS_AddElement
    <3> QED BY <2>1, <3>2, FS_Subset
  <2>4. \A a \in live'[s] \cup Pool(s)' : a.id < nextId' /\ a.at <= now'
    <3> SUFFICES ASSUME NEW a \in Pool(s) \cup {new}
                 PROVE  a.id < nextId + 1 /\ a.at <= now
      BY <2>1, <2>2
    <3>1. CASE a = new
      BY <1>0, <3>1
    <3>2. CASE a \in Pool(s)
      <4>1. a.id \in Nat /\ a.id < nextId /\ a.at <= now
        BY <3>2, RowTypes DEF RowsOK
      <4> QED BY <1>0, <4>1
    <3> QED BY <3>1, <3>2
  <2>5. live'[s] \subseteq Pool(s)'
    BY <2>1
  <2>6. \A u \in Series \ {s} : /\ live'[u] = live[u] /\ base'[u] = base[u]
                                /\ since'[u] = since[u]
    BY <1>2 DEF Backup, Succeed, TypeOK
  <2>7. nextId <= nextId' /\ now <= now' /\ nextId' \in Nat
    BY <1>0, <2>2
  <2> HIDE DEF new, rows
  <2> QED BY <1>a, <2>3, <2>4, <2>5, <2>6, <2>7 DEF RowsOK
<1>3. ASSUME NEW s \in Series, NEW p \in Policies \cup {NoPolicy}, SetPolicy(s, p)
      PROVE  RowsOK'
  <2>1. /\ now' = now /\ nextId' = nextId /\ live' = live
        /\ \A u \in Series \ {s} : base'[u] = base[u] /\ since'[u] = since[u]
        /\ base'[s] = live[s] /\ since'[s] = {}
    BY <1>3 DEF SetPolicy, TypeOK
  <2>2. Pool(s)' = live[s]
    BY <2>1 DEF Pool
  <2> QED BY <1>0, <1>a, <2>1, <2>2 DEF RowsOK
<1>4. CASE Tick
  <2>1. now <= now' /\ UNCHANGED <<nextId, live, base, since>>
    BY <1>0, <1>4 DEF Tick
  <2> QED BY <1>0, <1>a, <2>1 DEF RowsOK
<1>5. ASSUME NEW s \in Series, BackupWithoutFile(s)
      PROVE  RowsOK'
  <2>1. /\ live'[s] \subseteq live[s] /\ since' = since /\ base' = base
        /\ now' = now /\ nextId' = nextId
        /\ \A u \in Series \ {s} : live'[u] = live[u]
    BY <1>5, WithoutFileEffect
  <2>2. Pool(s)' = Pool(s)
    BY <2>1 DEF Pool
  <2>3. IsFiniteSet(live[s]) /\ IsFiniteSet(Pool(s)) /\ live[s] \subseteq Pool(s)
    BY DEF RowsOK
  <2>4. IsFiniteSet(live'[s])
    BY <2>1, <2>3, FS_Subset
  <2>5. \A a \in live'[s] \cup Pool(s)' : a.id < nextId' /\ a.at <= now'
    BY <2>1, <2>2 DEF RowsOK
  <2> QED BY <1>0, <1>a, <2>1, <2>2, <2>3, <2>4, <2>5 DEF RowsOK
<1> QED BY <1>1, <1>2, <1>3, <1>4, <1>5 DEF Next

\* A backup's rotation leaves what one rotation of the whole history would.
LEMMA BatchPreserved == IInv /\ [Next]_vars => IncrementalIsBatch'
<1> SUFFICES ASSUME IInv, [Next]_vars
             PROVE  IncrementalIsBatch'
  OBVIOUS
<1> USE DEF IInv
<1> DEFINE Good(u) == live[u] = IF policy[u] = NoPolicy \/ ~rotated[u]
                                THEN Pool(u)
                                ELSE IF NonNegative(policy[u])
                                     THEN Keep(policy[u], Pool(u))
                                     ELSE live[u]
<1>a. ASSUME NEW u \in Series, live'[u] = live[u], base'[u] = base[u],
             since'[u] = since[u], policy'[u] = policy[u], rotated'[u] = rotated[u]
      PROVE  Good(u)'
  <2>1. Pool(u)' = Pool(u)
    BY <1>a DEF Pool
  <2>2. Good(u)
    BY DEF IncrementalIsBatch
  <2>3. Keep(policy'[u], Pool(u)') = Keep(policy[u], Pool(u))
    BY <1>a, <2>1
  <2>4. NonNegative(policy'[u]) <=> NonNegative(policy[u])
    BY <1>a
  <2> QED BY <1>a, <2>1, <2>2, <2>3, <2>4
<1>1. CASE UNCHANGED vars
  BY <1>1, <1>a DEF vars, IncrementalIsBatch
<1>2. ASSUME NEW s \in Series, Backup(s)
      PROVE  IncrementalIsBatch'
  <2> DEFINE new == [id |-> nextId, at |-> now]
             rows == live[s] \cup {new}
             All == Pool(s) \cup {new}
             p == policy[s]
  <2>1. /\ new \in Artifact /\ rows \subseteq All /\ Pool(s)' = All
        /\ since'[s] = since[s] \cup {new}
        /\ live'[s] = IF p = NoPolicy THEN rows ELSE Keep(p, rows)
    BY <1>2, BackupEffect
  <2>2. policy' = policy /\ rotated'[s]
    BY <1>2, <2>1 DEF Backup, Succeed, TypeOK
  <2>3. All \subseteq Artifact /\ IsFiniteSet(All) /\ IsFiniteSet(Pool(s))
    <3>1. IsFiniteSet(Pool(s)) /\ Pool(s) \subseteq Artifact
      BY DEF RowsOK, TypeOK, Pool
    <3> HIDE DEF new
    <3> QED BY <2>1, <3>1, FS_AddElement
  <2>4. Good(s)
    BY DEF IncrementalIsBatch
  <2>6. ASSUME p # NoPolicy, NonNegative(p)
        PROVE  live'[s] = Keep(p, All)
    <3>1. Keep(p, All) \subseteq rows
      <4> SUFFICES ASSUME NEW a \in Keep(p, All), a # new
                   PROVE  a \in live[s]
        OBVIOUS
      <4>1. a \in Pool(s)
        BY DEF Keep, KeepFromBucket
      <4>2. a \in Keep(p, Pool(s))
        <5> HIDE DEF All
        <5>1. Pool(s) \subseteq All
          BY DEF All
        <5> QED BY <2>3, <2>6, <4>1, <5>1, KeepAntitone
      <4> QED BY <2>4, <2>6, <4>1, <4>2
    <3>2. Keep(p, rows) = Keep(p, All)
      <4> HIDE DEF All, rows, p
      <4> QED BY <2>1, <2>3, <2>6, <3>1, KeepStable
    <3> QED BY <2>1, <2>6, <3>2
  <2>7. Good(s)'
    <3>1. policy'[s] = p
      BY <2>2
    <3> HIDE DEF All, rows, new
    <3>2. CASE p = NoPolicy
      <4>1. live'[s] = All
        BY <2>1, <2>4, <3>2 DEF All, rows
      <4> QED BY <2>1, <3>1, <3>2, <4>1
    <3>3. CASE p # NoPolicy /\ NonNegative(p)
      BY <2>1, <2>2, <2>6, <3>1, <3>3
    <3>4. CASE p # NoPolicy /\ ~NonNegative(p)
      BY <2>2, <3>1, <3>4
    <3> QED BY <3>2, <3>3, <3>4
  <2>8. \A u \in Series \ {s} : /\ live'[u] = live[u] /\ base'[u] = base[u]
                                /\ since'[u] = since[u] /\ policy'[u] = policy[u]
                                /\ rotated'[u] = rotated[u]
    BY <1>2 DEF Backup, Succeed, TypeOK
  <2>9. \A u \in Series : Good(u)'
    BY <1>a, <2>7, <2>8
  <2> QED BY <2>9 DEF IncrementalIsBatch
<1>3. ASSUME NEW s \in Series, NEW p \in Policies \cup {NoPolicy}, SetPolicy(s, p)
      PROVE  IncrementalIsBatch'
  <2>1. /\ live' = live /\ base'[s] = live[s] /\ since'[s] = {} /\ ~rotated'[s]
        /\ \A u \in Series \ {s} : /\ base'[u] = base[u] /\ since'[u] = since[u]
                                   /\ policy'[u] = policy[u] /\ rotated'[u] = rotated[u]
    BY <1>3 DEF SetPolicy, TypeOK
  <2>2. Good(s)'
    BY <2>1 DEF Pool
  <2>3. \A u \in Series : Good(u)'
    BY <1>a, <2>1, <2>2
  <2> QED BY <2>3 DEF IncrementalIsBatch
<1>4. CASE Tick
  BY <1>4, <1>a DEF Tick, IncrementalIsBatch
<1>5. ASSUME NEW s \in Series, BackupWithoutFile(s)
      PROVE  IncrementalIsBatch'
  <2> DEFINE p == policy[s]
  <2>1. /\ live'[s] = IF p = NoPolicy THEN live[s] ELSE Keep(p, live[s])
        /\ since' = since /\ base' = base /\ policy' = policy
        /\ \A u \in Series \ {s} : live'[u] = live[u] /\ rotated'[u] = rotated[u]
    BY <1>5, WithoutFileEffect
  <2>2. Pool(s)' = Pool(s)
    BY <2>1 DEF Pool
  <2>3. Good(s)
    BY DEF IncrementalIsBatch
  <2>4. ASSUME p # NoPolicy, NonNegative(p)
        PROVE  Keep(p, live[s]) = Keep(p, Pool(s))
    <3>1. CASE ~rotated[s]
      BY <2>3, <3>1
    <3>2. CASE rotated[s]
      <4>1. live[s] = Keep(p, Pool(s))
        BY <2>3, <2>4, <3>2
      <4>2. /\ Pool(s) \subseteq Artifact /\ IsFiniteSet(Pool(s))
            /\ live[s] \subseteq Pool(s)
        BY RowTypes DEF RowsOK
      <4> HIDE DEF p
      <4> QED BY <2>4, <4>1, <4>2, KeepStable
    <3> QED BY <3>1, <3>2
  <2>5. Good(s)'
    <3>1. CASE p = NoPolicy
      BY <2>1, <2>2, <2>3, <3>1
    <3>2. CASE p # NoPolicy /\ NonNegative(p)
      <4>1. live'[s] = Keep(p, Pool(s)) /\ rotated'[s] = TRUE
        BY <1>5, <2>1, <2>4, <3>2, WithoutFileEffect
      <4> QED BY <2>1, <2>2, <3>2, <4>1
    <3>3. CASE p # NoPolicy /\ ~NonNegative(p)
      <4>1. rotated'[s] = TRUE
        BY <1>5, WithoutFileEffect
      <4> QED BY <2>1, <3>3, <4>1
    <3> QED BY <3>1, <3>2, <3>3
  <2>6. \A u \in Series \ {s} : /\ live'[u] = live[u] /\ base'[u] = base[u]
                                /\ since'[u] = since[u] /\ policy'[u] = policy[u]
                                /\ rotated'[u] = rotated[u]
    BY <2>1
  <2>7. \A u \in Series : Good(u)'
    BY <1>a, <2>5, <2>6
  <2> QED BY <2>7 DEF IncrementalIsBatch
<1> QED BY <1>1, <1>2, <1>3, <1>4, <1>5 DEF Next

\* The invariant holds in every reachable state.
LEMMA InductiveInvariant == Spec => []IInv
<1>1. IInv /\ [Next]_vars => IInv'
  BY TypePreserved, RowsPreserved, BatchPreserved DEF IInv
<1> QED BY <1>1, InitIInv, PTL DEF Spec

\* Every reachable state is well typed.
THEOREM TypeCorrect == Spec => []TypeOK
<1>1. IInv => TypeOK
  BY DEF IInv
<1> QED BY <1>1, InductiveInvariant, PTL

\* Rotating after each backup is the same as rotating once at the end, whatever
\* the calendar, the policy (with counts that are not negative) and the history.
THEOREM Batch == Spec => []IncrementalIsBatch
<1>1. IInv => IncrementalIsBatch
  BY DEF IInv
<1> QED BY <1>1, InductiveInvariant, PTL

\* The newest artifact of each of the keep_g most recent g-buckets is live.
THEOREM PromiseKept == Spec => []RecentBucketsCovered
<1>1. ASSUME IInv, NEW s \in Series, policy[s] # NoPolicy, NonNegative(policy[s]),
             NEW g \in Grans, NEW a \in Pool(s),
             Cardinality(Later(Keys(g, Pool(s)), BucketOf[g][a.at])) < policy[s].keep[g],
             NewestInBucket(g, a, Pool(s))
      PROVE  a \in live[s]
  <2>1. a \in Keep(policy[s], Pool(s))
    <3>1. BucketOf[g][a.at] \in TopKeys(Keys(g, Pool(s)), policy[s].keep[g])
      <4>1. policy[s].keep[g] >= 0
        BY <1>1 DEF NonNegative
      <4>2. BucketOf[g][a.at] \in Keys(g, Pool(s))
        BY <1>1 DEF Keys
      <4> QED BY <1>1, <4>1, <4>2 DEF TopKeys
    <3> QED BY <1>1, <3>1 DEF Keep, KeepFromBucket
  <2>2. live[s] \in {Pool(s), Keep(policy[s], Pool(s))}
    BY <1>1 DEF IInv, IncrementalIsBatch
  <2> QED BY <2>1, <2>2
<1>2. IInv => RecentBucketsCovered
  <2> SUFFICES ASSUME IInv, NEW s \in Series, policy[s] # NoPolicy,
                      NonNegative(policy[s]), NEW g \in Grans, NEW a \in Pool(s),
                      Cardinality({k \in {BucketOf[g][b.at] : b \in Pool(s)} :
                                       k > BucketOf[g][a.at]}) < policy[s].keep[g],
                      ~ \E b \in Pool(s) :
                            BucketOf[g][b.at] = BucketOf[g][a.at] /\ Newer(b, a)
               PROVE  a \in live[s]
    BY DEF RecentBucketsCovered
  <2>1. Later(Keys(g, Pool(s)), BucketOf[g][a.at])
          = {k \in {BucketOf[g][b.at] : b \in Pool(s)} : k > BucketOf[g][a.at]}
    BY DEF Later, Keys
  <2>2. NewestInBucket(g, a, Pool(s))
    BY DEF NewestInBucket
  <2> QED BY <1>1, <2>1, <2>2
<1> QED BY <1>2, InductiveInvariant, PTL

\* A successful run never rotates away its own artifact under a policy with a
\* positive count.
THEOREM NewestAlwaysSurvives == Spec => NewestSurvives
<1> DEFINE Step == \A s \in Series :
                     (since'[s] \ since[s] # {} /\
                        (policy[s] = NoPolicy \/ KeepsSomething(policy[s])))
                     => since'[s] \ since[s] \subseteq live'[s]
<1>1. IInv /\ [Next]_vars => [Step]_vars
  <2> SUFFICES ASSUME IInv, Next, NEW s \in Series,
                      since'[s] \ since[s] # {},
                      policy[s] = NoPolicy \/ KeepsSomething(policy[s])
               PROVE  since'[s] \ since[s] \subseteq live'[s]
    OBVIOUS
  <2>1. Backup(s)
    <3>1. ASSUME NEW u \in Series, u # s, Backup(u)
          PROVE  since'[s] = since[s]
      BY <3>1 DEF Backup, Succeed, IInv, TypeOK
    <3>2. ASSUME NEW u \in Series, NEW p \in Policies \cup {NoPolicy}, SetPolicy(u, p)
          PROVE  since'[s] \subseteq since[s]
      BY <3>2 DEF SetPolicy, IInv, TypeOK
    <3>3. ASSUME NEW u \in Series, BackupWithoutFile(u)
          PROVE  since'[s] = since[s]
      BY <3>3, WithoutFileEffect DEF IInv
    <3> QED BY <3>1, <3>2, <3>3 DEF Next, Tick
  <2> DEFINE new == [id |-> nextId, at |-> now]
             rows == live[s] \cup {new}
  <2>2. /\ new \in Artifact
        /\ since'[s] = since[s] \cup {new}
        /\ \A a \in live[s] : Newer(new, a)
        /\ live'[s] = IF policy[s] = NoPolicy THEN rows ELSE Keep(policy[s], rows)
    BY <2>1, BackupEffect
  <2>3. rows \subseteq Artifact
    BY <2>2 DEF IInv, TypeOK
  <2>4. \A a \in rows : ~Newer(a, new)
    <3> HIDE DEF new
    <3> QED BY <2>2, <2>3, NewerOrder
  <2>5. policy[s] # NoPolicy => policy[s] \in PolicyType
    BY PolicyAssumption DEF IInv, TypeOK
  <2>6. policy[s] # NoPolicy => new \in Keep(policy[s], rows)
    <3> HIDE DEF new
    <3> QED BY <2>3, <2>4, <2>5, NewestKept
  <2> QED BY <2>2, <2>6
<1>2. Spec => [][Step]_vars
  <2> HIDE DEF Step
  <2> QED BY <1>1, InductiveInvariant, PTL DEF Spec
<1> QED BY <1>2 DEF NewestSurvives

\* The rows of all series together are finitely many.
LEMMA AllRowsFinite ==
    ASSUME IInv
    PROVE  /\ IsFiniteSet(UNION {live[t] : t \in Series})
           /\ UNION {live[t] : t \in Series} \subseteq Artifact
<1> DEFINE f == [t \in Series |-> live[t]]
           L == {live[t] : t \in Series}
<1>1. f \in Surjection(Series, L)
  BY DEF Surjection
<1>2. IsFiniteSet(L)
  <2> HIDE DEF f, L
  <2> QED BY <1>1, PolicyAssumption, FS_Surjection
<1>3. \A T \in L : IsFiniteSet(T)
  BY DEF IInv, RowsOK
<1>4. IsFiniteSet(UNION L)
  <2> HIDE DEF L
  <2> QED BY <1>2, <1>3, FS_UNION
<1> QED BY <1>4 DEF IInv, TypeOK

\* What a new artifact pushes out of the list of granularity g: a row that was
\* kept for g before it and is not with it.
Displaced(g, n, S, new) ==
    KeepFromBucket(g, n, S) \ KeepFromBucket(g, n, S \cup {new})

\* An artifact newer than all others pushes out at most one row of a list: the
\* former head of its own bucket, or, if it opens a bucket, the head of the
\* bucket that was the n-th.
LEMMA OneDisplaced ==
    ASSUME NEW S, S \subseteq Artifact, IsFiniteSet(S),
           NEW new \in Artifact, \A a \in S : Newer(new, a),
           NEW g \in Grans, NEW n \in Nat,
           NEW a \in Displaced(g, n, S, new), NEW b \in Displaced(g, n, S, new)
    PROVE  a = b
<1> DEFINE R == S \cup {new}
           B(x) == BucketOf[g][x.at]
           K == Keys(g, S)
           M == Keys(g, R)
<1>1. /\ a \in S /\ b \in S /\ a \in Artifact /\ b \in Artifact
      /\ NewestInBucket(g, a, S) /\ NewestInBucket(g, b, S)
      /\ B(a) \in TopKeys(K, n) /\ B(b) \in TopKeys(K, n)
  BY DEF Displaced, KeepFromBucket
<1>2. B(a) = B(b) => a = b
  BY <1>1, NewerOrder DEF NewestInBucket
<1>3. /\ IsFiniteSet(K) /\ K \subseteq Nat
      /\ M = K \cup {B(new)} /\ B(new) \in Nat
      /\ B(a) \in K /\ B(b) \in K
  <2>1. M = K \cup {B(new)}
    BY DEF Keys
  <2>2. new.at \in Times
    BY DEF Artifact
  <2>3. B(new) \in Nat
    BY <2>2, CalendarAssumption
  <2> QED BY <1>1, <2>1, <2>3, KeysFinite DEF TopKeys
<1>4. \A x \in S : NewestInBucket(g, x, S) /\ B(x) # B(new) => NewestInBucket(g, x, R)
  BY DEF NewestInBucket
<1>5. ASSUME NEW x \in Displaced(g, n, S, new), B(x) # B(new)
      PROVE  /\ B(new) \notin K
             /\ Cardinality(Later(K, B(x))) = n - 1
  <2>1. x \in S /\ NewestInBucket(g, x, R) /\ B(x) \in TopKeys(K, n) /\ B(x) \in K
    BY <1>4, <1>5 DEF Displaced, KeepFromBucket, TopKeys
  <2>2. B(x) \notin TopKeys(M, n) /\ B(x) \in M
    BY <1>3, <2>1 DEF Displaced, KeepFromBucket
  <2>3. /\ Cardinality(Later(K, B(x))) < n
        /\ ~(Cardinality(Later(M, B(x))) < n)
    BY <2>1, <2>2 DEF TopKeys
  <2>4. M # K
    BY <2>3
  <2>5. Later(M, B(x)) \subseteq Later(K, B(x)) \cup {B(new)}
    BY <1>3 DEF Later
  <2>6. IsFiniteSet(Later(K, B(x)))
    BY <1>3, FS_Subset DEF Later
  <2>7. /\ IsFiniteSet(Later(K, B(x)) \cup {B(new)})
        /\ Cardinality(Later(K, B(x)) \cup {B(new)}) <= Cardinality(Later(K, B(x))) + 1
    <3> DEFINE W == Later(K, B(x))
               k == B(new)
    <3> HIDE DEF W, k
    <3>1. IsFiniteSet(W)
      BY <2>6 DEF W
    <3>2. Cardinality(W) \in Nat
      BY <3>1, FS_CardinalityType
    <3>3. /\ IsFiniteSet(W \cup {k})
          /\ Cardinality(W \cup {k}) \in {Cardinality(W), Cardinality(W) + 1}
      BY <3>1, FS_AddElement
    <3>4. Cardinality(W \cup {k}) <= Cardinality(W) + 1
      BY <3>2, <3>3
    <3> QED BY <3>3, <3>4 DEF W, k
  <2>8. /\ Cardinality(Later(M, B(x))) <= Cardinality(Later(K, B(x))) + 1
        /\ Cardinality(Later(M, B(x))) \in Nat /\ Cardinality(Later(K, B(x))) \in Nat
    <3>1. /\ IsFiniteSet(Later(M, B(x)))
          /\ Cardinality(Later(M, B(x)))
               <= Cardinality(Later(K, B(x)) \cup {B(new)})
      BY <2>5, <2>7, FS_Subset
    <3>2. /\ Cardinality(Later(M, B(x))) \in Nat
          /\ Cardinality(Later(K, B(x))) \in Nat
          /\ Cardinality(Later(K, B(x)) \cup {B(new)}) \in Nat
      BY <2>6, <2>7, <3>1, FS_CardinalityType
    <3> DEFINE c1 == Cardinality(Later(M, B(x)))
               c2 == Cardinality(Later(K, B(x)) \cup {B(new)})
               c3 == Cardinality(Later(K, B(x)))
    <3>3. c1 <= c2 /\ c2 <= c3 + 1 /\ c1 \in Nat /\ c2 \in Nat /\ c3 \in Nat
      BY <2>7, <3>1, <3>2
    <3> HIDE DEF c1, c2, c3
    <3>4. c1 <= c3 + 1 /\ c1 \in Nat /\ c3 \in Nat
      BY <3>3
    <3> QED BY <3>4 DEF c1, c3
  <2>9. Cardinality(Later(K, B(x))) = n - 1
    <3> HIDE DEF B, K, M
    <3> QED BY <2>3, <2>8
  <2> QED BY <1>3, <2>4, <2>9
<1>6. ASSUME NEW x \in Displaced(g, n, S, new), NEW y \in Displaced(g, n, S, new),
             B(x) # B(new), B(y) # B(new), B(x) < B(y)
      PROVE  FALSE
  <2>1. B(x) \in K /\ B(y) \in K
    BY DEF Displaced, KeepFromBucket, TopKeys
  <2>2. Later(K, B(y)) \cup {B(y)} \subseteq Later(K, B(x))
    BY <1>3, <1>6, <2>1 DEF Later
  <2>3. IsFiniteSet(Later(K, B(y))) /\ IsFiniteSet(Later(K, B(x)))
    BY <1>3, FS_Subset DEF Later
  <2>4. B(y) \notin Later(K, B(y))
    BY <1>3, <2>1 DEF Later
  <2>5. Cardinality(Later(K, B(y)) \cup {B(y)}) = Cardinality(Later(K, B(y))) + 1
    <3> HIDE DEF B
    <3> QED BY <2>3, <2>4, FS_AddElement
  <2>6. Cardinality(Later(K, B(y)) \cup {B(y)}) <= Cardinality(Later(K, B(x)))
    <3> HIDE DEF B
    <3> QED BY <2>2, <2>3, FS_Subset
  <2>7. Cardinality(Later(K, B(y))) = n - 1 /\ Cardinality(Later(K, B(x))) = n - 1
    BY <1>5, <1>6
  <2> QED BY <2>5, <2>6, <2>7
<1>7. ASSUME NEW x \in Displaced(g, n, S, new), NEW y \in Displaced(g, n, S, new),
             B(x) = B(new)
      PROVE  B(y) = B(new)
  <2>1. B(new) \in K
    BY <1>7 DEF Displaced, KeepFromBucket, TopKeys
  <2> QED BY <1>5, <2>1
<1>8. CASE B(a) = B(new) \/ B(b) = B(new)
  BY <1>2, <1>7, <1>8
<1>9. CASE B(a) # B(new) /\ B(b) # B(new)
  <2>1. B(a) \in Nat /\ B(b) \in Nat
    BY <1>3
  <2>2. ~(B(a) < B(b)) /\ ~(B(b) < B(a))
    BY <1>6, <1>9
  <2>3. B(a) = B(b)
    <3> HIDE DEF B
    <3> QED BY <2>1, <2>2
  <2> QED BY <1>2, <2>3
<1> QED BY <1>8, <1>9

\* So an artifact newer than all others pushes out at most one row for each
\* positive count.
LEMMA FewDisplaced ==
    ASSUME NEW S, S \subseteq Artifact, IsFiniteSet(S),
           NEW new \in Artifact, \A a \in S : Newer(new, a),
           NEW p, NonNegative(p),
           NEW U, U \subseteq Keep(p, S) \ Keep(p, S \cup {new})
    PROVE  Cardinality(U) <= Cardinality(Counted(p))
<1> DEFINE G == Counted(p)
           From(a, g) == a \in Displaced(g, p.keep[g], S, new)
           f == [a \in U |-> CHOOSE g \in G : From(a, g)]
<1>1. ASSUME NEW a \in U
      PROVE  \E g \in G : From(a, g)
  <2>1. PICK g \in Grans : a \in KeepFromBucket(g, p.keep[g], S)
    BY <1>1 DEF Keep
  <2>2. a \notin KeepFromBucket(g, p.keep[g], S \cup {new})
    BY <1>1, <2>1 DEF Keep, KeepFromBucket
  <2>3. p.keep[g] > 0
    <3>1. p.keep[g] \in Nat
      BY DEF NonNegative
    <3>2. Cardinality(Later(Keys(g, S), BucketOf[g][a.at])) < p.keep[g]
      BY <2>1, <3>1 DEF KeepFromBucket, TopKeys
    <3>3. IsFiniteSet(Later(Keys(g, S), BucketOf[g][a.at]))
      BY KeysFinite, FS_Subset DEF Later
    <3>4. Cardinality(Later(Keys(g, S), BucketOf[g][a.at])) \in Nat
      BY <3>3, FS_CardinalityType
    <3> QED BY <3>1, <3>2, <3>4
  <2> QED BY <2>1, <2>2, <2>3 DEF Displaced, Counted
<1>2. \A a \in U : f[a] \in G /\ From(a, f[a])
  BY <1>1
<1>3. ASSUME NEW a \in U, NEW b \in U, f[a] = f[b]
      PROVE  a = b
  <2>1. PICK g \in Grans : From(a, g) /\ From(b, g)
    BY <1>2, <1>3 DEF Counted
  <2>2. p.keep[g] \in Nat
    BY DEF NonNegative
  <2> QED BY <2>1, <2>2, OneDisplaced
<1>4. IsFiniteSet(G)
  BY GransAssumption, FS_Subset DEF Counted
<1>5. f \in Injection(U, G)
  <2>1. f \in [U -> G]
    BY <1>2
  <2> HIDE DEF f, G
  <2> QED BY <1>3, <2>1 DEF Injection, IsInjective
<1> HIDE DEF f, G
<1> QED BY <1>4, <1>5, FS_Injection DEF G

\* Whatever the calendar and the policies, the rotation that follows a backup
\* deletes at most one row per positive count that the preview did not list.
THEOREM PreviewShortByFew == Spec => FewUnannounced
<1> DEFINE All == UNION {live[t] : t \in Series}
           Bound(s) == /\ Cardinality(Unannounced(s))
                            <= Cardinality(Counted(policy[s]))
                       /\ since'[s] = since[s] => Unannounced(s) = {}
           Step == \A s \in Series : (policy[s] # NoPolicy /\ NonNegative(policy[s])) =>
                     /\ Cardinality(Unannounced(s))
                           <= Cardinality(Counted(policy[s]))
                     /\ since'[s] = since[s] => Unannounced(s) = {}
<1>1. ASSUME NEW s \in Series, Unannounced(s) = {}
      PROVE  Bound(s)
  <2>1. IsFiniteSet(Counted(policy[s]))
    BY GransAssumption, FS_Subset DEF Counted
  <2>2. Cardinality(Counted(policy[s])) \in Nat
    BY <2>1, FS_CardinalityType
  <2>3. Cardinality(Unannounced(s)) = 0
    BY <1>1, FS_EmptySet
  <2> QED BY <1>1, <2>2, <2>3
<1>2. ASSUME IInv, NEW s \in Series, NonNegative(policy[s])
      PROVE  Unannounced(s) \subseteq Keep(policy[s], live[s]) \ live'[s]
  <2>1. live[s] \subseteq All
    OBVIOUS
  <2>2. \A a \in live[s] : a \in Keep(policy[s], All) => a \in Keep(policy[s], live[s])
    <3>1. IsFiniteSet(All) /\ All \subseteq Artifact
      BY <1>2, AllRowsFinite
    <3> HIDE DEF All
    <3> QED BY <1>2, <2>1, <3>1, KeepAntitone
  <2> QED BY <2>1, <2>2 DEF WouldDelete, Unannounced
<1>3. ASSUME IInv, Next, NEW s \in Series, policy[s] # NoPolicy, NonNegative(policy[s])
      PROVE  Bound(s)
  <2>1. CASE live'[s] = live[s]
    BY <1>1, <2>1 DEF Unannounced
  <2>2. CASE Backup(s)
    <3> DEFINE new == [id |-> nextId, at |-> now]
    <3>1. /\ new \in Artifact /\ new \notin Pool(s)
          /\ \A a \in live[s] : Newer(new, a)
          /\ since'[s] = since[s] \cup {new}
          /\ live'[s] = Keep(policy[s], live[s] \cup {new})
      BY <1>3, <2>2, BackupEffect
    <3>2. live[s] \subseteq Artifact /\ IsFiniteSet(live[s])
      BY <1>3 DEF IInv, RowsOK, TypeOK
    <3>3. Unannounced(s) \subseteq Keep(policy[s], live[s]) \ Keep(policy[s], live[s] \cup {new})
      BY <1>2, <1>3, <3>1
    <3>4. since'[s] # since[s]
      BY <3>1 DEF Pool
    <3>5. Cardinality(Unannounced(s)) <= Cardinality(Counted(policy[s]))
      <4> HIDE DEF new
      <4> QED BY <1>3, <3>1, <3>2, <3>3, FewDisplaced
    <3> QED BY <3>4, <3>5
  <2>3. CASE BackupWithoutFile(s)
    <3>1. live'[s] = Keep(policy[s], live[s])
      BY <1>3, <2>3, WithoutFileEffect DEF IInv
    <3>2. Unannounced(s) = {}
      BY <1>2, <1>3, <3>1
    <3> QED BY <1>1, <3>2
  <2>4. ASSUME NEW t \in Series \ {s}, Backup(t) \/ BackupWithoutFile(t)
        PROVE  live'[s] = live[s]
    BY <1>3, <2>4 DEF Backup, BackupWithoutFile, Succeed, IInv, TypeOK
  <2> QED BY <1>3, <2>1, <2>2, <2>3, <2>4 DEF Next, SetPolicy, Tick
<1>4. IInv /\ [Next]_vars => [Step]_vars
  <2>1. IInv /\ Next => Step
    BY <1>3
  <2> HIDE DEF Step
  <2> QED BY <2>1
<1>5. Spec => [][Step]_vars
  <2> HIDE DEF Step
  <2> QED BY <1>4, InductiveInvariant, PTL DEF Spec
<1> QED BY <1>5 DEF FewUnannounced
=============================================================================
