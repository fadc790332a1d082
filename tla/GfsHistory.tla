----------------------------- MODULE GfsHistory -----------------------------
(***************************************************************************)
(* A long life of one installation's artifacts: backups that succeed, each *)
(* followed in the same transaction by the rotation of its destination     *)
(* (api/tasks/backup_tasks.py:113-147), policies that are edited or        *)
(* overridden in between, and time passing.  Workers do not overlap here;  *)
(* RotationTx has the interleavings.                                       *)
(*                                                                         *)
(* A series is the set of rows one rotation query returns: the artifacts   *)
(* of one job at one destination.                                          *)
(***************************************************************************)
EXTENDS Rotation

CONSTANTS
    Series,      \* pairs of a job and one of its destinations
    Policies,    \* the retention_policy rows a series can be under
    NoPolicy,    \* no override and no default: rotation is skipped
    MaxBackups   \* bound of the model: how many artifacts are ever created

ASSUME PolicyAssumption ==
    /\ IsFiniteSet(Series)
    /\ Policies \subseteq PolicyType
    /\ NoPolicy \notin Policies
    /\ MaxBackups \in Nat

VARIABLES
    now,       \* the clock
    nextId,    \* ids are handed out in the order of created_at
    policy,    \* [Series -> the policy its rotation uses]
    live,      \* [Series -> rows with is_deleted = false]
    marked,    \* [Series -> rows with is_deleted = true]
    base,      \* ghost: the rows live when the policy of the series was set
    since,     \* ghost: the rows created under it
    rotated    \* ghost: the series was rotated under it

vars == <<now, nextId, policy, live, marked, base, since, rotated>>

Init ==
    /\ now \in Times
    /\ nextId = 0
    /\ policy \in [Series -> Policies \cup {NoPolicy}]
    /\ live = [s \in Series |-> {}]
    /\ marked = [s \in Series |-> {}]
    /\ base = [s \in Series |-> {}]
    /\ since = [s \in Series |-> {}]
    /\ rotated = [s \in Series |-> FALSE]

\* apply_rotation(db, policy, job, storage) on the rows of one series.
RotatedAway(p, S) == IF p = NoPolicy THEN {} ELSE Marked(p, S, now)

\* A run succeeds and brings an artifact, or none: it joins its series, and the
\* series is rotated before the commit, the new row included.
Succeed(s, brought) ==
    LET rows == live[s] \cup brought
        away == RotatedAway(policy[s], rows)
    IN  /\ live' = [live EXCEPT ![s] = rows \ away]
        /\ marked' = [marked EXCEPT ![s] = @ \cup away]
        /\ since' = [since EXCEPT ![s] = @ \cup brought]
        /\ rotated' = [rotated EXCEPT ![s] = TRUE]
        /\ UNCHANGED <<now, policy, base>>

\* Mutant of Backup: the artifact is dated one instant before its run and its
\* row is added after the rotation.
BackupDatedBack(s) ==
    LET new == [id |-> nextId, at |-> now - 1]
        rows == live[s] \cup {new}
    IN  /\ nextId < MaxBackups
        /\ nextId' = nextId + 1
        /\ live' = [live EXCEPT ![s] = rows]
        /\ marked' = marked
        /\ since' = [since EXCEPT ![s] = @ \cup {new}]
        /\ rotated' = [rotated EXCEPT ![s] = TRUE]
        /\ UNCHANGED <<now, policy, base>>

Backup(s) ==
    /\ nextId < MaxBackups
    /\ nextId' = nextId + 1
    /\ Succeed(s, {[id |-> nextId, at |-> now]})

\* The executor reports success without a checksum: no artifact is added, and
\* the rotation takes place all the same.
BackupWithoutFile(s) ==
    /\ nextId' = nextId
    /\ Succeed(s, {})

\* PUT /retention/{id}, DELETE /retention/{id}, or a job whose retention_id or
\* retention_overrides are edited.  None of them rotates anything.
SetPolicy(s, p) ==
    /\ policy[s] # p
    /\ policy' = [policy EXCEPT ![s] = p]
    /\ base' = [base EXCEPT ![s] = live[s]]
    /\ since' = [since EXCEPT ![s] = {}]
    /\ rotated' = [rotated EXCEPT ![s] = FALSE]
    /\ UNCHANGED <<now, nextId, live, marked>>

Tick ==
    /\ now + 1 \in Times
    /\ now' = now + 1
    /\ UNCHANGED <<nextId, policy, live, marked, base, since, rotated>>

Next ==
    \/ \E s \in Series : Backup(s) \/ BackupWithoutFile(s)
    \/ \E s \in Series, p \in Policies \cup {NoPolicy} : SetPolicy(s, p)
    \/ Tick

Spec == Init /\ [][Next]_vars

-----------------------------------------------------------------------------
TypeOK ==
    /\ now \in Times
    /\ nextId \in Nat
    /\ policy \in [Series -> Policies \cup {NoPolicy}]
    /\ live \in [Series -> SUBSET Artifact]
    /\ marked \in [Series -> SUBSET Artifact]
    /\ base \in [Series -> SUBSET Artifact]
    /\ since \in [Series -> SUBSET Artifact]
    /\ rotated \in [Series -> BOOLEAN]

\* Everything the policy of s has ever had to decide about.
Pool(s) == base[s] \cup since[s]

\* Rotating after every single run ends with exactly what one rotation over
\* the whole history since the policy was set would keep: no artifact is lost
\* to the order in which apply_rotation saw the rows, and none escapes it.
\* (A negative count, which the schema admits, slices from the other end.)
IncrementalIsBatch ==
    \A s \in Series :
        live[s] = IF policy[s] = NoPolicy \/ ~rotated[s]
                  THEN Pool(s)
                  ELSE IF NonNegative(policy[s])
                       THEN Keep(policy[s], Pool(s))
                       ELSE live[s]

\* What the policy promises: for every granularity g, the newest artifact of
\* each of the keep_g most recent g-buckets that hold a backup is still live,
\* whatever was rotated in between.
RecentBucketsCovered ==
    \A s \in Series : (policy[s] # NoPolicy /\ NonNegative(policy[s])) =>
        \A g \in Grans : \A a \in Pool(s) :
            LET Bucket(b) == BucketOf[g][b.at]
                laterBuckets == {k \in {Bucket(b) : b \in Pool(s)} : k > Bucket(a)}
                superseded == \E b \in Pool(s) : Bucket(b) = Bucket(a) /\ Newer(b, a)
            IN  (Cardinality(laterBuckets) < policy[s].keep[g] /\ ~superseded)
                    => a \in live[s]

\* A run that succeeds never rotates away the artifact it has just produced,
\* unless no count of the policy is positive.
NewestSurvives ==
    [][\A s \in Series :
         (since'[s] \ since[s] # {} /\
            (policy[s] = NoPolicy \/ KeepsSomething(policy[s])))
         => since'[s] \ since[s] \subseteq live'[s]]_vars

\* The rows of s a step deletes and a preview of its policy, which looks at the
\* rows of all series, did not list.
Unannounced(s) ==
    (live[s] \ live'[s]) \ WouldDelete(policy[s], UNION {live[t] : t \in Series})

\* A rotation follows a new artifact the preview could not know, and may delete
\* rows it did not list: but at most one for each positive count, the one the
\* new artifact pushes out of that granularity's list.  The rotation of a run
\* that brought no artifact deletes nothing the preview did not list.
FewUnannounced ==
    [][\A s \in Series : (policy[s] # NoPolicy /\ NonNegative(policy[s])) =>
         /\ Cardinality(Unannounced(s))
               <= Cardinality(Counted(policy[s]))
         /\ since'[s] = since[s] => Unannounced(s) = {}]_vars

-----------------------------------------------------------------------------
\* POST /retention/{id}/preview, "Preview which artifacts would be deleted by
\* this retention policy": when every series is under p, the artifacts listed
\* for p are those the rotations of the series delete.
PreviewIsExact ==
    \A p \in Policies : (\A s \in Series : policy[s] = p) =>
        WouldDelete(p, UNION {live[s] : s \in Series})
            = UNION {Marked(p, live[s], now) : s \in Series}
=============================================================================
