------------------------------ MODULE Rotation ------------------------------
(***************************************************************************)
(* The grandfather-father-son decision of api/services/rotation.py as pure *)
(* operators: given the rows a query returned, which ones rotation keeps   *)
(* and which ones it marks deleted.  Nothing here is recursive, so the     *)
(* proof modules can use all of it.                                        *)
(***************************************************************************)
EXTENDS Integers, FiniteSets

CONSTANTS
    Grans,      \* the names of the five bucket dictionaries (hourly .. yearly)
    Times,      \* instants an artifact can be created at
    BucketOf    \* BucketOf[g][t]: the g-bucket instant t falls into

(***************************************************************************)
(* Every key _assign_bucket builds (year, (year, month), ISO (year, week), *)
(* date, (date, hour)) grows with time under Python's tuple order.         *)
(***************************************************************************)
ASSUME CalendarAssumption ==
    /\ Times \subseteq Nat
    /\ BucketOf \in [Grans -> [Times -> Nat]]
    /\ \A g \in Grans : \A t, u \in Times :
           t <= u => BucketOf[g][t] <= BucketOf[g][u]

\* The dictionaries are the five of rotation.py:44-48.
ASSUME GransAssumption == IsFiniteSet(Grans)

\* A backup_artifact row, reduced to what rotation looks at.
Artifact == [id : Nat, at : Times]

\* A retention_policy row.  The schema bounds none of the counts.
PolicyType == [keep : [Grans -> Int], maxAge : Int]

\* The order of the query, created_at DESC; id stands for PostgreSQL's choice
\* among rows of the same instant.
Newer(a, b) == a.at > b.at \/ (a.at = b.at /\ a.id > b.id)

-----------------------------------------------------------------------------
Keys(g, S) == {BucketOf[g][a.at] : a \in S}

\* Mutant of Later: sorted(keys) without reverse=True.
Earlier(K, k) == {l \in K : l < k}

Later(K, k) == {l \in K : l > k}

\* sorted(keys, reverse=True)[:n], with Python's meaning of a negative n.
TopKeys(K, n) ==
    {k \in K : Cardinality(Later(K, k))
                 < IF n >= 0 THEN n ELSE Cardinality(K) + n}

\* Mutant of NewestInBucket: the query ordered ascending.
OldestInBucket(g, a, S) ==
    \A b \in S : BucketOf[g][b.at] = BucketOf[g][a.at] => ~Newer(a, b)

\* bucket_dict[key][0]: nothing in the same bucket is newer.
NewestInBucket(g, a, S) ==
    \A b \in S : BucketOf[g][b.at] = BucketOf[g][a.at] => ~Newer(b, a)

KeepFromBucket(g, n, S) ==
    {a \in S : /\ BucketOf[g][a.at] \in TopKeys(Keys(g, S), n)
               /\ NewestInBucket(g, a, S)}

Keep(p, S) == {a \in S : \E g \in Grans : a \in KeepFromBucket(g, p.keep[g], S)}

\* created_at < now - timedelta(days=max_age_days), only when max_age_days > 0.
TooOld(p, a, now) == p.maxAge > 0 /\ a.at < now - p.maxAge

\* Mutant of Marked: max_age_days overrides the counts.
MarkedByAge(p, S, now) == {a \in S : a \notin Keep(p, S) \/ TooOld(p, a, now)}

\* rotation.py:81-91: should_delete is raised by either reason, and acted on
\* only for the rows outside keep_ids.
Marked(p, S, now) ==
    {a \in S : /\ a \notin Keep(p, S) \/ TooOld(p, a, now)
               /\ a \notin Keep(p, S)}

\* preview_rotation's artifacts_to_delete: the same decision, over every row.
WouldDelete(p, S) == S \ Keep(p, S)

\* No count is negative: then [:n] never slices from the other end.
NonNegative(p) == \A g \in Grans : p.keep[g] \in Nat

\* The granularities whose count selects a bucket.
Counted(p) == {g \in Grans : p.keep[g] > 0}

KeepsSomething(p) == Counted(p) # {}
=============================================================================
