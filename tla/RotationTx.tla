----------------------------- MODULE RotationTx -----------------------------
(***************************************************************************)
(* Runs of one job that overlap: each worker rotates the job's artifacts   *)
(* in its own READ COMMITTED transaction (api/tasks/backup_tasks.py:90-160,*)
(* api/services/rotation.py:25-96), so it decides from rows that others    *)
(* are about to add or mark.  GfsHistory has the same rotation without     *)
(* overlap, and with policies that are edited.                             *)
(***************************************************************************)
EXTENDS Rotation, Sequences

CONSTANTS
    Workers, Dests,
    PolicyOf,       \* the policy a destination of the job is rotated under
    Orders,         \* the values destination_ids takes when the job is edited
    BadOverrides,   \* destinations whose override is no UUID
    History,        \* artifacts it has at every destination, unrotated so far
    None,
    MaxRuns         \* bound of the model: runs beside those of History

ASSUME TxAssumption ==
    /\ PolicyOf \in [Dests -> PolicyType]
    /\ Orders \subseteq Seq(Dests) /\ BadOverrides \subseteq Dests
    /\ \A o \in Orders : \A i, j \in 1..Len(o) : o[i] = o[j] => i = j
    /\ History \subseteq Artifact /\ IsFiniteSet(History)
    /\ \A a, b \in History : a.id = b.id => a = b
    /\ None \notin Artifact
    /\ MaxRuns \in Nat

VARIABLES
    now, nextId,
    destIds,     \* backup_job.destination_ids
    rows, dead,  \* committed artifacts per destination; those with is_deleted
    pc,
    new,         \* per worker: the artifact it brings, dated when its transaction began
    order, idx,  \* its copy of destination_ids and its place in it
    seen,        \* the run ids its last query returned
    todo,        \* rows of that destination it has still to update
    locks,       \* rows it has updated, locked until its transaction ends
    overtaken    \* ghost: another worker committed since its first query

database == <<destIds, rows, dead>>
transaction == <<new, order, idx, seen, todo, locks>>
vars == <<now, nextId, database, pc, transaction, overtaken>>

NoLocks == [d \in Dests |-> {}]
Live(d) == rows[d] \ dead[d]
Here(w) == order[w][idx[w]]
Rotating == {"selecting", "fetching", "marking"}

Init ==
    /\ now \in Times /\ nextId = Cardinality(History)
    /\ \A a \in History : a.at <= now /\ a.id < nextId
    /\ destIds \in Orders
    /\ rows = [d \in Dests |-> History] /\ dead = NoLocks
    /\ pc = [w \in Workers |-> "idle"]
    /\ new = [w \in Workers |-> None]
    /\ order = [w \in Workers |-> <<>>]
    /\ idx = [w \in Workers |-> 1]
    /\ seen = [w \in Workers |-> {}]
    /\ todo = [w \in Workers |-> {}]
    /\ locks = [w \in Workers |-> NoLocks]
    /\ overtaken = [w \in Workers |-> FALSE]

Goto(w, here, there) == pc[w] = here /\ pc' = [pc EXCEPT ![w] = there]

\* PUT /jobs/{id} with other destination_ids.
UpdateJob(o) ==
    /\ destIds # o
    /\ destIds' = o
    /\ UNCHANGED <<now, nextId, rows, dead, pc, transaction, overtaken>>

Tick ==
    /\ now + 1 \in Times
    /\ now' = now + 1
    /\ UNCHANGED <<nextId, database, pc, transaction, overtaken>>

\* Mutant of Begin: created_at in a local time ahead of UTC.
BeginAhead(w) ==
    /\ Goto(w, "idle", "executing")
    /\ nextId < Cardinality(History) + MaxRuns
    /\ nextId' = nextId + 1
    /\ new' = [new EXCEPT ![w] = [id |-> nextId, at |-> now + 1]]
    /\ order' = [order EXCEPT ![w] = destIds]
    /\ UNCHANGED <<now, database, idx, seen, todo, locks, overtaken>>

\* The run row is committed; db.refresh(run) opens the transaction whose start
\* func.now() will give as created_at of the artifacts, however long the
\* executor takes.
Begin(w) ==
    /\ Goto(w, "idle", "executing")
    /\ nextId < Cardinality(History) + MaxRuns
    /\ nextId' = nextId + 1
    /\ new' = [new EXCEPT ![w] = [id |-> nextId, at |-> now]]
    /\ order' = [order EXCEPT ![w] = destIds]
    /\ UNCHANGED <<now, database, idx, seen, todo, locks, overtaken>>

\* The executor returns; the artifacts are inserted by the first autoflush.
Succeed(w) ==
    /\ Goto(w, "executing", "selecting")
    /\ UNCHANGED <<now, nextId, database, transaction, overtaken>>

\* It may return without a checksum: then the run has no artifact, and rotates
\* all the same.
SucceedWithoutFile(w) ==
    /\ Goto(w, "executing", "selecting")
    /\ new' = [new EXCEPT ![w] = None]
    /\ UNCHANGED <<now, nextId, database, order, idx, seen, todo, locks, overtaken>>

Own(w) == {new[w]} \ {None}

\* select(BackupRun.id) of the job: run rows are committed when a run begins.
ReadRuns(w) ==
    /\ Goto(w, "selecting", "fetching")
    /\ idx[w] <= Len(order[w]) /\ Here(w) \notin BadOverrides
    /\ seen' = [seen EXCEPT ![w] = 0..(nextId - 1)]
    /\ UNCHANGED <<now, nextId, database, new, order, idx, todo, locks, overtaken>>

\* What its select(BackupArtifact) returns: committed rows and its own.
Visible(w) == {a \in Live(Here(w)) : a.id \in seen[w]} \cup Own(w)

\* Mutant of ReadArtifacts: a session without autoflush, blind to its own row.
ReadWithoutFlush(w) ==
    /\ Goto(w, "fetching", "marking")
    /\ todo' = [todo EXCEPT ![w] =
                  Marked(PolicyOf[Here(w)], Visible(w) \ Own(w), now)]
    /\ seen' = [seen EXCEPT ![w] = {}]
    /\ UNCHANGED <<now, nextId, database, new, order, idx, locks, overtaken>>

ReadArtifacts(w) ==
    /\ Goto(w, "fetching", "marking")
    /\ todo' = [todo EXCEPT ![w] = Marked(PolicyOf[Here(w)], Visible(w), now)]
    /\ seen' = [seen EXCEPT ![w] = {}]
    /\ UNCHANGED <<now, nextId, database, new, order, idx, locks, overtaken>>

LockedByOther(w, a) == \E v \in Workers \ {w} : a \in locks[v][Here(w)]

\* db.flush() updates the rows in the order of their primary keys.
First(a, S) == \A b \in S : a.id <= b.id

\* Mutants of MarkRow: the update committed at once; the rows in any order.
MarkAtOnce(w) ==
    /\ pc[w] = "marking"
    /\ \E a \in todo[w] :
         /\ First(a, todo[w]) /\ ~LockedByOther(w, a)
         /\ todo' = [todo EXCEPT ![w] = @ \ {a}]
         /\ dead' = [dead EXCEPT ![Here(w)] = @ \cup ({a} \ Own(w))]
    /\ UNCHANGED <<now, nextId, destIds, rows, pc, new, order, idx, seen, locks, overtaken>>

MarkAnyRow(w) ==
    /\ pc[w] = "marking"
    /\ \E a \in todo[w] :
         /\ ~LockedByOther(w, a)
         /\ todo' = [todo EXCEPT ![w] = @ \ {a}]
         /\ locks' = [locks EXCEPT ![w][Here(w)] = @ \cup {a}]
    /\ UNCHANGED <<now, nextId, database, pc, new, order, idx, seen, overtaken>>

\* One UPDATE ... SET is_deleted: it waits while another transaction has the
\* row, and overwrites what that one wrote.
MarkRow(w) ==
    /\ pc[w] = "marking"
    /\ \E a \in todo[w] :
         /\ First(a, todo[w]) /\ ~LockedByOther(w, a)
         /\ todo' = [todo EXCEPT ![w] = @ \ {a}]
         /\ locks' = [locks EXCEPT ![w][Here(w)] = @ \cup {a}]
    /\ UNCHANGED <<now, nextId, database, pc, new, order, idx, seen, overtaken>>

NextDest(w) ==
    /\ Goto(w, "marking", "selecting")
    /\ todo[w] = {}
    /\ idx' = [idx EXCEPT ![w] = @ + 1]
    /\ UNCHANGED <<now, nextId, database, new, order, seen, todo, locks, overtaken>>

\* The transaction is over: nothing of it is left but what Commit writes.
EndTx(w) ==
    /\ pc' = [pc EXCEPT ![w] = "idle"]
    /\ new' = [new EXCEPT ![w] = None]
    /\ todo' = [todo EXCEPT ![w] = {}]
    /\ locks' = [locks EXCEPT ![w] = NoLocks]
    /\ order' = [order EXCEPT ![w] = <<>>]
    /\ idx' = [idx EXCEPT ![w] = 1]
    /\ seen' = [seen EXCEPT ![w] = {}]
    /\ UNCHANGED <<now, nextId, destIds>>

Rotated(w, d) == \E i \in 1..(idx[w] - 1) : order[w][i] = d

Writes(w, d) == \E i \in 1..Len(order[w]) : order[w][i] = d

\* Artifacts for all destinations, marks for those rotated so far.
Write(w) ==
    /\ rows' = [d \in Dests |-> IF Writes(w, d) THEN rows[d] \cup Own(w) ELSE rows[d]]
    /\ dead' = [d \in Dests |-> dead[d] \cup locks[w][d]]
    /\ overtaken' = [v \in Workers |-> v # w /\ pc[v] \in Rotating]
    /\ EndTx(w)

Commit(w) ==
    /\ pc[w] = "selecting" /\ idx[w] > Len(order[w])
    /\ Write(w)

\* uuid.UUID(policy_id) raises; the handler marks the run failed and commits.
RotationError(w) ==
    /\ pc[w] = "selecting" /\ idx[w] <= Len(order[w]) /\ Here(w) \in BadOverrides
    /\ Write(w)

\* Mutant of Rollback: what was flushed of the rotation stays.
RollbackKeepsMarks(w) ==
    /\ pc[w] # "idle"
    /\ EndTx(w)
    /\ dead' = [d \in Dests |-> dead[d] \cup (locks[w][d] \ Own(w))]
    /\ overtaken' = [overtaken EXCEPT ![w] = FALSE]
    /\ rows' = rows

\* The executor failed, an exception, a lost connection, a dead process.
Rollback(w) ==
    /\ pc[w] # "idle"
    /\ EndTx(w)
    /\ overtaken' = [overtaken EXCEPT ![w] = FALSE]
    /\ UNCHANGED <<rows, dead>>

Awaits(v, w) ==
    /\ pc[v] = "marking" /\ v # w
    /\ \E a \in todo[v] : First(a, todo[v]) /\ a \in locks[w][Here(v)]

\* A set of workers none of which can go on before another one of them ends.
Deadlocked(C) == C # {} /\ \A v \in C : \E w \in C : Awaits(v, w)

Next ==
    \/ Tick
    \/ \E o \in Orders : UpdateJob(o)
    \/ \E w \in Workers :
         \/ Begin(w) \/ Succeed(w) \/ SucceedWithoutFile(w)
         \/ ReadRuns(w) \/ ReadArtifacts(w) \/ MarkRow(w) \/ NextDest(w)
         \/ Commit(w) \/ RotationError(w) \/ Rollback(w)

Spec == Init /\ [][Next]_vars

-----------------------------------------------------------------------------
TypeOK ==
    /\ now \in Times /\ nextId \in Nat
    /\ destIds \in Orders
    /\ rows \in [Dests -> SUBSET Artifact] /\ dead \in [Dests -> SUBSET Artifact]
    /\ pc \in [Workers -> {"idle", "executing"} \cup Rotating]
    /\ new \in [Workers -> Artifact \cup {None}]
    /\ order \in [Workers -> Orders \cup {<<>>}]
    /\ idx \in [Workers -> Nat \ {0}]
    /\ seen \in [Workers -> SUBSET Nat]
    /\ todo \in [Workers -> SUBSET Artifact]
    /\ locks \in [Workers -> [Dests -> SUBSET Artifact]]
    /\ overtaken \in [Workers -> BOOLEAN]

\* However the rotations overlap, abort or wait for each other, no artifact is
\* marked deleted that one rotation over everything committed would keep: a
\* decision from stale rows deletes too little, never too much.
NeverTooMuch ==
    \A d \in Dests : NonNegative(PolicyOf[d]) => Keep(PolicyOf[d], rows[d]) \subseteq Live(d)

\* The newest backup of a destination is live, under every policy that has a
\* positive count (negative ones beside it included).
NewestIsLive ==
    \A d \in Dests : KeepsSomething(PolicyOf[d]) =>
        \A a \in rows[d] : (\A b \in rows[d] : ~Newer(b, a)) => a \in Live(d)

\* What overlapping rotations left undeleted, the next one removes: a rotation
\* during which nobody else commits ends with exactly what the policy keeps, at
\* every destination it came to.
CatchesUp ==
    [][\A w \in Workers, d \in Dests :
         (/\ Rotated(w, d) /\ ~overtaken[w] /\ NonNegative(PolicyOf[d])
          /\ pc[w] # "idle" /\ pc'[w] = "idle" /\ <<rows, dead>>' # <<rows, dead>>)
         => Live(d)' = Keep(PolicyOf[d], rows'[d])]_vars

\* PostgreSQL finds workers deadlocked, and ends a run for it, only when the
\* destinations of the job were reordered between their starts.
DeadlockByReorder ==
    \A C \in SUBSET Workers :
        Deadlocked(C) => \E v, w \in C : order[v] # order[w]
=============================================================================
