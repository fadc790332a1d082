----------------------------- MODULE BackupRuns -----------------------------
(***************************************************************************)
(* One backup from the API's trigger to the last notification: the Celery  *)
(* message on the Redis broker, the worker process that executes it        *)
(* (api/tasks/backup_tasks.py, _run_backup), the backup_run row it leaves  *)
(* and the backup_artifact rows of its destinations, while the API cancels *)
(* runs and deletes jobs and storages, and while workers crash.            *)
(*                                                                         *)
(* One action per database transaction: whatever _run_backup does between  *)
(* two awaits on the database or the broker is one step.                   *)
(***************************************************************************)
EXTENDS Integers, FiniteSets

CONSTANTS
    Workers,         \* processes of `celery worker -c 4`
    Jobs, Storages,  \* backup_job and storage_destination rows
    JobDests,        \* JobDests[j]: destination_ids, an array without foreign keys
    JobMaxRetries,   \* JobMaxRetries[j]: backup_job.max_retries
    BadRetention,    \* jobs whose rotation raises (an override that is no UUID)
    TaskMaxRetries,  \* max_retries of the task decorator
    None,
    MaxTriggers, MaxMsgs, MaxRuns,   \* bounds of the model
    MaxRedeliveries, MaxCrashes,
    MaxCancels       \* how many runs are cancelled or being cancelled at once

ASSUME ConstantsAssumption ==
    /\ JobDests \in [Jobs -> SUBSET Storages]
    /\ JobMaxRetries \in [Jobs -> Int]
    /\ BadRetention \subseteq Jobs
    /\ TaskMaxRetries \in Nat
    /\ None \notin Nat
    /\ {MaxTriggers, MaxMsgs, MaxRuns, MaxRedeliveries, MaxCrashes,
         MaxCancels} \subseteq Nat

Msgs == 1..MaxMsgs
Runs == 1..MaxRuns
Payload == [job : Jobs, retries : 0..TaskMaxRetries, root : Msgs]
Event == {"run.success", "run.failed"}

\* Where a worker is in _run_backup.
Active == {"executing",  \* awaiting the executor
           "storing",    \* it succeeded with a file and a checksum
           "recording",  \* it succeeded without a checksum: no artifact
           "retrying",   \* it failed, run.retry_count < job.max_retries
           "closing",    \* it failed, job.max_retries = 0
           "failing"}    \* in the except handler
PC == Active \cup {"idle", "loading", "inserting", "tellSuccess", "tellFailure", "acking"}

VARIABLES
    jobRow, storageRow,  \* the rows of Jobs and Storages that exist
    status,              \* [Runs -> backup_run.status, "none" before, "gone" after]
    finished,            \* runs whose row has a finished_at
    art,                 \* backup_artifact rows, as <<run, storage>>
    queue, payload,      \* the broker: state and contents of each message
    pc, holds, at,       \* per worker: program counter, message, run
    cancelling,          \* runs a cancel request has read as "running"
    origin,              \* ghost: the message whose delivery created the run
    sent,                \* ghost: events handed to notify_event, per run
    orphaned,            \* ghost: runs whose worker died under them
    lost,                \* ghost: messages acknowledged for a dead pool child
    redelivered,         \* ghost: how often the broker restored each message
    crashes

rows == <<jobRow, storageRow, status, finished, art>>
broker == <<queue, payload, redelivered, lost>>
process == <<pc, holds, at>>
ghosts == <<origin, sent, orphaned, crashes>>
vars == <<rows, broker, process, cancelling, ghosts>>

JobOf(r) == payload[origin[r]].job

Init ==
    /\ jobRow = Jobs /\ storageRow = Storages
    /\ status = [r \in Runs |-> "none"]
    /\ finished = {} /\ art = {}
    /\ queue = [m \in Msgs |-> "none"]
    /\ payload = [m \in Msgs |-> None]
    /\ pc = [w \in Workers |-> "idle"]
    /\ holds = [w \in Workers |-> None]
    /\ at = [w \in Workers |-> None]
    /\ cancelling = {}
    /\ origin = [r \in Runs |-> None]
    /\ sent = [r \in Runs |-> {}]
    /\ orphaned = {} /\ lost = {}
    /\ redelivered = [m \in Msgs |-> 0]
    /\ crashes = 0

-----------------------------------------------------------------------------
(* The API: api/routers/jobs.py, runs.py, storage.py                       *)

\* Ids are taken in order, which loses nothing.
NextMsg(m) == m \in Msgs /\ queue[m] = "none" /\ \A n \in 1..(m-1) : queue[n] # "none"
NextRun(r) == r \in Runs /\ status[r] = "none" /\ \A q \in 1..(r-1) : status[q] # "none"

Publish(m, j, retries, root) ==
    /\ NextMsg(m)
    /\ queue' = [queue EXCEPT ![m] = "ready"]
    /\ payload' = [payload EXCEPT ![m] = [job |-> j, retries |-> retries, root |-> root]]
    /\ UNCHANGED <<redelivered, lost>>

Triggers == {m \in Msgs : queue[m] # "none" /\ payload[m].root = m}

\* POST /jobs/{id}/trigger: run_backup_task.delay(job_id).
TriggerJob(j) ==
    /\ j \in jobRow
    /\ Cardinality(Triggers) < MaxTriggers
    /\ \E m \in Msgs : Publish(m, j, 0, m)
    /\ UNCHANGED <<rows, process, cancelling, ghosts>>

\* POST /runs/{id}/cancel reads the row, and writes it when the request ends.
\* The worker is not told.
CancelRead(r) ==
    /\ status[r] = "running"
    /\ Cardinality(cancelling \cup {q \in Runs : status[q] = "cancelled"}) < MaxCancels
    /\ cancelling' = cancelling \cup {r}
    /\ UNCHANGED <<rows, broker, process, ghosts>>

CancelCommit(r) ==
    /\ r \in cancelling
    /\ cancelling' = cancelling \ {r}
    /\ status' = [status EXCEPT ![r] = IF @ = "gone" THEN "gone" ELSE "cancelled"]
    /\ UNCHANGED <<jobRow, storageRow, finished, art, broker, process, ghosts>>

\* DELETE /jobs/{id}: the ORM cascades to the job's runs and their artifacts.
DeleteJob(j) ==
    LET dead == {r \in Runs : status[r] # "none" /\ JobOf(r) = j}
    IN  /\ j \in jobRow
        /\ jobRow' = jobRow \ {j}
        /\ status' = [r \in Runs |-> IF r \in dead THEN "gone" ELSE status[r]]
        /\ finished' = finished \ dead
        /\ art' = {a \in art : a[1] \notin dead}
        /\ UNCHANGED <<storageRow, broker, process, cancelling, ghosts>>

\* DELETE /storage/{id}: artifact rows block it (storage_id is NOT NULL), jobs
\* that name the storage do not.
DeleteStorage(s) ==
    /\ s \in storageRow
    /\ \A a \in art : a[2] # s
    /\ storageRow' = storageRow \ {s}
    /\ UNCHANGED <<jobRow, status, finished, art, broker, process, cancelling, ghosts>>

-----------------------------------------------------------------------------
(* A worker: run_backup_task and _run_backup                               *)

Goto(w, here, there) == pc[w] = here /\ pc' = [pc EXCEPT ![w] = there]

Stay(w) == UNCHANGED <<holds, at>>

\* Mutant of Take: task_acks_late unset, acknowledged on receipt.
TakeAcksEarly(w, m) ==
    /\ queue[m] = "ready"
    /\ Goto(w, "idle", "loading")
    /\ queue' = [queue EXCEPT ![m] = "settled"]
    /\ holds' = [holds EXCEPT ![w] = m]
    /\ UNCHANGED <<rows, payload, redelivered, lost, at, cancelling, ghosts>>

Take(w, m) ==
    /\ queue[m] = "ready"
    /\ Goto(w, "idle", "loading")
    /\ queue' = [queue EXCEPT ![m] = "unacked"]
    /\ holds' = [holds EXCEPT ![w] = m]
    /\ UNCHANGED <<rows, payload, redelivered, lost, at, cancelling, ghosts>>

MyJob(w) == payload[holds[w]].job

LoadJob(w) ==
    /\ Goto(w, "loading", IF MyJob(w) \in jobRow THEN "inserting" ELSE "acking")
    /\ Stay(w)
    /\ UNCHANGED <<rows, broker, cancelling, ghosts>>

\* Mutant of InsertRun: a redelivered message reuses the row it made before.
InsertRunAgain(w) ==
    /\ Goto(w, "inserting", "executing")
    /\ MyJob(w) \in jobRow
    /\ \E r \in Runs :
         /\ NextRun(r) \/ (origin[r] = holds[w] /\ status[r] # "gone")
         /\ status' = [status EXCEPT ![r] = "running"]
         /\ origin' = [origin EXCEPT ![r] = holds[w]]
         /\ at' = [at EXCEPT ![w] = r]
    /\ UNCHANGED <<jobRow, storageRow, finished, art, broker, holds, cancelling,
                   sent, orphaned, crashes>>

\* The row of the run is committed before the work begins.
InsertRun(w) ==
    /\ Goto(w, "inserting", "executing")
    /\ MyJob(w) \in jobRow
    /\ \E r \in Runs :
         /\ NextRun(r)
         /\ status' = [status EXCEPT ![r] = "running"]
         /\ origin' = [origin EXCEPT ![r] = holds[w]]
         /\ at' = [at EXCEPT ![w] = r]
    /\ UNCHANGED <<jobRow, storageRow, finished, art, broker, holds, cancelling,
                   sent, orphaned, crashes>>

\* The job was deleted since it was loaded: the foreign key refuses the row,
\* outside the try block.
InsertRefused(w) ==
    /\ Goto(w, "inserting", "acking")
    /\ MyJob(w) \notin jobRow
    /\ Stay(w)
    /\ UNCHANGED <<rows, broker, cancelling, ghosts>>

\* What the executor brings back; "failing" is an exception (no executor for
\* the type, a container that cannot be restarted, a dropped connection).
Execute(w) ==
    /\ pc[w] = "executing"
    /\ \E next \in {"storing", "recording", "failing",
                    IF JobMaxRetries[MyJob(w)] > 0 THEN "retrying" ELSE "closing"} :
         Goto(w, "executing", next)
    /\ Stay(w)
    /\ UNCHANGED <<rows, broker, cancelling, ghosts>>

\* The rows a successful run adds, one for every destination.
NewArtifacts(w) ==
    IF pc[w] = "storing" THEN {at[w]} \X JobDests[MyJob(w)] ELSE {}

\* The UPDATE of the run matches a row and no foreign key refuses an INSERT.
CanFlush(w) ==
    /\ status[at[w]] # "gone"
    /\ pc[w] = "storing" => JobDests[MyJob(w)] \subseteq storageRow

\* uuid.UUID(policy_id) raises inside the loop over the destinations.
RotationRaises(w) == MyJob(w) \in BadRetention /\ JobDests[MyJob(w)] # {}

\* Mutant of CommitSuccess: destinations that no longer exist are skipped.
CommitWhatRemains(w) ==
    /\ pc[w] \in {"storing", "recording"}
    /\ status[at[w]] # "gone"
    /\ Goto(w, pc[w], "tellSuccess")
    /\ status' = [status EXCEPT ![at[w]] = "success"]
    /\ finished' = finished \cup {at[w]}
    /\ art' = art \cup {a \in NewArtifacts(w) : a[2] \in storageRow}
    /\ Stay(w)
    /\ UNCHANGED <<jobRow, storageRow, broker, cancelling, ghosts>>

\* Outcome, artifacts and rotation in one transaction (GfsHistory has the
\* rotation itself).
CommitSuccess(w) ==
    /\ pc[w] \in {"storing", "recording"}
    /\ CanFlush(w) /\ ~RotationRaises(w)
    /\ Goto(w, pc[w], "tellSuccess")
    /\ status' = [status EXCEPT ![at[w]] = "success"]
    /\ finished' = finished \cup {at[w]}
    /\ art' = art \cup NewArtifacts(w)
    /\ Stay(w)
    /\ UNCHANGED <<jobRow, storageRow, broker, cancelling, ghosts>>

\* The handler turns the run into a failed one and commits: the artifacts are
\* still pending in the session, and are committed with it.
RotationError(w) ==
    /\ pc[w] \in {"storing", "recording"}
    /\ CanFlush(w) /\ RotationRaises(w)
    /\ Goto(w, pc[w], "acking")
    /\ status' = [status EXCEPT ![at[w]] = "failed"]
    /\ finished' = finished \cup {at[w]}
    /\ art' = art \cup NewArtifacts(w)
    /\ Stay(w)
    /\ UNCHANGED <<jobRow, storageRow, broker, cancelling, ghosts>>

\* Mutant of CommitRefused: the error is swallowed and the success announced.
CommitSwallowed(w) ==
    /\ pc[w] \in {"storing", "recording"}
    /\ ~CanFlush(w)
    /\ Goto(w, pc[w], "tellSuccess")
    /\ Stay(w)
    /\ UNCHANGED <<rows, broker, cancelling, ghosts>>

\* A flush that fails leaves the session unusable until it is rolled back: the
\* commit in the handler raises too, and the row stays as it was.
CommitRefused(w) ==
    /\ pc[w] \in {"storing", "recording"}
    /\ ~CanFlush(w)
    /\ Goto(w, pc[w], "acking")
    /\ Stay(w)
    /\ UNCHANGED <<rows, broker, cancelling, ghosts>>

\* Mutant of Retry: the limit is compared off by one.
RetryOnceMore(w) ==
    LET mine == payload[holds[w]]
    IN  /\ Goto(w, "retrying", "failing")
        /\ IF mine.retries <= TaskMaxRetries
           THEN \E m \in Msgs : Publish(m, mine.job, mine.retries + 1, mine.root)
           ELSE UNCHANGED broker
        /\ Stay(w)
        /\ UNCHANGED <<rows, cancelling, ghosts>>

\* task.retry publishes a message and raises Retry, or raises
\* MaxRetriesExceededError; both land in the except handler.
Retry(w) ==
    LET mine == payload[holds[w]]
    IN  /\ Goto(w, "retrying", "failing")
        /\ IF mine.retries < TaskMaxRetries
           THEN \E m \in Msgs : Publish(m, mine.job, mine.retries + 1, mine.root)
           ELSE UNCHANGED broker
        /\ Stay(w)
        /\ UNCHANGED <<rows, cancelling, ghosts>>

\* Mutant of CommitFailure: the handler re-raises without committing.
FailureNotCommitted(w) ==
    /\ pc[w] \in {"failing", "closing"}
    /\ Goto(w, pc[w], "acking")
    /\ Stay(w)
    /\ UNCHANGED <<rows, broker, cancelling, ghosts>>

\* The failed row, committed by the handler ("failing": re-raises, nobody is
\* notified) or on the ordinary path ("closing").
CommitFailure(w) ==
    LET r == at[w] IN
    /\ pc[w] \in {"failing", "closing"}
    /\ IF status[r] = "gone"
       THEN Goto(w, pc[w], "acking") /\ UNCHANGED <<status, finished>>
       ELSE /\ Goto(w, pc[w], IF pc[w] = "closing" THEN "tellFailure" ELSE "acking")
            /\ status' = [status EXCEPT ![r] = "failed"]
            /\ finished' = finished \cup {r}
    /\ Stay(w)
    /\ UNCHANGED <<jobRow, storageRow, art, broker, cancelling, ghosts>>

\* notify_event(db, f"run.{run.status}"), from the worker's own copy of the run.
Notify(w) ==
    /\ \/ /\ Goto(w, "tellSuccess", "acking")
          /\ sent' = [sent EXCEPT ![at[w]] = @ \cup {"run.success"}]
       \/ /\ Goto(w, "tellFailure", "acking")
          /\ sent' = [sent EXCEPT ![at[w]] = @ \cup {"run.failed"}]
    /\ Stay(w)
    /\ UNCHANGED <<rows, broker, cancelling, origin, orphaned, crashes>>

Free(w) ==
    /\ pc' = [pc EXCEPT ![w] = "idle"]
    /\ holds' = [holds EXCEPT ![w] = None]
    /\ at' = [at EXCEPT ![w] = None]

\* Mutant of Settle: the task is put back instead of acknowledged.
SettleRequeues(m) == queue' = [queue EXCEPT ![m] = "ready"]

\* task_acks_late: the message leaves the broker when the task has ended, by
\* whatever way.  A restored message keeps its delivery tag, so the late
\* acknowledgement finds it only if it was delivered again.
Settle(m) == queue' = [queue EXCEPT ![m] = IF @ = "unacked" THEN "settled" ELSE @]

Ack(w) ==
    /\ pc[w] = "acking"
    /\ Settle(holds[w])
    /\ Free(w)
    /\ UNCHANGED <<rows, payload, redelivered, lost, cancelling, ghosts>>

-----------------------------------------------------------------------------
(* What the processes and the broker do to each other                      *)

\* The run a worker is about to leave as "running" for good.
LeftBehind(W) == {at[w] : w \in {v \in W : pc[v] \in Active}}

\* The worker container dies with all its children; the messages stay unacked.
Crash ==
    /\ crashes < MaxCrashes
    /\ \E w \in Workers : pc[w] # "idle"
    /\ crashes' = crashes + 1
    /\ orphaned' = orphaned \cup LeftBehind(Workers)
    /\ pc' = [w \in Workers |-> "idle"]
    /\ holds' = [w \in Workers |-> None]
    /\ at' = [w \in Workers |-> None]
    /\ UNCHANGED <<rows, broker, cancelling, origin, sent>>

\* One pool child is killed: the parent acknowledges its message, because
\* task_reject_on_worker_lost is not set.
ChildLost(w) ==
    /\ crashes < MaxCrashes
    /\ pc[w] # "idle"
    /\ crashes' = crashes + 1
    /\ orphaned' = orphaned \cup LeftBehind({w})
    /\ lost' = IF queue[holds[w]] = "unacked" THEN lost \cup {holds[w]} ELSE lost
    /\ Settle(holds[w])
    /\ Free(w)
    /\ UNCHANGED <<rows, payload, redelivered, cancelling, origin, sent>>

RestoreMsg(m) ==
    /\ queue[m] = "unacked"
    /\ queue' = [queue EXCEPT ![m] = "ready"]
    /\ redelivered' = [redelivered EXCEPT ![m] = @ + 1]
    /\ UNCHANGED <<rows, payload, lost, process, cancelling, ghosts>>

\* After the broker's visibility timeout a message nobody works on comes back.
RestoreOrphan(m) == (\A w \in Workers : holds[w] # m) /\ RestoreMsg(m)

\* So does one whose executor is still running: the timeout of 3600 s is no
\* longer than the commands' own.
RestoreLate(m) ==
    /\ redelivered[m] < MaxRedeliveries
    /\ \E w \in Workers : holds[w] = m /\ pc[w] = "executing"
    /\ RestoreMsg(m)

-----------------------------------------------------------------------------
WorkerStep(w) ==
    \/ \E m \in Msgs : Take(w, m)
    \/ LoadJob(w) \/ InsertRun(w) \/ InsertRefused(w) \/ Execute(w)
    \/ CommitSuccess(w) \/ RotationError(w) \/ CommitRefused(w)
    \/ Retry(w) \/ CommitFailure(w) \/ Notify(w) \/ Ack(w)

Api ==
    \/ \E j \in Jobs : TriggerJob(j) \/ DeleteJob(j)
    \/ \E s \in Storages : DeleteStorage(s)
    \/ \E r \in Runs : CancelRead(r) \/ CancelCommit(r)

Faults ==
    \/ Crash
    \/ \E w \in Workers : ChildLost(w)
    \/ \E m \in Msgs : RestoreOrphan(m) \/ RestoreLate(m)

Next == Api \/ (\E w \in Workers : WorkerStep(w)) \/ Faults

Spec == Init /\ [][Next]_vars

\* Every command has a timeout and every process is scheduled; the broker
\* restores what nobody holds.  Users, crashes and late restores owe nothing.
Fairness ==
    /\ \A w \in Workers : WF_vars(WorkerStep(w))
    /\ \A m \in Msgs : WF_vars(RestoreOrphan(m))

FairSpec == Spec /\ Fairness

-----------------------------------------------------------------------------
TypeOK ==
    /\ jobRow \subseteq Jobs /\ storageRow \subseteq Storages
    /\ status \in [Runs -> {"none", "running", "success", "failed", "cancelled", "gone"}]
    /\ finished \subseteq Runs
    /\ art \subseteq Runs \X Storages
    /\ queue \in [Msgs -> {"none", "ready", "unacked", "settled"}]
    /\ payload \in [Msgs -> Payload \cup {None}]
    /\ redelivered \in [Msgs -> Nat]
    /\ lost \subseteq Msgs
    /\ pc \in [Workers -> PC]
    /\ holds \in [Workers -> Msgs \cup {None}]
    /\ at \in [Workers -> Runs \cup {None}]
    /\ cancelling \subseteq Runs
    /\ origin \in [Runs -> Msgs \cup {None}]
    /\ sent \in [Runs -> SUBSET Event]
    /\ orphaned \subseteq Runs
    /\ crashes \in Nat

Owns(w, r) == at[w] = r /\ pc[w] \in Active

Copies(r) == {s \in Storages : <<r, s>> \in art}

\* A run's artifacts appear together or not at all: whatever storage, job or
\* worker disappears meanwhile, no reader finds a backup on some of the job's
\* destinations only, or the copies of a run that has no outcome yet.
AllOrNothing ==
    \A r \in Runs : Copies(r) # {} => Copies(r) = JobDests[JobOf(r)] /\ r \in finished

\* A row says "running" only while a worker is on it, except in two cases
\* nothing in the code repairs: its worker died, or the commit of its outcome
\* was refused because a destination of its job had been deleted.
RunningIsOwned ==
    \A r \in Runs : status[r] = "running" =>
        \/ \E w \in Workers : Owns(w, r)
        \/ r \in orphaned
        \/ ~(JobDests[JobOf(r)] \subseteq storageRow)

\* Late acknowledgement: a message leaves the broker only after a run made from
\* it has reached an outcome, unless the job was deleted, a pool child was lost
\* with it, or a destination of the job had been deleted.
SettledHasOutcome ==
    \A m \in Msgs : queue[m] = "settled" =>
        \/ m \in lost
        \/ payload[m].job \notin jobRow
        \/ ~(JobDests[payload[m].job] \subseteq storageRow)
        \/ \E r \in finished : origin[r] = m

\* What a notification says is so: "run.success" follows the commit of a
\* success, "run.failed" is never said of a run that has artifacts, and no run
\* is announced both ways, not even one that is cancelled or deleted meanwhile.
AnnouncedIsTrue ==
    \A r \in Runs :
        /\ "run.success" \in sent[r] => status[r] \in {"success", "cancelled", "gone"}
        /\ "run.failed" \in sent[r] =>
              status[r] \in {"failed", "cancelled", "gone"} /\ Copies(r) = {}
        /\ ~("run.success" \in sent[r] /\ "run.failed" \in sent[r])

\* Each time the broker restored a message of S.
Restores(S) == UNION {{m} \X (1..redelivered[m]) : m \in S}

\* However the retries interleave with redeliveries, one trigger makes at most
\* TaskMaxRetries + 1 runs, plus as many for each time the broker restored one
\* of its messages.
AttemptsBounded ==
    \A t \in Triggers :
        LET family == {m \in Msgs : queue[m] # "none" /\ payload[m].root = t}
            runs == {r \in Runs : status[r] # "none" /\ origin[r] \in family}
        IN  Cardinality(runs) <= (TaskMaxRetries + 1) * (1 + Cardinality(Restores(family)))

\* What the API's clients see is the life of runs that RunLifecycle describes:
\* no redelivery, crash, retry or deletion writes an outcome twice, adds or takes
\* away artifacts of a run that has one, announces what was not committed, or
\* brings back a run that is gone.
Life == INSTANCE RunLifecycle WITH
    job <- [r \in Runs |-> IF status[r] = "none" THEN None ELSE JobOf(r)]

LifecycleKept == Life!LifeSpec

\* Every message that reaches the broker is settled in the end: no order of
\* crashes, restores and deletions leaves a task queued for ever.
EverythingSettles ==
    \A m \in Msgs : queue[m] = "ready" ~> queue[m] = "settled"

\* A run does not stay "running" for ever, but for the two cases of
\* RunningIsOwned.
RunsEnd ==
    \A r \in Runs : status[r] = "running" ~>
        \/ status[r] # "running"
        \/ r \in orphaned
        \/ ~(JobDests[JobOf(r)] \subseteq storageRow)

-----------------------------------------------------------------------------
\* i18n.ts, help of the job form's retry field: "Number of times to retry on
\* failure. 0 = no retries."  Without redeliveries, a trigger of job j makes at
\* most JobMaxRetries[j] + 1 runs.
JobRetryBudget ==
    \A t \in Triggers :
        (\A m \in Msgs : redelivered[m] = 0) =>
            Cardinality({r \in Runs : status[r] # "none" /\ payload[origin[r]].root = t})
                <= JobMaxRetries[payload[t].job] + 1

\* notification_channel.py:18 lists run.failed among the triggers: once
\* everything is settled, a trigger whose every run failed was announced.
FailureAnnounced ==
    (\A m \in Msgs : queue[m] \in {"none", "settled"}) =>
        \A t \in Triggers :
            LET runs == {r \in Runs : status[r] # "none" /\ payload[origin[r]].root = t}
            IN  (runs # {} /\ \A r \in runs : status[r] = "failed")
                    => \E r \in runs : "run.failed" \in sent[r]
=============================================================================
