---------------------------- MODULE RunLifecycle ----------------------------
(***************************************************************************)
(* What a client of the API may rely on about runs, their artifacts and    *)
(* their notifications, however many messages, workers, redeliveries and   *)
(* crashes there are behind them.  A run has one outcome; its artifacts    *)
(* come with it, on all destinations of its job or on none; it is          *)
(* announced once, after that, and truly; a cancellation overwrites the    *)
(* status of a run that was running when it was asked for, and nothing     *)
(* else; only the deletion of its job takes a run away.                    *)
(***************************************************************************)
CONSTANTS Runs, Jobs, Storages, JobDests, None

VARIABLES
    jobRow, storageRow,  \* jobs and storages that exist
    job,                 \* per run: its job, None before it starts
    status,              \* per run: its status, "none" before, "gone" after
    finished,            \* runs with an outcome
    art,                 \* artifacts, as <<run, storage>>
    cancelling,          \* runs a client is cancelling
    sent                 \* per run: what was announced of it

lifeVars == <<jobRow, storageRow, job, status, finished, art, cancelling, sent>>

LifeInit ==
    /\ jobRow = Jobs /\ storageRow = Storages
    /\ job = [r \in Runs |-> None]
    /\ status = [r \in Runs |-> "none"]
    /\ finished = {} /\ art = {} /\ cancelling = {}
    /\ sent = [r \in Runs |-> {}]

Start(r, j) ==
    /\ status[r] = "none" /\ j \in jobRow
    /\ status' = [status EXCEPT ![r] = "running"]
    /\ job' = [job EXCEPT ![r] = j]
    /\ UNCHANGED <<jobRow, storageRow, finished, art, cancelling, sent>>

\* A failed run has copies when what failed was the rotation after it.
End(r, outcome) ==
    /\ status[r] \notin {"none", "gone"} /\ r \notin finished
    /\ status' = [status EXCEPT ![r] = outcome]
    /\ finished' = finished \cup {r}
    /\ \E copies \in {{}, JobDests[job[r]]} :
         copies \subseteq storageRow /\ art' = art \cup ({r} \X copies)
    /\ UNCHANGED <<jobRow, storageRow, job, cancelling, sent>>

Announce(r, event) ==
    /\ r \in finished \/ status[r] = "gone"
    /\ sent[r] = {}
    /\ event = "run.success" => status[r] # "failed"
    /\ event = "run.failed" => status[r] # "success" /\ \A a \in art : a[1] # r
    /\ sent' = [sent EXCEPT ![r] = {event}]
    /\ UNCHANGED <<jobRow, storageRow, job, status, finished, art, cancelling>>

AskToCancel(r) ==
    /\ status[r] = "running"
    /\ cancelling' = cancelling \cup {r}
    /\ UNCHANGED <<jobRow, storageRow, job, status, finished, art, sent>>

Cancel(r) ==
    /\ r \in cancelling
    /\ cancelling' = cancelling \ {r}
    /\ status' = [status EXCEPT ![r] = IF @ = "gone" THEN "gone" ELSE "cancelled"]
    /\ UNCHANGED <<jobRow, storageRow, job, finished, art, sent>>

DropJob(j) ==
    LET runs == {r \in Runs : status[r] # "none" /\ job[r] = j}
    IN  /\ j \in jobRow
        /\ jobRow' = jobRow \ {j}
        /\ status' = [r \in Runs |-> IF r \in runs THEN "gone" ELSE status[r]]
        /\ finished' = finished \ runs
        /\ art' = {a \in art : a[1] \notin runs}
        /\ UNCHANGED <<storageRow, job, cancelling, sent>>

DropStorage(s) ==
    /\ s \in storageRow /\ \A a \in art : a[2] # s
    /\ storageRow' = storageRow \ {s}
    /\ UNCHANGED <<jobRow, job, status, finished, art, cancelling, sent>>

LifeNext ==
    \/ \E r \in Runs :
         \/ \E j \in Jobs : Start(r, j)
         \/ \E outcome \in {"success", "failed"} : End(r, outcome)
         \/ \E event \in {"run.success", "run.failed"} : Announce(r, event)
         \/ AskToCancel(r) \/ Cancel(r)
    \/ \E j \in Jobs : DropJob(j)
    \/ \E s \in Storages : DropStorage(s)

LifeSpec == LifeInit /\ [][LifeNext]_lifeVars
=============================================================================
