-------------------------- MODULE BackupRunsProofs --------------------------
(***************************************************************************)
(* The safety properties of BackupRuns for any number of workers, jobs,    *)
(* storages, messages, runs, retries, redeliveries and crashes.            *)
(*                                                                         *)
(* None of the properties is inductive alone.  What carries them is that a *)
(* run has one worker (RanAlone), that an unfinished one has no artifact   *)
(* and no announcement (NothingYet), and that a worker reaches its         *)
(* acknowledgement only when its message has an outcome (DoneWhenSaid).    *)
(* How many runs a trigger makes is counted with slots (SlotInv), one for  *)
(* the trigger's first delivery and one for each restoring of a message.   *)
(* The refinement of RunLifecycle needs Said besides.                      *)
(***************************************************************************)
EXTENDS BackupRuns, FiniteSetTheorems, TLAPS

Reporting == {"tellSuccess", "tellFailure"}

\* Messages in the broker carry a payload, runs in the table have an origin.
WellFormed ==
    /\ \A m \in Msgs : queue[m] # "none" => payload[m] \in Payload
    /\ \A r \in Runs : status[r] # "none" =>
           origin[r] \in Msgs /\ queue[origin[r]] # "none"
    /\ \A w \in Workers : pc[w] # "idle" =>
           holds[w] \in Msgs /\ queue[holds[w]] # "none"

\* A run that is not in the table has left no trace.
Untouched ==
    \A r \in Runs : status[r] = "none" =>
        r \notin finished /\ Copies(r) = {} /\ sent[r] = {} /\ r \notin cancelling

\* A worker past the insertion is at a run that its own message made.
RunOf ==
    \A w \in Workers : pc[w] \in Active \cup Reporting =>
        /\ at[w] \in Runs
        /\ status[at[w]] # "none"
        /\ origin[at[w]] = holds[w]

\* No two workers are at the same run.
RanAlone ==
    \A v, w \in Workers :
        (/\ pc[v] \in Active \cup Reporting
         /\ pc[w] \in Active \cup Reporting
         /\ at[v] = at[w]) => v = w

\* While a worker is on its run, the row has no outcome, whatever the API did.
NothingYet ==
    \A w \in Workers : pc[w] \in Active =>
        /\ at[w] \notin finished
        /\ Copies(at[w]) = {}
        /\ sent[at[w]] = {}

\* What a worker is about to announce has been committed.
AboutToSay ==
    \A w \in Workers :
        /\ pc[w] = "tellSuccess" =>
              /\ sent[at[w]] = {}
              /\ status[at[w]] \in {"success", "cancelled", "gone"}
        /\ pc[w] = "tellFailure" =>
              /\ sent[at[w]] = {}
              /\ status[at[w]] \in {"failed", "cancelled", "gone"}
              /\ Copies(at[w]) = {}

\* A row disappears only with its job.
GoneWithJob == \A r \in Runs : status[r] = "gone" => JobOf(r) \notin jobRow

Done(m) ==
    \/ payload[m].job \notin jobRow
    \/ ~(JobDests[payload[m].job] \subseteq storageRow)
    \/ \E r \in finished : origin[r] = m

DoneWhenSaid ==
    \A w \in Workers : pc[w] \in Reporting \cup {"acking"} => Done(holds[w])

IInv ==
    /\ TypeOK /\ WellFormed /\ Untouched /\ RunOf /\ RanAlone /\ NothingYet
    /\ AboutToSay /\ GoneWithJob /\ DoneWhenSaid
    /\ AllOrNothing /\ RunningIsOwned /\ AnnouncedIsTrue /\ SettledHasOutcome

-----------------------------------------------------------------------------
\* What no step undoes: messages and runs stay what they are once they exist,
\* and rows of jobs and storages only disappear.
Lasting ==
    /\ \A m \in Msgs : queue[m] # "none" =>
           payload'[m] = payload[m] /\ queue'[m] # "none"
    /\ \A r \in Runs : status[r] # "none" =>
           origin'[r] = origin[r] /\ status'[r] # "none"
    /\ jobRow' \subseteq jobRow /\ storageRow' \subseteq storageRow

\* The same for what makes a message done.
DoneLasts == \A m \in Msgs : queue[m] # "none" /\ Done(m) => Done(m)'

\* What a worker at a run knows of it.
LEMMA Working ==
    ASSUME TypeOK, WellFormed, RunOf, NEW w \in Workers,
           pc[w] \in Active \cup Reporting
    PROVE  /\ at[w] \in Runs /\ holds[w] \in Msgs
           /\ status[at[w]] # "none" /\ origin[at[w]] = holds[w]
           /\ queue[holds[w]] # "none" /\ payload[holds[w]] \in Payload
           /\ MyJob(w) = JobOf(at[w]) /\ MyJob(w) \in Jobs
BY DEF WellFormed, RunOf, Active, Reporting, MyJob, JobOf, Payload

\* The same for one that has only a message.
LEMMA Holding ==
    ASSUME TypeOK, WellFormed, NEW w \in Workers, pc[w] # "idle"
    PROVE  /\ holds[w] \in Msgs /\ queue[holds[w]] # "none"
           /\ payload[holds[w]] \in Payload
BY DEF WellFormed

\* Types; a worker's program counter says what its other fields are.
LEMMA TypePreserved == IInv /\ [Next]_vars => TypeOK'
<1> SUFFICES ASSUME IInv, [Next]_vars
             PROVE  TypeOK'
  OBVIOUS
<1> USE DEF IInv, TypeOK, rows, broker, process, ghosts, Goto, Stay, Active,
            Reporting, PC, Event, Payload, MyJob
<1>1. ASSUME NEW j \in Jobs, TriggerJob(j)
      PROVE  TypeOK'
  BY <1>1, ConstantsAssumption, Working, Holding
     DEF TriggerJob, Publish, NextMsg
<1>2. ASSUME NEW j \in Jobs, DeleteJob(j)
      PROVE  TypeOK'
  BY <1>2, ConstantsAssumption, Working, Holding
     DEF DeleteJob
<1>3. ASSUME NEW s \in Storages, DeleteStorage(s)
      PROVE  TypeOK'
  BY <1>3, ConstantsAssumption, Working, Holding
     DEF DeleteStorage
<1>4. ASSUME NEW r \in Runs, CancelRead(r) \/ CancelCommit(r)
      PROVE  TypeOK'
  BY <1>4, ConstantsAssumption, Working, Holding
     DEF CancelRead, CancelCommit
<1>5. ASSUME NEW w \in Workers, NEW m \in Msgs, Take(w, m)
      PROVE  TypeOK'
  BY <1>5, ConstantsAssumption, Working, Holding
     DEF Take
<1>6. ASSUME NEW w \in Workers,
             LoadJob(w) \/ InsertRefused(w) \/ Execute(w) \/ CommitRefused(w)
      PROVE  TypeOK'
  BY <1>6, ConstantsAssumption, Working, Holding
     DEF LoadJob, InsertRefused, Execute, CommitRefused
<1>7. ASSUME NEW w \in Workers, InsertRun(w)
      PROVE  TypeOK'
  BY <1>7, ConstantsAssumption, Working, Holding
     DEF InsertRun, NextRun
<1>8. ASSUME NEW w \in Workers, CommitSuccess(w) \/ RotationError(w)
      PROVE  TypeOK'
  BY <1>8, ConstantsAssumption, Working, Holding
     DEF CommitSuccess, RotationError, CanFlush, NewArtifacts
<1>9. ASSUME NEW w \in Workers, Retry(w)
      PROVE  TypeOK'
  <2>1. PICK mine \in Payload : mine = payload[holds[w]]
    BY <1>9, Holding DEF Retry
  <2>2. CASE mine.retries < TaskMaxRetries
    <3>1. PICK m \in Msgs : Publish(m, mine.job, mine.retries + 1, mine.root)
      BY <1>9, <2>1, <2>2 DEF Retry
    <3>2. [job |-> mine.job, retries |-> mine.retries + 1, root |-> mine.root] \in Payload
      BY <2>2, ConstantsAssumption
    <3>3. queue' \in [Msgs -> {"none", "ready", "unacked", "settled"}]
          /\ payload' \in [Msgs -> Payload \cup {None}]
      BY <3>1, <3>2 DEF Publish
    <3> QED BY <1>9, <3>1, <3>3 DEF Retry, Publish
  <2>3. CASE ~(mine.retries < TaskMaxRetries)
    BY <1>9, <2>1, <2>3 DEF Retry
  <2> QED BY <2>2, <2>3
<1>10. ASSUME NEW w \in Workers, CommitFailure(w)
      PROVE  TypeOK'
  BY <1>10, ConstantsAssumption, Working, Holding
     DEF CommitFailure
<1>11. ASSUME NEW w \in Workers, Notify(w)
      PROVE  TypeOK'
  BY <1>11, ConstantsAssumption, Working, Holding
     DEF Notify
<1>12. ASSUME NEW w \in Workers, Ack(w)
      PROVE  TypeOK'
  BY <1>12, ConstantsAssumption, Working, Holding
     DEF Ack, Settle, Free
<1>13. ASSUME Crash
      PROVE  TypeOK'
  BY <1>13, ConstantsAssumption, Working, Holding
     DEF Crash, LeftBehind
<1>14. ASSUME NEW w \in Workers, ChildLost(w)
      PROVE  TypeOK'
  BY <1>14, ConstantsAssumption, Working, Holding
     DEF ChildLost, Settle, Free, LeftBehind
<1>15. ASSUME NEW m \in Msgs, RestoreOrphan(m) \/ RestoreLate(m)
      PROVE  TypeOK'
  <2>1. RestoreMsg(m)
    BY <1>15 DEF RestoreOrphan, RestoreLate
  <2> QED BY <2>1 DEF RestoreMsg
<1>16. CASE UNCHANGED vars
  BY <1>16 DEF vars
<1> QED BY <1>1, <1>2, <1>3, <1>4, <1>5, <1>6, <1>7, <1>8, <1>9, <1>10, <1>11,
           <1>12, <1>13, <1>14, <1>15, <1>16
       DEF Next, Api, WorkerStep, Faults

\* Messages, runs and deletions last.
LEMMA Persistence == IInv /\ [Next]_vars => Lasting
<1> SUFFICES ASSUME IInv, [Next]_vars
             PROVE  Lasting
  OBVIOUS
<1> USE DEF IInv, TypeOK, rows, broker, process, ghosts, Goto, Stay, Lasting
<1>1. ASSUME NEW j \in Jobs, TriggerJob(j)
      PROVE  Lasting
  BY <1>1
     DEF TriggerJob, Publish, NextMsg
<1>2. ASSUME NEW j \in Jobs, DeleteJob(j)
      PROVE  Lasting
  BY <1>2
     DEF DeleteJob
<1>3. ASSUME NEW s \in Storages, DeleteStorage(s)
      PROVE  Lasting
  BY <1>3
     DEF DeleteStorage
<1>4. ASSUME NEW r \in Runs, CancelRead(r) \/ CancelCommit(r)
      PROVE  Lasting
  BY <1>4
     DEF CancelRead, CancelCommit
<1>5. ASSUME NEW w \in Workers, NEW m \in Msgs, Take(w, m)
      PROVE  Lasting
  BY <1>5
     DEF Take
<1>6. ASSUME NEW w \in Workers,
             LoadJob(w) \/ InsertRefused(w) \/ Execute(w) \/ CommitRefused(w)
      PROVE  Lasting
  BY <1>6
     DEF LoadJob, InsertRefused, Execute, CommitRefused
<1>7. ASSUME NEW w \in Workers, InsertRun(w)
      PROVE  Lasting
  BY <1>7
     DEF InsertRun, NextRun
<1>8. ASSUME NEW w \in Workers, CommitSuccess(w) \/ RotationError(w)
      PROVE  Lasting
  BY <1>8
     DEF CommitSuccess, RotationError, CanFlush, NewArtifacts
<1>9. ASSUME NEW w \in Workers, Retry(w)
      PROVE  Lasting
  BY <1>9
     DEF Retry, Publish, NextMsg
<1>10. ASSUME NEW w \in Workers, CommitFailure(w)
      PROVE  Lasting
  BY <1>10
     DEF CommitFailure
<1>11. ASSUME NEW w \in Workers, Notify(w)
      PROVE  Lasting
  BY <1>11
     DEF Notify
<1>12. ASSUME NEW w \in Workers, Ack(w)
      PROVE  Lasting
  BY <1>12
     DEF Ack, Settle, Free
<1>13. ASSUME Crash
      PROVE  Lasting
  BY <1>13
     DEF Crash, LeftBehind
<1>14. ASSUME NEW w \in Workers, ChildLost(w)
      PROVE  Lasting
  BY <1>14
     DEF ChildLost, Settle, Free, LeftBehind
<1>15. ASSUME NEW m \in Msgs, RestoreOrphan(m) \/ RestoreLate(m)
      PROVE  Lasting
  BY <1>15
     DEF RestoreOrphan, RestoreLate, RestoreMsg
<1>16. CASE UNCHANGED vars
  BY <1>16 DEF vars
<1> QED BY <1>1, <1>2, <1>3, <1>4, <1>5, <1>6, <1>7, <1>8, <1>9, <1>10, <1>11,
           <1>12, <1>13, <1>14, <1>15, <1>16
       DEF Next, Api, WorkerStep, Faults

\* Only Publish and InsertRun fill a slot, and they fill all of it.
LEMMA WellFormedPreserved == IInv /\ [Next]_vars => WellFormed'
<1> SUFFICES ASSUME IInv, [Next]_vars
             PROVE  WellFormed'
  OBVIOUS
<1> USE DEF IInv, TypeOK, rows, broker, process, ghosts, Goto, Stay,
            WellFormed, Untouched, Lasting, Payload, Active
<1>1. ASSUME NEW j \in Jobs, TriggerJob(j)
      PROVE  WellFormed'
  BY <1>1, Persistence, TypePreserved, ConstantsAssumption, Working, Holding
     DEF TriggerJob, Publish, NextMsg
<1>2. ASSUME NEW j \in Jobs, DeleteJob(j)
      PROVE  WellFormed'
  BY <1>2, Persistence, TypePreserved, ConstantsAssumption, Working, Holding
     DEF DeleteJob
<1>3. ASSUME NEW s \in Storages, DeleteStorage(s)
      PROVE  WellFormed'
  BY <1>3, Persistence, TypePreserved, ConstantsAssumption, Working, Holding
     DEF DeleteStorage
<1>4. ASSUME NEW r \in Runs, CancelRead(r) \/ CancelCommit(r)
      PROVE  WellFormed'
  BY <1>4, Persistence, TypePreserved, ConstantsAssumption, Working, Holding
     DEF CancelRead, CancelCommit
<1>5. ASSUME NEW w \in Workers, NEW m \in Msgs, Take(w, m)
      PROVE  WellFormed'
  BY <1>5, Persistence, TypePreserved, ConstantsAssumption, Working, Holding
     DEF Take
<1>6. ASSUME NEW w \in Workers,
             LoadJob(w) \/ InsertRefused(w) \/ Execute(w) \/ CommitRefused(w)
      PROVE  WellFormed'
  BY <1>6, Persistence, TypePreserved, ConstantsAssumption, Working, Holding
     DEF LoadJob, InsertRefused, Execute, CommitRefused
<1>7. ASSUME NEW w \in Workers, InsertRun(w)
      PROVE  WellFormed'
  BY <1>7, Persistence, TypePreserved, ConstantsAssumption, Working, Holding
     DEF InsertRun, NextRun
<1>8. ASSUME NEW w \in Workers, CommitSuccess(w) \/ RotationError(w)
      PROVE  WellFormed'
  BY <1>8, Persistence, TypePreserved, ConstantsAssumption, Working, Holding
     DEF CommitSuccess, RotationError, CanFlush, NewArtifacts
<1>9. ASSUME NEW w \in Workers, Retry(w)
      PROVE  WellFormed'
  <2>1. UNCHANGED <<rows, cancelling, ghosts, holds>> /\ pc' = [pc EXCEPT ![w] = "failing"]
    BY <1>9 DEF Retry
  <2>2. CASE UNCHANGED broker
    BY <1>9, <2>1, <2>2 DEF Retry
  <2>3. ASSUME NEW m \in Msgs, NEW p \in Payload,
               NextMsg(m), queue' = [queue EXCEPT ![m] = "ready"],
               payload' = [payload EXCEPT ![m] = p]
        PROVE  WellFormed'
    BY <1>9, <2>1, <2>3 DEF Retry, NextMsg
  <2>4. PICK mine : mine = payload[holds[w]]
    OBVIOUS
  <2>5. mine \in Payload
    BY <1>9, <2>4, Holding DEF Retry
  <2>6. ASSUME NEW m \in Msgs, mine.retries < TaskMaxRetries,
               Publish(m, mine.job, mine.retries + 1, mine.root)
        PROVE  WellFormed'
    <3>1. [job |-> mine.job, retries |-> mine.retries + 1, root |-> mine.root] \in Payload
      BY <2>5, <2>6, ConstantsAssumption
    <3> QED BY <2>3, <2>6, <3>1 DEF Publish
  <2> QED BY <1>9, <2>2, <2>4, <2>6 DEF Retry
<1>10. ASSUME NEW w \in Workers, CommitFailure(w)
      PROVE  WellFormed'
  BY <1>10, Persistence, TypePreserved, ConstantsAssumption, Working, Holding
     DEF CommitFailure
<1>11. ASSUME NEW w \in Workers, Notify(w)
      PROVE  WellFormed'
  BY <1>11, Persistence, TypePreserved, ConstantsAssumption, Working, Holding
     DEF Notify
<1>12. ASSUME NEW w \in Workers, Ack(w)
      PROVE  WellFormed'
  BY <1>12, Persistence, TypePreserved, ConstantsAssumption, Working, Holding
     DEF Ack, Settle, Free
<1>13. ASSUME Crash
      PROVE  WellFormed'
  BY <1>13, Persistence, TypePreserved, ConstantsAssumption, Working, Holding
     DEF Crash, LeftBehind
<1>14. ASSUME NEW w \in Workers, ChildLost(w)
      PROVE  WellFormed'
  BY <1>14, Persistence, TypePreserved, ConstantsAssumption, Working, Holding
     DEF ChildLost, Settle, Free, LeftBehind
<1>15. ASSUME NEW m \in Msgs, RestoreOrphan(m) \/ RestoreLate(m)
      PROVE  WellFormed'
  BY <1>15, Persistence, TypePreserved, ConstantsAssumption, Working, Holding
     DEF RestoreOrphan, RestoreLate, RestoreMsg
<1>16. CASE UNCHANGED vars
  BY <1>16 DEF vars
<1> QED BY <1>1, <1>2, <1>3, <1>4, <1>5, <1>6, <1>7, <1>8, <1>9, <1>10, <1>11,
           <1>12, <1>13, <1>14, <1>15, <1>16
       DEF Next, Api, WorkerStep, Faults

\* Nothing refers to a run before InsertRun makes it.
LEMMA UntouchedPreserved == IInv /\ [Next]_vars => Untouched'
<1> SUFFICES ASSUME IInv, [Next]_vars
             PROVE  Untouched'
  OBVIOUS
<1> USE DEF IInv, TypeOK, rows, broker, process, ghosts, Goto, Stay,
            Untouched, Copies, Active, Reporting
<1>1. ASSUME NEW j \in Jobs, TriggerJob(j)
      PROVE  Untouched'
  BY <1>1, Persistence, Working
     DEF TriggerJob, Publish, NextMsg
<1>2. ASSUME NEW j \in Jobs, DeleteJob(j)
      PROVE  Untouched'
  BY <1>2, Persistence, Working
     DEF DeleteJob
<1>3. ASSUME NEW s \in Storages, DeleteStorage(s)
      PROVE  Untouched'
  BY <1>3, Persistence, Working
     DEF DeleteStorage
<1>4. ASSUME NEW r \in Runs, CancelRead(r) \/ CancelCommit(r)
      PROVE  Untouched'
  BY <1>4, Persistence, Working
     DEF CancelRead, CancelCommit
<1>5. ASSUME NEW w \in Workers, NEW m \in Msgs, Take(w, m)
      PROVE  Untouched'
  BY <1>5, Persistence, Working
     DEF Take
<1>6. ASSUME NEW w \in Workers,
             LoadJob(w) \/ InsertRefused(w) \/ Execute(w) \/ CommitRefused(w)
      PROVE  Untouched'
  BY <1>6, Persistence, Working
     DEF LoadJob, InsertRefused, Execute, CommitRefused
<1>7. ASSUME NEW w \in Workers, InsertRun(w)
      PROVE  Untouched'
  BY <1>7, Persistence, Working
     DEF InsertRun, NextRun
<1>8. ASSUME NEW w \in Workers, CommitSuccess(w) \/ RotationError(w)
      PROVE  Untouched'
  BY <1>8, Persistence, Working
     DEF CommitSuccess, RotationError, CanFlush, NewArtifacts
<1>9. ASSUME NEW w \in Workers, Retry(w)
      PROVE  Untouched'
  BY <1>9, Persistence, Working
     DEF Retry, Publish, NextMsg
<1>10. ASSUME NEW w \in Workers, CommitFailure(w)
      PROVE  Untouched'
  BY <1>10, Persistence, Working
     DEF CommitFailure
<1>11. ASSUME NEW w \in Workers, Notify(w)
      PROVE  Untouched'
  BY <1>11, Persistence, Working
     DEF Notify
<1>12. ASSUME NEW w \in Workers, Ack(w)
      PROVE  Untouched'
  BY <1>12, Persistence, Working
     DEF Ack, Settle, Free
<1>13. ASSUME Crash
      PROVE  Untouched'
  BY <1>13, Persistence, Working
     DEF Crash, LeftBehind
<1>14. ASSUME NEW w \in Workers, ChildLost(w)
      PROVE  Untouched'
  BY <1>14, Persistence, Working
     DEF ChildLost, Settle, Free, LeftBehind
<1>15. ASSUME NEW m \in Msgs, RestoreOrphan(m) \/ RestoreLate(m)
      PROVE  Untouched'
  BY <1>15, Persistence, Working
     DEF RestoreOrphan, RestoreLate, RestoreMsg
<1>16. CASE UNCHANGED vars
  BY <1>16 DEF vars
<1> QED BY <1>1, <1>2, <1>3, <1>4, <1>5, <1>6, <1>7, <1>8, <1>9, <1>10, <1>11,
           <1>12, <1>13, <1>14, <1>15, <1>16
       DEF Next, Api, WorkerStep, Faults

\* Only InsertRun places a worker at a run, at the one it creates.
LEMMA RunOfPreserved == IInv /\ [Next]_vars => RunOf'
<1> SUFFICES ASSUME IInv, [Next]_vars
             PROVE  RunOf'
  OBVIOUS
<1> USE DEF IInv, TypeOK, rows, broker, process, ghosts, Goto, Stay, RunOf,
            Lasting, Active, Reporting
<1>1. ASSUME NEW j \in Jobs, TriggerJob(j)
      PROVE  RunOf'
  BY <1>1, Persistence, Working
     DEF TriggerJob, Publish, NextMsg
<1>2. ASSUME NEW j \in Jobs, DeleteJob(j)
      PROVE  RunOf'
  BY <1>2, Persistence, Working
     DEF DeleteJob
<1>3. ASSUME NEW s \in Storages, DeleteStorage(s)
      PROVE  RunOf'
  BY <1>3, Persistence, Working
     DEF DeleteStorage
<1>4. ASSUME NEW r \in Runs, CancelRead(r) \/ CancelCommit(r)
      PROVE  RunOf'
  BY <1>4, Persistence, Working
     DEF CancelRead, CancelCommit
<1>5. ASSUME NEW w \in Workers, NEW m \in Msgs, Take(w, m)
      PROVE  RunOf'
  BY <1>5, Persistence, Working
     DEF Take
<1>6. ASSUME NEW w \in Workers,
             LoadJob(w) \/ InsertRefused(w) \/ Execute(w) \/ CommitRefused(w)
      PROVE  RunOf'
  BY <1>6, Persistence, Working
     DEF LoadJob, InsertRefused, Execute, CommitRefused
<1>7. ASSUME NEW w \in Workers, InsertRun(w)
      PROVE  RunOf'
  BY <1>7, Persistence, Working
     DEF InsertRun, NextRun
<1>8. ASSUME NEW w \in Workers, CommitSuccess(w) \/ RotationError(w)
      PROVE  RunOf'
  BY <1>8, Persistence, Working
     DEF CommitSuccess, RotationError, CanFlush, NewArtifacts
<1>9. ASSUME NEW w \in Workers, Retry(w)
      PROVE  RunOf'
  BY <1>9, Persistence, Working
     DEF Retry, Publish, NextMsg
<1>10. ASSUME NEW w \in Workers, CommitFailure(w)
      PROVE  RunOf'
  BY <1>10, Persistence, Working
     DEF CommitFailure
<1>11. ASSUME NEW w \in Workers, Notify(w)
      PROVE  RunOf'
  BY <1>11, Persistence, Working
     DEF Notify
<1>12. ASSUME NEW w \in Workers, Ack(w)
      PROVE  RunOf'
  BY <1>12, Persistence, Working
     DEF Ack, Settle, Free
<1>13. ASSUME Crash
      PROVE  RunOf'
  BY <1>13, Persistence, Working
     DEF Crash, LeftBehind
<1>14. ASSUME NEW w \in Workers, ChildLost(w)
      PROVE  RunOf'
  BY <1>14, Persistence, Working
     DEF ChildLost, Settle, Free, LeftBehind
<1>15. ASSUME NEW m \in Msgs, RestoreOrphan(m) \/ RestoreLate(m)
      PROVE  RunOf'
  BY <1>15, Persistence, Working
     DEF RestoreOrphan, RestoreLate, RestoreMsg
<1>16. CASE UNCHANGED vars
  BY <1>16 DEF vars
<1> QED BY <1>1, <1>2, <1>3, <1>4, <1>5, <1>6, <1>7, <1>8, <1>9, <1>10, <1>11,
           <1>12, <1>13, <1>14, <1>15, <1>16
       DEF Next, Api, WorkerStep, Faults

\* InsertRun takes a run no worker is at, because every worker's run exists.
LEMMA RanAlonePreserved == IInv /\ [Next]_vars => RanAlone'
<1> SUFFICES ASSUME IInv, [Next]_vars
             PROVE  RanAlone'
  OBVIOUS
<1> USE DEF IInv, TypeOK, rows, broker, process, ghosts, Goto, Stay, RanAlone,
            Active, Reporting
<1>1. ASSUME NEW j \in Jobs, TriggerJob(j)
      PROVE  RanAlone'
  BY <1>1, Working
     DEF TriggerJob, Publish, NextMsg
<1>2. ASSUME NEW j \in Jobs, DeleteJob(j)
      PROVE  RanAlone'
  BY <1>2, Working
     DEF DeleteJob
<1>3. ASSUME NEW s \in Storages, DeleteStorage(s)
      PROVE  RanAlone'
  BY <1>3, Working
     DEF DeleteStorage
<1>4. ASSUME NEW r \in Runs, CancelRead(r) \/ CancelCommit(r)
      PROVE  RanAlone'
  BY <1>4, Working
     DEF CancelRead, CancelCommit
<1>5. ASSUME NEW w \in Workers, NEW m \in Msgs, Take(w, m)
      PROVE  RanAlone'
  BY <1>5, Working
     DEF Take
<1>6. ASSUME NEW w \in Workers,
             LoadJob(w) \/ InsertRefused(w) \/ Execute(w) \/ CommitRefused(w)
      PROVE  RanAlone'
  BY <1>6, Working
     DEF LoadJob, InsertRefused, Execute, CommitRefused
<1>7. ASSUME NEW w \in Workers, InsertRun(w)
      PROVE  RanAlone'
  BY <1>7, Working
     DEF InsertRun, NextRun
<1>8. ASSUME NEW w \in Workers, CommitSuccess(w) \/ RotationError(w)
      PROVE  RanAlone'
  BY <1>8, Working
     DEF CommitSuccess, RotationError, CanFlush, NewArtifacts
<1>9. ASSUME NEW w \in Workers, Retry(w)
      PROVE  RanAlone'
  BY <1>9, Working
     DEF Retry, Publish, NextMsg
<1>10. ASSUME NEW w \in Workers, CommitFailure(w)
      PROVE  RanAlone'
  BY <1>10, Working
     DEF CommitFailure
<1>11. ASSUME NEW w \in Workers, Notify(w)
      PROVE  RanAlone'
  BY <1>11, Working
     DEF Notify
<1>12. ASSUME NEW w \in Workers, Ack(w)
      PROVE  RanAlone'
  BY <1>12, Working
     DEF Ack, Settle, Free
<1>13. ASSUME Crash
      PROVE  RanAlone'
  BY <1>13, Working
     DEF Crash, LeftBehind
<1>14. ASSUME NEW w \in Workers, ChildLost(w)
      PROVE  RanAlone'
  BY <1>14, Working
     DEF ChildLost, Settle, Free, LeftBehind
<1>15. ASSUME NEW m \in Msgs, RestoreOrphan(m) \/ RestoreLate(m)
      PROVE  RanAlone'
  BY <1>15, Working
     DEF RestoreOrphan, RestoreLate, RestoreMsg
<1>16. CASE UNCHANGED vars
  BY <1>16 DEF vars
<1> QED BY <1>1, <1>2, <1>3, <1>4, <1>5, <1>6, <1>7, <1>8, <1>9, <1>10, <1>11,
           <1>12, <1>13, <1>14, <1>15, <1>16
       DEF Next, Api, WorkerStep, Faults

\* An outcome is written only by the worker at the run, which then leaves Active.
LEMMA NothingYetPreserved == IInv /\ [Next]_vars => NothingYet'
<1> SUFFICES ASSUME IInv, [Next]_vars
             PROVE  NothingYet'
  OBVIOUS
<1> USE DEF IInv, TypeOK, rows, broker, process, ghosts, Goto, Stay,
            NothingYet, RanAlone, RunOf, Untouched, Copies, Active, Reporting
<1>1. ASSUME NEW j \in Jobs, TriggerJob(j)
      PROVE  NothingYet'
  BY <1>1, Working
     DEF TriggerJob, Publish, NextMsg
<1>2. ASSUME NEW j \in Jobs, DeleteJob(j)
      PROVE  NothingYet'
  BY <1>2, Working
     DEF DeleteJob
<1>3. ASSUME NEW s \in Storages, DeleteStorage(s)
      PROVE  NothingYet'
  BY <1>3, Working
     DEF DeleteStorage
<1>4. ASSUME NEW r \in Runs, CancelRead(r) \/ CancelCommit(r)
      PROVE  NothingYet'
  BY <1>4, Working
     DEF CancelRead, CancelCommit
<1>5. ASSUME NEW w \in Workers, NEW m \in Msgs, Take(w, m)
      PROVE  NothingYet'
  BY <1>5, Working
     DEF Take
<1>6. ASSUME NEW w \in Workers,
             LoadJob(w) \/ InsertRefused(w) \/ Execute(w) \/ CommitRefused(w)
      PROVE  NothingYet'
  BY <1>6, Working
     DEF LoadJob, InsertRefused, Execute, CommitRefused
<1>7. ASSUME NEW w \in Workers, InsertRun(w)
      PROVE  NothingYet'
  BY <1>7, Working
     DEF InsertRun, NextRun
<1>8. ASSUME NEW w \in Workers, CommitSuccess(w) \/ RotationError(w)
      PROVE  NothingYet'
  BY <1>8, Working
     DEF CommitSuccess, RotationError, CanFlush, NewArtifacts
<1>9. ASSUME NEW w \in Workers, Retry(w)
      PROVE  NothingYet'
  BY <1>9, Working
     DEF Retry, Publish, NextMsg
<1>10. ASSUME NEW w \in Workers, CommitFailure(w)
      PROVE  NothingYet'
  BY <1>10, Working
     DEF CommitFailure
<1>11. ASSUME NEW w \in Workers, Notify(w)
      PROVE  NothingYet'
  BY <1>11, Working
     DEF Notify
<1>12. ASSUME NEW w \in Workers, Ack(w)
      PROVE  NothingYet'
  BY <1>12, Working
     DEF Ack, Settle, Free
<1>13. ASSUME Crash
      PROVE  NothingYet'
  BY <1>13, Working
     DEF Crash, LeftBehind
<1>14. ASSUME NEW w \in Workers, ChildLost(w)
      PROVE  NothingYet'
  BY <1>14, Working
     DEF ChildLost, Settle, Free, LeftBehind
<1>15. ASSUME NEW m \in Msgs, RestoreOrphan(m) \/ RestoreLate(m)
      PROVE  NothingYet'
  BY <1>15, Working
     DEF RestoreOrphan, RestoreLate, RestoreMsg
<1>16. CASE UNCHANGED vars
  BY <1>16 DEF vars
<1> QED BY <1>1, <1>2, <1>3, <1>4, <1>5, <1>6, <1>7, <1>8, <1>9, <1>10, <1>11,
           <1>12, <1>13, <1>14, <1>15, <1>16
       DEF Next, Api, WorkerStep, Faults

\* Between the commit of an outcome and its announcement only the API writes.
LEMMA AboutToSayPreserved == IInv /\ [Next]_vars => AboutToSay'
<1> SUFFICES ASSUME IInv, [Next]_vars
             PROVE  AboutToSay'
  OBVIOUS
<1> USE DEF IInv, TypeOK, rows, broker, process, ghosts, Goto, Stay,
            AboutToSay, NothingYet, RanAlone, RunOf, Untouched, Copies,
            Active, Reporting
<1>1. ASSUME NEW j \in Jobs, TriggerJob(j)
      PROVE  AboutToSay'
  BY <1>1, Working
     DEF TriggerJob, Publish, NextMsg
<1>2. ASSUME NEW j \in Jobs, DeleteJob(j)
      PROVE  AboutToSay'
  BY <1>2, Working
     DEF DeleteJob
<1>3. ASSUME NEW s \in Storages, DeleteStorage(s)
      PROVE  AboutToSay'
  BY <1>3, Working
     DEF DeleteStorage
<1>4. ASSUME NEW r \in Runs, CancelRead(r) \/ CancelCommit(r)
      PROVE  AboutToSay'
  BY <1>4, Working
     DEF CancelRead, CancelCommit
<1>5. ASSUME NEW w \in Workers, NEW m \in Msgs, Take(w, m)
      PROVE  AboutToSay'
  BY <1>5, Working
     DEF Take
<1>6. ASSUME NEW w \in Workers,
             LoadJob(w) \/ InsertRefused(w) \/ Execute(w) \/ CommitRefused(w)
      PROVE  AboutToSay'
  BY <1>6, Working
     DEF LoadJob, InsertRefused, Execute, CommitRefused
<1>7. ASSUME NEW w \in Workers, InsertRun(w)
      PROVE  AboutToSay'
  BY <1>7, Working
     DEF InsertRun, NextRun
<1>8. ASSUME NEW w \in Workers, CommitSuccess(w) \/ RotationError(w)
      PROVE  AboutToSay'
  BY <1>8, Working
     DEF CommitSuccess, RotationError, CanFlush, NewArtifacts
<1>9. ASSUME NEW w \in Workers, Retry(w)
      PROVE  AboutToSay'
  BY <1>9, Working
     DEF Retry, Publish, NextMsg
<1>10. ASSUME NEW w \in Workers, CommitFailure(w)
      PROVE  AboutToSay'
  BY <1>10, Working
     DEF CommitFailure
<1>11. ASSUME NEW w \in Workers, Notify(w)
      PROVE  AboutToSay'
  BY <1>11, Working
     DEF Notify
<1>12. ASSUME NEW w \in Workers, Ack(w)
      PROVE  AboutToSay'
  BY <1>12, Working
     DEF Ack, Settle, Free
<1>13. ASSUME Crash
      PROVE  AboutToSay'
  BY <1>13, Working
     DEF Crash, LeftBehind
<1>14. ASSUME NEW w \in Workers, ChildLost(w)
      PROVE  AboutToSay'
  BY <1>14, Working
     DEF ChildLost, Settle, Free, LeftBehind
<1>15. ASSUME NEW m \in Msgs, RestoreOrphan(m) \/ RestoreLate(m)
      PROVE  AboutToSay'
  BY <1>15, Working
     DEF RestoreOrphan, RestoreLate, RestoreMsg
<1>16. CASE UNCHANGED vars
  BY <1>16 DEF vars
<1> QED BY <1>1, <1>2, <1>3, <1>4, <1>5, <1>6, <1>7, <1>8, <1>9, <1>10, <1>11,
           <1>12, <1>13, <1>14, <1>15, <1>16
       DEF Next, Api, WorkerStep, Faults

\* DeleteJob is the only step that removes rows, and no job comes back.
LEMMA GoneWithJobPreserved == IInv /\ [Next]_vars => GoneWithJob'
<1> SUFFICES ASSUME IInv, [Next]_vars
             PROVE  GoneWithJob'
  OBVIOUS
<1> USE DEF IInv, TypeOK, rows, broker, process, ghosts, Goto, Stay,
            GoneWithJob, Lasting, WellFormed, JobOf, Active, Reporting
<1>1. ASSUME NEW j \in Jobs, TriggerJob(j)
      PROVE  GoneWithJob'
  BY <1>1, Persistence, Working
     DEF TriggerJob, Publish, NextMsg
<1>2. ASSUME NEW j \in Jobs, DeleteJob(j)
      PROVE  GoneWithJob'
  BY <1>2, Persistence, Working
     DEF DeleteJob
<1>3. ASSUME NEW s \in Storages, DeleteStorage(s)
      PROVE  GoneWithJob'
  BY <1>3, Persistence, Working
     DEF DeleteStorage
<1>4. ASSUME NEW r \in Runs, CancelRead(r) \/ CancelCommit(r)
      PROVE  GoneWithJob'
  BY <1>4, Persistence, Working
     DEF CancelRead, CancelCommit
<1>5. ASSUME NEW w \in Workers, NEW m \in Msgs, Take(w, m)
      PROVE  GoneWithJob'
  BY <1>5, Persistence, Working
     DEF Take
<1>6. ASSUME NEW w \in Workers,
             LoadJob(w) \/ InsertRefused(w) \/ Execute(w) \/ CommitRefused(w)
      PROVE  GoneWithJob'
  BY <1>6, Persistence, Working
     DEF LoadJob, InsertRefused, Execute, CommitRefused
<1>7. ASSUME NEW w \in Workers, InsertRun(w)
      PROVE  GoneWithJob'
  BY <1>7, Persistence, Working
     DEF InsertRun, NextRun
<1>8. ASSUME NEW w \in Workers, CommitSuccess(w) \/ RotationError(w)
      PROVE  GoneWithJob'
  BY <1>8, Persistence, Working
     DEF CommitSuccess, RotationError, CanFlush, NewArtifacts
<1>9. ASSUME NEW w \in Workers, Retry(w)
      PROVE  GoneWithJob'
  BY <1>9, Persistence, Working
     DEF Retry, Publish, NextMsg
<1>10. ASSUME NEW w \in Workers, CommitFailure(w)
      PROVE  GoneWithJob'
  BY <1>10, Persistence, Working
     DEF CommitFailure
<1>11. ASSUME NEW w \in Workers, Notify(w)
      PROVE  GoneWithJob'
  BY <1>11, Persistence, Working
     DEF Notify
<1>12. ASSUME NEW w \in Workers, Ack(w)
      PROVE  GoneWithJob'
  BY <1>12, Persistence, Working
     DEF Ack, Settle, Free
<1>13. ASSUME Crash
      PROVE  GoneWithJob'
  BY <1>13, Persistence, Working
     DEF Crash, LeftBehind
<1>14. ASSUME NEW w \in Workers, ChildLost(w)
      PROVE  GoneWithJob'
  BY <1>14, Persistence, Working
     DEF ChildLost, Settle, Free, LeftBehind
<1>15. ASSUME NEW m \in Msgs, RestoreOrphan(m) \/ RestoreLate(m)
      PROVE  GoneWithJob'
  BY <1>15, Persistence, Working
     DEF RestoreOrphan, RestoreLate, RestoreMsg
<1>16. CASE UNCHANGED vars
  BY <1>16 DEF vars
<1> QED BY <1>1, <1>2, <1>3, <1>4, <1>5, <1>6, <1>7, <1>8, <1>9, <1>10, <1>11,
           <1>12, <1>13, <1>14, <1>15, <1>16
       DEF Next, Api, WorkerStep, Faults

\* What makes a message done is not undone: a finished run disappears only with
\* its job.
LEMMA DoneStays == IInv /\ [Next]_vars => DoneLasts
<1> SUFFICES ASSUME IInv, [Next]_vars
             PROVE  DoneLasts
  OBVIOUS
<1> USE DEF IInv, TypeOK, rows, broker, process, ghosts, Goto, Stay,
            DoneLasts, Done, Lasting, WellFormed, Untouched, JobOf, Active,
            Reporting
<1>1. ASSUME NEW j \in Jobs, TriggerJob(j)
      PROVE  DoneLasts
  BY <1>1, Persistence, Working
     DEF TriggerJob, Publish, NextMsg
<1>2. ASSUME NEW j \in Jobs, DeleteJob(j)
      PROVE  DoneLasts
  BY <1>2, Persistence, Working
     DEF DeleteJob
<1>3. ASSUME NEW s \in Storages, DeleteStorage(s)
      PROVE  DoneLasts
  BY <1>3, Persistence, Working
     DEF DeleteStorage
<1>4. ASSUME NEW r \in Runs, CancelRead(r) \/ CancelCommit(r)
      PROVE  DoneLasts
  BY <1>4, Persistence, Working
     DEF CancelRead, CancelCommit
<1>5. ASSUME NEW w \in Workers, NEW m \in Msgs, Take(w, m)
      PROVE  DoneLasts
  BY <1>5, Persistence, Working
     DEF Take
<1>6. ASSUME NEW w \in Workers,
             LoadJob(w) \/ InsertRefused(w) \/ Execute(w) \/ CommitRefused(w)
      PROVE  DoneLasts
  BY <1>6, Persistence, Working
     DEF LoadJob, InsertRefused, Execute, CommitRefused
<1>7. ASSUME NEW w \in Workers, InsertRun(w)
      PROVE  DoneLasts
  BY <1>7, Persistence, Working
     DEF InsertRun, NextRun
<1>8. ASSUME NEW w \in Workers, CommitSuccess(w) \/ RotationError(w)
      PROVE  DoneLasts
  BY <1>8, Persistence, Working
     DEF CommitSuccess, RotationError, CanFlush, NewArtifacts
<1>9. ASSUME NEW w \in Workers, Retry(w)
      PROVE  DoneLasts
  BY <1>9, Persistence, Working
     DEF Retry, Publish, NextMsg
<1>10. ASSUME NEW w \in Workers, CommitFailure(w)
      PROVE  DoneLasts
  BY <1>10, Persistence, Working
     DEF CommitFailure
<1>11. ASSUME NEW w \in Workers, Notify(w)
      PROVE  DoneLasts
  BY <1>11, Persistence, Working
     DEF Notify
<1>12. ASSUME NEW w \in Workers, Ack(w)
      PROVE  DoneLasts
  BY <1>12, Persistence, Working
     DEF Ack, Settle, Free
<1>13. ASSUME Crash
      PROVE  DoneLasts
  BY <1>13, Persistence, Working
     DEF Crash, LeftBehind
<1>14. ASSUME NEW w \in Workers, ChildLost(w)
      PROVE  DoneLasts
  BY <1>14, Persistence, Working
     DEF ChildLost, Settle, Free, LeftBehind
<1>15. ASSUME NEW m \in Msgs, RestoreOrphan(m) \/ RestoreLate(m)
      PROVE  DoneLasts
  BY <1>15, Persistence, Working
     DEF RestoreOrphan, RestoreLate, RestoreMsg
<1>16. CASE UNCHANGED vars
  BY <1>16 DEF vars
<1> QED BY <1>1, <1>2, <1>3, <1>4, <1>5, <1>6, <1>7, <1>8, <1>9, <1>10, <1>11,
           <1>12, <1>13, <1>14, <1>15, <1>16
       DEF Next, Api, WorkerStep, Faults

\* Every way out of the task leads over a committed outcome or an excuse.
LEMMA DoneWhenSaidPreserved == IInv /\ [Next]_vars => DoneWhenSaid'
<1> SUFFICES ASSUME IInv, [Next]_vars
             PROVE  DoneWhenSaid'
  OBVIOUS
<1> USE DEF IInv, TypeOK, rows, broker, process, ghosts, Goto, Stay,
            DoneWhenSaid, DoneLasts, Lasting, Done, GoneWithJob, CanFlush,
            MyJob, JobOf, Active, Reporting
<1>1. ASSUME NEW j \in Jobs, TriggerJob(j)
      PROVE  DoneWhenSaid'
  BY <1>1, Persistence, DoneStays, Working, Holding
     DEF TriggerJob, Publish, NextMsg
<1>2. ASSUME NEW j \in Jobs, DeleteJob(j)
      PROVE  DoneWhenSaid'
  BY <1>2, Persistence, DoneStays, Working, Holding
     DEF DeleteJob
<1>3. ASSUME NEW s \in Storages, DeleteStorage(s)
      PROVE  DoneWhenSaid'
  BY <1>3, Persistence, DoneStays, Working, Holding
     DEF DeleteStorage
<1>4. ASSUME NEW r \in Runs, CancelRead(r) \/ CancelCommit(r)
      PROVE  DoneWhenSaid'
  BY <1>4, Persistence, DoneStays, Working, Holding
     DEF CancelRead, CancelCommit
<1>5. ASSUME NEW w \in Workers, NEW m \in Msgs, Take(w, m)
      PROVE  DoneWhenSaid'
  BY <1>5, Persistence, DoneStays, Working, Holding
     DEF Take
<1>6. ASSUME NEW w \in Workers,
             LoadJob(w) \/ InsertRefused(w) \/ Execute(w) \/ CommitRefused(w)
      PROVE  DoneWhenSaid'
  BY <1>6, Persistence, DoneStays, Working, Holding
     DEF LoadJob, InsertRefused, Execute, CommitRefused
<1>7. ASSUME NEW w \in Workers, InsertRun(w)
      PROVE  DoneWhenSaid'
  BY <1>7, Persistence, DoneStays, Working, Holding
     DEF InsertRun, NextRun
<1>8. ASSUME NEW w \in Workers, CommitSuccess(w) \/ RotationError(w)
      PROVE  DoneWhenSaid'
  BY <1>8, Persistence, DoneStays, Working, Holding
     DEF CommitSuccess, RotationError, CanFlush, NewArtifacts
<1>9. ASSUME NEW w \in Workers, Retry(w)
      PROVE  DoneWhenSaid'
  BY <1>9, Persistence, DoneStays, Working, Holding
     DEF Retry, Publish, NextMsg
<1>10. ASSUME NEW w \in Workers, CommitFailure(w)
      PROVE  DoneWhenSaid'
  BY <1>10, Persistence, DoneStays, Working, Holding
     DEF CommitFailure
<1>11. ASSUME NEW w \in Workers, Notify(w)
      PROVE  DoneWhenSaid'
  BY <1>11, Persistence, DoneStays, Working, Holding
     DEF Notify
<1>12. ASSUME NEW w \in Workers, Ack(w)
      PROVE  DoneWhenSaid'
  BY <1>12, Persistence, DoneStays, Working, Holding
     DEF Ack, Settle, Free
<1>13. ASSUME Crash
      PROVE  DoneWhenSaid'
  BY <1>13, Persistence, DoneStays, Working, Holding
     DEF Crash, LeftBehind
<1>14. ASSUME NEW w \in Workers, ChildLost(w)
      PROVE  DoneWhenSaid'
  BY <1>14, Persistence, DoneStays, Working, Holding
     DEF ChildLost, Settle, Free, LeftBehind
<1>15. ASSUME NEW m \in Msgs, RestoreOrphan(m) \/ RestoreLate(m)
      PROVE  DoneWhenSaid'
  BY <1>15, Persistence, DoneStays, Working, Holding
     DEF RestoreOrphan, RestoreLate, RestoreMsg
<1>16. CASE UNCHANGED vars
  BY <1>16 DEF vars
<1> QED BY <1>1, <1>2, <1>3, <1>4, <1>5, <1>6, <1>7, <1>8, <1>9, <1>10, <1>11,
           <1>12, <1>13, <1>14, <1>15, <1>16
       DEF Next, Api, WorkerStep, Faults

\* Only Ack and ChildLost settle a message.
LEMMA SettledPreserved == IInv /\ [Next]_vars => SettledHasOutcome'
<1> SUFFICES ASSUME IInv, [Next]_vars
             PROVE  SettledHasOutcome'
  OBVIOUS
<1> USE DEF IInv, TypeOK, rows, broker, process, ghosts, Goto, Stay,
            SettledHasOutcome, DoneLasts, DoneWhenSaid, Lasting, Done
<1>1. ASSUME NEW j \in Jobs, TriggerJob(j)
      PROVE  SettledHasOutcome'
  BY <1>1, Persistence, DoneStays, Working, Holding
     DEF TriggerJob, Publish, NextMsg
<1>2. ASSUME NEW j \in Jobs, DeleteJob(j)
      PROVE  SettledHasOutcome'
  BY <1>2, Persistence, DoneStays, Working, Holding
     DEF DeleteJob
<1>3. ASSUME NEW s \in Storages, DeleteStorage(s)
      PROVE  SettledHasOutcome'
  BY <1>3, Persistence, DoneStays, Working, Holding
     DEF DeleteStorage
<1>4. ASSUME NEW r \in Runs, CancelRead(r) \/ CancelCommit(r)
      PROVE  SettledHasOutcome'
  BY <1>4, Persistence, DoneStays, Working, Holding
     DEF CancelRead, CancelCommit
<1>5. ASSUME NEW w \in Workers, NEW m \in Msgs, Take(w, m)
      PROVE  SettledHasOutcome'
  BY <1>5, Persistence, DoneStays, Working, Holding
     DEF Take
<1>6. ASSUME NEW w \in Workers,
             LoadJob(w) \/ InsertRefused(w) \/ Execute(w) \/ CommitRefused(w)
      PROVE  SettledHasOutcome'
  BY <1>6, Persistence, DoneStays, Working, Holding
     DEF LoadJob, InsertRefused, Execute, CommitRefused
<1>7. ASSUME NEW w \in Workers, InsertRun(w)
      PROVE  SettledHasOutcome'
  BY <1>7, Persistence, DoneStays, Working, Holding
     DEF InsertRun, NextRun
<1>8. ASSUME NEW w \in Workers, CommitSuccess(w) \/ RotationError(w)
      PROVE  SettledHasOutcome'
  BY <1>8, Persistence, DoneStays, Working, Holding
     DEF CommitSuccess, RotationError, CanFlush, NewArtifacts
<1>9. ASSUME NEW w \in Workers, Retry(w)
      PROVE  SettledHasOutcome'
  BY <1>9, Persistence, DoneStays, Working, Holding
     DEF Retry, Publish, NextMsg
<1>10. ASSUME NEW w \in Workers, CommitFailure(w)
      PROVE  SettledHasOutcome'
  BY <1>10, Persistence, DoneStays, Working, Holding
     DEF CommitFailure
<1>11. ASSUME NEW w \in Workers, Notify(w)
      PROVE  SettledHasOutcome'
  BY <1>11, Persistence, DoneStays, Working, Holding
     DEF Notify
<1>12. ASSUME NEW w \in Workers, Ack(w)
      PROVE  SettledHasOutcome'
  BY <1>12, Persistence, DoneStays, Working, Holding
     DEF Ack, Settle, Free
<1>13. ASSUME Crash
      PROVE  SettledHasOutcome'
  BY <1>13, Persistence, DoneStays, Working, Holding
     DEF Crash, LeftBehind
<1>14. ASSUME NEW w \in Workers, ChildLost(w)
      PROVE  SettledHasOutcome'
  BY <1>14, Persistence, DoneStays, Working, Holding
     DEF ChildLost, Settle, Free, LeftBehind
<1>15. ASSUME NEW m \in Msgs, RestoreOrphan(m) \/ RestoreLate(m)
      PROVE  SettledHasOutcome'
  BY <1>15, Persistence, DoneStays, Working, Holding
     DEF RestoreOrphan, RestoreLate, RestoreMsg
<1>16. CASE UNCHANGED vars
  BY <1>16 DEF vars
<1> QED BY <1>1, <1>2, <1>3, <1>4, <1>5, <1>6, <1>7, <1>8, <1>9, <1>10, <1>11,
           <1>12, <1>13, <1>14, <1>15, <1>16
       DEF Next, Api, WorkerStep, Faults

\* A worker that leaves its run has written the row, or is dead, or was refused.
LEMMA RunningPreserved == IInv /\ [Next]_vars => RunningIsOwned'
<1> SUFFICES ASSUME IInv, [Next]_vars
             PROVE  RunningIsOwned'
  OBVIOUS
<1> USE DEF IInv, TypeOK, rows, broker, process, ghosts, Goto, Stay,
            RunningIsOwned, Owns, RanAlone, Lasting, WellFormed, Untouched,
            JobOf, MyJob, CanFlush, Active, Reporting
<1>1. ASSUME NEW j \in Jobs, TriggerJob(j)
      PROVE  RunningIsOwned'
  BY <1>1, Persistence, Working
     DEF TriggerJob, Publish, NextMsg
<1>2. ASSUME NEW j \in Jobs, DeleteJob(j)
      PROVE  RunningIsOwned'
  BY <1>2, Persistence, Working
     DEF DeleteJob
<1>3. ASSUME NEW s \in Storages, DeleteStorage(s)
      PROVE  RunningIsOwned'
  BY <1>3, Persistence, Working
     DEF DeleteStorage
<1>4. ASSUME NEW r \in Runs, CancelRead(r) \/ CancelCommit(r)
      PROVE  RunningIsOwned'
  BY <1>4, Persistence, Working
     DEF CancelRead, CancelCommit
<1>5. ASSUME NEW w \in Workers, NEW m \in Msgs, Take(w, m)
      PROVE  RunningIsOwned'
  BY <1>5, Persistence, Working
     DEF Take
<1>6. ASSUME NEW w \in Workers,
             LoadJob(w) \/ InsertRefused(w) \/ Execute(w) \/ CommitRefused(w)
      PROVE  RunningIsOwned'
  BY <1>6, Persistence, Working
     DEF LoadJob, InsertRefused, Execute, CommitRefused
<1>7. ASSUME NEW w \in Workers, InsertRun(w)
      PROVE  RunningIsOwned'
  BY <1>7, Persistence, Working
     DEF InsertRun, NextRun
<1>8. ASSUME NEW w \in Workers, CommitSuccess(w) \/ RotationError(w)
      PROVE  RunningIsOwned'
  BY <1>8, Persistence, Working
     DEF CommitSuccess, RotationError, CanFlush, NewArtifacts
<1>9. ASSUME NEW w \in Workers, Retry(w)
      PROVE  RunningIsOwned'
  BY <1>9, Persistence, Working
     DEF Retry, Publish, NextMsg
<1>10. ASSUME NEW w \in Workers, CommitFailure(w)
      PROVE  RunningIsOwned'
  BY <1>10, Persistence, Working
     DEF CommitFailure
<1>11. ASSUME NEW w \in Workers, Notify(w)
      PROVE  RunningIsOwned'
  BY <1>11, Persistence, Working
     DEF Notify
<1>12. ASSUME NEW w \in Workers, Ack(w)
      PROVE  RunningIsOwned'
  BY <1>12, Persistence, Working
     DEF Ack, Settle, Free
<1>13. ASSUME Crash
      PROVE  RunningIsOwned'
  BY <1>13, Persistence, Working
     DEF Crash, LeftBehind
<1>14. ASSUME NEW w \in Workers, ChildLost(w)
      PROVE  RunningIsOwned'
  BY <1>14, Persistence, Working
     DEF ChildLost, Settle, Free, LeftBehind
<1>15. ASSUME NEW m \in Msgs, RestoreOrphan(m) \/ RestoreLate(m)
      PROVE  RunningIsOwned'
  BY <1>15, Persistence, Working
     DEF RestoreOrphan, RestoreLate, RestoreMsg
<1>16. CASE UNCHANGED vars
  BY <1>16 DEF vars
<1> QED BY <1>1, <1>2, <1>3, <1>4, <1>5, <1>6, <1>7, <1>8, <1>9, <1>10, <1>11,
           <1>12, <1>13, <1>14, <1>15, <1>16
       DEF Next, Api, WorkerStep, Faults

\* Only Notify announces, once per run, what has been committed.
LEMMA AnnouncedPreserved == IInv /\ [Next]_vars => AnnouncedIsTrue'
<1> SUFFICES ASSUME IInv, [Next]_vars
             PROVE  AnnouncedIsTrue'
  OBVIOUS
<1> USE DEF IInv, TypeOK, rows, broker, process, ghosts, Goto, Stay,
            AnnouncedIsTrue, AboutToSay, NothingYet, Untouched, Copies,
            Active, Reporting
<1>1. ASSUME NEW j \in Jobs, TriggerJob(j)
      PROVE  AnnouncedIsTrue'
  BY <1>1, Working
     DEF TriggerJob, Publish, NextMsg
<1>2. ASSUME NEW j \in Jobs, DeleteJob(j)
      PROVE  AnnouncedIsTrue'
  BY <1>2, Working
     DEF DeleteJob
<1>3. ASSUME NEW s \in Storages, DeleteStorage(s)
      PROVE  AnnouncedIsTrue'
  BY <1>3, Working
     DEF DeleteStorage
<1>4. ASSUME NEW r \in Runs, CancelRead(r) \/ CancelCommit(r)
      PROVE  AnnouncedIsTrue'
  BY <1>4, Working
     DEF CancelRead, CancelCommit
<1>5. ASSUME NEW w \in Workers, NEW m \in Msgs, Take(w, m)
      PROVE  AnnouncedIsTrue'
  BY <1>5, Working
     DEF Take
<1>6. ASSUME NEW w \in Workers,
             LoadJob(w) \/ InsertRefused(w) \/ Execute(w) \/ CommitRefused(w)
      PROVE  AnnouncedIsTrue'
  BY <1>6, Working
     DEF LoadJob, InsertRefused, Execute, CommitRefused
<1>7. ASSUME NEW w \in Workers, InsertRun(w)
      PROVE  AnnouncedIsTrue'
  BY <1>7, Working
     DEF InsertRun, NextRun
<1>8. ASSUME NEW w \in Workers, CommitSuccess(w) \/ RotationError(w)
      PROVE  AnnouncedIsTrue'
  BY <1>8, Working
     DEF CommitSuccess, RotationError, CanFlush, NewArtifacts
<1>9. ASSUME NEW w \in Workers, Retry(w)
      PROVE  AnnouncedIsTrue'
  BY <1>9, Working
     DEF Retry, Publish, NextMsg
<1>10. ASSUME NEW w \in Workers, CommitFailure(w)
      PROVE  AnnouncedIsTrue'
  BY <1>10, Working
     DEF CommitFailure
<1>11. ASSUME NEW w \in Workers, Notify(w)
      PROVE  AnnouncedIsTrue'
  BY <1>11, Working
     DEF Notify
<1>12. ASSUME NEW w \in Workers, Ack(w)
      PROVE  AnnouncedIsTrue'
  BY <1>12, Working
     DEF Ack, Settle, Free
<1>13. ASSUME Crash
      PROVE  AnnouncedIsTrue'
  BY <1>13, Working
     DEF Crash, LeftBehind
<1>14. ASSUME NEW w \in Workers, ChildLost(w)
      PROVE  AnnouncedIsTrue'
  BY <1>14, Working
     DEF ChildLost, Settle, Free, LeftBehind
<1>15. ASSUME NEW m \in Msgs, RestoreOrphan(m) \/ RestoreLate(m)
      PROVE  AnnouncedIsTrue'
  BY <1>15, Working
     DEF RestoreOrphan, RestoreLate, RestoreMsg
<1>16. CASE UNCHANGED vars
  BY <1>16 DEF vars
<1> QED BY <1>1, <1>2, <1>3, <1>4, <1>5, <1>6, <1>7, <1>8, <1>9, <1>10, <1>11,
           <1>12, <1>13, <1>14, <1>15, <1>16
       DEF Next, Api, WorkerStep, Faults

\* The job of a run is fixed with its row.
LEMMA JobOfLasts ==
    ASSUME IInv, [Next]_vars, NEW r \in Runs, status[r] # "none"
    PROVE  JobOf(r)' = JobOf(r)
BY Persistence DEF IInv, WellFormed, Lasting, JobOf

\* Copies of a run change only when its outcome is committed, all at once, and
\* when its job is deleted.
LEMMA AllOrNothingPreserved == IInv /\ [Next]_vars => AllOrNothing'
<1> SUFFICES ASSUME IInv, [Next]_vars,
                    NEW r \in Runs, Copies(r)' # {}
             PROVE  Copies(r)' = JobDests[JobOf(r)'] /\ r \in finished'
  BY DEF AllOrNothing
<1> USE DEF IInv, TypeOK, rows, broker, process, ghosts, Goto, Stay
<1>1. ASSUME Copies(r)' = Copies(r), r \in finished => r \in finished'
      PROVE  Copies(r)' = JobDests[JobOf(r)'] /\ r \in finished'
  <2>1. Copies(r) = JobDests[JobOf(r)] /\ r \in finished
    BY <1>1 DEF AllOrNothing
  <2>2. status[r] # "none"
    BY <1>1 DEF Untouched
  <2> QED BY <1>1, <2>1, <2>2, JobOfLasts
<1>2. CASE art' = art /\ finished \subseteq finished'
  BY <1>1, <1>2 DEF Copies
<1>3. ASSUME NEW j \in Jobs, DeleteJob(j)
      PROVE  Copies(r)' = JobDests[JobOf(r)'] /\ r \in finished'
  <2> DEFINE dead == {q \in Runs : status[q] # "none" /\ JobOf(q) = j}
  <2>1. art' = {a \in art : a[1] \notin dead} /\ finished' = finished \ dead
    BY <1>3 DEF DeleteJob
  <2>2. r \notin dead
    BY <2>1 DEF Copies
  <2> HIDE DEF dead
  <2>3. Copies(r)' = Copies(r)
    BY <2>1, <2>2 DEF Copies
  <2> QED BY <1>1, <2>1, <2>2, <2>3
<1>4. ASSUME NEW w \in Workers, CommitSuccess(w) \/ RotationError(w)
      PROVE  Copies(r)' = JobDests[JobOf(r)'] /\ r \in finished'
  <2>1. /\ art' = art \cup NewArtifacts(w) /\ finished' = finished \cup {at[w]}
        /\ pc[w] \in Active
    BY <1>4 DEF CommitSuccess, RotationError, Active
  <2>2. CASE r # at[w]
    <3>1. Copies(r)' = Copies(r)
      BY <2>1, <2>2 DEF Copies, NewArtifacts
    <3> QED BY <1>1, <2>1, <3>1
  <2>3. CASE r = at[w]
    <3>1. Copies(r) = {} /\ status[r] # "none" /\ MyJob(w) = JobOf(r) /\ MyJob(w) \in Jobs
      BY <2>1, <2>3, Working DEF NothingYet
    <3>2. NewArtifacts(w) = {r} \X JobDests[JobOf(r)]
      <4>1. NewArtifacts(w) # {}
        BY <2>1, <3>1 DEF Copies
      <4> QED BY <2>3, <3>1, <4>1 DEF NewArtifacts
    <3>3. Copies(r)' = JobDests[JobOf(r)]
      BY <2>1, <3>1, <3>2, ConstantsAssumption DEF Copies
    <3> QED BY <2>1, <2>3, <3>1, <3>3, JobOfLasts
  <2> QED BY <2>2, <2>3
<1> QED BY <1>2, <1>3, <1>4
       DEF Next, Api, WorkerStep, Faults, vars, TriggerJob, DeleteStorage, CancelRead,
           CancelCommit, Take, LoadJob, InsertRun, InsertRefused, Execute,
           CommitRefused, Retry, CommitFailure, Notify, Ack, Crash, ChildLost,
           RestoreOrphan, RestoreLate, RestoreMsg

-----------------------------------------------------------------------------
\* The invariant holds at first.
LEMMA InitIInv == Init => IInv
<1> SUFFICES ASSUME Init
             PROVE  IInv
  OBVIOUS
<1> USE DEF Init
<1>1. TypeOK
  BY DEF TypeOK, PC
<1>2. WellFormed /\ Untouched /\ RunOf /\ RanAlone /\ NothingYet
  BY DEF WellFormed, Untouched, RunOf, RanAlone, NothingYet, Copies, Active, Reporting
<1>3. AboutToSay /\ GoneWithJob /\ DoneWhenSaid
  BY DEF AboutToSay, GoneWithJob, DoneWhenSaid, Reporting
<1>4. AllOrNothing /\ RunningIsOwned /\ AnnouncedIsTrue /\ SettledHasOutcome
  BY DEF AllOrNothing, RunningIsOwned, AnnouncedIsTrue, SettledHasOutcome, Copies
<1> QED BY <1>1, <1>2, <1>3, <1>4 DEF IInv

\* And it is kept by every step.
LEMMA InductiveInvariant == Spec => []IInv
<1>1. IInv /\ [Next]_vars => IInv'
  BY TypePreserved, WellFormedPreserved, UntouchedPreserved, RunOfPreserved,
     RanAlonePreserved, NothingYetPreserved, AboutToSayPreserved,
     GoneWithJobPreserved, DoneWhenSaidPreserved, SettledPreserved,
     RunningPreserved, AnnouncedPreserved, AllOrNothingPreserved
     DEF IInv
<1> QED BY <1>1, InitIInv, PTL DEF Spec

-----------------------------------------------------------------------------
(* How many runs a trigger makes.  An attempt is a run, or what may still     *)
(* become one: a message that is ready, a worker that has taken one and not   *)
(* yet inserted its run.  Every attempt has a slot: the first delivery of the *)
(* trigger, <<trigger, 0>>, or one of the times the broker restored a message *)
(* of the family, <<m, n>>.  A delivery hands its slot to the worker, the     *)
(* worker to the run, and a run to the message of its retry; a restored       *)
(* message gets the slot of its restoring.  Hence attempts of one family with *)
(* the same number of retries never share a slot, and there are               *)
(* TaskMaxRetries + 1 numbers of retries.                                     *)

Attempts == ({"message"} \X Msgs) \cup ({"worker"} \X Workers) \cup ({"run"} \X Runs)

\* The message an attempt comes from, its trigger and its number of retries.
Cause(x) ==
    IF x[1] = "message" THEN x[2] ELSE IF x[1] = "worker" THEN holds[x[2]] ELSE origin[x[2]]

Root(x) == payload[Cause(x)].root

Level(x) == payload[Cause(x)].retries

Exists(x) ==
    \/ x[1] = "message" /\ queue[x[2]] = "ready"
    \/ x[1] = "worker" /\ pc[x[2]] \in {"loading", "inserting"}
    \/ x[1] = "run" /\ status[x[2]] # "none"

\* An attempt that can still hand on its slot; a run can until it has retried.
Open(x) ==
    \/ x[1] # "run"
    \/ \E w \in Workers : pc[w] \in {"executing", "retrying"} /\ at[w] = x[2]

\* The slots of the family of message m.
Fits(s, m) ==
    /\ s[1] \in Msgs /\ s[2] \in 0..redelivered[s[1]]
    /\ queue[s[1]] # "none" /\ payload[s[1]].root = payload[m].root
    /\ s[2] = 0 => s[1] = payload[m].root

\* No later attempt has the slot of one that can still hand it on.
Apart(slot) ==
    \A x, y \in Attempts :
        (/\ Exists(x) /\ Exists(y)
         /\ slot[x] = slot[y] /\ Root(x) = Root(y)
         /\ Level(x) = Level(y) \/ (Open(x) /\ Level(x) <= Level(y))) => x = y

Shared(slot) ==
    /\ slot \in [Attempts -> Nat \X Nat]
    /\ \A x \in Attempts : Exists(x) => Fits(slot[x], Cause(x))
    /\ Apart(slot)

\* The trigger of a message is a message of the broker.
RootsKnown ==
    \A m \in Msgs : queue[m] # "none" => queue[payload[m].root] # "none"

SlotInv == RootsKnown /\ \E slot : Shared(slot)

\* The three kinds of attempts.
LEMMA AttemptKinds ==
    /\ \A m \in Msgs : LET x == <<"message", m>>
                       IN  /\ x \in Attempts /\ Cause(x) = m /\ Open(x)
                           /\ Exists(x) <=> queue[m] = "ready"
    /\ \A w \in Workers : LET x == <<"worker", w>>
                          IN  /\ x \in Attempts /\ Cause(x) = holds[w] /\ Open(x)
                              /\ Exists(x) <=> pc[w] \in {"loading", "inserting"}
    /\ \A r \in Runs : LET x == <<"run", r>>
                       IN  /\ x \in Attempts /\ Cause(x) = origin[r]
                           /\ Exists(x) <=> status[r] # "none"
                           /\ Open(x) <=> \E w \in Workers :
                                  pc[w] \in {"executing", "retrying"} /\ at[w] = r
    /\ \A x \in Attempts : \/ \E m \in Msgs : x = <<"message", m>>
                           \/ \E w \in Workers : x = <<"worker", w>>
                           \/ \E r \in Runs : x = <<"run", r>>
BY DEF Attempts, Cause, Exists, Open

\* An attempt comes from a message of the broker.
LEMMA CauseKnown ==
    ASSUME IInv, NEW x \in Attempts, Exists(x)
    PROVE  /\ Cause(x) \in Msgs /\ queue[Cause(x)] # "none"
           /\ payload[Cause(x)] \in Payload
           /\ Root(x) \in Msgs /\ Level(x) \in Nat
<1>1. Cause(x) \in Msgs /\ queue[Cause(x)] # "none"
  <2>1. CASE \E m \in Msgs : x = <<"message", m>>
    BY <2>1, AttemptKinds
  <2>2. CASE \E w \in Workers : x = <<"worker", w>>
    BY <2>2, AttemptKinds DEF IInv, WellFormed
  <2>3. CASE \E r \in Runs : x = <<"run", r>>
    BY <2>3, AttemptKinds DEF IInv, WellFormed
  <2> QED BY <2>1, <2>2, <2>3, AttemptKinds
<1>2. payload[Cause(x)] \in Payload
  BY <1>1 DEF IInv, WellFormed
<1> QED BY <1>1, <1>2, ConstantsAssumption DEF Root, Level, Payload

\* What a step leaves of an attempt.
Kept(x) ==
    Exists(x)' => Exists(x) /\ Cause(x)' = Cause(x) /\ (Open(x)' => Open(x))

\* A kept attempt has the same trigger, the same retries and a slot that fits.
LEMMA KeptFacts ==
    ASSUME IInv, IInv', Lasting, NEW x \in Attempts, Kept(x), Exists(x)',
           \A m \in Msgs : redelivered[m] <= redelivered'[m]
    PROVE  /\ Exists(x) /\ Cause(x)' = Cause(x) /\ (Open(x)' => Open(x))
           /\ Root(x)' = Root(x) /\ Level(x)' = Level(x)
           /\ \A s : Fits(s, Cause(x)) => Fits(s, Cause(x))'
<1>1. Exists(x) /\ Cause(x)' = Cause(x) /\ (Open(x)' => Open(x))
  BY DEF Kept
<1>2. Cause(x) \in Msgs /\ queue[Cause(x)] # "none"
  BY <1>1, CauseKnown
<1>3. payload'[Cause(x)] = payload[Cause(x)]
  BY <1>2 DEF Lasting
<1>4. PICK m : m = Cause(x)
  OBVIOUS
<1>5. ASSUME NEW s, Fits(s, m)
      PROVE  Fits(s, m)'
  <2>1. s[1] \in Msgs /\ queue[s[1]] # "none"
    BY <1>5 DEF Fits
  <2>2. /\ payload'[s[1]] = payload[s[1]] /\ queue'[s[1]] # "none"
        /\ redelivered[s[1]] <= redelivered'[s[1]]
        /\ redelivered[s[1]] \in Nat /\ redelivered'[s[1]] \in Nat
    BY <2>1 DEF Lasting, IInv, TypeOK
  <2> QED BY <1>3, <1>4, <1>5, <2>1, <2>2 DEF Fits
<1> QED BY <1>1, <1>3, <1>4, <1>5 DEF Root, Level

\* A step that makes no attempt leaves every slot where it is.
LEMMA SlotsKept ==
    ASSUME IInv, IInv', Lasting, NEW slot, Shared(slot),
           \A m \in Msgs : redelivered[m] <= redelivered'[m],
           \A z \in Attempts : Kept(z)
    PROVE  Shared(slot)'
<1>1. ASSUME NEW x \in Attempts, Exists(x)'
      PROVE  Fits(slot[x], Cause(x))'
  BY <1>1, KeptFacts DEF Shared
<1>2. ASSUME NEW x \in Attempts, NEW y \in Attempts, Exists(x)', Exists(y)',
             slot[x] = slot[y], Root(x)' = Root(y)',
             Level(x)' = Level(y)' \/ (Open(x)' /\ Level(x)' <= Level(y)')
      PROVE  x = y
  BY <1>2, KeptFacts DEF Shared, Apart
<1> QED BY <1>1, <1>2 DEF Shared, Apart

\* A step that makes attempt y of slot s, which nothing as late or open has.
LEMMA SlotGiven ==
    ASSUME IInv, IInv', Lasting, NEW slot, Shared(slot),
           \A m \in Msgs : redelivered[m] <= redelivered'[m],
           NEW y \in Attempts, NEW s \in Nat \X Nat, Exists(y)',
           \A z \in Attempts : z # y => Kept(z),
           Fits(s, Cause(y))', Level(y)' \in Nat,
           \A z \in Attempts :
               (z # y /\ Exists(z)' /\ slot[z] = s /\ Root(z) = Root(y)')
                   => Level(z) < Level(y)' /\ ~Open(z)'
    PROVE  Shared([slot EXCEPT ![y] = s])'
<1> DEFINE slot2 == [slot EXCEPT ![y] = s]
<1>1. /\ slot2 \in [Attempts -> Nat \X Nat] /\ slot2[y] = s
      /\ \A z \in Attempts : z # y => slot2[z] = slot[z]
  BY DEF Shared
<1> HIDE DEF slot2
<1>2. ASSUME NEW x \in Attempts, Exists(x)'
      PROVE  Fits(slot2[x], Cause(x))'
  <2>1. CASE x = y
    BY <1>1, <2>1
  <2>2. CASE x # y
    BY <1>1, <1>2, <2>2, KeptFacts DEF Shared
  <2> QED BY <2>1, <2>2
<1>3. ASSUME NEW x \in Attempts, NEW z \in Attempts, Exists(x)', Exists(z)',
             slot2[x] = slot2[z], Root(x)' = Root(z)',
             Level(x)' = Level(z)' \/ (Open(x)' /\ Level(x)' <= Level(z)')
      PROVE  x = z
  <2>1. CASE x # y /\ z # y
    BY <1>1, <1>3, <2>1, KeptFacts DEF Shared, Apart
  <2>2. CASE x = y /\ z # y
    <3>1. Exists(z) /\ Root(z)' = Root(z) /\ Level(z)' = Level(z) /\ slot[z] = s
      BY <1>1, <1>3, <2>2, KeptFacts
    <3>2. Level(z) < Level(y)'
      BY <1>3, <2>2, <3>1
    <3>3. Level(z) \in Nat
      BY <3>1, CauseKnown
    <3> QED BY <1>3, <2>2, <3>1, <3>2, <3>3
  <2>3. CASE x # y /\ z = y
    <3>1. Exists(x) /\ Root(x)' = Root(x) /\ Level(x)' = Level(x) /\ slot[x] = s
      BY <1>1, <1>3, <2>3, KeptFacts
    <3>2. Level(x) < Level(y)' /\ ~Open(x)'
      BY <1>3, <2>3, <3>1
    <3>3. Level(x) \in Nat
      BY <3>1, CauseKnown
    <3> QED BY <1>3, <2>3, <3>1, <3>2, <3>3
  <2> QED BY <2>1, <2>2, <2>3
<1> QED BY <1>1, <1>2, <1>3 DEF Shared, Apart, slot2

\* What a step must not do to keep every attempt.
MsgKept(m) == queue'[m] = "ready" => queue[m] = "ready"

WorkerKept(w) ==
    pc'[w] \in {"loading", "inserting"} =>
        pc[w] \in {"loading", "inserting"} /\ holds'[w] = holds[w]

RunKept(r) == status'[r] # "none" => status[r] # "none"

OpenKept(w) ==
    pc'[w] \in {"executing", "retrying"} =>
        pc[w] \in {"executing", "retrying"} /\ at'[w] = at[w]

\* They do keep it, a run with the workers that are at it.
LEMMA KeptKinds ==
    ASSUME IInv, Lasting
    PROVE  /\ \A m \in Msgs : MsgKept(m) => Kept(<<"message", m>>)
           /\ \A w \in Workers : WorkerKept(w) => Kept(<<"worker", w>>)
           /\ \A r \in Runs :
                (RunKept(r) /\ \A w \in Workers : at'[w] = r => OpenKept(w))
                    => Kept(<<"run", r>>)
<1>1. ASSUME NEW m \in Msgs, MsgKept(m)
      PROVE  Kept(<<"message", m>>)
  BY <1>1 DEF MsgKept, Kept, Exists, Cause, Open
<1>2. ASSUME NEW w \in Workers, WorkerKept(w)
      PROVE  Kept(<<"worker", w>>)
  BY <1>2 DEF WorkerKept, Kept, Exists, Cause, Open
<1>3. ASSUME NEW r \in Runs, RunKept(r), \A w \in Workers : at'[w] = r => OpenKept(w)
      PROVE  Kept(<<"run", r>>)
  BY <1>3 DEF RunKept, OpenKept, Kept, Exists, Cause, Open, Lasting
<1> QED BY <1>1, <1>2, <1>3

\* The steps that make no attempt: all but a trigger, a delivery, an insertion,
\* a retry and a restoring.
LEMMA QuietSteps ==
    ASSUME IInv, [Next]_vars
    PROVE  \/ \E j \in Jobs : TriggerJob(j)
           \/ \E w \in Workers, m \in Msgs : Take(w, m)
           \/ \E w \in Workers : InsertRun(w) \/ Retry(w)
           \/ \E m \in Msgs : RestoreOrphan(m) \/ RestoreLate(m)
           \/ /\ \A m \in Msgs : MsgKept(m)
              /\ \A w \in Workers : WorkerKept(w) /\ OpenKept(w)
              /\ \A r \in Runs : RunKept(r)
              /\ redelivered' = redelivered
<1> DEFINE Quiet == /\ \A m \in Msgs : MsgKept(m)
                    /\ \A w \in Workers : WorkerKept(w) /\ OpenKept(w)
                    /\ \A r \in Runs : RunKept(r)
                    /\ redelivered' = redelivered
<1> USE DEF IInv, TypeOK, rows, broker, process, ghosts, Goto, Stay, Active,
            MsgKept, WorkerKept, RunKept, OpenKept
<1>1. ASSUME NEW j \in Jobs, DeleteJob(j)
      PROVE  Quiet
  BY <1>1 DEF DeleteJob
<1>2. ASSUME NEW s \in Storages, DeleteStorage(s)
      PROVE  Quiet
  BY <1>2 DEF DeleteStorage
<1>3. ASSUME NEW r \in Runs, CancelRead(r)
      PROVE  Quiet
  BY <1>3 DEF CancelRead
<1>4. ASSUME NEW r \in Runs, CancelCommit(r)
      PROVE  Quiet
  <2>1. \A q \in Runs : q # r => status'[q] = status[q]
    BY <1>4 DEF CancelCommit
  <2>2. status[r] # "none"
    BY <1>4 DEF CancelCommit, Untouched
  <2> QED BY <1>4, <2>1, <2>2 DEF CancelCommit
<1>5. ASSUME NEW w \in Workers,
             LoadJob(w) \/ InsertRefused(w) \/ Execute(w) \/ CommitRefused(w)
      PROVE  Quiet
  BY <1>5 DEF LoadJob, InsertRefused, Execute, CommitRefused
<1>6. ASSUME NEW w \in Workers, CommitSuccess(w) \/ RotationError(w)
      PROVE  Quiet
  <2>1. status[at[w]] # "none" /\ at[w] \in Runs
    BY <1>6, Working DEF CommitSuccess, RotationError
  <2> QED BY <1>6, <2>1 DEF CommitSuccess, RotationError
<1>7. ASSUME NEW w \in Workers, CommitFailure(w)
      PROVE  Quiet
  <2>1. status[at[w]] # "none" /\ at[w] \in Runs
    BY <1>7, Working DEF CommitFailure
  <2> QED BY <1>7, <2>1 DEF CommitFailure
<1>8. ASSUME NEW w \in Workers, Notify(w)
      PROVE  Quiet
  BY <1>8 DEF Notify
<1>9. ASSUME NEW w \in Workers, Ack(w)
      PROVE  Quiet
  BY <1>9 DEF Ack, Settle, Free
<1>10. ASSUME Crash
      PROVE  Quiet
  BY <1>10 DEF Crash
<1>11. ASSUME NEW w \in Workers, ChildLost(w)
      PROVE  Quiet
  BY <1>11 DEF ChildLost, Settle, Free
<1>12. CASE UNCHANGED vars
  BY <1>12 DEF vars
<1> QED BY <1>1, <1>2, <1>3, <1>4, <1>5, <1>6, <1>7, <1>8, <1>9, <1>10, <1>11, <1>12
       DEF Next, Api, WorkerStep, Faults

\* A trigger opens a family, with the slot of its own first delivery.
LEMMA TriggerShares ==
    ASSUME IInv, IInv', Lasting, RootsKnown, NEW slot, Shared(slot),
           NEW j \in Jobs, TriggerJob(j)
    PROVE  \E other : Shared(other)'
<1>1. PICK m \in Msgs : Publish(m, j, 0, m)
  BY DEF TriggerJob
<1>2. /\ queue[m] = "none" /\ queue' = [queue EXCEPT ![m] = "ready"]
      /\ payload' = [payload EXCEPT ![m] = [job |-> j, retries |-> 0, root |-> m]]
      /\ redelivered' = redelivered
      /\ process' = process /\ rows' = rows /\ ghosts' = ghosts
  BY <1>1 DEF Publish, NextMsg, TriggerJob, rows, process, ghosts
<1>3. PICK y : y = <<"message", m>>
  OBVIOUS
<1>4. y \in Attempts /\ Cause(y)' = m /\ Exists(y)'
  BY <1>2, <1>3 DEF Attempts, Cause, Exists, IInv, TypeOK
<1>5. ASSUME NEW z \in Attempts, z # y
      PROVE  Kept(z)
  <2>1. /\ \A n \in Msgs : n # m => MsgKept(n)
        /\ \A w \in Workers : WorkerKept(w) /\ OpenKept(w)
        /\ \A r \in Runs : RunKept(r)
    BY <1>2 DEF MsgKept, WorkerKept, OpenKept, RunKept, rows, process, IInv, TypeOK
  <2> QED BY <1>3, <1>5, <2>1, KeptKinds, AttemptKinds
<1>6. payload'[m] = [job |-> j, retries |-> 0, root |-> m] /\ queue'[m] = "ready"
  BY <1>2 DEF IInv, TypeOK
<1>7. Root(y)' = m /\ Level(y)' = 0
  BY <1>4, <1>6 DEF Root, Level
<1>8. PICK s : s = <<m, 0>>
  OBVIOUS
<1>9. Fits(s, Cause(y))'
  BY <1>4, <1>6, <1>8 DEF Fits, IInv, TypeOK
<1>10. ASSUME NEW z \in Attempts, z # y, Exists(z)'
       PROVE  Root(z) # Root(y)'
  <2>1. Exists(z)
    BY <1>5, <1>10 DEF Kept
  <2>2. queue[Root(z)] # "none"
    BY <2>1, CauseKnown DEF RootsKnown, Root
  <2> QED BY <1>2, <1>7, <2>2
<1>11. \A n \in Msgs : redelivered[n] <= redelivered'[n]
  BY <1>2 DEF IInv, TypeOK
<1>12. Level(y)' \in Nat
  BY <1>7
<1>13. s \in Nat \X Nat
  BY <1>8 DEF Msgs
<1>14. Shared([slot EXCEPT ![y] = s])'
  BY <1>4, <1>5, <1>9, <1>10, <1>11, <1>12, <1>13, SlotGiven
<1> QED BY <1>14

\* What a restored message gets is a slot of its own.
LEMMA RestoreShares ==
    ASSUME IInv, IInv', Lasting, NEW slot, Shared(slot),
           NEW m \in Msgs, RestoreMsg(m)
    PROVE  \E other : Shared(other)'
<1>1. /\ queue[m] = "unacked" /\ queue' = [queue EXCEPT ![m] = "ready"]
      /\ redelivered' = [redelivered EXCEPT ![m] = @ + 1]
      /\ payload' = payload
      /\ process' = process /\ rows' = rows /\ ghosts' = ghosts
  BY DEF RestoreMsg, rows, process, ghosts
<1>2. PICK y : y = <<"message", m>>
  OBVIOUS
<1>3. y \in Attempts /\ Cause(y)' = m /\ Exists(y)'
  BY <1>1, <1>2 DEF Attempts, Cause, Exists, IInv, TypeOK
<1>4. ASSUME NEW z \in Attempts, z # y
      PROVE  Kept(z)
  <2>1. /\ \A n \in Msgs : n # m => MsgKept(n)
        /\ \A w \in Workers : WorkerKept(w) /\ OpenKept(w)
        /\ \A r \in Runs : RunKept(r)
    BY <1>1 DEF MsgKept, WorkerKept, OpenKept, RunKept, rows, process, IInv, TypeOK
  <2> QED BY <1>2, <1>4, <2>1, KeptKinds, AttemptKinds
<1>5. /\ payload[m] \in Payload /\ redelivered[m] \in Nat
      /\ redelivered'[m] = redelivered[m] + 1 /\ queue'[m] = "ready"
  BY <1>1 DEF IInv, TypeOK, WellFormed
<1>6. Level(y)' \in Nat
  BY <1>1, <1>3, <1>5, ConstantsAssumption DEF Level, Payload
<1>7. PICK s : s = <<m, redelivered[m] + 1>>
  OBVIOUS
<1>8. Fits(s, Cause(y))'
  BY <1>1, <1>3, <1>5, <1>7 DEF Fits
<1>9. ASSUME NEW z \in Attempts, z # y, Exists(z)'
      PROVE  slot[z] # s
  <2>1. Exists(z)
    BY <1>4, <1>9 DEF Kept
  <2>2. Fits(slot[z], Cause(z))
    BY <2>1 DEF Shared
  <2>3. slot[z][2] \in 0..redelivered[slot[z][1]]
    BY <2>2 DEF Fits
  <2> QED BY <1>5, <1>7, <2>3
<1>10. \A n \in Msgs : redelivered[n] <= redelivered'[n]
  BY <1>1 DEF IInv, TypeOK
<1>11. s \in Nat \X Nat
  BY <1>5, <1>7 DEF Msgs
<1>12. Shared([slot EXCEPT ![y] = s])'
  BY <1>3, <1>4, <1>6, <1>8, <1>9, <1>10, <1>11, SlotGiven
<1> QED BY <1>12

\* The attempt y takes over the slot of x, which is open before the step and
\* not afterwards: it is over, or y is its retry.
LEMMA SlotHandedOn ==
    ASSUME IInv, IInv', Lasting, NEW slot, Shared(slot),
           redelivered' = redelivered,
           NEW x \in Attempts, Exists(x), Open(x),
           NEW y \in Attempts, Exists(y)', x # y,
           \A z \in Attempts : z # y => Kept(z),
           Root(y)' = Root(x),
           \/ Level(y)' = Level(x) /\ ~Exists(x)'
           \/ Level(y)' = Level(x) + 1 /\ ~Open(x)'
    PROVE  \E other : Shared(other)'
<1>1. PICK s : s = slot[x]
  OBVIOUS
<1>2. s \in Nat \X Nat /\ Fits(s, Cause(x))
  BY <1>1 DEF Shared
<1>3. Level(x) \in Nat /\ Level(y)' \in Nat
  BY CauseKnown
<1>4. Fits(s, Cause(y))'
  <2>1. PICK m, n : m = Cause(x) /\ n = Cause(y)'
    OBVIOUS
  <2>2. /\ s[1] \in Msgs /\ s[2] \in 0..redelivered[s[1]]
        /\ queue[s[1]] # "none" /\ payload[s[1]].root = payload[m].root
        /\ s[2] = 0 => s[1] = payload[m].root
    BY <1>2, <2>1 DEF Fits
  <2>3. queue'[s[1]] # "none" /\ payload'[s[1]] = payload[s[1]]
    BY <2>2 DEF Lasting
  <2>4. payload'[n].root = payload[m].root
    BY <2>1 DEF Root
  <2>5. /\ s[1] \in Msgs /\ s[2] \in 0..redelivered'[s[1]]
        /\ queue'[s[1]] # "none" /\ payload'[s[1]].root = payload'[n].root
        /\ s[2] = 0 => s[1] = payload'[n].root
    BY <2>2, <2>3, <2>4
  <2> QED BY <2>1, <2>5 DEF Fits
<1>5. ASSUME NEW z \in Attempts, z # y, Exists(z)', slot[z] = s, Root(z) = Root(y)'
      PROVE  Level(z) < Level(y)' /\ ~Open(z)'
  <2>1. Exists(z) /\ (Open(z)' => Open(z)) /\ Level(z) \in Nat
    BY <1>5, CauseKnown DEF Kept
  <2>2. z # x => Level(z) < Level(x) /\ ~Open(z)
    BY <1>1, <1>3, <1>5, <2>1 DEF Shared, Apart
  <2> QED BY <1>3, <1>5, <2>1, <2>2
<1>6. \A n \in Msgs : redelivered[n] <= redelivered'[n]
  BY DEF IInv, TypeOK
<1> QED BY <1>2, <1>3, <1>4, <1>5, <1>6, SlotGiven

\* A delivery hands the slot of the message to the worker.
LEMMA TakeShares ==
    ASSUME IInv, IInv', Lasting, NEW slot, Shared(slot),
           NEW w \in Workers, NEW m \in Msgs, Take(w, m)
    PROVE  \E other : Shared(other)'
<1>1. /\ queue[m] = "ready" /\ queue' = [queue EXCEPT ![m] = "unacked"]
      /\ pc' = [pc EXCEPT ![w] = "loading"] /\ holds' = [holds EXCEPT ![w] = m]
      /\ at' = at /\ payload' = payload /\ redelivered' = redelivered
      /\ rows' = rows /\ ghosts' = ghosts
  BY DEF Take, Goto, rows, ghosts
<1>2. PICK x, y : x = <<"message", m>> /\ y = <<"worker", w>>
  OBVIOUS
<1>3. x \in Attempts /\ Cause(x) = m /\ Exists(x) /\ Open(x) /\ ~Exists(x)'
  BY <1>1, <1>2, AttemptKinds DEF Exists, IInv, TypeOK
<1>4. y \in Attempts /\ Cause(y)' = m /\ Exists(y)' /\ x # y
  BY <1>1, <1>2 DEF Attempts, Cause, Exists, IInv, TypeOK
<1>5. ASSUME NEW z \in Attempts, z # y
      PROVE  Kept(z)
  <2>1. /\ \A n \in Msgs : MsgKept(n)
        /\ \A v \in Workers : (v # w => WorkerKept(v)) /\ OpenKept(v)
        /\ \A r \in Runs : RunKept(r)
    BY <1>1 DEF MsgKept, WorkerKept, OpenKept, RunKept, rows, IInv, TypeOK
  <2> QED BY <1>2, <1>5, <2>1, KeptKinds, AttemptKinds
<1>6. Root(y)' = Root(x) /\ Level(y)' = Level(x)
  BY <1>1, <1>3, <1>4 DEF Root, Level
<1> QED BY <1>1, <1>3, <1>4, <1>5, <1>6, SlotHandedOn

\* An insertion hands the slot of the worker to the run.
LEMMA InsertShares ==
    ASSUME IInv, IInv', Lasting, NEW slot, Shared(slot),
           NEW w \in Workers, InsertRun(w)
    PROVE  \E other : Shared(other)'
<1>1. PICK r \in Runs : /\ status[r] = "none"
                        /\ status' = [status EXCEPT ![r] = "running"]
                        /\ origin' = [origin EXCEPT ![r] = holds[w]]
                        /\ at' = [at EXCEPT ![w] = r]
  BY DEF InsertRun, NextRun
<1>2. /\ pc[w] = "inserting" /\ pc' = [pc EXCEPT ![w] = "executing"]
      /\ holds' = holds /\ broker' = broker
      /\ queue' = queue /\ payload' = payload /\ redelivered' = redelivered
  BY DEF InsertRun, Goto, broker
<1>3. PICK x, y : x = <<"worker", w>> /\ y = <<"run", r>>
  OBVIOUS
<1>4. x \in Attempts /\ Cause(x) = holds[w] /\ Exists(x) /\ Open(x) /\ ~Exists(x)'
  BY <1>2, <1>3, AttemptKinds DEF Exists, IInv, TypeOK
<1>5. y \in Attempts /\ Cause(y)' = holds[w] /\ Exists(y)' /\ x # y
  BY <1>1, <1>3 DEF Attempts, Cause, Exists, IInv, TypeOK
<1>6. ASSUME NEW z \in Attempts, z # y
      PROVE  Kept(z)
  <2>1. /\ \A n \in Msgs : MsgKept(n)
        /\ \A v \in Workers : WorkerKept(v) /\ (v # w => OpenKept(v))
        /\ \A q \in Runs : q # r => RunKept(q)
        /\ at'[w] = r
    BY <1>1, <1>2 DEF MsgKept, WorkerKept, OpenKept, RunKept, IInv, TypeOK
  <2> QED BY <1>3, <1>6, <2>1, KeptKinds, AttemptKinds
<1>7. Root(y)' = Root(x) /\ Level(y)' = Level(x)
  BY <1>2, <1>4, <1>5 DEF Root, Level
<1> QED BY <1>2, <1>4, <1>5, <1>6, <1>7, SlotHandedOn

\* A run hands its slot to the message of its retry, once.
LEMMA RetryShares ==
    ASSUME IInv, IInv', Lasting, NEW slot, Shared(slot),
           NEW w \in Workers, Retry(w)
    PROVE  \E other : Shared(other)'
<1>1. /\ pc[w] = "retrying" /\ pc' = [pc EXCEPT ![w] = "failing"]
      /\ holds' = holds /\ at' = at /\ rows' = rows /\ ghosts' = ghosts
      /\ status' = status /\ origin' = origin /\ redelivered' = redelivered
  BY DEF Retry, Goto, Stay, rows, ghosts, broker, Publish
<1>2. \A v \in Workers : WorkerKept(v) /\ OpenKept(v)
  BY <1>1 DEF WorkerKept, OpenKept, IInv, TypeOK
<1>3. \A r \in Runs : RunKept(r)
  BY <1>1 DEF RunKept
<1>4. CASE broker' = broker
  <2>1. \A n \in Msgs : MsgKept(n)
    BY <1>4 DEF MsgKept, broker
  <2>2. \A z \in Attempts : Kept(z)
    BY <1>2, <1>3, <2>1, KeptKinds, AttemptKinds
  <2>3. \A n \in Msgs : redelivered[n] <= redelivered'[n]
    BY <1>1 DEF IInv, TypeOK
  <2> QED BY <2>2, <2>3, SlotsKept
<1>5. CASE broker' # broker
  <2> DEFINE mine == payload[holds[w]]
  <2>1. PICK m \in Msgs : Publish(m, mine.job, mine.retries + 1, mine.root)
    BY <1>5 DEF Retry, broker
  <2>2. /\ queue[m] = "none" /\ queue' = [queue EXCEPT ![m] = "ready"]
        /\ payload' = [payload EXCEPT ![m] = [job |-> mine.job,
                          retries |-> mine.retries + 1, root |-> mine.root]]
    BY <2>1 DEF Publish, NextMsg
  <2>3. /\ at[w] \in Runs /\ status[at[w]] # "none" /\ origin[at[w]] = holds[w]
        /\ \A v \in Workers : pc[v] \in Active /\ at[v] = at[w] => v = w
    BY <1>1, Working DEF IInv, RanAlone, Active
  <2>4. PICK x, y : x = <<"run", at[w]>> /\ y = <<"message", m>>
    OBVIOUS
  <2>5. x \in Attempts /\ Cause(x) = holds[w] /\ Exists(x) /\ Open(x)
    BY <1>1, <2>3, <2>4, AttemptKinds
  <2>6. ~Open(x)'
    BY <1>1, <2>3, <2>4 DEF Open, Active, IInv, TypeOK
  <2>7. y \in Attempts /\ Cause(y)' = m /\ Exists(y)' /\ x # y
    BY <2>2, <2>4 DEF Attempts, Cause, Exists, IInv, TypeOK
  <2>8. ASSUME NEW z \in Attempts, z # y
        PROVE  Kept(z)
    <3>1. \A n \in Msgs : n # m => MsgKept(n)
      BY <2>2 DEF MsgKept, IInv, TypeOK
    <3> QED BY <1>2, <1>3, <2>4, <2>8, <3>1, KeptKinds, AttemptKinds
  <2>9. /\ payload'[m].retries = mine.retries + 1 /\ payload'[m].root = mine.root
    BY <2>2 DEF IInv, TypeOK
  <2>10. Root(y)' = Root(x) /\ Level(y)' = Level(x) + 1
    BY <2>5, <2>7, <2>9 DEF Root, Level
  <2> QED BY <1>1, <2>5, <2>6, <2>7, <2>8, <2>10, SlotHandedOn
<1> QED BY <1>4, <1>5

\* A new message names itself or the trigger of the message it retries.
LEMMA RootsStayKnown == IInv /\ RootsKnown /\ [Next]_vars => RootsKnown'
<1> SUFFICES ASSUME IInv, RootsKnown, [Next]_vars
             PROVE  RootsKnown'
  OBVIOUS
<1>1. Lasting /\ TypeOK
  BY Persistence DEF IInv
<1>2. \A m \in Msgs : queue[m] # "none" =>
          payload[m].root \in Msgs /\ queue'[payload'[m].root] # "none"
  BY <1>1 DEF Lasting, RootsKnown, IInv, WellFormed, Payload
<1>3. ASSUME NEW m \in Msgs, queue[m] = "none", queue'[m] # "none"
      PROVE  queue'[payload'[m].root] # "none"
  <2>1. ASSUME NEW j \in Jobs, TriggerJob(j)
        PROVE  queue'[payload'[m].root] # "none"
    <3>1. PICK n \in Msgs : Publish(n, j, 0, n)
      BY <2>1 DEF TriggerJob
    <3>2. m = n
      BY <1>1, <1>3, <3>1 DEF Publish, TypeOK
    <3>3. payload'[m].root = m
      BY <1>1, <3>1, <3>2 DEF Publish, TypeOK
    <3> QED BY <1>3, <3>3
  <2>2. ASSUME NEW w \in Workers, Retry(w)
        PROVE  queue'[payload'[m].root] # "none"
    <3> DEFINE mine == payload[holds[w]]
    <3>1. PICK n \in Msgs : Publish(n, mine.job, mine.retries + 1, mine.root)
      BY <1>3, <2>2 DEF Retry, broker
    <3>2. m = n
      BY <1>1, <1>3, <3>1 DEF Publish, TypeOK
    <3>3. payload'[m].root = mine.root
      BY <1>1, <3>1, <3>2 DEF Publish, TypeOK
    <3>4. holds[w] \in Msgs /\ queue[holds[w]] # "none"
      BY <2>2, Holding DEF Retry, Goto, IInv
    <3>5. queue[mine.root] # "none" /\ mine.root \in Msgs
      BY <3>4 DEF RootsKnown, IInv, WellFormed, Payload
    <3> QED BY <1>1, <3>3, <3>5 DEF Lasting
  <2>3. \A w \in Workers, n \in Msgs : ~Take(w, n)
    BY <1>1, <1>3 DEF Take, TypeOK
  <2>4. \A n \in Msgs : ~RestoreMsg(n)
    BY <1>1, <1>3 DEF RestoreMsg, TypeOK
  <2>5. \A w \in Workers : ~Ack(w) /\ ~ChildLost(w)
    BY <1>1, <1>3 DEF Ack, ChildLost, Settle, TypeOK
  <2> QED BY <1>3, <2>1, <2>2, <2>3, <2>4, <2>5
          DEF Next, Api, WorkerStep, Faults, vars, broker, DeleteJob, DeleteStorage,
              CancelRead, CancelCommit, LoadJob, InsertRun, InsertRefused, Execute,
              CommitSuccess, RotationError, CommitRefused, CommitFailure, Notify,
              Crash, RestoreOrphan, RestoreLate
<1> QED BY <1>2, <1>3 DEF RootsKnown

\* The invariant holds at first: there is no attempt.
LEMMA InitSlots == Init => SlotInv
<1> SUFFICES ASSUME Init
             PROVE  SlotInv
  OBVIOUS
<1>1. \A x \in Attempts : ~Exists(x)
  BY AttemptKinds DEF Init
<1>2. [x \in Attempts |-> <<0, 0>>] \in [Attempts -> Nat \X Nat]
  OBVIOUS
<1>3. Shared([x \in Attempts |-> <<0, 0>>])
  BY <1>1, <1>2 DEF Shared, Apart
<1>4. RootsKnown
  BY DEF RootsKnown, Init
<1> QED BY <1>3, <1>4 DEF SlotInv

\* Slots can be given in every reachable state.
LEMMA SlotInvariant == Spec => []SlotInv
<1>1. ASSUME IInv, IInv', SlotInv, [Next]_vars
      PROVE  SlotInv'
  <2>1. Lasting /\ RootsKnown'
    BY <1>1, Persistence, RootsStayKnown DEF SlotInv
  <2>2. PICK slot : Shared(slot)
    BY <1>1 DEF SlotInv
  <2>3. RootsKnown
    BY <1>1 DEF SlotInv
  <2>4. CASE \E j \in Jobs : TriggerJob(j)
    BY <1>1, <2>1, <2>2, <2>3, <2>4, TriggerShares DEF SlotInv
  <2>5. CASE \E w \in Workers, m \in Msgs : Take(w, m)
    BY <1>1, <2>1, <2>2, <2>5, TakeShares DEF SlotInv
  <2>6. CASE \E w \in Workers : InsertRun(w) \/ Retry(w)
    BY <1>1, <2>1, <2>2, <2>6, InsertShares, RetryShares DEF SlotInv
  <2>7. CASE \E m \in Msgs : RestoreOrphan(m) \/ RestoreLate(m)
    BY <1>1, <2>1, <2>2, <2>7, RestoreShares DEF SlotInv, RestoreOrphan, RestoreLate
  <2>8. CASE /\ \A m \in Msgs : MsgKept(m)
             /\ \A w \in Workers : WorkerKept(w) /\ OpenKept(w)
             /\ \A r \in Runs : RunKept(r)
             /\ redelivered' = redelivered
    <3>1. \A z \in Attempts : Kept(z)
      BY <1>1, <2>1, <2>8, KeptKinds, AttemptKinds
    <3>2. \A m \in Msgs : redelivered[m] <= redelivered'[m]
      BY <1>1, <2>8 DEF IInv, TypeOK
    <3>3. Shared(slot)'
      BY <1>1, <2>1, <2>2, <3>1, <3>2, SlotsKept
    <3> QED BY <2>1, <3>3 DEF SlotInv
  <2> QED BY <1>1, <2>4, <2>5, <2>6, <2>7, <2>8, QuietSteps
<1> QED BY <1>1, InitSlots, InductiveInvariant, PTL DEF Spec

\* The broker restored a family finitely often.
LEMMA RestoresFinite ==
    ASSUME TypeOK, NEW S \in SUBSET Msgs
    PROVE  IsFiniteSet(Restores(S))
<1> DEFINE f == [m \in S |-> {m} \X (1..redelivered[m])]
           T == {{m} \X (1..redelivered[m]) : m \in S}
<1>1. IsFiniteSet(S)
  <2>1. MaxMsgs \in Int
    BY ConstantsAssumption
  <2>2. IsFiniteSet(Msgs)
    BY <2>1, FS_Interval DEF Msgs
  <2> QED BY <2>2, FS_Subset
<1>2. f \in Surjection(S, T)
  BY DEF Surjection
<1>3. IsFiniteSet(T)
  BY <1>1, <1>2, FS_Surjection
<1>4. ASSUME NEW m \in S
      PROVE  IsFiniteSet({m} \X (1..redelivered[m]))
  <2>1. redelivered[m] \in Int
    BY DEF TypeOK
  <2>2. IsFiniteSet({m}) /\ IsFiniteSet(1..redelivered[m])
    <3>1. IsFiniteSet({m})
      BY FS_Singleton
    <3>2. IsFiniteSet(1..redelivered[m])
      BY <2>1, FS_Interval
    <3> QED BY <3>1, <3>2
  <2> QED BY <2>2, FS_Product
<1>5. \A x \in T : IsFiniteSet(x)
  BY <1>4
<1>6. IsFiniteSet(UNION T)
  BY <1>3, <1>5, FS_UNION
<1> QED BY <1>6 DEF Restores

\* The runs of a family, told apart by their retries and their slots.
LEMMA FamilyBounded == IInv /\ SlotInv => AttemptsBounded
<1> SUFFICES ASSUME IInv, SlotInv, NEW t \in Triggers
             PROVE  LET family == {m \in Msgs : queue[m] # "none" /\ payload[m].root = t}
                        runs == {r \in Runs : status[r] # "none" /\ origin[r] \in family}
                    IN  Cardinality(runs) <= (TaskMaxRetries + 1)
                                               * (1 + Cardinality(Restores(family)))
  BY DEF AttemptsBounded
<1> DEFINE family == {m \in Msgs : queue[m] # "none" /\ payload[m].root = t}
           runs == {r \in Runs : status[r] # "none" /\ origin[r] \in family}
           slots == {<<t, 0>>} \cup Restores(family)
<1>1. PICK slot : Shared(slot)
  BY DEF SlotInv
<1> DEFINE of == [r \in runs |-> <<payload[origin[r]].retries, slot[<<"run", r>>]>>]
<1>2. ASSUME NEW r \in runs
      PROVE  /\ <<"run", r>> \in Attempts /\ Exists(<<"run", r>>)
             /\ Root(<<"run", r>>) = t
             /\ Level(<<"run", r>>) = payload[origin[r]].retries
  BY AttemptKinds DEF Root, Level
<1>3. ASSUME NEW r \in runs
      PROVE  of[r] \in (0..TaskMaxRetries) \X slots
  <2>1. PICK s : s = slot[<<"run", r>>]
    OBVIOUS
  <2>2. payload[origin[r]] \in Payload /\ payload[origin[r]].root = t
    BY DEF IInv, WellFormed
  <2>3. /\ s \in Nat \X Nat /\ s[1] \in Msgs /\ s[2] \in 0..redelivered[s[1]]
        /\ queue[s[1]] # "none" /\ payload[s[1]].root = t
        /\ s[2] = 0 => s[1] = t
    BY <1>1, <1>2, <2>1, <2>2, AttemptKinds DEF Shared, Fits
  <2>4. s = <<s[1], s[2]>>
    BY <2>3
  <2>5. CASE s[2] = 0
    BY <2>1, <2>2, <2>3, <2>4, <2>5 DEF Payload
  <2>6. CASE s[2] # 0
    <3>1. s[1] \in family /\ s[2] \in 1..redelivered[s[1]]
      BY <2>3, <2>6 DEF IInv, TypeOK
    <3>2. s \in {s[1]} \X (1..redelivered[s[1]])
      BY <2>4, <3>1
    <3>3. s \in Restores(family)
      BY <3>1, <3>2 DEF Restores
    <3> QED BY <2>1, <2>2, <3>3 DEF Payload
  <2> QED BY <2>5, <2>6
<1>4. ASSUME NEW q \in runs, NEW r \in runs, of[q] = of[r]
      PROVE  q = r
  <2>1. /\ slot[<<"run", q>>] = slot[<<"run", r>>]
        /\ Level(<<"run", q>>) = Level(<<"run", r>>)
    BY <1>2, <1>4
  <2>2. <<"run", q>> = <<"run", r>>
    BY <1>1, <1>2, <2>1 DEF Shared, Apart
  <2> QED BY <2>2
<1>5. of \in Injection(runs, (0..TaskMaxRetries) \X slots)
  <2>1. of \in [runs -> (0..TaskMaxRetries) \X slots]
    BY <1>3
  <2> HIDE DEF of, runs, slots
  <2>2. \A q, r \in runs : of[q] = of[r] => q = r
    BY <1>4
  <2> QED BY <2>1, <2>2 DEF Injection, IsInjective
<1>6. IsFiniteSet(Restores(family))
  BY RestoresFinite DEF IInv
<1>7. IsFiniteSet(slots) /\ Cardinality(slots) = 1 + Cardinality(Restores(family))
  <2>1. <<t, 0>> \notin Restores(family)
    BY DEF Restores
  <2>2. slots = Restores(family) \cup {<<t, 0>>}
    OBVIOUS
  <2> HIDE DEF family, runs, slots, of
  <2>3. Cardinality(slots) = Cardinality(Restores(family)) + 1 /\ IsFiniteSet(slots)
    BY <1>6, <2>1, <2>2, FS_AddElement
  <2>4. Cardinality(Restores(family)) \in Nat
    BY <1>6, FS_CardinalityType
  <2> QED BY <2>3, <2>4
<1>8. IsFiniteSet(0..TaskMaxRetries) /\ Cardinality(0..TaskMaxRetries) = TaskMaxRetries + 1
  <2>1. TaskMaxRetries \in Nat
    BY ConstantsAssumption
  <2>2. /\ IsFiniteSet(0..TaskMaxRetries)
        /\ Cardinality(0..TaskMaxRetries) =
              IF 0 > TaskMaxRetries THEN 0 ELSE TaskMaxRetries - 0 + 1
    BY <2>1, FS_Interval
  <2> QED BY <2>1, <2>2
<1> HIDE DEF of, runs, slots, family
<1>9. /\ IsFiniteSet((0..TaskMaxRetries) \X slots)
      /\ Cardinality((0..TaskMaxRetries) \X slots)
            = (TaskMaxRetries + 1) * (1 + Cardinality(Restores(family)))
  <2>1. PICK L : L = 0..TaskMaxRetries
    OBVIOUS
  <2>2. IsFiniteSet(L \X slots) /\ Cardinality(L \X slots) = Cardinality(L) * Cardinality(slots)
    BY <1>7, <1>8, <2>1, FS_Product
  <2> QED BY <1>7, <1>8, <2>1, <2>2
<1>10. Cardinality(runs) <= Cardinality((0..TaskMaxRetries) \X slots)
  BY <1>5, <1>9, FS_Injection
<1> QED BY <1>9, <1>10 DEF runs, family

-----------------------------------------------------------------------------
(* The life of a run, as RunLifecycle describes it.                          *)

\* What is about to be announced is about a run with an outcome.
Said == \A w \in Workers :
    pc[w] \in Reporting => at[w] \in finished \/ status[at[w]] = "gone"

\* A run with an outcome keeps it or goes, and one that is gone stays gone.
OutcomesLast ==
    /\ \A r \in finished : r \in finished' \/ status'[r] = "gone"
    /\ \A r \in Runs : status[r] = "gone" => status'[r] = "gone"

\* They do.
LEMMA OutcomesStay == IInv /\ [Next]_vars => OutcomesLast
<1> SUFFICES ASSUME IInv, [Next]_vars
             PROVE  OutcomesLast
  OBVIOUS
<1> USE DEF IInv, TypeOK, Goto, Stay, OutcomesLast
<1>1. CASE finished' = finished /\ status' = status
  BY <1>1
<1>2. ASSUME NEW j \in Jobs, DeleteJob(j)
      PROVE  OutcomesLast
  BY <1>2 DEF DeleteJob, Untouched
<1>3. ASSUME NEW r \in Runs, CancelCommit(r)
      PROVE  OutcomesLast
  BY <1>3 DEF CancelCommit
<1>4. ASSUME NEW w \in Workers, InsertRun(w)
      PROVE  OutcomesLast
  BY <1>4 DEF InsertRun, NextRun
<1>5. ASSUME NEW w \in Workers, CommitSuccess(w) \/ RotationError(w)
      PROVE  OutcomesLast
  BY <1>5 DEF CommitSuccess, RotationError, CanFlush
<1>6. ASSUME NEW w \in Workers, CommitFailure(w)
      PROVE  OutcomesLast
  BY <1>6 DEF CommitFailure
<1> QED BY <1>1, <1>2, <1>3, <1>4, <1>5, <1>6
        DEF Next, Api, WorkerStep, Faults, vars, rows, TriggerJob, DeleteStorage,
            CancelRead, Take, LoadJob, InsertRefused, Execute, CommitRefused, Retry,
            Notify, Ack, Crash, ChildLost, RestoreOrphan, RestoreLate, RestoreMsg

\* Only a commit makes a worker report.
LEMMA SaidPreserved == IInv /\ Said /\ [Next]_vars => Said'
<1> SUFFICES ASSUME IInv, Said, [Next]_vars, NEW w \in Workers, pc'[w] \in Reporting
             PROVE  at'[w] \in finished' \/ status'[at'[w]] = "gone"
  BY DEF Said
<1>1. CASE pc[w] \in Reporting /\ at'[w] = at[w]
  <2>1. at[w] \in Runs
    BY <1>1, Working DEF IInv
  <2> QED BY <1>1, <2>1, OutcomesStay DEF OutcomesLast, Said
<1>2. CASE CommitSuccess(w) \/ CommitFailure(w)
  <2>1. at'[w] = at[w]
    BY <1>2 DEF CommitSuccess, CommitFailure, Stay
  <2> QED BY <1>2, <2>1
          DEF CommitSuccess, CommitFailure, Goto, Reporting, IInv, TypeOK
<1>3. ~(pc[w] \in Reporting /\ at'[w] = at[w]) => CommitSuccess(w) \/ CommitFailure(w)
  <2> USE DEF IInv, TypeOK, Goto, Stay, Reporting, process
  <2>1. CASE process' = process
    BY <2>1
  <2>2. ASSUME NEW v \in Workers, WorkerStep(v)
        PROVE  v = w \/ (pc'[w] = pc[w] /\ at'[w] = at[w])
    BY <2>2 DEF WorkerStep, Take, LoadJob, InsertRun, InsertRefused, Execute,
                CommitSuccess, RotationError, CommitRefused, Retry, CommitFailure,
                Notify, Ack, Free
  <2>3. CASE WorkerStep(w)
    BY <2>3 DEF WorkerStep, Take, LoadJob, InsertRun, InsertRefused, Execute,
                RotationError, CommitRefused, Retry, Notify, Ack, Free
  <2>4. CASE Crash
    BY <2>4 DEF Crash
  <2>5. ASSUME NEW v \in Workers, ChildLost(v)
        PROVE  pc'[w] = pc[w] /\ at'[w] = at[w]
    BY <2>5 DEF ChildLost, Free
  <2> QED BY <2>1, <2>2, <2>3, <2>4, <2>5
          DEF Next, Api, Faults, vars, TriggerJob, DeleteJob, DeleteStorage, CancelRead,
              CancelCommit, RestoreOrphan, RestoreLate, RestoreMsg
<1> QED BY <1>1, <1>2, <1>3

\* What is said is so in every reachable state.
LEMMA SaidAlways == Spec => []Said
<1>1. Init => Said
  BY DEF Init, Said, Reporting
<1> QED BY <1>1, SaidPreserved, InductiveInvariant, PTL DEF Spec

\* The job of a run, as the abstract specification sees it.
JobNow == [r \in Runs |-> IF status[r] = "none" THEN None ELSE JobOf(r)]

\* It changes only when a run starts.
LEMMA JobNowKept ==
    ASSUME IInv, [Next]_vars,
           \A r \in Runs : status[r] = "none" => status'[r] = "none"
    PROVE  JobNow' = JobNow
<1>1. ASSUME NEW r \in Runs
      PROVE  JobNow'[r] = JobNow[r]
  BY JobOfLasts, Persistence DEF JobNow, Lasting
<1>2. JobNow = [r \in Runs |-> JobNow[r]] /\ JobNow' = [r \in Runs |-> JobNow'[r]]
  BY DEF JobNow
<1>3. [r \in Runs |-> JobNow[r]] = [r \in Runs |-> JobNow'[r]]
  BY <1>1
<1> QED BY <1>2, <1>3

\* At first nothing has run.
LEMMA LifeInitial == Init => Life!LifeInit
BY DEF Init, Life!LifeInit

\* What the steps of the abstract specification come to.
LEMMA LifeActions ==
    ASSUME NEW r \in Runs
    PROVE  /\ \A j \in Jobs :
                (/\ status[r] = "none" /\ j \in jobRow
                 /\ status' = [status EXCEPT ![r] = "running"]
                 /\ JobNow' = [JobNow EXCEPT ![r] = j]
                 /\ UNCHANGED <<jobRow, storageRow, finished, art, cancelling, sent>>)
                   => Life!Start(r, j)
           /\ \A outcome, copies :
                (/\ status[r] \notin {"none", "gone"} /\ r \notin finished
                 /\ status' = [status EXCEPT ![r] = outcome]
                 /\ finished' = finished \cup {r}
                 /\ copies \in {{}, JobDests[JobNow[r]]} /\ copies \subseteq storageRow
                 /\ art' = art \cup ({r} \X copies)
                 /\ JobNow' = JobNow
                 /\ UNCHANGED <<jobRow, storageRow, cancelling, sent>>)
                   => Life!End(r, outcome)
BY DEF Life!Start, Life!End, JobNow

\* Every step is one of the abstract specification, or none.
LEMMA LifeStep == IInv /\ Said /\ [Next]_vars => [Life!LifeNext]_Life!lifeVars
<1> SUFFICES ASSUME IInv, Said, [Next]_vars
             PROVE  [Life!LifeNext]_Life!lifeVars
  OBVIOUS
<1> USE DEF IInv, TypeOK
<1>1. ASSUME UNCHANGED <<rows, cancelling, sent>>
      PROVE  UNCHANGED Life!lifeVars
  <2>1. JobNow' = JobNow
    BY <1>1, JobNowKept DEF rows
  <2> QED BY <1>1, <2>1 DEF Life!lifeVars, rows, JobNow
<1>2. ASSUME NEW j \in Jobs, DeleteJob(j)
      PROVE  Life!LifeNext
  <2>1. JobNow' = JobNow
    BY <1>2, JobNowKept DEF DeleteJob
  <2>2. {r \in Runs : status[r] # "none" /\ JobOf(r) = j}
            = {r \in Runs : status[r] # "none" /\ JobNow[r] = j}
    BY DEF JobNow
  <2>3. Life!DropJob(j)
    BY <1>2, <2>1, <2>2 DEF DeleteJob, Life!DropJob, JobNow, ghosts
  <2> QED BY <2>3 DEF Life!LifeNext
<1>3. ASSUME NEW s \in Storages, DeleteStorage(s)
      PROVE  Life!LifeNext
  <2>1. JobNow' = JobNow
    BY <1>3, JobNowKept DEF DeleteStorage
  <2>2. Life!DropStorage(s)
    BY <1>3, <2>1 DEF DeleteStorage, Life!DropStorage, JobNow, ghosts
  <2> QED BY <2>2 DEF Life!LifeNext
<1>4. ASSUME NEW r \in Runs, CancelRead(r)
      PROVE  Life!LifeNext
  <2>1. JobNow' = JobNow
    BY <1>4, JobNowKept DEF CancelRead, rows
  <2>2. Life!AskToCancel(r)
    BY <1>4, <2>1 DEF CancelRead, Life!AskToCancel, JobNow, rows, ghosts
  <2> QED BY <2>2 DEF Life!LifeNext
<1>5. ASSUME NEW r \in Runs, CancelCommit(r)
      PROVE  Life!LifeNext
  <2>1. status[r] # "none"
    BY <1>5 DEF CancelCommit, Untouched
  <2>2. JobNow' = JobNow
    BY <1>5, <2>1, JobNowKept DEF CancelCommit
  <2>3. Life!Cancel(r)
    BY <1>5, <2>2 DEF CancelCommit, Life!Cancel, JobNow, ghosts
  <2> QED BY <2>3 DEF Life!LifeNext
<1>6. ASSUME NEW w \in Workers, InsertRun(w)
      PROVE  Life!LifeNext
  <2>1. PICK r \in Runs : /\ NextRun(r)
                          /\ status' = [status EXCEPT ![r] = "running"]
                          /\ origin' = [origin EXCEPT ![r] = holds[w]]
    BY <1>6 DEF InsertRun
  <2>2. MyJob(w) \in jobRow /\ payload' = payload
    BY <1>6 DEF InsertRun, broker
  <2>3. JobNow' = [JobNow EXCEPT ![r] = MyJob(w)]
    <3>1. ASSUME NEW q \in Runs
          PROVE  JobNow'[q] = IF q = r THEN MyJob(w) ELSE JobNow[q]
      BY <2>1, <2>2 DEF JobNow, JobOf, MyJob
    <3>2. JobNow = [q \in Runs |-> JobNow[q]] /\ JobNow' = [q \in Runs |-> JobNow'[q]]
      BY DEF JobNow
    <3> QED BY <3>1, <3>2
  <2>4. PICK j \in Jobs : j = MyJob(w)
    BY <2>2
  <2>5. Life!Start(r, j)
    BY <1>6, <2>1, <2>2, <2>3, <2>4, LifeActions DEF InsertRun, NextRun
  <2> QED BY <2>5 DEF Life!LifeNext
<1>7. ASSUME NEW w \in Workers, CommitSuccess(w) \/ RotationError(w)
      PROVE  Life!LifeNext
  <2> DEFINE r == at[w]
  <2>1. /\ r \in Runs /\ status[r] # "none" /\ r \notin finished
        /\ MyJob(w) = JobOf(r) /\ status[r] # "gone"
    BY <1>7, Working DEF CommitSuccess, RotationError, CanFlush, NothingYet, Active
  <2>2. JobNow' = JobNow
    BY <1>7, <2>1, JobNowKept DEF CommitSuccess, RotationError
  <2>3. JobNow[r] = MyJob(w)
    BY <2>1 DEF JobNow
  <2>4. PICK copies : copies = IF pc[w] = "storing" THEN JobDests[MyJob(w)] ELSE {}
    OBVIOUS
  <2>5. /\ copies \in {{}, JobDests[JobNow[r]]} /\ copies \subseteq storageRow
        /\ NewArtifacts(w) = {r} \X copies
    BY <1>7, <2>3, <2>4 DEF CommitSuccess, RotationError, CanFlush, NewArtifacts
  <2>6. PICK outcome \in {"success", "failed"} : status' = [status EXCEPT ![r] = outcome]
    BY <1>7 DEF CommitSuccess, RotationError
  <2>7. /\ finished' = finished \cup {r} /\ art' = art \cup ({r} \X copies)
        /\ UNCHANGED <<jobRow, storageRow, cancelling, sent>>
    BY <1>7, <2>5 DEF CommitSuccess, RotationError, ghosts
  <2>8. Life!End(r, outcome)
    BY <2>1, <2>2, <2>5, <2>6, <2>7, LifeActions
  <2> QED BY <2>1, <2>8 DEF Life!LifeNext
<1>8. ASSUME NEW w \in Workers, CommitFailure(w)
      PROVE  [Life!LifeNext]_Life!lifeVars
  <2> DEFINE r == at[w]
  <2>1. r \in Runs /\ status[r] # "none" /\ r \notin finished
    BY <1>8, Working DEF CommitFailure, NothingYet, Active
  <2>2. CASE status[r] = "gone"
    <3>1. UNCHANGED <<rows, cancelling, sent>>
      BY <1>8, <2>2 DEF CommitFailure, rows, ghosts
    <3> QED BY <1>1, <3>1
  <2>3. CASE status[r] # "gone"
    <3>1. /\ status' = [status EXCEPT ![r] = "failed"]
          /\ finished' = finished \cup {r} /\ art' = art \cup ({r} \X {})
          /\ UNCHANGED <<jobRow, storageRow, cancelling, sent>>
      BY <1>8, <2>3 DEF CommitFailure, ghosts
    <3>2. JobNow' = JobNow
      BY <2>1, <3>1, JobNowKept
    <3>3. PICK outcome, copies : outcome = "failed" /\ copies = {}
      OBVIOUS
    <3>4. /\ copies \in {{}, JobDests[JobNow[r]]} /\ copies \subseteq storageRow
          /\ status[r] \notin {"none", "gone"}
          /\ status' = [status EXCEPT ![r] = outcome] /\ art' = art \cup ({r} \X copies)
      BY <2>1, <2>3, <3>1, <3>3
    <3>5. Life!End(r, outcome)
      BY <2>1, <3>1, <3>2, <3>4, LifeActions
    <3> QED BY <2>1, <3>3, <3>5 DEF Life!LifeNext
  <2> QED BY <2>2, <2>3
<1>9. ASSUME NEW w \in Workers, Notify(w)
      PROVE  Life!LifeNext
  <2> DEFINE r == at[w]
  <2>1. pc[w] \in Reporting
    BY <1>9 DEF Notify, Goto, Reporting
  <2>2. r \in Runs /\ (r \in finished \/ status[r] = "gone")
    BY <2>1, Working DEF Said
  <2>3. PICK event \in {"run.success", "run.failed"} :
            /\ pc[w] = IF event = "run.success" THEN "tellSuccess" ELSE "tellFailure"
            /\ sent' = [sent EXCEPT ![r] = @ \cup {event}]
    BY <1>9 DEF Notify, Goto
  <2>4. /\ sent[r] = {}
        /\ event = "run.success" => status[r] \in {"success", "cancelled", "gone"}
        /\ event = "run.failed" =>
              status[r] \in {"failed", "cancelled", "gone"} /\ Copies(r) = {}
    BY <2>3 DEF AboutToSay
  <2>5. event = "run.failed" => \A a \in art : a[1] # r
    BY <2>4 DEF Copies
  <2>6. sent' = [sent EXCEPT ![r] = {event}]
    BY <2>2, <2>3, <2>4
  <2>7. UNCHANGED <<rows, cancelling>>
    BY <1>9 DEF Notify
  <2>8. JobNow' = JobNow
    BY <2>7, JobNowKept DEF rows
  <2>9. Life!Announce(r, event)
    BY <2>2, <2>4, <2>5, <2>6, <2>7, <2>8 DEF Life!Announce, JobNow, rows
  <2> QED BY <2>2, <2>9 DEF Life!LifeNext
<1> QED BY <1>1, <1>2, <1>3, <1>4, <1>5, <1>6, <1>7, <1>8, <1>9
        DEF Next, Api, WorkerStep, Faults, vars, ghosts, TriggerJob, Take, LoadJob,
            InsertRefused, Execute, CommitRefused, Retry, Ack, Crash, ChildLost,
            RestoreOrphan, RestoreLate, RestoreMsg

\* The outcome of a run is written once: afterwards its row only disappears or
\* is overwritten by a cancellation that had read it as running, and its
\* artifacts only disappear with it.  No redelivered task touches it.
OutcomeKept ==
    \A r \in finished :
        /\ status'[r] \in {status[r], "cancelled", "gone"}
        /\ status'[r] = "cancelled" => status[r] = "cancelled" \/ r \in cancelling
        /\ status'[r] # "gone" => Copies(r)' = Copies(r)

\* The abstract specification says so.
LEMMA LifeIsFinal ==
    ASSUME TypeOK, Untouched, [Life!LifeNext]_Life!lifeVars
    PROVE  OutcomeKept
<1> USE DEF TypeOK, OutcomeKept, Copies
<1>1. CASE status' = status /\ art' = art
  BY <1>1
<1>2. ASSUME NEW r \in Runs, NEW j \in Jobs, Life!Start(r, j)
      PROVE  OutcomeKept
  BY <1>2 DEF Life!Start, Untouched
<1>3. ASSUME NEW r \in Runs, NEW outcome, Life!End(r, outcome)
      PROVE  OutcomeKept
  BY <1>3 DEF Life!End
<1>4. ASSUME NEW r \in Runs, Life!Cancel(r)
      PROVE  OutcomeKept
  BY <1>4 DEF Life!Cancel
<1>5. ASSUME NEW j \in Jobs, Life!DropJob(j)
      PROVE  OutcomeKept
  BY <1>5 DEF Life!DropJob
<1> QED BY <1>1, <1>2, <1>3, <1>4, <1>5
        DEF Life!LifeNext, Life!lifeVars, Life!Announce, Life!AskToCancel, Life!DropStorage

-----------------------------------------------------------------------------
\* Every reachable state is well typed.
THEOREM TypeCorrect == Spec => []TypeOK
<1>1. IInv => TypeOK
  BY DEF IInv
<1> QED BY <1>1, InductiveInvariant, PTL

\* The artifacts of a run appear together, with its outcome, or not at all.
THEOREM ArtifactsAtomic == Spec => []AllOrNothing
<1>1. IInv => AllOrNothing
  BY DEF IInv
<1> QED BY <1>1, InductiveInvariant, PTL

\* A run left "running" without a worker has lost its worker or a destination.
THEOREM RunningOwned == Spec => []RunningIsOwned
<1>1. IInv => RunningIsOwned
  BY DEF IInv
<1> QED BY <1>1, InductiveInvariant, PTL

\* A message is settled only after one of its runs has an outcome, with the
\* three exceptions SettledHasOutcome lists.
THEOREM LateAcknowledgement == Spec => []SettledHasOutcome
<1>1. IInv => SettledHasOutcome
  BY DEF IInv
<1> QED BY <1>1, InductiveInvariant, PTL

\* Announcements are true and made once.
THEOREM NotificationsTrue == Spec => []AnnouncedIsTrue
<1>1. IInv => AnnouncedIsTrue
  BY DEF IInv
<1> QED BY <1>1, InductiveInvariant, PTL

\* One trigger makes no more runs than its retries and the restores of its
\* messages account for, in whatever order they happen.
THEOREM RunsOfATrigger == Spec => []AttemptsBounded
<1>1. IInv /\ SlotInv => AttemptsBounded
  BY FamilyBounded
<1> QED BY <1>1, InductiveInvariant, SlotInvariant, PTL

\* The pipeline implements RunLifecycle: every step of a worker, of the broker,
\* of the API or of a fault is a step in the life of one run, or the deletion of
\* a job or a storage, or nothing a client can see.
THEOREM ImplementsLifecycle == Spec => LifecycleKept
<1> QED BY InductiveInvariant, SaidAlways, LifeInitial, LifeStep, PTL
        DEF Spec, LifecycleKept, Life!LifeSpec

\* The outcome of a run is written once; only a cancellation that read it as
\* running, or the deletion of its job, changes the row afterwards.
THEOREM OutcomeWrittenOnce == Spec => [][OutcomeKept]_vars
<1>1. IInv /\ Said /\ [Next]_vars => [OutcomeKept]_vars
  BY LifeStep, LifeIsFinal DEF IInv
<1> QED BY <1>1, InductiveInvariant, SaidAlways, PTL DEF Spec
=============================================================================
