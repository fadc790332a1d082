-------------------------- MODULE RotationTxProofs --------------------------
(***************************************************************************)
(* NeverTooMuch, NewestIsLive, CatchesUp and DeadlockByReorder for any     *)
(* number of overlapping workers, destinations and runs.  What a transaction has marked or is    *)
(* about to mark (Doomed) was decided from rows that may be stale; the     *)
(* decision stays sound because committed rows are only ever added and     *)
(* KeepAntitone says that more rows never make rotation keep more of the   *)
(* old ones.  Workers with one order of the destinations take the row      *)
(* locks in one order (LocksBehind), so that no circle of them can wait.   *)
(***************************************************************************)
EXTENDS RotationTx, RotationFacts, WellFoundedInduction

\* What rows[d] will be when the transaction of w commits.
After(w, d) == IF Writes(w, d) THEN rows[d] \cup Own(w) ELSE rows[d]

\* What it has marked or still has to mark at d.
Doomed(w, d) ==
    locks[w][d] \cup (IF pc[w] = "marking" /\ Here(w) = d THEN todo[w] ELSE {})

Shape(w) ==
    /\ pc[w] \in {"idle", "executing"} => locks[w] = NoLocks /\ idx[w] = 1
    /\ pc[w] # "marking" => todo[w] = {}
    /\ pc[w] \in {"fetching", "marking"} => idx[w] <= Len(order[w])
    /\ idx[w] <= Len(order[w]) + 1
    /\ \A i \in 1..Len(order[w]) :
           (i > idx[w] \/ (i = idx[w] /\ pc[w] # "marking"))
               => locks[w][order[w][i]] = {}

\* It decides about rows that will be there.
Within(w) == \A d \in Dests : Doomed(w, d) \subseteq After(w, d)

\* No row it marks would be kept by a rotation of everything committed.
Sound(w) ==
    \A d \in Dests : NonNegative(PolicyOf[d]) =>
        Doomed(w, d) \cap Keep(PolicyOf[d], After(w, d)) = {}

\* No row it marks is the newest.
Superseded(w) ==
    \A d \in Dests : KeepsSomething(PolicyOf[d]) =>
        \A a \in Doomed(w, d) : \E b \in After(w, d) : Newer(b, a)

\* The rows a rotation of d removes from what is committed and its own.
Rest(w, d) == (Live(d) \cup Own(w)) \ Keep(PolicyOf[d], Live(d) \cup Own(w))

\* Until another worker commits, its reads are up to date.
Exact(w) ==
    ~overtaken[w] =>
        /\ pc[w] = "fetching" => \A a \in rows[Here(w)] : a.id \in seen[w]
        /\ pc[w] = "marking" => Doomed(w, Here(w)) = Rest(w, Here(w))
        /\ pc[w] # "idle" => \A d \in Dests : Rotated(w, d) => locks[w][d] = Rest(w, d)

WInv(w) == Shape(w) /\ Within(w) /\ Sound(w) /\ Superseded(w) /\ Exact(w)

\* The committed rows of a destination.
RowsOK(d) ==
    /\ IsFiniteSet(rows[d])
    /\ dead[d] \subseteq rows[d]
    /\ \A a \in rows[d] : a.id < nextId
    /\ NonNegative(PolicyOf[d]) => dead[d] \cap Keep(PolicyOf[d], rows[d]) = {}
    /\ KeepsSomething(PolicyOf[d]) =>
           \A a \in dead[d] : \E b \in rows[d] : Newer(b, a)

NewIds == \A w \in Workers : \A a \in Own(w) : a.id < nextId

IInv ==
    /\ TypeOK /\ NewIds
    /\ \A d \in Dests : RowsOK(d)
    /\ \A w \in Workers : WInv(w)

-----------------------------------------------------------------------------
\* What rotation marks is what it does not keep.
LEMMA MarkedIsRest ==
    ASSUME NEW p, NEW S, NEW t
    PROVE  Marked(p, S, t) = S \ Keep(p, S)
BY DEF Marked

\* What rotation keeps is some of what there is.
LEMMA KeepWithin ==
    ASSUME NEW p, NEW S
    PROVE  Keep(p, S) \subseteq S
BY DEF Keep, KeepFromBucket

\* A place in destination_ids names a destination, and only one place does.
LEMMA OrderFacts ==
    ASSUME TypeOK, NEW w \in Workers
    PROVE  /\ order[w] \in Seq(Dests)
           /\ Len(order[w]) \in Nat
           /\ \A i \in 1..Len(order[w]) : order[w][i] \in Dests
           /\ \A i, j \in 1..Len(order[w]) : order[w][i] = order[w][j] => i = j
<1>1. order[w] \in Orders \cup {<<>>}
  BY DEF TypeOK
<1>2. order[w] \in Seq(Dests)
  <2>1. <<>> \in Seq(Dests)
    OBVIOUS
  <2>2. Orders \subseteq Seq(Dests)
    BY TxAssumption
  <2> QED BY <1>1, <2>1, <2>2
<1>3. \A i, j \in 1..Len(order[w]) : order[w][i] = order[w][j] => i = j
  BY <1>1, TxAssumption
<1> QED BY <1>2, <1>3

\* While a worker rotates, its place in its copy of destination_ids is one.
LEMMA HereDest ==
    ASSUME TypeOK, NEW w \in Workers, Shape(w), pc[w] \in {"fetching", "marking"}
    PROVE  Here(w) \in Dests /\ idx[w] \in 1..Len(order[w])
<1>1. idx[w] \in Nat /\ idx[w] # 0 /\ idx[w] <= Len(order[w])
  BY DEF TypeOK, Shape
<1>2. idx[w] \in 1..Len(order[w])
  BY <1>1, OrderFacts
<1> QED BY <1>2, OrderFacts DEF Here

\* A finite set of rows stays one when a worker adds its own.
LEMMA AfterFinite ==
    ASSUME TypeOK, NEW w \in Workers, NEW d \in Dests, IsFiniteSet(rows[d])
    PROVE  /\ IsFiniteSet(After(w, d)) /\ After(w, d) \subseteq Artifact
           /\ IsFiniteSet(rows[d] \cup Own(w)) /\ rows[d] \cup Own(w) \subseteq Artifact
           /\ rows[d] \subseteq After(w, d) /\ After(w, d) \subseteq rows[d] \cup Own(w)
<1>1. rows[d] \subseteq Artifact /\ Own(w) \subseteq Artifact
  BY DEF TypeOK, Own
<1>2. rows[d] \subseteq After(w, d) /\ After(w, d) \subseteq rows[d] \cup Own(w)
  BY DEF After
<1>3. IsFiniteSet(rows[d] \cup Own(w))
  <2>1. Own(w) \in {{}, {new[w]}}
    BY DEF Own
  <2>2. IsFiniteSet(rows[d] \cup {new[w]}) /\ IsFiniteSet(rows[d] \cup {})
    BY FS_AddElement
  <2> QED BY <2>1, <2>2
<1> QED BY <1>1, <1>2, <1>3, FS_Subset

-----------------------------------------------------------------------------
\* Before any backup every worker is idle and holds nothing.
LEMMA InitIInv == Init => IInv
<1> SUFFICES ASSUME Init
             PROVE  IInv
  OBVIOUS
<1>1. Cardinality(History) \in Nat
  BY TxAssumption, FS_CardinalityType
<1>2. TypeOK
  BY <1>1, TxAssumption DEF Init, TypeOK, NoLocks, Rotating
<1>3. NewIds
  BY DEF Init, NewIds, Own
<1>4. ASSUME NEW d \in Dests
      PROVE  RowsOK(d)
  <2>1. rows[d] = History /\ dead[d] = {}
    BY DEF Init, NoLocks
  <2> QED BY <2>1, TxAssumption DEF RowsOK, Init
<1>5. ASSUME NEW w \in Workers
      PROVE  WInv(w)
  <2>1. /\ pc[w] = "idle" /\ todo[w] = {} /\ idx[w] = 1 /\ order[w] = <<>>
        /\ locks[w] = NoLocks
    BY DEF Init
  <2>2. \A d \in Dests : Doomed(w, d) = {}
    BY <2>1 DEF Doomed, NoLocks
  <2>3. Len(order[w]) = 0
    BY <2>1
  <2>4. Shape(w)
    BY <2>1, <2>3 DEF Shape
  <2> QED BY <2>1, <2>2, <2>4 DEF WInv, Within, Sound, Superseded, Exact
<1> QED BY <1>2, <1>3, <1>4, <1>5 DEF IInv

\* No step but Write touches the committed rows.
WorkerStep(w) ==
    \/ Begin(w) \/ Succeed(w) \/ SucceedWithoutFile(w) \/ ReadRuns(w)
    \/ ReadArtifacts(w) \/ MarkRow(w) \/ NextDest(w) \/ Write(w) \/ Rollback(w)

\* A step is the clock's, an edit of the job, or one worker's.
LEMMA Cases ==
    ASSUME Next
    PROVE  \/ Tick
           \/ \E o \in Orders : UpdateJob(o)
           \/ \E w \in Workers : WorkerStep(w)
BY DEF Next, WorkerStep, Commit, RotationError

\* Types last.
LEMMA TypePreserved ==
    ASSUME TypeOK, \A w \in Workers : Shape(w), [Next]_vars
    PROVE  TypeOK'
<1>1. CASE UNCHANGED vars
  BY <1>1 DEF TypeOK, vars, database, transaction
<1>2. CASE Tick
  BY <1>2 DEF TypeOK, Tick, database, transaction
<1>3. ASSUME NEW o \in Orders, UpdateJob(o)
      PROVE  TypeOK'
  BY <1>3 DEF TypeOK, UpdateJob, transaction
<1>4. ASSUME NEW w \in Workers, WorkerStep(w)
      PROVE  TypeOK'
  <2>1. CASE Begin(w)
    <3>1. [id |-> nextId, at |-> now] \in Artifact
      BY DEF TypeOK, Artifact
    <3>2. destIds \in Orders \cup {<<>>}
      BY DEF TypeOK
    <3> QED BY <2>1, <3>1, <3>2 DEF TypeOK, Begin, Goto, database, Rotating
  <2>2. CASE Succeed(w)
    BY <2>2 DEF TypeOK, Succeed, Goto, database, transaction, Rotating
  <2>3. CASE SucceedWithoutFile(w)
    BY <2>3 DEF TypeOK, SucceedWithoutFile, Goto, database, Rotating
  <2>4. CASE ReadRuns(w)
    <3>1. 0..(nextId - 1) \subseteq Nat
      BY DEF TypeOK
    <3> QED BY <2>4, <3>1 DEF TypeOK, ReadRuns, Goto, database, Rotating
  <2>5. CASE ReadArtifacts(w)
    <3>1. Visible(w) \subseteq Artifact
      <4>1. Own(w) \subseteq Artifact
        BY DEF TypeOK, Own
      <4>2. CASE Here(w) \in Dests
        BY <4>1, <4>2 DEF TypeOK, Visible, Live
      <4>3. Here(w) \in Dests
        BY <2>5, HereDest DEF ReadArtifacts, Goto
      <4> QED BY <4>2, <4>3
    <3>2. Marked(PolicyOf[Here(w)], Visible(w), now) \subseteq Artifact
      BY <3>1 DEF Marked
    <3> QED BY <2>5, <3>2 DEF TypeOK, ReadArtifacts, Goto, database, Rotating
  <2>6. CASE MarkRow(w)
    <3>1. PICK a \in todo[w] : /\ todo' = [todo EXCEPT ![w] = @ \ {a}]
                               /\ locks' = [locks EXCEPT ![w][Here(w)] = @ \cup {a}]
      BY <2>6 DEF MarkRow
    <3>2. a \in Artifact /\ locks[w] \in [Dests -> SUBSET Artifact]
      BY DEF TypeOK
    <3>3. locks' = [locks EXCEPT ![w] = [locks[w] EXCEPT ![Here(w)] = @ \cup {a}]]
      BY <3>1
    <3>4. [locks[w] EXCEPT ![Here(w)] = @ \cup {a}] \in [Dests -> SUBSET Artifact]
      BY <3>2
    <3>5. /\ todo' \in [Workers -> SUBSET Artifact]
          /\ locks' \in [Workers -> [Dests -> SUBSET Artifact]]
      BY <3>1, <3>3, <3>4 DEF TypeOK
    <3> QED BY <2>6, <3>5 DEF TypeOK, MarkRow, database
  <2>7. CASE NextDest(w)
    BY <2>7 DEF TypeOK, NextDest, Goto, database, Rotating
  <2>8. ASSUME EndTx(w)
        PROVE  /\ now' \in Times /\ nextId' \in Nat /\ destIds' \in Orders
               /\ pc' \in [Workers -> {"idle", "executing"} \cup Rotating]
               /\ new' \in [Workers -> Artifact \cup {None}]
               /\ order' \in [Workers -> Orders \cup {<<>>}]
               /\ idx' \in [Workers -> Nat \ {0}]
               /\ seen' \in [Workers -> SUBSET Nat]
               /\ todo' \in [Workers -> SUBSET Artifact]
               /\ locks' \in [Workers -> [Dests -> SUBSET Artifact]]
    <3>1. NoLocks \in [Dests -> SUBSET Artifact]
      BY DEF NoLocks
    <3> QED BY <2>8, <3>1 DEF TypeOK, EndTx
  <2>9. CASE Write(w)
    <3>1. rows' \in [Dests -> SUBSET Artifact] /\ dead' \in [Dests -> SUBSET Artifact]
      BY <2>9 DEF TypeOK, Write, Own
    <3>2. overtaken' \in [Workers -> BOOLEAN]
      BY <2>9 DEF Write
    <3> QED BY <2>8, <2>9, <3>1, <3>2 DEF TypeOK, Write
  <2>10. CASE Rollback(w)
    BY <2>8, <2>10 DEF TypeOK, Rollback
  <2> QED BY <1>4, <2>1, <2>2, <2>3, <2>4, <2>5, <2>6, <2>7, <2>9, <2>10 DEF WorkerStep
<1> QED BY <1>1, <1>2, <1>3, <1>4, Cases

-----------------------------------------------------------------------------
(* Steps of others: what a worker knows stays sound.                       *)

Same(v) ==
    /\ pc'[v] = pc[v] /\ new'[v] = new[v] /\ order'[v] = order[v]
    /\ idx'[v] = idx[v] /\ seen'[v] = seen[v] /\ todo'[v] = todo[v]
    /\ locks'[v] = locks[v]

\* A worker that does not move keeps its shape.
LEMMA ShapeFrame ==
    ASSUME NEW v \in Workers, Shape(v), Same(v)
    PROVE  Shape(v)'
BY DEF Shape, Same, NoLocks

\* A step that leaves the worker and the committed rows alone.
LEMMA Frame ==
    ASSUME NEW v \in Workers, WInv(v), Same(v),
           overtaken'[v] = overtaken[v], rows' = rows, dead' = dead
    PROVE  WInv(v)'
<1> USE DEF Same, Doomed, After, Writes, Own, Here
<1>1. Shape(v)'
  BY ShapeFrame DEF WInv
<1>2. Within(v)'
  BY DEF Within, WInv
<1>3. Sound(v)'
  <2> SUFFICES ASSUME NEW d \in Dests, NonNegative(PolicyOf[d])
               PROVE  Doomed(v, d)' \cap Keep(PolicyOf[d], After(v, d)') = {}
    BY DEF Sound
  <2>1. Doomed(v, d)' = Doomed(v, d)
    OBVIOUS
  <2>2. After(v, d)' = After(v, d)
    OBVIOUS
  <2>3. Doomed(v, d) \cap Keep(PolicyOf[d], After(v, d)) = {}
    BY DEF Sound, WInv
  <2> HIDE DEF Doomed, After
  <2> QED BY <2>1, <2>2, <2>3
<1>4. Superseded(v)'
  BY DEF Superseded, WInv
<1>5. Exact(v)'
  <2>1. Here(v)' = Here(v)
    OBVIOUS
  <2>2. \A d \in Dests : locks'[v][d] = locks[v][d] /\ Rotated(v, d)' = Rotated(v, d)
    BY DEF Rotated
  <2>3. \A d : Doomed(v, d)' = Doomed(v, d) /\ Rest(v, d)' = Rest(v, d)
    BY DEF Rest, Live
  <2> HIDE DEF Doomed, Here
  <2> QED BY <2>1, <2>2, <2>3 DEF Exact, WInv
<1> QED BY <1>1, <1>2, <1>3, <1>4, <1>5 DEF WInv

\* Another worker commits: rows appear, and the reads of v are out of date.
LEMMA FrameOvertaken ==
    ASSUME NEW v \in Workers, WInv(v), Same(v), TypeOK, TypeOK',
           overtaken'[v] \/ pc[v] \in {"idle", "executing"},
           \A d \in Dests : rows[d] \subseteq rows'[d] /\ IsFiniteSet(rows'[d])
    PROVE  WInv(v)'
<1>1. Shape(v)'
  BY ShapeFrame DEF WInv
<1>2. ASSUME NEW d \in Dests
      PROVE  /\ Doomed(v, d)' \subseteq After(v, d)'
             /\ NonNegative(PolicyOf[d]) =>
                   Doomed(v, d)' \cap Keep(PolicyOf[d], After(v, d)') = {}
             /\ KeepsSomething(PolicyOf[d]) =>
                   \A a \in Doomed(v, d)' : \E b \in After(v, d)' : Newer(b, a)
  <2>1. Doomed(v, d)' = Doomed(v, d)
    BY DEF Same, Doomed, Here
  <2>2. After(v, d) \subseteq After(v, d)'
    BY DEF Same, After, Writes, Own
  <2>3. IsFiniteSet(After(v, d)') /\ After(v, d)' \subseteq Artifact
    <3>1. rows'[d] \subseteq Artifact /\ Own(v)' \subseteq Artifact
      BY DEF TypeOK, Own
    <3>2. After(v, d)' \subseteq rows'[d] \cup Own(v)'
      BY DEF After
    <3>3. IsFiniteSet(rows'[d] \cup Own(v)')
      <4>1. Own(v)' \in {{}, {new'[v]}}
        BY DEF Own
      <4>2. IsFiniteSet(rows'[d])
        OBVIOUS
      <4>3. IsFiniteSet(rows'[d] \cup {new'[v]}) /\ IsFiniteSet(rows'[d] \cup {})
        BY <4>2, FS_AddElement
      <4> QED BY <4>1, <4>3
    <3> QED BY <3>1, <3>2, <3>3, FS_Subset
  <2>4. Doomed(v, d) \subseteq After(v, d)
    BY DEF Within, WInv
  <2>5. ASSUME NonNegative(PolicyOf[d]), NEW a \in Doomed(v, d),
               a \in Keep(PolicyOf[d], After(v, d)')
        PROVE  FALSE
    <3>1. a \in After(v, d) /\ a \notin Keep(PolicyOf[d], After(v, d))
      BY <2>4, <2>5 DEF Sound, WInv
    <3> QED BY <2>2, <2>3, <2>5, <3>1, KeepAntitone
  <2>6. KeepsSomething(PolicyOf[d]) =>
          \A a \in Doomed(v, d) : \E b \in After(v, d) : Newer(b, a)
    BY DEF Superseded, WInv
  <2> QED BY <2>1, <2>2, <2>4, <2>5, <2>6
<1>3. Within(v)'
  BY <1>2 DEF Within
<1>4. Sound(v)'
  BY <1>2 DEF Sound
<1>5. Superseded(v)'
  BY <1>2 DEF Superseded
<1>6. Exact(v)'
  <2>1. CASE overtaken'[v]
    BY <2>1 DEF Exact
  <2>2. CASE pc[v] \in {"idle", "executing"}
    <3>1. idx'[v] = 1 /\ pc'[v] \in {"idle", "executing"}
      BY <2>2 DEF Same, WInv, Shape
    <3> QED BY <3>1 DEF Exact, Rotated
  <2> QED BY <2>1, <2>2
<1> QED BY <1>1, <1>3, <1>4, <1>5, <1>6 DEF WInv

-----------------------------------------------------------------------------
(* A worker's own steps.                                                   *)

\* A transaction that has marked nothing and plans nothing.
LEMMA FreshTx ==
    ASSUME NEW w \in Workers, Shape(w)', ~overtaken'[w] => Exact(w)',
           locks'[w] = NoLocks, todo'[w] = {}
    PROVE  WInv(w)'
<1>1. \A d \in Dests : locks'[w][d] = {}
  BY DEF NoLocks
<1>2. Within(w)'
  BY <1>1 DEF Within, Doomed
<1>3. Sound(w)'
  BY <1>1 DEF Sound, Doomed
<1>4. Superseded(w)'
  BY <1>1 DEF Superseded, Doomed
<1>5. Exact(w)'
  BY DEF Exact
<1> QED BY <1>2, <1>3, <1>4, <1>5 DEF WInv

\* The end of a transaction, committed or not, leaves a worker with nothing.
LEMMA EndTxWInv ==
    ASSUME TypeOK, NEW w \in Workers, EndTx(w), overtaken' \in [Workers -> BOOLEAN]
    PROVE  WInv(w)'
<1>1. /\ pc'[w] = "idle" /\ idx'[w] = 1 /\ order'[w] = <<>>
      /\ locks'[w] = NoLocks /\ todo'[w] = {}
  BY DEF EndTx, TypeOK
<1>2. Len(order'[w]) = 0
  BY <1>1
<1>3. Shape(w)'
  BY <1>1, <1>2 DEF Shape
<1>4. Exact(w)'
  BY <1>1 DEF Exact
<1> QED BY <1>1, <1>3, <1>4, FreshTx

\* A transaction that begins, or gets its artifact, has marked nothing.
LEMMA BeginWInv ==
    ASSUME IInv, TypeOK', NEW w \in Workers, Begin(w) \/ Succeed(w) \/ SucceedWithoutFile(w)
    PROVE  WInv(w)'
<1> USE DEF IInv
<1>1. /\ pc[w] \in {"idle", "executing"} /\ pc'[w] \in {"executing", "selecting"}
      /\ idx'[w] = idx[w] /\ todo'[w] = todo[w] /\ locks'[w] = locks[w]
  BY DEF Begin, Succeed, SucceedWithoutFile, Goto, transaction, TypeOK
<1>2. idx[w] = 1 /\ todo[w] = {} /\ locks[w] = NoLocks
  BY <1>1 DEF WInv, Shape
<1>3. \A i \in 1..Len(order'[w]) : order'[w][i] \in Dests
  <2>1. order'[w] \in Orders \cup {<<>>}
    BY DEF TypeOK
  <2>2. <<>> \in Seq(Dests) /\ Orders \subseteq Seq(Dests)
    BY TxAssumption
  <2> QED BY <2>1, <2>2
<1>4. Shape(w)'
  BY <1>1, <1>2, <1>3 DEF Shape, NoLocks
<1>5. Exact(w)'
  BY <1>1, <1>2 DEF Exact, Rotated
<1> QED BY <1>1, <1>2, <1>4, <1>5, FreshTx

\* Reading or moving on: what is marked and what will be there do not change.
LEMMA ReadRunsWInv ==
    ASSUME IInv, NEW w \in Workers, ReadRuns(w)
    PROVE  WInv(w)'
<1> USE DEF IInv
<1>1. /\ pc[w] = "selecting" /\ pc'[w] = "fetching" /\ idx[w] <= Len(order[w])
      /\ seen'[w] = 0..(nextId - 1)
      /\ UNCHANGED <<rows, dead, new, order, idx, todo, locks, overtaken>>
  BY DEF ReadRuns, Goto, database, TypeOK
<1>2. Shape(w)'
  BY <1>1 DEF WInv, Shape
<1>3. \A d \in Dests : Doomed(w, d) = locks[w][d]
  BY <1>1 DEF Doomed
<1>4. Within(w)'
  BY <1>1 DEF WInv, Within, Doomed, After, Writes, Own
<1>5. Sound(w)'
  <2> SUFFICES ASSUME NEW d \in Dests, NonNegative(PolicyOf[d])
               PROVE  Doomed(w, d)' \cap Keep(PolicyOf[d], After(w, d)') = {}
    BY DEF Sound
  <2>1. Doomed(w, d)' = Doomed(w, d) /\ After(w, d)' = After(w, d)
    BY <1>1 DEF Doomed, After, Writes, Own
  <2> QED BY <2>1 DEF Sound, WInv
<1>6. Superseded(w)'
  BY <1>1 DEF WInv, Superseded, Doomed, After, Writes, Own
<1>7. Exact(w)'
  <2> SUFFICES ASSUME ~overtaken[w]
               PROVE  /\ \A a \in rows[Here(w)'] : a.id \in seen'[w]
                      /\ \A d \in Dests : Rotated(w, d)' => locks'[w][d] = Rest(w, d)'
    BY <1>1 DEF Exact
  <2>1. Here(w)' = Here(w) /\ Here(w) \in Dests
    <3>1. idx[w] \in 1..Len(order[w])
      BY <1>1, OrderFacts DEF TypeOK
    <3> QED BY <1>1, <3>1, OrderFacts DEF Here
  <2>2. \A a \in rows[Here(w)] : a.id \in 0..(nextId - 1)
    <3> SUFFICES ASSUME NEW a \in rows[Here(w)]
                 PROVE  a.id \in 0..(nextId - 1)
      OBVIOUS
    <3>1. a \in Artifact /\ a.id < nextId
      BY <2>1 DEF TypeOK, RowsOK
    <3> QED BY <3>1 DEF Artifact, TypeOK
  <2>3. \A d \in Dests : Rotated(w, d)' => locks'[w][d] = Rest(w, d)'
    BY <1>1 DEF Exact, WInv, Rotated, Rest, Live, Own
  <2> QED BY <1>1, <2>1, <2>2, <2>3
<1> QED BY <1>2, <1>4, <1>5, <1>6, <1>7 DEF WInv

\* What is decided from the rows read is sound for the rows committed.
LEMMA ReadArtifactsWInv ==
    ASSUME IInv, NEW w \in Workers, ReadArtifacts(w)
    PROVE  WInv(w)'
<1> USE DEF IInv
<1>1. /\ pc[w] = "fetching" /\ pc'[w] = "marking"
      /\ todo'[w] = Visible(w) \ Keep(PolicyOf[Here(w)], Visible(w))
      /\ UNCHANGED <<rows, dead, new, order, idx, locks, overtaken>>
  BY MarkedIsRest DEF ReadArtifacts, Goto, database, TypeOK
<1>2. PICK d \in Dests : d = Here(w)
  BY <1>1, HereDest DEF WInv
<1>3. idx[w] \in 1..Len(order[w]) /\ order[w][idx[w]] = d /\ order'[w][idx'[w]] = d
  BY <1>1, <1>2, HereDest DEF WInv, Here
<1> DEFINE p == PolicyOf[d]
           V == Visible(w)
<1>4. todo'[w] = V \ Keep(p, V) /\ locks[w][d] = {}
  BY <1>1, <1>2, <1>3 DEF WInv, Shape
<1>5. Shape(w)'
  BY <1>1 DEF WInv, Shape
<1>6. V \subseteq After(w, d) /\ Own(w) \subseteq V
  <2>1. Writes(w, d)
    BY <1>3 DEF Writes
  <2> QED BY <1>2, <2>1 DEF Visible, After, Live
<1>7. /\ IsFiniteSet(After(w, d)) /\ After(w, d) \subseteq Artifact
      /\ IsFiniteSet(V) /\ V \subseteq Artifact
  BY <1>2, <1>6, AfterFinite, FS_Subset DEF RowsOK
<1>8. p \in PolicyType
  BY TxAssumption
<1> HIDE DEF V
<1>9. Within(w)' /\ Sound(w)' /\ Superseded(w)'
  <2> SUFFICES ASSUME NEW e \in Dests
               PROVE  /\ Doomed(w, e)' \subseteq After(w, e)'
                      /\ NonNegative(PolicyOf[e]) =>
                            Doomed(w, e)' \cap Keep(PolicyOf[e], After(w, e)') = {}
                      /\ KeepsSomething(PolicyOf[e]) =>
                            \A b \in Doomed(w, e)' : \E c \in After(w, e)' : Newer(c, b)
    BY DEF Within, Sound, Superseded
  <2>1. After(w, e)' = After(w, e)
    BY <1>1 DEF After, Writes, Own
  <2>2. CASE e # d
    <3>1. Doomed(w, e)' = Doomed(w, e)
      BY <1>1, <1>3, <2>2 DEF Doomed, Here
    <3> QED BY <2>1, <3>1 DEF WInv, Within, Sound, Superseded
  <2>3. CASE e = d
    <3>1. Doomed(w, e)' = V \ Keep(p, V)
      BY <1>1, <1>3, <1>4, <2>3 DEF Doomed, Here
    <3>2. After(w, e)' = After(w, d)
      BY <2>1, <2>3
    <3>3. NonNegative(p) => \A b \in V \ Keep(p, V) : b \notin Keep(p, After(w, d))
      <4> SUFFICES ASSUME NonNegative(p), NEW b \in V, b \in Keep(p, After(w, d))
                   PROVE  b \in Keep(p, V)
        OBVIOUS
      <4> HIDE DEF p
      <4> QED BY <1>6, <1>7, KeepAntitone
    <3>4. KeepsSomething(p) =>
            \A b \in V \ Keep(p, V) : \E c \in After(w, d) : Newer(c, b)
      <4> SUFFICES ASSUME KeepsSomething(p), NEW b \in V,
                          \A c \in V : ~Newer(c, b)
                   PROVE  b \in Keep(p, V)
        BY <1>6
      <4> HIDE DEF p
      <4> QED BY <1>7, <1>8, NewestKept
    <3> QED BY <1>6, <2>3, <3>1, <3>2, <3>3, <3>4
  <2> QED BY <2>2, <2>3
<1>10. Exact(w)'
  <2> SUFFICES ASSUME ~overtaken[w]
               PROVE  Exact(w)'
    BY <1>1 DEF Exact
  <2>1. V = Live(d) \cup Own(w)
    <3>1. \A a \in rows[d] : a.id \in seen[w]
      BY <1>1, <1>2 DEF Exact, WInv
    <3> QED BY <1>2, <3>1 DEF V, Visible, Live
  <2>2. locks'[w][d] \cup todo'[w]
           = ((rows'[d] \ dead'[d]) \cup ({new'[w]} \ {None}))
               \ Keep(PolicyOf[d], (rows'[d] \ dead'[d]) \cup ({new'[w]} \ {None}))
    BY <1>1, <1>4, <2>1 DEF Live, Own
  <2>3. \A e \in Dests : Rotated(w, e)' => locks'[w][e] = Rest(w, e)'
    BY <1>1 DEF Exact, WInv, Rotated, Rest, Live, Own
  <2>4. Doomed(w, Here(w))' = Rest(w, Here(w))'
    BY <1>1, <1>3, <2>2 DEF Doomed, Rest, Live, Own, Here
  <2> QED BY <1>1, <2>3, <2>4 DEF Exact
<1> QED BY <1>5, <1>9, <1>10 DEF WInv

\* A row moves from todo to locks.
LEMMA MarkRowWInv ==
    ASSUME IInv, NEW w \in Workers, MarkRow(w)
    PROVE  WInv(w)'
<1> USE DEF IInv
<1>1. PICK a \in todo[w] : /\ todo' = [todo EXCEPT ![w] = @ \ {a}]
                           /\ locks' = [locks EXCEPT ![w][Here(w)] = @ \cup {a}]
  BY DEF MarkRow
<1>2. /\ pc[w] = "marking"
      /\ UNCHANGED <<rows, dead, pc, new, order, idx, seen, overtaken>>
  BY DEF MarkRow, database
<1>3. Here(w) \in Dests /\ idx[w] \in 1..Len(order[w])
  BY <1>2, HereDest DEF WInv
<1>4. todo'[w] = todo[w] \ {a}
  BY <1>1 DEF TypeOK
<1>5. \A d \in Dests : locks'[w][d] = IF d = Here(w) THEN locks[w][d] \cup {a}
                                                     ELSE locks[w][d]
  BY <1>1, <1>3 DEF TypeOK
<1>5a. PICK h \in Dests : h = Here(w)
  BY <1>3
<1>5b. order[w][idx[w]] = h /\ order'[w][idx'[w]] = h
  BY <1>2, <1>5a DEF Here
<1>5c. ASSUME NEW d \in Dests
      PROVE  locks'[w][d] = IF d = h THEN locks[w][d] \cup {a} ELSE locks[w][d]
  BY <1>5, <1>5a
<1>6. Shape(w)'
  <2>1. ASSUME NEW i \in 1..Len(order[w]), i > idx[w]
        PROVE  locks'[w][order[w][i]] = {}
    <3>1. order[w][i] # Here(w) /\ order[w][i] \in Dests
      <4>1. i # idx[w]
        BY <1>3, <2>1
      <4> QED BY <1>3, <4>1, OrderFacts DEF Here
    <3>2. locks[w][order[w][i]] = {}
      BY <2>1 DEF WInv, Shape
    <3> QED BY <1>5, <3>1, <3>2
  <2>2. /\ pc[w] \in {"fetching", "marking"} => idx[w] <= Len(order[w])
        /\ idx[w] <= Len(order[w]) + 1
    BY DEF WInv, Shape
  <2> QED BY <1>2, <2>1, <2>2 DEF Shape
<1>7. ASSUME NEW d \in Dests
      PROVE  Doomed(w, d)' = Doomed(w, d) /\ After(w, d)' = After(w, d)
  <2>1. After(w, d)' = After(w, d)
    BY <1>2 DEF After, Writes, Own
  <2>2. Doomed(w, d)' = locks'[w][d] \cup (IF h = d THEN todo'[w] ELSE {})
    BY <1>2, <1>5b DEF Doomed, Here
  <2>3. Doomed(w, d) = locks[w][d] \cup (IF h = d THEN todo[w] ELSE {})
    BY <1>2, <1>5b DEF Doomed, Here
  <2>4. CASE d = h
    BY <1>4, <1>5c, <2>1, <2>2, <2>3, <2>4
  <2>5. CASE d # h
    BY <1>5c, <2>1, <2>2, <2>3, <2>5
  <2> QED BY <2>4, <2>5
<1>8. Within(w)' /\ Sound(w)' /\ Superseded(w)'
  <2> SUFFICES ASSUME NEW d \in Dests
               PROVE  /\ Doomed(w, d)' \subseteq After(w, d)'
                      /\ NonNegative(PolicyOf[d]) =>
                            Doomed(w, d)' \cap Keep(PolicyOf[d], After(w, d)') = {}
                      /\ KeepsSomething(PolicyOf[d]) =>
                            \A b \in Doomed(w, d)' : \E c \in After(w, d)' : Newer(c, b)
    BY DEF Within, Sound, Superseded
  <2> QED BY <1>7 DEF WInv, Within, Sound, Superseded
<1>9. Exact(w)'
  <2> SUFFICES ASSUME ~overtaken[w]
               PROVE  Exact(w)'
    BY <1>2 DEF Exact
  <2>1. Doomed(w, Here(w)) = Rest(w, Here(w))
    BY <1>2 DEF WInv, Exact
  <2>2. Doomed(w, Here(w))' = Rest(w, Here(w))'
    <3>1. locks'[w][h] \cup todo'[w] = locks[w][h] \cup todo[w]
      BY <1>4, <1>5c
    <3>2. locks[w][h] \cup todo[w] = Rest(w, h)
      BY <1>2, <1>5a, <2>1 DEF Doomed
    <3>3. Rest(w, h)' = Rest(w, h)
      BY <1>2 DEF Rest, Live, Own
    <3>4. Doomed(w, h)' = Rest(w, h)'
      BY <1>2, <1>5b, <3>1, <3>2, <3>3 DEF Doomed, Here
    <3> QED BY <1>5b, <3>4 DEF Doomed, Rest, Live, Own, Here
  <2>3. ASSUME NEW d \in Dests, Rotated(w, d)
        PROVE  locks'[w][d] = Rest(w, d)'
    <3>1. d # Here(w)
      <4>1. PICK i \in 1..(idx[w] - 1) : order[w][i] = d
        BY <2>3 DEF Rotated
      <4>2. i \in 1..Len(order[w]) /\ i # idx[w]
        BY <1>3, OrderFacts
      <4> QED BY <1>3, <4>1, <4>2, OrderFacts DEF Here
    <3>2. locks[w][d] = Rest(w, d)
      BY <1>2, <2>3 DEF WInv, Exact
    <3> QED BY <1>2, <1>5, <3>1, <3>2 DEF Rest, Live, Own
  <2>4. \A d \in Dests : Rotated(w, d)' => Rotated(w, d)
    BY <1>2 DEF Rotated
  <2> QED BY <1>2, <2>2, <2>3, <2>4 DEF Exact
<1> QED BY <1>6, <1>8, <1>9 DEF WInv

\* The destination is done: what was doomed there is what is locked.
LEMMA NextDestWInv ==
    ASSUME IInv, NEW w \in Workers, NextDest(w)
    PROVE  WInv(w)'
<1> USE DEF IInv
<1>1. /\ pc[w] = "marking" /\ pc'[w] = "selecting" /\ todo[w] = {}
      /\ idx'[w] = idx[w] + 1
      /\ UNCHANGED <<rows, dead, new, order, seen, todo, locks, overtaken>>
  BY DEF NextDest, Goto, database, TypeOK
<1>2. Here(w) \in Dests /\ idx[w] \in 1..Len(order[w])
  BY <1>1, HereDest DEF WInv
<1>3. Shape(w)'
  <2>1. ASSUME NEW i \in 1..Len(order[w]), i > idx'[w] \/ i = idx'[w]
        PROVE  locks[w][order[w][i]] = {}
    <3>1. i > idx[w]
      BY <1>1, <1>2, <2>1
    <3> QED BY <3>1 DEF WInv, Shape
  <2>2. idx'[w] <= Len(order[w]) + 1
    BY <1>1, <1>2, OrderFacts
  <2> QED BY <1>1, <2>1, <2>2 DEF Shape
<1>4. ASSUME NEW d \in Dests
      PROVE  Doomed(w, d)' = Doomed(w, d) /\ After(w, d)' = After(w, d)
  BY <1>1 DEF Doomed, After, Writes, Own
<1>5. Within(w)' /\ Sound(w)' /\ Superseded(w)'
  <2> SUFFICES ASSUME NEW d \in Dests
               PROVE  /\ Doomed(w, d)' \subseteq After(w, d)'
                      /\ NonNegative(PolicyOf[d]) =>
                            Doomed(w, d)' \cap Keep(PolicyOf[d], After(w, d)') = {}
                      /\ KeepsSomething(PolicyOf[d]) =>
                            \A b \in Doomed(w, d)' : \E c \in After(w, d)' : Newer(c, b)
    BY DEF Within, Sound, Superseded
  <2> QED BY <1>4 DEF WInv, Within, Sound, Superseded
<1>6. Exact(w)'
  <2> SUFFICES ASSUME ~overtaken[w]
               PROVE  \A d \in Dests : Rotated(w, d)' => locks[w][d] = Rest(w, d)'
    BY <1>1 DEF Exact
  <2> SUFFICES ASSUME NEW d \in Dests, NEW i \in 1..idx[w], order[w][i] = d
               PROVE  locks[w][d] = Rest(w, d)
    <3>1. idx'[w] - 1 = idx[w]
      BY <1>1, <1>2
    <3> QED BY <1>1, <3>1 DEF Rotated, Rest, Live, Own
  <2>1. CASE i = idx[w]
    <3>1. Doomed(w, d) = Rest(w, d)
      BY <1>1, <2>1 DEF WInv, Exact, Here
    <3> QED BY <1>1, <3>1 DEF Doomed
  <2>2. CASE i # idx[w]
    <3>1. i \in 1..(idx[w] - 1)
      BY <1>2, <2>2
    <3> QED BY <1>1, <3>1 DEF WInv, Exact, Rotated
  <2> QED BY <2>1, <2>2
<1> QED BY <1>3, <1>5, <1>6 DEF WInv

-----------------------------------------------------------------------------
(* The step.                                                               *)

\* What a commit leaves in the database.
LEMMA WriteRowsOK ==
    ASSUME IInv, NEW w \in Workers, Write(w), NEW d \in Dests
    PROVE  RowsOK(d)' /\ rows[d] \subseteq rows'[d] /\ IsFiniteSet(rows'[d])
<1> USE DEF IInv
<1> DEFINE p == PolicyOf[d]
<1>1. rows'[d] = After(w, d) /\ dead'[d] = dead[d] \cup locks[w][d] /\ nextId' = nextId
  BY DEF Write, EndTx, After
<1>2. locks[w][d] \subseteq Doomed(w, d)
  BY DEF Doomed
<1>3. /\ IsFiniteSet(After(w, d)) /\ After(w, d) \subseteq Artifact
      /\ rows[d] \subseteq After(w, d) /\ After(w, d) \subseteq rows[d] \cup Own(w)
  BY AfterFinite DEF RowsOK
<1>4. dead'[d] \subseteq rows'[d]
  BY <1>1, <1>2, <1>3 DEF RowsOK, WInv, Within
<1>5. \A a \in rows'[d] : a.id < nextId'
  BY <1>1, <1>3 DEF RowsOK, NewIds
<1>6. NonNegative(p) => dead'[d] \cap Keep(p, rows'[d]) = {}
  <2> SUFFICES ASSUME NonNegative(p), NEW a \in dead'[d], a \in Keep(p, After(w, d))
               PROVE  FALSE
    BY <1>1
  <2>1. CASE a \in dead[d]
    <3>1. a \in rows[d] /\ a \notin Keep(p, rows[d])
      BY <2>1 DEF RowsOK
    <3> HIDE DEF p
    <3> QED BY <1>3, <3>1, KeepAntitone
  <2>2. CASE a \in locks[w][d]
    BY <1>2, <2>2 DEF WInv, Sound
  <2> QED BY <1>1, <2>1, <2>2
<1>7. KeepsSomething(p) => \A a \in dead'[d] : \E b \in rows'[d] : Newer(b, a)
  BY <1>1, <1>2, <1>3 DEF RowsOK, WInv, Superseded
<1> QED BY <1>1, <1>3, <1>4, <1>5, <1>6, <1>7 DEF RowsOK

\* Rows nobody touches stay as they should be, whoever draws an id.
LEMMA RowsFrame ==
    ASSUME TypeOK, NEW d \in Dests, RowsOK(d), rows' = rows, dead' = dead,
           nextId' \in {nextId, nextId + 1}
    PROVE  RowsOK(d)'
<1>1. \A a \in rows[d] : a.id < nextId'
  BY DEF TypeOK, RowsOK, Artifact
<1> QED BY <1>1 DEF RowsOK

\* The step of one worker, for the others and for itself.
LEMMA WorkerStepIInv ==
    ASSUME IInv, TypeOK', NEW w \in Workers, WorkerStep(w)
    PROVE  IInv'
<1> USE DEF IInv
<1>1. ASSUME NEW v \in Workers, v # w
      PROVE  Same(v)
  <2> USE DEF Same, Goto, transaction, TypeOK
  <2>1. CASE Begin(w) \/ Succeed(w) \/ SucceedWithoutFile(w)
    BY <1>1, <2>1 DEF Begin, Succeed, SucceedWithoutFile
  <2>2. CASE ReadRuns(w)
    BY <1>1, <2>2 DEF ReadRuns
  <2>3. CASE ReadArtifacts(w)
    BY <1>1, <2>3 DEF ReadArtifacts
  <2>4. CASE MarkRow(w)
    BY <1>1, <2>4 DEF MarkRow
  <2>5. CASE NextDest(w)
    BY <1>1, <2>5 DEF NextDest
  <2>6. CASE EndTx(w)
    BY <1>1, <2>6 DEF EndTx
  <2> QED BY <2>1, <2>2, <2>3, <2>4, <2>5, <2>6 DEF WorkerStep, Write, Rollback
<1>2. nextId' \in {nextId, nextId + 1}
  BY DEF WorkerStep, Begin, Succeed, SucceedWithoutFile, ReadRuns,
         ReadArtifacts, MarkRow, NextDest, Write, Rollback, EndTx
<1>3. NewIds'
  <2> SUFFICES ASSUME NEW v \in Workers, NEW a \in Own(v)'
               PROVE  a.id < nextId'
    BY DEF NewIds
  <2>1. nextId \in Nat /\ Own(v) \subseteq Artifact
    BY DEF TypeOK, Own
  <2>2. CASE a \in Own(v)
    <3>1. a.id < nextId /\ a.id \in Nat
      BY <2>1, <2>2 DEF NewIds, Artifact
    <3> QED BY <1>2, <2>1, <3>1
  <2>3. CASE a \notin Own(v)
    <3>1. new'[v] = a /\ a # None /\ new[v] # a
      BY <2>3 DEF Own
    <3>2. v = w
      BY <1>1, <3>1 DEF Same
    <3>3. /\ nextId' = nextId + 1
          /\ a = [id |-> nextId, at |-> now]
      BY <3>1, <3>2 DEF WorkerStep, Begin, Succeed, SucceedWithoutFile, ReadRuns,
             ReadArtifacts, MarkRow, NextDest, Write, Rollback, EndTx,
             transaction, TypeOK
    <3> QED BY <2>1, <3>3
  <2> QED BY <2>2, <2>3
<1>4. CASE Write(w)
  <2>1. \A d \in Dests : RowsOK(d)' /\ rows[d] \subseteq rows'[d] /\ IsFiniteSet(rows'[d])
    <3> TAKE d \in Dests
    <3> QED BY <1>4, WriteRowsOK
  <2>2. ASSUME NEW d \in Dests
        PROVE  RowsOK(d)'
    BY <1>4, WriteRowsOK
  <2>3. ASSUME NEW v \in Workers
        PROVE  WInv(v)'
    <3>1. CASE v = w
      <4>1. overtaken' \in [Workers -> BOOLEAN]
        BY DEF TypeOK
      <4>2. WInv(w)'
        BY <1>4, <4>1, EndTxWInv DEF Write
      <4> QED BY <3>1, <4>2
    <3>2. CASE v # w
      <4>1. overtaken'[v] \/ pc[v] \in {"idle", "executing"}
        BY <1>4, <3>2 DEF Write, TypeOK
      <4> QED BY <1>1, <2>1, <3>2, <4>1, FrameOvertaken
    <3> QED BY <3>1, <3>2
  <2> QED BY <1>3, <2>2, <2>3
<1>5. CASE ~Write(w)
  <2>1. /\ rows' = rows /\ dead' = dead
        /\ \A v \in Workers \ {w} : overtaken'[v] = overtaken[v]
    BY <1>5 DEF WorkerStep, Begin, Succeed, SucceedWithoutFile, ReadRuns,
                ReadArtifacts, MarkRow, NextDest, Rollback, database, TypeOK
  <2>2. ASSUME NEW d \in Dests
        PROVE  RowsOK(d)'
    BY <1>2, <2>1, RowsFrame
  <2>3. WInv(w)'
    <3>1. ASSUME Rollback(w)
          PROVE  WInv(w)'
      <4>1. overtaken' \in [Workers -> BOOLEAN]
        BY DEF TypeOK
      <4> QED BY <3>1, <4>1, EndTxWInv DEF Rollback
    <3> QED BY <1>5, <3>1, BeginWInv, ReadRunsWInv, ReadArtifactsWInv, MarkRowWInv,
               NextDestWInv DEF WorkerStep
  <2>4. ASSUME NEW v \in Workers
        PROVE  WInv(v)'
    <3>1. CASE v # w
      BY <1>1, <2>1, <3>1, Frame
    <3> QED BY <2>3, <3>1
  <2> QED BY <1>3, <2>2, <2>4
<1> QED BY <1>4, <1>5

\* Every step keeps the invariant.
LEMMA StepIInv == IInv /\ [Next]_vars => IInv'
<1> SUFFICES ASSUME IInv, [Next]_vars
             PROVE  IInv'
  OBVIOUS
<1>1. TypeOK'
  BY TypePreserved DEF IInv, WInv
<1>2. CASE \E w \in Workers : WorkerStep(w)
  BY <1>1, <1>2, WorkerStepIInv
<1>3. CASE UNCHANGED vars \/ Tick \/ \E o \in Orders : UpdateJob(o)
  <2>1. UNCHANGED <<nextId, rows, dead, pc, new, order, idx, seen, todo, locks, overtaken>>
    BY <1>3 DEF vars, Tick, UpdateJob, database, transaction
  <2>2. ASSUME NEW d \in Dests
        PROVE  RowsOK(d)'
    BY <2>1, RowsFrame DEF IInv
  <2>3. ASSUME NEW v \in Workers
        PROVE  WInv(v)'
    BY <2>1, Frame DEF IInv, Same
  <2>4. NewIds'
    BY <2>1 DEF IInv, NewIds, Own
  <2> QED BY <1>1, <2>2, <2>3, <2>4 DEF IInv
<1> QED BY <1>2, <1>3, Cases

\* So it holds in every reachable state.
LEMMA InductiveInvariant == Spec => []IInv
BY InitIInv, StepIInv, PTL DEF Spec

-----------------------------------------------------------------------------
\* The type invariant of overlapping rotations.
THEOREM TypeCorrect == Spec => []TypeOK
<1>1. IInv => TypeOK
  BY DEF IInv
<1> QED BY <1>1, InductiveInvariant, PTL

\* No interleaving of any number of rotations, with any failures, deletes an
\* artifact that one rotation over all rows would keep.
THEOREM NeverDeletesTooMuch == Spec => []NeverTooMuch
<1>1. IInv => NeverTooMuch
  BY KeepWithin DEF IInv, RowsOK, NeverTooMuch, Live
<1> QED BY <1>1, InductiveInvariant, PTL

\* Nor the newest backup of a destination, negative counts included.
THEOREM NewestStaysLive == Spec => []NewestIsLive
<1>1. IInv => NewestIsLive
  BY DEF IInv, RowsOK, NewestIsLive, Live
<1> QED BY <1>1, InductiveInvariant, PTL

\* A rotation nobody overtook ends with exactly what the policy keeps.
THEOREM RotationCatchesUp == Spec => CatchesUp
<1> DEFINE Step == \A w \in Workers, d \in Dests :
         (/\ Rotated(w, d) /\ ~overtaken[w] /\ NonNegative(PolicyOf[d])
          /\ pc[w] # "idle" /\ pc'[w] = "idle" /\ <<rows, dead>>' # <<rows, dead>>)
         => Live(d)' = Keep(PolicyOf[d], rows'[d])
<1>1. IInv /\ [Next]_vars => [Step]_vars
  <2> SUFFICES ASSUME IInv, [Next]_vars, NEW w \in Workers, NEW d \in Dests,
                      Rotated(w, d), ~overtaken[w], NonNegative(PolicyOf[d]),
                      pc[w] # "idle", pc'[w] = "idle", <<rows, dead>>' # <<rows, dead>>
               PROVE  rows'[d] \ dead'[d] = Keep(PolicyOf[d], rows'[d])
    BY DEF Live
  <2> USE DEF IInv
  <2> DEFINE p == PolicyOf[d]
             S == Live(d) \cup Own(w)
  <2>1. Write(w)
    <3>1. PICK u \in Workers : WorkerStep(u)
      BY Cases DEF vars, Tick, UpdateJob, database
    <3>2. Write(u)
      BY <3>1 DEF WorkerStep, Begin, Succeed, SucceedWithoutFile, ReadRuns,
                  ReadArtifacts, MarkRow, NextDest, Rollback, database
    <3>3. u = w
      BY <3>2 DEF Write, EndTx, TypeOK
    <3> QED BY <3>2, <3>3
  <2>2. /\ rows'[d] = rows[d] \cup Own(w) /\ dead'[d] = dead[d] \cup locks[w][d]
        /\ IsFiniteSet(rows'[d]) /\ rows'[d] \subseteq Artifact
    <3>1. Writes(w, d)
      <4>1. PICK i \in 1..(idx[w] - 1) : order[w][i] = d
        BY DEF Rotated
      <4>2. idx[w] \in Nat /\ Len(order[w]) \in Nat /\ idx[w] <= Len(order[w]) + 1
        BY OrderFacts DEF TypeOK, WInv, Shape
      <4> QED BY <4>1, <4>2 DEF Writes
    <3>2. rows'[d] = rows[d] \cup Own(w) /\ dead'[d] = dead[d] \cup locks[w][d]
      BY <2>1, <3>1 DEF Write
    <3> QED BY <3>2, AfterFinite DEF RowsOK
  <2>3. locks[w][d] = S \ Keep(p, S)
    BY DEF WInv, Exact, Rest
  <2>4. dead[d] \subseteq rows[d] /\ dead'[d] \cap Keep(p, rows'[d]) = {}
    <3>1. RowsOK(d)'
      BY <2>1, WriteRowsOK
    <3> QED BY <3>1 DEF RowsOK
  <2>5. Keep(p, rows'[d]) \subseteq S
    BY <2>2, <2>4, KeepWithin DEF Live
  <2>6. Keep(p, S) = Keep(p, rows'[d])
    <3>1. S \subseteq rows'[d] /\ NonNegative(p)
      BY <2>2 DEF Live
    <3> HIDE DEF p, S
    <3> QED BY <2>2, <2>5, <3>1, KeepStable
  <2>7. Keep(p, rows'[d]) \cap dead'[d] = {} /\ Keep(p, rows'[d]) \subseteq rows'[d]
    BY <2>4, KeepWithin
  <2>8. rows'[d] \ dead'[d] \subseteq Keep(p, S)
    BY <2>2, <2>3 DEF Live
  <2> HIDE DEF p, S
  <2> QED BY <2>6, <2>7, <2>8 DEF p
<1>2. Spec => [][Step]_vars
  <2> HIDE DEF Step
  <2> QED BY <1>1, InductiveInvariant, PTL DEF Spec
<1> QED BY <1>2 DEF CatchesUp

-----------------------------------------------------------------------------
(* Workers deadlock only when their destinations have different orders:    *)
(* along one order, each awaits a row that lies behind its own.            *)

\* The committed rows and those of a transaction under way.
Known == {a \in Artifact : \/ \E d \in Dests : a \in rows[d]
                           \/ \E w \in Workers : a \in Own(w)}

\* The id of a row is its primary key.
UniqueIds == \A a, b \in Known : a.id = b.id => a = b

\* Its locks at the destination come before what it still has to update.
LocksBehind(w) ==
    pc[w] = "marking" => \A a \in locks[w][Here(w)], b \in todo[w] : a.id < b.id

LockInv == IInv /\ UniqueIds /\ \A w \in Workers : LocksBehind(w)

\* Every nonempty set of naturals has a least element.
LEMMA LeastNatural ==
    ASSUME NEW T, T \subseteq Nat, T # {}
    PROVE  \E n \in T : \A m \in T : n <= m
<1>1. PICK n \in T : \A m \in T : <<m, n>> \notin OpToRel(<, Nat)
  BY NatLessThanWellFounded, WFMin, Zenon
<1>2. \A m \in T : ~(m < n)
  BY <1>1 DEF OpToRel
<1> QED BY <1>2

\* Known rows are artifacts older than the next run.
LEMMA KnownRows == IInv => Known \subseteq Artifact /\ \A a \in Known : a.id < nextId
<1> SUFFICES ASSUME IInv, NEW a \in Known PROVE a \in Artifact /\ a.id < nextId
  OBVIOUS
<1>1. CASE \E d \in Dests : a \in rows[d]
  BY <1>1 DEF IInv, TypeOK, RowsOK
<1>2. CASE \E w \in Workers : a \in Own(w)
  BY <1>2 DEF IInv, TypeOK, NewIds, Own
<1> QED BY <1>1, <1>2 DEF Known

\* A worker updates known rows.
LEMMA TodoKnown ==
    ASSUME IInv, NEW w \in Workers, pc[w] = "marking"
    PROVE  todo[w] \subseteq Known
<1>1. Here(w) \in Dests
  BY HereDest DEF IInv, WInv
<1>2. todo[w] \subseteq rows[Here(w)] \cup Own(w)
  BY <1>1 DEF IInv, WInv, Within, Doomed, After
<1>3. todo[w] \subseteq Artifact
  BY DEF IInv, TypeOK
<1> QED BY <1>1, <1>2, <1>3 DEF Known

\* The locks are in order before the first rotation.
LEMMA InitLocks == Init => LockInv
<1> SUFFICES ASSUME Init PROVE LockInv
  OBVIOUS
<1>1. Known \subseteq History
  BY DEF Init, Known, Own
<1>2. UniqueIds
  BY <1>1, TxAssumption DEF UniqueIds
<1>3. \A w \in Workers : LocksBehind(w)
  BY DEF Init, LocksBehind
<1> QED BY <1>2, <1>3, InitIInv DEF LockInv

\* New rows have a new id.
LEMMA IdsStayUnique == ASSUME IInv, UniqueIds, [Next]_vars PROVE UniqueIds'
<1>0. nextId \in Nat
  BY DEF IInv, TypeOK
<1>1. Known' \subseteq Known \cup {[id |-> nextId, at |-> now]}
  <2>1. CASE UNCHANGED vars \/ Tick \/ \E o \in Orders : UpdateJob(o)
    BY <2>1 DEF vars, Tick, UpdateJob, database, transaction, Known, Own
  <2>2. ASSUME NEW w \in Workers, WorkerStep(w)
        PROVE  Known' \subseteq Known \cup {[id |-> nextId, at |-> now]}
    <3>1. \A v \in Workers : Own(v)' \subseteq Own(v) \cup {[id |-> nextId, at |-> now]}
      BY <2>2 DEF WorkerStep, Begin, Succeed, SucceedWithoutFile, ReadRuns, ReadArtifacts,
                  MarkRow, NextDest, Write, Rollback, EndTx, Own, transaction, IInv, TypeOK
    <3>2. \A d \in Dests : rows'[d] \subseteq rows[d] \cup Own(w)
      BY <2>2 DEF WorkerStep, Begin, Succeed, SucceedWithoutFile, ReadRuns, ReadArtifacts,
                  MarkRow, NextDest, Write, Rollback, database, IInv, TypeOK
    <3> QED BY <3>1, <3>2 DEF Known
  <2> QED BY <2>1, <2>2, Cases
<1>2. \A a \in Known : a.id # nextId
  BY <1>0, KnownRows DEF Artifact
<1> QED BY <1>1, <1>2 DEF UniqueIds

\* A row is updated after all those with a smaller id.
LEMMA LocksStayBehind ==
    ASSUME LockInv, [Next]_vars, NEW v \in Workers
    PROVE  LocksBehind(v)'
<1> USE DEF LockInv
<1>1. CASE Same(v)
  BY <1>1 DEF Same, LocksBehind, Here
<1>2. CASE ReadArtifacts(v)
  <2>1. pc[v] = "fetching" /\ order' = order /\ idx' = idx /\ locks' = locks
    BY <1>2 DEF ReadArtifacts, Goto
  <2>2. idx[v] \in 1..Len(order[v])
    BY <2>1, HereDest DEF IInv, WInv
  <2>3. locks[v][order[v][idx[v]]] = {}
    BY <2>1, <2>2 DEF IInv, WInv, Shape
  <2> QED BY <2>1, <2>3 DEF LocksBehind, Here
<1>3. CASE MarkRow(v)
  <2>1. PICK a \in todo[v] : /\ First(a, todo[v])
                             /\ todo' = [todo EXCEPT ![v] = @ \ {a}]
                             /\ locks' = [locks EXCEPT ![v][Here(v)] = @ \cup {a}]
    BY <1>3 DEF MarkRow
  <2>2. pc[v] = "marking" /\ order' = order /\ idx' = idx
    BY <1>3 DEF MarkRow
  <2>3. PICK h \in Dests : h = Here(v) /\ h = Here(v)'
    BY <2>2, HereDest DEF IInv, WInv, Here
  <2>4. locks'[v][h] = locks[v][h] \cup {a} /\ todo'[v] = todo[v] \ {a}
    BY <2>1, <2>3 DEF IInv, TypeOK
  <2>5. todo[v] \subseteq Known /\ Known \subseteq Artifact
    BY <2>2, TodoKnown, KnownRows
  <2>6. \A b \in todo[v] \ {a} : a.id < b.id
    BY <2>1, <2>5 DEF First, UniqueIds, Artifact
  <2>7. \A b \in locks[v][h], c \in todo[v] : b.id < c.id
    BY <2>2, <2>3 DEF LocksBehind
  <2> QED BY <2>3, <2>4, <2>6, <2>7 DEF LocksBehind
<1>4. CASE pc'[v] # "marking"
  BY <1>4 DEF LocksBehind
<1>5. Same(v) \/ ReadArtifacts(v) \/ MarkRow(v) \/ pc'[v] # "marking"
  <2> USE DEF Same, transaction, database, IInv, TypeOK
  <2>1. CASE UNCHANGED vars \/ Tick \/ \E o \in Orders : UpdateJob(o)
    BY <2>1 DEF vars, Tick, UpdateJob
  <2>2. ASSUME NEW w \in Workers, w # v, WorkerStep(w) PROVE Same(v)
    BY <2>2 DEF WorkerStep, Begin, Succeed, SucceedWithoutFile, ReadRuns, ReadArtifacts,
                MarkRow, NextDest, Write, Rollback, EndTx, Goto
  <2>3. ASSUME WorkerStep(v) PROVE ReadArtifacts(v) \/ MarkRow(v) \/ pc'[v] # "marking"
    BY <2>3 DEF WorkerStep, Begin, Succeed, SucceedWithoutFile, ReadRuns, NextDest,
                Write, Rollback, EndTx, Goto
  <2> QED BY <2>1, <2>2, <2>3, Cases
<1> QED BY <1>1, <1>2, <1>3, <1>4, <1>5

\* So do the facts about locks.
LEMMA LockInvariant == Spec => []LockInv
<1>1. LockInv /\ [Next]_vars => LockInv'
  BY StepIInv, IdsStayUnique, LocksStayBehind DEF LockInv
<1> QED BY <1>1, InitLocks, PTL DEF Spec

\* Along one order a worker awaits only workers that have come further, to a
\* later destination or a later row.
LEMMA AwaitsFurther ==
    ASSUME LockInv, NEW v \in Workers, NEW w \in Workers, order[v] = order[w],
           pc[v] = "marking", pc[w] = "marking",
           NEW a \in todo[v], NEW b \in todo[w], a \in locks[w][Here(v)]
    PROVE  idx[v] < idx[w] \/ (idx[v] = idx[w] /\ a.id < b.id)
<1> USE DEF LockInv
<1>1. /\ idx[v] \in 1..Len(order[v]) /\ idx[w] \in 1..Len(order[w])
      /\ Len(order[v]) \in Nat
  BY HereDest, OrderFacts DEF IInv, WInv
<1>2. CASE idx[v] > idx[w]
  <2>1. locks[w][order[w][idx[v]]] = {}
    BY <1>1, <1>2 DEF IInv, WInv, Shape
  <2> QED BY <2>1 DEF Here
<1>3. CASE idx[v] = idx[w]
  BY <1>3 DEF LocksBehind, Here
<1> QED BY <1>1, <1>2, <1>3

\* Whatever the workers do, only a reordering of the destinations between their
\* starts lets them deadlock.
THEOREM OnlyReorderDeadlocks == Spec => []DeadlockByReorder
<1>1. LockInv => DeadlockByReorder
  <2> SUFFICES ASSUME LockInv, NEW C \in SUBSET Workers, Deadlocked(C),
                      \A v, w \in C : order[v] = order[w]
               PROVE  FALSE
    BY DEF DeadlockByReorder
  <2> DEFINE Awaited(v) == CHOOSE a \in todo[v] :
                 \E w \in C : a \in locks[w][Here(v)] /\ pc[w] = "marking"
  <2>1. ASSUME NEW v \in C
        PROVE  /\ pc[v] = "marking" /\ Awaited(v) \in todo[v]
               /\ \E w \in C : Awaited(v) \in locks[w][Here(v)]
    BY DEF Deadlocked, Awaits
  <2>2. ASSUME NEW v \in C
        PROVE  /\ Awaited(v) \in Artifact /\ Awaited(v).id < nextId
               /\ idx[v] \in 1..Len(order[v]) /\ Len(order[v]) \in Nat
    BY <2>1, TodoKnown, KnownRows, HereDest, OrderFacts DEF LockInv, IInv, WInv
  <2> HIDE DEF Awaited
  <2> DEFINE Left(v) == Len(order[v]) - idx[v]
             Lefts == {Left(v) : v \in C}
  <2>3. PICK u \in C : \A v \in C : Left(u) <= Left(v)
    <3>1. Lefts \subseteq Nat /\ Lefts # {}
      BY <2>2 DEF Deadlocked
    <3>2. PICK n \in Lefts : \A m \in Lefts : n <= m
      BY <3>1, LeastNatural
    <3> QED BY <3>2
  <2>4. ASSUME NEW v \in C PROVE idx[v] <= idx[u]
    BY <2>2, <2>3
  <2> DEFINE D == {v \in C : idx[v] = idx[u]}
             Rem == {nextId - Awaited(v).id : v \in D}
  <2>5. PICK x \in D : \A v \in D : nextId - Awaited(x).id <= nextId - Awaited(v).id
    <3>1. Rem \subseteq Nat /\ Rem # {}
      BY <2>2 DEF LockInv, IInv, TypeOK, Artifact
    <3>2. PICK n \in Rem : \A m \in Rem : n <= m
      BY <3>1, LeastNatural
    <3> QED BY <3>2
  <2>6. PICK w \in C : Awaited(x) \in locks[w][Here(x)]
    BY <2>1
  <2>7. idx[x] < idx[w] \/ (idx[x] = idx[w] /\ Awaited(x).id < Awaited(w).id)
    BY <2>1, <2>6, AwaitsFurther
  <2>8. idx[x] = idx[w] /\ Awaited(x).id < Awaited(w).id
    BY <2>2, <2>4, <2>7
  <2>9. w \in D
    BY <2>8
  <2> QED BY <2>2, <2>5, <2>8, <2>9 DEF LockInv, IInv, TypeOK, Artifact
<1> QED BY <1>1, LockInvariant, PTL
=============================================================================
