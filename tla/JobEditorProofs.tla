-------------------------- MODULE JobEditorProofs --------------------------
(***************************************************************************)
(* The jobs page for any number of jobs, servers and requests under way:   *)
(* the form and its requests write the job they were filled from, no job   *)
(* moves to another server, no list of a job holds an item twice, and a    *)
(* job that is opened and saved keeps what the form shows of it.           *)
(***************************************************************************)
EXTENDS JobEditor, FiniteSetTheorems, TLAPS

FormFields == {"show", "editId", "record", "server", "type", "choice", "dests", "overrides", "tags"}

\* The form and the requests are records, jobs and requests are kept by id.
Shape ==
    /\ DOMAIN form = FormFields /\ form = [k \in FormFields |-> form[k]]
    /\ db = [j \in Jobs |-> db[j]]
    /\ saves = [i \in Slots |-> saves[i]]
    /\ \A i \in Slots : DOMAIN saves[i] = {"id", "record", "job", "read"}

IInv == Shape /\ RightJob

\* The invariant holds when the page is opened.
LEMMA Initial == Init => IInv
<1> SUFFICES ASSUME Init PROVE IInv
  OBVIOUS
<1>1. RightJob
  BY DEF Init, RightJob, emptyForm
<1>2. Shape
  BY DEF Init, Shape, emptyForm, FormFields, NoSave
<1> QED BY <1>1, <1>2 DEF IInv

\* Changing other fields of the form, or closing it, leaves which job it writes.
SameJob ==
    /\ DOMAIN form' = FormFields /\ form' = [k \in FormFields |-> form'[k]]
    /\ form'.show => /\ form.show
                     /\ form'.editId = form.editId /\ form'.record = form.record

Edits == SameJob /\ UNCHANGED <<db, saves>>

\* The fields of the form.
LEMMA FormEdits ==
    ASSUME IInv,
           \/ Cancel \/ TypeText \/ SelectAllDbNames \/ UseAsFiles
           \/ \E t \in Types : SelectType(t)
           \/ \E s \in Servers \cup {Blank} : SelectServer(s)
           \/ \E d \in Dests : ToggleDestination(d)
           \/ \E d \in Dests, p \in Policies \cup {Blank} : SelectOverride(d, p)
           \/ \E t \in Tags : AddTag(t) \/ RemoveTag(t)
           \/ \E x \in Items : ToggleDbName(x) \/ ToggleVolume(x) \/ AddPathFromBrowser(x)
    PROVE  Edits
<1> USE DEF IInv, Shape, FormFields, SameJob, Edits, Set
<1>1. CASE TypeText
  BY <1>1 DEF TypeText
<1>2. CASE SelectAllDbNames \/ UseAsFiles
  BY <1>2 DEF SelectAllDbNames, UseAsFiles
<1>3. CASE \E t \in Types : SelectType(t)
  BY <1>3 DEF SelectType
<1>4. CASE \E s \in Servers \cup {Blank} : SelectServer(s)
  BY <1>4 DEF SelectServer
<1>5. CASE \E d \in Dests : ToggleDestination(d)
  BY <1>5 DEF ToggleDestination
<1>6. CASE \E d \in Dests, p \in Policies \cup {Blank} : SelectOverride(d, p)
  BY <1>6 DEF SelectOverride
<1>7. CASE \E t \in Tags : AddTag(t) \/ RemoveTag(t)
  BY <1>7 DEF AddTag, RemoveTag
<1>8. CASE \E x \in Items : ToggleDbName(x) \/ ToggleVolume(x) \/ AddPathFromBrowser(x)
  BY <1>8 DEF ToggleDbName, ToggleVolume, AddPathFromBrowser
<1>9. CASE Cancel
  BY <1>9 DEF Cancel, CloseForm
<1> QED BY <1>1, <1>2, <1>3, <1>4, <1>5, <1>6, <1>7, <1>8, <1>9

\* What servers are asked, and the list, are no part of the form.
LEMMA OtherSteps ==
    ASSUME IInv,
           \/ LoadDatabases \/ LoadDocker \/ Prune \/ BrowseTo \/ HideFiles
           \/ DatabasesAnswered \/ Load \/ UNCHANGED vars
           \/ \E s \in Servers : \/ DockerAnswered(s) \/ BrowseAnswered(s)
                                \/ Pruned(s) \/ PruneAnswered(s)
    PROVE  Edits
BY DEF IInv, Shape, FormFields, SameJob, Edits, LoadDatabases, LoadDocker, Prune, BrowseTo,
       HideFiles, DatabasesAnswered, Load, vars, DockerAnswered, BrowseAnswered, Pruned,
       PruneAnswered

\* A step that touches neither saves nor the job of the form.
LEMMA EditsKeep ==
    ASSUME IInv, SameJob, UNCHANGED saves, db' = [j \in Jobs |-> db'[j]]
    PROVE  IInv'
BY DEF IInv, SameJob, Shape, RightJob

\* A request that ends closes the form or leaves it.
LEMMA SaveEnds ==
    ASSUME IInv, NEW i \in Slots, saves' = [saves EXCEPT ![i] = NoSave],
           form' = CloseForm(form) \/ form' = form, db' = [j \in Jobs |-> db'[j]]
    PROVE  IInv'
<1>1. SameJob
  BY DEF IInv, Shape, FormFields, SameJob, CloseForm
<1>2. DOMAIN NoSave = {"id", "record", "job", "read"}
  BY DEF NoSave
<1> QED BY <1>1, <1>2 DEF IInv, SameJob, Shape, RightJob

\* Every step keeps the invariant.
LEMMA Step == IInv /\ [Next]_vars => IInv'
<1> SUFFICES ASSUME IInv, [Next]_vars PROVE IInv'
  OBVIOUS
<1>1. CASE Edits
  BY <1>1, EditsKeep DEF Edits, IInv, Shape
<1>2. CASE OpenNew
  BY <1>2 DEF OpenNew, emptyForm, IInv, Shape, RightJob, FormFields
<1>3. ASSUME NEW j \in Jobs, OpenEdit(j) PROVE IInv'
  BY <1>3, JobAssumption DEF OpenEdit, LoadRow, emptyForm, IInv, Shape, RightJob, FormFields
<1>4. ASSUME NEW j \in Jobs, Delete(j) PROVE IInv'
  <2>1. db' = [k \in Jobs |-> db'[k]] /\ UNCHANGED <<form, saves>>
    BY <1>4 DEF Delete, IInv, Shape
  <2> QED BY <2>1 DEF IInv, Shape, RightJob
<1>5. ASSUME NEW i \in Slots, Save(i) PROVE IInv'
  <2>1. PICK q : q = [id |-> form.editId, record |-> form.record, job |-> Payload(form),
                      read |-> None]
    OBVIOUS
  <2>2. /\ form.record = IF form.editId = None THEN New ELSE form.editId
        /\ UNCHANGED <<db, form>>
        /\ \A k \in Slots : saves'[k] = IF k = i THEN q ELSE saves[k]
        /\ saves' = [k \in Slots |-> saves'[k]]
    BY <1>5, <2>1 DEF Save, IInv, Shape, RightJob
  <2> QED BY <2>1, <2>2 DEF IInv, Shape, RightJob
<1>6. ASSUME NEW i \in Slots, CreateDone(i) PROVE IInv'
  <2>1. db' = [j \in Jobs |-> db'[j]]
    BY <1>6 DEF CreateDone, IInv, Shape
  <2> QED BY <1>6, <2>1, SaveEnds DEF CreateDone, SaveAnswered
<1>7. ASSUME NEW i \in Slots, UpdateDone(i) PROVE IInv'
  <2>1. db' = [j \in Jobs |-> db'[j]]
    BY <1>7 DEF UpdateDone, IInv, Shape
  <2> QED BY <1>7, <2>1, SaveEnds DEF UpdateDone, SaveAnswered
<1>8. ASSUME NEW i \in Slots, SaveFails(i) PROVE IInv'
  <2>1. db' = [j \in Jobs |-> db'[j]]
    BY <1>8 DEF SaveFails, IInv, Shape
  <2> QED BY <1>8, <2>1, SaveEnds DEF SaveFails
<1>9. ASSUME NEW i \in Slots, UpdateRead(i) PROVE IInv'
  <2>1. PICK r : saves' = [saves EXCEPT ![i].read = r]
    BY <1>9 DEF UpdateRead
  <2>2. /\ saves' = [k \in Slots |-> saves'[k]]
        /\ \A k \in Slots : /\ DOMAIN saves'[k] = DOMAIN saves[k]
                            /\ saves'[k].id = saves[k].id /\ saves'[k].record = saves[k].record
    BY <2>1 DEF IInv, Shape
  <2>3. saves[i] # NoSave /\ UNCHANGED <<db, form>>
    BY <1>9 DEF UpdateRead
  <2>4. \A k \in Slots : saves'[k] # NoSave => saves[k] # NoSave
    BY <2>1, <2>3 DEF IInv, Shape
  <2> QED BY <2>2, <2>3, <2>4 DEF IInv, Shape, RightJob
<1> QED BY <1>1, <1>2, <1>3, <1>4, <1>5, <1>6, <1>7, <1>8, <1>9, FormEdits, OtherSteps
        DEF Next, UserStep, AnswerStep

\* The form and every request under way write the job their fields were
\* loaded from, also when an earlier answer closes a form opened since.
THEOREM WritesRightJob == Spec => []RightJob
<1>1. IInv => RightJob
  BY DEF IInv
<1> QED BY Initial, Step, <1>1, PTL DEF Spec

-----------------------------------------------------------------------------
(* The lists of a form.                                                    *)

\* Every nonempty set of naturals has a least element.
LEMMA LeastNatural ==
    ASSUME NEW T, T \subseteq Nat, T # {}
    PROVE  \E n \in T : \A m \in T : n <= m
<1>1. PICK n \in T : \A m \in T : <<m, n>> \notin OpToRel(<, Nat)
  BY NatLessThanWellFounded, WFMin, Zenon
<1>2. \A m \in T : ~(m < n)
  BY <1>1 DEF OpToRel
<1> QED BY <1>2

\* Induction up to a bound.
LEMMA UpTo ==
    ASSUME NEW L \in Nat, NEW T, 0 \in T, \A n \in 1..L : n - 1 \in T => n \in T
    PROVE  0..L \subseteq T
<1> SUFFICES ASSUME (0..L) \ T # {} PROVE FALSE
  OBVIOUS
<1>0. (0..L) \ T \subseteq Nat
  OBVIOUS
<1>1. PICK n \in (0..L) \ T : \A m \in (0..L) \ T : n <= m
  BY <1>0, LeastNatural
<1>2. n \in 1..L /\ n - 1 \in (0..L)
  BY <1>1
<1>3. n - 1 \in T
  BY <1>1, <1>2
<1> QED BY <1>1, <1>2, <1>3

\* One step of filter, from what is kept of the elements before n.
Kept(list, x, before, n) ==
    IF n = 0 THEN <<>>
    ELSE IF list[n] = x THEN before[n - 1] ELSE Append(before[n - 1], list[n])

\* The recursion of Without defines a function.
LEMMA WithoutDefined ==
    ASSUME NEW S, NEW list \in Seq(S), NEW x
    PROVE  \E g : /\ g = [n \in 0..Len(list) |-> Kept(list, x, g, n)]
                  /\ Without(list, x) = g[Len(list)]
<1> DEFINE L == Len(list)
           Fits(g, m) == /\ DOMAIN g = 0..m
                         /\ g = [n \in 0..m |-> Kept(list, x, g, n)]
           T == {m \in 0..L : \E g : Fits(g, m)}
<1>0. L \in Nat
  OBVIOUS
<1>1. 0 \in T
  <2>1. Fits([n \in 0..0 |-> <<>>], 0)
    BY DEF Kept
  <2> QED BY <1>0, <2>1
<1>2. ASSUME NEW m \in 1..L, m - 1 \in T PROVE m \in T
  <2>0. PICK g : Fits(g, m - 1)
    BY <1>2
  <2>1. \A n \in 0..(m - 1) : g[n] = Kept(list, x, g, n)
    BY <2>0
  <2>2. PICK h : h = [n \in 0..m |-> IF n = m THEN Kept(list, x, g, m) ELSE g[n]]
    OBVIOUS
  <2>3. ASSUME NEW n \in 0..m PROVE h[n] = Kept(list, x, h, n)
    <3>1. n # 0 => n - 1 \in 0..(m - 1) /\ h[n - 1] = g[n - 1]
      BY <2>2, <2>3
    <3>2. Kept(list, x, h, n) = Kept(list, x, g, n)
      BY <3>1 DEF Kept
    <3>3. n # m => n \in 0..(m - 1) /\ g[n] = Kept(list, x, g, n)
      BY <2>1, <2>3
    <3> QED BY <2>2, <3>2, <3>3
  <2>4. h = [n \in 0..m |-> Kept(list, x, h, n)]
    <3>1. h = [n \in 0..m |-> h[n]]
      BY <2>2
    <3> HIDE DEF L
    <3> QED BY <2>3, <3>1
  <2>5. DOMAIN h = 0..m
    BY <2>2
  <2>6. Fits(h, m)
    BY <2>4, <2>5
  <2> HIDE DEF Fits
  <2> QED BY <2>6
<1>3. L \in T
  <2> HIDE DEF T, L
  <2>1. 0..L \subseteq T
    BY <1>0, <1>1, <1>2, UpTo
  <2> QED BY <1>0, <2>1
<1>4. PICK g : g = [n \in 0..L |-> Kept(list, x, g, n)]
  BY <1>3
<1>5. \E k : /\ k = [n \in 0..L |-> Kept(list, x, k, n)]
             /\ k = CHOOSE f : f = [n \in 0..L |-> Kept(list, x, f, n)]
  BY <1>4
<1> QED BY <1>5, Zenon DEF Without, Kept

\* Filtering leaves the other elements, in no case twice what was there once.
LEMMA WithoutFacts ==
    ASSUME NEW S, NEW list \in Seq(S), NEW x
    PROVE  /\ Without(list, x) \in Seq(S \ {x})
           /\ IsDistinct(list) => IsDistinct(Without(list, x))
           /\ x \notin S => Without(list, x) = list
<1> DEFINE L == Len(list)
<1>0. L \in Nat /\ \A n \in 1..L : list[n] \in S
  OBVIOUS
<1>1. PICK g : /\ g = [n \in 0..L |-> Kept(list, x, g, n)]
               /\ Without(list, x) = g[L]
  BY WithoutDefined
<1> HIDE DEF L
<1>1a. \A n \in 0..L : g[n] = Kept(list, x, g, n)
  BY <1>1
<1>2. /\ g[0] = <<>>
      /\ \A n \in 1..L : g[n] = IF list[n] = x THEN g[n - 1] ELSE Append(g[n - 1], list[n])
  BY <1>0, <1>1a DEF Kept
<1> DEFINE Good(n) ==
               /\ g[n] \in Seq(S \ {x})
               /\ \A i \in 1..Len(g[n]) : \E m \in 1..n : g[n][i] = list[m]
               /\ IsDistinct(list) => \A i, j \in 1..Len(g[n]) : g[n][i] = g[n][j] => i = j
               /\ x \notin S => Len(g[n]) = n /\ \A i \in 1..n : g[n][i] = list[i]
           T == {n \in 0..L : Good(n)}
<1> HIDE DEF Good
<1>3. 0 \in T
  <2>1. <<>> \in Seq(S \ {x}) /\ Len(<<>>) = 0
    OBVIOUS
  <2>2. Good(0)
    BY <1>0, <1>2, <2>1 DEF Good
  <2> QED BY <1>0, <2>2
<1>4. ASSUME NEW n \in 1..L, n - 1 \in T PROVE n \in T
  <2>1. PICK q : q = g[n - 1]
    OBVIOUS
  <2>2. PICK r : r = g[n]
    OBVIOUS
  <2>3. /\ q \in Seq(S \ {x}) /\ Len(q) \in Nat
        /\ \A i \in 1..Len(q) : \E m \in 1..(n - 1) : q[i] = list[m]
        /\ IsDistinct(list) => \A i, j \in 1..Len(q) : q[i] = q[j] => i = j
        /\ x \notin S => Len(q) = n - 1 /\ \A i \in 1..(n - 1) : q[i] = list[i]
    <3>1. Good(n - 1)
      BY <1>4
    <3> HIDE DEF T
    <3> QED BY <1>0, <2>1, <3>1 DEF Good
  <2>4. r = IF list[n] = x THEN q ELSE Append(q, list[n])
    BY <1>2, <2>1, <2>2
  <2>5. n \in 1..L /\ list[n] \in S
    BY <1>0
  <2> HIDE DEF T
  <2>6. CASE list[n] = x
    <3>1. r = q /\ x \in S
      BY <2>4, <2>5, <2>6
    <3>2. \A i \in 1..Len(q) : \E m \in 1..n : q[i] = list[m]
      BY <1>0, <2>3
    <3>3. Good(n)
      BY <1>0, <2>2, <2>3, <3>1, <3>2 DEF Good
    <3> QED BY <1>0, <3>3 DEF T
  <2>7. CASE list[n] # x
    <3>1. /\ r \in Seq(S \ {x}) /\ Len(r) = Len(q) + 1
          /\ \A i \in 1..Len(q) : r[i] = q[i]
          /\ r[Len(q) + 1] = list[n]
      BY <2>3, <2>4, <2>5, <2>7
    <3>2. \A i \in 1..Len(r) : \E m \in 1..n : r[i] = list[m]
      <4> TAKE i \in 1..Len(r)
      <4>1. CASE i = Len(q) + 1
        BY <3>1, <4>1
      <4>2. CASE i # Len(q) + 1
        <5>1. i \in 1..Len(q)
          BY <2>3, <3>1, <4>2
        <5>2. PICK m \in 1..(n - 1) : q[i] = list[m]
          BY <2>3, <5>1
        <5> QED BY <3>1, <5>1, <5>2
      <4> QED BY <4>1, <4>2
    <3>3. ASSUME IsDistinct(list), NEW i \in 1..Len(r), NEW j \in 1..Len(r), r[i] = r[j]
          PROVE  i = j
      <4>1. \A k \in 1..Len(q) : q[k] # list[n]
        <5> SUFFICES ASSUME NEW k \in 1..Len(q), q[k] = list[n] PROVE FALSE
          OBVIOUS
        <5>1. PICK m \in 1..(n - 1) : q[k] = list[m]
          BY <2>3
        <5>2. m \in DOMAIN list /\ n \in DOMAIN list /\ m # n
          BY <1>0 DEF L
        <5> QED BY <3>3, <5>1, <5>2 DEF IsDistinct
      <4>2. i \in 1..Len(q) \/ i = Len(q) + 1
        BY <2>3, <3>1
      <4>3. j \in 1..Len(q) \/ j = Len(q) + 1
        BY <2>3, <3>1
      <4> QED BY <2>3, <3>1, <3>3, <4>1, <4>2, <4>3
    <3>4. x \notin S => Len(r) = n /\ \A i \in 1..n : r[i] = list[i]
      BY <2>3, <3>1
    <3>5. Good(n)
      BY <1>0, <2>2, <3>1, <3>2, <3>3, <3>4 DEF Good
    <3> QED BY <1>0, <3>5 DEF T
  <2> QED BY <2>6, <2>7
<1>5. Good(L)
  <2>1. 0..L \subseteq T
    <3> HIDE DEF T
    <3> QED BY <1>0, <1>3, <1>4, UpTo
  <2> QED BY <1>0, <2>1
<1>6. PICK r : r = g[L]
  OBVIOUS
<1>7. /\ r \in Seq(S \ {x})
      /\ IsDistinct(list) => \A i, j \in 1..Len(r) : r[i] = r[j] => i = j
      /\ x \notin S => Len(r) = L /\ \A i \in 1..L : r[i] = list[i]
  BY <1>5, <1>6 DEF Good
<1>8. IsDistinct(list) => IsDistinct(r)
  BY <1>7 DEF IsDistinct
<1>9. x \notin S => r = list
  BY <1>0, <1>7 DEF L
<1> QED BY <1>1, <1>6, <1>7, <1>8, <1>9

\* Adding an element that is not there keeps a list distinct.
LEMMA AppendFacts ==
    ASSUME NEW S, NEW list \in Seq(S), NEW x \in S
    PROVE  /\ Append(list, x) \in Seq(S)
           /\ IsDistinct(list) /\ x \notin ToSet(list) => IsDistinct(Append(list, x))
BY DEF IsDistinct, ToSet

\* Toggling a name adds or removes it.
LEMMA ToggleFacts ==
    ASSUME NEW S, NEW list \in Seq(S), NEW x \in S
    PROVE  /\ Toggle(list, x) \in Seq(S)
           /\ IsDistinct(list) => IsDistinct(Toggle(list, x))
<1>1. CASE x \in ToSet(list)
  <2>1. Seq(S \ {x}) \subseteq Seq(S)
    OBVIOUS
  <2> QED BY <1>1, <2>1, WithoutFacts DEF Toggle
<1>2. CASE x \notin ToSet(list)
  BY <1>2, AppendFacts DEF Toggle
<1> QED BY <1>1, <1>2

\* The names of a finite set, each once.
LEMMA SetToSeqFacts ==
    ASSUME NEW S, IsFiniteSet(S)
    PROVE  SetToSeq(S) \in Seq(S) /\ IsDistinct(SetToSeq(S))
<1>1. PICK n \in Nat : n = Cardinality(S)
  BY FS_CardinalityType
<1>2. \E f \in [1..n -> S] : IsInjective(f)
  BY <1>1, FS_CardinalityType DEF ExistsBijection, Bijection, Injection, IsInjective
<1>3. PICK q : q = SetToSeq(S)
  OBVIOUS
<1>4. q \in [1..n -> S] /\ IsInjective(q)
  BY <1>1, <1>2, <1>3 DEF SetToSeq
<1>5. q \in Seq(S)
  BY <1>1, <1>4
<1>6. IsDistinct(q)
  BY <1>4 DEF IsDistinct, IsInjective
<1> QED BY <1>3, <1>5, <1>6

-----------------------------------------------------------------------------
(* What the page, its requests and the database hold.                      *)

Entries == Items \cup Scripts \cup {Blank}
Form == [show : BOOLEAN, editId : Jobs \cup {None}, record : Jobs \cup {New},
         server : Servers \cup {Blank}, type : Types, choice : [FormTypes -> Seq(Entries)],
         dests : Seq(Dests), overrides : [Dests -> Policies \cup {Blank}], tags : Seq(Tags)]

\* No list of names has one twice.
GoodForms == {f \in Form : /\ IsDistinct(f.dests) /\ IsDistinct(f.tags)
                           /\ \A t \in Offered : IsDistinct(f.choice[t])}
GoodJobs == {r \in Job : /\ IsDistinct(r.dests) /\ IsDistinct(r.tags)
                         /\ \A t \in Offered : IsDistinct(r.config.source[t])}

\* Only an update reads a row.
Requests == {r \in [id : Jobs \cup {None}, record : Jobs \cup {New}, job : GoodJobs,
                    read : GoodJobs \cup {None}] : r.read # None => r.id # None}
Browser == [show : BOOLEAN, loading : BOOLEAN, server : Servers \cup {None}]

OffersFit ==
    /\ volumes \in [Servers -> SUBSET Items]
    /\ databases \subseteq Items /\ IsFiniteSet(databases) /\ dbLoading \in Servers \cup {None}
    /\ dockerInfo \in [server : Servers \cup {None}, volumes : SUBSET Items]
    /\ dockerAsks \subseteq Servers /\ browsing \subseteq Servers /\ prunes \subseteq Servers
    /\ dockerLoading \in BOOLEAN /\ browser \in Browser

JobsFit == /\ db \in [Jobs -> GoodJobs \cup {None, Deleted}]
           /\ rows \in [Jobs -> GoodJobs \cup {None, Deleted}]

SavesFit == saves \in [Slots -> Requests \cup {NoSave}]

Fit == OffersFit /\ JobsFit /\ SavesFit /\ form \in GoodForms

\* What a server has is an item, and there are finitely many.
LEMMA ItemFacts ==
    ASSUME NEW s \in Servers, NEW t \in FormTypes
    PROVE  ItemsOf[s][t] \subseteq Items /\ IsFiniteSet(ItemsOf[s][t])
BY JobAssumption DEF Items

\* The blank form.
LEMMA EmptyForm ==
    /\ emptyForm \in GoodForms
    /\ [emptyForm EXCEPT !.show = TRUE] \in GoodForms
<1>1. <<>> \in Seq(Dests) /\ <<>> \in Seq(Tags) /\ <<>> \in Seq(Entries) /\ IsDistinct(<<>>)
  BY DEF IsDistinct
<1>2. NoChoice \in [FormTypes -> Seq(Entries)] /\ \A t \in FormTypes : NoChoice[t] = <<>>
  BY <1>1 DEF NoChoice
<1>3. NoOverrides \in [Dests -> Policies \cup {Blank}]
  BY DEF NoOverrides
<1>4. "files" \in Types /\ Offered \subseteq FormTypes
  BY DEF Types, FormTypes, Offered
<1>5. ASSUME NEW b \in BOOLEAN
      PROVE  [show |-> b, editId |-> None, record |-> New, server |-> Blank, type |-> "files",
              choice |-> NoChoice, dests |-> <<>>, overrides |-> NoOverrides, tags |-> <<>>]
                 \in GoodForms
  BY <1>1, <1>2, <1>3, <1>4 DEF GoodForms, Form
<1>6. emptyForm \in GoodForms
  BY <1>5, Zenon DEF emptyForm
<1>7. ASSUME NEW f \in GoodForms PROVE [f EXCEPT !.show = TRUE] \in GoodForms
  BY DEF GoodForms, Form
<1> QED BY <1>6, <1>7

\* A form opened from a job.
LEMMA LoadedForm ==
    ASSUME NEW j \in Jobs, NEW r \in GoodJobs
    PROVE  LoadRow(j, r) \in GoodForms
<1>1. /\ r.server \in Servers \cup {Blank} /\ r.type \in Types
      /\ r.config.source \in [FormTypes -> Seq(Items \cup Scripts)] /\ r.dests \in Seq(Dests)
      /\ r.overrides \in [Dests -> Policies \cup {Blank}] /\ r.tags \in Seq(Tags)
      /\ IsDistinct(r.dests) /\ IsDistinct(r.tags)
      /\ \A t \in Offered : IsDistinct(r.config.source[t])
  BY DEF GoodJobs, Job, Config
<1>2. Seq(Items \cup Scripts) \subseteq Seq(Entries)
  BY DEF Entries
<1>3. PICK c : c = r.config.source
  OBVIOUS
<1>4. c \in [FormTypes -> Seq(Entries)]
  BY <1>1, <1>2, <1>3
<1>5. PICK e \in Form : e = emptyForm
  BY EmptyForm DEF GoodForms
<1>6. LoadRow(j, r) = [e EXCEPT !.show = TRUE, !.editId = j, !.record = j, !.server = r.server,
                                !.type = r.type, !.choice = c, !.dests = r.dests,
                                !.overrides = r.overrides, !.tags = r.tags]
  BY <1>3, <1>5 DEF LoadRow
<1> QED BY <1>1, <1>3, <1>4, <1>5, <1>6 DEF GoodForms, Form

\* The source_config a form describes.
LEMMA BuiltConfig ==
    ASSUME NEW f \in GoodForms
    PROVE  /\ BuildSourceConfig(f) \in Config
           /\ \A t \in Offered : IsDistinct(BuildSourceConfig(f).source[t])
<1>1. PICK src : src = [t \in FormTypes |->
                            IF t = f.type THEN Without(f.choice[t], Blank) ELSE <<>>]
  OBVIOUS
<1>2. <<>> \in Seq(Items \cup Scripts) /\ IsDistinct(<<>>)
  BY DEF IsDistinct
<1>3. Entries \ {Blank} = Items \cup Scripts
  BY JobAssumption DEF Entries
<1>4. ASSUME NEW t \in FormTypes
      PROVE  src[t] \in Seq(Items \cup Scripts) /\ (t \in Offered => IsDistinct(src[t]))
  <2>1. PICK c : c = f.choice[t]
    OBVIOUS
  <2>2. c \in Seq(Entries) /\ (t \in Offered => IsDistinct(c))
    BY <2>1 DEF GoodForms, Form
  <2>3. PICK w : w = Without(c, Blank)
    OBVIOUS
  <2>4. w \in Seq(Items \cup Scripts) /\ (t \in Offered => IsDistinct(w))
    BY <1>3, <2>2, <2>3, WithoutFacts
  <2>5. src[t] = w \/ src[t] = <<>>
    BY <1>1, <2>1, <2>3
  <2> QED BY <1>2, <2>4, <2>5
<1>5. BuildSourceConfig(f) = [source |-> src, unseen |-> {}]
  BY <1>1 DEF BuildSourceConfig
<1>6. src \in [FormTypes -> Seq(Items \cup Scripts)] /\ Offered \subseteq FormTypes
  BY <1>1, <1>4 DEF Offered, FormTypes
<1> QED BY <1>4, <1>5, <1>6 DEF Config

\* The job a form describes.
LEMMA PayloadFits ==
    ASSUME NEW f \in GoodForms
    PROVE  Payload(f) \in GoodJobs
<1>1. PICK c \in Config : c = BuildSourceConfig(f) /\ \A t \in Offered : IsDistinct(c.source[t])
  BY BuiltConfig
<1>2. Payload(f) = [server |-> f.server, type |-> f.type, config |-> c, dests |-> f.dests,
                    overrides |-> f.overrides, tags |-> f.tags]
  BY <1>1 DEF Payload
<1> QED BY <1>1, <1>2 DEF GoodForms, Form, GoodJobs, Job

\* The row an update leaves.
LEMMA WrittenFits ==
    ASSUME NEW current \in GoodJobs, NEW read \in GoodJobs, NEW new \in GoodJobs
    PROVE  /\ Written(current, read, UpdateRow(read, new)) \in GoodJobs
           /\ Written(current, read, UpdateRow(read, new)).server = current.server
<1>1. PICK n : n = UpdateRow(read, new)
  OBVIOUS
<1>2. n \in GoodJobs /\ n.server = read.server
  BY <1>1 DEF UpdateRow, GoodJobs, Job
<1>3. PICK w : w = Written(current, read, n)
  OBVIOUS
<1>4. w = [server |-> current.server,
           type |-> IF n.type = read.type THEN current.type ELSE n.type,
           config |-> IF n.config = read.config THEN current.config ELSE n.config,
           dests |-> IF n.dests = read.dests THEN current.dests ELSE n.dests,
           overrides |-> IF n.overrides = read.overrides THEN current.overrides ELSE n.overrides,
           tags |-> IF n.tags = read.tags THEN current.tags ELSE n.tags]
  BY <1>2, <1>3 DEF Written, GoodJobs, Job
<1>5. w \in GoodJobs
  BY <1>2, <1>4 DEF GoodJobs, Job
<1> QED BY <1>1, <1>3, <1>4, <1>5

\* The page opened on one job.
LEMMA InitialFit == Init => Fit
<1> SUFFICES ASSUME Init PROVE Fit
  OBVIOUS
<1>1. form \in GoodForms
  BY EmptyForm DEF Init
<1>2. SavesFit
  BY DEF Init, SavesFit
<1>3. OffersFit
  <2>1. IsFiniteSet({})
    BY FS_EmptySet
  <2>2. \A s \in Servers : ItemsOf[s]["docker_volumes"] \subseteq Items
    BY ItemFacts DEF FormTypes
  <2> QED BY <2>1, <2>2 DEF Init, OffersFit, NoDocker, NoBrowser, Browser
<1>4. JobsFit
  <2>1. PICK j \in Jobs, s \in Servers, t \in Types : \E keys \in {{t}, FormTypes} :
            db = [i \in Jobs |-> IF i = j THEN FirstJob(s, t, keys) ELSE None]
    BY DEF Init
  <2>. PICK keys \in {{t}, FormTypes} :
            db = [i \in Jobs |-> IF i = j THEN FirstJob(s, t, keys) ELSE None]
    BY <2>1
  <2>2. PICK src : src = [c \in FormTypes |-> IF c \in keys THEN SetToSeq(ItemsOf[s][c]) ELSE <<>>]
    OBVIOUS
  <2>3. PICK dst : dst = SetToSeq(Dests)
    OBVIOUS
  <2>4. dst \in Seq(Dests) /\ IsDistinct(dst)
    BY <2>3, SetToSeqFacts, JobAssumption
  <2>5. ASSUME NEW c \in FormTypes PROVE src[c] \in Seq(Items \cup Scripts) /\ IsDistinct(src[c])
    <3>1. PICK q : q = SetToSeq(ItemsOf[s][c])
      OBVIOUS
    <3>2. q \in Seq(Items \cup Scripts) /\ IsDistinct(q)
      BY <3>1, SetToSeqFacts, ItemFacts
    <3>3. <<>> \in Seq(Items \cup Scripts) /\ IsDistinct(<<>>)
      BY DEF IsDistinct
    <3> QED BY <2>2, <3>1, <3>2, <3>3
  <2>6. <<>> \in Seq(Tags) /\ IsDistinct(<<>>) /\ NoOverrides \in [Dests -> Policies \cup {Blank}]
    BY DEF IsDistinct, NoOverrides
  <2>7. FirstJob(s, t, keys) = [server |-> s, type |-> t,
                                config |-> [source |-> src, unseen |-> Unseen], dests |-> dst,
                                overrides |-> NoOverrides, tags |-> <<>>]
    BY <2>2, <2>3 DEF FirstJob
  <2>8. FirstJob(s, t, keys) \in GoodJobs
    <3>1. src \in [FormTypes -> Seq(Items \cup Scripts)] /\ Offered \subseteq FormTypes
      BY <2>2, <2>5 DEF Offered, FormTypes
    <3>2. [source |-> src, unseen |-> Unseen] \in Config
      BY <3>1 DEF Config
    <3> QED BY <2>4, <2>5, <2>6, <2>7, <3>1, <3>2 DEF GoodJobs, Job
  <2> QED BY <2>8 DEF Init, JobsFit
<1> QED BY <1>1, <1>2, <1>3, <1>4 DEF Fit

\* A choice of one backup type is replaced.
LEMMA ChoiceSet ==
    ASSUME NEW f \in GoodForms, NEW t \in FormTypes, NEW q \in Seq(Entries),
           t \in Offered => IsDistinct(q)
    PROVE  [f EXCEPT !.choice[t] = q] \in GoodForms
<1>1. PICK c : c = [f.choice EXCEPT ![t] = q]
  OBVIOUS
<1>2. c \in [FormTypes -> Seq(Entries)] /\ \A u \in Offered : IsDistinct(c[u])
  BY <1>1 DEF GoodForms, Form, Offered, FormTypes
<1>3. [f EXCEPT !.choice = c] \in GoodForms
  BY <1>2 DEF GoodForms, Form
<1> QED BY <1>1, <1>3

\* The lists of destinations and of tags are toggled.
LEMMA ListSteps ==
    ASSUME Fit,
           \/ \E d \in Dests : ToggleDestination(d)
           \/ \E t \in Tags : AddTag(t) \/ RemoveTag(t)
    PROVE  form' \in GoodForms
<1>0. /\ form \in GoodForms /\ form \in Form
      /\ form.dests \in Seq(Dests) /\ form.tags \in Seq(Tags)
      /\ IsDistinct(form.dests) /\ IsDistinct(form.tags)
  BY DEF Fit, GoodForms, Form
<1>1. ASSUME NEW q \in Seq(Dests), IsDistinct(q), form' = [form EXCEPT !.dests = q]
      PROVE  form' \in GoodForms
  BY <1>0, <1>1 DEF GoodForms, Form
<1>2. ASSUME NEW q \in Seq(Tags), IsDistinct(q), form' = [form EXCEPT !.tags = q]
      PROVE  form' \in GoodForms
  BY <1>0, <1>2 DEF GoodForms, Form
<1>3. ASSUME NEW d \in Dests, ToggleDestination(d) PROVE form' \in GoodForms
  <2>1. PICK q : q = Toggle(form.dests, d)
    OBVIOUS
  <2>2. q \in Seq(Dests) /\ IsDistinct(q)
    BY <1>0, <2>1, ToggleFacts
  <2> QED BY <1>1, <1>3, <2>1, <2>2 DEF ToggleDestination, Set
<1>4. ASSUME NEW t \in Tags, AddTag(t) PROVE form' \in GoodForms
  <2>1. PICK q : q = Append(form.tags, t)
    OBVIOUS
  <2>2. q \in Seq(Tags) /\ IsDistinct(q)
    BY <1>0, <1>4, <2>1, AppendFacts DEF AddTag
  <2> QED BY <1>2, <1>4, <2>1, <2>2 DEF AddTag, Set
<1>5. ASSUME NEW t \in Tags, RemoveTag(t) PROVE form' \in GoodForms
  <2>1. PICK q : q = Without(form.tags, t)
    OBVIOUS
  <2>2. q \in Seq(Tags \ {t}) /\ IsDistinct(q)
    BY <1>0, <2>1, WithoutFacts
  <2>3. q \in Seq(Tags)
    BY <2>2
  <2> QED BY <1>2, <1>5, <2>1, <2>2, <2>3 DEF RemoveTag, Set
<1> QED BY <1>3, <1>4, <1>5

\* Names, volumes, paths and scripts are chosen.
LEMMA ChoiceSteps ==
    ASSUME Fit,
           \/ TypeText \/ SelectAllDbNames
           \/ \E x \in Items : ToggleDbName(x) \/ ToggleVolume(x) \/ AddPathFromBrowser(x)
    PROVE  form' \in GoodForms
<1>0. form \in GoodForms /\ \A t \in FormTypes : /\ form.choice[t] \in Seq(Entries)
                                                 /\ t \in Offered => IsDistinct(form.choice[t])
  BY DEF Fit, GoodForms, Form
<1>1. "files" \in FormTypes \ Offered /\ "custom" \in FormTypes \ Offered
      /\ "postgresql" \in FormTypes \cap Offered /\ "docker_volumes" \in FormTypes \cap Offered
  BY DEF FormTypes, Offered
<1>2. Items \subseteq Entries /\ Blank \in Entries /\ Scripts \subseteq Entries
  BY DEF Entries
<1>3. CASE TypeText
  <2>1. form.server \in Servers
    BY <1>3 DEF TypeText, Fit, GoodForms, Form
  <2>2. ItemsOf[form.server]["files"] \subseteq Entries
    BY <1>1, <1>2, <2>1, ItemFacts
  <2>3. ASSUME NEW x \in Entries, form' = [form EXCEPT !.choice["files"] = Append(@, x)]
        PROVE  form' \in GoodForms
    <3>1. PICK q : q = Append(form.choice["files"], x)
      OBVIOUS
    <3>2. q \in Seq(Entries) /\ form' = [form EXCEPT !.choice["files"] = q]
      BY <1>0, <1>1, <2>3, <3>1
    <3> QED BY <1>0, <1>1, <3>2, ChoiceSet
  <2>4. ASSUME NEW x \in Entries, form' = [form EXCEPT !.choice["custom"] = <<x>>]
        PROVE  form' \in GoodForms
    <3>1. PICK q : q = <<x>>
      OBVIOUS
    <3>2. q \in Seq(Entries)
      BY <3>1
    <3> QED BY <1>0, <1>1, <2>4, <3>1, <3>2, ChoiceSet
  <2> QED BY <1>2, <1>3, <2>2, <2>3, <2>4 DEF TypeText, Set
<1>4. CASE SelectAllDbNames
  <2>1. PICK q : q = SetToSeq(databases)
    OBVIOUS
  <2>2. q \in Seq(databases) /\ IsDistinct(q) /\ databases \subseteq Entries
    BY <1>2, <2>1, SetToSeqFacts DEF Fit, OffersFit
  <2>3. q \in Seq(Entries)
    BY <2>2
  <2> QED BY <1>0, <1>1, <1>4, <2>1, <2>2, <2>3, ChoiceSet DEF SelectAllDbNames, Set
<1>5. ASSUME NEW x \in Items, NEW t \in FormTypes \cap Offered,
             form' = [form EXCEPT !.choice[t] = Toggle(@, x)]
      PROVE  form' \in GoodForms
  <2>1. PICK q : q = Toggle(form.choice[t], x)
    OBVIOUS
  <2>2. q \in Seq(Entries) /\ IsDistinct(q)
    BY <1>0, <1>2, <2>1, ToggleFacts
  <2>3. form' = [form EXCEPT !.choice[t] = q]
    BY <1>5, <2>1
  <2> QED BY <1>0, <2>2, <2>3, ChoiceSet
<1>6. ASSUME NEW x \in Items, AddPathFromBrowser(x) PROVE form' \in GoodForms
  <2>1. PICK q : q = Without(form.choice["files"], Blank)
    OBVIOUS
  <2>2. q \in Seq(Entries \ {Blank})
    BY <1>0, <1>1, <2>1, WithoutFacts
  <2>3. PICK r : r = Append(q, x)
    OBVIOUS
  <2>4. r \in Seq(Entries)
    BY <1>2, <2>2, <2>3
  <2>5. form' = [form EXCEPT !.choice["files"] = r]
    BY <1>6, <2>1, <2>3 DEF AddPathFromBrowser, Set
  <2> QED BY <1>0, <1>1, <2>4, <2>5, ChoiceSet
<1> QED BY <1>1, <1>3, <1>4, <1>5, <1>6 DEF ToggleDbName, ToggleVolume, Set

\* The other fields.
LEMMA FieldSteps ==
    ASSUME Fit,
           \/ OpenNew \/ Cancel \/ UseAsFiles
           \/ \E j \in Jobs : OpenEdit(j)
           \/ \E t \in Types : SelectType(t)
           \/ \E s \in Servers \cup {Blank} : SelectServer(s)
           \/ \E d \in Dests, p \in Policies \cup {Blank} : SelectOverride(d, p)
    PROVE  form' \in GoodForms
<1>0. form \in GoodForms /\ form \in Form
  BY DEF Fit, GoodForms
<1>1. CASE OpenNew
  BY <1>1, EmptyForm DEF OpenNew
<1>2. CASE Cancel
  BY <1>0, <1>2 DEF Cancel, CloseForm, GoodForms, Form
<1>3. CASE UseAsFiles
  <2>1. PICK s \in Servers : s = dockerInfo.server
    BY <1>3 DEF UseAsFiles, Fit, OffersFit
  <2>2. BindMountsOf[s] \subseteq Items /\ IsFiniteSet(BindMountsOf[s])
    <3>1. BindMountsOf[s] \subseteq ItemsOf[s]["files"] /\ "files" \in FormTypes
      BY JobAssumption DEF FormTypes
    <3> QED BY <3>1, ItemFacts, FS_Subset
  <2>3. PICK q : q = SetToSeq(BindMountsOf[s])
    OBVIOUS
  <2>4. q \in Seq(Entries)
    <3>1. q \in Seq(BindMountsOf[s])
      BY <2>2, <2>3, SetToSeqFacts
    <3>2. BindMountsOf[s] \subseteq Entries
      BY <2>2 DEF Entries
    <3> QED BY <3>1, <3>2
  <2>5. PICK r : r = form.choice["files"] \o q
    OBVIOUS
  <2>6. r \in Seq(Entries) /\ "files" \in FormTypes \ Offered /\ FormTypes \subseteq Types
    BY <1>0, <2>4, <2>5 DEF Form, Types, FormTypes, Offered
  <2>7. form' = [form EXCEPT !.type = "files", !.choice["files"] = @ \o q]
    BY <1>3, <2>1, <2>3 DEF UseAsFiles, Set
  <2>8. [form EXCEPT !.type = "files"] \in GoodForms
    BY <1>0, <2>6 DEF GoodForms, Form
  <2>9. PICK f \in GoodForms : f = [form EXCEPT !.type = "files"]
    BY <2>8
  <2>10. f.choice["files"] = form.choice["files"] /\ form' = [f EXCEPT !.choice["files"] = r]
    BY <1>0, <2>5, <2>7, <2>9 DEF Form
  <2> QED BY <2>6, <2>10, ChoiceSet
<1>4. ASSUME NEW j \in Jobs, OpenEdit(j) PROVE form' \in GoodForms
  BY <1>4, LoadedForm DEF OpenEdit, Fit, JobsFit
<1>5. ASSUME NEW t \in Types, SelectType(t) PROVE form' \in GoodForms
  BY <1>0, <1>5 DEF SelectType, Set, GoodForms, Form
<1>6. ASSUME NEW s \in Servers \cup {Blank}, SelectServer(s) PROVE form' \in GoodForms
  BY <1>0, <1>6 DEF SelectServer, Set, GoodForms, Form
<1>7. ASSUME NEW d \in Dests, NEW p \in Policies \cup {Blank}, SelectOverride(d, p)
      PROVE  form' \in GoodForms
  <2>1. PICK o : o = [form.overrides EXCEPT ![d] = p]
    OBVIOUS
  <2>2. o \in [Dests -> Policies \cup {Blank}] /\ form' = [form EXCEPT !.overrides = o]
    BY <1>0, <1>7, <2>1 DEF SelectOverride, Set, Form
  <2> QED BY <1>0, <2>2 DEF GoodForms, Form
<1> QED BY <1>1, <1>2, <1>3, <1>4, <1>5, <1>6, <1>7

\* Editing the form changes the form and may hide the file browser.
LEMMA FormKeepsFit ==
    ASSUME Fit,
           \/ OpenNew \/ Cancel \/ TypeText \/ SelectAllDbNames \/ UseAsFiles
           \/ \E j \in Jobs : OpenEdit(j)
           \/ \E t \in Types : SelectType(t)
           \/ \E s \in Servers \cup {Blank} : SelectServer(s)
           \/ \E d \in Dests : ToggleDestination(d)
           \/ \E d \in Dests, p \in Policies \cup {Blank} : SelectOverride(d, p)
           \/ \E t \in Tags : AddTag(t) \/ RemoveTag(t)
           \/ \E x \in Items : ToggleDbName(x) \/ ToggleVolume(x) \/ AddPathFromBrowser(x)
    PROVE  Fit'
<1>1. form' \in GoodForms
  BY ListSteps, ChoiceSteps, FieldSteps
<1>2. UNCHANGED <<volumes, db, rows, dbLoading, dockerAsks, dockerLoading, browsing, saves, prunes>>
  BY DEF OpenNew, Cancel, TypeText, SelectAllDbNames, UseAsFiles, OpenEdit, SelectType,
         SelectServer, ToggleDestination, SelectOverride, AddTag, RemoveTag, ToggleDbName,
         ToggleVolume, AddPathFromBrowser, Set, offers
<1>3. /\ UNCHANGED databases \/ databases' = {}
      /\ UNCHANGED dockerInfo \/ dockerInfo' = NoDocker
      /\ UNCHANGED browser \/ browser' = HideBrowser(browser)
  BY DEF OpenNew, Cancel, TypeText, SelectAllDbNames, UseAsFiles, OpenEdit, SelectType,
         SelectServer, ToggleDestination, SelectOverride, AddTag, RemoveTag, ToggleDbName,
         ToggleVolume, AddPathFromBrowser, Set, offers
<1>4. OffersFit'
  <2>1. IsFiniteSet({})
    BY FS_EmptySet
  <2>2. HideBrowser(browser) \in Browser
    BY DEF Fit, OffersFit, HideBrowser, Browser
  <2>3. NoDocker \in [server : Servers \cup {None}, volumes : SUBSET Items]
    BY DEF NoDocker
  <2>4. databases' \subseteq Items /\ IsFiniteSet(databases')
    BY <1>3, <2>1 DEF Fit, OffersFit
  <2> QED BY <1>2, <1>3, <2>2, <2>3, <2>4 DEF Fit, OffersFit
<1>5. JobsFit' /\ SavesFit'
  BY <1>2 DEF Fit, JobsFit, SavesFit
<1> QED BY <1>1, <1>4, <1>5 DEF Fit

\* What servers are asked and answer.
LEMMA OffersKeepFit ==
    ASSUME Fit,
           \/ LoadDatabases \/ DatabasesAnswered \/ LoadDocker \/ Prune \/ BrowseTo \/ HideFiles
           \/ \E s \in Servers : \/ DockerAnswered(s) \/ BrowseAnswered(s)
                                \/ Pruned(s) \/ PruneAnswered(s)
    PROVE  Fit'
<1> USE DEF Fit
<1>1. UNCHANGED <<db, rows, form, saves>>
  <2>1. \A s \in Servers : DockerAnswered(s) \/ BrowseAnswered(s) \/ Pruned(s) \/ PruneAnswered(s)
            => UNCHANGED <<db, rows, form, saves>>
    BY Zenon DEF DockerAnswered, BrowseAnswered, Pruned, PruneAnswered
  <2> QED BY <2>1, Zenon
          DEF LoadDatabases, DatabasesAnswered, LoadDocker, Prune, BrowseTo, HideFiles
<1>2. Showing(form.type) => form.server \in Servers
  BY DEF Showing, GoodForms, Form
<1>3. OffersFit'
  <2>1. CASE LoadDatabases
    BY <1>2, <2>1 DEF LoadDatabases, Showing, OffersFit
  <2>2. CASE DatabasesAnswered
    <3>1. dbLoading \in Servers /\ "postgresql" \in FormTypes
      BY <2>2 DEF DatabasesAnswered, OffersFit, FormTypes
    <3>2. /\ ItemsOf[dbLoading]["postgresql"] \subseteq Items
          /\ IsFiniteSet(ItemsOf[dbLoading]["postgresql"]) /\ IsFiniteSet({})
      BY <3>1, ItemFacts, FS_EmptySet
    <3> QED BY <2>2, <3>2 DEF DatabasesAnswered, OffersFit
  <2>3. CASE LoadDocker
    BY <1>2, <2>3 DEF LoadDocker, Showing, OffersFit
  <2>4. CASE Prune
    BY <1>2, <2>4 DEF Prune, Showing, OffersFit
  <2>5. CASE BrowseTo
    BY <1>2, <2>5 DEF BrowseTo, Showing, OffersFit, Browser
  <2>6. CASE HideFiles
    BY <2>6 DEF HideFiles, HideBrowser, OffersFit, Browser
  <2>7. ASSUME NEW s \in Servers, DockerAnswered(s) PROVE OffersFit'
    <3>1. volumes[s] \subseteq Items
      BY DEF OffersFit
    <3>2. /\ NoDocker \in [server : Servers \cup {None}, volumes : SUBSET Items]
          /\ [server |-> s, volumes |-> volumes[s]]
                 \in [server : Servers \cup {None}, volumes : SUBSET Items]
      BY <3>1 DEF NoDocker
    <3>3. dockerInfo' \in [server : Servers \cup {None}, volumes : SUBSET Items]
      BY <2>7, <3>2 DEF DockerAnswered
    <3>4. /\ dockerAsks' \subseteq Servers /\ dockerLoading' \in BOOLEAN
          /\ UNCHANGED <<volumes, databases, dbLoading, browser, browsing, prunes>>
      BY <2>7 DEF DockerAnswered, OffersFit
    <3> QED BY <3>3, <3>4 DEF OffersFit
  <2>8. ASSUME NEW s \in Servers, BrowseAnswered(s) PROVE OffersFit'
    <3>1. browser' \in Browser
      <4>1. PICK b \in Browser : b = browser
        BY DEF OffersFit
      <4>2. \A t \in {s, None} : [b EXCEPT !.loading = FALSE, !.server = t] \in Browser
        BY DEF Browser
      <4> QED BY <2>8, <4>1, <4>2 DEF BrowseAnswered
    <3>2. /\ browsing' \subseteq Servers
          /\ UNCHANGED <<volumes, databases, dbLoading, dockerInfo, dockerAsks, dockerLoading,
                         prunes>>
      BY <2>8 DEF BrowseAnswered, OffersFit
    <3> QED BY <3>1, <3>2 DEF OffersFit
  <2>9. ASSUME NEW s \in Servers, Pruned(s) PROVE OffersFit'
    <3>1. volumes[s] \ OrphansOf[s] \subseteq Items
      BY DEF OffersFit
    <3> QED BY <2>9, <3>1 DEF Pruned, offers, OffersFit
  <2>10. ASSUME NEW s \in Servers, PruneAnswered(s) PROVE OffersFit'
    BY <2>10 DEF PruneAnswered, OffersFit
  <2> QED BY <2>1, <2>2, <2>3, <2>4, <2>5, <2>6, <2>7, <2>8, <2>9, <2>10
<1> QED BY <1>1, <1>3 DEF JobsFit, SavesFit

\* What an update writes, and where.
LEMMA UpdateWrites ==
    ASSUME Fit, NEW i \in Slots, UpdateDone(i)
    PROVE  \E j \in Jobs, read \in GoodJobs, new \in GoodJobs :
               /\ db[j] \in GoodJobs
               /\ db' = [db EXCEPT ![j] = Written(db[j], read, UpdateRow(read, new))]
<1>1. saves[i] # NoSave
  BY DEF UpdateDone, NoSave
<1>2. PICK r \in Requests : r = saves[i]
  BY <1>1 DEF Fit, SavesFit
<1>3. r.read # None /\ r.read \in GoodJobs /\ r.job \in GoodJobs /\ r.id \in Jobs
  BY <1>2 DEF UpdateDone, Requests
<1>4. db[r.id] \in GoodJobs
  BY <1>2, <1>3 DEF UpdateDone, Stores, Fit, JobsFit
<1> QED BY <1>2, <1>3, <1>4 DEF UpdateDone

\* Requests, their answers, and the list.
LEMMA SavesKeepFit ==
    ASSUME Fit,
           \/ \E i \in Slots : \/ Save(i) \/ CreateDone(i) \/ UpdateRead(i) \/ UpdateDone(i)
                              \/ SaveFails(i)
           \/ \E j \in Jobs : Delete(j)
           \/ Load
    PROVE  Fit'
<1> USE DEF Fit
<1>1. ASSUME NEW i \in Slots, Save(i) PROVE Fit'
  <2>1. PICK r : r = [id |-> form.editId, record |-> form.record, job |-> Payload(form),
                      read |-> None]
    OBVIOUS
  <2>2. r \in Requests
    BY <2>1, PayloadFits DEF Requests, GoodForms, Form
  <2> QED BY <1>1, <2>1, <2>2 DEF Save, SavesFit, JobsFit, OffersFit, offers
<1>2. ASSUME NEW i \in Slots, saves[i] # NoSave
      PROVE  saves[i].job \in GoodJobs /\ saves[i].id \in Jobs \cup {None}
  BY <1>2 DEF SavesFit, Requests
<1>3. ASSUME NEW i \in Slots, SaveAnswered(i), JobsFit' PROVE Fit'
  <2>1. form' \in GoodForms /\ HideBrowser(browser) \in Browser
    BY <1>3 DEF SaveAnswered, CloseForm, GoodForms, Form, HideBrowser, OffersFit, Browser
  <2> QED BY <1>3, <2>1 DEF SaveAnswered, SavesFit, OffersFit
<1>4. ASSUME NEW i \in Slots, CreateDone(i) PROVE Fit'
  <2>1. JobsFit'
    BY <1>2, <1>4 DEF CreateDone, SaveAnswered, JobsFit
  <2> QED BY <1>3, <1>4, <2>1 DEF CreateDone
<1>5. ASSUME NEW i \in Slots, UpdateDone(i) PROVE Fit'
  <2>1. PICK j \in Jobs, read \in GoodJobs, new \in GoodJobs :
            /\ db[j] \in GoodJobs
            /\ db' = [db EXCEPT ![j] = Written(db[j], read, UpdateRow(read, new))]
    BY <1>5, UpdateWrites
  <2>2. PICK w \in GoodJobs : db' = [db EXCEPT ![j] = w]
    BY <2>1, WrittenFits
  <2>3. db' \in [Jobs -> GoodJobs \cup {None, Deleted}] /\ UNCHANGED rows
    BY <1>5, <2>2 DEF UpdateDone, SaveAnswered, JobsFit
  <2>4. JobsFit'
    BY <2>3 DEF JobsFit
  <2> QED BY <1>3, <1>5, <2>4 DEF UpdateDone
<1>6. ASSUME NEW i \in Slots, SaveFails(i) PROVE Fit'
  BY <1>6 DEF SaveFails, SavesFit, JobsFit, OffersFit, offers
<1>7. ASSUME NEW j \in Jobs, Delete(j) PROVE Fit'
  BY <1>7 DEF Delete, SavesFit, JobsFit, OffersFit, offers
<1>8. CASE Load
  BY <1>8 DEF Load, SavesFit, JobsFit, OffersFit, offers
<1>9. ASSUME NEW i \in Slots, UpdateRead(i) PROVE Fit'
  <2>1. PICK r \in Requests : r = saves[i] /\ r.id # None
    BY <1>9 DEF UpdateRead, SavesFit
  <2>2. PICK q \in GoodJobs : q = db[r.id]
    BY <1>9, <2>1 DEF UpdateRead, Stores, JobsFit, Requests
  <2>3. [r EXCEPT !.read = q] \in Requests
    BY <2>1 DEF Requests
  <2>4. saves' = [saves EXCEPT ![i] = [r EXCEPT !.read = q]]
    BY <1>9, <2>1, <2>2 DEF UpdateRead
  <2>5. SavesFit'
    BY <2>3, <2>4 DEF SavesFit
  <2> QED BY <1>9, <2>5 DEF UpdateRead, JobsFit, OffersFit, offers
<1> QED BY <1>1, <1>4, <1>5, <1>6, <1>7, <1>8, <1>9

\* Every step keeps what the page, its requests and the database hold.
LEMMA StepFit == Fit /\ [Next]_vars => Fit'
<1> SUFFICES ASSUME Fit, [Next]_vars PROVE Fit'
  OBVIOUS
<1>1. CASE UNCHANGED vars
  BY <1>1 DEF vars, offers, Fit, OffersFit, JobsFit, SavesFit
<1> QED BY <1>1, FormKeepsFit, OffersKeepFit, SavesKeepFit DEF Next, UserStep, AnswerStep

\* The lists on the page fit in every reachable state.
LEMMA AlwaysFit == Spec => []Fit
BY InitialFit, StepFit, PTL DEF Spec

\* Every reachable state of the page is well typed.
THEOREM TypeCorrect == Spec => []TypeOK
<1>1. Fit => TypeOK
  <2> SUFFICES ASSUME Fit PROVE TypeOK
    OBVIOUS
  <2>1. \A j \in Jobs : db[j] \in Job \cup {None, Deleted} /\ rows[j] \in Job \cup {None, Deleted}
    BY DEF Fit, JobsFit, GoodJobs
  <2>2. \A i \in Slots : saves[i] # NoSave =>
            saves[i].job \in Job /\ saves[i].read \in Job \cup {None}
    BY DEF Fit, SavesFit, Requests, GoodJobs
  <2>3. form \in Form
    BY DEF Fit, GoodForms
  <2> QED BY <2>1, <2>2, <2>3 DEF Fit, OffersFit, Form, Browser, TypeOK
<1> QED BY AlwaysFit, <1>1, PTL

Stays == \A j \in Jobs : Stores(j) /\ Stores(j)' => db'[j].server = db[j].server

\* No step moves a job to another server.
LEMMA StepStays == Fit /\ [Next]_vars => Stays
<1> SUFFICES ASSUME Fit, [Next]_vars, NEW j \in Jobs, Stores(j), Stores(j)'
             PROVE  db'[j].server = db[j].server
  BY DEF Stays
<1>0. db = [k \in Jobs |-> db[k]]
  BY DEF Fit, JobsFit
<1>1. CASE UNCHANGED db
  BY <1>1
<1>2. ASSUME NEW i \in Slots, CreateDone(i) PROVE db'[j].server = db[j].server
  BY <1>0, <1>2 DEF CreateDone, Stores
<1>3. ASSUME NEW i \in Slots, UpdateDone(i) PROVE db'[j].server = db[j].server
  <2>1. PICK k \in Jobs, read \in GoodJobs, new \in GoodJobs :
            /\ db[k] \in GoodJobs
            /\ db' = [db EXCEPT ![k] = Written(db[k], read, UpdateRow(read, new))]
    BY <1>3, UpdateWrites
  <2> QED BY <1>0, <2>1, WrittenFits
<1>4. ASSUME NEW k \in Jobs, Delete(k) PROVE db'[j].server = db[j].server
  BY <1>0, <1>4 DEF Delete, Stores
<1>5. \/ UNCHANGED db
      \/ \E i \in Slots : CreateDone(i) \/ UpdateDone(i)
      \/ \E k \in Jobs : Delete(k)
  <2>1. CASE \/ LoadDatabases \/ DatabasesAnswered \/ LoadDocker \/ Prune \/ BrowseTo \/ HideFiles
             \/ \E s \in Servers : \/ DockerAnswered(s) \/ BrowseAnswered(s)
                                  \/ Pruned(s) \/ PruneAnswered(s)
    BY <2>1, Zenon DEF LoadDatabases, DatabasesAnswered, LoadDocker, Prune, BrowseTo, HideFiles,
                DockerAnswered, BrowseAnswered, Pruned, PruneAnswered
  <2>2. CASE \/ OpenNew \/ Cancel \/ TypeText \/ SelectAllDbNames \/ UseAsFiles
             \/ \E k \in Jobs : OpenEdit(k)
             \/ \E t \in Types : SelectType(t)
             \/ \E s \in Servers \cup {Blank} : SelectServer(s)
             \/ \E d \in Dests : ToggleDestination(d)
             \/ \E d \in Dests, p \in Policies \cup {Blank} : SelectOverride(d, p)
             \/ \E t \in Tags : AddTag(t) \/ RemoveTag(t)
             \/ \E x \in Items : ToggleDbName(x) \/ ToggleVolume(x) \/ AddPathFromBrowser(x)
    BY <2>2 DEF OpenNew, Cancel, TypeText, SelectAllDbNames, UseAsFiles, OpenEdit, SelectType,
                SelectServer, ToggleDestination, SelectOverride, AddTag, RemoveTag,
                ToggleDbName, ToggleVolume, AddPathFromBrowser, Set
  <2>3. CASE Load \/ UNCHANGED vars \/ \E i \in Slots : Save(i) \/ UpdateRead(i) \/ SaveFails(i)
    BY <2>3 DEF Load, Save, UpdateRead, SaveFails, vars
  <2> QED BY <2>1, <2>2, <2>3 DEF Next, UserStep, AnswerStep
<1> QED BY <1>1, <1>2, <1>3, <1>4, <1>5

\* A job never moves to another server, whatever the forms and the requests
\* that were filled before it was saved last.
THEOREM ServerNeverChanges == Spec => ServerFixed
<1>1. Fit /\ [Next]_vars => [Stays]_vars
  BY StepStays
<1> QED BY <1>1, InitialFit, StepFit, PTL DEF Spec, ServerFixed, Stays

\* No destination, tag, database or volume is twice in a job, however its
\* lists were toggled over forms, listings and requests.
THEOREM NothingTwice == Spec => []NoDuplicates
<1>1. Fit => NoDuplicates
  BY DEF Fit, JobsFit, GoodJobs, Stores, NoDuplicates
<1> QED BY AlwaysFit, <1>1, PTL

\* A job that is saved as it was opened keeps what the form shows of it, and
\* loses the rest of its source_config.
THEOREM ReopenLosesUnseenOnly == Spec => []ReopenKeepsShown
<1>1. Fit => ReopenKeepsShown
  <2> SUFFICES ASSUME Fit, NEW j \in Jobs, Stores(j)
               PROVE  UpdateRow(db[j], Payload(LoadRow(j, db[j]))) =
                          [db[j] EXCEPT !.config = [source |-> [t \in FormTypes |->
                                            IF t = db[j].type THEN @.source[t] ELSE <<>>],
                                        unseen |-> {}]]
    BY DEF ReopenKeepsShown
  <2>1. PICK r \in Job : r = db[j]
    BY DEF Fit, JobsFit, GoodJobs, Stores
  <2>2. PICK f : f = LoadRow(j, r)
    OBVIOUS
  <2>3. /\ f.server = r.server /\ f.type = r.type /\ f.dests = r.dests
        /\ f.overrides = r.overrides /\ f.tags = r.tags /\ f.choice = r.config.source
    BY <2>2 DEF LoadRow, emptyForm
  <2>4. PICK kept : kept = [t \in FormTypes |-> IF t = r.type THEN r.config.source[t] ELSE <<>>]
    OBVIOUS
  <2>5. BuildSourceConfig(f) = [source |-> kept, unseen |-> {}]
    <3>1. ASSUME NEW t \in FormTypes
          PROVE  Without(r.config.source[t], Blank) = r.config.source[t]
      <4>1. PICK q : q = r.config.source[t]
        OBVIOUS
      <4>2. q \in Seq(Items \cup Scripts) /\ Blank \notin Items \cup Scripts
        BY <2>1, <4>1, JobAssumption DEF Job, Config
      <4> QED BY <4>1, <4>2, WithoutFacts
    <3>2. [t \in FormTypes |-> IF t = f.type THEN Without(f.choice[t], Blank) ELSE <<>>] = kept
      BY <2>3, <2>4, <3>1
    <3> QED BY <3>2 DEF BuildSourceConfig
  <2>6. PICK p : p = Payload(f)
    OBVIOUS
  <2>7. p = [server |-> r.server, type |-> r.type,
             config |-> [source |-> kept, unseen |-> {}], dests |-> r.dests,
             overrides |-> r.overrides, tags |-> r.tags]
    BY <2>3, <2>5, <2>6 DEF Payload
  <2>8. UpdateRow(r, p) = [r EXCEPT !.config = [source |-> kept, unseen |-> {}]]
    <3>1. PICK c : c = [source |-> kept, unseen |-> {}]
      OBVIOUS
    <3>2. UpdateRow(r, p) = [server |-> r.server, type |-> r.type, config |-> c,
                             dests |-> r.dests, overrides |-> r.overrides, tags |-> r.tags]
      BY <2>7, <3>1 DEF UpdateRow
    <3>3. r = [server |-> r.server, type |-> r.type, config |-> r.config,
               dests |-> r.dests, overrides |-> r.overrides, tags |-> r.tags]
      BY <2>1 DEF Job
    <3>4. [r EXCEPT !.config = c] =
              [server |-> r.server, type |-> r.type, config |-> c,
               dests |-> r.dests, overrides |-> r.overrides, tags |-> r.tags]
      BY <3>3
    <3> QED BY <3>1, <3>2, <3>4
  <2>9. [r EXCEPT !.config = [source |-> [t \in FormTypes |->
                                  IF t = r.type THEN @.source[t] ELSE <<>>],
                              unseen |-> {}]] =
        [r EXCEPT !.config = [source |-> kept, unseen |-> {}]]
    BY <2>4
  <2> QED BY <2>1, <2>2, <2>6, <2>8, <2>9
<1> QED BY AlwaysFit, <1>1, PTL
=============================================================================
