----------------------------- MODULE JobEditor -----------------------------
(***************************************************************************)
(* The jobs page (ui/src/app/(app)/jobs/page.tsx) with its form, the       *)
(* choices a server offers for it and the requests it has under way,       *)
(* against the jobs API (api/routers/jobs.py).  What is backed up is an    *)
(* item: a path, a database, a volume or a script.  A job's source_config  *)
(* has one list of items per backup type, and keys the form neither shows  *)
(* nor sends (db_name, pg_user, excludes, ...), which the executor reads   *)
(* and other clients of the API write.                                     *)
(***************************************************************************)
EXTENDS Integers, Sequences, SequencesExt

CONSTANTS
    Jobs,          \* ids of jobs, each used at most once
    Servers, Dests, Policies, Tags,
    ItemsOf,       \* what each server has of each backup type
    OrphansOf,     \* volumes of each server that no container uses
    BindMountsOf,  \* host paths its containers mount
    Scripts,       \* what is typed into the script field
    Unseen,        \* keys of source_config the form does not know
    Blank,         \* an empty line, an empty field or no server
    New,           \* the record of the form opened by Add
    None, Deleted,
    MaxSaves, MaxClicks   \* bounds of the model: save requests under way
                          \* together, user actions

FormTypes == {"files", "postgresql", "docker_volumes", "custom"}
\* A do_snapshot job comes from the API only: the form has no choice for it.
Types == FormTypes \cup {"do_snapshot"}
Offered == {"postgresql", "docker_volumes"}
Slots == 1..MaxSaves
Items == UNION {ItemsOf[s][t] : s \in Servers, t \in FormTypes}

ASSUME JobAssumption ==
    /\ MaxSaves \in Nat /\ MaxClicks \in Nat
    /\ Blank \notin Servers \cup Items \cup Policies \cup Scripts
    /\ None \notin Jobs /\ New \notin Jobs /\ None # Deleted
    /\ IsFiniteSet(Dests) /\ \A s \in Servers, t \in FormTypes : IsFiniteSet(ItemsOf[s][t])
    /\ \A s \in Servers : OrphansOf[s] \subseteq ItemsOf[s]["docker_volumes"]
    /\ \A s \in Servers : BindMountsOf[s] \subseteq ItemsOf[s]["files"]

VARIABLES
    volumes,    \* per server: the docker volumes it has
    db,         \* backup_jobs
    rows,       \* the page's list of them
    loading,    \* load() is under way
    form,       \* showForm, editId, the loaded record and the fields
    databases,  \* names offered by the last answer about databases
    dbLoading,  \* server whose databases are being listed, or None
    dockerInfo, \* server the docker answer on display is about, and its volumes
    dockerAsks, \* servers whose docker listing is under way
    dockerLoading,
    browser,    \* shown, loading, and the server whose directory it lists, or None
    browsing,   \* servers whose directory listing is under way
    prunes,     \* servers whose pruning is under way
    saves,      \* per slot: a create or update request under way, and the row
                \* an update has read
    clicks

offers == <<databases, dbLoading, dockerInfo, dockerAsks, dockerLoading, browser, browsing,
            prunes>>
vars == <<volumes, db, rows, loading, form, offers, saves, clicks>>

NoSave == [id |-> None, record |-> None, job |-> None, read |-> None]
NoDocker == [server |-> None, volumes |-> {}]
NoBrowser == [show |-> FALSE, loading |-> FALSE, server |-> None]
NoChoice == [t \in FormTypes |-> <<>>]
NoOverrides == [d \in Dests |-> Blank]
emptyForm == [show |-> FALSE, editId |-> None, record |-> New,
              server |-> Blank, type |-> "files", choice |-> NoChoice,
              dests |-> <<>>, overrides |-> NoOverrides, tags |-> <<>>]
Stores(j) == db[j] \notin {None, Deleted}

\* list.filter(y => y !== x), as a recursive function the proofs can unfold.
Without(list, x) ==
    LET kept[n \in 0..Len(list)] ==
            IF n = 0 THEN <<>>
            ELSE IF list[n] = x THEN kept[n - 1] ELSE Append(kept[n - 1], list[n])
    IN  kept[Len(list)]

\* buildSourceConfig: a new object with the choice of the selected type, blank
\* lines dropped, and nothing else; a do_snapshot job's holds no choice at all.
BuildSourceConfig(f) ==
    [source |-> [t \in FormTypes |-> IF t = f.type THEN Without(f.choice[t], Blank) ELSE <<>>],
     unseen |-> {}]

Payload(f) == [server |-> f.server, type |-> f.type, config |-> BuildSourceConfig(f),
               dests |-> f.dests, overrides |-> f.overrides, tags |-> f.tags]

\* Mutant of LoadRow: the policies of the destinations are not loaded.
LoadRowNoOverrides(j, r) ==
    [emptyForm EXCEPT !.show = TRUE, !.editId = j, !.record = j,
                      !.server = r.server, !.type = r.type, !.choice = r.config.source,
                      !.dests = r.dests, !.tags = r.tags]

\* openEdit: the choices of all types from the row's source_config; the unseen
\* keys go nowhere; what the servers were asked before stays on display.
LoadRow(j, r) ==
    [emptyForm EXCEPT !.show = TRUE, !.editId = j, !.record = j,
                      !.server = r.server, !.type = r.type, !.choice = r.config.source,
                      !.dests = r.dests, !.overrides = r.overrides, !.tags = r.tags]

\* Mutant of Toggle: a name that is there is added again.
ToggleAppends(list, x) == Append(list, x)

\* Both lists of names, the destinations and the tags are toggled this way.
Toggle(list, x) ==
    IF x \in ToSet(list) THEN Without(list, x) ELSE Append(list, x)

\* A job another client of the API made, with items of its type or of all.
FirstJob(s, t, keys) ==
    [server |-> s, type |-> t,
     config |-> [source |-> [c \in FormTypes |-> IF c \in keys THEN SetToSeq(ItemsOf[s][c])
                                                               ELSE <<>>],
                 unseen |-> Unseen],
     dests |-> SetToSeq(Dests), overrides |-> NoOverrides, tags |-> <<>>]

Init ==
    /\ volumes = [s \in Servers |-> ItemsOf[s]["docker_volumes"]]
    /\ \E j \in Jobs, s \in Servers, t \in Types : \E keys \in {{t}, FormTypes} :
           db = [i \in Jobs |-> IF i = j THEN FirstJob(s, t, keys) ELSE None]
    /\ rows = db /\ loading = FALSE
    /\ form = emptyForm
    /\ databases = {} /\ dbLoading = None
    /\ dockerInfo = NoDocker /\ dockerAsks = {}
    /\ dockerLoading = FALSE /\ browser = NoBrowser /\ browsing = {} /\ prunes = {}
    /\ saves = [i \in Slots |-> NoSave]
    /\ clicks = 0

-----------------------------------------------------------------------------
(* The form.                                                               *)

OpenNew ==
    /\ form' = [emptyForm EXCEPT !.show = TRUE]
    /\ databases' = {} /\ dockerInfo' = NoDocker
    /\ UNCHANGED <<volumes, db, rows, loading, dbLoading, dockerAsks, dockerLoading,
                   browser, browsing, saves, prunes>>

OpenEdit(j) ==
    /\ rows[j] \notin {None, Deleted}
    /\ form' = LoadRow(j, rows[j])
    /\ UNCHANGED <<volumes, db, rows, loading, offers, saves>>

\* Mutants of CloseForm: an empty id instead of none; the form stays open.
CloseFormEmptyId(f) == [f EXCEPT !.show = FALSE, !.editId = Blank]
CloseFormStaysOpen(f) == [f EXCEPT !.editId = None]

CloseForm(f) == [f EXCEPT !.show = FALSE, !.editId = None]
HideBrowser(b) == [b EXCEPT !.show = FALSE]

Cancel ==
    /\ form.show
    /\ form' = CloseForm(form) /\ browser' = HideBrowser(browser)
    /\ UNCHANGED <<volumes, db, rows, loading, databases, dbLoading, dockerInfo, dockerAsks,
                   dockerLoading, browsing, saves, prunes>>

Set(f) ==
    /\ form.show
    /\ form' = f
    /\ UNCHANGED <<volumes, db, rows, loading, offers, saves>>

SelectType(t) == t \in FormTypes /\ t # form.type /\ Set([form EXCEPT !.type = t])

\* Changing the server keeps the choices and the offers of the one before.
SelectServer(s) == s # form.server /\ Set([form EXCEPT !.server = s])

ToggleDestination(d) == Set([form EXCEPT !.dests = Toggle(@, d)])

\* Offered while two destinations are selected; deselecting one keeps it.
SelectOverride(d, p) ==
    /\ Len(form.dests) >= 2 /\ d \in ToSet(form.dests)
    /\ Set([form EXCEPT !.overrides[d] = p])

\* TagInput: a tag that is there is not added again; x and Backspace remove.
AddTag(t) == t \notin ToSet(form.tags) /\ Set([form EXCEPT !.tags = Append(@, t)])
RemoveTag(t) == t \in ToSet(form.tags) /\ Set([form EXCEPT !.tags = Without(@, t)])

TypeText ==
    /\ form.server # Blank
    /\ \/ form.type = "files" /\ \E p \in ItemsOf[form.server]["files"] \cup {Blank} :
              Set([form EXCEPT !.choice["files"] = Append(@, p)])
       \/ form.type = "custom" /\ \E c \in Scripts \cup {Blank} :
              Set([form EXCEPT !.choice["custom"] = <<c>>])

Showing(t) == form.show /\ form.server # Blank /\ form.type = t

ToggleDbName(n) ==
    /\ Showing("postgresql") /\ n \in databases
    /\ Set([form EXCEPT !.choice["postgresql"] = Toggle(@, n)])

SelectAllDbNames ==
    /\ Showing("postgresql") /\ databases # {}
    /\ Set([form EXCEPT !.choice["postgresql"] = SetToSeq(databases)])

ToggleVolume(v) ==
    /\ Showing("docker_volumes") /\ v \in dockerInfo.volumes
    /\ Set([form EXCEPT !.choice["docker_volumes"] = Toggle(@, v)])

\* The bind mounts of a container become lines of the files field.
UseAsFiles ==
    /\ Showing("docker_volumes") /\ dockerInfo.server # None
    /\ BindMountsOf[dockerInfo.server] # {}
    /\ Set([form EXCEPT !.type = "files",
            !.choice["files"] = @ \o SetToSeq(BindMountsOf[dockerInfo.server])])

AddPathFromBrowser(p) ==
    /\ Showing("files") /\ browser.show /\ ~browser.loading /\ browser.server # None
    /\ p \in ItemsOf[browser.server]["files"]
    /\ Set([form EXCEPT !.choice["files"] = Append(Without(@, Blank), p)])

-----------------------------------------------------------------------------
(* What the server of the form is asked.                                   *)

LoadDatabases ==
    /\ Showing("postgresql") /\ dbLoading = None
    /\ ItemsOf[form.server]["postgresql"] # {}
    /\ dbLoading' = form.server
    /\ UNCHANGED <<volumes, db, rows, loading, form, databases, dockerInfo, dockerAsks,
                   dockerLoading, browser, browsing, saves, prunes>>

DatabasesAnswered ==
    /\ dbLoading # None
    /\ databases' \in {ItemsOf[dbLoading]["postgresql"], {}}
    /\ dbLoading' = None
    /\ UNCHANGED <<volumes, db, rows, loading, form, dockerInfo, dockerAsks,
                   dockerLoading, browser, browsing, saves, prunes>>

LoadDocker ==
    /\ Showing("docker_volumes") /\ ~dockerLoading
    /\ dockerAsks' = dockerAsks \cup {form.server} /\ dockerLoading' = TRUE
    /\ UNCHANGED <<volumes, db, rows, loading, form, databases, dbLoading, dockerInfo,
                   browser, browsing, saves, prunes>>

DockerAnswered(s) ==
    /\ s \in dockerAsks
    /\ dockerInfo' \in {[server |-> s, volumes |-> volumes[s]], NoDocker}
    /\ dockerAsks' = dockerAsks \ {s} /\ dockerLoading' = FALSE
    /\ UNCHANGED <<volumes, db, rows, loading, form, databases, dbLoading, browser, browsing,
                   saves, prunes>>

\* The button shows the orphans of dockerInfo and prunes the server selected
\* in the form.
Prune ==
    /\ Showing("docker_volumes") /\ dockerInfo.server # None
    /\ dockerInfo.volumes \cap OrphansOf[dockerInfo.server] # {}
    /\ prunes' = prunes \cup {form.server}
    /\ UNCHANGED <<volumes, db, rows, loading, form, databases, dbLoading, dockerInfo, dockerAsks,
                   dockerLoading, browser, browsing, saves>>

\* The orphans are removed, the answer still on its way.
Pruned(s) ==
    /\ s \in prunes
    /\ volumes' = [volumes EXCEPT ![s] = @ \ OrphansOf[s]]
    /\ UNCHANGED <<db, rows, loading, form, offers, saves>>

\* After a success the listing of the server that was pruned is asked for again,
\* whatever server the form has by then.
PruneAnswered(s) ==
    /\ s \in prunes
    /\ prunes' = prunes \ {s}
    /\ \/ /\ volumes[s] \cap OrphansOf[s] = {}
          /\ dockerAsks' = dockerAsks \cup {s} /\ dockerLoading' = TRUE
       \/ UNCHANGED <<dockerAsks, dockerLoading>>
    /\ UNCHANGED <<volumes, db, rows, loading, form, databases, dbLoading, dockerInfo,
                   browser, browsing, saves>>

BrowseTo ==
    /\ Showing("files")
    /\ browsing' = browsing \cup {form.server}
    /\ browser' = [browser EXCEPT !.show = TRUE, !.loading = TRUE]
    /\ UNCHANGED <<volumes, db, rows, loading, form, databases, dbLoading, dockerInfo, dockerAsks,
                   dockerLoading, saves, prunes>>

HideFiles ==
    /\ Showing("files") /\ browser.show
    /\ browser' = HideBrowser(browser)
    /\ UNCHANGED <<volumes, db, rows, loading, form, databases, dbLoading, dockerInfo, dockerAsks,
                   dockerLoading, browsing, saves, prunes>>

\* Any answer ends the loading sign; a failed one leaves no entries.
BrowseAnswered(s) ==
    /\ s \in browsing
    /\ browsing' = browsing \ {s}
    /\ \E shown \in {s, None} : browser' = [browser EXCEPT !.loading = FALSE, !.server = shown]
    /\ UNCHANGED <<volumes, db, rows, loading, form, databases, dbLoading, dockerInfo, dockerAsks,
                   dockerLoading, saves, prunes>>

-----------------------------------------------------------------------------
(* Saving, deleting, loading.                                              *)

Save(i) ==
    /\ form.show
    /\ saves[i] = NoSave
    /\ saves' = [saves EXCEPT ![i] =
                     [id |-> form.editId, record |-> form.record, job |-> Payload(form),
                      read |-> None]]
    /\ UNCHANGED <<volumes, db, rows, loading, form, offers>>

\* The answer closes the form that is open by then and leaves its fields.
SaveAnswered(i) ==
    /\ saves' = [saves EXCEPT ![i] = NoSave]
    /\ form' = CloseForm(form) /\ browser' = HideBrowser(browser)
    /\ loading' = TRUE
    /\ UNCHANGED <<volumes, rows, databases, dbLoading, dockerInfo, dockerAsks,
                   dockerLoading, browsing, prunes>>

\* server_id is a required UUID of BackupJobCreate.
CreateDone(i) ==
    /\ saves[i] # NoSave /\ saves[i].id = None
    /\ saves[i].job.server \in Servers
    /\ \E j \in Jobs : db[j] = None /\ db' = [db EXCEPT ![j] = saves[i].job]
    /\ SaveAnswered(i)

\* Mutant of UpdateRow: the update takes the server of the form.
UpdateRowMoves(old, new) == new

\* BackupJobUpdate has no server_id: the one in the payload is ignored.
UpdateRow(old, new) == [new EXCEPT !.server = old.server]

\* Only the columns that differ from the row the update read are written, over
\* what the table holds by then.
Written(current, read, new) ==
    [c \in DOMAIN current |-> IF new[c] = read[c] THEN current[c] ELSE new[c]]

\* The SELECT of update_job, without a lock.
UpdateRead(i) ==
    /\ saves[i] # NoSave /\ saves[i].id # None /\ saves[i].read = None
    /\ Stores(saves[i].id)
    /\ saves' = [saves EXCEPT ![i].read = db[saves[i].id]]
    /\ UNCHANGED <<volumes, db, rows, loading, form, offers>>

\* Its flush and commit.
UpdateDone(i) ==
    LET j == saves[i].id
        r == saves[i].read
    IN  /\ r # None /\ Stores(j)
        /\ db' = [db EXCEPT ![j] = Written(@, r, UpdateRow(r, saves[i].job))]
        /\ SaveAnswered(i)

\* Refused (a job that is gone when it is read or written) or lost.
SaveFails(i) ==
    /\ saves[i] # NoSave
    /\ saves' = [saves EXCEPT ![i] = NoSave]
    /\ UNCHANGED <<volumes, db, rows, loading, form, offers>>

Delete(j) ==
    /\ rows[j] \notin {None, Deleted} /\ Stores(j)
    /\ db' = [db EXCEPT ![j] = Deleted]
    /\ loading' = TRUE
    /\ UNCHANGED <<volumes, rows, form, offers, saves>>

Load ==
    /\ loading
    /\ loading' = FALSE
    /\ rows' \in {rows, db}
    /\ UNCHANGED <<volumes, db, form, offers, saves>>

-----------------------------------------------------------------------------
UserStep ==
    /\ clicks < MaxClicks /\ clicks' = clicks + 1
    /\ \/ OpenNew \/ Cancel \/ TypeText \/ SelectAllDbNames \/ UseAsFiles
       \/ LoadDatabases \/ LoadDocker \/ Prune \/ BrowseTo \/ HideFiles
       \/ \E j \in Jobs : OpenEdit(j) \/ Delete(j)
       \/ \E t \in Types : SelectType(t)
       \/ \E s \in Servers \cup {Blank} : SelectServer(s)
       \/ \E d \in Dests : ToggleDestination(d)
       \/ \E d \in Dests, p \in Policies \cup {Blank} : SelectOverride(d, p)
       \/ \E t \in Tags : AddTag(t) \/ RemoveTag(t)
       \/ \E x \in Items : ToggleDbName(x) \/ ToggleVolume(x) \/ AddPathFromBrowser(x)
       \/ \E i \in Slots : Save(i)

AnswerStep ==
    \/ DatabasesAnswered \/ Load
    \/ \E s \in Servers : \/ DockerAnswered(s) \/ BrowseAnswered(s)
                         \/ Pruned(s) \/ PruneAnswered(s)
    \/ \E i \in Slots : CreateDone(i) \/ UpdateRead(i) \/ UpdateDone(i) \/ SaveFails(i)

Next == UserStep \/ (AnswerStep /\ UNCHANGED clicks)

Spec == Init /\ [][Next]_vars

-----------------------------------------------------------------------------
Config == [source : [FormTypes -> Seq(Items \cup Scripts)], unseen : SUBSET Unseen]
Job == [server : Servers \cup {Blank}, type : Types, config : Config, dests : Seq(Dests),
        overrides : [Dests -> Policies \cup {Blank}], tags : Seq(Tags)]

\* The ranges of the page's state, of the servers' volumes and of the jobs.
TypeOK ==
    /\ volumes \in [Servers -> SUBSET Items]
    /\ \A j \in Jobs : db[j] \in Job \cup {None, Deleted} /\ rows[j] \in Job \cup {None, Deleted}
    /\ form.editId \in Jobs \cup {None} /\ form.server \in Servers \cup {Blank}
    /\ form.type \in Types
    /\ databases \subseteq Items /\ dbLoading \in Servers \cup {None}
    /\ dockerAsks \subseteq Servers /\ browsing \subseteq Servers /\ prunes \subseteq Servers
    /\ dockerLoading \in BOOLEAN /\ dockerInfo.server \in Servers \cup {None}
    /\ browser \in [show : BOOLEAN, loading : BOOLEAN, server : Servers \cup {None}]
    /\ \A i \in Slots : saves[i] # NoSave =>
           saves[i].job \in Job /\ saves[i].read \in Job \cup {None}

IsDistinct(list) == \A i, j \in DOMAIN list : list[i] = list[j] => i = j

\* A job names no destination, tag, database or volume twice, however its lists
\* were toggled over saves, listings and reopened forms; a run would upload
\* twice to one destination (toggleDb, toggleVolume, TagInput, jobs.py).
NoDuplicates == \A j \in Jobs : Stores(j) =>
    /\ IsDistinct(db[j].dests) /\ IsDistinct(db[j].tags)
    /\ \A t \in Offered : IsDistinct(db[j].config.source[t])

\* Opening a job and saving it untouched keeps exactly what the form shows of
\* it: type, choice, destinations, policies, tags.  The choices of the other
\* types and every key the form does not know are erased from source_config
\* (openEdit, buildSourceConfig and handleSave, and update_job, which replaces
\* the column).
ReopenKeepsShown == \A j \in Jobs : Stores(j) =>
    UpdateRow(db[j], Payload(LoadRow(j, db[j]))) =
        [db[j] EXCEPT !.config = [source |-> [t \in FormTypes |->
                                      IF t = db[j].type THEN @.source[t] ELSE <<>>],
                                  unseen |-> {}]]

\* A form, and every request sent from one, writes the job its fields were
\* loaded from, also when the answer to an earlier save closes a form opened
\* since (openNew, openEdit, handleSave).
RightJob ==
    /\ form.show => form.record = IF form.editId = None THEN New ELSE form.editId
    /\ \A i \in Slots : saves[i] # NoSave =>
           saves[i].record = IF saves[i].id = None THEN New ELSE saves[i].id

\* A job never moves to another server, although the form offers the choice
\* when it edits one (jobs/page.tsx:453-461 against BackupJobUpdate).
ServerFixed == [][\A j \in Jobs : Stores(j) /\ Stores(j)' => db'[j].server = db[j].server]_vars
=============================================================================
