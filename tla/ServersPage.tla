---------------------------- MODULE ServersPage ----------------------------
(***************************************************************************)
(* The servers page (ui/src/app/(app)/servers/page.tsx) against its API    *)
(* (api/routers/servers.py:42-160).  A secret is the record whose form it  *)
(* was typed into.                                                         *)
(***************************************************************************)
CONSTANTS
    Servers,    \* ids of servers, each used at most once
    Slots,      \* save requests under way together
    New,        \* owner of what is typed into the form opened by Add
    Empty, None, Deleted

\* ssh_key stands for local as well: neither has a secret of its own.
AuthTypes == {"ssh_key", "ssh_password", "api"}
Secret == Servers \cup {New, Empty}
Payload == [auth : AuthTypes, hasDb : BOOLEAN, ssh_password : Secret,
            db_password : Secret, api_token : Secret]

VARIABLES
    db,       \* servers
    rows,     \* the page's list of them
    loading,  \* load() is under way
    form,     \* showForm, editId and the fields
    saves     \* per slot: a request under way, whether its page is mounted,
              \* and the row an update has read

emptyForm == [show |-> FALSE, editId |-> None, auth |-> "ssh_key", hasDb |-> FALSE,
              ssh_password |-> Empty, db_password |-> Empty, api_token |-> Empty]
NoSave == [id |-> None, payload |-> None, live |-> FALSE, read |-> None]
Stores(s) == db[s] \notin {None, Deleted}

Init ==
    /\ db \in [Servers -> Payload \cup {None}]
    /\ \A s \in Servers : Stores(s) =>
           db[s] = [auth |-> db[s].auth, hasDb |-> db[s].hasDb,
                    ssh_password |-> IF db[s].auth = "ssh_password" THEN s ELSE Empty,
                    db_password  |-> IF db[s].hasDb THEN s ELSE Empty,
                    api_token    |-> IF db[s].auth = "api" THEN s ELSE Empty]
    /\ rows = db /\ loading = FALSE
    /\ form = emptyForm
    /\ saves = [i \in Slots |-> NoSave]

\* Mutant of OpenNew: the fields of the form shown last stay.
OpenNewKeepsFields ==
    /\ form' = [form EXCEPT !.show = TRUE, !.editId = None]
    /\ UNCHANGED <<db, rows, loading, saves>>

OpenNew ==
    /\ form' = [emptyForm EXCEPT !.show = TRUE]
    /\ UNCHANGED <<db, rows, loading, saves>>

\* Everything of the row but its secrets.
LoadRow(s, r) == [emptyForm EXCEPT !.show = TRUE, !.editId = s, !.auth = r.auth, !.hasDb = r.hasDb]

OpenEdit(s) ==
    /\ rows[s] \notin {None, Deleted}
    /\ form' = LoadRow(s, rows[s])
    /\ UNCHANGED <<db, rows, loading, saves>>

\* Mutant of CloseForm: an empty id instead of none.
CloseFormEmptyId(f) == [f EXCEPT !.show = FALSE, !.editId = Empty]

CloseForm(f) == [f EXCEPT !.show = FALSE, !.editId = None]

Cancel ==
    /\ form.show
    /\ form' = CloseForm(form)
    /\ UNCHANGED <<db, rows, loading, saves>>

Set(f) ==
    /\ form.show
    /\ form' = f
    /\ UNCHANGED <<db, rows, loading, saves>>

Owner(f) == IF f.editId = None THEN New ELSE f.editId

\* A field is on the page for its authentication type, the database password
\* for a database type.
EditFields ==
    \/ \E a \in AuthTypes : Set([form EXCEPT !.auth = a])
    \/ Set([form EXCEPT !.hasDb = ~@])
    \/ form.auth = "ssh_password" /\ Set([form EXCEPT !.ssh_password = Owner(form)])
    \/ form.auth = "api" /\ Set([form EXCEPT !.api_token = Owner(form)])
    \/ form.hasDb /\ Set([form EXCEPT !.db_password = Owner(form)])

\* meta (the database, the passwords) is built anew; api_token, a column of its
\* own, is sent for authentication type api only.
BuildPayload(f) ==
    [auth |-> f.auth, hasDb |-> f.hasDb,
     ssh_password |-> IF f.auth = "ssh_password" THEN f.ssh_password ELSE Empty,
     db_password  |-> IF f.hasDb THEN f.db_password ELSE Empty,
     api_token    |-> IF f.auth = "api" THEN f.api_token ELSE Empty]

Save(i) ==
    /\ form.show /\ saves[i] = NoSave
    /\ saves' = [saves EXCEPT ![i] =
                     [id |-> form.editId, payload |-> BuildPayload(form), live |-> TRUE,
                      read |-> None]]
    /\ UNCHANGED <<db, rows, loading, form>>

\* A page that was left ignores the answer.
SaveAnswered(i) ==
    /\ saves' = [saves EXCEPT ![i] = NoSave]
    /\ form' = IF saves[i].live THEN CloseForm(form) ELSE form
    /\ loading' = (loading \/ saves[i].live)
    /\ UNCHANGED rows

\* What was typed into the form opened by Add belongs to the server created.
Created(s, p) ==
    LET own(x) == IF x = New THEN s ELSE x
    IN  [p EXCEPT !.ssh_password = own(@), !.db_password = own(@), !.api_token = own(@)]

CreateDone(i) ==
    /\ saves[i] # NoSave /\ saves[i].id = None
    /\ \E s \in Servers : db[s] = None /\ db' = [db EXCEPT ![s] = Created(s, saves[i].payload)]
    /\ SaveAnswered(i)

\* Mutant of UpdateRow: meta is merged, a field that is not sent stays.
UpdateRowMerges(old, p) ==
    [k \in DOMAIN p |-> IF k \in {"ssh_password", "db_password"} /\ p[k] = Empty THEN old[k]
                        ELSE IF k = "api_token" /\ p.auth # "api" THEN old[k] ELSE p[k]]

\* setattr of every field sent: meta is replaced, an api_token that is sent is
\* encrypted even when it is empty, one that is not sent stays.
UpdateRow(old, p) == [p EXCEPT !.api_token = IF p.auth = "api" THEN @ ELSE old.api_token]

\* The rows an update may leave: only columns that differ from the row it read
\* are written, over what the table holds by then.  meta has keys besides the
\* passwords, so it may be written for those alone; a token that is sent is
\* encrypted to another text each time.
Written(current, read, new) ==
    {[auth         |-> IF new.auth = read.auth THEN current.auth ELSE new.auth,
      hasDb        |-> meta.hasDb,
      ssh_password |-> meta.ssh_password,
      db_password  |-> meta.db_password,
      api_token    |-> IF new.auth = "api" THEN new.api_token ELSE current.api_token] :
        meta \in {new} \cup (IF \A k \in {"hasDb", "ssh_password", "db_password"} : new[k] = read[k]
                             THEN {current} ELSE {})}

\* The SELECT of update_server, without a lock.
UpdateRead(i) ==
    /\ saves[i] # NoSave /\ saves[i].id # None /\ saves[i].read = None
    /\ Stores(saves[i].id)
    /\ saves' = [saves EXCEPT ![i].read = db[saves[i].id]]
    /\ UNCHANGED <<db, rows, loading, form>>

\* Its flush and commit.
UpdateDone(i) ==
    LET s == saves[i].id
        r == saves[i].read
    IN  /\ r # None /\ Stores(s)
        /\ \E w \in Written(db[s], r, UpdateRow(r, saves[i].payload)) : db' = [db EXCEPT ![s] = w]
        /\ SaveAnswered(i)

\* Refused (a server that is gone when it is read or written) or lost.
SaveFails(i) ==
    /\ saves[i] # NoSave
    /\ saves' = [saves EXCEPT ![i] = NoSave]
    /\ UNCHANGED <<db, rows, loading, form>>

Delete(s) ==
    /\ rows[s] \notin {None, Deleted} /\ Stores(s)
    /\ db' = [db EXCEPT ![s] = Deleted]
    /\ loading' = TRUE
    /\ UNCHANGED <<rows, form, saves>>

Load ==
    /\ loading
    /\ loading' = FALSE
    /\ rows' \in {rows, db}
    /\ UNCHANGED <<db, form, saves>>

UserStep ==
    \/ OpenNew \/ Cancel \/ EditFields
    \/ \E s \in Servers : OpenEdit(s) \/ Delete(s)
    \/ \E i \in Slots : Save(i)

SaveStep == \E i \in Slots : CreateDone(i) \/ UpdateRead(i) \/ UpdateDone(i) \/ SaveFails(i)

\* Following a link of the sidebar unmounts the page; coming back mounts it
\* with a blank form and loads the list.
Leave ==
    /\ form' = emptyForm
    /\ saves' = [i \in Slots |-> [saves[i] EXCEPT !.live = FALSE]]
    /\ loading' = FALSE /\ rows' = [s \in Servers |-> None]
    /\ UNCHANGED db

Mount == loading' = TRUE /\ UNCHANGED <<db, rows, form, saves>>

Form == [show : BOOLEAN, editId : Servers \cup {None}, auth : AuthTypes, hasDb : BOOLEAN,
         ssh_password : Secret, db_password : Secret, api_token : Secret]
SaveRequest == [id : Servers \cup {None}, payload : Payload, live : BOOLEAN,
                read : Payload \cup {None}]

\* The ranges of the page's state and of the servers.
TypeOK ==
    /\ db \in [Servers -> Payload \cup {None, Deleted}]
    /\ rows \in [Servers -> Payload \cup {None, Deleted}]
    /\ loading \in BOOLEAN
    /\ form \in Form
    /\ saves \in [Slots -> SaveRequest \cup {NoSave}]

\* No server holds a secret typed into the form of another server, although
\* one form serves all of them, a save is answered after the form has moved on
\* and the page may have been left by then (handleSave, closeForm, openEdit).
OwnSecrets == \A s \in Servers : Stores(s) =>
    {db[s].ssh_password, db[s].db_password, db[s].api_token} \subseteq {s, Empty}

\* The secrets a server holds and has no use for.
Unused(r) == {k \in {"ssh_password", "db_password", "api_token"} :
    /\ r[k] # Empty
    /\ \/ k = "ssh_password" /\ r.auth # "ssh_password"
       \/ k = "db_password" /\ ~r.hasDb
       \/ k = "api_token" /\ r.auth # "api"}

\* The update of server s that ends has read another row than it meets.
Overlaps(s) == \E i \in Slots :
    /\ saves[i].id = s /\ saves[i].read \notin {None, db[s]}
    /\ saves'[i] = NoSave

\* Of the secrets of the type a server had before, a save leaves the API token
\* at most, which no update clears; a password it leaves only when it
\* overlapped another update and wrote some of the columns, and the next save
\* that overlaps none clears it (buildPayload and update_server).
TidySave == \A s \in Servers : Stores(s)' /\ db'[s] # db[s] =>
    Unused(db'[s]) \subseteq {"api_token"} \/ Overlaps(s)

\* Opening a server and saving it untouched changes nothing but its secrets:
\* those the form cannot show again are lost, an API token only when the
\* server logs in with it (openEdit, buildPayload, update_server).
ReopenedIsSame == \A s \in Servers : Stores(s) =>
    UpdateRow(db[s], BuildPayload(LoadRow(s, db[s]))) =
        [db[s] EXCEPT !.ssh_password = Empty, !.db_password = Empty,
                      !.api_token = IF db[s].auth = "api" THEN Empty ELSE @]
=============================================================================
