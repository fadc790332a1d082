------------------------- MODULE NotificationsPage -------------------------
(***************************************************************************)
(* The notifications page (ui/src/app/(app)/notifications/page.tsx)        *)
(* against its API (api/routers/notifications.py:20-55).  Each channel     *)
(* type has fields of its own; slack stands for the types without a        *)
(* secret.  A field's value is the channel whose form it was typed into.   *)
(***************************************************************************)
CONSTANTS
    Channels,   \* ids of channels, each used at most once
    Slots,      \* save requests under way together
    Triggers, DefaultTriggers,
    New,        \* owner of what is typed into the form opened by Add
    Empty, None, Deleted

ChannelTypes == {"slack", "telegram", "webhook"}
\* The config fields of each type, and those openEdit does not show again.
OpenFields == [slack |-> {"webhook_url"}, telegram |-> {"chat_id"}, webhook |-> {"url"}]
SecretFields == [slack |-> {}, telegram |-> {"bot_token"}, webhook |-> {"secret"}]
FieldsOf(t) == OpenFields[t] \cup SecretFields[t]
Fields == UNION {FieldsOf(t) : t \in ChannelTypes}
Value == Channels \cup {New, Empty}
Payload == [type : ChannelTypes, config : UNION {[FieldsOf(t) -> Value] : t \in ChannelTypes},
            triggers : SUBSET Triggers]

VARIABLES
    db,       \* notification_channels
    rows,     \* the page's list of them
    loading,  \* load() is under way
    form,     \* showForm, editId and the fields
    saves     \* per slot: a request under way, whether its page is mounted,
              \* and the row an update has read

BlankForm == [show |-> FALSE, editId |-> None, type |-> "slack",
              field |-> [k \in Fields |-> Empty], triggers |-> DefaultTriggers]
NoSave == [id |-> None, payload |-> None, live |-> FALSE, read |-> None]
Stores(c) == db[c] \notin {None, Deleted}

Init ==
    /\ \E types \in [Channels -> ChannelTypes \cup {None}] :
           db = [c \in Channels |-> IF types[c] = None THEN None ELSE
                    [type |-> types[c], config |-> [k \in FieldsOf(types[c]) |-> c],
                     triggers |-> DefaultTriggers]]
    /\ rows = db /\ loading = FALSE
    /\ form = BlankForm
    /\ saves = [i \in Slots |-> NoSave]

OpenNew ==
    /\ form' = [BlankForm EXCEPT !.show = TRUE]
    /\ UNCHANGED <<db, rows, loading, saves>>

\* What a form that opens shows of a config: a field of the type that is not
\* secret, empty when the config has none.
Shown(r, k) == IF k \in OpenFields[r.type] \cap DOMAIN r.config THEN r.config[k] ELSE Empty

\* Mutant of LoadRow: every field of a type with a secret is left blank.
LoadRowBlank(f, c, r) ==
    [f EXCEPT !.show = TRUE, !.editId = c, !.type = r.type, !.triggers = r.triggers,
              !.field = [k \in Fields |-> IF k \notin FieldsOf(r.type) THEN @[k]
                                          ELSE IF SecretFields[r.type] = {} THEN Shown(r, k)
                                          ELSE Empty]]

\* The fields of the row's type, its secret blank; those of the other types
\* keep what was typed before.
LoadRow(f, c, r) ==
    [f EXCEPT !.show = TRUE, !.editId = c, !.type = r.type, !.triggers = r.triggers,
              !.field = [k \in Fields |-> IF k \in FieldsOf(r.type) THEN Shown(r, k) ELSE @[k]]]

OpenEdit(c) ==
    /\ rows[c] \notin {None, Deleted}
    /\ form' = LoadRow(form, c, rows[c])
    /\ UNCHANGED <<db, rows, loading, saves>>

CloseForm(f) == [f EXCEPT !.show = FALSE, !.editId = None]

Cancel ==
    /\ form.show
    /\ form' = CloseForm(form)
    /\ UNCHANGED <<db, rows, loading, saves>>

Set(f) ==
    /\ form.show
    /\ form' = f
    /\ UNCHANGED <<db, rows, loading, saves>>

Owner(f) == IF f.editId = None THEN New ELSE f.editId

EditFields ==
    \/ \E t \in ChannelTypes : Set([form EXCEPT !.type = t])
    \/ \E k \in FieldsOf(form.type) : Set([form EXCEPT !.field[k] = Owner(form)])

toggleTrigger(t) ==
    Set([form EXCEPT !.triggers = IF t \in @ THEN @ \ {t} ELSE @ \cup {t}])

BuildConfig(f) == [k \in FieldsOf(f.type) |-> f.field[k]]

BuildPayload(f) == [type |-> f.type, config |-> BuildConfig(f), triggers |-> f.triggers]

Save(i) ==
    /\ form.show /\ saves[i] = NoSave
    /\ saves' = [saves EXCEPT ![i] =
                     [id |-> form.editId, payload |-> BuildPayload(form), live |-> TRUE,
                      read |-> None]]
    /\ UNCHANGED <<db, rows, loading, form>>

\* A mounted page closes and resets the form that is open by then.
SaveAnswered(i) ==
    /\ saves' = [saves EXCEPT ![i] = NoSave]
    /\ form' = IF saves[i].live THEN BlankForm ELSE form
    /\ loading' = (loading \/ saves[i].live)
    /\ UNCHANGED rows

\* What was typed into the form opened by Add belongs to the channel created.
Created(c, p) ==
    [p EXCEPT !.config = [k \in DOMAIN @ |-> IF @[k] = New THEN c ELSE @[k]]]

CreateDone(i) ==
    /\ saves[i] # NoSave /\ saves[i].id = None
    /\ \E c \in Channels : db[c] = None /\ db' = [db EXCEPT ![c] = Created(c, saves[i].payload)]
    /\ SaveAnswered(i)

\* setattr of every field sent: config is replaced as a whole.
UpdateRow(old, p) == p

\* The rows an update may leave: only columns that differ from the row it read
\* are written, over what the table holds by then.  The values of a field are
\* not told apart but by their owner, so a config may be written either way.
Written(current, read, new) ==
    {[type     |-> IF new.type = read.type THEN current.type ELSE new.type,
      config   |-> c,
      triggers |-> IF new.triggers = read.triggers THEN current.triggers ELSE new.triggers] :
        c \in {new.config} \cup (IF new.config = read.config THEN {current.config} ELSE {})}

\* The SELECT of update_channel, without a lock.
UpdateRead(i) ==
    /\ saves[i] # NoSave /\ saves[i].id # None /\ saves[i].read = None
    /\ Stores(saves[i].id)
    /\ saves' = [saves EXCEPT ![i].read = db[saves[i].id]]
    /\ UNCHANGED <<db, rows, loading, form>>

\* Its flush and commit.
UpdateDone(i) ==
    LET c == saves[i].id
        r == saves[i].read
    IN  /\ r # None /\ Stores(c)
        /\ \E w \in Written(db[c], r, UpdateRow(r, saves[i].payload)) : db' = [db EXCEPT ![c] = w]
        /\ SaveAnswered(i)

\* Refused (a channel that is gone when it is read or written) or lost.
SaveFails(i) ==
    /\ saves[i] # NoSave
    /\ saves' = [saves EXCEPT ![i] = NoSave]
    /\ UNCHANGED <<db, rows, loading, form>>

Delete(c) ==
    /\ rows[c] \notin {None, Deleted} /\ Stores(c)
    /\ db' = [db EXCEPT ![c] = Deleted]
    /\ loading' = TRUE
    /\ UNCHANGED <<rows, form, saves>>

Load ==
    /\ loading
    /\ loading' = FALSE
    /\ rows' \in {rows, db}
    /\ UNCHANGED <<db, form, saves>>

UserStep ==
    \/ OpenNew \/ Cancel \/ EditFields
    \/ \E t \in Triggers : toggleTrigger(t)
    \/ \E c \in Channels : OpenEdit(c) \/ Delete(c)
    \/ \E i \in Slots : Save(i)

SaveStep == \E i \in Slots : CreateDone(i) \/ UpdateRead(i) \/ UpdateDone(i) \/ SaveFails(i)

Leave ==
    /\ form' = BlankForm
    /\ saves' = [i \in Slots |-> [saves[i] EXCEPT !.live = FALSE]]
    /\ loading' = FALSE /\ rows' = [c \in Channels |-> None]
    /\ UNCHANGED db

Mount == loading' = TRUE /\ UNCHANGED <<db, rows, form, saves>>

Form == [show : BOOLEAN, editId : Channels \cup {None}, type : ChannelTypes,
         field : [Fields -> Value], triggers : SUBSET Triggers]
SaveRequest == [id : Channels \cup {None}, payload : Payload, live : BOOLEAN,
                read : Payload \cup {None}]

\* The ranges of the page's state and of the channels.
TypeOK ==
    /\ db \in [Channels -> Payload \cup {None, Deleted}]
    /\ rows \in [Channels -> Payload \cup {None, Deleted}]
    /\ loading \in BOOLEAN
    /\ form \in Form
    /\ saves \in [Slots -> SaveRequest \cup {NoSave}]

\* A channel is created from nothing but what was typed since Add was pressed;
\* an update may carry a field left from the form of another channel
\* (resetForm, openEdit).
FreshAdd == \A i \in Slots : saves[i] # NoSave /\ saves[i].id = None =>
    \A k \in DOMAIN saves[i].payload.config : saves[i].payload.config[k] \in {New, Empty}

\* The update of channel c that ends has read another row than it meets.
Overlaps(c) == \E i \in Slots :
    /\ saves[i].id = c /\ saves[i].read \notin {None, db[c]}
    /\ saves'[i] = NoSave

\* A save leaves a config with the fields of the channel's type, no field of the
\* type it had before, unless it overlapped another update and wrote some of the
\* columns; the next save that overlaps none repairs that (buildConfig and
\* update_channel).
TidySave == \A c \in Channels : Stores(c)' /\ db'[c] # db[c] =>
    DOMAIN db'[c].config = FieldsOf(db'[c].type) \/ Overlaps(c)

\* Opening a channel and saving it untouched changes nothing but its secret,
\* which is lost, and gives a config the fields of its type (openEdit,
\* buildConfig, update_channel).
ReopenedIsSame == \A c \in Channels : Stores(c) =>
    UpdateRow(db[c], BuildPayload(LoadRow(BlankForm, c, db[c]))) =
        [db[c] EXCEPT !.config = [k \in FieldsOf(db[c].type) |->
             IF k \in SecretFields[db[c].type] \/ k \notin DOMAIN @ THEN Empty ELSE @[k]]]
=============================================================================
