---------------------------- MODULE StoragePage ----------------------------
(***************************************************************************)
(* The storage page with its form, its OAuth polling effect and the list   *)
(* it loads (ui/src/app/(app)/storage/page.tsx), against the storage API   *)
(* (api/routers/storage.py) and the OAuth flows it keeps in Redis          *)
(* (api/services/oauth_storage.py).  Requests are steps of their own: the  *)
(* user goes on clicking while saves, polls and flow starts are under way, *)
(* and a late answer meets whatever the page shows by then.                *)
(***************************************************************************)
EXTENDS Integers

CONSTANTS
    Dests,      \* ids of destinations, each used at most once
    Flows,      \* the random state of each OAuth flow, which also names its token
    Workers,    \* uvicorn workers: each serves one token poll at a time
    MaxSaves, MaxClicks,   \* bounds of the model: save requests under way
                           \* together, user actions
    New,        \* owner of what is typed into the form opened by Add
    Empty, None, Deleted

OAuth == {"gdrive", "onedrive"}
Backends == OAuth \cup {"s3"}
Keys == {"secret_key", "client_secret", "token"}
Owners == Dests \cup {New}
Config == [Keys -> Owners \cup Flows \cup {Empty}]
Row == [backend : Backends, config : Config]
Sighting == [dest : Dests, contents : Config]
Slots == 1..MaxSaves

ASSUME StorageAssumption ==
    /\ MaxSaves \in Nat /\ MaxClicks \in Nat
    /\ New \notin Dests
    /\ {New, Empty} \cap Flows = {} /\ Dests \cap Flows = {}
    /\ Empty \notin Owners
    /\ {None, Deleted} \cap (Dests \cup Row \cup Config \cup Sighting) = {} /\ None # Deleted
    /\ None \notin Flows

VARIABLES
    entry,       \* per flow, its Redis key: unissued, pending, token or gone
    exchanging,  \* flows whose callback awaits the provider's token endpoint
    granted,     \* flows whose callback has stored a token
    db,          \* storage_destinations
    rows,        \* the page's list of them
    loading,     \* load() is under way
    form,        \* showForm, editId, backend, the loaded record and the fields
    oauthState, oauthPolling,
    starting,    \* flows whose start request is under way
    windows,     \* flows whose authorization window was opened
    polls,       \* per worker: the poll it serves, with the closure that sent it
    saves,       \* per slot: a create or update request under way, and the row
                 \* an update has read
    clicks

server == <<entry, exchanging, granted, db>>
effect == <<oauthState, oauthPolling>>
vars == <<server, rows, loading, form, effect, starting, windows, polls, saves, clicks>>

NoPoll == [flow |-> None, backend |-> None, phase |-> "idle"]
NoSave == [id |-> None, record |-> None, backend |-> None, config |-> None, read |-> None]
NoSecret == [b \in Backends |-> Empty]
NoToken == [b \in OAuth |-> Empty]
BlankForm == [show |-> FALSE, editId |-> None, record |-> New, backend |-> "s3",
              secret |-> NoSecret, token |-> NoToken]
Exists(d) == db[d] \notin {None, Deleted}
EffectOn == oauthPolling /\ oauthState # Empty

BuildConfig(f) ==
    [secret_key    |-> IF f.backend = "s3" THEN f.secret["s3"] ELSE Empty,
     client_secret |-> IF f.backend \in OAuth THEN f.secret[f.backend] ELSE Empty,
     token         |-> IF f.backend \in OAuth THEN f.token[f.backend] ELSE Empty]

\* Mutant of MergeConfig: the config that is sent replaces the one stored.
MergeReplaces(old, new) == new

\* What update_storage stores: an empty secret keeps the old one, whatever
\* the backend it was for.
MergeConfig(old, new) == [k \in Keys |-> IF new[k] = Empty THEN old[k] ELSE new[k]]

\* The rows an update may leave: only the columns that differ from the row it
\* read are written, over what the table holds by then.  A config has keys
\* besides its secrets, so it may be written for those alone.
Written(current, read, new) ==
    {[backend |-> IF new.backend = read.backend THEN current.backend ELSE new.backend,
      config  |-> c] :
        c \in {new.config} \cup (IF new.config = read.config THEN {current.config} ELSE {})}

\* A destination from before: its secret, and its token if it has one.
StoredRow(b) == [backend |-> b, config |-> BuildConfig([BlankForm EXCEPT
    !.backend = b, !.secret[b] = New, !.token = [c \in OAuth |-> New]])]

Init ==
    /\ entry = [f \in Flows |-> "unissued"]
    /\ exchanging = {} /\ granted = {}
    /\ db \in [Dests -> {None} \cup {StoredRow(b) : b \in Backends}]
    /\ rows = db /\ loading = FALSE
    /\ form = BlankForm
    /\ oauthState = Empty /\ oauthPolling = FALSE
    /\ starting = {} /\ windows = {}
    /\ polls = [w \in Workers |-> NoPoll]
    /\ saves = [i \in Slots |-> NoSave]
    /\ clicks = 0

-----------------------------------------------------------------------------
(* The user: the form.                                                     *)

ResetForm ==
    /\ oauthState' = Empty
    /\ oauthPolling' = FALSE

\* Mutant of OpenNew: the fields of the form shown last stay.
OpenNewKeepsFields ==
    /\ form' = [form EXCEPT !.show = TRUE, !.editId = None, !.record = New]
    /\ UNCHANGED <<server, rows, loading, effect, starting, windows, polls, saves>>

OpenNew ==
    /\ ResetForm
    /\ form' = [BlankForm EXCEPT !.show = TRUE]
    /\ UNCHANGED <<server, rows, loading, starting, windows, polls, saves>>

\* openEdit fills the fields of the row's backend from the page's copy of the
\* row, blanks its secret, and leaves the fields of the other backends and the
\* polling as they are.
EditForm(f, d, r) ==
    [f EXCEPT !.show = TRUE, !.editId = d, !.record = d, !.backend = r.backend,
              !.secret[r.backend] = Empty,
              !.token = [b \in OAuth |-> IF b = r.backend THEN r.config["token"] ELSE @[b]]]

OpenEdit(d) ==
    /\ rows[d] \in Row
    /\ form' = EditForm(form, d, rows[d])
    /\ UNCHANGED <<server, rows, loading, effect, starting, windows, polls, saves>>

\* Mutants of CloseForm: an empty id instead of none; the form stays open.
CloseFormEmptyId(f) == [f EXCEPT !.show = FALSE, !.editId = Empty]
CloseFormStaysOpen(f) == [f EXCEPT !.editId = None]

CloseForm(f) == [f EXCEPT !.show = FALSE, !.editId = None]

Cancel ==
    /\ form.show
    /\ form' = CloseForm(form)
    /\ UNCHANGED <<server, rows, loading, effect, starting, windows, polls, saves>>

SelectBackend(b) ==
    /\ form.show /\ form.backend # b
    /\ form' = [form EXCEPT !.backend = b]
    /\ UNCHANGED <<server, rows, loading, effect, starting, windows, polls, saves>>

TypeSecret ==
    /\ form.show
    /\ form' = [form EXCEPT !.secret[form.backend] =
                    IF form.editId = None THEN New ELSE form.editId]
    /\ UNCHANGED <<server, rows, loading, effect, starting, windows, polls, saves>>

\* handleSave sends what this render shows; the buttons stay enabled.
Save(i) ==
    /\ form.show
    /\ saves[i] = NoSave
    /\ saves' = [saves EXCEPT ![i] = [id |-> form.editId, record |-> form.record,
                     backend |-> form.backend, config |-> BuildConfig(form), read |-> None]]
    /\ UNCHANGED <<server, rows, loading, form, effect, starting, windows, polls>>

\* The answer closes and resets the form that is open by then.
SaveAnswered(i) ==
    /\ saves' = [saves EXCEPT ![i] = NoSave]
    /\ form' = BlankForm
    /\ ResetForm
    /\ loading' = TRUE
    /\ UNCHANGED <<entry, exchanging, granted, rows, starting, windows, polls>>

CreateDone(i) ==
    /\ saves[i] # NoSave /\ saves[i].id = None
    /\ \E d \in Dests :
           /\ db[d] = None
           /\ db' = [db EXCEPT ![d] = [backend |-> saves[i].backend, config |-> saves[i].config]]
    /\ SaveAnswered(i)

\* The SELECT of update_storage, without a lock.
UpdateRead(i) ==
    /\ saves[i] # NoSave /\ saves[i].id # None /\ saves[i].read = None
    /\ Exists(saves[i].id)
    /\ saves' = [saves EXCEPT ![i].read = db[saves[i].id]]
    /\ UNCHANGED <<server, rows, loading, form, effect, starting, windows, polls>>

\* Its flush and commit, of the config merged with the row it read.
UpdateDone(i) ==
    /\ saves[i].read # None /\ Exists(saves[i].id)
    /\ \E r \in Written(db[saves[i].id], saves[i].read,
                 [backend |-> saves[i].backend,
                  config  |-> MergeConfig(saves[i].read.config, saves[i].config)]) :
           db' = [db EXCEPT ![saves[i].id] = r]
    /\ SaveAnswered(i)

\* Refused (a destination that is gone when it is read or written) or lost: the
\* rejection is unhandled.
SaveFails(i) ==
    /\ saves[i] # NoSave
    /\ saves' = [saves EXCEPT ![i] = NoSave]
    /\ UNCHANGED <<server, rows, loading, form, effect, starting, windows, polls>>

Delete(d) ==
    /\ rows[d] \in Row /\ Exists(d)
    /\ db' = [db EXCEPT ![d] = Deleted]
    /\ loading' = TRUE
    /\ UNCHANGED <<entry, exchanging, granted, rows, form, effect, starting, windows, polls, saves>>

Load ==
    /\ loading
    /\ loading' = FALSE
    /\ rows' \in {rows, db}
    /\ UNCHANGED <<server, form, effect, starting, windows, polls, saves>>

-----------------------------------------------------------------------------
(* A flow: authorize, consent, callback.                                   *)

Authorize(f) ==
    /\ form.show /\ form.backend \in OAuth
    /\ form.secret[form.backend] # Empty
    /\ ~oauthPolling
    /\ entry[f] = "unissued" /\ f \notin starting
    /\ starting' = starting \cup {f}
    /\ UNCHANGED <<server, rows, loading, form, effect, windows, polls, saves>>

StartAnswered(f) ==
    /\ f \in starting
    /\ starting' = starting \ {f}
    /\ entry' = [entry EXCEPT ![f] = "pending"]
    /\ oauthState' = f /\ oauthPolling' = TRUE
    /\ windows' = windows \cup {f}
    /\ UNCHANGED <<exchanging, granted, db, rows, loading, form, polls, saves>>

\* Status "error" only; the flow's key may exist and expires unseen.
StartFails(f) ==
    /\ f \in starting
    /\ starting' = starting \ {f}
    /\ entry' = [entry EXCEPT ![f] = "gone"]
    /\ UNCHANGED <<exchanging, granted, db, rows, loading, form, effect, windows, polls, saves>>

Callback(f) ==
    /\ f \in windows \ exchanging
    /\ entry[f] \in {"pending", "token"}
    /\ exchanging' = exchanging \cup {f}
    /\ UNCHANGED <<entry, granted, db, rows, loading, form, effect, starting, windows, polls,
                   saves>>

\* The flow read before the exchange is written back, also over a key that
\* expired or was collected meanwhile.
WriteToken(f) ==
    /\ f \in exchanging
    /\ exchanging' = exchanging \ {f}
    /\ entry' = [entry EXCEPT ![f] = "token"]
    /\ granted' = granted \cup {f}
    /\ UNCHANGED <<db, rows, loading, form, effect, starting, windows, polls, saves>>

ExchangeFails(f) ==
    /\ f \in exchanging
    /\ exchanging' = exchanging \ {f}
    /\ UNCHANGED <<entry, granted, db, rows, loading, form, effect, starting, windows, polls,
                   saves>>

Expire(f) ==
    /\ entry[f] \in {"pending", "token"}
    /\ entry' = [entry EXCEPT ![f] = "gone"]
    /\ UNCHANGED <<exchanging, granted, db, rows, loading, form, effect, starting, windows, polls,
                   saves>>

-----------------------------------------------------------------------------
(* The polling effect: it is torn down and set up again whenever           *)
(* oauthState, oauthPolling or backend changes, timers included.           *)

Poll(w) ==
    /\ EffectOn
    /\ polls[w] = NoPoll
    /\ polls' = [polls EXCEPT ![w] =
                     [flow |-> oauthState, backend |-> form.backend, phase |-> "sent"]]
    /\ UNCHANGED <<server, rows, loading, form, effect, starting, windows, saves>>

\* get_token: "pending" changes nothing on the page.
ReadToken(w) ==
    /\ polls[w].phase = "sent"
    /\ polls' = [polls EXCEPT ![w] = CASE
           entry[polls[w].flow] = "pending" -> NoPoll
        [] entry[polls[w].flow] = "token"   -> [@ EXCEPT !.phase = "read"]
        [] OTHER                            -> [@ EXCEPT !.phase = "expired"]]
    /\ UNCHANGED <<server, rows, loading, form, effect, starting, windows, saves>>

DeleteToken(w) ==
    /\ polls[w].phase = "read"
    /\ entry' = [entry EXCEPT ![polls[w].flow] = "gone"]
    /\ polls' = [polls EXCEPT ![w].phase = "complete"]
    /\ UNCHANGED <<exchanging, granted, db, rows, loading, form, effect, starting, windows, saves>>

\* Mutant of StopPolling: the flow is forgotten, the polling is not ended.
StopPollingHalf == oauthPolling' = oauthPolling /\ oauthState' = Empty

StopPolling == oauthPolling' = FALSE /\ oauthState' = Empty

\* The token goes to the field of the backend the closure remembers.
ReceiveToken(w) ==
    /\ polls[w].phase = "complete"
    /\ form' = [form EXCEPT !.token = [b \in OAuth |->
                    IF b = polls[w].backend THEN polls[w].flow ELSE @[b]]]
    /\ StopPolling
    /\ polls' = [polls EXCEPT ![w] = NoPoll]
    /\ UNCHANGED <<server, rows, loading, starting, windows, saves>>

ReceiveExpired(w) ==
    /\ polls[w].phase = "expired"
    /\ StopPolling
    /\ polls' = [polls EXCEPT ![w] = NoPoll]
    /\ UNCHANGED <<server, rows, loading, form, starting, windows, saves>>

\* The sixth failure in a row of one effect gives up; fewer change nothing.
PollFails(w) ==
    /\ polls[w].phase \in {"sent", "complete", "expired"}
    /\ polls' = [polls EXCEPT ![w] = NoPoll]
    /\ oauthPolling' \in {oauthPolling, FALSE}
    /\ UNCHANGED <<server, rows, loading, form, oauthState, starting, windows, saves>>

PollTimeout ==
    /\ EffectOn
    /\ oauthPolling' = FALSE
    /\ UNCHANGED <<server, rows, loading, form, oauthState, starting, windows, polls, saves>>

-----------------------------------------------------------------------------
UserStep ==
    /\ clicks < MaxClicks /\ clicks' = clicks + 1
    /\ \/ OpenNew \/ Cancel \/ TypeSecret
       \/ \E d \in Dests : OpenEdit(d) \/ Delete(d)
       \/ \E b \in Backends : SelectBackend(b)
       \/ \E f \in Flows : Authorize(f)
       \/ \E i \in Slots : Save(i)

AnswerStep ==
    \/ \E i \in Slots : CreateDone(i) \/ UpdateRead(i) \/ UpdateDone(i) \/ SaveFails(i)
    \/ Load
    \/ \E f \in Flows :
           \/ StartAnswered(f) \/ StartFails(f)
           \/ Callback(f) \/ WriteToken(f) \/ ExchangeFails(f) \/ Expire(f)
    \/ \E w \in Workers :
           \/ Poll(w) \/ ReadToken(w) \/ DeleteToken(w)
           \/ ReceiveToken(w) \/ ReceiveExpired(w) \/ PollFails(w)
    \/ PollTimeout

Next == UserStep \/ (AnswerStep /\ UNCHANGED clicks)

Spec == Init /\ [][Next]_vars

-----------------------------------------------------------------------------
FlowState == {"unissued", "pending", "token", "gone"}
Form == [show : BOOLEAN, editId : Dests \cup {None}, record : Owners, backend : Backends,
         secret : [Backends -> Owners \cup {Empty}],
         token : [OAuth -> Owners \cup Flows \cup {Empty}]]
TokenPoll == [flow : Flows, backend : Backends, phase : {"sent", "read", "complete", "expired"}]
SaveRequest == [id : Dests \cup {None}, record : Owners, backend : Backends,
                config : Config, read : Row \cup {None}]

\* The ranges of the page's state, of the flows and of the destinations.
TypeOK ==
    /\ entry \in [Flows -> FlowState]
    /\ exchanging \subseteq Flows /\ granted \subseteq Flows
    /\ db \in [Dests -> Row \cup {None, Deleted}]
    /\ rows \in [Dests -> Row \cup {None, Deleted}]
    /\ loading \in BOOLEAN
    /\ form \in Form
    /\ oauthState \in Flows \cup {Empty} /\ oauthPolling \in BOOLEAN
    /\ starting \subseteq Flows /\ windows \subseteq Flows
    /\ polls \in [Workers -> TokenPoll \cup {NoPoll}]
    /\ saves \in [Slots -> SaveRequest \cup {NoSave}]
    /\ clicks \in 0..MaxClicks

\* While the page says it waits for a token, the polling effect runs, whose
\* timers end the wait: setting oauthState and oauthPolling apart, by two
\* overlapping flows, saves and polls, never leaves a spinner nobody stops
\* (storage/page.tsx:62-90).
SpinnerHasTimer == oauthPolling => EffectOn

\* A form, and every request sent from one, writes the record its fields were
\* loaded from, also when the answer to an earlier save closes a form opened
\* since (openNew, openEdit, handleSave).
RightRecord ==
    /\ form.show => form.record = IF form.editId = None THEN New ELSE form.editId
    /\ \A i \in Slots : saves[i] # NoSave =>
           saves[i].record = IF saves[i].id = None THEN New ELSE saves[i].id

\* A destination is created from no secret typed into the form of another one;
\* an update may carry one, and a late poll may bring a token of another form
\* (resetForm, openEdit).
FreshAdd == \A i \in Slots : saves[i] # NoSave /\ saves[i].id = None =>
    \A k \in {"secret_key", "client_secret"} : saves[i].config[k] \in {New, Empty}

\* A secret that is stored stays, whatever is saved with the field left empty,
\* as the page tells the user below it (secretInput, update_storage).  Two
\* overlapping updates break it.
SecretsKept == [][\A d \in Dests, k \in Keys :
    Exists(d) /\ db[d].config[k] # Empty /\ Exists(d)' => db'[d].config[k] # Empty]_db

\* The secrets of the destinations are the vault, and those an update has read
\* what an edit has seen; blank fields, flows that overlap and answers out of
\* order are what the vault knows nothing of.
Held == [d \in Dests |-> IF Exists(d) THEN db[d].config ELSE db[d]]
Seen == [i \in Slots |-> IF saves[i].read = None THEN None
                         ELSE [dest |-> saves[i].id, contents |-> saves[i].read.config]]

Vault == INSTANCE SecretVault WITH
    Secrets <- Owners, Edits <- Slots, vault <- Held, seen <- Seen

\* The storage page and its API implement the vault: an update blanks no secret
\* that was stored when it read the row, so that a secret is lost only to an
\* update that had read the row before the secret was stored; no deleted
\* destination returns, and a token is stored only after its flow was granted
\* (update_storage, handle_callback, get_token).
SecretsSurvive == Vault!VaultSpec

=============================================================================
