------------------------- MODULE StoragePageProofs -------------------------
(***************************************************************************)
(* The storage page for any number of destinations, flows, workers and     *)
(* requests under way: its form and its requests write the record they     *)
(* were filled from, and the page with its API implements SecretVault.     *)
(* The refinement rests on where a token may be found (Tokens): wherever   *)
(* the page, a request or the table holds the token of a flow, the         *)
(* callback of that flow has stored it.                                    *)
(***************************************************************************)
EXTENDS StoragePage, TLAPS

\* A form opened by Add holds no secret typed into another one.
FreshForm == form.show /\ form.editId = None => \A b \in Backends : form.secret[b] \in {New, Empty}

Forms == SpinnerHasTimer /\ RightRecord /\ FreshForm /\ FreshAdd

\* Only an update reads a row.
Reads == \A i \in Slots : saves[i].read # None => saves[i].id \in Dests

\* No token in it but those of flows that were granted.
Clean(c) == \A k \in Keys : c[k] \in Owners \cup granted \cup {Empty}

Tokens ==
    /\ \A f \in Flows : entry[f] = "token" => f \in granted
    /\ \A w \in Workers : polls[w].phase \in {"read", "complete"} => polls[w].flow \in granted
    /\ \A b \in OAuth : form.token[b] \in Owners \cup granted \cup {Empty}
    /\ \A d \in Dests : rows[d] \in Row => Clean(rows[d].config)
    /\ \A d \in Dests : db[d] \in Row => Clean(db[d].config)
    /\ \A i \in Slots : saves[i] # NoSave => Clean(saves[i].config)
    /\ \A i \in Slots : saves[i].read # None => Clean(saves[i].read.config)

IInv == TypeOK /\ Forms /\ Reads /\ Tokens

\* A form's secrets and tokens make a config.
LEMMA BuildConfigType == ASSUME NEW f \in Form PROVE BuildConfig(f) \in Config
BY DEF BuildConfig, Form, Config, Keys, OAuth, Backends, Owners

\* So does a config merged with another one.
LEMMA MergeConfigType ==
    ASSUME NEW old \in Config, NEW new \in Config
    PROVE  MergeConfig(old, new) \in Config
BY DEF MergeConfig, Config

\* An update leaves a row whose config is the merged one or the one it found.
LEMMA WrittenRow ==
    ASSUME NEW current \in Row, NEW read \in Row, NEW new \in Row,
           NEW r \in Written(current, read, new)
    PROVE  r \in Row /\ r.config \in {new.config, current.config}
BY DEF Written, Row

\* The form a page starts with.
LEMMA BlankFormType == BlankForm \in Form
BY StorageAssumption DEF BlankForm, Form, NoSecret, NoToken, Backends, OAuth, Owners

\* A destination from before is a row without a flow's token.
LEMMA StoredRowType ==
    ASSUME NEW b \in Backends
    PROVE  /\ StoredRow(b) \in Row
           /\ \A k \in Keys : StoredRow(b).config[k] \in {New, Empty}
<1> DEFINE f == [BlankForm EXCEPT !.backend = b, !.secret[b] = New,
                                  !.token = [c \in OAuth |-> New]]
<1>1. /\ f.backend = b
      /\ \A c \in Backends : f.secret[c] \in {New, Empty}
      /\ \A c \in OAuth : f.token[c] = New
  BY DEF BlankForm, NoSecret
<1>2. StoredRow(b) = [backend |-> b, config |-> BuildConfig(f)]
  BY DEF StoredRow
<1> HIDE DEF f
<1>3. /\ BuildConfig(f) \in [Keys -> {New, Empty}]
  BY <1>1 DEF BuildConfig, Keys, Backends, OAuth
<1> QED BY <1>2, <1>3 DEF Row, Config, Owners, Backends, OAuth

\* The invariant holds when the page is opened.
LEMMA Initial == Init => IInv
<1> SUFFICES ASSUME Init PROVE IInv
  OBVIOUS
<1> USE StorageAssumption
<1>1. /\ db \in [Dests -> Row \cup {None, Deleted}]
      /\ \A d \in Dests : db[d] \in Row => \A k \in Keys : db[d].config[k] \in {New, Empty}
  BY StoredRowType DEF Init
<1>2. entry \in [Flows -> FlowState]
  BY DEF Init, FlowState
<1>3. /\ polls \in [Workers -> TokenPoll \cup {NoPoll}]
      /\ saves \in [Slots -> SaveRequest \cup {NoSave}]
  BY DEF Init
<1>4. TypeOK
  <2>1. clicks \in 0..MaxClicks
    BY DEF Init
  <2>2. /\ exchanging \subseteq Flows /\ granted \subseteq Flows
        /\ starting \subseteq Flows /\ windows \subseteq Flows
        /\ rows = db /\ loading \in BOOLEAN
        /\ oauthState \in Flows \cup {Empty} /\ oauthPolling \in BOOLEAN
        /\ form \in Form
    BY BlankFormType DEF Init
  <2> QED BY <1>1, <1>2, <1>3, <2>1, <2>2 DEF TypeOK
<1>5. Forms
  BY DEF Init, Forms, SpinnerHasTimer, RightRecord, FreshForm, FreshAdd, BlankForm, NoSecret, NoSave
<1>6. Tokens
  BY <1>1 DEF Init, Tokens, Clean, BlankForm, NoToken, NoPoll, NoSave, Owners
<1>7. Reads
  BY DEF Init, Reads, NoSave
<1> QED BY <1>4, <1>5, <1>6, <1>7 DEF IInv

\* What an update makes of its destination: all secrets it had read are there.
LEMMA UpdatedRow ==
    ASSUME TypeOK, Reads, NEW i \in Slots, UpdateDone(i)
    PROVE  /\ saves[i].id \in Dests /\ Exists(saves[i].id) /\ saves[i] \in SaveRequest
           /\ saves[i].read \in Row
           /\ \E r \in Row :
                  /\ db' = [db EXCEPT ![saves[i].id] = r]
                  /\ r.config \in {MergeConfig(saves[i].read.config, saves[i].config),
                                   db[saves[i].id].config}
<1>1. /\ saves[i] \in SaveRequest /\ saves[i].read \in Row
      /\ saves[i].id \in Dests /\ Exists(saves[i].id)
  BY StorageAssumption DEF UpdateDone, TypeOK, NoSave, SaveRequest, Reads
<1>2. db[saves[i].id] \in Row
  BY <1>1 DEF Exists, TypeOK
<1> DEFINE new == [backend |-> saves[i].backend,
                   config  |-> MergeConfig(saves[i].read.config, saves[i].config)]
<1>3. new \in Row
  BY <1>1, MergeConfigType DEF SaveRequest, Row
<1>4. new.config = MergeConfig(saves[i].read.config, saves[i].config)
  OBVIOUS
<1>5. PICK r \in Written(db[saves[i].id], saves[i].read, new) : db' = [db EXCEPT ![saves[i].id] = r]
  BY DEF UpdateDone
<1> HIDE DEF new
<1>6. r \in Row /\ r.config \in {new.config, db[saves[i].id].config}
  BY <1>1, <1>2, <1>3, <1>5, WrittenRow
<1> QED BY <1>1, <1>4, <1>5, <1>6

\* The ranges are kept by every step.
LEMMA TypeStep == TypeOK /\ Reads /\ [Next]_vars => TypeOK'
<1> SUFFICES ASSUME TypeOK, Reads, [Next]_vars PROVE TypeOK'
  OBVIOUS
<1> USE StorageAssumption
<1>0. clicks' \in 0..MaxClicks
  BY DEF TypeOK, Next, UserStep, vars
<1>1. ASSUME OpenNew PROVE TypeOK'
  BY <1>1, <1>0, BlankFormType DEF OpenNew, TypeOK, server, effect, ResetForm, Form
<1>2. ASSUME Cancel PROVE TypeOK'
  BY <1>2, <1>0 DEF Cancel, TypeOK, server, effect, CloseForm, Form
<1>3. ASSUME TypeSecret PROVE TypeOK'
  BY <1>3, <1>0 DEF TypeSecret, TypeOK, server, effect, Form, Owners
<1>4. ASSUME NEW d \in Dests, OpenEdit(d) PROVE TypeOK'
  <2>1. rows[d] \in Row
    BY <1>4 DEF OpenEdit
  <2>2. EditForm(form, d, rows[d]) \in Form
    <3> DEFINE r == rows[d]
    <3>1. /\ form \in Form /\ r.backend \in Backends
          /\ r.config["token"] \in Owners \cup Flows \cup {Empty}
      BY <2>1 DEF TypeOK, Row, Config, Keys
    <3> QED BY <3>1 DEF EditForm, Form, Owners
  <2> QED BY <1>0, <1>4, <2>2 DEF OpenEdit, TypeOK, server, effect
<1>5. ASSUME NEW d \in Dests, Delete(d) PROVE TypeOK'
  BY <1>5, <1>0 DEF Delete, TypeOK, server, effect
<1>6. ASSUME NEW b \in Backends, SelectBackend(b) PROVE TypeOK'
  BY <1>6, <1>0 DEF SelectBackend, TypeOK, server, effect, Form
<1>7. ASSUME NEW f \in Flows, Authorize(f) PROVE TypeOK'
  BY <1>7, <1>0 DEF Authorize, TypeOK, server, effect
<1>8. ASSUME NEW i \in Slots, Save(i) PROVE TypeOK'
  <2>1. BuildConfig(form) \in Config
    BY BuildConfigType DEF TypeOK
  <2>2. [id |-> form.editId, record |-> form.record, backend |-> form.backend,
         config |-> BuildConfig(form), read |-> None] \in SaveRequest
    BY <2>1 DEF TypeOK, Form, SaveRequest
  <2> QED BY <1>0, <1>8, <2>2 DEF Save, TypeOK, server, effect
<1>9. ASSUME NEW i \in Slots, CreateDone(i) PROVE TypeOK'
  <2>1. saves[i] \in SaveRequest
    BY <1>9 DEF CreateDone, TypeOK
  <2>2. [backend |-> saves[i].backend, config |-> saves[i].config] \in Row
    BY <2>1 DEF SaveRequest, Row
  <2>3. PICK d \in Dests : db' = [db EXCEPT ![d] =
            [backend |-> saves[i].backend, config |-> saves[i].config]]
    BY <1>9 DEF CreateDone
  <2>4. db' \in [Dests -> Row \cup {None, Deleted}]
    BY <2>2, <2>3 DEF TypeOK
  <2> QED BY <1>0, <1>9, <2>4, BlankFormType
             DEF CreateDone, SaveAnswered, ResetForm, TypeOK
<1>10. ASSUME NEW i \in Slots, UpdateDone(i) PROVE TypeOK'
  <2>1. PICK d \in Dests, r \in Row : db' = [db EXCEPT ![d] = r]
    BY <1>10, UpdatedRow
  <2>2. db' \in [Dests -> Row \cup {None, Deleted}]
    BY <2>1 DEF TypeOK
  <2> QED BY <1>0, <1>10, <2>2, BlankFormType DEF UpdateDone, SaveAnswered, ResetForm, TypeOK
<1>11. ASSUME NEW i \in Slots, SaveFails(i) PROVE TypeOK'
  BY <1>11, <1>0 DEF SaveFails, TypeOK, server, effect
<1>12. ASSUME Load PROVE TypeOK'
  BY <1>12, <1>0 DEF Load, TypeOK, server, effect
<1>13. ASSUME NEW f \in Flows, StartAnswered(f) PROVE TypeOK'
  BY <1>13, <1>0 DEF StartAnswered, TypeOK, server, effect, FlowState
<1>14. ASSUME NEW f \in Flows, StartFails(f) PROVE TypeOK'
  BY <1>14, <1>0 DEF StartFails, TypeOK, server, effect, FlowState
<1>15. ASSUME NEW f \in Flows, Callback(f) PROVE TypeOK'
  BY <1>15, <1>0 DEF Callback, TypeOK, server, effect
<1>16. ASSUME NEW f \in Flows, WriteToken(f) PROVE TypeOK'
  BY <1>16, <1>0 DEF WriteToken, TypeOK, server, effect, FlowState
<1>17. ASSUME NEW f \in Flows, ExchangeFails(f) PROVE TypeOK'
  BY <1>17, <1>0 DEF ExchangeFails, TypeOK, server, effect
<1>18. ASSUME NEW f \in Flows, Expire(f) PROVE TypeOK'
  BY <1>18, <1>0 DEF Expire, TypeOK, server, effect, FlowState
<1>19. ASSUME NEW w \in Workers, Poll(w) PROVE TypeOK'
  BY <1>19, <1>0 DEF Poll, TypeOK, server, effect, TokenPoll, EffectOn, Form
<1>20. ASSUME NEW w \in Workers, ReadToken(w) PROVE TypeOK'
  <2>1. polls[w] \in TokenPoll
    BY <1>20 DEF ReadToken, TypeOK, NoPoll
  <2>2. /\ [polls[w] EXCEPT !.phase = "read"] \in TokenPoll
        /\ [polls[w] EXCEPT !.phase = "expired"] \in TokenPoll
    BY <2>1 DEF TokenPoll
  <2> QED BY <1>0, <1>20, <2>2 DEF ReadToken, TypeOK, server, effect
<1>21. ASSUME NEW w \in Workers, DeleteToken(w) PROVE TypeOK'
  <2>1. polls[w] \in TokenPoll
    BY <1>21 DEF DeleteToken, TypeOK, NoPoll
  <2>2. [polls[w] EXCEPT !.phase = "complete"] \in TokenPoll
    BY <2>1 DEF TokenPoll
  <2> QED BY <1>0, <1>21, <2>2 DEF DeleteToken, TypeOK, effect, FlowState
<1>22. ASSUME NEW w \in Workers, ReceiveToken(w) PROVE TypeOK'
  <2>1. polls[w] \in TokenPoll
    BY <1>22 DEF ReceiveToken, TypeOK, NoPoll
  <2> QED BY <1>0, <1>22, <2>1
             DEF ReceiveToken, StopPolling, TypeOK, server, TokenPoll, Form
<1>23. ASSUME NEW w \in Workers, ReceiveExpired(w) PROVE TypeOK'
  BY <1>23, <1>0 DEF ReceiveExpired, TypeOK, server, effect, StopPolling
<1>24. ASSUME NEW w \in Workers, PollFails(w) PROVE TypeOK'
  BY <1>24, <1>0 DEF PollFails, TypeOK, server, effect
<1>25. ASSUME PollTimeout PROVE TypeOK'
  BY <1>25, <1>0 DEF PollTimeout, TypeOK, server, effect
<1>27. ASSUME NEW i \in Slots, UpdateRead(i) PROVE TypeOK'
  <2>1. saves[i] \in SaveRequest /\ db[saves[i].id] \in Row
    BY <1>27 DEF UpdateRead, Exists, TypeOK, SaveRequest
  <2>2. [saves[i] EXCEPT !.read = db[saves[i].id]] \in SaveRequest
    BY <2>1 DEF SaveRequest
  <2> QED BY <1>0, <1>27, <2>2 DEF UpdateRead, TypeOK, server, effect
<1>26. CASE UNCHANGED vars
  BY <1>26, <1>0 DEF vars, TypeOK, server, effect
<1> QED
  BY <1>1, <1>2, <1>3, <1>4, <1>5, <1>6, <1>7, <1>8, <1>9, <1>10, <1>11,
     <1>12, <1>13, <1>14, <1>15, <1>16, <1>17, <1>18, <1>19, <1>20, <1>21,
     <1>22, <1>23, <1>24, <1>25, <1>26, <1>27
     DEF Next, UserStep, AnswerStep

\* So is what the forms and the requests sent from them say.
LEMMA FormsStep == TypeOK /\ Forms /\ [Next]_vars => Forms'
<1> SUFFICES ASSUME TypeOK, Forms, [Next]_vars PROVE Forms'
  OBVIOUS
<1> USE StorageAssumption
<1>1. ASSUME OpenNew PROVE Forms'
  BY <1>1
     DEF OpenNew, Forms, SpinnerHasTimer, EffectOn, RightRecord, FreshForm, FreshAdd,
         ResetForm, BlankForm, NoSecret
<1>2. ASSUME Cancel PROVE Forms'
  BY <1>2
     DEF Cancel, Forms, SpinnerHasTimer, EffectOn, RightRecord, FreshForm, FreshAdd,
         CloseForm, effect
<1>3. ASSUME TypeSecret PROVE Forms'
  BY <1>3
     DEF TypeSecret, Forms, SpinnerHasTimer, EffectOn, RightRecord, FreshForm, FreshAdd,
         effect, TypeOK, Form
<1>4. ASSUME NEW d \in Dests, OpenEdit(d) PROVE Forms'
  BY <1>4
     DEF OpenEdit, Forms, SpinnerHasTimer, EffectOn, RightRecord, FreshForm, FreshAdd,
         EditForm, effect, TypeOK, Form
<1>5. ASSUME NEW d \in Dests, Delete(d) PROVE Forms'
  BY <1>5
     DEF Delete, Forms, SpinnerHasTimer, EffectOn, RightRecord, FreshForm, FreshAdd,
         effect
<1>6. ASSUME NEW b \in Backends, SelectBackend(b) PROVE Forms'
  BY <1>6
     DEF SelectBackend, Forms, SpinnerHasTimer, EffectOn, RightRecord, FreshForm,
         FreshAdd, effect, TypeOK, Form
<1>7. ASSUME NEW f \in Flows, Authorize(f) PROVE Forms'
  BY <1>7
     DEF Authorize, Forms, SpinnerHasTimer, EffectOn, RightRecord, FreshForm, FreshAdd,
         effect
<1>8. ASSUME NEW i \in Slots, Save(i) PROVE Forms'
  BY <1>8
     DEF Save, Forms, SpinnerHasTimer, EffectOn, RightRecord, FreshForm, FreshAdd,
         effect, BuildConfig, TypeOK, Form, OAuth, Backends
<1>9. ASSUME NEW i \in Slots, CreateDone(i) PROVE Forms'
  BY <1>9
     DEF CreateDone, Forms, SpinnerHasTimer, EffectOn, RightRecord, FreshForm, FreshAdd,
         SaveAnswered, ResetForm, BlankForm, TypeOK
<1>10. ASSUME NEW i \in Slots, UpdateDone(i) PROVE Forms'
  BY <1>10
     DEF UpdateDone, Forms, SpinnerHasTimer, EffectOn, RightRecord, FreshForm, FreshAdd,
         SaveAnswered, ResetForm, BlankForm, TypeOK
<1>11. ASSUME NEW i \in Slots, SaveFails(i) PROVE Forms'
  BY <1>11
     DEF SaveFails, Forms, SpinnerHasTimer, EffectOn, RightRecord, FreshForm, FreshAdd,
         effect, TypeOK
<1>12. ASSUME Load PROVE Forms'
  BY <1>12
     DEF Load, Forms, SpinnerHasTimer, EffectOn, RightRecord, FreshForm, FreshAdd,
         effect
<1>13. ASSUME NEW f \in Flows, StartAnswered(f) PROVE Forms'
  BY <1>13
     DEF StartAnswered, Forms, SpinnerHasTimer, EffectOn, RightRecord, FreshForm,
         FreshAdd, effect
<1>14. ASSUME NEW f \in Flows, StartFails(f) PROVE Forms'
  BY <1>14
     DEF StartFails, Forms, SpinnerHasTimer, EffectOn, RightRecord, FreshForm, FreshAdd,
         effect
<1>15. ASSUME NEW f \in Flows, Callback(f) PROVE Forms'
  BY <1>15
     DEF Callback, Forms, SpinnerHasTimer, EffectOn, RightRecord, FreshForm, FreshAdd,
         effect
<1>16. ASSUME NEW f \in Flows, WriteToken(f) PROVE Forms'
  BY <1>16
     DEF WriteToken, Forms, SpinnerHasTimer, EffectOn, RightRecord, FreshForm, FreshAdd,
         effect
<1>17. ASSUME NEW f \in Flows, ExchangeFails(f) PROVE Forms'
  BY <1>17
     DEF ExchangeFails, Forms, SpinnerHasTimer, EffectOn, RightRecord, FreshForm,
         FreshAdd, effect
<1>18. ASSUME NEW f \in Flows, Expire(f) PROVE Forms'
  BY <1>18
     DEF Expire, Forms, SpinnerHasTimer, EffectOn, RightRecord, FreshForm, FreshAdd,
         effect
<1>19. ASSUME NEW w \in Workers, Poll(w) PROVE Forms'
  BY <1>19
     DEF Poll, Forms, SpinnerHasTimer, EffectOn, RightRecord, FreshForm, FreshAdd,
         effect
<1>20. ASSUME NEW w \in Workers, ReadToken(w) PROVE Forms'
  BY <1>20
     DEF ReadToken, Forms, SpinnerHasTimer, EffectOn, RightRecord, FreshForm, FreshAdd,
         effect
<1>21. ASSUME NEW w \in Workers, DeleteToken(w) PROVE Forms'
  BY <1>21
     DEF DeleteToken, Forms, SpinnerHasTimer, EffectOn, RightRecord, FreshForm,
         FreshAdd, effect
<1>22. ASSUME NEW w \in Workers, ReceiveToken(w) PROVE Forms'
  BY <1>22
     DEF ReceiveToken, Forms, SpinnerHasTimer, EffectOn, RightRecord, FreshForm,
         FreshAdd, StopPolling, TypeOK, Form
<1>23. ASSUME NEW w \in Workers, ReceiveExpired(w) PROVE Forms'
  BY <1>23
     DEF ReceiveExpired, Forms, SpinnerHasTimer, EffectOn, RightRecord, FreshForm,
         FreshAdd, StopPolling
<1>24. ASSUME NEW w \in Workers, PollFails(w) PROVE Forms'
  <2>1. SpinnerHasTimer'
    <3>1. CASE oauthPolling' = FALSE
      BY <3>1 DEF SpinnerHasTimer
    <3>2. CASE oauthPolling' = oauthPolling
      BY <1>24, <3>2 DEF PollFails, Forms, SpinnerHasTimer, EffectOn
    <3> QED BY <1>24, <3>1, <3>2 DEF PollFails
  <2> QED BY <1>24, <2>1 DEF PollFails, Forms, RightRecord, FreshForm, FreshAdd
<1>25. ASSUME PollTimeout PROVE Forms'
  BY <1>25
     DEF PollTimeout, Forms, SpinnerHasTimer, EffectOn, RightRecord, FreshForm,
         FreshAdd, effect
<1>27. ASSUME NEW i \in Slots, UpdateRead(i) PROVE Forms'
  <2>1. saves[i] \in SaveRequest
    BY <1>27 DEF UpdateRead, TypeOK
  <2> QED BY <1>27, <2>1
          DEF UpdateRead, Forms, SpinnerHasTimer, EffectOn, RightRecord, FreshForm,
              FreshAdd, effect, TypeOK, SaveRequest
<1>26. CASE UNCHANGED vars
  BY <1>26
     DEF vars, Forms, SpinnerHasTimer, EffectOn, RightRecord, FreshForm, FreshAdd,
         effect
<1> QED
  BY <1>1, <1>2, <1>3, <1>4, <1>5, <1>6, <1>7, <1>8, <1>9, <1>10, <1>11,
     <1>12, <1>13, <1>14, <1>15, <1>16, <1>17, <1>18, <1>19, <1>20, <1>21,
     <1>22, <1>23, <1>24, <1>25, <1>26, <1>27
     DEF Next, UserStep, AnswerStep

\* And where a token may be found.
LEMMA TokensStep == TypeOK /\ Reads /\ Tokens /\ [Next]_vars => Tokens'
<1> SUFFICES ASSUME TypeOK, Reads, Tokens, [Next]_vars PROVE Tokens'
  OBVIOUS
<1> USE StorageAssumption
<1>1. ASSUME OpenNew PROVE Tokens'
  BY <1>1 DEF OpenNew, Tokens, Clean, server, BlankForm, NoToken
<1>2. ASSUME Cancel PROVE Tokens'
  BY <1>2 DEF Cancel, Tokens, Clean, server, CloseForm
<1>3. ASSUME TypeSecret PROVE Tokens'
  BY <1>3 DEF TypeSecret, Tokens, Clean, server, TypeOK
<1>4. ASSUME NEW d \in Dests, OpenEdit(d) PROVE Tokens'
  <2>1. \A b \in OAuth : form'.token[b] \in Owners \cup granted \cup {Empty}
    <3>1. rows[d] \in Row /\ rows[d].config["token"] \in Owners \cup granted \cup {Empty}
      BY <1>4 DEF OpenEdit, Tokens, Clean, Keys
    <3>2. form' = EditForm(form, d, rows[d])
      BY <1>4 DEF OpenEdit
    <3> QED BY <3>1, <3>2 DEF EditForm, TypeOK, Form, Tokens
  <2> QED BY <1>4, <2>1 DEF OpenEdit, server, Tokens, Clean
<1>5. ASSUME NEW d \in Dests, Delete(d) PROVE Tokens'
  BY <1>5 DEF Delete, Tokens, Clean, server, TypeOK
<1>6. ASSUME NEW b \in Backends, SelectBackend(b) PROVE Tokens'
  BY <1>6 DEF SelectBackend, Tokens, Clean, server, TypeOK
<1>7. ASSUME NEW f \in Flows, Authorize(f) PROVE Tokens'
  BY <1>7 DEF Authorize, Tokens, Clean, server, TypeOK
<1>8. ASSUME NEW i \in Slots, Save(i) PROVE Tokens'
  <2>1. Clean(BuildConfig(form))
    BY DEF Tokens, Clean, BuildConfig, TypeOK, Form, OAuth, Backends, Keys
  <2> QED BY <1>8, <2>1 DEF Save, server, Tokens, Clean, TypeOK
<1>9. ASSUME NEW i \in Slots, CreateDone(i) PROVE Tokens'
  <2>1. \A j \in Slots : saves'[j] = IF j = i THEN NoSave ELSE saves[j]
    BY <1>9 DEF CreateDone, SaveAnswered, TypeOK
  <2>2. (\A j \in Slots : saves[j].read # None => Clean(saves[j].read.config))'
    BY <1>9, <2>1 DEF CreateDone, SaveAnswered, NoSave, Tokens, Clean
  <2> QED BY <1>9, <2>1, <2>2
             DEF CreateDone, Tokens, Clean, SaveAnswered, BlankForm, NoToken, TypeOK
<1>10. ASSUME NEW i \in Slots, UpdateDone(i) PROVE Tokens'
  <2>1. PICK d \in Dests, r \in Row :
            /\ d = saves[i].id /\ db[d] \in Row /\ db' = [db EXCEPT ![d] = r]
            /\ r.config \in {MergeConfig(saves[i].read.config, saves[i].config), db[d].config}
    BY <1>10, UpdatedRow DEF Exists, TypeOK
  <2>2. Clean(MergeConfig(saves[i].read.config, saves[i].config))
    BY <1>10, UpdatedRow DEF UpdateDone, NoSave, Tokens, Clean, MergeConfig
  <2>3. Clean(r.config)
    BY <2>1, <2>2 DEF Tokens
  <2> QED BY <1>10, <2>1, <2>3
             DEF UpdateDone, SaveAnswered, Tokens, Clean, BlankForm, NoToken, NoSave, TypeOK
<1>11. ASSUME NEW i \in Slots, SaveFails(i) PROVE Tokens'
  BY <1>11 DEF SaveFails, Tokens, Clean, server, NoSave, TypeOK
<1>12. ASSUME Load PROVE Tokens'
  BY <1>12 DEF Load, Tokens, Clean, server, TypeOK
<1>13. ASSUME NEW f \in Flows, StartAnswered(f) PROVE Tokens'
  BY <1>13 DEF StartAnswered, Tokens, Clean, server, TypeOK
<1>14. ASSUME NEW f \in Flows, StartFails(f) PROVE Tokens'
  BY <1>14 DEF StartFails, Tokens, Clean, server, TypeOK
<1>15. ASSUME NEW f \in Flows, Callback(f) PROVE Tokens'
  BY <1>15 DEF Callback, Tokens, Clean, server, TypeOK
<1>16. ASSUME NEW f \in Flows, WriteToken(f) PROVE Tokens'
  BY <1>16 DEF WriteToken, Tokens, Clean, server, TypeOK
<1>17. ASSUME NEW f \in Flows, ExchangeFails(f) PROVE Tokens'
  BY <1>17 DEF ExchangeFails, Tokens, Clean, server, TypeOK
<1>18. ASSUME NEW f \in Flows, Expire(f) PROVE Tokens'
  BY <1>18 DEF Expire, Tokens, Clean, server, TypeOK
<1>19. ASSUME NEW w \in Workers, Poll(w) PROVE Tokens'
  BY <1>19 DEF Poll, Tokens, Clean, server, TypeOK
<1>20. ASSUME NEW w \in Workers, ReadToken(w) PROVE Tokens'
  BY <1>20 DEF ReadToken, Tokens, Clean, server, TypeOK, NoPoll, TokenPoll
<1>21. ASSUME NEW w \in Workers, DeleteToken(w) PROVE Tokens'
  BY <1>21 DEF DeleteToken, Tokens, Clean, server, TypeOK
<1>22. ASSUME NEW w \in Workers, ReceiveToken(w) PROVE Tokens'
  BY <1>22 DEF ReceiveToken, Tokens, Clean, server, TypeOK, Form, NoPoll
<1>23. ASSUME NEW w \in Workers, ReceiveExpired(w) PROVE Tokens'
  BY <1>23 DEF ReceiveExpired, Tokens, Clean, server, TypeOK, NoPoll
<1>24. ASSUME NEW w \in Workers, PollFails(w) PROVE Tokens'
  BY <1>24 DEF PollFails, Tokens, Clean, server, TypeOK, NoPoll
<1>25. ASSUME PollTimeout PROVE Tokens'
  BY <1>25 DEF PollTimeout, Tokens, Clean, server, TypeOK
<1>27. ASSUME NEW i \in Slots, UpdateRead(i) PROVE Tokens'
  <2>1. saves[i] \in SaveRequest /\ db[saves[i].id] \in Row /\ saves[i].id \in Dests
    BY <1>27 DEF UpdateRead, Exists, TypeOK, SaveRequest
  <2>2. \A j \in Slots : /\ saves'[j] # NoSave => saves[j] # NoSave
                         /\ saves'[j].config = saves[j].config
                         /\ saves'[j].read = IF j = i THEN db[saves[i].id] ELSE saves[j].read
    BY <1>27, <2>1 DEF UpdateRead, TypeOK, SaveRequest
  <2>3. \A j \in Slots : saves'[j].read # None => Clean(saves'[j].read.config)
    BY <2>1, <2>2 DEF Tokens
  <2> QED BY <1>27, <2>2, <2>3 DEF UpdateRead, Tokens, Clean, server
<1>26. CASE UNCHANGED vars
  BY <1>26 DEF vars, Tokens, Clean, server
<1> QED
  BY <1>1, <1>2, <1>3, <1>4, <1>5, <1>6, <1>7, <1>8, <1>9, <1>10, <1>11,
     <1>12, <1>13, <1>14, <1>15, <1>16, <1>17, <1>18, <1>19, <1>20, <1>21,
     <1>22, <1>23, <1>24, <1>25, <1>26, <1>27
     DEF Next, UserStep, AnswerStep

\* And that only updates have read a row.
LEMMA ReadsStep == TypeOK /\ Reads /\ [Next]_vars => Reads'
<1> SUFFICES ASSUME TypeOK, Reads, [Next]_vars PROVE Reads'
  OBVIOUS
<1>1. CASE UNCHANGED saves
  BY <1>1 DEF Reads
<1>2. ASSUME NEW i \in Slots, Save(i) PROVE Reads'
  BY <1>2 DEF Save, Reads, TypeOK
<1>3. ASSUME NEW i \in Slots, UpdateRead(i) PROVE Reads'
  BY <1>3 DEF UpdateRead, Reads, TypeOK, SaveRequest
<1>4. ASSUME NEW i \in Slots, saves' = [saves EXCEPT ![i] = NoSave] PROVE Reads'
  BY <1>4 DEF Reads, TypeOK, NoSave
<1> QED BY <1>1, <1>2, <1>3, <1>4
        DEF Next, UserStep, AnswerStep, vars, OpenNew, Cancel, TypeSecret, OpenEdit, Delete,
            SelectBackend, Authorize, CreateDone, UpdateDone, SaveFails, SaveAnswered, Load,
            StartAnswered, StartFails, Callback, WriteToken, ExchangeFails, Expire, Poll,
            ReadToken, DeleteToken, ReceiveToken, ReceiveExpired, PollFails, PollTimeout

\* Every step keeps the invariant.
LEMMA Step == IInv /\ [Next]_vars => IInv'
BY TypeStep, FormsStep, TokensStep, ReadsStep DEF IInv

\* Every reachable state of the storage page is well typed.
THEOREM TypeCorrect == Spec => []TypeOK
<1>1. IInv => TypeOK
  BY DEF IInv
<1> QED BY Initial, Step, <1>1, PTL DEF Spec

\* Two overlapping flows, saves and polls never leave the page waiting for a
\* token without the effect that ends the wait.
THEOREM SpinnerEnds == Spec => []SpinnerHasTimer
<1>1. IInv => SpinnerHasTimer
  BY DEF IInv, Forms
<1> QED BY Initial, Step, <1>1, PTL DEF Spec

\* The form and every request under way write the record their fields were
\* loaded from.
THEOREM WritesRightRecord == Spec => []RightRecord
<1>1. IInv => RightRecord
  BY DEF IInv, Forms
<1> QED BY Initial, Step, <1>1, PTL DEF Spec

\* No destination is created from a secret typed into another one's form.
THEOREM AddStartsFresh == Spec => []FreshAdd
<1>1. IInv => FreshAdd
  BY DEF IInv, Forms
<1> QED BY Initial, Step, <1>1, PTL DEF Spec

-----------------------------------------------------------------------------
(* The refinement.                                                         *)

\* What the vault holds of a destination: its config, or that there is none.
LEMMA VaultOf ==
    ASSUME TypeOK, NEW d \in Dests
    PROVE  /\ Held[d] = IF Exists(d) THEN db[d].config ELSE db[d]
           /\ Exists(d) => db[d] \in Row /\ db[d].config \in Config
           /\ Exists(d) <=> Vault!Stores(d)
           /\ ~Exists(d) => db[d] \in {None, Deleted}
BY StorageAssumption DEF TypeOK, Exists, Row, Held, Vault!Stores

\* What is stored when the page is opened is an initial vault.
LEMMA VaultInitial == Init => Vault!VaultInit
<1> SUFFICES ASSUME Init PROVE Vault!VaultInit
  OBVIOUS
<1>1. TypeOK
  BY Initial DEF IInv
<1>2. \A d \in Dests : db[d] \in {None} \cup {StoredRow(b) : b \in Backends}
  BY DEF Init
<1>3. \A d \in Dests : Exists(d) => \A k \in Keys : db[d].config[k] \in {New, Empty}
  BY <1>2, StoredRowType DEF Exists
<1>4. \A d \in Dests : ~Exists(d) => db[d] = None
  BY <1>2, StoredRowType, StorageAssumption DEF Exists
<1>5. \A d \in Dests : Exists(d) => \A k \in Keys : Held[d][k] \notin Flows
  BY <1>1, <1>3, VaultOf, StorageAssumption
<1>6. Held \in [Dests -> Config \cup {None}]
  BY <1>1, <1>4, VaultOf DEF Held
<1>7. Seen = [i \in Slots |-> None]
  BY DEF Init, Seen, NoSave
<1> QED BY <1>1, <1>5, <1>6, <1>7, VaultOf DEF Init, Vault!VaultInit, Vault!Contents, Config

\* The table and the requests as they are: the vault is as it was.
LEMMA HeldSame == UNCHANGED db => UNCHANGED Held
BY DEF Held, Exists

\* The requests as they are: no edit has seen more.
LEMMA SeenSame == UNCHANGED saves => UNCHANGED Seen
BY DEF Seen

\* A request that ends was an edit that ends.
LEMMA SeenEnds ==
    ASSUME TypeOK, NEW i \in Slots, saves' = [saves EXCEPT ![i] = NoSave]
    PROVE  Seen' = [Seen EXCEPT ![i] = None]
BY DEF TypeOK, Seen, NoSave

\* A row that is stored or deleted changes its destination only.
LEMMA HeldSet ==
    ASSUME TypeOK, NEW d \in Dests, NEW r \in Row \cup {Deleted}, db' = [db EXCEPT ![d] = r]
    PROVE  Held' = [Held EXCEPT ![d] = IF r = Deleted THEN Deleted ELSE r.config]
<1>1. r # None /\ (r \in Row => r # Deleted)
  BY StorageAssumption
<1>2. \A e \in Dests : db'[e] = IF e = d THEN r ELSE db[e]
  BY DEF TypeOK
<1>3. Held' = [e \in Dests |-> IF Exists(e)' THEN db'[e].config ELSE db'[e]]
  BY DEF Held
<1>4. (Exists(d)' <=> r # Deleted) /\ \A e \in Dests \ {d} : Exists(e)' <=> Exists(e)
  BY <1>1, <1>2 DEF Exists
<1>5. Held'[d] = IF r = Deleted THEN Deleted ELSE r.config
  <2>1. Held'[d] = IF Exists(d)' THEN db'[d].config ELSE db'[d]
    BY <1>3
  <2>2. db'[d] = r
    BY <1>2
  <2> QED BY <1>4, <2>1, <2>2
<1>6. \A e \in Dests \ {d} : Held'[e] = Held[e]
  BY <1>2, <1>3, <1>4 DEF Held
<1> QED BY <1>3, <1>5, <1>6 DEF Held

\* Storing a row without foreign tokens sets its destination in the vault.
LEMMA Sets ==
    ASSUME TypeOK, NEW d \in Dests, NEW r \in Row, Clean(r.config), db' = [db EXCEPT ![d] = r]
    PROVE  r.config \in Vault!Contents /\ Vault!Set(d, r.config)
<1>1. r # Deleted /\ r.config \in Config
  BY StorageAssumption DEF Row
<1>2. Held' = [Held EXCEPT ![d] = r.config]
  BY <1>1, HeldSet
<1>3. r.config \in [Keys -> Owners \cup granted \cup {Empty}]
  BY <1>1 DEF Clean, Config
<1> QED BY <1>1, <1>2, <1>3 DEF Vault!Set, Vault!Contents, Config

\* The SELECT of an update is a look at its destination.
LEMMA UpdateLooks ==
    ASSUME TypeOK, NEW i \in Slots, UpdateRead(i)
    PROVE  \E d \in Dests : Vault!Look(i, d)
<1>1. PICK d \in Dests : d = saves[i].id /\ Exists(d) /\ db[d] \in Row /\ saves[i] \in SaveRequest
  BY DEF UpdateRead, TypeOK, Exists, SaveRequest
<1>2. /\ saves[i].read = None /\ UNCHANGED <<granted, db>>
      /\ saves' = [saves EXCEPT ![i].read = db[d]]
  BY <1>1 DEF UpdateRead, server
<1>3. Seen[i] = None
  BY <1>2 DEF Seen
<1>4. Seen' = [Seen EXCEPT ![i] = [dest |-> d, contents |-> db[d].config]]
  <2>1. saves'[i].read = db[d] /\ saves'[i].id = d /\ \A j \in Slots \ {i} : saves'[j] = saves[j]
    BY <1>1, <1>2 DEF TypeOK, SaveRequest
  <2>2. db[d] # None
    BY <1>1 DEF Exists
  <2> QED BY <2>1, <2>2 DEF Seen
<1> QED BY <1>1, <1>2, <1>3, <1>4, VaultOf, HeldSame DEF Vault!Look

\* Its commit replaces what it has seen.
LEMMA UpdateReplaces == ASSUME IInv, NEW i \in Slots, UpdateDone(i) PROVE Vault!Replace(i)
<1> USE DEF IInv
<1>1. PICK d \in Dests, r \in Row :
          /\ d = saves[i].id /\ Exists(d) /\ db' = [db EXCEPT ![d] = r]
          /\ r.config \in {MergeConfig(saves[i].read.config, saves[i].config), db[d].config}
  BY UpdatedRow
<1>2. saves[i].read \in Row /\ saves[i].read # None /\ saves[i] # NoSave
  BY UpdatedRow, StorageAssumption DEF NoSave
<1>3. Seen[i] = [dest |-> d, contents |-> saves[i].read.config]
  BY <1>1, <1>2 DEF Seen
<1>4. Seen[i] # None
  <2>1. Seen[i] \in Sighting
    BY <1>2, <1>3 DEF Sighting, Row
  <2> QED BY <2>1, StorageAssumption
<1>5. UNCHANGED granted /\ Seen' = [Seen EXCEPT ![i] = None]
  BY SeenEnds DEF UpdateDone, SaveAnswered
<1>6. CASE r.config = db[d].config
  <2>1. Held' = [Held EXCEPT ![d] = r.config]
    BY <1>1, HeldSet, StorageAssumption
  <2>2. UNCHANGED Held
    BY <1>1, <1>6, <2>1, VaultOf DEF Held
  <2> QED BY <1>1, <1>3, <1>4, <1>5, <2>2, VaultOf DEF Vault!Replace
<1>7. CASE r.config = MergeConfig(saves[i].read.config, saves[i].config)
  <2>1. Clean(r.config)
    BY <1>2, <1>7 DEF Tokens, Clean, MergeConfig
  <2>2. \A k \in Keys : saves[i].read.config[k] # Empty => r.config[k] # Empty
    BY <1>7 DEF MergeConfig
  <2>3. r.config \in Vault!Contents /\ Vault!Set(d, r.config)
    BY <1>1, <2>1, Sets
  <2>4. Vault!Stores(d) /\ Seen[i].dest = d /\ Seen[i].contents = saves[i].read.config
    BY <1>1, <1>3, VaultOf
  <2> QED BY <1>4, <1>5, <2>2, <2>3, <2>4 DEF Vault!Replace
<1> QED BY <1>1, <1>6, <1>7

\* Every step is one of the vault or changes nothing of it.
LEMMA VaultStep == IInv /\ [Next]_vars => [Vault!VaultNext]_Vault!vaultVars
<1> SUFFICES ASSUME IInv, [Next]_vars PROVE Vault!VaultNext \/ UNCHANGED Vault!vaultVars
  OBVIOUS
<1> USE DEF IInv
<1>1. ASSUME NEW f \in Flows, WriteToken(f) PROVE Vault!VaultNext
  BY <1>1, HeldSame, SeenSame DEF WriteToken, Vault!Grant, Vault!VaultNext
<1>2. ASSUME NEW i \in Slots, CreateDone(i) PROVE Vault!VaultNext
  <2> DEFINE r == [backend |-> saves[i].backend, config |-> saves[i].config]
  <2>1. saves[i] \in SaveRequest /\ Clean(saves[i].config)
    BY <1>2 DEF CreateDone, TypeOK, Tokens
  <2>2. r \in Row /\ Clean(r.config)
    BY <2>1 DEF SaveRequest, Row
  <2>3. PICK d \in Dests : db[d] = None /\ db' = [db EXCEPT ![d] = r]
    BY <1>2 DEF CreateDone
  <2>4. UNCHANGED granted /\ Seen' = [Seen EXCEPT ![i] = None]
    BY <1>2, SeenEnds DEF CreateDone, SaveAnswered
  <2> HIDE DEF r
  <2>5. Seen[i] = None
    BY <1>2, StorageAssumption DEF CreateDone, Reads, Seen
  <2>6. UNCHANGED Seen
    BY <2>4, <2>5 DEF Seen
  <2>7. Held[d] = None
    BY <2>3 DEF Held, Exists
  <2>8. Vault!Put(d)
    BY <2>2, <2>3, <2>4, <2>6, <2>7, Sets DEF Vault!Put
  <2> QED BY <2>8 DEF Vault!VaultNext
<1>3. ASSUME NEW i \in Slots, UpdateRead(i) PROVE Vault!VaultNext
  BY <1>3, UpdateLooks DEF Vault!VaultNext
<1>4. ASSUME NEW i \in Slots, UpdateDone(i) PROVE Vault!VaultNext
  BY <1>4, UpdateReplaces DEF Vault!VaultNext
<1>5. ASSUME NEW i \in Slots, SaveFails(i) PROVE Vault!VaultNext
  <2>1. Seen' = [Seen EXCEPT ![i] = None] /\ UNCHANGED granted /\ UNCHANGED Held
    BY <1>5, SeenEnds, HeldSame DEF SaveFails, server
  <2> QED BY <2>1 DEF Vault!GiveUp, Vault!VaultNext
<1>6. ASSUME NEW d \in Dests, Delete(d) PROVE Vault!VaultNext
  <2>1. Exists(d) /\ db' = [db EXCEPT ![d] = Deleted] /\ UNCHANGED <<granted, saves>>
    BY <1>6 DEF Delete
  <2>2. Held' = [Held EXCEPT ![d] = Deleted]
    BY <2>1, HeldSet
  <2> QED BY <2>1, <2>2, SeenSame, VaultOf DEF Vault!Drop, Vault!VaultNext
<1>7. ASSUME NEW i \in Slots, Save(i) PROVE UNCHANGED Vault!vaultVars
  <2>1. /\ saves[i] = NoSave /\ UNCHANGED <<granted, db>>
        /\ \E q : q.read = None /\ saves' = [saves EXCEPT ![i] = q]
    BY <1>7 DEF Save, server
  <2>2. UNCHANGED Seen
    BY <2>1 DEF TypeOK, Seen, NoSave
  <2> QED BY <2>1, <2>2, HeldSame DEF Vault!vaultVars
<1>8. CASE UNCHANGED <<granted, db, saves>>
  BY <1>8, HeldSame, SeenSame DEF Vault!vaultVars
<1>9. \/ \E f \in Flows : WriteToken(f)
      \/ \E i \in Slots : Save(i) \/ CreateDone(i) \/ UpdateRead(i) \/ UpdateDone(i) \/ SaveFails(i)
      \/ \E d \in Dests : Delete(d)
      \/ UNCHANGED <<granted, db, saves>>
  BY DEF Next, UserStep, AnswerStep, vars, server, OpenNew, Cancel, TypeSecret, OpenEdit,
         SelectBackend, Authorize, Load, StartAnswered, StartFails, Callback, ExchangeFails,
         Expire, Poll, ReadToken, DeleteToken, ReceiveToken, ReceiveExpired, PollFails,
         PollTimeout
<1> QED BY <1>1, <1>2, <1>3, <1>4, <1>5, <1>6, <1>7, <1>8, <1>9

\* The storage page and its API implement the vault: whatever overlaps, a
\* stored token was granted, no update blanks a secret that was stored when it
\* read the row, and a deleted destination does not return.
THEOREM ImplementsVault == Spec => SecretsSurvive
<1> QED BY Initial, Step, VaultInitial, VaultStep, PTL DEF Spec, SecretsSurvive, Vault!VaultSpec
=============================================================================
