--------------------------- MODULE ConsoleProofs ---------------------------
(***************************************************************************)
(* The servers page and the notifications page for any number of servers,  *)
(* channels and requests under way: what a form holds (FormOwn) and what a *)
(* request carries (SaveOwn) belongs to the record that is written, and a  *)
(* form shows all of its record but the secrets.                           *)
(***************************************************************************)
EXTENDS Console, TLAPS

-----------------------------------------------------------------------------
(* The servers page.                                                       *)

Secrets(p) == {p.ssh_password, p.db_password, p.api_token}
OwnerOf(id) == IF id = None THEN New ELSE id
Fits(p) == /\ p.ssh_password # Empty => p.auth = "ssh_password"
           /\ p.db_password # Empty => p.hasDb

FormOwn == serverForm.show => Secrets(serverForm) \subseteq {OwnerOf(serverForm.editId), Empty}
SaveOwn == \A i \in Slots : serverSaves[i] # S!NoSave =>
    /\ Secrets(serverSaves[i].payload) \subseteq {OwnerOf(serverSaves[i].id), Empty}
    /\ Fits(serverSaves[i].payload)
    /\ serverSaves[i].read # None => serverSaves[i].id # None

ServerInv == S!TypeOK /\ S!OwnSecrets /\ FormOwn /\ SaveOwn

\* The invariant of the servers page holds when it is opened.
LEMMA ServerInitial == S!Init => ServerInv
<1> SUFFICES ASSUME S!Init PROVE ServerInv
  OBVIOUS
<1>1. S!emptyForm \in S!Form
  BY DEF S!emptyForm, S!Form, S!AuthTypes, S!Secret
<1>2. S!TypeOK
  BY <1>1 DEF S!Init, S!TypeOK
<1>3. \A s \in Servers : S!Stores(s) => /\ servers[s].ssh_password \in {s, Empty}
                                        /\ servers[s].db_password \in {s, Empty}
                                        /\ servers[s].api_token \in {s, Empty}
  BY DEF S!Init
<1>4. S!OwnSecrets
  BY <1>3 DEF S!OwnSecrets
<1>5. FormOwn /\ SaveOwn
  BY DEF S!Init, FormOwn, SaveOwn, S!emptyForm
<1> QED BY <1>2, <1>4, <1>5 DEF ServerInv

\* What the user does to the form.
LEMMA FormSteps ==
    ASSUME ServerInv,
           S!OpenNew \/ S!Cancel \/ S!EditFields \/ \E s \in Servers : S!OpenEdit(s)
    PROVE  ServerInv'
<1> USE DEF ServerInv
<1>1. UNCHANGED <<servers, serverRows, serverLoading, serverSaves>>
  BY DEF S!OpenNew, S!Cancel, S!EditFields, S!OpenEdit, S!Set
<1>2. serverForm' \in S!Form /\ FormOwn'
  <2> USE DEF S!TypeOK, S!Form, S!Secret, S!AuthTypes, FormOwn, Secrets, OwnerOf
  <2>1. CASE S!OpenNew
    BY <2>1 DEF S!OpenNew, S!emptyForm
  <2>2. CASE S!Cancel
    BY <2>2 DEF S!Cancel, S!CloseForm
  <2>3. CASE S!EditFields
    <3>1. PICK mine : mine = OwnerOf(serverForm.editId) /\ mine \in S!Secret
      OBVIOUS
    <3>2. /\ serverForm.show
          /\ \/ \E a \in S!AuthTypes : serverForm' = [serverForm EXCEPT !.auth = a]
             \/ \E b \in BOOLEAN : serverForm' = [serverForm EXCEPT !.hasDb = b]
             \/ serverForm' = [serverForm EXCEPT !.ssh_password = mine]
             \/ serverForm' = [serverForm EXCEPT !.api_token = mine]
             \/ serverForm' = [serverForm EXCEPT !.db_password = mine]
      BY <2>3, <3>1 DEF S!EditFields, S!Set, S!Owner
    <3>3. serverForm' \in S!Form
      BY <3>1, <3>2
    <3>4. serverForm'.show => Secrets(serverForm') \subseteq {OwnerOf(serverForm'.editId), Empty}
      BY <3>1, <3>2
    <3> QED BY <3>3, <3>4
  <2>4. ASSUME NEW s \in Servers, S!OpenEdit(s) PROVE serverForm' \in S!Form /\ FormOwn'
    BY <2>4 DEF S!OpenEdit, S!LoadRow, S!emptyForm, S!Payload
  <2> QED BY <2>1, <2>2, <2>3, <2>4
<1>3. S!TypeOK'
  BY <1>1, <1>2 DEF S!TypeOK
<1>4. (S!OwnSecrets /\ SaveOwn)'
  BY <1>1 DEF S!OwnSecrets, S!Stores, SaveOwn
<1> QED BY <1>2, <1>3, <1>4

\* A request takes what the form holds.
LEMMA SaveSent == ASSUME ServerInv, NEW i \in Slots, S!Save(i) PROVE ServerInv'
<1> USE DEF ServerInv
<1> DEFINE p == S!BuildPayload(serverForm)
<1>1. /\ p \in S!Payload /\ Fits(p)
      /\ Secrets(p) \subseteq {OwnerOf(serverForm.editId), Empty}
  BY DEF S!Save, S!BuildPayload, S!TypeOK, S!Form, S!Payload, S!Secret, S!AuthTypes,
         FormOwn, Secrets, Fits
<1> HIDE DEF p
<1>2. /\ UNCHANGED <<servers, serverRows, serverLoading, serverForm>>
      /\ serverSaves' = [serverSaves EXCEPT ![i] =
                             [id |-> serverForm.editId, payload |-> p, live |-> TRUE,
                              read |-> None]]
  BY DEF S!Save, p
<1>3. S!TypeOK'
  BY <1>1, <1>2 DEF S!TypeOK, S!Form, S!SaveRequest
<1>4. (S!OwnSecrets /\ FormOwn)'
  BY <1>2 DEF S!OwnSecrets, S!Stores, FormOwn
<1>5. SaveOwn'
  BY <1>1, <1>2 DEF S!TypeOK, SaveOwn
<1> QED BY <1>3, <1>4, <1>5

\* A request that ends, on a page that was left or not.
LEMMA SaveEnds ==
    ASSUME ServerInv, NEW i \in Slots,
           serverSaves' = [serverSaves EXCEPT ![i] = S!NoSave],
           serverForm' = S!CloseForm(serverForm) \/ serverForm' = serverForm,
           serverLoading' \in BOOLEAN, UNCHANGED serverRows,
           servers' \in [Servers -> S!Payload \cup {None, Deleted}],
           S!OwnSecrets'
    PROVE  ServerInv'
<1> USE DEF ServerInv
<1>1. serverForm' \in S!Form /\ FormOwn'
  BY DEF S!TypeOK, S!Form, S!CloseForm, FormOwn, Secrets
<1>2. S!TypeOK'
  BY <1>1 DEF S!TypeOK
<1>3. SaveOwn'
  BY DEF SaveOwn, S!TypeOK
<1> QED BY <1>1, <1>2, <1>3

\* Storing a server with its own secrets.
LEMMA Stored ==
    ASSUME ServerInv, NEW s \in Servers, NEW r \in S!Payload, servers' = [servers EXCEPT ![s] = r],
           Secrets(r) \subseteq {s, Empty}
    PROVE  servers' \in [Servers -> S!Payload \cup {None, Deleted}] /\ S!OwnSecrets'
BY DEF ServerInv, S!TypeOK, S!OwnSecrets, S!Stores, Secrets

\* What a request creates.
LEMMA CreatedRow ==
    ASSUME NEW s \in Servers, NEW p \in S!Payload, Fits(p), Secrets(p) \subseteq {New, Empty}
    PROVE  /\ S!Created(s, p) \in S!Payload
           /\ Secrets(S!Created(s, p)) \subseteq {s, Empty} /\ Fits(S!Created(s, p))
<1>1. PICK r : r = S!Created(s, p)
  OBVIOUS
<1>2. /\ r.auth = p.auth /\ r.hasDb = p.hasDb /\ DOMAIN r = DOMAIN p
      /\ r = [k \in DOMAIN p |-> r[k]]
      /\ r.ssh_password = IF p.ssh_password = New THEN s ELSE p.ssh_password
      /\ r.db_password = IF p.db_password = New THEN s ELSE p.db_password
      /\ r.api_token = IF p.api_token = New THEN s ELSE p.api_token
  BY <1>1 DEF S!Created, S!Payload
<1>3. Secrets(r) \subseteq {s, Empty} /\ Fits(r)
  BY <1>2, ConsoleAssumption DEF Secrets, Fits
<1>4. r \in S!Payload
  BY <1>2 DEF S!Payload, S!Secret
<1> QED BY <1>1, <1>3, <1>4

\* What an update writes: what it was sent or what the row holds, and over the
\* row it read only what it was sent.
LEMMA WrittenRow ==
    ASSUME NEW current \in S!Payload, NEW read \in S!Payload, NEW p \in S!Payload, Fits(p),
           NEW w \in S!Written(current, read, S!UpdateRow(read, p))
    PROVE  /\ w \in S!Payload
           /\ Secrets(w) \subseteq Secrets(current) \cup Secrets(p)
           /\ read = current => Fits(w)
<1>1. PICK n : n = S!UpdateRow(read, p)
  OBVIOUS
<1>2. /\ n.auth = p.auth /\ n.hasDb = p.hasDb /\ n.ssh_password = p.ssh_password
      /\ n.db_password = p.db_password /\ (n.auth = "api" => n.api_token = p.api_token)
  BY <1>1 DEF S!UpdateRow, S!Payload
<1>3. PICK meta : /\ \/ meta = n
                     \/ /\ meta = current /\ n.hasDb = read.hasDb
                        /\ n.ssh_password = read.ssh_password
                        /\ n.db_password = read.db_password
                  /\ w = [auth |-> IF n.auth = read.auth THEN current.auth ELSE n.auth,
                          hasDb |-> meta.hasDb, ssh_password |-> meta.ssh_password,
                          db_password |-> meta.db_password,
                          api_token |-> IF n.auth = "api" THEN n.api_token
                                                          ELSE current.api_token]
  BY <1>1 DEF S!Written
<1>4. /\ w.auth = IF n.auth = read.auth THEN current.auth ELSE p.auth
      /\ w.hasDb = meta.hasDb /\ w.ssh_password = meta.ssh_password
      /\ w.db_password = meta.db_password
      /\ w.api_token = IF n.auth = "api" THEN p.api_token ELSE current.api_token
      /\ w = [auth |-> w.auth, hasDb |-> w.hasDb, ssh_password |-> w.ssh_password,
              db_password |-> w.db_password, api_token |-> w.api_token]
  BY <1>2, <1>3
<1>8. /\ meta.hasDb \in {p.hasDb, current.hasDb}
      /\ meta.ssh_password \in {p.ssh_password, current.ssh_password}
      /\ meta.db_password \in {p.db_password, current.db_password}
  BY <1>2, <1>3
<1>5. w \in S!Payload
  <2>1. /\ w.auth \in S!AuthTypes /\ w.hasDb \in BOOLEAN /\ w.ssh_password \in S!Secret
        /\ w.db_password \in S!Secret /\ w.api_token \in S!Secret
    BY <1>4, <1>8 DEF S!Payload
  <2> QED BY <1>4, <2>1 DEF S!Payload
<1>6. Secrets(w) \subseteq Secrets(current) \cup Secrets(p)
  BY <1>4, <1>8 DEF Secrets
<1>7. ASSUME read = current PROVE Fits(w)
  <2>1. /\ w.auth = p.auth /\ w.hasDb = p.hasDb /\ w.ssh_password = p.ssh_password
        /\ w.db_password = p.db_password
    <3>1. meta.hasDb = p.hasDb /\ meta.ssh_password = p.ssh_password
          /\ meta.db_password = p.db_password
      BY <1>2, <1>3, <1>7
    <3> QED BY <1>2, <1>4, <1>7, <3>1
  <2> QED BY <2>1 DEF Fits
<1> QED BY <1>5, <1>6, <1>7

\* What an update under way carries and meets.
LEMMA UpdateFacts ==
    ASSUME ServerInv, NEW i \in Slots, S!UpdateDone(i)
    PROVE  LET s == serverSaves[i].id
               r == serverSaves[i].read
               p == serverSaves[i].payload
           IN  /\ s \in Servers /\ r \in S!Payload /\ r # None
               /\ servers[s] \in S!Payload /\ Secrets(servers[s]) \subseteq {s, Empty}
               /\ p \in S!Payload /\ Fits(p) /\ Secrets(p) \subseteq {s, Empty}
               /\ \E w \in S!Written(servers[s], r, S!UpdateRow(r, p)) :
                      servers' = [servers EXCEPT ![s] = w]
<1>1. serverSaves[i] # S!NoSave /\ serverSaves[i].read # None
  BY DEF S!UpdateDone, S!NoSave
<1>2. PICK r \in S!SaveRequest : r = serverSaves[i]
  BY <1>1 DEF ServerInv, S!TypeOK
<1>3. /\ r.read \in S!Payload /\ r.payload \in S!Payload
      /\ Fits(r.payload) /\ Secrets(r.payload) \subseteq {OwnerOf(r.id), Empty}
  BY <1>1, <1>2 DEF S!SaveRequest, ServerInv, SaveOwn
<1>4. r.id # None /\ r.id \in Servers /\ S!Stores(r.id)
  BY <1>1, <1>2 DEF ServerInv, SaveOwn, S!UpdateDone, S!SaveRequest
<1>5. servers[r.id] \in S!Payload /\ Secrets(servers[r.id]) \subseteq {r.id, Empty}
  BY <1>4 DEF ServerInv, S!TypeOK, S!OwnSecrets, S!Stores, Secrets
<1>6. \E w \in S!Written(servers[r.id], r.read, S!UpdateRow(r.read, r.payload)) :
          servers' = [servers EXCEPT ![r.id] = w]
  BY <1>2 DEF S!UpdateDone
<1> QED BY <1>1, <1>2, <1>3, <1>4, <1>5, <1>6 DEF OwnerOf

\* A server is created, read, updated, or the request fails.
LEMMA SaveDone ==
    ASSUME ServerInv, NEW i \in Slots,
           S!CreateDone(i) \/ S!UpdateRead(i) \/ S!UpdateDone(i) \/ S!SaveFails(i)
    PROVE  ServerInv'
<1> USE DEF ServerInv
<1>1. CASE S!CreateDone(i)
  <2>1. PICK p \in S!Payload : /\ p = serverSaves[i].payload
                               /\ Fits(p) /\ Secrets(p) \subseteq {New, Empty}
    BY <1>1 DEF S!CreateDone, S!TypeOK, S!SaveRequest, SaveOwn, OwnerOf
  <2>2. PICK s \in Servers : servers' = [servers EXCEPT ![s] = S!Created(s, p)]
    BY <1>1, <2>1 DEF S!CreateDone
  <2>3. servers' \in [Servers -> S!Payload \cup {None, Deleted}] /\ S!OwnSecrets'
    <3>1. PICK r \in S!Payload : r = S!Created(s, p) /\ Secrets(r) \subseteq {s, Empty}
      BY <2>1, CreatedRow
    <3> QED BY <2>2, <3>1, Stored
  <2> QED BY <1>1, <2>3, SaveEnds DEF S!CreateDone, S!SaveAnswered, S!TypeOK, S!SaveRequest
<1>2. CASE S!UpdateRead(i)
  <2>1. PICK r \in S!SaveRequest : r = serverSaves[i] /\ r.id # None
    BY <1>2 DEF S!UpdateRead, S!TypeOK
  <2>2. PICK row \in S!Payload : row = servers[r.id]
    BY <1>2, <2>1 DEF S!UpdateRead, S!Stores, S!TypeOK, S!SaveRequest
  <2>3. PICK q : q = [r EXCEPT !.read = row]
    OBVIOUS
  <2>4. q \in S!SaveRequest /\ q.id = r.id /\ q.payload = r.payload
    BY <2>1, <2>2, <2>3 DEF S!SaveRequest
  <2>5. /\ serverSaves' = [serverSaves EXCEPT ![i] = q]
        /\ UNCHANGED <<servers, serverRows, serverLoading, serverForm>>
    BY <1>2, <2>1, <2>2, <2>3 DEF S!UpdateRead
  <2>6. S!TypeOK'
    BY <2>4, <2>5 DEF S!TypeOK
  <2>7. (S!OwnSecrets /\ FormOwn)'
    BY <2>5 DEF S!OwnSecrets, S!Stores, FormOwn
  <2>8. SaveOwn'
    BY <1>2, <2>1, <2>4, <2>5 DEF S!UpdateRead, S!TypeOK, SaveOwn
  <2> QED BY <2>6, <2>7, <2>8
<1>3. CASE S!UpdateDone(i)
  <2>1. PICK s, read, p :
            s = serverSaves[i].id /\ read = serverSaves[i].read /\ p = serverSaves[i].payload
    OBVIOUS
  <2>2. /\ s \in Servers /\ read \in S!Payload
        /\ servers[s] \in S!Payload /\ Secrets(servers[s]) \subseteq {s, Empty}
        /\ p \in S!Payload /\ Fits(p) /\ Secrets(p) \subseteq {s, Empty}
        /\ \E w \in S!Written(servers[s], read, S!UpdateRow(read, p)) :
               servers' = [servers EXCEPT ![s] = w]
    BY <1>3, <2>1, UpdateFacts
  <2> PICK w \in S!Written(servers[s], read, S!UpdateRow(read, p)) :
          servers' = [servers EXCEPT ![s] = w]
    BY <2>2
  <2>3. w \in S!Payload /\ Secrets(w) \subseteq {s, Empty}
    BY <2>2, WrittenRow
  <2>4. servers' \in [Servers -> S!Payload \cup {None, Deleted}] /\ S!OwnSecrets'
    BY <2>2, <2>3, Stored
  <2> QED BY <1>3, <2>4, SaveEnds DEF S!UpdateDone, S!SaveAnswered, S!TypeOK
<1>4. CASE S!SaveFails(i)
  <2>1. UNCHANGED <<servers, serverRows, serverLoading, serverForm>>
    BY <1>4 DEF S!SaveFails
  <2>2. S!OwnSecrets'
    BY <2>1 DEF S!OwnSecrets, S!Stores
  <2> QED BY <1>4, <2>1, <2>2, SaveEnds DEF S!SaveFails, S!TypeOK
<1> QED BY <1>1, <1>2, <1>3, <1>4

\* A row with the passwords of its type has at most a token it does not use.
LEMMA FittingRow == \A r : Fits(r) => S!Unused(r) \subseteq {"api_token"}
BY DEF Fits, S!Unused

\* No step leaves a password its server does not use, but an update that met
\* another row than it had read.
LEMMA ServerTidy ==
    ASSUME ServerInv,
           S!UserStep \/ S!Load \/ S!SaveStep \/ S!Leave \/ S!Mount \/ UNCHANGED serverVars
    PROVE  S!TidySave
<1> SUFFICES ASSUME NEW s \in Servers, S!Stores(s)', servers'[s] # servers[s]
             PROVE  Fits(servers'[s]) \/ S!Overlaps(s)
  BY FittingRow DEF S!TidySave
<1>1. PICK i \in Slots : S!CreateDone(i) \/ S!UpdateDone(i)
  <2>1. ASSUME NEW d \in Servers, S!Delete(d) PROVE FALSE
    BY <2>1 DEF S!Delete, S!Stores, ServerInv, S!TypeOK
  <2> QED BY <2>1 DEF S!UserStep, S!OpenNew, S!Cancel, S!EditFields, S!Set, S!OpenEdit, S!Save,
                      S!Load, S!SaveStep, S!SaveFails, S!UpdateRead, S!Leave, S!Mount, serverVars
<1>2. CASE S!CreateDone(i)
  <2>1. PICK p \in S!Payload : /\ p = serverSaves[i].payload
                               /\ Fits(p) /\ Secrets(p) \subseteq {New, Empty}
    BY <1>2 DEF S!CreateDone, ServerInv, S!TypeOK, S!SaveRequest, SaveOwn, OwnerOf
  <2>2. PICK d \in Servers : servers' = [servers EXCEPT ![d] = S!Created(d, p)]
    BY <1>2, <2>1 DEF S!CreateDone
  <2>3. d = s /\ servers'[s] = S!Created(s, p)
    BY <2>2 DEF ServerInv, S!TypeOK
  <2> QED BY <2>1, <2>3, CreatedRow
<1>3. CASE S!UpdateDone(i)
  <2>1. PICK d, read, p :
            d = serverSaves[i].id /\ read = serverSaves[i].read /\ p = serverSaves[i].payload
    OBVIOUS
  <2>2. /\ d \in Servers /\ read \in S!Payload /\ read # None
        /\ servers[d] \in S!Payload /\ p \in S!Payload /\ Fits(p)
        /\ \E w \in S!Written(servers[d], read, S!UpdateRow(read, p)) :
               servers' = [servers EXCEPT ![d] = w]
    BY <1>3, <2>1, UpdateFacts
  <2> PICK w \in S!Written(servers[d], read, S!UpdateRow(read, p)) :
          servers' = [servers EXCEPT ![d] = w]
    BY <2>2
  <2>3. d = s /\ servers'[s] = w
    BY <2>2 DEF ServerInv, S!TypeOK
  <2>4. read = servers[d] => Fits(w)
    BY <2>2, WrittenRow
  <2>5. serverSaves'[i] = S!NoSave
    BY <1>3 DEF S!UpdateDone, S!SaveAnswered, ServerInv, S!TypeOK
  <2> QED BY <2>1, <2>2, <2>3, <2>4, <2>5 DEF S!Overlaps
<1> QED BY <1>1, <1>2, <1>3

\* Deleting a server, and the list.
LEMMA DeleteAndLoad ==
    ASSUME ServerInv, S!Load \/ S!Mount \/ \E s \in Servers : S!Delete(s)
    PROVE  ServerInv'
<1> USE DEF ServerInv
<1>1. /\ UNCHANGED <<serverForm, serverSaves>>
      /\ serverLoading' \in BOOLEAN
      /\ serverRows' \in [Servers -> S!Payload \cup {None, Deleted}]
  BY DEF S!Load, S!Mount, S!Delete, S!TypeOK
<1>2. \/ UNCHANGED servers
      \/ \E s \in Servers : servers' = [servers EXCEPT ![s] = Deleted]
  BY DEF S!Load, S!Mount, S!Delete
<1>3. S!TypeOK' /\ (FormOwn /\ SaveOwn)'
  BY <1>1, <1>2 DEF S!TypeOK, FormOwn, SaveOwn
<1>4. S!OwnSecrets'
  BY <1>2 DEF S!TypeOK, S!OwnSecrets, S!Stores
<1> QED BY <1>3, <1>4

\* The requests outlive the page, their answers find none.
LEMMA PageLeft == ASSUME ServerInv, S!Leave PROVE ServerInv'
<1> USE DEF ServerInv
<1>1. S!emptyForm \in S!Form
  BY DEF S!emptyForm, S!Form, S!AuthTypes, S!Secret
<1>2. ASSUME NEW i \in Slots
      PROVE  LET e == [serverSaves[i] EXCEPT !.live = FALSE]
             IN  /\ e \in S!SaveRequest \cup {S!NoSave}
                 /\ e # S!NoSave => serverSaves[i] # S!NoSave
                 /\ e.payload = serverSaves[i].payload /\ e.id = serverSaves[i].id
                 /\ e.read = serverSaves[i].read
  <2> DEFINE e == [serverSaves[i] EXCEPT !.live = FALSE]
  <2>0. serverSaves[i] \in S!SaveRequest \/ serverSaves[i] = S!NoSave
    BY DEF S!TypeOK
  <2>1. ASSUME serverSaves[i] = S!NoSave PROVE e = S!NoSave
    <3>0. S!NoSave["live"] = FALSE
      BY DEF S!NoSave
    <3>1. DOMAIN e = DOMAIN S!NoSave /\ \A k \in DOMAIN e : e[k] = S!NoSave[k]
      BY <2>1, <3>0
    <3>2. e = [k \in DOMAIN e |-> e[k]]
      BY <2>1 DEF S!NoSave
    <3>3. S!NoSave = [k \in DOMAIN S!NoSave |-> S!NoSave[k]]
      BY DEF S!NoSave
    <3> QED BY <3>1, <3>2, <3>3
  <2>2. serverSaves[i] \in S!SaveRequest => e \in S!SaveRequest
    BY DEF S!SaveRequest
  <2>3. /\ e.payload = serverSaves[i].payload /\ e.id = serverSaves[i].id
        /\ e.read = serverSaves[i].read
    BY <2>0 DEF S!SaveRequest, S!NoSave
  <2> QED BY <2>0, <2>1, <2>2, <2>3
<1>3. S!TypeOK'
  BY <1>1, <1>2 DEF S!TypeOK, S!Leave
<1>4. SaveOwn'
  BY <1>2 DEF S!Leave, SaveOwn
<1>5. (S!OwnSecrets /\ FormOwn)'
  BY DEF S!Leave, S!OwnSecrets, S!Stores, FormOwn, S!emptyForm
<1> QED BY <1>3, <1>4, <1>5

\* Every step the console takes of the servers page keeps its invariant.
LEMMA ServerStep ==
    ASSUME ServerInv,
           S!UserStep \/ S!Load \/ S!SaveStep \/ S!Leave \/ S!Mount \/ UNCHANGED serverVars
    PROVE  ServerInv'
<1>1. CASE UNCHANGED serverVars
  BY <1>1 DEF serverVars, ServerInv, S!TypeOK, S!OwnSecrets, S!Stores, FormOwn, SaveOwn
<1> QED BY <1>1, FormSteps, SaveSent, SaveDone, DeleteAndLoad, PageLeft
        DEF S!UserStep, S!SaveStep

-----------------------------------------------------------------------------
(* The notifications page.                                                 *)

FreshChannel == channelForm.show /\ channelForm.editId = None =>
    \A k \in C!Fields : channelForm.field[k] \in {New, Empty}

SaveFits == \A i \in Slots : channelSaves[i] # C!NoSave =>
    /\ DOMAIN channelSaves[i].payload.config = C!FieldsOf(channelSaves[i].payload.type)
    /\ channelSaves[i].read # None => channelSaves[i].id # None

ChannelInv == C!TypeOK /\ C!FreshAdd /\ FreshChannel /\ SaveFits

\* The invariant of the notifications page holds when it is opened.
LEMMA ChannelInitial == C!Init => ChannelInv
<1> SUFFICES ASSUME C!Init PROVE ChannelInv
  OBVIOUS
<1>1. C!BlankForm \in C!Form
  BY ConsoleAssumption DEF C!BlankForm, C!Form, C!ChannelTypes, C!Value
<1>2. PICK types \in [Channels -> C!ChannelTypes \cup {None}] :
          channels = [c \in Channels |-> IF types[c] = None THEN None ELSE
              [type |-> types[c], config |-> [k \in C!FieldsOf(types[c]) |-> c],
               triggers |-> DefaultTriggers]]
  BY DEF C!Init
<1>3. \A c \in Channels : channels[c] = None \/ channels[c] \in C!Payload
  BY <1>2, ConsoleAssumption DEF C!Payload, C!Value
<1>4. C!TypeOK
  BY <1>1, <1>2, <1>3 DEF C!Init, C!TypeOK
<1>5. C!FreshAdd /\ FreshChannel /\ SaveFits
  BY DEF C!Init, C!FreshAdd, FreshChannel, SaveFits, C!BlankForm
<1> QED BY <1>4, <1>5 DEF ChannelInv

\* What the user does to the form.
LEMMA ChannelFormSteps ==
    ASSUME ChannelInv,
           \/ C!OpenNew \/ C!Cancel \/ C!EditFields
           \/ \E t \in Triggers : C!toggleTrigger(t)
           \/ \E c \in Channels : C!OpenEdit(c)
    PROVE  ChannelInv'
<1> USE DEF ChannelInv
<1>1. UNCHANGED <<channels, channelRows, channelLoading, channelSaves>>
  BY DEF C!OpenNew, C!Cancel, C!EditFields, C!toggleTrigger, C!OpenEdit, C!Set
<1>2. channelForm' \in C!Form /\ FreshChannel'
  <2>0. channelForm \in C!Form
    BY DEF C!TypeOK
  <2>1. CASE C!OpenNew
    <3>1. [C!BlankForm EXCEPT !.show = TRUE] \in C!Form
      BY ConsoleAssumption DEF C!BlankForm, C!Form, C!ChannelTypes, C!Value
    <3> QED BY <2>1, <3>1 DEF C!OpenNew, C!BlankForm, FreshChannel
  <2>2. CASE C!Cancel
    BY <2>0, <2>2 DEF C!Cancel, C!CloseForm, C!Form, FreshChannel
  <2>3. CASE C!EditFields
    <3>1. CASE \E t \in C!ChannelTypes : C!Set([channelForm EXCEPT !.type = t])
      BY <2>0, <3>1 DEF C!Set, C!Form, FreshChannel
    <3>2. ASSUME NEW k, C!Set([channelForm EXCEPT !.field[k] = C!Owner(channelForm)])
          PROVE  channelForm' \in C!Form /\ FreshChannel'
      BY <2>0, <3>2, ConsoleAssumption DEF C!Set, C!Owner, C!Form, C!Value, FreshChannel
    <3> QED BY <2>3, <3>1, <3>2 DEF C!EditFields
  <2>4. ASSUME NEW t \in Triggers, C!toggleTrigger(t) PROVE channelForm' \in C!Form /\ FreshChannel'
    BY <2>0, <2>4 DEF C!toggleTrigger, C!Set, C!Form, FreshChannel
  <2>5. ASSUME NEW c \in Channels, C!OpenEdit(c) PROVE channelForm' \in C!Form /\ FreshChannel'
    <3>1. PICK row \in C!Payload : row = channelRows[c]
      BY <2>5 DEF C!OpenEdit, C!TypeOK
    <3>2. channelForm' = C!LoadRow(channelForm, c, row) /\ c # None
      BY <2>5, <3>1, ConsoleAssumption DEF C!OpenEdit
    <3>3. PICK t \in C!ChannelTypes : row.config \in [C!FieldsOf(t) -> C!Value]
      BY DEF C!Payload
    <3>4. \A k : C!Shown(row, k) \in C!Value
      BY <3>3 DEF C!Shown, C!Value
    <3>5. PICK g : g = [k \in C!Fields |-> IF k \in C!FieldsOf(row.type) THEN C!Shown(row, k)
                                          ELSE channelForm.field[k]]
      OBVIOUS
    <3>6. g \in [C!Fields -> C!Value]
      BY <2>0, <3>4, <3>5 DEF C!Form
    <3>7. row.type \in C!ChannelTypes /\ row.triggers \in SUBSET Triggers
      BY DEF C!Payload
    <3>8. channelForm' = [channelForm EXCEPT !.show = TRUE, !.editId = c, !.type = row.type,
                                             !.triggers = row.triggers, !.field = g]
      BY <3>2, <3>5 DEF C!LoadRow
    <3> QED BY <2>0, <3>2, <3>6, <3>7, <3>8 DEF C!Form, FreshChannel
  <2> QED BY <2>1, <2>2, <2>3, <2>4, <2>5
<1>3. C!TypeOK'
  BY <1>1, <1>2 DEF C!TypeOK
<1>4. (C!FreshAdd /\ SaveFits)'
  BY <1>1 DEF C!FreshAdd, SaveFits
<1> QED BY <1>2, <1>3, <1>4

\* A request takes the fields of the type the form shows.
LEMMA ChannelSaveSent ==
    ASSUME ChannelInv, NEW i \in Slots, C!Save(i)
    PROVE  ChannelInv'
<1> USE DEF ChannelInv
<1> DEFINE p == C!BuildPayload(channelForm)
<1>0. channelForm \in C!Form
  BY DEF C!TypeOK
<1>1. /\ p \in C!Payload /\ DOMAIN p.config = C!FieldsOf(p.type)
      /\ channelForm.editId = None => \A k \in DOMAIN p.config : p.config[k] \in {New, Empty}
  <2>1. C!FieldsOf(channelForm.type) \subseteq C!Fields
    BY <1>0 DEF C!Form, C!Fields
  <2>2. /\ p.type = channelForm.type /\ p.triggers = channelForm.triggers
        /\ p.config = [k \in C!FieldsOf(channelForm.type) |-> channelForm.field[k]]
        /\ p = [type |-> p.type, config |-> p.config, triggers |-> p.triggers]
    BY DEF C!BuildPayload, C!BuildConfig
  <2>3. p.config \in [C!FieldsOf(p.type) -> C!Value]
    BY <1>0, <2>1, <2>2 DEF C!Form
  <2>4. channelForm.show
    BY DEF C!Save
  <2> HIDE DEF p
  <2>5. p \in C!Payload
    BY <1>0, <2>2, <2>3 DEF C!Payload, C!Form
  <2> QED BY <2>1, <2>2, <2>3, <2>4, <2>5 DEF FreshChannel
<1> HIDE DEF p
<1>2. /\ UNCHANGED <<channels, channelRows, channelLoading, channelForm>>
      /\ channelSaves' = [channelSaves EXCEPT ![i] =
                             [id |-> channelForm.editId, payload |-> p, live |-> TRUE,
                              read |-> None]]
  BY DEF C!Save, p
<1>3. C!TypeOK'
  BY <1>0, <1>1, <1>2 DEF C!TypeOK, C!Form, C!SaveRequest
<1>4. FreshChannel'
  BY <1>2 DEF FreshChannel
<1>5. (C!FreshAdd /\ SaveFits)'
  BY <1>1, <1>2 DEF C!TypeOK, C!FreshAdd, SaveFits
<1> QED BY <1>3, <1>4, <1>5

\* A request that ends, on a page that was left or not.
LEMMA ChannelSaveEnds ==
    ASSUME ChannelInv, NEW i \in Slots,
           channelSaves' = [channelSaves EXCEPT ![i] = C!NoSave],
           channelForm' = C!BlankForm \/ channelForm' = channelForm,
           channelLoading' \in BOOLEAN, UNCHANGED channelRows,
           channels' \in [Channels -> C!Payload \cup {None, Deleted}]
    PROVE  ChannelInv'
<1> USE DEF ChannelInv
<1>1. C!BlankForm \in C!Form /\ ~C!BlankForm.show
  BY ConsoleAssumption DEF C!BlankForm, C!Form, C!ChannelTypes, C!Value
<1>2. C!TypeOK' /\ FreshChannel'
  BY <1>1 DEF C!TypeOK, FreshChannel
<1>3. C!FreshAdd' /\ SaveFits'
  BY DEF C!FreshAdd, SaveFits, C!TypeOK
<1> QED BY <1>2, <1>3

\* What a request creates.
LEMMA ChannelCreated ==
    ASSUME NEW c \in Channels, NEW p \in C!Payload, DOMAIN p.config = C!FieldsOf(p.type)
    PROVE  C!Created(c, p) \in C!Payload
           /\ DOMAIN C!Created(c, p).config = C!FieldsOf(C!Created(c, p).type)
<1>1. PICK t \in C!ChannelTypes : p.config \in [C!FieldsOf(t) -> C!Value]
  BY DEF C!Payload
<1>2. PICK f : f = [k \in DOMAIN p.config |-> IF p.config[k] = New THEN c ELSE p.config[k]]
  OBVIOUS
<1>3. PICK r : r = C!Created(c, p)
  OBVIOUS
<1>4. r = [p EXCEPT !.config = f]
  BY <1>2, <1>3 DEF C!Created
<1>5. f \in [C!FieldsOf(t) -> C!Value] /\ DOMAIN f = DOMAIN p.config
  BY <1>1, <1>2 DEF C!Value
<1>6. /\ r.type = p.type /\ r.config = f /\ r.triggers = p.triggers
      /\ r = [type |-> r.type, config |-> r.config, triggers |-> r.triggers]
  BY <1>4 DEF C!Payload
<1>7. r \in C!Payload
  BY <1>5, <1>6 DEF C!Payload
<1> QED BY <1>3, <1>5, <1>6, <1>7

\* What an update writes.
LEMMA ChannelWritten ==
    ASSUME NEW current \in C!Payload, NEW read \in C!Payload, NEW p \in C!Payload,
           NEW w \in C!Written(current, read, C!UpdateRow(read, p))
    PROVE  w \in C!Payload /\ (read = current => w.type = p.type /\ w.config = p.config)
<1>1. PICK c : /\ c = p.config \/ (c = current.config /\ p.config = read.config)
               /\ w = [type |-> IF p.type = read.type THEN current.type ELSE p.type, config |-> c,
                       triggers |-> IF p.triggers = read.triggers THEN current.triggers
                                                                  ELSE p.triggers]
  BY DEF C!Written, C!UpdateRow
<1>2. w \in C!Payload
  BY <1>1 DEF C!Payload
<1>3. ASSUME read = current PROVE w.type = p.type /\ w.config = p.config
  BY <1>1, <1>3
<1> QED BY <1>2, <1>3

\* What an update under way carries and meets.
LEMMA ChannelUpdateFacts ==
    ASSUME ChannelInv, NEW i \in Slots, C!UpdateDone(i)
    PROVE  LET c == channelSaves[i].id
               r == channelSaves[i].read
               p == channelSaves[i].payload
           IN  /\ c \in Channels /\ r \in C!Payload /\ r # None /\ channels[c] \in C!Payload
               /\ p \in C!Payload /\ DOMAIN p.config = C!FieldsOf(p.type)
               /\ \E w \in C!Written(channels[c], r, C!UpdateRow(r, p)) :
                      channels' = [channels EXCEPT ![c] = w]
<1>1. channelSaves[i] # C!NoSave /\ channelSaves[i].read # None
  BY DEF C!UpdateDone, C!NoSave
<1>2. PICK r \in C!SaveRequest : r = channelSaves[i]
  BY <1>1 DEF ChannelInv, C!TypeOK
<1>3. /\ r.read \in C!Payload /\ r.payload \in C!Payload
      /\ DOMAIN r.payload.config = C!FieldsOf(r.payload.type)
  BY <1>1, <1>2 DEF C!SaveRequest, ChannelInv, SaveFits
<1>4. r.id \in Channels /\ channels[r.id] \in C!Payload
  BY <1>1, <1>2 DEF ChannelInv, C!TypeOK, SaveFits, C!UpdateDone, C!Stores, C!SaveRequest
<1>5. \E w \in C!Written(channels[r.id], r.read, C!UpdateRow(r.read, r.payload)) :
          channels' = [channels EXCEPT ![r.id] = w]
  BY <1>2 DEF C!UpdateDone
<1> QED BY <1>1, <1>2, <1>3, <1>4, <1>5

\* A channel is created, read, updated, or the request fails.
LEMMA ChannelSaveDone ==
    ASSUME ChannelInv, NEW i \in Slots,
           C!CreateDone(i) \/ C!UpdateRead(i) \/ C!UpdateDone(i) \/ C!SaveFails(i)
    PROVE  ChannelInv'
<1> USE DEF ChannelInv
<1>1. CASE C!CreateDone(i)
  <2>1. PICK p \in C!Payload : p = channelSaves[i].payload /\ DOMAIN p.config = C!FieldsOf(p.type)
    BY <1>1 DEF C!CreateDone, C!TypeOK, C!SaveRequest, SaveFits
  <2>2. PICK c \in Channels : channels' = [channels EXCEPT ![c] = C!Created(c, p)]
    BY <1>1, <2>1 DEF C!CreateDone
  <2>3. channels' \in [Channels -> C!Payload \cup {None, Deleted}]
    BY <2>1, <2>2, ChannelCreated DEF C!TypeOK
  <2> QED BY <1>1, <2>3, ChannelSaveEnds DEF C!CreateDone, C!SaveAnswered, C!TypeOK, C!SaveRequest
<1>2. CASE C!UpdateRead(i)
  <2>1. PICK r \in C!SaveRequest : r = channelSaves[i] /\ r.id # None
    BY <1>2 DEF C!UpdateRead, C!TypeOK
  <2>2. PICK row \in C!Payload : row = channels[r.id]
    BY <1>2, <2>1 DEF C!UpdateRead, C!Stores, C!TypeOK, C!SaveRequest
  <2>3. PICK q : q = [r EXCEPT !.read = row]
    OBVIOUS
  <2>4. q \in C!SaveRequest /\ q.id = r.id /\ q.payload = r.payload
    BY <2>1, <2>2, <2>3 DEF C!SaveRequest
  <2>5. /\ channelSaves' = [channelSaves EXCEPT ![i] = q]
        /\ UNCHANGED <<channels, channelRows, channelLoading, channelForm>>
    BY <1>2, <2>1, <2>2, <2>3 DEF C!UpdateRead
  <2>6. C!TypeOK' /\ FreshChannel'
    BY <2>4, <2>5 DEF C!TypeOK, FreshChannel
  <2>7. (C!FreshAdd /\ SaveFits)'
    BY <1>2, <2>1, <2>4, <2>5 DEF C!UpdateRead, C!TypeOK, C!FreshAdd, SaveFits
  <2> QED BY <2>6, <2>7
<1>3. CASE C!UpdateDone(i)
  <2>1. PICK c, read, p :
            c = channelSaves[i].id /\ read = channelSaves[i].read /\ p = channelSaves[i].payload
    OBVIOUS
  <2>2. /\ c \in Channels /\ read \in C!Payload /\ channels[c] \in C!Payload
        /\ p \in C!Payload
        /\ \E w \in C!Written(channels[c], read, C!UpdateRow(read, p)) :
               channels' = [channels EXCEPT ![c] = w]
    BY <1>3, <2>1, ChannelUpdateFacts
  <2>3. channels' \in [Channels -> C!Payload \cup {None, Deleted}]
    BY <2>2, ChannelWritten DEF C!TypeOK
  <2> QED BY <1>3, <2>3, ChannelSaveEnds DEF C!UpdateDone, C!SaveAnswered, C!TypeOK
<1>4. CASE C!SaveFails(i)
  <2>1. UNCHANGED <<channels, channelRows, channelLoading, channelForm>>
    BY <1>4 DEF C!SaveFails
  <2> QED BY <1>4, <2>1, ChannelSaveEnds DEF C!SaveFails, C!TypeOK
<1> QED BY <1>1, <1>2, <1>3, <1>4

\* No step leaves a config with other fields than those of its type, but an
\* update that met another row than it had read.
LEMMA ChannelTidy ==
    ASSUME ChannelInv,
           C!UserStep \/ C!Load \/ C!SaveStep \/ C!Leave \/ C!Mount \/ UNCHANGED channelVars
    PROVE  C!TidySave
<1> SUFFICES ASSUME NEW c \in Channels, C!Stores(c)', channels'[c] # channels[c]
             PROVE  \/ DOMAIN channels'[c].config = C!FieldsOf(channels'[c].type)
                    \/ C!Overlaps(c)
  BY DEF C!TidySave
<1>1. PICK i \in Slots : C!CreateDone(i) \/ C!UpdateDone(i)
  <2>1. ASSUME NEW d \in Channels, C!Delete(d) PROVE FALSE
    BY <2>1 DEF C!Delete, C!Stores, ChannelInv, C!TypeOK
  <2> QED BY <2>1 DEF C!UserStep, C!OpenNew, C!Cancel, C!EditFields, C!Set, C!OpenEdit, C!Save,
                      C!toggleTrigger, C!Load, C!SaveStep, C!SaveFails, C!UpdateRead, C!Leave,
                      C!Mount, channelVars
<1>2. CASE C!CreateDone(i)
  <2>1. PICK p \in C!Payload : p = channelSaves[i].payload /\ DOMAIN p.config = C!FieldsOf(p.type)
    BY <1>2 DEF C!CreateDone, ChannelInv, C!TypeOK, C!SaveRequest, SaveFits
  <2>2. PICK d \in Channels : channels' = [channels EXCEPT ![d] = C!Created(d, p)]
    BY <1>2, <2>1 DEF C!CreateDone
  <2>3. d = c /\ channels'[c] = C!Created(c, p)
    BY <2>2 DEF ChannelInv, C!TypeOK
  <2> QED BY <2>1, <2>3, ChannelCreated
<1>3. CASE C!UpdateDone(i)
  <2>1. PICK d, read, p :
            d = channelSaves[i].id /\ read = channelSaves[i].read /\ p = channelSaves[i].payload
    OBVIOUS
  <2>2. /\ d \in Channels /\ read \in C!Payload /\ read # None /\ channels[d] \in C!Payload
        /\ p \in C!Payload /\ DOMAIN p.config = C!FieldsOf(p.type)
        /\ \E w \in C!Written(channels[d], read, C!UpdateRow(read, p)) :
               channels' = [channels EXCEPT ![d] = w]
    BY <1>3, <2>1, ChannelUpdateFacts
  <2> PICK w \in C!Written(channels[d], read, C!UpdateRow(read, p)) :
          channels' = [channels EXCEPT ![d] = w]
    BY <2>2
  <2>3. d = c /\ channels'[c] = w
    BY <2>2 DEF ChannelInv, C!TypeOK
  <2>4. read = channels[d] => w.type = p.type /\ w.config = p.config
    BY <2>2, ChannelWritten
  <2>5. channelSaves'[i] = C!NoSave
    BY <1>3 DEF C!UpdateDone, C!SaveAnswered, ChannelInv, C!TypeOK
  <2> QED BY <2>1, <2>2, <2>3, <2>4, <2>5 DEF C!Overlaps
<1> QED BY <1>1, <1>2, <1>3

\* Deleting a channel, and the list.
LEMMA ChannelDeleteAndLoad ==
    ASSUME ChannelInv, C!Load \/ C!Mount \/ \E c \in Channels : C!Delete(c)
    PROVE  ChannelInv'
<1> USE DEF ChannelInv
<1>1. /\ UNCHANGED <<channelForm, channelSaves>>
      /\ channelLoading' \in BOOLEAN
      /\ channelRows' \in [Channels -> C!Payload \cup {None, Deleted}]
  BY DEF C!Load, C!Mount, C!Delete, C!TypeOK
<1>2. \/ UNCHANGED channels
      \/ \E c \in Channels : channels' = [channels EXCEPT ![c] = Deleted]
  BY DEF C!Load, C!Mount, C!Delete
<1> QED BY <1>1, <1>2 DEF C!TypeOK, C!FreshAdd, FreshChannel, SaveFits

\* The requests outlive the page, their answers find none.
LEMMA ChannelPageLeft == ASSUME ChannelInv, C!Leave PROVE ChannelInv'
<1> USE DEF ChannelInv
<1>1. C!BlankForm \in C!Form /\ ~C!BlankForm.show
  BY ConsoleAssumption DEF C!BlankForm, C!Form, C!ChannelTypes, C!Value
<1>2. ASSUME NEW i \in Slots
      PROVE  LET e == [channelSaves[i] EXCEPT !.live = FALSE]
             IN  /\ e \in C!SaveRequest \cup {C!NoSave}
                 /\ e # C!NoSave => channelSaves[i] # C!NoSave
                 /\ e.payload = channelSaves[i].payload /\ e.id = channelSaves[i].id
                 /\ e.read = channelSaves[i].read
  <2> DEFINE e == [channelSaves[i] EXCEPT !.live = FALSE]
  <2>0. channelSaves[i] \in C!SaveRequest \/ channelSaves[i] = C!NoSave
    BY DEF C!TypeOK
  <2>1. ASSUME channelSaves[i] = C!NoSave PROVE e = C!NoSave
    <3>0. C!NoSave["live"] = FALSE
      BY DEF C!NoSave
    <3>1. DOMAIN e = DOMAIN C!NoSave /\ \A k \in DOMAIN e : e[k] = C!NoSave[k]
      BY <2>1, <3>0
    <3>2. e = [k \in DOMAIN e |-> e[k]]
      BY <2>1 DEF C!NoSave
    <3>3. C!NoSave = [k \in DOMAIN C!NoSave |-> C!NoSave[k]]
      BY DEF C!NoSave
    <3> QED BY <3>1, <3>2, <3>3
  <2>2. channelSaves[i] \in C!SaveRequest => e \in C!SaveRequest
    BY DEF C!SaveRequest
  <2>3. /\ e.payload = channelSaves[i].payload /\ e.id = channelSaves[i].id
        /\ e.read = channelSaves[i].read
    BY <2>0 DEF C!SaveRequest, C!NoSave
  <2> QED BY <2>0, <2>1, <2>2, <2>3
<1>3. C!TypeOK'
  BY <1>1, <1>2 DEF C!TypeOK, C!Leave
<1>4. (C!FreshAdd /\ SaveFits)'
  BY <1>2 DEF C!Leave, C!FreshAdd, SaveFits
<1>5. FreshChannel'
  BY <1>1 DEF C!Leave, FreshChannel
<1> QED BY <1>3, <1>4, <1>5

\* Every step the console takes of the notifications page keeps its invariant.
LEMMA ChannelStep ==
    ASSUME ChannelInv,
           C!UserStep \/ C!Load \/ C!SaveStep \/ C!Leave \/ C!Mount \/ UNCHANGED channelVars
    PROVE  ChannelInv'
<1>1. CASE UNCHANGED channelVars
  BY <1>1 DEF channelVars, ChannelInv, C!TypeOK, C!FreshAdd, FreshChannel, SaveFits
<1> QED BY <1>1, ChannelFormSteps, ChannelSaveSent, ChannelSaveDone, ChannelDeleteAndLoad,
           ChannelPageLeft
        DEF C!UserStep, C!SaveStep

-----------------------------------------------------------------------------
(* The console.                                                            *)

IInv == ServerInv /\ ChannelInv /\ page \in {"servers", "notifications"} /\ clicks \in 0..MaxClicks

\* Both invariants hold when the console is opened.
LEMMA Initial == Init => IInv
BY ServerInitial, ChannelInitial, ConsoleAssumption DEF Init, IInv

\* A step of the console is a step of either page, or leaves it alone.
LEMMA PageSteps == [Next]_vars =>
    /\ S!UserStep \/ S!Load \/ S!SaveStep \/ S!Leave \/ S!Mount \/ UNCHANGED serverVars
    /\ C!UserStep \/ C!Load \/ C!SaveStep \/ C!Leave \/ C!Mount \/ UNCHANGED channelVars
BY DEF Next, OnServers, OnNotifications, ToServers, ToNotifications, Answer, vars

\* Every step keeps both.
LEMMA Step == IInv /\ [Next]_vars => IInv'
<1> SUFFICES ASSUME IInv, [Next]_vars PROVE IInv'
  OBVIOUS
<1>1. page' \in {"servers", "notifications"} /\ clicks' \in 0..MaxClicks
  BY ConsoleAssumption
     DEF IInv, Next, OnServers, OnNotifications, ToServers, ToNotifications, Answer, Click, vars
<1> QED BY <1>1, PageSteps, ServerStep, ChannelStep DEF IInv

\* Every reachable state of the console is well typed.
THEOREM TypeCorrect == Spec => []TypeOK
<1>1. IInv => TypeOK
  BY DEF IInv, TypeOK, ServerInv, ChannelInv
<1> QED BY Initial, Step, <1>1, PTL DEF Spec

\* A server holds no secret typed into another one's form, and a channel is
\* created from nothing typed before, whatever is answered after its form or
\* its page is gone.
THEOREM SecretsStayOwn == Spec => []OwnSecrets
<1>1. IInv => OwnSecrets
  BY DEF IInv, OwnSecrets, ServerInv, ChannelInv
<1> QED BY Initial, Step, <1>1, PTL DEF Spec

\* A save leaves no password and no field of the type before, but an API token,
\* unless it overlapped another update.
THEOREM LittleLeft == Spec => NoLeftovers
<1>1. IInv /\ [Next]_vars => [S!TidySave /\ C!TidySave]_vars
  BY PageSteps, ServerTidy, ChannelTidy DEF IInv
<1> QED BY Initial, Step, <1>1, PTL DEF Spec, NoLeftovers

\* A reopened server: nothing is lost but what the form cannot show.
LEMMA ServerReopened == ServerInv => S!ReopenedIsSame
<1> SUFFICES ASSUME ServerInv, NEW s \in Servers, S!Stores(s)
             PROVE  S!UpdateRow(servers[s], S!BuildPayload(S!LoadRow(s, servers[s]))) =
                        [servers[s] EXCEPT !.ssh_password = Empty, !.db_password = Empty,
                             !.api_token = IF servers[s].auth = "api" THEN Empty ELSE @]
  BY Zenon DEF S!ReopenedIsSame
<1>1. PICK r : r = servers[s]
  OBVIOUS
<1>2. r \in S!Payload
  BY <1>1 DEF ServerInv, S!TypeOK, S!Stores
<1>3. PICK p : p = S!BuildPayload(S!LoadRow(s, r))
  OBVIOUS
<1>4. p = [auth |-> r.auth, hasDb |-> r.hasDb, ssh_password |-> Empty,
           db_password |-> Empty, api_token |-> Empty]
  BY <1>3 DEF S!BuildPayload, S!LoadRow, S!emptyForm
<1>5. S!UpdateRow(r, p) =
          [auth |-> r.auth, hasDb |-> r.hasDb, ssh_password |-> Empty, db_password |-> Empty,
           api_token |-> IF r.auth = "api" THEN Empty ELSE r.api_token]
  BY <1>4 DEF S!UpdateRow
<1>6. [r EXCEPT !.ssh_password = Empty, !.db_password = Empty,
                !.api_token = IF r.auth = "api" THEN Empty ELSE @] =
          [auth |-> r.auth, hasDb |-> r.hasDb, ssh_password |-> Empty, db_password |-> Empty,
           api_token |-> IF r.auth = "api" THEN Empty ELSE r.api_token]
  <2>1. PICK token : token = IF r.auth = "api" THEN Empty ELSE r.api_token
    OBVIOUS
  <2>2. [r EXCEPT !.ssh_password = Empty, !.db_password = Empty, !.api_token = token] =
            [auth |-> r.auth, hasDb |-> r.hasDb, ssh_password |-> Empty,
             db_password |-> Empty, api_token |-> token]
    <3>1. PICK e : e = [r EXCEPT !.ssh_password = Empty, !.db_password = Empty,
                                 !.api_token = token]
      OBVIOUS
    <3>2. r = [k \in {"auth", "hasDb", "ssh_password", "db_password", "api_token"} |-> r[k]]
      BY <1>2, Zenon DEF S!Payload
    <3>3. e = [auth |-> r.auth, hasDb |-> r.hasDb, ssh_password |-> Empty,
               db_password |-> Empty, api_token |-> token]
      BY <3>1, <3>2
    <3> QED BY <3>1, <3>3
  <2> QED BY <2>1, <2>2
<1> QED BY <1>1, <1>3, <1>5, <1>6

\* A reopened channel: its secret is lost.
LEMMA ChannelReopened == ChannelInv => C!ReopenedIsSame
<1> SUFFICES ASSUME ChannelInv, NEW c \in Channels, C!Stores(c)
             PROVE  C!UpdateRow(channels[c],
                                C!BuildPayload(C!LoadRow(C!BlankForm, c, channels[c]))) =
                        [channels[c] EXCEPT !.config = [k \in C!FieldsOf(channels[c].type) |->
                             IF k \in C!SecretFields[channels[c].type] \/ k \notin DOMAIN @
                             THEN Empty ELSE @[k]]]
  BY DEF C!ReopenedIsSame
<1>1. PICK r \in C!Payload : r = channels[c]
  BY DEF ChannelInv, C!TypeOK, C!Stores
<1>2. r.type \in C!ChannelTypes /\ C!FieldsOf(r.type) \subseteq C!Fields
  BY DEF C!Payload, C!Fields
<1>3. PICK g : g = [k \in C!FieldsOf(r.type) |->
                        IF k \in C!SecretFields[r.type] \/ k \notin DOMAIN r.config
                        THEN Empty ELSE r.config[k]]
  OBVIOUS
<1>4. PICK f : f = C!LoadRow(C!BlankForm, c, r)
  OBVIOUS
<1>5. /\ f.type = r.type /\ f.triggers = r.triggers
      /\ \A k \in C!Fields : k \in C!FieldsOf(r.type) => f.field[k] = C!Shown(r, k)
  BY <1>4 DEF C!LoadRow, C!BlankForm
<1>6. \A k \in C!FieldsOf(r.type) : k \in C!OpenFields[r.type] <=> k \notin C!SecretFields[r.type]
  BY <1>2 DEF C!FieldsOf, C!ChannelTypes, C!OpenFields, C!SecretFields
<1>7. \A k \in C!FieldsOf(r.type) : f.field[k] = g[k]
  BY <1>2, <1>3, <1>5, <1>6 DEF C!Shown
<1>8. C!BuildConfig(f) = g
  BY <1>3, <1>5, <1>7 DEF C!BuildConfig
<1>9. C!UpdateRow(r, C!BuildPayload(f)) = [type |-> r.type, config |-> g, triggers |-> r.triggers]
  BY <1>5, <1>8 DEF C!UpdateRow, C!BuildPayload
<1>10. [r EXCEPT !.config = g] = [type |-> r.type, config |-> g, triggers |-> r.triggers]
  BY DEF C!Payload
<1> QED BY <1>1, <1>3, <1>4, <1>9, <1>10

\* Saving an opened server or channel untouched loses its secrets and changes
\* nothing else.
THEOREM ReopenChangesNothingElse == Spec => []ReopenedIsSame
<1>1. IInv => ReopenedIsSame
  BY ServerReopened, ChannelReopened DEF IInv, ReopenedIsSame
<1> QED BY Initial, Step, <1>1, PTL DEF Spec
=============================================================================
