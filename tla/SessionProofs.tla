--------------------------- MODULE SessionProofs ---------------------------
(***************************************************************************)
(* Signing in, for any number of tabs, names and accounts: the ranges of   *)
(* the state, and that the accounts cannot be changed any more once no     *)
(* active administrator is left and no request of one is under way.        *)
(***************************************************************************)
EXTENDS Session, TLAPS

Phases == {"none", "sent", "allowed", "ok", "needs_setup", "refused", "401"}
Tokens == Names \cup {None, Expired}

\* The requests of a slot: one the API has still to answer is known, only
\* setup and what needs an administrator is ever allowed, and what is known of
\* an answered one is who is signed in by it.
Calls == {c \in [ask : Asks \cup {None, Poll, Status}, token : Names \cup {None},
                 by : Ids \cup {None}, phase : Phases] :
              /\ c.phase \in {"sent", "allowed"} => c.ask \in Asks \cup {Poll, Status}
              /\ c.phase = "allowed" => c.ask.kind \in Admins \cup {"setup"}
              /\ c.phase = "ok" /\ c.ask # None => c.ask.kind \in TokenKinds}

Ranges ==
    /\ accounts \in [Ids -> Account \cup {None, Deleted}]
    /\ token \in Tokens
    /\ page \in [Tabs -> Pages] /\ checking \in [Tabs -> BOOLEAN]
    /\ calls \in [Tabs -> [Slots -> Calls]]
    /\ clicks \in 0..MaxClicks

\* The ranges kept by every step are those of TypeOK, and a little more.
LEMMA RangesAre == Ranges => TypeOK
BY DEF TypeOK, Ranges, Calls, Tokens, Phases

\* What the operators on requests return.
LEMMA CallTypes ==
    ASSUME Ranges
    PROVE  /\ NoCall \in Calls /\ NoCalls \in [Slots -> Calls]
           /\ \A a \in Asks \cup {Poll, Status} : Sent(a) \in Calls
           /\ \A t \in Tabs, s \in Slots : calls[t][s] \in Calls
           /\ \A t \in Tabs, s \in Slots : Done(t, s) \in [Slots -> Calls]
           /\ \A t \in Tabs : Unloaded(t) \in [Slots -> Calls]
           /\ \A t \in Tabs :
                  [Unloaded(t) EXCEPT !["poll"] = Sent(Poll)] \in [Slots -> Calls]
<1>1. NoCall \in Calls /\ NoCalls \in [Slots -> Calls]
  BY DEF NoCall, NoCalls, Calls, Phases
<1>2. ASSUME NEW a \in Asks \cup {Poll, Status} PROVE Sent(a) \in Calls
  BY DEF Sent, Calls, Phases
<1>3. ASSUME NEW t \in Tabs, NEW s \in Slots
      PROVE  calls[t][s] \in Calls /\ Done(t, s) \in [Slots -> Calls]
  BY <1>1 DEF Ranges, Done
<1>4. ASSUME NEW t \in Tabs PROVE Unloaded(t) \in [Slots -> Calls]
  <2>1. calls[t] \in [Slots -> Calls]
    BY DEF Ranges
  <2>2. calls[t]["act"] \in Calls
    BY <2>1 DEF Slots
  <2>3. PICK place : place = CHOOSE l \in Left : calls[t][l] = NoCall
    OBVIOUS
  <2> QED BY <1>1, <2>1, <2>2, <2>3 DEF Unloaded
<1>5. ASSUME NEW t \in Tabs
      PROVE  [Unloaded(t) EXCEPT !["poll"] = Sent(Poll)] \in [Slots -> Calls]
  BY <1>2, <1>4
<1> QED BY <1>1, <1>2, <1>3, <1>4, <1>5

\* Navigating keeps the ranges.
LEMMA GoToType ==
    ASSUME Ranges, NEW t \in Tabs, NEW p \in Pages, NEW c \in [Slots -> Calls], GoTo(t, p, c)
    PROVE  /\ page' \in [Tabs -> Pages] /\ checking' \in [Tabs -> BOOLEAN]
           /\ calls' \in [Tabs -> [Slots -> Calls]]
<1>1. Mounted(c, p) \in [Slots -> Calls]
  BY CallTypes DEF Mounted, Slots
<1> QED BY <1>1 DEF GoTo, Ranges

\* So does the answer to a request under way.
LEMMA AnsweredType ==
    ASSUME Ranges, NEW t \in Tabs, NEW s \in Slots, NEW p \in Phases \ {"sent"}, Answered(t, s, p),
           calls[t][s].phase \in {"sent", "allowed"},
           p = "allowed" => calls[t][s].ask.kind = "setup",
           accounts' \in [Ids -> Account \cup {None, Deleted}]
    PROVE  Ranges'
<1>1. PICK a : a = calls[t][s].ask
  OBVIOUS
<1>2. a \in Asks \cup {Poll, Status} /\ (p = "allowed" => a.kind = "setup")
  BY <1>1, CallTypes DEF Calls
<1>3. PICK named : named = IF a.kind \in TokenKinds THEN a ELSE None
  OBVIOUS
<1>4. [NoCall EXCEPT !.ask = named, !.phase = p] \in Calls
  BY <1>2, <1>3 DEF NoCall, Calls, TokenKinds
<1>5. calls' = [calls EXCEPT ![t][s] = IF s \in Left /\ p # "allowed" THEN NoCall
                                      ELSE [NoCall EXCEPT !.ask = named, !.phase = p]]
  BY <1>1, <1>3 DEF Answered
<1>6. PICK c : c = IF s \in Left /\ p # "allowed" THEN NoCall
                   ELSE [NoCall EXCEPT !.ask = named, !.phase = p]
  OBVIOUS
<1>7. c \in Calls
  BY <1>4, <1>6, CallTypes
<1>8. calls' \in [Tabs -> [Slots -> Calls]]
  BY <1>5, <1>6, <1>7 DEF Ranges
<1> QED BY <1>8 DEF Answered, Ranges

\* The ranges hold at first.
LEMMA Initial == Init => Ranges
<1> SUFFICES ASSUME Init PROVE Ranges
  OBVIOUS
<1> USE SessionAssumption
<1>1. accounts \in [Ids -> Account \cup {None, Deleted}]
  <2>1. PICK first \in {None} \cup [name : Names, admin : {TRUE}, active : {TRUE}] :
            accounts = [i \in Ids |-> IF i = 1 THEN first ELSE None]
    BY DEF Init
  <2>2. first \in Account \cup {None}
    BY DEF Account
  <2> QED BY <2>1, <2>2
<1>2. NoCalls \in [Slots -> Calls]
  BY DEF NoCalls, NoCall, Calls, Tokens, Phases
<1>3. Sent(Status) \in Calls /\ token \in Tokens
  BY DEF Init, Sent, Calls, Tokens, Phases
<1>4. PICK p \in {"login", "app"} :
          page = [t \in Tabs |-> p] /\ calls = [t \in Tabs |-> Mounted(NoCalls, p)]
  BY DEF Init
<1>5. Mounted(NoCalls, p) \in [Slots -> Calls]
  BY <1>2, <1>3 DEF Mounted
<1>6. checking \in [Tabs -> BOOLEAN] /\ clicks \in 0..MaxClicks
  BY DEF Init
<1> QED BY <1>1, <1>3, <1>4, <1>5, <1>6 DEF Ranges, Pages

\* Every step keeps them.
LEMMA Step == Ranges /\ [Next]_vars => Ranges'
<1> SUFFICES ASSUME Ranges, [Next]_vars PROVE Ranges'
  OBVIOUS
<1> USE SessionAssumption
<1>1. ASSUME NEW t \in Tabs, Open(t) PROVE Ranges'
  <2>1. PICK c : c = [Unloaded(t) EXCEPT !["poll"] = Sent(Poll)]
    OBVIOUS
  <2>2. c \in [Slots -> Calls] /\ \E p \in Pages : GoTo(t, p, c)
    BY <1>1, <2>1, CallTypes DEF Open, Pages
  <2> QED BY <1>1, <2>2, GoToType DEF Open, Click, Ranges
<1>2. ASSUME NEW t \in Tabs, logout(t) PROVE Ranges'
  BY <1>2, CallTypes, GoToType DEF logout, Click, Ranges, Pages, Tokens
<1>3. ASSUME NEW t \in Tabs, NEW a \in Asks, Ask(t, a) PROVE Ranges'
  <2>1. Sent(a) \in Calls
    BY CallTypes
  <2>2. calls' = [calls EXCEPT ![t]["act"] = Sent(a)]
    BY <1>3 DEF Ask
  <2>3. calls' \in [Tabs -> [Slots -> Calls]]
    BY <2>1, <2>2 DEF Ranges, Slots
  <2> QED BY <1>3, <2>3 DEF Ask, Click, Ranges
<1>4. ASSUME NEW t \in Tabs,
             \/ handleLogin(t) \/ handleSetup(t) \/ handleCreate(t)
             \/ handleUpdate(t) \/ handleDelete(t)
      PROVE  Ranges'
  <2>1. \E a \in Asks : Ask(t, a)
    BY <1>4 DEF handleLogin, handleSetup, handleCreate, handleUpdate, handleDelete, Asks
  <2> QED BY <1>3, <2>1
<1>5. ASSUME NEW t \in Tabs, PollDashboard(t) PROVE Ranges'
  BY <1>5, CallTypes DEF PollDashboard, Ranges, Slots
<1>6. ASSUME NEW t \in Tabs, TokenStored(t) PROVE Ranges'
  <2>1. calls[t]["act"] \in Calls /\ Done(t, "act") \in [Slots -> Calls]
    BY CallTypes DEF Slots
  <2>2. calls[t]["act"].ask.name \in Names
    BY <1>6, <2>1 DEF TokenStored, Calls, Asks, Poll, Status, TokenKinds
  <2> QED BY <1>6, <2>1, <2>2, GoToType DEF TokenStored, Ranges, Pages, Tokens
<1>7. ASSUME NEW t \in Tabs, StatusAnswered(t) PROVE Ranges'
  <2>1. Done(t, "status") \in [Slots -> Calls]
    BY CallTypes DEF Slots
  <2> QED BY <1>7, <2>1, GoToType DEF StatusAnswered, Ranges, Pages
<1>8. ASSUME NEW t \in Tabs, NEW s \in Slots, AuthoriseAdmin(t, s) PROVE Ranges'
  <2>0. calls[t][s] \in Calls
    BY CallTypes
  <2>1. CASE Answered(t, s, "401") \/ Answered(t, s, "refused")
    BY <1>8, <2>1, AnsweredType DEF AuthoriseAdmin, Ranges, Phases
  <2>2. ASSUME NEW i \in Ids, calls[t][s].phase = "sent", calls[t][s].ask.kind \in Admins,
               calls' = [calls EXCEPT ![t][s] =
                             [@ EXCEPT !.by = i, !.token = None, !.phase = "allowed"]],
               UNCHANGED <<token, page, checking, clicks>>
        PROVE  Ranges'
    <3>1. [calls[t][s] EXCEPT !.by = i, !.token = None, !.phase = "allowed"] \in Calls
      BY <2>0, <2>2 DEF Calls, Tokens, Phases
    <3> QED BY <1>8, <2>2, <3>1 DEF AuthoriseAdmin, Ranges
  <2> QED BY <1>8, <2>1, <2>2 DEF AuthoriseAdmin, Users
<1>9. ASSUME NEW t \in Tabs, NEW s \in Slots,
             Dashboard(t, s) \/ setup_status(t, s) \/ login(t, s) \/ CountAccounts(t, s)
      PROVE  Ranges'
  <2>1. UNCHANGED accounts /\ calls[t][s].phase = "sent"
    BY <1>9 DEF Dashboard, setup_status, login, CountAccounts
  <2>2. \E p \in Phases \ {"allowed", "sent"} : Answered(t, s, p) \/ CountAccounts(t, s)
    BY <1>9 DEF Dashboard, setup_status, login, Phases
  <2>3. CASE CountAccounts(t, s)
    BY <2>1, <2>3, AnsweredType DEF CountAccounts, Ranges, Phases
  <2> QED BY <2>1, <2>2, <2>3, AnsweredType DEF Ranges
<1>10. ASSUME NEW t \in Tabs, NEW s \in Slots, Commit(t, s) PROVE Ranges'
  <2>1. /\ calls[t][s] \in Calls /\ calls[t][s].phase = "allowed"
        /\ calls[t][s].ask \in Asks \cup {Poll, Status}
    BY <1>10, CallTypes DEF Commit, Calls
  <2>2. ASSUME Answered(t, s, "ok") \/ Answered(t, s, "refused"),
               accounts' \in [Ids -> Account \cup {None, Deleted}]
        PROVE  Ranges'
    BY <2>1, <2>2, AnsweredType DEF Phases
  <2>3. ASSUME NEW a, a.name \in Names, NEW b \in BOOLEAN, NewAccount(t, s, a, b)
        PROVE  Ranges'
    <3>1. [name |-> a.name, admin |-> b, active |-> TRUE] \in Account
      BY <2>3 DEF Account
    <3>2. accounts' \in [Ids -> Account \cup {None, Deleted}]
      BY <2>3, <3>1 DEF NewAccount, Ranges
    <3> QED BY <2>2, <2>3, <3>2 DEF NewAccount
  <2>4. ASSUME NEW i \in Ids, NEW row, Stored(i) => row \in Account \cup {Deleted},
               NEW r, ChangeAccount(t, s, i, row, r)
        PROVE  Ranges'
    <3>1. accounts' \in [Ids -> Account \cup {None, Deleted}]
      BY <2>4 DEF ChangeAccount, Ranges
    <3> QED BY <2>2, <2>4, <3>1 DEF ChangeAccount
  <2> DEFINE a == calls[t][s].ask
  <2>5. a.kind \in Admins \cup {"setup"} /\ a \in Asks
    BY <2>1 DEF Calls, Admins, Poll, Status
  <2>6. CASE a.kind \in {"setup", "create"}
    <3>1. a.name \in Names
      BY <2>5, <2>6 DEF Asks
    <3>2. CASE a.kind = "setup"
      <4>1. NewAccount(t, s, a, TRUE)
        BY <1>10, <3>2 DEF Commit
      <4> QED BY <2>3, <3>1, <4>1
    <3>3. CASE a.kind = "create"
      <4>1. NewAccount(t, s, a, a.admin) /\ a.admin \in BOOLEAN
        BY <1>10, <2>5, <3>3 DEF Commit, Asks
      <4> QED BY <2>3, <3>1, <4>1
    <3> QED BY <2>6, <3>2, <3>3
  <2>7. CASE a.kind \in {"admin", "active"}
    <3>1. a.id \in Ids /\ a.value \in BOOLEAN
      BY <2>5, <2>7 DEF Asks
    <3>2. Stored(a.id) => /\ [accounts[a.id] EXCEPT !.admin = a.value] \in Account
                          /\ [accounts[a.id] EXCEPT !.active = a.value] \in Account
      BY <3>1 DEF Stored, Ranges, Account
    <3>3. CASE a.kind = "admin"
      <4>1. ChangeAccount(t, s, a.id, [accounts[a.id] EXCEPT !.admin = a.value], FALSE)
        BY <1>10, <3>3 DEF Commit
      <4> QED BY <2>4, <3>1, <3>2, <4>1
    <3>4. CASE a.kind = "active"
      <4>1. ChangeAccount(t, s, a.id, [accounts[a.id] EXCEPT !.active = a.value], FALSE)
        BY <1>10, <3>4 DEF Commit
      <4> QED BY <2>4, <3>1, <3>2, <4>1
    <3> QED BY <2>7, <3>3, <3>4
  <2>8. CASE a.kind = "delete"
    <3>1. a.id \in Ids
      BY <2>5, <2>8 DEF Asks
    <3>2. ChangeAccount(t, s, a.id, Deleted, a.id = calls[t][s].by)
      BY <1>10, <2>8 DEF Commit
    <3> QED BY <2>4, <3>1, <3>2
  <2> QED BY <2>5, <2>6, <2>7, <2>8 DEF Admins
<1>11. ASSUME NEW t \in Tabs, NEW s \in Slots, Unauthorised(t, s) PROVE Ranges'
  BY <1>11, CallTypes, GoToType DEF Unauthorised, Ranges, Pages, Tokens
<1>12. ASSUME NEW t \in Tabs, NEW s \in Slots, Ignored(t, s) \/ Fails(t, s) PROVE Ranges'
  <2>1. checking' \in [Tabs -> BOOLEAN] /\ calls' = [calls EXCEPT ![t] = Done(t, s)]
    BY <1>12 DEF Ignored, Fails, Ranges
  <2> QED BY <1>12, <2>1, CallTypes DEF Ignored, Fails, Ranges
<1>13. CASE Expire
  BY <1>13 DEF Expire, Ranges, Tokens
<1>14. CASE UNCHANGED vars
  BY <1>14 DEF vars, Ranges
<1> QED BY <1>1, <1>2, <1>4, <1>5, <1>6, <1>7, <1>8, <1>9, <1>10, <1>11, <1>12, <1>13, <1>14
        DEF Next, UserStep, Serve, Receive

\* Every reachable state of Session is well typed.
THEOREM TypeCorrect == Spec => []TypeOK
BY Initial, Step, RangesAre, PTL DEF Spec

-----------------------------------------------------------------------------
(* Locking out.                                                            *)

\* Nobody may administer, and a step leaves the accounts alone.
Shut ==
    /\ UNCHANGED accounts
    /\ \A t \in Tabs, s \in Slots : calls'[t][s].phase # "allowed"

\* Giving a tab requests none of which is allowed.
LEMMA ShutTab ==
    ASSUME Ranges, Locked, NEW t \in Tabs, NEW c \in [Slots -> Calls],
           \A s \in Slots : c[s].phase # "allowed",
           calls' = [calls EXCEPT ![t] = c], UNCHANGED accounts
    PROVE  Shut
BY DEF Ranges, Locked, Shut

\* Navigating brings no authorised request.
LEMMA ShutGoTo ==
    ASSUME Ranges, Locked, NEW t \in Tabs, NEW p \in Pages, NEW c \in [Slots -> Calls],
           \A s \in Slots : c[s].phase # "allowed", GoTo(t, p, c), UNCHANGED accounts
    PROVE  Shut
<1>1. Sent(Status) \in Calls /\ Sent(Status).phase = "sent"
  BY CallTypes DEF Sent
<1>2. Mounted(c, p) \in [Slots -> Calls] /\ \A s \in Slots : Mounted(c, p)[s].phase # "allowed"
  BY <1>1 DEF Mounted, Slots
<1>3. calls' = [calls EXCEPT ![t] = Mounted(c, p)]
  BY DEF GoTo
<1> QED BY <1>2, <1>3, ShutTab

\* Answering a request otherwise.
LEMMA ShutAnswer ==
    ASSUME Ranges, Locked, NEW t \in Tabs, NEW s \in Slots, NEW p \in Phases \ {"allowed"},
           Answered(t, s, p), UNCHANGED accounts
    PROVE  Shut
BY DEF Answered, NoCall, Shut, Locked, Ranges

\* Nor does taking an answer.
LEMMA ShutDone ==
    ASSUME Locked, NEW t \in Tabs, NEW s \in Slots
    PROVE  \A r \in Slots : Done(t, s)[r].phase # "allowed"
BY DEF Locked, Done, NoCall

\* And a page load only moves requests.
LEMMA ShutUnloaded ==
    ASSUME Ranges, Locked, NEW t \in Tabs
    PROVE  \A s \in Slots : Unloaded(t)[s].phase # "allowed"
<1>1. calls[t]["act"].phase # "allowed" /\ NoCall.phase # "allowed"
  BY DEF Locked, NoCall, Slots
<1>2. PICK place : place = CHOOSE l \in Left : calls[t][l] = NoCall
  OBVIOUS
<1> QED BY <1>1, <1>2 DEF Unloaded, Locked

\* No step leaves a locked state or changes an account in it.
LEMMA LockedStep == Ranges /\ Locked /\ [Next]_vars => Locked' /\ UNCHANGED accounts
<1> SUFFICES ASSUME Ranges, Locked, [Next]_vars PROVE Shut
  BY DEF Shut, Locked, NoAccount, Stored
<1> USE SessionAssumption
<1>1. ASSUME NEW t \in Tabs, Open(t) PROVE Shut
  <2>1. PICK c : c = [Unloaded(t) EXCEPT !["poll"] = Sent(Poll)]
    OBVIOUS
  <2>2. UNCHANGED accounts /\ \E p \in Pages : GoTo(t, p, c)
    BY <1>1, <2>1 DEF Open, Pages
  <2>3. Unloaded(t) \in [Slots -> Calls] /\ Sent(Poll).phase = "sent"
    BY CallTypes DEF Sent
  <2>4. c \in [Slots -> Calls] /\ \A s \in Slots : c[s].phase # "allowed"
    BY <2>1, <2>3, CallTypes, ShutUnloaded
  <2> QED BY <2>2, <2>4, ShutGoTo
<1>reload. ASSUME NEW t \in Tabs, UNCHANGED accounts, GoTo(t, "login", Unloaded(t)) PROVE Shut
  <2>1. PICK c : c = Unloaded(t)
    OBVIOUS
  <2> QED BY <1>reload, <2>1, CallTypes, ShutUnloaded, ShutGoTo DEF Pages
<1>logout. ASSUME NEW t \in Tabs, logout(t) PROVE Shut
  BY <1>reload, <1>logout DEF logout
<1>2. ASSUME NEW t \in Tabs,
             \/ handleLogin(t) \/ handleSetup(t) \/ handleCreate(t)
             \/ handleUpdate(t) \/ handleDelete(t)
      PROVE  Shut
  <2>1. \E a \in Asks : Ask(t, a)
    BY <1>2 DEF handleLogin, handleSetup, handleCreate, handleUpdate, handleDelete, Asks
  <2>2. ASSUME NEW a \in Asks, Ask(t, a) PROVE Shut
    <3>1. UNCHANGED accounts /\ calls' = [calls EXCEPT ![t]["act"] = Sent(a)]
      BY <2>2 DEF Ask
    <3> QED BY <3>1 DEF Shut, Locked, Ranges, Slots, Sent
  <2> QED BY <2>1, <2>2
<1>3. ASSUME NEW t \in Tabs, PollDashboard(t) PROVE Shut
  BY <1>3 DEF PollDashboard, Shut, Locked, Ranges, Slots, Sent
<1>4. ASSUME NEW t \in Tabs, TokenStored(t) PROVE Shut
  <2>1. UNCHANGED accounts /\ GoTo(t, "app", Done(t, "act"))
    BY <1>4 DEF TokenStored
  <2>2. PICK c : c = Done(t, "act")
    OBVIOUS
  <2>3. c \in [Slots -> Calls] /\ \A s \in Slots : c[s].phase # "allowed"
    BY <2>2, CallTypes, ShutDone DEF Slots
  <2> QED BY <2>1, <2>2, <2>3, ShutGoTo DEF Pages
<1>5. ASSUME NEW t \in Tabs, StatusAnswered(t) PROVE Shut
  <2>1. UNCHANGED accounts /\ \E p \in Pages :
            GoTo(t, p, Done(t, "status")) \/ calls' = [calls EXCEPT ![t] = Done(t, "status")]
    BY <1>5 DEF StatusAnswered, Pages
  <2>2. PICK c : c = Done(t, "status")
    OBVIOUS
  <2>3. c \in [Slots -> Calls] /\ \A s \in Slots : c[s].phase # "allowed"
    BY <2>2, CallTypes, ShutDone DEF Slots
  <2> QED BY <2>1, <2>2, <2>3, ShutGoTo, ShutTab
<1>6. ASSUME NEW t \in Tabs, NEW s \in Slots, AuthoriseAdmin(t, s) PROVE Shut
  <2>1. Answered(t, s, "401") \/ Answered(t, s, "refused")
    BY <1>6 DEF AuthoriseAdmin, Users, Locked
  <2>2. UNCHANGED accounts
    BY <1>6 DEF AuthoriseAdmin
  <2> QED BY <2>1, <2>2, ShutAnswer DEF Phases
<1>7. ASSUME NEW t \in Tabs, NEW s \in Slots,
             Dashboard(t, s) \/ setup_status(t, s) \/ login(t, s) \/ CountAccounts(t, s)
      PROVE  Shut
  <2>1. UNCHANGED accounts /\ \E p \in Phases \ {"allowed"} : Answered(t, s, p)
    BY <1>7 DEF Dashboard, setup_status, login, CountAccounts, Phases, Locked
  <2> QED BY <2>1, ShutAnswer
<1>8. ASSUME NEW t \in Tabs, NEW s \in Slots, Commit(t, s) PROVE Shut
  BY <1>8 DEF Commit, Locked
<1>9. ASSUME NEW t \in Tabs, NEW s \in Slots, Unauthorised(t, s) PROVE Shut
  BY <1>9, <1>reload DEF Unauthorised
<1>10. ASSUME NEW t \in Tabs, NEW s \in Slots, Ignored(t, s) \/ Fails(t, s) PROVE Shut
  <2>1. UNCHANGED accounts /\ calls' = [calls EXCEPT ![t] = Done(t, s)]
    BY <1>10 DEF Ignored, Fails
  <2>2. PICK c : c = Done(t, s)
    OBVIOUS
  <2>3. c \in [Slots -> Calls] /\ \A r \in Slots : c[r].phase # "allowed"
    BY <2>2, CallTypes, ShutDone
  <2> QED BY <2>1, <2>2, <2>3, ShutTab
<1>11. CASE Expire \/ UNCHANGED vars
  BY <1>11 DEF Expire, vars, Shut, Locked
<1> QED BY <1>1, <1>2, <1>3, <1>4, <1>5, <1>6, <1>7, <1>8, <1>9, <1>10, <1>11, <1>logout
        DEF Next, UserStep, Serve, Receive

\* Once no active administrator is left and no request of one is under way,
\* the accounts never change again, however many tabs and accounts there are.
THEOREM LockedOut == Spec => LockedForever
<1>1. Ranges /\ [Next]_vars => [Locked => Locked' /\ UNCHANGED accounts]_vars
  BY LockedStep
<1> QED BY <1>1, Initial, Step, PTL DEF Spec, LockedForever
=============================================================================
