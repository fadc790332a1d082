------------------------------ MODULE Session ------------------------------
(***************************************************************************)
(* Signing in, and the accounts that may.  The tabs of one browser share   *)
(* the token in localStorage (ui/src/lib/api.ts:3-54); each tab shows the  *)
(* login page, the setup page or a page of the application, sends requests *)
(* that carry the token of that moment and acts on their answers whenever  *)
(* they come.  The API authorises a request and then commits it            *)
(* (api/routers/auth.py, api/routers/users.py), each step at a time of its *)
(* own, and whether or not the page that asked is still there.             *)
(***************************************************************************)
EXTENDS Naturals, FiniteSets

CONSTANTS
    Tabs,       \* tabs of one browser
    Names,      \* user names
    None, Deleted, Expired,
    Left,       \* per tab: places for what pages asked that are gone
    MaxIds,     \* bounds of the model: accounts ever created, user actions
    MaxClicks

Ids == 1..MaxIds   \* ids of accounts, each used at most once

ASSUME SessionAssumption ==
    /\ {None, Deleted, Expired} \cap (Names \cup Ids) = {}
    /\ Cardinality({None, Deleted, Expired}) = 3
    /\ MaxIds \in Nat /\ MaxClicks \in Nat
    /\ Left \cap {"poll", "status", "act"} = {}

\* A request costs a click, so that there is a place for every one of them.
ASSUME LeftAssumption == IsFiniteSet(Left) /\ Cardinality(Left) >= MaxClicks

Account == [name : Names, admin : BOOLEAN, active : BOOLEAN]

ASSUME AccountAssumption == {None, Deleted} \cap Account = {}

Pages == {"login", "setup", "app"}
\* The dashboard request of Topbar, the setup status, what the user asked for,
\* and what was asked on pages that are gone.
Slots == {"poll", "status", "act"} \cup Left

\* What the user may ask for; a role other than admin is no administrator.
Asks ==
    [kind : {"login", "setup"}, name : Names] \cup
    [kind : {"create"}, name : Names, admin : BOOLEAN] \cup
    [kind : {"admin", "active"}, id : Ids, value : BOOLEAN] \cup
    [kind : {"delete"}, id : Ids]
Poll == [kind |-> "poll"]
Status == [kind |-> "status"]
Admins == {"create", "admin", "active", "delete"}   \* kinds that need an administrator
TokenKinds == {"login", "setup"}                    \* kinds answered with a token

VARIABLES
    accounts,  \* users
    token,     \* localStorage vm_token: whose it is
    page,      \* per tab: the page shown
    checking,  \* per tab: the setup page waits for the setup status
    calls,     \* per tab and slot: the request under way
    clicks

vars == <<accounts, token, page, checking, calls, clicks>>

\* A request under way: what was asked, the token sent, who asked by that
\* token once it is known, and the answer.
NoCall == [ask |-> None, token |-> None, by |-> None, phase |-> "none"]
NoCalls == [s \in Slots |-> NoCall]
\* The token is kept where the API looks at it, which login and setup do not;
\* there an expired one is as good as none.
Sent(a) ==
    [ask |-> a, by |-> None, phase |-> "sent",
     token |-> IF a.kind \in Admins \cup {"poll"} /\ token \in Names THEN token ELSE None]

Stored(i) == accounts[i] \notin {None, Deleted}
NoAccount == \A i \in Ids : ~Stored(i)
Taken(n) == \E i \in Ids : Stored(i) /\ accounts[i].name = n
\* Mutant of Users: an account that is not active is signed in as well.
UsersInactive(tok) == {i \in Ids : Stored(i) /\ accounts[i].name = tok}

\* The accounts a token signs in.
Users(tok) == {i \in Ids : Stored(i) /\ accounts[i].name = tok /\ accounts[i].active}
SignedIn == Users(token) # {}

\* A page load drops the tab's requests, and nobody hears their answers; but
\* what may change the accounts is carried out by the API all the same.
Unloaded(t) ==
    LET act == calls[t]["act"]
        goesOn == act.phase \in {"sent", "allowed"} /\ act.ask.kind # "login"
        place == CHOOSE l \in Left : calls[t][l] = NoCall
    IN  [s \in Slots |-> CASE s \notin Left          -> NoCall
                         [] goesOn /\ s = place -> act
                         [] OTHER               -> calls[t][s]]

\* Mounting the login page or the setup page asks for the setup status.
Mounted(c, p) == IF p = "app" THEN c ELSE [c EXCEPT !["status"] = Sent(Status)]

\* A soft navigation (router.push, router.replace) leaves requests alone.
GoTo(t, p, c) ==
    /\ page' = [page EXCEPT ![t] = p]
    /\ checking' = [checking EXCEPT ![t] = (p = "setup")]
    /\ calls' = [calls EXCEPT ![t] = Mounted(c, p)]

\* No account or one that may administer; nobody is signed in or every tab is.
Init ==
    /\ \E first \in {None} \cup [name : Names, admin : {TRUE}, active : {TRUE}] :
           accounts = [i \in Ids |-> IF i = 1 THEN first ELSE None]
    /\ \E p \in {"login", "app"} :
           /\ IF p = "login" THEN token = None ELSE token \in {n \in Names : Taken(n)}
           /\ page = [t \in Tabs |-> p]
           /\ calls = [t \in Tabs |-> Mounted(NoCalls, p)]
    /\ checking = [t \in Tabs |-> FALSE]
    /\ clicks = 0

-----------------------------------------------------------------------------
(* The user *)

Click == clicks < MaxClicks /\ clicks' = clicks + 1

\* Opening the console in a tab: Topbar asks for the dashboard, then the
\* layout around it sends a tab without a token to the login page.
Open(t) ==
    /\ Click
    /\ GoTo(t, IF token # None THEN "app" ELSE "login",
            [Unloaded(t) EXCEPT !["poll"] = Sent(Poll)])
    /\ UNCHANGED <<accounts, token>>

\* location.href loads the page anew.
logout(t) ==
    /\ page[t] = "app" /\ Click
    /\ token' = None
    /\ GoTo(t, "login", Unloaded(t))
    /\ UNCHANGED accounts

Ask(t, a) ==
    /\ Click
    /\ calls[t]["act"] = NoCall
    /\ calls' = [calls EXCEPT ![t]["act"] = Sent(a)]
    /\ UNCHANGED <<accounts, token, page, checking>>

handleLogin(t) == page[t] = "login" /\ \E n \in Names : Ask(t, [kind |-> "login", name |-> n])

handleSetup(t) ==
    /\ page[t] = "setup" /\ ~checking[t]
    /\ \E n \in Names : Ask(t, [kind |-> "setup", name |-> n])

handleCreate(t) ==
    /\ page[t] = "app"
    /\ \E n \in Names, b \in BOOLEAN : Ask(t, [kind |-> "create", name |-> n, admin |-> b])

\* The rows of the users page may be as old as the page.
handleUpdate(t) ==
    /\ page[t] = "app"
    /\ \E i \in Ids, k \in {"admin", "active"}, b \in BOOLEAN :
           accounts[i] # None /\ Ask(t, [kind |-> k, id |-> i, value |-> b])

handleDelete(t) ==
    /\ page[t] = "app"
    /\ \E i \in Ids : accounts[i] # None /\ Ask(t, [kind |-> "delete", id |-> i])

UserStep(t) ==
    \/ Open(t) \/ logout(t) \/ handleLogin(t) \/ handleSetup(t)
    \/ handleCreate(t) \/ handleUpdate(t) \/ handleDelete(t)

\* Topbar asks for the dashboard when it is mounted and every 30 seconds.
PollDashboard(t) ==
    /\ page[t] = "app" /\ calls[t]["poll"] = NoCall
    /\ calls' = [calls EXCEPT ![t]["poll"] = Sent(Poll)]
    /\ UNCHANGED <<accounts, token, page, checking, clicks>>

Expire ==
    /\ token \in Names
    /\ token' = Expired
    /\ UNCHANGED <<accounts, page, checking, calls, clicks>>

-----------------------------------------------------------------------------
(* The API *)

\* An answer, or the go-ahead ("allowed"); whose token it brings is known from
\* what was asked.  The answer to a page that is gone is lost.
Answered(t, s, phase) ==
    LET a == calls[t][s].ask
        named == IF a.kind \in TokenKinds THEN a ELSE None
    IN
    /\ calls' = [calls EXCEPT ![t][s] =
                     IF s \in Left /\ phase # "allowed" THEN NoCall
                     ELSE [NoCall EXCEPT !.ask = named, !.phase = phase]]
    /\ UNCHANGED <<token, page, checking, clicks>>

\* get_current_user and require_admin, before the handler runs.
AuthoriseAdmin(t, s) ==
    LET c == calls[t][s]
    IN  /\ c.phase = "sent" /\ c.ask.kind \in Admins
        /\ UNCHANGED accounts
        /\ IF Users(c.token) = {}
           THEN Answered(t, s, "401")
           ELSE \E i \in Users(c.token) :
                    IF accounts[i].admin
                    THEN /\ calls' = [calls EXCEPT ![t][s] =
                                [@ EXCEPT !.by = i, !.token = None, !.phase = "allowed"]]
                         /\ UNCHANGED <<token, page, checking, clicks>>
                    ELSE Answered(t, s, "refused")

Dashboard(t, s) ==
    /\ calls[t][s].phase = "sent" /\ calls[t][s].ask = Poll
    /\ Answered(t, s, IF Users(calls[t][s].token) = {} THEN "401" ELSE "ok")
    /\ UNCHANGED accounts

setup_status(t, s) ==
    /\ calls[t][s].phase = "sent" /\ calls[t][s].ask = Status
    /\ Answered(t, s, IF NoAccount THEN "needs_setup" ELSE "ok")
    /\ UNCHANGED accounts

\* The password may be wrong; the account need not be active.
login(t, s) ==
    LET c == calls[t][s]
    IN  /\ c.phase = "sent" /\ c.ask.kind = "login"
        /\ \E p \in {"ok", "401"} : (p = "ok" => Taken(c.ask.name)) /\ Answered(t, s, p)
        /\ UNCHANGED accounts

\* setup counts the accounts, then commits.
CountAccounts(t, s) ==
    /\ calls[t][s].phase = "sent" /\ calls[t][s].ask.kind = "setup"
    /\ Answered(t, s, IF NoAccount THEN "allowed" ELSE "refused")
    /\ UNCHANGED accounts

\* The name is unique in the table, whatever was read before.
NewAccount(t, s, a, admin) ==
    IF Taken(a.name) THEN Answered(t, s, "refused") /\ UNCHANGED accounts
    ELSE \E i \in Ids :
             /\ accounts[i] = None /\ \A j \in 1..(i - 1) : accounts[j] # None
             /\ accounts' = [accounts EXCEPT ![i] =
                                 [name |-> a.name, admin |-> admin, active |-> TRUE]]
             /\ Answered(t, s, "ok")

ChangeAccount(t, s, i, row, refused) ==
    IF ~Stored(i) \/ refused THEN Answered(t, s, "refused") /\ UNCHANGED accounts
    ELSE accounts' = [accounts EXCEPT ![i] = row] /\ Answered(t, s, "ok")

Commit(t, s) ==
    LET c == calls[t][s]
        a == c.ask
    IN  /\ c.phase = "allowed"
        /\ CASE a.kind = "setup"  -> NewAccount(t, s, a, TRUE)
             [] a.kind = "create" -> NewAccount(t, s, a, a.admin)
             [] a.kind = "admin"  ->
                    ChangeAccount(t, s, a.id, [accounts[a.id] EXCEPT !.admin = a.value], FALSE)
             [] a.kind = "active" ->
                    ChangeAccount(t, s, a.id, [accounts[a.id] EXCEPT !.active = a.value], FALSE)
             [] a.kind = "delete" -> ChangeAccount(t, s, a.id, Deleted, a.id = c.by)

Serve(t, s) ==
    \/ AuthoriseAdmin(t, s) \/ Dashboard(t, s) \/ setup_status(t, s) \/ login(t, s)
    \/ CountAccounts(t, s) \/ Commit(t, s)

-----------------------------------------------------------------------------
(* The answers *)

\* Mutant of Unauthorised: the token is removed, the page stays.
UnauthorisedStays(t, s) ==
    /\ calls[t][s].phase = "401"
    /\ token' = None
    /\ calls' = [calls EXCEPT ![t][s] = NoCall]
    /\ UNCHANGED <<accounts, page, checking, clicks>>

\* apiFetch: a 401, whatever token was sent, removes the token there is now
\* and loads the login page.
Unauthorised(t, s) ==
    /\ calls[t][s].phase = "401"
    /\ token' = None
    /\ GoTo(t, "login", Unloaded(t))
    /\ UNCHANGED <<accounts, clicks>>

Done(t, s) == [calls[t] EXCEPT ![s] = NoCall]

\* Mutant of TokenStored: an answer without a token is stored as well.
TokenStoredAlways(t) ==
    LET c == calls[t]["act"]
    IN  /\ c.phase \in {"ok", "refused"} /\ c.ask # None
        /\ token' = IF c.phase = "ok" THEN c.ask.name ELSE "undefined"
        /\ GoTo(t, "app", Done(t, "act"))
        /\ UNCHANGED <<accounts, clicks>>

\* login and setupAdmin store the token, then their page goes to the dashboard.
TokenStored(t) ==
    LET c == calls[t]["act"]
    IN  /\ c.phase = "ok" /\ c.ask # None
        /\ token' = c.ask.name
        /\ GoTo(t, "app", Done(t, "act"))
        /\ UNCHANGED <<accounts, clicks>>

\* The status is acted on whichever page is shown by then.
StatusAnswered(t) ==
    LET needed == calls[t]["status"].phase = "needs_setup"
        go(p) == GoTo(t, p, Done(t, "status"))
        stay == /\ calls' = [calls EXCEPT ![t] = Done(t, "status")]
                /\ checking' = [checking EXCEPT ![t] = FALSE]
                /\ UNCHANGED page
    IN  /\ calls[t]["status"].phase \in {"ok", "needs_setup"}
        /\ IF checking[t] THEN IF needed THEN stay ELSE go("login")
                          ELSE IF needed THEN go("setup") ELSE stay
        /\ UNCHANGED <<accounts, token, clicks>>

\* Any other answer, and a request that fails, leaves the page as it is.
Ignored(t, s) ==
    /\ \/ calls[t][s].phase = "refused"
       \/ calls[t][s].phase = "ok" /\ s # "status" /\ calls[t][s].ask = None
    /\ calls' = [calls EXCEPT ![t] = Done(t, s)]
    /\ UNCHANGED <<accounts, token, page, checking, clicks>>

Fails(t, s) ==
    /\ calls[t][s].phase \notin {"none", "allowed"}
    /\ calls' = [calls EXCEPT ![t] = Done(t, s)]
    /\ checking' = IF s = "status" THEN [checking EXCEPT ![t] = FALSE] ELSE checking
    /\ UNCHANGED <<accounts, token, page, clicks>>

Receive(t, s) == Unauthorised(t, s) \/ Ignored(t, s)

Next ==
    \/ \E t \in Tabs : UserStep(t) \/ PollDashboard(t) \/ TokenStored(t) \/ StatusAnswered(t)
    \/ \E t \in Tabs, s \in Slots : Serve(t, s) \/ Receive(t, s) \/ Fails(t, s)
    \/ Expire

Spec == Init /\ [][Next]_vars

\* The interval fires again and again; requests may fail, but not every one
\* of them for ever.
Fairness == \A t \in Tabs :
    /\ WF_vars(PollDashboard(t))
    /\ SF_vars(Dashboard(t, "poll")) /\ SF_vars(Receive(t, "poll"))

FairSpec == Spec /\ Fairness

-----------------------------------------------------------------------------
\* The ranges of the accounts, of the browser's token and of each tab's state.
TypeOK ==
    /\ accounts \in [Ids -> Account \cup {None, Deleted}]
    /\ token \in Names \cup {None, Expired}
    /\ page \in [Tabs -> Pages]
    /\ checking \in [Tabs -> BOOLEAN]
    /\ calls \in [Tabs -> [Slots ->
           [ask : Asks \cup {None, Poll, Status}, token : Names \cup {None},
            by : Ids \cup {None},
            phase : {"none", "sent", "allowed", "ok", "needs_setup", "refused", "401"}]]]
    /\ clicks \in 0..MaxClicks

\* Nobody can administer: no administrator is left that is active, and no
\* request authorised before is under way, on a page that is shown or gone.
Locked ==
    /\ ~NoAccount
    /\ \A i \in Ids : Stored(i) => ~(accounts[i].admin /\ accounts[i].active)
    /\ \A t \in Tabs, s \in Slots : calls[t][s].phase # "allowed"

\* Once no active administrator is left, however it came about, the accounts
\* never change again: nobody can sign in to undo it, and setup stays closed
\* because there are accounts (require_admin, get_current_user, setup).
LockedForever == [][Locked => Locked' /\ UNCHANGED accounts]_vars

\* A tab that shows the application while the token of its browser is gone,
\* has expired or belongs to an account that may not sign in leaves for the
\* login page, unless the token is good again by then: layout looks at the
\* token only once, so it is the poll of Topbar that gets it out.
SignedOutLeaves == \A t \in Tabs :
    (page[t] = "app" /\ ~SignedIn) ~> (page[t] # "app" \/ SignedIn)
=============================================================================
