------------------------------ MODULE Console ------------------------------
(***************************************************************************)
(* One browser tab that shows the servers page or the notifications page:  *)
(* a link of the sidebar (ui/src/components/Sidebar.tsx) unmounts one and  *)
(* mounts the other, while requests of the page that was left go on.       *)
(***************************************************************************)
EXTENDS Integers

CONSTANTS Servers, Channels, Triggers, DefaultTriggers, New, Empty, None, Deleted,
          Slots, MaxClicks   \* bounds of the model: save requests of a page under way
                             \* together, user actions

ASSUME ConsoleAssumption ==
    /\ {None, Deleted, New, Empty} \cap (Servers \cup Channels) = {}
    /\ None # Deleted /\ New # Empty /\ {None, Deleted} \cap {New, Empty} = {}
    /\ DefaultTriggers \subseteq Triggers
    /\ MaxClicks \in Nat

VARIABLES page, clicks,
          servers, serverRows, serverLoading, serverForm, serverSaves,
          channels, channelRows, channelLoading, channelForm, channelSaves

serverVars == <<servers, serverRows, serverLoading, serverForm, serverSaves>>
channelVars == <<channels, channelRows, channelLoading, channelForm, channelSaves>>

S == INSTANCE ServersPage WITH
    db <- servers, rows <- serverRows, loading <- serverLoading,
    form <- serverForm, saves <- serverSaves
C == INSTANCE NotificationsPage WITH
    db <- channels, rows <- channelRows, loading <- channelLoading,
    form <- channelForm, saves <- channelSaves

vars == <<page, clicks, serverVars, channelVars>>

Init ==
    /\ page \in {"servers", "notifications"}
    /\ clicks = 0
    /\ S!Init /\ C!Init

Click == clicks < MaxClicks /\ clicks' = clicks + 1

OnServers ==
    /\ page = "servers"
    /\ \/ Click /\ S!UserStep
       \/ S!Load /\ UNCHANGED clicks
    /\ UNCHANGED <<page, channelVars>>

OnNotifications ==
    /\ page = "notifications"
    /\ \/ Click /\ C!UserStep
       \/ C!Load /\ UNCHANGED clicks
    /\ UNCHANGED <<page, serverVars>>

ToServers ==
    /\ page = "notifications" /\ Click
    /\ page' = "servers"
    /\ C!Leave /\ S!Mount

ToNotifications ==
    /\ page = "servers" /\ Click
    /\ page' = "notifications"
    /\ S!Leave /\ C!Mount

\* Saves are answered whichever page is shown.
Answer ==
    /\ \/ S!SaveStep /\ UNCHANGED channelVars
       \/ C!SaveStep /\ UNCHANGED serverVars
    /\ UNCHANGED <<page, clicks>>

Next == OnServers \/ OnNotifications \/ ToServers \/ ToNotifications \/ Answer

Spec == Init /\ [][Next]_vars

-----------------------------------------------------------------------------
\* The ranges of both pages' state and of the rows they edit.
TypeOK == S!TypeOK /\ C!TypeOK /\ page \in {"servers", "notifications"} /\ clicks \in 0..MaxClicks

\* A server holds no secret typed into the form of another one, and a channel
\* is created from nothing typed before Add was pressed, while saves are
\* answered after their form or their page is gone (handleSave of both pages).
OwnSecrets == S!OwnSecrets /\ C!FreshAdd

\* Opening a server or a channel and saving it untouched loses its secrets and
\* changes nothing else (openEdit of both pages).
ReopenedIsSame == S!ReopenedIsSame /\ C!ReopenedIsSame

\* A save leaves nothing of the authentication or channel type the record had
\* before but a server's API token, which stays for good (a column of its own
\* that is sent for type api only).  Two updates that overlap may: each writes
\* the columns that differ from the row it read, and the row they leave together
\* is neither's (buildPayload, buildConfig, update_server, update_channel).
NoLeftovers == [][S!TidySave /\ C!TidySave]_vars
=============================================================================
