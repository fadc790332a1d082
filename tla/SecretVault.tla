---------------------------- MODULE SecretVault ----------------------------
(***************************************************************************)
(* What the storage page and its API promise together about stored         *)
(* secrets, whatever forms, polls and answers overlap: a stored token is   *)
(* the token of a flow the user consented to, an edit blanks no secret     *)
(* that was stored when the edit read the destination, and a deleted       *)
(* destination does not come back.  An edit may lose what another one has  *)
(* stored since it read: edits are not serialized.                         *)
(***************************************************************************)
CONSTANTS Dests, Flows, Keys, Secrets, Edits, Empty, None, Deleted

VARIABLES
    granted,   \* flows whose authorization code was exchanged for a token
    vault,     \* per destination: its secret config values, None or Deleted
    seen       \* per edit: None, or the destination and what it held when read

vaultVars == <<granted, vault, seen>>

Contents == [Keys -> Secrets \cup Flows \cup {Empty}]
Stores(d) == vault[d] \notin {None, Deleted}

VaultInit ==
    /\ granted = {}
    /\ vault \in [Dests -> Contents \cup {None}]
    /\ \A d \in Dests, k \in Keys : Stores(d) => vault[d][k] \notin Flows
    /\ seen = [e \in Edits |-> None]

Grant(f) == granted' = granted \cup {f} /\ UNCHANGED <<vault, seen>>

\* The new contents of a destination hold tokens of granted flows only.
Set(d, c) ==
    /\ c \in [Keys -> Secrets \cup granted \cup {Empty}]
    /\ vault' = [vault EXCEPT ![d] = c]

Put(d) ==
    /\ vault[d] = None
    /\ \E c \in Contents : Set(d, c)
    /\ UNCHANGED <<granted, seen>>

Look(e, d) ==
    /\ seen[e] = None /\ Stores(d)
    /\ seen' = [seen EXCEPT ![e] = [dest |-> d, contents |-> vault[d]]]
    /\ UNCHANGED <<granted, vault>>

\* The edit leaves the destination as it is by then, or writes it.
Replace(e) ==
    /\ seen[e] # None /\ Stores(seen[e].dest)
    /\ \/ UNCHANGED vault
       \/ \E c \in Contents :
              /\ \A k \in Keys : seen[e].contents[k] # Empty => c[k] # Empty
              /\ Set(seen[e].dest, c)
    /\ seen' = [seen EXCEPT ![e] = None]
    /\ UNCHANGED granted

GiveUp(e) ==
    /\ seen' = [seen EXCEPT ![e] = None]
    /\ UNCHANGED <<granted, vault>>

Drop(d) ==
    /\ Stores(d)
    /\ vault' = [vault EXCEPT ![d] = Deleted]
    /\ UNCHANGED <<granted, seen>>

VaultNext ==
    \/ \E f \in Flows : Grant(f)
    \/ \E d \in Dests : Put(d) \/ Drop(d)
    \/ \E e \in Edits : Replace(e) \/ GiveUp(e) \/ \E d \in Dests : Look(e, d)

VaultSpec == VaultInit /\ [][VaultNext]_vaultVars
=============================================================================
