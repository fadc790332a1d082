----------------------------- MODULE MCSession -----------------------------
(***************************************************************************)
(* Two tabs, two names and two accounts.                                   *)
(***************************************************************************)
EXTENDS Session

CONSTANTS t1, t2, n1, n2, l1, l2

\* The names are interchangeable: the account there is at first has one of
\* them.  Symmetry would do the same for safety, but not for liveness.
MCInit == Init /\ accounts[1] \in {None} \cup [name : {n1}, admin : {TRUE}, active : {TRUE}]
MCSpec == MCInit /\ [][Next]_vars /\ Fairness
=============================================================================
