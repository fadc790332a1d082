----------------------------- MODULE MCConsole -----------------------------
(***************************************************************************)
(* The console with two servers, one notification channel and two save     *)
(* requests at a time.                                                     *)
(***************************************************************************)
EXTENDS Console, TLC

CONSTANTS s1, s2, c1, r1, r2

\* The ids of servers are interchangeable, and so are the requests: all of them
\* are model values.
Symmetry == Permutations({s1, s2}) \cup Permutations({r1, r2})
=============================================================================
