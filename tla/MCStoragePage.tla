--------------------------- MODULE MCStoragePage ---------------------------
(***************************************************************************)
(* The storage page with two destinations, two OAuth flows and one worker. *)
(***************************************************************************)
EXTENDS StoragePage, TLC

CONSTANTS d1, d2, f1, f2, w1

\* Ids of destinations and flows are interchangeable.
Symmetry == Permutations({d1, d2}) \cup Permutations({f1, f2})
=============================================================================
