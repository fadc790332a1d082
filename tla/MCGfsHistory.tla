---------------------------- MODULE MCGfsHistory ----------------------------
(* GfsHistory on a small calendar: 4 instants, "days" of 2 instants, "weeks" *)
(* of 3, so that a week straddles two days as ISO weeks straddle months.     *)
EXTENDS GfsHistory, TLC

CONSTANTS local, cloud

MCGrans == {"hourly", "daily", "weekly"}
MCTimes == 0..3
MCBucketOf == [hourly |-> [t \in MCTimes |-> t],
               daily  |-> [t \in MCTimes |-> t \div 2],
               weekly |-> [t \in MCTimes |-> t \div 3]]

Counts(h, d, w) == [hourly |-> h, daily |-> d, weekly |-> w]

MCPolicies == {[keep |-> Counts(1, 0, 2), maxAge |-> 2],
               [keep |-> Counts(-1, 1, 0), maxAge |-> 0]}
MCSeries == {local, cloud}
Symmetry == Permutations(MCSeries)
=============================================================================
