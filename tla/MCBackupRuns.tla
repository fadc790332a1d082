---------------------------- MODULE MCBackupRuns ----------------------------
(* BackupRuns with two jobs that share a storage: "dump" writes to both      *)
(* storages and retries, "tree" writes to one, does not retry and has a      *)
(* retention override that is not a UUID.                                    *)
EXTENDS BackupRuns, TLC

CONSTANTS w1, w2, dump, tree, local, cloud

MCWorkers == {w1, w2}
MCOneWorker == {w1}
MCJobs == {dump, tree}
MCOneJob == {dump}
MCStorages == {local, cloud}
MCJobDests == [j \in MCJobs |-> IF j = dump THEN {local, cloud} ELSE {local}]
MCJobMaxRetries == [j \in MCJobs |-> IF j = dump THEN 1 ELSE 0]
MCBadRetention == {tree}
MCOneJobDests == [j \in MCOneJob |-> {local, cloud}]
MCOneJobMaxRetries == [j \in MCOneJob |-> 1]

Symmetry == Permutations(MCWorkers) \cup Permutations(MCStorages)
=============================================================================
