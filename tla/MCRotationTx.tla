---------------------------- MODULE MCRotationTx ----------------------------
(* RotationTx with two workers: an edit reverses the job's destinations, or  *)
(* puts one first whose override is unusable.  One policy has a negative     *)
(* count.  Two artifacts are there from before rotation was configured.      *)
EXTENDS RotationTx, TLC

CONSTANTS w1, w2, local, cloud, nas

MCWorkers == {w1, w2}
MCDests == {local, cloud, nas}
MCGrans == {"hourly", "daily"}
MCTimes == 0..1
MCBucketOf == [hourly |-> [t \in MCTimes |-> t], daily |-> [t \in MCTimes |-> t \div 2]]
MCPolicyOf == [d \in MCDests |->
    IF d # cloud THEN [keep |-> [hourly |-> 1, daily |-> 0], maxAge |-> 1]
                 ELSE [keep |-> [hourly |-> -1, daily |-> 1], maxAge |-> 0]]
MCOrders == {<<local, cloud>>, <<cloud, local>>, <<nas, local>>}
MCHistory == {[id |-> 0, at |-> 0], [id |-> 1, at |-> 0]}
MCBadOverrides == {nas}
Symmetry == Permutations(MCWorkers)
=============================================================================
