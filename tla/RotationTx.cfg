SPECIFICATION Spec
CONSTANTS
    w1 = w1
    w2 = w2
    local = local
    cloud = cloud
    nas = nas
    None = None
    Workers <- MCWorkers
    Dests <- MCDests
    Grans <- MCGrans
    Times <- MCTimes
    BucketOf <- MCBucketOf
    PolicyOf <- MCPolicyOf
    Orders <- MCOrders
    BadOverrides <- MCBadOverrides
    History <- MCHistory
    MaxRuns = 3
SYMMETRY Symmetry
INVARIANTS TypeOK NeverTooMuch NewestIsLive DeadlockByReorder
PROPERTIES CatchesUp
CHECK_DEADLOCK FALSE
