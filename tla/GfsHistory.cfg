SPECIFICATION Spec
CONSTANTS
    local = local
    cloud = cloud
    NoPolicy = NoPolicy
    Grans <- MCGrans
    Times <- MCTimes
    BucketOf <- MCBucketOf
    Policies <- MCPolicies
    Series <- MCSeries
    MaxBackups = 4
SYMMETRY Symmetry
INVARIANTS TypeOK IncrementalIsBatch RecentBucketsCovered
PROPERTIES NewestSurvives FewUnannounced
CHECK_DEADLOCK FALSE
