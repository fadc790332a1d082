SPECIFICATION Spec
CONSTANTS
    local = local
    cloud = cloud
    NoPolicy = NoPolicy
    Grans <- MCGrans
    Times <- MCTimes
    BucketOf <- MCBucketOf
    Policies <- MCPolicies
    Series <- MCSeries
    MaxBackups = 4
INVARIANTS PreviewIsExact
CHECK_DEADLOCK FALSE
