SPECIFICATION Spec
CONSTANTS
    w1 = w1
    w2 = w2
    dump = dump
    tree = tree
    local = local
    cloud = cloud
    None = None
    Workers <- MCOneWorker
    Jobs <- MCOneJob
    Storages <- MCStorages
    JobDests <- MCOneJobDests
    JobMaxRetries <- MCOneJobMaxRetries
    BadRetention = {}
    TaskMaxRetries = 3
    MaxTriggers = 1
    MaxMsgs = 4
    MaxRuns = 4
    MaxRedeliveries = 0
    MaxCrashes = 0
    MaxCancels = 0
INVARIANTS FailureAnnounced
CHECK_DEADLOCK FALSE
