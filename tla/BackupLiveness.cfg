SPECIFICATION FairSpec
CONSTANTS
    w1 = w1
    w2 = w2
    dump = dump
    tree = tree
    local = local
    cloud = cloud
    None = None
    Workers <- MCOneWorker
    Jobs <- MCJobs
    Storages <- MCStorages
    JobDests <- MCJobDests
    JobMaxRetries <- MCJobMaxRetries
    BadRetention <- MCBadRetention
    TaskMaxRetries = 1
    MaxTriggers = 1
    MaxMsgs = 3
    MaxRuns = 4
    MaxRedeliveries = 0
    MaxCrashes = 1
PROPERTIES EverythingSettles RunsEnd
CHECK_DEADLOCK FALSE
CONSTANT MaxCancels = 1
