SPECIFICATION Spec
CONSTANTS
    w1 = w1
    w2 = w2
    dump = dump
    tree = tree
    local = local
    cloud = cloud
    None = None
    Workers <- MCWorkers
    Jobs <- MCOneJob
    Storages <- MCStorages
    JobDests <- MCOneJobDests
    JobMaxRetries <- MCOneJobMaxRetries
    BadRetention = {}
    TaskMaxRetries = 1
    MaxTriggers = 1
    MaxMsgs = 3
    MaxRuns = 3
    MaxRedeliveries = 1
    MaxCrashes = 1
SYMMETRY Symmetry
INVARIANTS TypeOK AllOrNothing RunningIsOwned SettledHasOutcome AnnouncedIsTrue AttemptsBounded
PROPERTIES LifecycleKept
CHECK_DEADLOCK FALSE
CONSTANT MaxCancels = 1
