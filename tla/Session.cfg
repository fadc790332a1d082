SPECIFICATION MCSpec
CONSTANTS
    t1 = t1
    t2 = t2
    n1 = n1
    n2 = n2
    l1 = l1
    l2 = l2
    Tabs = {t1, t2}
    Left = {l1, l2}
    Names = {n1, n2}
    MaxIds = 2
    None = None
    Deleted = Deleted
    Expired = Expired
    MaxClicks = 2
INVARIANTS TypeOK
PROPERTIES LockedForever SignedOutLeaves
CHECK_DEADLOCK FALSE
