SPECIFICATION Spec
CONSTANTS
    d1 = d1
    d2 = d2
    f1 = f1
    f2 = f2
    w1 = w1
    New = New
    Empty = Empty
    None = None
    Deleted = Deleted
    Dests = {d1, d2}
    Flows = {f1, f2}
    Workers = {w1}
    MaxSaves = 2
    MaxClicks = 5
INVARIANTS TypeOK SpinnerHasTimer RightRecord FreshAdd
PROPERTIES SecretsSurvive
SYMMETRY Symmetry
CHECK_DEADLOCK FALSE
