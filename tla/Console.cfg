SPECIFICATION Spec
CONSTANTS
    s1 = s1
    s2 = s2
    c1 = c1
    New = New
    Empty = Empty
    None = None
    Deleted = Deleted
    Servers = {s1, s2}
    Channels = {c1}
    Triggers = {"run.failed"}
    DefaultTriggers = {"run.failed"}
    r1 = r1
    r2 = r2
    Slots = {r1, r2}
    MaxClicks = 5
SYMMETRY Symmetry
INVARIANTS TypeOK OwnSecrets ReopenedIsSame
PROPERTIES NoLeftovers
CHECK_DEADLOCK FALSE
