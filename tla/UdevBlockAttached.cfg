SPECIFICATION Spec
CONSTANTS
    Disk = Disk
    Parts = {p1, p2}
    Dm = Dm
    Slave = p1
    MaxChanges = 1
CHECK_DEADLOCK FALSE
INVARIANTS PartsAreHidden
