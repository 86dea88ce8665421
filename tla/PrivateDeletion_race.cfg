CONSTANTS
    Kinds = {"guru"}
    Deleter = {d1, d2}
    Boot = Boot
    GuruStorage = {p1}
    MoreStorage = {p2}
    MaxFaults = 1
    MaxCrashes = 0
SPECIFICATION Spec
CHECK_DEADLOCK FALSE
INVARIANTS
    NoRunWhileMoving
