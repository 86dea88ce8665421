CONSTANTS
    Turn = {t1, t2}
    Steer = {s1, s2}
    NoTurn = NoTurn
    MaxFaults = 2
SPECIFICATION FairSpec
CHECK_DEADLOCK FALSE
INVARIANTS
    OneOutcome
    StopHonoured
    TranscriptIsWhole
PROPERTIES
    StopEnds
