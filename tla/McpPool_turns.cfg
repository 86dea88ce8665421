CONSTANTS
    Proc = {p1, p2}
    Turns = 2
    Tasks = 2
    Keys = 2
    MaxIdle = 1
    MaxCalls = 3
    MaxFaults = 1
SPECIFICATION FairSpec
CHECK_DEADLOCK FALSE
INVARIANTS
    ToolsAreTheTurns
PROPERTIES
    EndedTurnsLetGo
