CONSTANTS
    Pid = {p1, p2}
    MaxSpawns = 2
    MaxCrashes = 1
    MaxFaults = 2
    MaxWrites = 2
    Chunk = {x}
    Capacity = 3
    BodyTime = 1
    TotalTime = 2
    Deferrals = 1
    MaxText = 1
    MaxEvents = 5
SPECIFICATION AgentsSpec
CHECK_DEADLOCK FALSE
INVARIANTS
    NoOrphans
    SessionHasOneWriter
    TurnFollowsPi
PROPERTIES
    ApplicationStartsAgain
