CONSTANTS
    Kinds = {"guru", "chat"}
    Deleter = {d1, d2}
    Boot = Boot
    GuruStorage = {p1}
    MoreStorage = {p2}
    MaxFaults = 2
    MaxCrashes = 2
    Call = {c1, c2}
    Artifact = {a1, a2}
    Dataset = {s1, s2, s3}
    Result = {r1, r2}
    Narrow = {s1}
    None = None
    MaxTurns = 3
    MaxPublished = 2
    MaxResults = 1
    Message = {m1, m2, m3}
    MaxAttached = 2
    MaxFiles = 4
    MaxContext = 3
    MaxRestored = 5
    MaxImages = 1
    MaxImageBytes = 4
    MaxMishaps = 1
    MaxMoves = 2
    Record = {1, 2, 3}
    Directory = {{1, 2}, {3}}
    Bundle = {1, 3}
    MaxChanges = 3
    MaxUpsets = 1
SPECIFICATION PrivateSpec
CHECK_DEADLOCK FALSE
INVARIANTS
    ExistingIsWhole
    MovesAlone
    DeletedStaysGone
    FilesAreKept
PROPERTIES
    StartResolves
    ArtifactsSettle
