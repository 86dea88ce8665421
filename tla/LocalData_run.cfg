CONSTANTS
    User = {u1, u2}
    MaxFaults = 3
    MaxCrashes = 3
    MaxSaves = 3
    a = a
    b = b
    Turn = {t1, t2}
    Command = {c1}
    Page <- MCPage
    Draft <- MCDraft
    Absent = Absent
    MaxProposals = 2
    Path = {p1, p2}
    NoCommit = NoCommit
    None = None
    NoopCommits = {FALSE, TRUE}
    MaxErrors = 2
    MaxRestarts = 2
    MaxEdits = 2
SPECIFICATION DataSpec
CHECK_DEADLOCK FALSE
INVARIANTS
    SettledWhole
    AnswerAndMemoryAgree
PROPERTIES
    SyncedBytesSurvive
    MemoryStaysCoherent
    CompetingChangesSurvive
    WritesSettle
    ImplementsAtomicCommit
