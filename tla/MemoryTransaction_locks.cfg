CONSTANTS
    Path = {p1, p2}
    NoCommit = NoCommit
    None = None
    NoopCommits = {FALSE}
    MaxErrors = 1
    MaxRestarts = 1
    MaxEdits = 0
SPECIFICATION Spec
PROPERTIES
    RecoveryRefusesOnlyInterference
