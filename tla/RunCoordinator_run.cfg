CONSTANTS
    c1 = c1
    c2 = c2
    c3 = c3
    t1 = t1
    t2 = t2
    Guru = {g1}
    Thread = {t1, t2}
    RunId = {c1, c2, c3}
    Caller = {c1, c2, c3}
    Native = {n1}
    MaxModelWorkers = 1
    NoRun = NoRun
    Requests <- Asked
SPECIFICATION FairSpec
INVARIANTS
    WritesAreGuarded
    AdmissionHolds
PROPERTIES
    QueueOrder
    WritersServed
