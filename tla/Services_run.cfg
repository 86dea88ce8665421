CONSTANTS
    r1 = r1
    r2 = r2
    k1 = k1
    t1 = t1
    t2 = t2
    Request <- MCRequest
    NoRequest = NoRequest
    None = None
    Key <- MCKey
    Token <- MCToken
    MaxLate = 2
    Delay <- MCDelay
    Success = 4
    MaxTime = 5
    MaxVersion = 3
    MaxChecks = 2
    Work = Work
    MaxCrashes = 1
    c1 = c1
    c2 = c2
    c3 = c3
    Guru = {g1, g2}
    Probe = {v1}
    Session = {a}
    Scope = {s1, s2}
    MaxChanges = 4
    Source = {"free", "keyed"}
    Needs = {"keyed"}
    Entry = {"platform", "setup"}
    Of <- MCOf
    Configures = {"setup"}
    Turn = {a, b}
    Content = {x, y}
    Absent = Absent
    MaxUser = 2
    Cell = {c1, c2, c3}
    Packages <- MCPackages
    MaxHosts = 3
    Tracked = {w1}
    MaxItems = 3
    MaxText = 2
    MaxMissed = 1
    Thread = {h1, h2}
    Page = {1, 2, 3}
    Unset = 0
    MaxPages = 2
    MaxMoves = 4
SPECIFICATION FairSpec
CHECK_DEADLOCK FALSE
INVARIANTS
    FreshIsCurrent
    ConnectorsAsVerified
    CallsAreGranted
    HostsAreClean
    ViewIsExact
PROPERTIES
    UpdatesAsAgreed
    ReplacesWhatWasSeen
    RequestsEnd
