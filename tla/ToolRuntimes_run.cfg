CONSTANTS
    Tool = {1, 2}
    MaxCalls = 3
    MaxToolPages = 2
    MaxChanges = 1
    MaxTrouble = 1
    Elapsed = {0, 70, 150}
    RetryAfter <- Waits
    Finds <- AnyThree
    Fetch = {c1, c2, c3, c4}
    Source = {s1}
    Unknown = {s1}
    Text <- Texts
    Nothing = Nothing
    HopTime = {0, 6, 14}
    RetryAfters <- FetchWaits
    MaxRedirects = 2
    MaxOperations = 3
    Deadline = 3
    Reader = {r1, r2}
    Credential = {k1, k2}
    MaxTokens = 2
    Life = {2}
    Node = {1, 2, 3, 4}
    Under <- WorkbenchDirectory
    Root = 0
    Kinds <- WorkbenchKinds
    Named = {2, 3, 4}
    MaxWalk = 3
    Limits = {1, 2}
    MaxOutput = 2
    MaxEdits = 2
SPECIFICATION RuntimesSpec
CHECK_DEADLOCK FALSE
PROPERTIES
    AnswersAreOwn
    CallsReturn
