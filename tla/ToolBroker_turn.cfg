CONSTANTS
    c1 = c1
    c2 = c2
    c3 = c3
    Call <- MCCall
    NoCall = NoCall
    Plans <- SmallPlans
    Limit <- SmallLimit
    MaxConnections = 2
SPECIFICATION FairSpec
CHECK_DEADLOCK FALSE
INVARIANTS
    DeliveriesAgree
    BudgetsHold
PROPERTIES
    CallsSettle
