SPECIFICATION FairSpec
CONSTANTS
    NumTools = 2
    Governed <- OneGoverned
    MaxAttempts = 3
    MaxCancels = 2
    Faults <- Lossy
INVARIANTS
    TypeOK
    GovernedToolsWereApproved
    AwaitingHasSomeoneWaiting
PROPERTIES
    CancelledStaysCancelled
    EveryRunEnds
CHECK_DEADLOCK FALSE
