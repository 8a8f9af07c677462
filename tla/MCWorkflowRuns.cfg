SPECIFICATION Spec
CONSTANTS
    Runs = {r0, r1, r2}
    NoRun = NoRun
    FirstRun = r0
    Cancellable = {r1}
    MaxRetryDepth = 1
    MaxAttempts = 2
    MaxFaults = 1
INVARIANTS
    TypeOK
    RunsAgreeWithVersions
    SearchableVersionsAreWhole
    WaitingDocumentIsServed
    ActiveRunIsServed
CHECK_DEADLOCK FALSE
