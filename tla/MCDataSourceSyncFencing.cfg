SPECIFICATION Spec
CONSTANTS
    Runs = {r1, r2}
    Imports = {i1}
    Urls = {u1}
    Bodies = {b1, b2, b3}
    Validators = {e1}
    Contents <- SharedValidator
    MaxAttempts = 1
    Faults = {"lease_expiry", "late_attempt", "ignored_validator"}
    NoRun = NoRun
    NoBody = NoBody
    NoValidator = NoValidator
    b1 = b1
    b2 = b2
    b3 = b3
    e1 = e1
    NoUrl = NoUrl
    NoVersion = NoVersion
SYMMETRY Symmetry
INVARIANTS
    LeaseExclusive
    VersionNumbersDistinct
    CursorHasVersion
PROPERTIES
    NoStaleCompletion
    FinishedRunsStayFinished
    ImplementsLease
