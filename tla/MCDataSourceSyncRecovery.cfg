SPECIFICATION Spec
CONSTANTS
    Runs = {r1, r2, r3}
    Imports = {}
    Urls = {u1, u2}
    Bodies = {b1, b2, b3}
    Validators = {e1}
    Contents <- SharedValidator
    MaxAttempts = 2
    Faults = {"crash", "activity_failure"}
    NoRun = NoRun
    NoBody = NoBody
    NoValidator = NoValidator
    b1 = b1
    b2 = b2
    b3 = b3
    e1 = e1
    NoUrl = NoUrl
    NoVersion = NoVersion
SYMMETRY Symmetry
INVARIANTS
    TypeOK
    CompletedRunLeavesNothingBehind
    ItemMatchesNewestVersion
PROPERTIES
    SnapshotSparesSeenPage
