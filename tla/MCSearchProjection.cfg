SPECIFICATION FairSpec
CONSTANTS
    Docs = {d1}
    Indices = {x1, x2}
    Bootstrap = x1
    Rebuilds = {k1}
    MaxVersion = 2
    MaxWrites = 2
    MaxDeletes = 1
    MaxEvents = 2
    Faults <- Failing
    NoIndex = NoIndex
    NoRebuild = NoRebuild
INVARIANTS
    TypeOK
    SettledDocumentsAreFound
PROPERTIES
    CutoverIsExact
    NoProjectionStraddlesCutover
    ReplaysChangeNothing
    RebuildsEnd
CHECK_DEADLOCK FALSE
