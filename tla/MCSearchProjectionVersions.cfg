SPECIFICATION Spec
CONSTANTS
    Docs = {d1}
    Indices = {x1}
    Bootstrap = x1
    Rebuilds = {}
    MaxVersion = 2
    MaxWrites = 2
    MaxDeletes = 0
    MaxEvents = 2
    Faults <- Calm
    NoIndex = NoIndex
    NoRebuild = NoRebuild
INVARIANTS
    VersionSafe
CHECK_DEADLOCK FALSE
