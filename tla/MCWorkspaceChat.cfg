CONSTANTS
    w1 = w1
    w2 = w2
    k1 = k1
    k2 = k2
    c1 = c1
    c2 = c2
    c3 = c3
    Workspaces = {w1, w2}
    Scopes = {k1, k2}
    WorkspaceOf <- TwoWorkspaces
    Conversations = {c1, c2, c3}
    HomeOf <- Homes
    Matching = {c1}
    Existing = {c1, c3}
    MaxTurns = 2
    MaxCalls = 2
    MaxCommands = 4
    None = None
SPECIFICATION Spec
INVARIANTS TypeOK TranscriptMatches ScopeIsShown
CHECK_DEADLOCK FALSE
