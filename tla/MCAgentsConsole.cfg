CONSTANTS
    a1 = a1  a2 = a2  e1 = e1  m1 = m1  p1 = p1  k1 = k1  r1 = r1
    none = none
    None = none
    Agents = {a1, a2}
    Executions = {e1}
    EndpointIds = {m1}
    ProfileIds = {p1}
    KnowledgeBases = {k1}
    Registrations = {r1}
    Installed = {}
    Contents <- TwoContents
    NewContent <- Unscoped
    Catalogs <- TwoCatalogs
    FirstCatalog <- Complete
    Filters <- TwoFilters
    Existing <- OneActive
    MaxPolls = 1
    MaxCommands = 3
SPECIFICATION FairSpec
INVARIANTS TypeOK ListMatchesServer PanelMatchesSelection
PROPERTIES ActivatedAgentsAreReady PollingCatchesUp
CHECK_DEADLOCK FALSE
