SPECIFICATION Spec
CONSTANTS
    None = None
    Partial = Partial
    Fresh = "fresh"
    Default = "default"
    p1 = p1
    p2 = p2
    Procs <- MCProcs
    AgentOrder <- OneEach
    SymlinkTier <- MCSymlinkTier
    Profiles <- MCProfiles
    Ids <- MCIds
    Commands <- Every
    Starts <- AllStarts
    MaxCommands = 3
    MaxFresh = 1
INVARIANTS
    TypeOK
    RegistryMatchesLinks
    LinksLeadToWholeTrees
PROPERTIES
    InitReconciles
    IdentitiesKept
    CommandEnds
CHECK_DEADLOCK FALSE
