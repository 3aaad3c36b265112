SPECIFICATION Spec
CONSTANTS
    None = None
    Partial = Partial
    Fresh = "fresh"
    Default = "default"
    p1 = p1
    p2 = p2
    Procs <- MCProcs
    AgentOrder <- OneEach
    SymlinkTier <- MCSymlinkTier
    Profiles <- MCProfiles
    Ids <- MCIds
    Commands <- TwoUses
    Starts <- JustUses
    MaxCommands = 2
    MaxFresh = 0
INVARIANT RegistryIsWhole
CHECK_DEADLOCK FALSE
