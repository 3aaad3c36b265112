\* Two runs in a row, with pool and batches, over every combination of flags.
SPECIFICATION Spec
CONSTANTS
    None = None
    Custom = Custom
    Tools <- MostTools
    Inventory <- MCInventory
    Managers <- MCManagers
    Method <- MCMethod
    Pkg <- MCPkg
    Commands <- MCCommands
    CheckAsks <- MCCheckAsks
    Detects <- MCDetects
    Requires <- MCRequires
    Prereq <- MCPrereq
    Provides <- MCProvides
    Markers <- JustNvm
    DefaultHooks <- JustRust
    PlatformTools <- NoTools
    Machines <- MCMachines
    Configs <- PoolOrBatch
    Settings <- AllSettings
    MaxRuns = 2
INVARIANTS
    TypeOK
    EveryMissingToolTried
    SequentialHonoursOrder
    SequentialRefusalsTrue
    HooksMatchInstalls
    AutoBaselineComplete
PROPERTIES
    BaselineAfterHooks
    RunEnds
CHECK_DEADLOCK FALSE
