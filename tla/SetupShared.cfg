SPECIFICATION Spec
CONSTANTS
    None = None
    Custom = Custom
    Tools <- SharedTools
    Inventory <- MCInventory
    Managers <- MCManagers
    Method <- MCMethod
    Pkg <- MCPkg
    Commands <- MCCommands
    CheckAsks <- MCCheckAsks
    Detects <- MCDetects
    Requires <- MCRequires
    Prereq <- MCPrereq
    Provides <- MCProvides
    Markers <- JustNvm
    DefaultHooks <- NoTools
    PlatformTools <- NoTools
    Machines <- JustBrew
    Configs <- SharedConfig
    Settings <- OneJob
    MaxRuns = 1
INVARIANT InstalledToolsHooked
CHECK_DEADLOCK FALSE
