SPECIFICATION Spec
CONSTANTS
    a = a
    b = b
    c = c
    None = None
    Tools <- MCTools
    OSes <- MCOSes
    Registries <- MCRegistries
    Lists <- RepeatingLists
INVARIANTS
    TypeOK
    DependenciesFirst
    WarnsExactlyOnCycle
    AnnouncedFlexibleFirst
    NothingLostOrInvented
PROPERTY Terminates
CHECK_DEADLOCK FALSE
