\* One sync at a time, two threads, two faults, beside a starting CLI.
SPECIFICATION Spec
CONSTANTS
    Names = {"foo", "bar", "baz"}
    Releases = {"good", "bad"}
    Manifest <- MCManifest
    OwnName <- MCOwnName
    Workers = {w1, w2}
    MaxTime = 2
    MaxFaults = 2
    NoDir = NoDir
    None = None
INVARIANTS
    TypeOK
    LoadsOneRelease
    ToolsStayAvailable
    SuccessIsVisible
PROPERTIES
    ReplacesWholeSets
