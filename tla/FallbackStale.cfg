\* The copies of the platform come first on the PATH.
SPECIFICATION Spec
CONSTANTS
    Tools = {"knip", "jscpd"}
    Ecos = {"npm", "cargo"}
    Routes <- MCRoutes
    Native = "native"
    Path <- NativeFirst
    MaxBuilds = 2
    MaxCommands = 2
    None = None
INVARIANTS
    ReceiptIsLive
CHECK_DEADLOCK FALSE
