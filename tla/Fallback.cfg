\* Three commands, the setups with two threads, and a user beside them.
SPECIFICATION Spec
CONSTANTS
    Tools = {"knip", "jscpd"}
    Ecos = {"npm", "cargo"}
    Routes <- MCRoutes
    Native = "native"
    Path <- EcosFirst
    MaxBuilds = 4
    MaxCommands = 3
    None = None
INVARIANTS
    TypeOK
    ValidReceiptIsTrue
    UnsupportedIsExplained
CHECK_DEADLOCK FALSE
