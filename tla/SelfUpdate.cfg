\* One command at a time, three of them, on both platforms.
SPECIFICATION Spec
CONSTANTS
    Procs = {p1}
    Versions = {"v1", "v2", "mute", "foreign"}
    Mute = {"mute"}
    Unstartable = {"foreign"}
    Absent = Absent
    Partial = Partial
    Windows <- Both
    Attempts = 2
    MaxCommands = 3
INVARIANTS
    TypeOK
    NeverTorn
    PreviousKept
    RecordsTrue
    SuccessTrue
CHECK_DEADLOCK FALSE
