\* One update on Unix, to any release.
SPECIFICATION Spec
CONSTANTS
    Procs = {p1}
    Versions = {"v1", "v2", "mute", "foreign"}
    Mute = {"mute"}
    Unstartable = {"foreign"}
    Absent = Absent
    Partial = Partial
    Windows <- Unix
    Attempts = 2
    MaxCommands = 1
INVARIANT FailureLeavesRunning
CHECK_DEADLOCK FALSE
