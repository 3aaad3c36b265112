\* Two runs at any time, killed at will, one target.
SPECIFICATION Spec
CONSTANTS
    Procs = {p1, p2}
    Targets = {jq}
    Ttl = 2
    Stale = 1
    ErrorTtl = 1
    Nobody = Nobody
    Dead = Dead
    Torn = Torn
    Absent = Absent
INVARIANTS
    TypeOK
    OneYoungHolder
    CacheWhole
PROPERTIES
    HitsAreRecent
SYMMETRY Symmetry
