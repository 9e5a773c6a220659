SPECIFICATION Spec
CONSTANTS
    Order <- MCOrder
    Lists = {}
    Lang <- MCLang
    Versions <- MCVersions
    Options <- PoolOption
    Absent = Absent
    NoDatabase = NoDatabase
    MinParallel = 3
    JobsCap = 8
    MaxFaults = 1
INVARIANTS NeverAborts
