SPECIFICATION Spec
CONSTANTS
    Order <- MCOrder
    Lists = {"f"}
    Lang <- MCLang
    Versions <- ListVersions
    Options <- PoolOption
    Absent = Absent
    NoDatabase = NoDatabase
    MinParallel = 3
    JobsCap = 8
    MaxFaults = 1
INVARIANTS Settles
