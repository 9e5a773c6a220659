SPECIFICATION Spec
CONSTANTS
    Names <- MCNames
    Links <- MCLinks
    Env <- MCEnv
    Suffix <- MCSuffix
    Wild <- MCWild
    Absent = Absent
    Ignored <- MCIgnored
    Scenes <- MCScenes
    MaxIncludeDepth = 3
INVARIANT
    ClosureListed
