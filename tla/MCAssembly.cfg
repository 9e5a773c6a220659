SPECIFICATION Spec
CONSTANTS
    Projects <- MCProjects
    MaxSources = 2
    Names = {"leaf", "Core", "mid", "p", "d", "c*", "top.u*"}
    Depths = {1, 2}
    Fold <- MCFold
    Roles <- MCRoles
    TbNames <- MCTb
    Operators = {"-"}
    Globs <- MCGlobs
    Qualified <- MCQualified
    PinLeaf <- MCPin
    Root <- MCRoot
INVARIANTS TypeOK MergedIsMonolith FilesFaithful BoundedExact SummariesExact
CHECK_DEADLOCK FALSE
