SPECIFICATION Spec
CONSTANTS
    Projects <- MCPreprocessed
    MaxSources = 2
    Names = {"leaf", "Core", "mid", "p", "d", "c*", "top.u*"}
    Depths = {1, 2}
    Fold <- MCFold
    Roles <- MCRoles
    TbNames <- MCTb
    Operators = {"-"}
    Globs <- MCGlobs
    Qualified <- MCQualified
    PinLeaf <- MCPin
    Root <- MCRoot
INVARIANTS ConflictsNoticed
CHECK_DEADLOCK FALSE
