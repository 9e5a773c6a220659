SPECIFICATION Spec
CONSTANTS
    Designs <- MCGhost
    MaxEdits = 2
    Fold <- MCFold
    Roles <- MCRoles
    TbNames <- MCTb
    Operators = {"-"}
    Globs <- MCGlobs
    Qualified <- MCQualified
    PinLeaf <- MCPin
    Root <- MCRoot
PROPERTIES RelinkAlwaysExact
