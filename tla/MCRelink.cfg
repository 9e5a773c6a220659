SPECIFICATION Spec
CONSTANTS
    Designs <- MCDesigns
    MaxEdits = 2
    Fold <- MCFold
    Roles <- MCRoles
    TbNames <- MCTb
    Operators = {"-"}
    Globs <- MCGlobs
    Qualified <- MCQualified
    PinLeaf <- MCPin
    Root <- MCRoot
INVARIANTS TypeOK OrderFree CertaintyUnique StubsMissing
PROPERTIES RelinkExact
