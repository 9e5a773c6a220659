SPECIFICATION Spec
CONSTANTS
    f = f
    g = g
    Sources = {f, g}
    Uses <- MCUses
    Writers = {w1}
    Readers = {r1}
    Inodes = {i1, i2, i3}
    Commands = {"build", "update"}
    MaxVersion = 1
    MaxCrashes = 1
    None = None
    Half = Half
    Torn = Torn
    Missing = Missing
SYMMETRY Symmetry
INVARIANTS
    TypeOK
    LiveWhole
    QueryWhole
    DerivedCurrent
    Settled
PROPERTY
    NeverBack
