SPECIFICATION Spec
CONSTANTS
    f = f
    g = g
    Sources = {f, g}
    Uses <- MCUses
    Writers = {w1, w2}
    Readers = {}
    Inodes = {i1, i2, i3}
    Commands = {"update"}
    MaxVersion = 1
    MaxCrashes = 0
    None = None
    Half = Half
    Torn = Torn
    Missing = Missing
SYMMETRY Symmetry
PROPERTY
    DeltaOnItsBase
