SPECIFICATION Spec
CONSTANTS
    Files = {f, g}
    Scratch = scratch
    Database = database
    Versions = {0, 1}
    Quiet = 2
    MaxEdits = 3
    MaxFails = 1
INVARIANTS
    TypeOK
    NothingForgotten
PROPERTIES
    Converges
    ComesToRest
