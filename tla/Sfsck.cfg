CONSTANTS
    NBlocks = 8
    NDirect = 1
    DbPerIdb = 2
    Units = 4
    Names = {a, b}
    MaxErrors = 1
    PowerFails = TRUE
    MaxCrashes = 1
    MaxCalls = 8
    MaxOpen = 1
    Lengths = {1}
    Extents <- ExtentsValue
SYMMETRY Symmetry
SPECIFICATION ckSpec
INVARIANTS
    RepairedIsSound
PROPERTY FilesSurvive
CHECK_DEADLOCK FALSE
