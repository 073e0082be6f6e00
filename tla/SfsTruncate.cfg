CONSTANTS
    NBlocks = 8
    NDirect = 1
    DbPerIdb = 2
    Units = 2
    Names = {a, b}
    MaxErrors = 0
    PowerFails = FALSE
    MaxOpen = 1
    Lengths = {1}
    Extents <- ExtentsValue
VIEW View
SYMMETRY Symmetry
SPECIFICATION Spec
INVARIANT NothingPastEof
CHECK_DEADLOCK FALSE
