SPECIFICATION Spec
CONSTANTS
    Programs <- CachePrograms
    ConstEval <- MC_ConstEval
    Devices = {dev0}
    Data = {d1, d2}
    NDEBUG = TRUE
    OverwriteShared = TRUE
    MaxHeld = 2
    MaxCalls = 5
    MaxSubmits = 2
SYMMETRY Symmetry
INVARIANT CacheTransparent
CHECK_DEADLOCK FALSE
