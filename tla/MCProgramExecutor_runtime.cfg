SPECIFICATION Spec
CONSTANTS
    Programs <- AllPrograms
    ConstEval <- MC_ConstEval
    Devices = {dev0, dev1}
    Data = {d1, d2}
    NDEBUG = TRUE
    OverwriteShared = FALSE
    MaxHeld = 2
    MaxCalls = 5
    MaxSubmits = 2
SYMMETRY Symmetry
INVARIANTS OperandsAlive CacheTransparent PoolEmptied InputsFreed
PROPERTY RetainedSurvive
CHECK_DEADLOCK FALSE
