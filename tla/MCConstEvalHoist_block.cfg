SPECIFICATION Spec
CONSTANTS
    FuncBounds <- MC_FuncBounds
    MaxOperands = 2
INVARIANTS HoistsAllConstants FuncsSelfContained BlockDominance UndoRestores HoistedTogether
CHECK_DEADLOCK FALSE
