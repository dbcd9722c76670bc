SPECIFICATION Spec
CONSTANTS
    DataTypes = {"bf16", "f32", "i32"}
    BFloat16 = "bf16"
    ShardedLayouts = {"block_sharded"}
    Grids = {"1x1", "8x8"}
    MaxToLayouts = 2
    MaxConversions = 2
    IntermediateTypes <- MC_Intermediate
INVARIANT ReplacementsKeepType
CHECK_DEADLOCK FALSE
