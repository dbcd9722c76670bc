---------------------------- MODULE TensorLayout ----------------------------
(***************************************************************************)
(* Tensor layouts and the ttnn operations that change them, as the layout  *)
(* converters of the compiler and of the runtime see them.                 *)
(*                                                                         *)
(* A descriptor says where a tensor is (system memory, or a device memory  *)
(* with its memory layout and, when sharded, its grid), whether it is      *)
(* tilized and which data type its elements have.  The data types are the  *)
(* scalar ones, for which the element type and the data type are the same  *)
(* thing; block formats are not modelled.                                  *)
(***************************************************************************)

CONSTANTS
    DataTypes,
    BFloat16,           \* the only type that is (un)tilized on device
    ShardedLayouts,     \* the sharded tensor memory layouts
    Grids               \* the grids of sharded tensors

ASSUME BFloat16Assumption == BFloat16 \in DataTypes
ASSUME ShardedAssumption == ShardedLayouts \cap {"none", "interleaved"} = {}

UnitGrid == "1x1"

\* TTNNLayoutAttr::withBufferType: a tensor in system memory has no memory layout,
\* one in DRAM is interleaved, both with the unit grid; in L1 the grid is kept.
\* An interleaved tensor has the unit grid from the layout pass.  Other grids for
\* it come from the optimizer only, and make no difference to the decisions here:
\* grids are compared between sharded tensors.
SystemMemory ==
    [bufferType |-> "SystemMemory", memLayout |-> "none", grid |-> UnitGrid]
InterleavedMemories ==
    [bufferType : {"DRAM", "L1"}, memLayout : {"interleaved"}, grid : {UnitGrid}]
ShardedMemories == [bufferType : {"L1"}, memLayout : ShardedLayouts, grid : Grids]
DeviceMemories == InterleavedMemories \cup ShardedMemories
Memories == {SystemMemory} \cup DeviceMemories

Layouts == {"row_major", "tile"}

Descs == [mem : Memories, layout : Layouts, dataType : DataTypes]

isOnHost(d) == d.mem.bufferType = "SystemMemory"
isOnDevice(d) == ~isOnHost(d)
isTilized(d) == d.layout = "tile"
isSharded(d) == d.mem.memLayout \in ShardedLayouts

\* The same restriction in the compiler and in the runtime.
canTilizeDataTypeOnDevice(dataType) == dataType = BFloat16
canUntilizeDataTypeOnDevice(dataType) == dataType = BFloat16

-----------------------------------------------------------------------------
(* The ttnn library.  An operation is [op, arg]; what it returns for the   *)
(* tensor t, and the tensors that it can be called on.                     *)

apply(o, t) ==
    CASE o.op \in {"to_device", "to_memory_config"} -> [t EXCEPT !.mem = o.arg]
      [] o.op = "from_device" -> [t EXCEPT !.mem = SystemMemory]
      [] o.op = "to_layout" -> [t EXCEPT !.layout = o.arg]
      [] o.op \in {"to_dtype", "typecast"} -> [t EXCEPT !.dataType = o.arg]

supported(o, t) ==
    CASE o.op \in {"to_device", "to_dtype"} -> isOnHost(t)
      [] o.op \in {"from_device", "to_memory_config"} -> isOnDevice(t)
      [] o.op = "to_layout" -> isOnHost(t) \/ t.dataType = BFloat16
      [] o.op = "typecast" -> isOnDevice(t) /\ isTilized(t)
=============================================================================
