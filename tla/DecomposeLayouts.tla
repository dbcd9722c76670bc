-------------------------- MODULE DecomposeLayouts --------------------------
(***************************************************************************)
(* to_layout ops in the compiler: the canonicalization patterns of         *)
(* ttnn.to_layout, then the pass ttnn-decompose-layouts                    *)
(* (lib/Dialect/TTNN/Transforms/TTNNDecomposeLayouts.cpp), which replaces  *)
(* every to_layout by the memory operations it needs.                      *)
(*                                                                         *)
(* The function is a chain of to_layout ops, the first on the function's   *)
(* argument; a to_layout is [type, uses], its result type and the number   *)
(* of uses of its result.  The dtype and memory_config attributes, which   *)
(* the pass reads, agree with the type.  A to_layout whose type is on the  *)
(* device has a device operand: every pass that makes a to_layout gives it *)
(* one then, and a merge keeps the operand and the type of the same op.    *)
(***************************************************************************)
EXTENDS TensorLayout, Naturals, Sequences, SequencesExt

CONSTANTS
    MaxToLayouts,       \* bound on the length of the chain
    IntermediateTypes   \* the types of all to_layout ops but the last

VARIABLES
    argType,            \* the type of the function's argument
    toLayouts,          \* the to_layout ops that are left
    pass,               \* canonicalize, decompose, create, done, failed
    info,               \* OpCreationInfo of the op that is being replaced
    creates, at,        \* its handler's create steps, and the next one
    currentInput,       \* the type of the value that they pass on
    program,            \* the created ops, [op, arg, type], type the result's
    replacements        \* [op, by, before]: a replaced op's type, the type of the
                        \* value put in its place, and the type of its input

NoInfo == [none |-> TRUE]

-----------------------------------------------------------------------------
(* Canonicalization of ttnn.to_layout                                      *)

inputType(n) == IF n = 1 THEN argType ELSE toLayouts[n - 1].type

canFold(n) == inputType(n) = toLayouts[n].type

\* The op is erased, and its input takes its uses.
foldToLayout(n) ==
    /\ pass = "canonicalize"
    /\ canFold(n)
    /\ toLayouts' =
        LET uses == toLayouts[n].uses
            folded == IF n = 1 THEN toLayouts
                      ELSE [toLayouts EXCEPT ![n - 1].uses = @ - 1 + uses]
        IN  RemoveAt(folded, n)
    /\ UNCHANGED <<argType, pass, info, creates, at, currentInput, program, replacements>>

canMerge(n) == n > 1 /\ toLayouts[n - 1].uses = 1

\* The previous op becomes the merged one; it has the type of this one.
mergeToLayouts(n) ==
    /\ pass = "canonicalize"
    /\ canMerge(n)
    /\ toLayouts' = RemoveAt(toLayouts, n - 1)
    /\ UNCHANGED <<argType, pass, info, creates, at, currentInput, program, replacements>>

\* The driver stops when no pattern applies; the layout pass comes later.
canonicalized ==
    /\ pass = "canonicalize"
    /\ \A n \in DOMAIN toLayouts : ~canFold(n) /\ ~canMerge(n)
    /\ pass' = "decompose"
    /\ UNCHANGED <<argType, toLayouts, info, creates, at, currentInput, program, replacements>>

-----------------------------------------------------------------------------
(* What has to be created                                                  *)

\* Mutant: sharded tensors on different grids are not told apart.
requiredOpsNoReshard(input, output) ==
    LET toDevice == input.mem.bufferType # output.mem.bufferType /\ isOnHost(input)
    IN  [toDevice |-> toDevice,
         fromDevice |->
            input.mem.bufferType # output.mem.bufferType /\ isOnHost(output),
         typecast |-> input.dataType # output.dataType,
         toLayout |-> input.layout # output.layout,
         toMemoryConfig |->
            /\ ~toDevice
            /\ isOnDevice(output)
            /\ \/ input.mem.memLayout # output.mem.memLayout
               \/ {input.mem.bufferType, output.mem.bufferType} = {"DRAM", "L1"}]


determineRequiredOps(input, output) ==
    LET toDevice == input.mem.bufferType # output.mem.bufferType /\ isOnHost(input)
    IN  [toDevice |-> toDevice,
         fromDevice |->
            input.mem.bufferType # output.mem.bufferType /\ isOnHost(output),
         typecast |-> input.dataType # output.dataType,
         toLayout |-> input.layout # output.layout,
         toMemoryConfig |->
            /\ ~toDevice
            /\ isOnDevice(output)
            /\ \/ input.mem.memLayout # output.mem.memLayout
               \/ {input.mem.bufferType, output.mem.bufferType} = {"DRAM", "L1"}
               \/ /\ isSharded(input)
                  /\ isSharded(output)
                  /\ input.mem.grid # output.mem.grid]

createSomeOp(ops) == \E o \in DOMAIN ops : ops[o]

isCreationValid(input, output, ops) ==
    /\ createSomeOp(ops)
    /\ ~(ops.toDevice /\ ops.fromDevice)
    /\ ~(ops.toMemoryConfig /\ isOnHost(output))
    /\ ~(isOnHost(input) /\ ops.fromDevice)
    /\ ~(isOnDevice(input) /\ ops.toDevice)

shouldUntilize == info.ops.toLayout /\ ~isTilized(info.output)
shouldTilize == info.ops.toLayout /\ isTilized(info.output)

-----------------------------------------------------------------------------
(* The handlers, as the sequences of their create steps                    *)

handleHostInputNoLayoutNoTypecast == <<"toDevice", "toMemoryConfig">>

handleHostInputLayoutNoTypecast ==
    IF isOnHost(info.output)
    THEN <<"toLayout", "toMemoryConfig">>
    ELSE IF \/ shouldUntilize /\ canUntilizeDataTypeOnDevice(info.output.dataType)
            \/ shouldTilize /\ canTilizeDataTypeOnDevice(info.output.dataType)
    THEN <<"toDevice", "toLayout", "toMemoryConfig">>
    ELSE <<"toLayout", "toDevice", "toMemoryConfig">>

handleHostInputNoLayoutTypecast ==
    IF isOnHost(info.output)
    THEN <<"typecast", "toMemoryConfig">>
    ELSE IF ~isTilized(info.output)
    THEN <<"typecast", "toDevice", "toMemoryConfig">>
    ELSE <<"toDevice", "typecast", "toMemoryConfig">>

handleHostInputLayoutTypecast ==
    IF isOnHost(info.output)
    THEN <<"typecast", "toLayout", "toMemoryConfig">>
    ELSE IF shouldUntilize /\ canUntilizeDataTypeOnDevice(info.output.dataType)
    THEN <<"toDevice", "typecast", "toLayout", "toMemoryConfig">>
    ELSE IF shouldUntilize
    THEN <<"typecast", "toLayout", "toDevice", "toMemoryConfig">>
    ELSE IF canTilizeDataTypeOnDevice(info.input.dataType)
    THEN <<"toDevice", "toLayout", "typecast", "toMemoryConfig">>
    ELSE IF canTilizeDataTypeOnDevice(info.output.dataType)
    THEN <<"typecast", "toDevice", "toLayout", "toMemoryConfig">>
    ELSE <<"typecast", "toLayout", "toDevice", "toMemoryConfig">>

handleHostInputLayoutConversion ==
    CASE ~info.ops.toLayout /\ ~info.ops.typecast -> handleHostInputNoLayoutNoTypecast
      [] info.ops.toLayout /\ ~info.ops.typecast -> handleHostInputLayoutNoTypecast
      [] ~info.ops.toLayout /\ info.ops.typecast -> handleHostInputNoLayoutTypecast
      [] info.ops.toLayout /\ info.ops.typecast -> handleHostInputLayoutTypecast

handleDeviceInputNoLayoutNoTypecast == <<"toMemoryConfig", "fromDevice">>

\* Mutant: a tensor that is (un)tilized on device keeps its memory config.
deviceLayoutInPlace ==
    IF canUntilizeDataTypeOnDevice(info.input.dataType)
    THEN <<"toLayout", "fromDevice">>
    ELSE IF info.ops.fromDevice
    THEN <<"fromDevice", "toLayout">>
    ELSE <<"forceFromDevice", "toLayout", "forceToDevice">>


handleDeviceInputLayoutNoTypecast ==
    IF \/ shouldUntilize /\ canUntilizeDataTypeOnDevice(info.input.dataType)
       \/ shouldTilize /\ canTilizeDataTypeOnDevice(info.input.dataType)
    THEN <<"toLayout", "toMemoryConfig", "fromDevice">>
    ELSE IF info.ops.fromDevice
    THEN <<"fromDevice", "toLayout">>
    ELSE IF shouldUntilize
    THEN <<"forceFromDevice", "toLayout", "forceToDevice">>
    ELSE <<"forceFromDevice", "toLayout", "forceToDevice", "toMemoryConfig">>

\* Mutant: the memory config first, the cast after it.
deviceTypecastLast ==
    IF isTilized(info.output)
    THEN <<"toMemoryConfig", "typecast", "fromDevice">>
    ELSE IF info.ops.fromDevice
    THEN <<"fromDevice", "typecast">>
    ELSE <<"forceFromDevice", "typecast", "forceToDevice", "toMemoryConfig">>


handleDeviceInputNoLayoutTypecast ==
    IF isTilized(info.output)
    THEN <<"typecast", "toMemoryConfig", "fromDevice">>
    ELSE IF info.ops.fromDevice
    THEN <<"fromDevice", "typecast">>
    ELSE <<"forceFromDevice", "typecast", "forceToDevice", "toMemoryConfig">>

handleDeviceInputLayoutTypecast ==
    IF shouldUntilize /\ canUntilizeDataTypeOnDevice(info.output.dataType)
    THEN <<"typecast", "toLayout", "fromDevice">>
    ELSE IF shouldUntilize /\ info.ops.fromDevice
    THEN <<"typecast", "fromDevice", "toLayout">>
    ELSE IF shouldUntilize
    THEN <<"typecast", "forceFromDevice", "toLayout", "forceToDevice", "toMemoryConfig">>
    ELSE IF canTilizeDataTypeOnDevice(info.input.dataType)
    THEN <<"toLayout", "typecast", "toMemoryConfig", "fromDevice">>
    ELSE IF info.ops.fromDevice
    THEN <<"fromDevice", "toLayout", "typecast">>
    ELSE <<"forceFromDevice", "toLayout", "forceToDevice", "typecast", "toMemoryConfig">>

handleDeviceInputLayoutConversion ==
    CASE ~info.ops.toLayout /\ ~info.ops.typecast -> handleDeviceInputNoLayoutNoTypecast
      [] info.ops.toLayout /\ ~info.ops.typecast -> handleDeviceInputLayoutNoTypecast
      [] ~info.ops.toLayout /\ info.ops.typecast -> handleDeviceInputNoLayoutTypecast
      [] info.ops.toLayout /\ info.ops.typecast -> handleDeviceInputLayoutTypecast

-----------------------------------------------------------------------------
(* The create steps: the op that each creates and its result type          *)

createToDeviceOpIfNeeded(force) ==
    [needed |-> info.ops.toDevice \/ force, op |-> "to_device", arg |-> info.output.mem,
     type |-> [currentInput EXCEPT !.mem = info.output.mem]]

createFromDeviceOpIfNeeded(force) ==
    [needed |-> info.ops.fromDevice \/ force, op |-> "from_device", arg |-> SystemMemory,
     type |-> [currentInput EXCEPT !.mem = SystemMemory]]

createToLayoutOpIfNeeded ==
    [needed |-> info.ops.toLayout, op |-> "to_layout", arg |-> info.output.layout,
     type |-> [currentInput EXCEPT !.layout = info.output.layout]]

\* On a device tensor the op is a typecast, which the code asserts is tilized.
createDataTypeCastingOpIfNeeded ==
    [needed |-> info.ops.typecast,
     op |-> IF isOnHost(currentInput) THEN "to_dtype" ELSE "typecast",
     arg |-> info.output.dataType,
     type |-> [currentInput EXCEPT !.dataType = info.output.dataType]]

\* createOp without a result type: the op gets the type of the to_layout.
createToMemoryConfigOpIfNeeded ==
    [needed |-> info.ops.toMemoryConfig, op |-> "to_memory_config",
     arg |-> info.output.mem, type |-> info.output]

create(s) ==
    CASE s = "toDevice" -> createToDeviceOpIfNeeded(FALSE)
      [] s = "forceToDevice" -> createToDeviceOpIfNeeded(TRUE)
      [] s = "fromDevice" -> createFromDeviceOpIfNeeded(FALSE)
      [] s = "forceFromDevice" -> createFromDeviceOpIfNeeded(TRUE)
      [] s = "toLayout" -> createToLayoutOpIfNeeded
      [] s = "typecast" -> createDataTypeCastingOpIfNeeded
      [] s = "toMemoryConfig" -> createToMemoryConfigOpIfNeeded

-----------------------------------------------------------------------------

InitDecompose ==
    /\ argType \in Descs
    /\ \E n \in 1 .. MaxToLayouts :
          /\ toLayouts \in [1 .. n -> [type : Descs, uses : {1, 2}]]
          /\ \A m \in 1 .. n - 1 : toLayouts[m].type \in IntermediateTypes
          /\ toLayouts[n].uses = 1
    /\ pass = "canonicalize"
    /\ info = NoInfo
    /\ creates = <<>>
    /\ at = 1
    /\ currentInput = argType
    /\ program = <<>>
    /\ replacements = <<>>

\* The next to_layout of opsToReplace.  Its input may be a value that took
\* the place of an earlier to_layout.  "Device not specified for device tensor"
\* is no case of its own, as such a to_layout has its device.
createLayoutConversionOps ==
    /\ pass = "decompose"
    /\ toLayouts # <<>>
    /\ LET output == Head(toLayouts).type
           ops == determineRequiredOps(currentInput, output)
       IN  IF isCreationValid(currentInput, output, ops)
           THEN /\ info' = [input |-> currentInput, output |-> output, ops |-> ops]
                /\ creates' = IF isOnHost(currentInput)
                              THEN handleHostInputLayoutConversion'
                              ELSE handleDeviceInputLayoutConversion'
                /\ at' = 1
                /\ pass' = "create"
           ELSE pass' = "failed" /\ UNCHANGED <<info, creates, at>>
    /\ UNCHANGED <<argType, toLayouts, currentInput, program, replacements>>

createOp ==
    /\ pass = "create"
    /\ at <= Len(creates)
    /\ LET c == create(creates[at])
       IN  IF c.needed
           THEN /\ program' = Append(program, [op |-> c.op, arg |-> c.arg, type |-> c.type])
                /\ currentInput' = c.type
           ELSE UNCHANGED <<program, currentInput>>
    /\ at' = at + 1
    /\ UNCHANGED <<argType, toLayouts, pass, info, creates, replacements>>

\* replaceAllUsesWith, and the to_layout is erased.
replaceToLayout ==
    /\ pass = "create"
    /\ at > Len(creates)
    /\ replacements' = Append(replacements,
            [op |-> info.output, by |-> currentInput, before |-> info.input])
    /\ toLayouts' = Tail(toLayouts)
    /\ pass' = "decompose"
    /\ info' = NoInfo
    /\ creates' = <<>>
    /\ at' = 1
    /\ UNCHANGED <<argType, currentInput, program>>

finishPass ==
    /\ pass = "decompose"
    /\ toLayouts = <<>>
    /\ pass' = "done"
    /\ UNCHANGED <<argType, toLayouts, info, creates, at, currentInput, program, replacements>>

NextDecompose ==
    \/ \E n \in DOMAIN toLayouts : foldToLayout(n)
    \/ \E n \in DOMAIN toLayouts : mergeToLayouts(n)
    \/ canonicalized
    \/ createLayoutConversionOps
    \/ createOp
    \/ replaceToLayout
    \/ finishPass
=============================================================================
