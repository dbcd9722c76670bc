-------------------------- MODULE LayoutConverter --------------------------
(***************************************************************************)
(* The runtime's LayoutConverter (runtime/lib/ttnn/types/                  *)
(* layout_converter.cpp), which toLayout uses to bring the caller's tensor *)
(* to the layout of a program input.                                       *)
(*                                                                         *)
(* The constructor compares the two descriptors; one of eight handlers     *)
(* then calls the ...IfNeeded steps in an order of its own, each of which  *)
(* looks at one flag.  A handler is the sequence of its steps, and a       *)
(* LOG_FATAL is a step of its own.                                         *)
(***************************************************************************)
EXTENDS TensorLayout, Naturals, Sequences

VARIABLES
    inputDesc, outputDesc,
    out,                \* the descriptor of the tensor that the steps pass on
    steps, pc,          \* the handler's steps, and the next one
    converter           \* new, converting, returned, fatal

cvars == <<inputDesc, outputDesc, out, steps, pc, converter>>

shouldTilize == ~isTilized(inputDesc) /\ isTilized(outputDesc)
shouldUntilize == isTilized(inputDesc) /\ ~isTilized(outputDesc)
shouldToLayout == shouldTilize \/ shouldUntilize
shouldTypecast == inputDesc.dataType # outputDesc.dataType
shouldToDevice == isOnHost(inputDesc) /\ isOnDevice(outputDesc)
shouldToMemoryConfig ==
    ~shouldToDevice /\ isOnDevice(outputDesc) /\ inputDesc.mem # outputDesc.mem
shouldFromDevice == isOnDevice(inputDesc) /\ isOnHost(outputDesc)

-----------------------------------------------------------------------------
(* The handlers                                                            *)

LogFatal == <<"LOG_FATAL">>

handleHostInputNoLayoutNoTypecast == <<"toDevice", "toMemoryConfig">>

handleHostInputLayoutNoTypecast ==
    IF \/ shouldUntilize /\ canUntilizeDataTypeOnDevice(outputDesc.dataType)
       \/ shouldTilize /\ canTilizeDataTypeOnDevice(outputDesc.dataType)
    THEN <<"toDevice", "toLayout", "toMemoryConfig">>
    ELSE <<"toLayout", "toDevice", "toMemoryConfig">>

\* Mutant: the cast of a row-major tensor is left to the device.
hostTypecastOnDevice == <<"toDevice", "typecast", "toMemoryConfig">>


handleHostInputNoLayoutTypecast ==
    IF isTilized(outputDesc)
    THEN <<"toDevice", "typecast", "toMemoryConfig">>
    ELSE <<"typecast", "toDevice", "toMemoryConfig">>

handleHostInputLayoutTypecast ==
    IF shouldUntilize /\ canUntilizeDataTypeOnDevice(outputDesc.dataType)
    THEN <<"toDevice", "typecast", "toLayout", "toMemoryConfig">>
    ELSE IF shouldUntilize
    THEN <<"typecast", "toLayout", "toDevice", "toMemoryConfig">>
    ELSE IF canTilizeDataTypeOnDevice(inputDesc.dataType)
    THEN <<"toDevice", "toLayout", "typecast", "toMemoryConfig">>
    ELSE IF canTilizeDataTypeOnDevice(outputDesc.dataType)
    THEN <<"typecast", "toDevice", "toLayout", "toMemoryConfig">>
    ELSE <<"typecast", "toLayout", "toDevice", "toMemoryConfig">>

convertHostTensorLayout ==
    CASE ~shouldToLayout /\ ~shouldTypecast -> handleHostInputNoLayoutNoTypecast
      [] shouldToLayout /\ ~shouldTypecast -> handleHostInputLayoutNoTypecast
      [] ~shouldToLayout /\ shouldTypecast -> handleHostInputNoLayoutTypecast
      [] shouldToLayout /\ shouldTypecast -> handleHostInputLayoutTypecast

handleDeviceInputNoLayoutNoTypecast == <<"toMemoryConfig", "fromDevice">>

handleDeviceInputLayoutNoTypecast ==
    IF \/ shouldUntilize /\ canUntilizeDataTypeOnDevice(outputDesc.dataType)
       \/ shouldTilize /\ canTilizeDataTypeOnDevice(inputDesc.dataType)
    THEN <<"toLayout", "toMemoryConfig", "fromDevice">>
    ELSE IF shouldFromDevice
    THEN <<"fromDevice", "toLayout">>
    ELSE LogFatal

handleDeviceInputNoLayoutTypecast ==
    IF isTilized(inputDesc)
    THEN <<"typecast", "toMemoryConfig", "fromDevice">>
    ELSE IF shouldFromDevice
    THEN <<"fromDevice", "typecast">>
    ELSE LogFatal

\* Mutant: the memory config is not applied after the untilize.
deviceLayoutTypecastInPlace ==
    IF shouldUntilize /\ canUntilizeDataTypeOnDevice(outputDesc.dataType)
    THEN <<"typecast", "toLayout", "fromDevice">>
    ELSE IF shouldUntilize /\ shouldFromDevice
    THEN <<"typecast", "fromDevice", "toLayout">>
    ELSE IF shouldTilize /\ canTilizeDataTypeOnDevice(inputDesc.dataType)
    THEN <<"toLayout", "typecast", "toMemoryConfig", "fromDevice">>
    ELSE IF shouldTilize /\ shouldFromDevice
    THEN <<"fromDevice", "toLayout", "typecast">>
    ELSE LogFatal


handleDeviceInputLayoutTypecast ==
    IF shouldUntilize /\ canUntilizeDataTypeOnDevice(outputDesc.dataType)
    THEN <<"typecast", "toLayout", "toMemoryConfig", "fromDevice">>
    ELSE IF shouldUntilize /\ shouldFromDevice
    THEN <<"typecast", "fromDevice", "toLayout">>
    ELSE IF shouldTilize /\ canTilizeDataTypeOnDevice(inputDesc.dataType)
    THEN <<"toLayout", "typecast", "toMemoryConfig", "fromDevice">>
    ELSE IF shouldTilize /\ shouldFromDevice
    THEN <<"fromDevice", "toLayout", "typecast">>
    ELSE LogFatal

convertDeviceTensorLayout ==
    CASE ~shouldToLayout /\ ~shouldTypecast -> handleDeviceInputNoLayoutNoTypecast
      [] shouldToLayout /\ ~shouldTypecast -> handleDeviceInputLayoutNoTypecast
      [] ~shouldToLayout /\ shouldTypecast -> handleDeviceInputNoLayoutTypecast
      [] shouldToLayout /\ shouldTypecast -> handleDeviceInputLayoutTypecast

-----------------------------------------------------------------------------
(* The steps: the ttnn operation that each calls on the tensor             *)

toLayoutIfNeeded == [needed |-> shouldToLayout,
                     op |-> "to_layout", arg |-> outputDesc.layout]
typecastIfNeeded == [needed |-> shouldTypecast,
                     op |-> IF isOnHost(out) THEN "to_dtype" ELSE "typecast",
                     arg |-> outputDesc.dataType]
toDeviceIfNeeded == [needed |-> shouldToDevice,
                     op |-> "to_device", arg |-> outputDesc.mem]
toMemoryConfigIfNeeded == [needed |-> shouldToMemoryConfig,
                           op |-> "to_memory_config", arg |-> outputDesc.mem]
fromDeviceIfNeeded == [needed |-> shouldFromDevice,
                       op |-> "from_device", arg |-> SystemMemory]

call(step) ==
    CASE step = "toLayout" -> toLayoutIfNeeded
      [] step = "typecast" -> typecastIfNeeded
      [] step = "toDevice" -> toDeviceIfNeeded
      [] step = "toMemoryConfig" -> toMemoryConfigIfNeeded
      [] step = "fromDevice" -> fromDeviceIfNeeded

-----------------------------------------------------------------------------

\* toLayout is called: LayoutDesc::fromTensor and the constructor.
InitConverter ==
    /\ inputDesc \in Descs
    /\ outputDesc \in Descs
    /\ out = inputDesc
    /\ steps = <<>>
    /\ pc = 1
    /\ converter = "new"

convertTensorLayout ==
    /\ converter = "new"
    /\ steps' = IF isOnHost(inputDesc) THEN convertHostTensorLayout
                                       ELSE convertDeviceTensorLayout
    /\ converter' = "converting"
    /\ UNCHANGED <<inputDesc, outputDesc, out, pc>>

step ==
    /\ converter = "converting"
    /\ pc <= Len(steps)
    /\ steps[pc] # "LOG_FATAL"
    /\ LET c == call(steps[pc])
       IN  out' = IF c.needed THEN apply(c, out) ELSE out
    /\ pc' = pc + 1
    /\ UNCHANGED <<inputDesc, outputDesc, steps, converter>>

fatal ==
    /\ converter = "converting"
    /\ pc <= Len(steps)
    /\ steps[pc] = "LOG_FATAL"
    /\ converter' = "fatal"
    /\ UNCHANGED <<inputDesc, outputDesc, out, steps, pc>>

returnTensor ==
    /\ converter = "converting"
    /\ pc > Len(steps)
    /\ converter' = "returned"
    /\ UNCHANGED <<inputDesc, outputDesc, out, steps, pc>>

NextConverter == convertTensorLayout \/ step \/ fatal \/ returnTensor

ConverterSpec == InitConverter /\ [][NextConverter]_cvars

-----------------------------------------------------------------------------

\* The conversions that LOG_FATAL names: between two device memories, where
\* the tensor would have to be (un)tilized or cast in a form that the device
\* has no operation for.
deviceUnsupported(input, output) ==
    /\ isOnDevice(input)
    /\ isOnDevice(output)
    /\ \/ ~isTilized(input) /\ input.dataType # BFloat16
       \/ ~isTilized(output) /\ output.dataType # BFloat16
    /\ <<input.layout, input.dataType>> # <<output.layout, output.dataType>>

Promise == INSTANCE ToLayout
    WITH tensor <- IF converter = "returned" THEN out ELSE inputDesc,
         wanted <- outputDesc,
         outcome <- CASE converter = "returned" -> "converted"
                      [] converter = "fatal" -> "refused"
                      [] OTHER -> "pending",
         Unsupported <- deviceUnsupported

\* Whatever the two descriptors are and in whatever order the handler takes
\* its steps, the tensor that convertTensorLayout returns has exactly the
\* layout, data type and memory config of outputDesc, and LOG_FATAL is
\* reached for the unsupported conversions and no others.
ConverterImplementsToLayout == Promise!Spec
=============================================================================
