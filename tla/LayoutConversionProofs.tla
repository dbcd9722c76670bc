----------------------- MODULE LayoutConversionProofs -----------------------
(***************************************************************************)
(* Proofs about the two layout converters, for every set of data types,    *)
(* sharded layouts and grids and for functions of any length: the          *)
(* runtime's LayoutConverter implements ToLayout, and the operations that  *)
(* the compiler's pass puts in place of each to_layout are supported,      *)
(* return what their types say and lose nothing but a memory config.       *)
(*                                                                         *)
(* Both walk a fixed list of steps that a handler chose from the two       *)
(* layouts.  The invariant says, for every position in the list, which     *)
(* components of the tensor the steps so far have settled; the lists are   *)
(* then gone through one by one.                                           *)
(***************************************************************************)
EXTENDS LayoutConversion, TLAPS

-----------------------------------------------------------------------------
(* The runtime's converter                                                 *)

\* The handler for the two descriptors.
handler == IF isOnHost(inputDesc) THEN convertHostTensorLayout
                                  ELSE convertDeviceTensorLayout

\* The handler has been through step s.
Done(s) == \E i \in 1 .. pc - 1 : steps[i] = s

\* The memory of the tensor is settled: by to_device from the host, by
\* from_device to the host, by to_memory_config between device memories.
Moved ==
    \/ isOnHost(inputDesc) /\ Done("toDevice")
    \/ isOnDevice(inputDesc) /\ isOnHost(outputDesc) /\ Done("fromDevice")
    \/ isOnDevice(inputDesc) /\ isOnDevice(outputDesc) /\ Done("toMemoryConfig")

\* While a handler runs, each component of the tensor's descriptor is the
\* output's if the step for it has been taken, and the input's if not.
Converting ==
    /\ steps = handler
    /\ pc \in 1 .. Len(steps) + 1
    /\ ~Done("LOG_FATAL")
    /\ out.layout = IF Done("toLayout") THEN outputDesc.layout ELSE inputDesc.layout
    /\ out.dataType = IF Done("typecast") THEN outputDesc.dataType ELSE inputDesc.dataType
    /\ out.mem = IF Moved THEN outputDesc.mem ELSE inputDesc.mem

ConverterInv ==
    /\ inputDesc \in Descs
    /\ outputDesc \in Descs
    /\ out \in Descs
    /\ converter \in {"new", "converting", "returned", "fatal"}
    /\ converter = "new" => pc = 1 /\ out = inputDesc
    /\ converter = "converting" => Converting
    /\ converter = "returned" => out = outputDesc

\* A descriptor is determined by its components, and host memory is one.
LEMMA DescFacts ==
  /\ \A d \in Descs : isOnHost(d) <=> d.mem = SystemMemory
  /\ \A d, e \in Descs : d.mem = e.mem /\ d.layout = e.layout /\ d.dataType = e.dataType => d = e
  /\ \A d \in Descs : d.layout \in Layouts /\ d.dataType \in DataTypes /\ d.mem \in Memories
  /\ \A d \in Descs, m \in Memories : [d EXCEPT !.mem = m] \in Descs
  /\ \A d \in Descs, l \in Layouts : [d EXCEPT !.layout = l] \in Descs
  /\ \A d \in Descs, t \in DataTypes : [d EXCEPT !.dataType = t] \in Descs
  /\ SystemMemory \in Memories
<1>1. \A m \in Memories : m.bufferType = "SystemMemory" <=> m = SystemMemory
  BY DEF Memories, DeviceMemories, InterleavedMemories, ShardedMemories, SystemMemory
<1>2. SystemMemory \in Memories
  BY DEF Memories
<1>. QED
  BY <1>1, <1>2 DEF Descs, isOnHost

\* What the flags of the constructor stand for.
LEMMA Flags ==
  ASSUME inputDesc \in Descs, outputDesc \in Descs
  PROVE  /\ shouldToLayout <=> inputDesc.layout # outputDesc.layout
         /\ shouldTilize <=> inputDesc.layout = "row_major" /\ outputDesc.layout = "tile"
         /\ shouldUntilize <=> inputDesc.layout = "tile" /\ outputDesc.layout = "row_major"
         /\ inputDesc.layout \in {"row_major", "tile"}
         /\ outputDesc.layout \in {"row_major", "tile"}
BY DescFacts DEF shouldToLayout, shouldTilize, shouldUntilize, isTilized, Layouts

\* The handlers for a tensor on the host, and what is asked of each.
LEMMA HostHandlers ==
  ASSUME inputDesc \in Descs, outputDesc \in Descs, isOnHost(inputDesc)
  PROVE  \/ handler = <<"toDevice", "toMemoryConfig">> /\ ~shouldToLayout /\ ~shouldTypecast
         \/ /\ handler = <<"toDevice", "toLayout", "toMemoryConfig">>
            /\ ~shouldTypecast /\ outputDesc.dataType = BFloat16
         \/ handler = <<"toLayout", "toDevice", "toMemoryConfig">> /\ ~shouldTypecast
         \/ /\ handler = <<"toDevice", "typecast", "toMemoryConfig">>
            /\ ~shouldToLayout /\ isTilized(outputDesc)
         \/ handler = <<"typecast", "toDevice", "toMemoryConfig">> /\ ~shouldToLayout
         \/ /\ handler = <<"toDevice", "typecast", "toLayout", "toMemoryConfig">>
            /\ isTilized(inputDesc) /\ outputDesc.dataType = BFloat16
         \/ handler = <<"typecast", "toLayout", "toDevice", "toMemoryConfig">>
         \/ /\ handler = <<"toDevice", "toLayout", "typecast", "toMemoryConfig">>
            /\ isTilized(outputDesc) /\ inputDesc.dataType = BFloat16
         \/ /\ handler = <<"typecast", "toDevice", "toLayout", "toMemoryConfig">>
            /\ isTilized(outputDesc) /\ outputDesc.dataType = BFloat16
<1>. USE DEF handler, convertHostTensorLayout
<1>1. CASE ~shouldToLayout /\ ~shouldTypecast
  BY <1>1 DEF handleHostInputNoLayoutNoTypecast
<1>2. CASE shouldToLayout /\ ~shouldTypecast
  BY <1>2, Flags DEF handleHostInputLayoutNoTypecast, canTilizeDataTypeOnDevice,
     canUntilizeDataTypeOnDevice, shouldTypecast
<1>3. CASE ~shouldToLayout /\ shouldTypecast
  BY <1>3 DEF handleHostInputNoLayoutTypecast
<1>4. CASE shouldToLayout /\ shouldTypecast
  BY <1>4, Flags DEF handleHostInputLayoutTypecast, canTilizeDataTypeOnDevice,
     canUntilizeDataTypeOnDevice, isTilized
<1>. QED
  BY <1>1, <1>2, <1>3, <1>4

\* The handlers for a tensor on the device; LOG_FATAL for the unsupported
\* conversions and no others.
LEMMA DeviceHandlers ==
  ASSUME inputDesc \in Descs, outputDesc \in Descs, isOnDevice(inputDesc)
  PROVE  \/ handler = LogFatal /\ deviceUnsupported(inputDesc, outputDesc)
         \/ /\ ~deviceUnsupported(inputDesc, outputDesc)
            /\ \/ /\ handler = <<"toMemoryConfig", "fromDevice">>
                  /\ ~shouldToLayout /\ ~shouldTypecast
               \/ /\ handler = <<"toLayout", "toMemoryConfig", "fromDevice">>
                  /\ ~shouldTypecast /\ inputDesc.dataType = BFloat16
               \/ /\ handler = <<"fromDevice", "toLayout">>
                  /\ ~shouldTypecast /\ shouldFromDevice
               \/ /\ handler = <<"typecast", "toMemoryConfig", "fromDevice">>
                  /\ ~shouldToLayout /\ isTilized(inputDesc)
               \/ /\ handler = <<"fromDevice", "typecast">>
                  /\ ~shouldToLayout /\ shouldFromDevice
               \/ /\ handler = <<"typecast", "toLayout", "toMemoryConfig", "fromDevice">>
                  /\ isTilized(inputDesc) /\ outputDesc.dataType = BFloat16
               \/ /\ handler = <<"typecast", "fromDevice", "toLayout">>
                  /\ isTilized(inputDesc) /\ shouldFromDevice
               \/ /\ handler = <<"toLayout", "typecast", "toMemoryConfig", "fromDevice">>
                  /\ isTilized(outputDesc) /\ inputDesc.dataType = BFloat16
               \/ handler = <<"fromDevice", "toLayout", "typecast">> /\ shouldFromDevice
<1>. USE DEF handler, convertDeviceTensorLayout, isOnDevice, deviceUnsupported, isTilized,
             shouldTypecast, shouldFromDevice, canTilizeDataTypeOnDevice,
             canUntilizeDataTypeOnDevice
<1>1. CASE ~shouldToLayout /\ ~shouldTypecast
  BY <1>1, Flags DEF handleDeviceInputNoLayoutNoTypecast
<1>2. CASE shouldToLayout /\ ~shouldTypecast
  BY <1>2, Flags DEF handleDeviceInputLayoutNoTypecast
<1>3. CASE ~shouldToLayout /\ shouldTypecast
  BY <1>3, Flags DEF handleDeviceInputNoLayoutTypecast
<1>4. CASE shouldToLayout /\ shouldTypecast
  BY <1>4, Flags DEF handleDeviceInputLayoutTypecast
<1>. QED
  BY <1>1, <1>2, <1>3, <1>4

\* The steps that the handler has been through, one by one.
LEMMA DoneAt ==
  ASSUME NEW s
  PROVE  /\ pc = 1 => ~Done(s)
         /\ pc = 2 => (Done(s) <=> steps[1] = s)
         /\ pc = 3 => (Done(s) <=> steps[1] = s \/ steps[2] = s)
         /\ pc = 4 => (Done(s) <=> steps[1] = s \/ steps[2] = s \/ steps[3] = s)
         /\ pc = 5 => (Done(s) <=> \/ steps[1] = s \/ steps[2] = s
                                   \/ steps[3] = s \/ steps[4] = s)
<1>1. pc = 1 => 1 .. pc - 1 = {}
  OBVIOUS
<1>2. pc = 2 => 1 .. pc - 1 = {1}
  OBVIOUS
<1>3. pc = 3 => 1 .. pc - 1 = {1, 2}
  OBVIOUS
<1>4. pc = 4 => 1 .. pc - 1 = {1, 2, 3}
  OBVIOUS
<1>5. pc = 5 => 1 .. pc - 1 = {1, 2, 3, 4}
  OBVIOUS
<1>. QED
  BY <1>1, <1>2, <1>3, <1>4, <1>5 DEF Done

StepNames == {"toLayout", "typecast", "toDevice", "toMemoryConfig", "fromDevice"}

\* The operation that step s calls, if any, can take the tensor.
Ready(s) ==
    /\ s = "toLayout" /\ shouldToLayout => isOnHost(out) \/ out.dataType = BFloat16
    /\ s = "typecast" /\ shouldTypecast => isOnHost(out) \/ isTilized(out)
    /\ s = "toDevice" /\ shouldToDevice => isOnHost(out)
    /\ s = "toMemoryConfig" /\ shouldToMemoryConfig => isOnDevice(out)
    /\ s = "fromDevice" /\ shouldFromDevice => isOnDevice(out)

\* A call that is ready is one ttnn supports on the tensor so far.
LEMMA ReadySupported ==
  ASSUME NEW s \in StepNames, Ready(s)
  PROVE  call(s).needed => supported(call(s), out)
<1>1. CASE s = "toLayout"
  BY <1>1 DEF Ready, call, toLayoutIfNeeded, supported
<1>2. CASE s = "typecast"
  BY <1>2 DEF Ready, call, typecastIfNeeded, supported, isOnDevice
<1>3. CASE s = "toDevice"
  BY <1>3 DEF Ready, call, toDeviceIfNeeded, supported
<1>4. CASE s = "toMemoryConfig"
  BY <1>4 DEF Ready, call, toMemoryConfigIfNeeded, supported
<1>5. CASE s = "fromDevice"
  BY <1>5 DEF Ready, call, fromDeviceIfNeeded, supported
<1>. QED
  BY <1>1, <1>2, <1>3, <1>4, <1>5 DEF StepNames

\* What a handler does: it ends with every component converted, and each of
\* its steps can take the tensor.
HandlerRight ==
    /\ pc <= Len(steps) => steps[pc] \in StepNames /\ Ready(steps[pc])
    /\ pc > Len(steps) => /\ shouldToLayout => Done("toLayout")
                          /\ shouldTypecast => Done("typecast")
                          /\ Moved \/ inputDesc.mem = outputDesc.mem

\* The four handlers of a tensor on the host go through their steps in an order
\* that ttnn supports and leave nothing out.
LEMMA HostSteps ==
  ASSUME inputDesc \in Descs, outputDesc \in Descs, out \in Descs, Converting,
         isOnHost(inputDesc)
  PROVE  HandlerRight
<1>0. /\ inputDesc.mem = SystemMemory
      /\ isOnHost(out) <=> out.mem = SystemMemory
      /\ isOnHost(outputDesc) <=> outputDesc.mem = SystemMemory
      /\ Moved <=> Done("toDevice")
      /\ shouldToLayout <=> inputDesc.layout # outputDesc.layout
  BY DescFacts, Flags DEF Moved, isOnDevice
<1>. USE DEF HandlerRight, StepNames, Ready, isOnDevice, shouldToDevice,
             shouldToMemoryConfig, shouldFromDevice, isTilized, shouldTypecast
<1>1. CASE /\ handler = <<"toDevice", "toMemoryConfig">>
           /\ ~shouldToLayout /\ ~shouldTypecast
  <2>1. /\ Len(steps) = 2 /\ pc \in {1, 2, 3}
        /\ steps[1] = "toDevice" /\ steps[2] = "toMemoryConfig"
    BY <1>1 DEF Converting
  <2>. QED
    BY <2>1, <1>0, <1>1, DoneAt DEF Converting
<1>2. CASE /\ handler = <<"toDevice", "toLayout", "toMemoryConfig">>
           /\ ~shouldTypecast /\ outputDesc.dataType = BFloat16
  <2>1. /\ Len(steps) = 3 /\ pc \in {1, 2, 3, 4}
        /\ steps[1] = "toDevice" /\ steps[2] = "toLayout"
        /\ steps[3] = "toMemoryConfig"
    BY <1>2 DEF Converting
  <2>. QED
    BY <2>1, <1>0, <1>2, DoneAt DEF Converting
<1>3. CASE /\ handler = <<"toLayout", "toDevice", "toMemoryConfig">>
           /\ ~shouldTypecast
  <2>1. /\ Len(steps) = 3 /\ pc \in {1, 2, 3, 4}
        /\ steps[1] = "toLayout" /\ steps[2] = "toDevice"
        /\ steps[3] = "toMemoryConfig"
    BY <1>3 DEF Converting
  <2>. QED
    BY <2>1, <1>0, <1>3, DoneAt DEF Converting
<1>4. CASE /\ handler = <<"toDevice", "typecast", "toMemoryConfig">>
           /\ ~shouldToLayout /\ isTilized(outputDesc)
  <2>1. /\ Len(steps) = 3 /\ pc \in {1, 2, 3, 4}
        /\ steps[1] = "toDevice" /\ steps[2] = "typecast"
        /\ steps[3] = "toMemoryConfig"
    BY <1>4 DEF Converting
  <2>. QED
    BY <2>1, <1>0, <1>4, DoneAt DEF Converting
<1>5. CASE /\ handler = <<"typecast", "toDevice", "toMemoryConfig">>
           /\ ~shouldToLayout
  <2>1. /\ Len(steps) = 3 /\ pc \in {1, 2, 3, 4}
        /\ steps[1] = "typecast" /\ steps[2] = "toDevice"
        /\ steps[3] = "toMemoryConfig"
    BY <1>5 DEF Converting
  <2>. QED
    BY <2>1, <1>0, <1>5, DoneAt DEF Converting
<1>6. CASE /\ handler = <<"toDevice", "typecast", "toLayout", "toMemoryConfig">>
           /\ isTilized(inputDesc) /\ outputDesc.dataType = BFloat16
  <2>1. /\ Len(steps) = 4 /\ pc \in {1, 2, 3, 4, 5}
        /\ steps[1] = "toDevice" /\ steps[2] = "typecast"
        /\ steps[3] = "toLayout" /\ steps[4] = "toMemoryConfig"
    BY <1>6 DEF Converting
  <2>. QED
    BY <2>1, <1>0, <1>6, DoneAt DEF Converting
<1>7. CASE /\ handler = <<"typecast", "toLayout", "toDevice", "toMemoryConfig">>
  <2>1. /\ Len(steps) = 4 /\ pc \in {1, 2, 3, 4, 5}
        /\ steps[1] = "typecast" /\ steps[2] = "toLayout"
        /\ steps[3] = "toDevice" /\ steps[4] = "toMemoryConfig"
    BY <1>7 DEF Converting
  <2>. QED
    BY <2>1, <1>0, <1>7, DoneAt DEF Converting
<1>8. CASE /\ handler = <<"toDevice", "toLayout", "typecast", "toMemoryConfig">>
           /\ isTilized(outputDesc) /\ inputDesc.dataType = BFloat16
  <2>1. /\ Len(steps) = 4 /\ pc \in {1, 2, 3, 4, 5}
        /\ steps[1] = "toDevice" /\ steps[2] = "toLayout"
        /\ steps[3] = "typecast" /\ steps[4] = "toMemoryConfig"
    BY <1>8 DEF Converting
  <2>. QED
    BY <2>1, <1>0, <1>8, DoneAt DEF Converting
<1>9. CASE /\ handler = <<"typecast", "toDevice", "toLayout", "toMemoryConfig">>
           /\ isTilized(outputDesc) /\ outputDesc.dataType = BFloat16
  <2>1. /\ Len(steps) = 4 /\ pc \in {1, 2, 3, 4, 5}
        /\ steps[1] = "typecast" /\ steps[2] = "toDevice"
        /\ steps[3] = "toLayout" /\ steps[4] = "toMemoryConfig"
    BY <1>9 DEF Converting
  <2>. QED
    BY <2>1, <1>0, <1>9, DoneAt DEF Converting
<1>. QED
  BY HostHandlers, <1>1, <1>2, <1>3, <1>4, <1>5, <1>6, <1>7, <1>8, <1>9

\* So do the handlers of a tensor on the device, for the requests they accept.
LEMMA DeviceSteps ==
  ASSUME inputDesc \in Descs, outputDesc \in Descs, out \in Descs, Converting,
         isOnDevice(inputDesc), ~deviceUnsupported(inputDesc, outputDesc)
  PROVE  HandlerRight
<1>0. /\ inputDesc.mem # SystemMemory
      /\ isOnHost(out) <=> out.mem = SystemMemory
      /\ isOnHost(outputDesc) <=> outputDesc.mem = SystemMemory
      /\ Moved <=> IF isOnHost(outputDesc) THEN Done("fromDevice") ELSE Done("toMemoryConfig")
      /\ shouldToLayout <=> inputDesc.layout # outputDesc.layout
  BY DescFacts, Flags DEF Moved, isOnDevice
<1>. USE DEF HandlerRight, StepNames, Ready, isOnDevice, shouldToDevice,
             shouldToMemoryConfig, shouldFromDevice, isTilized, shouldTypecast
<1>1. CASE /\ handler = <<"toMemoryConfig", "fromDevice">>
           /\ ~shouldToLayout /\ ~shouldTypecast
  <2>1. /\ Len(steps) = 2 /\ pc \in {1, 2, 3}
        /\ steps[1] = "toMemoryConfig" /\ steps[2] = "fromDevice"
    BY <1>1 DEF Converting
  <2>. QED
    BY <2>1, <1>0, <1>1, DoneAt DEF Converting
<1>2. CASE /\ handler = <<"toLayout", "toMemoryConfig", "fromDevice">>
           /\ ~shouldTypecast /\ inputDesc.dataType = BFloat16
  <2>1. /\ Len(steps) = 3 /\ pc \in {1, 2, 3, 4}
        /\ steps[1] = "toLayout" /\ steps[2] = "toMemoryConfig"
        /\ steps[3] = "fromDevice"
    BY <1>2 DEF Converting
  <2>. QED
    BY <2>1, <1>0, <1>2, DoneAt DEF Converting
<1>3. CASE /\ handler = <<"fromDevice", "toLayout">>
           /\ ~shouldTypecast /\ shouldFromDevice
  <2>1. /\ Len(steps) = 2 /\ pc \in {1, 2, 3}
        /\ steps[1] = "fromDevice" /\ steps[2] = "toLayout"
    BY <1>3 DEF Converting
  <2>. QED
    BY <2>1, <1>0, <1>3, DoneAt DEF Converting
<1>4. CASE /\ handler = <<"typecast", "toMemoryConfig", "fromDevice">>
           /\ ~shouldToLayout /\ isTilized(inputDesc)
  <2>1. /\ Len(steps) = 3 /\ pc \in {1, 2, 3, 4}
        /\ steps[1] = "typecast" /\ steps[2] = "toMemoryConfig"
        /\ steps[3] = "fromDevice"
    BY <1>4 DEF Converting
  <2>. QED
    BY <2>1, <1>0, <1>4, DoneAt DEF Converting
<1>5. CASE /\ handler = <<"fromDevice", "typecast">>
           /\ ~shouldToLayout /\ shouldFromDevice
  <2>1. /\ Len(steps) = 2 /\ pc \in {1, 2, 3}
        /\ steps[1] = "fromDevice" /\ steps[2] = "typecast"
    BY <1>5 DEF Converting
  <2>. QED
    BY <2>1, <1>0, <1>5, DoneAt DEF Converting
<1>6. CASE /\ handler = <<"typecast", "toLayout", "toMemoryConfig", "fromDevice">>
           /\ isTilized(inputDesc) /\ outputDesc.dataType = BFloat16
  <2>1. /\ Len(steps) = 4 /\ pc \in {1, 2, 3, 4, 5}
        /\ steps[1] = "typecast" /\ steps[2] = "toLayout"
        /\ steps[3] = "toMemoryConfig" /\ steps[4] = "fromDevice"
    BY <1>6 DEF Converting
  <2>. QED
    BY <2>1, <1>0, <1>6, DoneAt DEF Converting
<1>7. CASE /\ handler = <<"typecast", "fromDevice", "toLayout">>
           /\ isTilized(inputDesc) /\ shouldFromDevice
  <2>1. /\ Len(steps) = 3 /\ pc \in {1, 2, 3, 4}
        /\ steps[1] = "typecast" /\ steps[2] = "fromDevice"
        /\ steps[3] = "toLayout"
    BY <1>7 DEF Converting
  <2>. QED
    BY <2>1, <1>0, <1>7, DoneAt DEF Converting
<1>8. CASE /\ handler = <<"toLayout", "typecast", "toMemoryConfig", "fromDevice">>
           /\ isTilized(outputDesc) /\ inputDesc.dataType = BFloat16
  <2>1. /\ Len(steps) = 4 /\ pc \in {1, 2, 3, 4, 5}
        /\ steps[1] = "toLayout" /\ steps[2] = "typecast"
        /\ steps[3] = "toMemoryConfig" /\ steps[4] = "fromDevice"
    BY <1>8 DEF Converting
  <2>. QED
    BY <2>1, <1>0, <1>8, DoneAt DEF Converting
<1>9. CASE /\ handler = <<"fromDevice", "toLayout", "typecast">>
           /\ shouldFromDevice
  <2>1. /\ Len(steps) = 3 /\ pc \in {1, 2, 3, 4}
        /\ steps[1] = "fromDevice" /\ steps[2] = "toLayout"
        /\ steps[3] = "typecast"
    BY <1>9 DEF Converting
  <2>. QED
    BY <2>1, <1>0, <1>9, DoneAt DEF Converting
<1>. QED
  BY DeviceHandlers, <1>1, <1>2, <1>3, <1>4, <1>5, <1>6, <1>7, <1>8, <1>9

\* A handler that has not stopped at LOG_FATAL does what it should.
LEMMA ConvertingRight ==
  ASSUME inputDesc \in Descs, outputDesc \in Descs, out \in Descs, Converting
  PROVE  /\ deviceUnsupported(inputDesc, outputDesc) =>
                pc = 1 /\ Len(steps) = 1 /\ steps[1] = "LOG_FATAL"
         /\ ~deviceUnsupported(inputDesc, outputDesc) => HandlerRight
<1>1. CASE isOnHost(inputDesc)
  BY <1>1, HostSteps DEF deviceUnsupported, isOnDevice
<1>2. CASE isOnDevice(inputDesc) /\ deviceUnsupported(inputDesc, outputDesc)
  <2>1. steps = LogFatal
    BY <1>2, DeviceHandlers DEF Converting
  <2>2. Len(steps) = 1 /\ steps[1] = "LOG_FATAL" /\ pc \in {1, 2}
    BY <2>1 DEF LogFatal, Converting
  <2>. QED
    BY <1>2, <2>2, DoneAt DEF Converting
<1>3. CASE isOnDevice(inputDesc) /\ ~deviceUnsupported(inputDesc, outputDesc)
  BY <1>3, DeviceSteps
<1>. QED
  BY <1>1, <1>2, <1>3 DEF isOnDevice

\* The steps taken after one more step.
LEMMA DoneNext ==
  ASSUME pc \in Nat \ {0}, pc' = pc + 1, UNCHANGED steps, NEW s
  PROVE  Done(s)' <=> Done(s) \/ steps[pc] = s
<1>1. 1 .. pc' - 1 = (1 .. pc - 1) \cup {pc}
  OBVIOUS
<1>. QED
  BY <1>1 DEF Done

\* A step converts the component that it is for, and no other.
LEMMA StepConverts ==
  ASSUME inputDesc \in Descs, outputDesc \in Descs, out \in Descs, Converting, step
  PROVE  Converting' /\ out' \in Descs
<1>1. /\ steps[pc] \in StepNames /\ pc \in Nat \ {0} /\ pc \in 1 .. Len(steps)
      /\ UNCHANGED <<inputDesc, outputDesc, steps>> /\ pc' = pc + 1
  BY ConvertingRight DEF step, HandlerRight, Converting
<1>2. \A s : Done(s)' <=> Done(s) \/ steps[pc] = s
  BY <1>1, DoneNext
<1>3. handler' = handler /\ pc' \in 1 .. Len(steps') + 1
  BY <1>1 DEF handler, convertHostTensorLayout, convertDeviceTensorLayout,
     handleHostInputNoLayoutNoTypecast, handleHostInputLayoutNoTypecast,
     handleHostInputNoLayoutTypecast, handleHostInputLayoutTypecast,
     handleDeviceInputNoLayoutNoTypecast, handleDeviceInputLayoutNoTypecast,
     handleDeviceInputNoLayoutTypecast, handleDeviceInputLayoutTypecast,
     shouldToLayout, shouldTilize, shouldUntilize, shouldTypecast, shouldFromDevice
<1>4. /\ shouldToLayout <=> inputDesc.layout # outputDesc.layout
      /\ shouldTypecast <=> inputDesc.dataType # outputDesc.dataType
      /\ isOnHost(inputDesc) <=> inputDesc.mem = SystemMemory
      /\ isOnHost(outputDesc) <=> outputDesc.mem = SystemMemory
      /\ outputDesc.layout \in Layouts /\ outputDesc.dataType \in DataTypes
      /\ outputDesc.mem \in Memories
  BY Flags, DescFacts DEF shouldTypecast
<1>5. /\ isOnHost(inputDesc) => (Moved' <=> Done("toDevice")') /\ (Moved <=> Done("toDevice"))
      /\ isOnDevice(inputDesc) /\ isOnHost(outputDesc) =>
            (Moved' <=> Done("fromDevice")') /\ (Moved <=> Done("fromDevice"))
      /\ isOnDevice(inputDesc) /\ isOnDevice(outputDesc) =>
            (Moved' <=> Done("toMemoryConfig")') /\ (Moved <=> Done("toMemoryConfig"))
  BY <1>1 DEF Moved, isOnDevice
<1>6. CASE steps[pc] = "toLayout"
  <2>1. out' = IF shouldToLayout THEN [out EXCEPT !.layout = outputDesc.layout] ELSE out
    BY <1>6 DEF step, call, toLayoutIfNeeded, apply
  <2>. QED
    BY <1>1, <1>2, <1>3, <1>4, <1>5, <1>6, <2>1, DescFacts DEF Converting, isOnDevice, Descs
<1>7. CASE steps[pc] = "typecast"
  <2>1. out' = IF shouldTypecast THEN [out EXCEPT !.dataType = outputDesc.dataType] ELSE out
    BY <1>7 DEF step, call, typecastIfNeeded, apply
  <2>. QED
    BY <1>1, <1>2, <1>3, <1>4, <1>5, <1>7, <2>1, DescFacts DEF Converting, isOnDevice, Descs
<1>8. CASE steps[pc] = "toDevice"
  <2>1. out' = IF shouldToDevice THEN [out EXCEPT !.mem = outputDesc.mem] ELSE out
    BY <1>8 DEF step, call, toDeviceIfNeeded, apply
  <2>. QED
    BY <1>1, <1>2, <1>3, <1>4, <1>5, <1>8, <2>1, DescFacts DEF Converting, isOnDevice, Descs,
       shouldToDevice
<1>9. CASE steps[pc] = "toMemoryConfig"
  <2>1. out' = IF shouldToMemoryConfig THEN [out EXCEPT !.mem = outputDesc.mem] ELSE out
    BY <1>9 DEF step, call, toMemoryConfigIfNeeded, apply
  <2>. QED
    BY <1>1, <1>2, <1>3, <1>4, <1>5, <1>9, <2>1, DescFacts DEF Converting, isOnDevice, Descs,
       shouldToDevice, shouldToMemoryConfig
<1>10. CASE steps[pc] = "fromDevice"
  <2>1. out' = IF shouldFromDevice THEN [out EXCEPT !.mem = SystemMemory] ELSE out
    BY <1>10 DEF step, call, fromDeviceIfNeeded, apply
  <2>. QED
    BY <1>1, <1>2, <1>3, <1>4, <1>5, <1>10, <2>1, DescFacts DEF Converting, isOnDevice, Descs,
       shouldFromDevice
<1>. QED
  BY <1>1, <1>6, <1>7, <1>8, <1>9, <1>10 DEF StepNames

\* Every step of the converter preserves its invariant.
LEMMA ConverterInvStep ==
  ASSUME ConverterInv, [NextConverter]_cvars
  PROVE  ConverterInv'
<1>1. CASE convertTensorLayout
  <2>1. /\ UNCHANGED <<inputDesc, outputDesc, out, pc>> /\ steps' = handler
        /\ converter' = "converting" /\ pc = 1 /\ out = inputDesc
    BY <1>1 DEF convertTensorLayout, ConverterInv, handler
  <2>2. handler' = handler
    BY <2>1 DEF handler, convertHostTensorLayout, convertDeviceTensorLayout,
       handleHostInputNoLayoutNoTypecast, handleHostInputLayoutNoTypecast,
       handleHostInputNoLayoutTypecast, handleHostInputLayoutTypecast,
       handleDeviceInputNoLayoutNoTypecast, handleDeviceInputLayoutNoTypecast,
       handleDeviceInputNoLayoutTypecast, handleDeviceInputLayoutTypecast,
       shouldToLayout, shouldTilize, shouldUntilize, shouldTypecast, shouldFromDevice
  <2>3. Len(steps') \in Nat
    <3>1. CASE isOnHost(inputDesc)
      BY <2>1, <3>1, HostHandlers DEF ConverterInv
    <3>2. CASE isOnDevice(inputDesc)
      BY <2>1, <3>2, DeviceHandlers DEF ConverterInv, LogFatal
    <3>. QED
      BY <3>1, <3>2 DEF isOnDevice
  <2>4. \A s : ~Done(s)'
    BY <2>1 DEF Done
  <2>5. Converting'
    BY <2>1, <2>2, <2>3, <2>4 DEF Converting, Moved
  <2>. QED
    BY <2>1, <2>5 DEF ConverterInv
<1>2. CASE step
  <2>1. Converting' /\ out' \in Descs
    BY <1>2, StepConverts DEF ConverterInv, step
  <2>. QED
    BY <1>2, <2>1 DEF ConverterInv, step
<1>3. CASE fatal
  BY <1>3 DEF ConverterInv, fatal
<1>4. CASE returnTensor
  <2>1. Converting /\ pc > Len(steps)
    BY <1>4 DEF ConverterInv, returnTensor
  <2>2. HandlerRight
    BY <2>1, ConvertingRight DEF ConverterInv
  <2>3. /\ out.mem = outputDesc.mem
        /\ out.layout = outputDesc.layout
        /\ out.dataType = outputDesc.dataType
    BY <2>1, <2>2, Flags DEF HandlerRight, Converting, shouldTypecast, ConverterInv
  <2>4. out = outputDesc
    BY <2>3, DescFacts DEF ConverterInv
  <2>. QED
    BY <1>4, <2>4 DEF ConverterInv, returnTensor
<1>5. CASE UNCHANGED cvars
  <2>1. UNCHANGED <<inputDesc, outputDesc, out, steps, pc, converter>>
    BY <1>5 DEF cvars
  <2>2. handler' = handler /\ (Moved' <=> Moved) /\ \A s : Done(s)' <=> Done(s)
    BY <2>1 DEF handler, convertHostTensorLayout, convertDeviceTensorLayout,
       handleHostInputNoLayoutNoTypecast, handleHostInputLayoutNoTypecast,
       handleHostInputNoLayoutTypecast, handleHostInputLayoutTypecast,
       handleDeviceInputNoLayoutNoTypecast, handleDeviceInputLayoutNoTypecast,
       handleDeviceInputNoLayoutTypecast, handleDeviceInputLayoutTypecast,
       shouldToLayout, shouldTilize, shouldUntilize, shouldTypecast, shouldFromDevice,
       Moved, Done
  <2>. QED
    BY <2>1, <2>2 DEF ConverterInv, Converting
<1>. QED
  BY <1>1, <1>2, <1>3, <1>4, <1>5 DEF NextConverter

\* Every step of the converter is a step of ToLayout or leaves its state
\* alone.
LEMMA ConverterStepRefines ==
  ASSUME ConverterInv, [NextConverter]_cvars
  PROVE  [Promise!Next]_<<IF converter = "returned" THEN out ELSE inputDesc, outputDesc,
                          CASE converter = "returned" -> "converted"
                            [] converter = "fatal" -> "refused"
                            [] OTHER -> "pending">>
<1>1. CASE convertTensorLayout
  BY <1>1 DEF convertTensorLayout
<1>2. CASE step
  BY <1>2 DEF step
<1>3. CASE fatal
  <2>1. deviceUnsupported(inputDesc, outputDesc)
    BY <1>3, ConvertingRight DEF fatal, ConverterInv, HandlerRight, StepNames
  <2>. QED
    BY <1>3, <2>1 DEF fatal, Promise!Next, Promise!Refuse
<1>4. CASE returnTensor
  <2>1. ~deviceUnsupported(inputDesc, outputDesc)
    BY <1>4, ConvertingRight DEF returnTensor, ConverterInv
  <2>2. out' = outputDesc'
    BY <1>4, ConverterInvStep DEF returnTensor, ConverterInv
  <2>. QED
    BY <1>4, <2>1, <2>2 DEF returnTensor, Promise!Next, Promise!Convert
<1>5. CASE UNCHANGED cvars
  BY <1>5 DEF cvars
<1>. QED
  BY <1>1, <1>2, <1>3, <1>4, <1>5 DEF NextConverter

\* The start of a conversion.
LEMMA ConverterInit ==
  ASSUME InitConverter
  PROVE  ConverterInv /\ Promise!Init
BY DEF InitConverter, ConverterInv, Promise!Init

\* The step of a conversion is a step of the converter alone, and whatever
\* else happens leaves the converter as it is.
LEMMA ConverterSteps ==
  [Next]_vars => [NextConverter]_cvars
BY DEF Next, vars, compile, toLayout, submit, runOp

\* LayoutConverter implements ToLayout: whatever the two descriptors, the
\* tensor that convertTensorLayout returns has the layout, the data type and
\* the memory config of outputDesc, and LOG_FATAL is reached for the
\* unsupported conversions and no others.
THEOREM ConverterCorrect == Spec => ConverterImplementsToLayout
<1>1. Init => ConverterInv /\ Promise!Init
  BY ConverterInit DEF Init
<1>2. ConverterInv /\ [Next]_vars => ConverterInv'
  BY ConverterInvStep, ConverterSteps
<1>3. ConverterInv /\ [Next]_vars =>
        [Promise!Next]_<<IF converter = "returned" THEN out ELSE inputDesc, outputDesc,
                          CASE converter = "returned" -> "converted"
                            [] converter = "fatal" -> "refused"
                            [] OTHER -> "pending">>
  BY ConverterStepRefines, ConverterSteps
<1>. QED
  BY <1>1, <1>2, <1>3, PTL DEF Spec, ConverterImplementsToLayout, Promise!Spec

-----------------------------------------------------------------------------
(* The compiler's pass                                                     *)

\* The handler for the to_layout that is being replaced.
createHandler == IF isOnHost(info.input) THEN Compiler!handleHostInputLayoutConversion
                                         ELSE Compiler!handleDeviceInputLayoutConversion

\* The handler has been through create step s.
Created(s) == \E i \in 1 .. at - 1 : creates[i] = s

\* The memory of the current value: settled by to_device from the host, by
\* from_device to the host; between device memories the tensor may go
\* through the host.
memNow ==
    IF isOnHost(info.input)
    THEN IF Created("toDevice") THEN info.output.mem ELSE info.input.mem
    ELSE IF isOnHost(info.output)
    THEN IF Created("fromDevice") THEN info.output.mem ELSE info.input.mem
    ELSE IF Created("forceToDevice") \/ Created("toMemoryConfig") THEN info.output.mem
    ELSE IF Created("forceFromDevice") THEN SystemMemory ELSE info.input.mem

\* While a to_layout is replaced, each component of the current type is the
\* to_layout's if the op for it was created or is not needed.
Creating ==
    /\ info.input \in Descs
    /\ info.output \in Descs
    /\ info.ops = Compiler!determineRequiredOps(info.input, info.output)
    /\ toLayouts # <<>>
    /\ info.output = Head(toLayouts).type
    /\ creates = createHandler
    /\ at \in 1 .. Len(creates) + 1
    /\ currentInput.layout = IF Created("toLayout") THEN info.output.layout ELSE info.input.layout
    /\ currentInput.dataType =
          IF Created("typecast") THEN info.output.dataType ELSE info.input.dataType
    /\ currentInput.mem = memNow

OpNames == {"to_device", "from_device", "to_layout", "to_dtype", "typecast", "to_memory_config"}
Args == Memories \cup Layouts \cup DataTypes

\* The type of the value that op n of the program takes.
typeBefore(n) == IF n = 1 THEN argType ELSE program[n - 1].type

\* Every created op can take the type before it, and its result type is what
\* the operation returns.
ProgramTyped ==
    /\ program \in Seq([op : OpNames, arg : Args, type : Descs])
    /\ \A n \in 1 .. Len(program) :
          /\ supported(program[n], typeBefore(n))
          /\ program[n].type = apply(program[n], typeBefore(n))
    /\ currentInput = typeBefore(Len(program) + 1)

NothingDropped == \A n \in DOMAIN replacements : ~DropsMemoryConfig(replacements[n])

\* No to_layout that is left has the type of the one before it, nor, unless a
\* memory config was dropped, has the first of them the type of its input.
NotRedundant ==
    /\ \A n \in 1 .. Len(toLayouts) - 1 : toLayouts[n].type # toLayouts[n + 1].type
    /\ pass = "decompose" /\ toLayouts # <<>> /\ NothingDropped =>
          currentInput # Head(toLayouts).type

CompilerInv ==
    /\ argType \in Descs
    /\ toLayouts \in Seq([type : Descs, uses : Nat \ {0}])
    /\ pass \in {"canonicalize", "decompose", "create", "done", "failed"}
    /\ currentInput \in Descs
    /\ replacements \in Seq([op : Descs, by : Descs, before : Descs])
    /\ ProgramTyped
    /\ pass = "canonicalize" => currentInput = argType
    /\ pass # "canonicalize" => NotRedundant
    /\ pass = "create" => Creating
    /\ OnlyMemoryConfigDropped
    /\ NoRedundantToLayout

\* The converter runs once the function is compiled, and the function runs
\* on the tensor that it returns.
RunInv ==
    /\ outputDesc = argType
    /\ converter # "new" => pass = "done"
    /\ tensor = NoTensor => ran = 0
    /\ ran \in 0 .. Len(program)
    /\ tensor # NoTensor => converter = "returned" /\ tensor = typeBefore(ran + 1)

ConversionInv == ConverterInv /\ CompilerInv /\ RunInv

\* The pass and the runtime see the same layouts.
LEMMA SameLayouts ==
  Compiler!Descs = Descs /\ Compiler!SystemMemory = SystemMemory
BY DEF Compiler!Descs, Descs, Compiler!Memories, Memories, Compiler!DeviceMemories,
   DeviceMemories, Compiler!InterleavedMemories, InterleavedMemories,
   Compiler!ShardedMemories, ShardedMemories, Compiler!SystemMemory, SystemMemory,
   Compiler!UnitGrid, UnitGrid, Compiler!Layouts, Layouts

\* What determineRequiredOps finds: the flags are the differences between
\* the two types, and the creation is valid when the types differ at all.
LEMMA RequiredOps ==
  ASSUME NEW i \in Descs, NEW o \in Descs
  PROVE  LET ops == Compiler!determineRequiredOps(i, o)
         IN  /\ ops.toLayout <=> i.layout # o.layout
             /\ ops.typecast <=> i.dataType # o.dataType
             /\ ops.toDevice <=> isOnHost(i) /\ isOnDevice(o)
             /\ ops.fromDevice <=> isOnDevice(i) /\ isOnHost(o)
             /\ ops.toMemoryConfig <=> isOnDevice(i) /\ isOnDevice(o) /\ i.mem # o.mem
             /\ Compiler!isCreationValid(i, o, ops) <=> i # o
<1>. DEFINE ops == Compiler!determineRequiredOps(i, o)
<1>. USE DEF Compiler!isOnHost, Compiler!isOnDevice, Compiler!isSharded
<1>1. /\ i.mem \in Memories /\ o.mem \in Memories
      /\ isOnHost(i) <=> i.mem.bufferType = "SystemMemory"
      /\ isOnHost(o) <=> o.mem.bufferType = "SystemMemory"
  BY DEF isOnHost, Descs
<1>2. \A m, n \in DeviceMemories :
        m # n <=> \/ m.memLayout # n.memLayout
                  \/ {m.bufferType, n.bufferType} = {"DRAM", "L1"}
                  \/ /\ m.memLayout \in ShardedLayouts
                     /\ n.memLayout \in ShardedLayouts
                     /\ m.grid # n.grid
  BY ShardedAssumption DEF DeviceMemories, InterleavedMemories, ShardedMemories
<1>3. /\ isOnDevice(i) <=> i.mem \in DeviceMemories
      /\ isOnDevice(o) <=> o.mem \in DeviceMemories
  BY <1>1 DEF isOnDevice, Memories, DeviceMemories, InterleavedMemories, ShardedMemories,
     SystemMemory
<1>4. /\ ops.toLayout <=> i.layout # o.layout
      /\ ops.typecast <=> i.dataType # o.dataType
  BY DEF Compiler!determineRequiredOps
<1>5. /\ ops.toDevice <=> isOnHost(i) /\ isOnDevice(o)
      /\ ops.fromDevice <=> isOnDevice(i) /\ isOnHost(o)
  BY <1>1 DEF Compiler!determineRequiredOps, isOnDevice
<1>6. ops.toMemoryConfig <=> isOnDevice(i) /\ isOnDevice(o) /\ i.mem # o.mem
  <2>1. CASE isOnDevice(i) /\ isOnDevice(o)
    BY <2>1, <1>1, <1>2, <1>3 DEF Compiler!determineRequiredOps, isOnDevice, isSharded
  <2>2. CASE isOnHost(i) \/ isOnHost(o)
    BY <2>2, <1>1, <1>5 DEF Compiler!determineRequiredOps, isOnDevice, isSharded, Memories,
       DeviceMemories, InterleavedMemories, ShardedMemories, SystemMemory
  <2>. QED
    BY <2>1, <2>2 DEF isOnDevice
<1>7. Compiler!createSomeOp(ops) <=> \/ ops.toDevice \/ ops.fromDevice \/ ops.typecast
                                     \/ ops.toLayout \/ ops.toMemoryConfig
  BY DEF Compiler!createSomeOp, Compiler!determineRequiredOps
<1>8. i # o <=> i.mem # o.mem \/ i.layout # o.layout \/ i.dataType # o.dataType
  BY DescFacts
<1>9. (isOnHost(i) <=> i.mem = SystemMemory) /\ (isOnHost(o) <=> o.mem = SystemMemory)
  BY DescFacts
<1>10. Compiler!isCreationValid(i, o, ops) <=> i # o
  BY <1>4, <1>5, <1>6, <1>7, <1>8, <1>9 DEF Compiler!isCreationValid, isOnDevice, isOnHost
<1>. QED
  BY <1>4, <1>5, <1>6, <1>10

\* The memory config of the to_layout that is being replaced is dropped.
Dropping == DropsMemoryConfig([op |-> info.output, by |-> currentInput, before |-> info.input])

\* The handlers of the pass for a tensor on the host.
LEMMA CreateHostHandlers ==
  ASSUME info.input \in Descs, info.output \in Descs, isOnHost(info.input),
         info.ops = Compiler!determineRequiredOps(info.input, info.output)
  PROVE
    \/ /\ createHandler = <<"toDevice", "toMemoryConfig">>
       /\ ~info.ops.toLayout /\ ~info.ops.typecast
    \/ /\ createHandler = <<"toLayout", "toMemoryConfig">>
       /\ ~info.ops.typecast /\ isOnHost(info.output)
    \/ /\ createHandler = <<"toDevice", "toLayout", "toMemoryConfig">>
       /\ ~info.ops.typecast /\ info.output.dataType = BFloat16
    \/ /\ createHandler = <<"toLayout", "toDevice", "toMemoryConfig">>
       /\ ~info.ops.typecast
    \/ /\ createHandler = <<"typecast", "toMemoryConfig">>
       /\ ~info.ops.toLayout /\ isOnHost(info.output)
    \/ /\ createHandler = <<"typecast", "toDevice", "toMemoryConfig">>
       /\ ~info.ops.toLayout
    \/ /\ createHandler = <<"toDevice", "typecast", "toMemoryConfig">>
       /\ ~info.ops.toLayout /\ isTilized(info.output)
    \/ /\ createHandler = <<"typecast", "toLayout", "toMemoryConfig">>
       /\ isOnHost(info.output)
    \/ /\ createHandler = <<"toDevice", "typecast", "toLayout", "toMemoryConfig">>
       /\ isTilized(info.input) /\ info.output.dataType = BFloat16
    \/ /\ createHandler = <<"typecast", "toLayout", "toDevice", "toMemoryConfig">>
    \/ /\ createHandler = <<"toDevice", "toLayout", "typecast", "toMemoryConfig">>
       /\ isTilized(info.output) /\ info.input.dataType = BFloat16
    \/ /\ createHandler = <<"typecast", "toDevice", "toLayout", "toMemoryConfig">>
       /\ info.output.dataType = BFloat16
<1>0. /\ info.ops.toLayout <=> info.input.layout # info.output.layout
      /\ info.input.layout \in {"row_major", "tile"} /\ info.output.layout \in {"row_major", "tile"}
      /\ info.ops.typecast <=> info.input.dataType # info.output.dataType
      /\ info.ops.toLayout \in BOOLEAN /\ info.ops.typecast \in BOOLEAN
  BY RequiredOps, DescFacts DEF Layouts, Compiler!determineRequiredOps
<1>. USE DEF createHandler, Compiler!handleHostInputLayoutConversion, Compiler!shouldTilize,
             Compiler!shouldUntilize, Compiler!canTilizeDataTypeOnDevice,
             Compiler!canUntilizeDataTypeOnDevice, canUntilizeDataTypeOnDevice,
             Compiler!isTilized, isTilized, Compiler!isOnHost, isOnHost
<1>1. CASE ~info.ops.toLayout /\ ~info.ops.typecast
  BY <1>1 DEF Compiler!handleHostInputNoLayoutNoTypecast
<1>2. CASE info.ops.toLayout /\ ~info.ops.typecast
  BY <1>0, <1>2 DEF Compiler!handleHostInputLayoutNoTypecast
<1>3. CASE ~info.ops.toLayout /\ info.ops.typecast
  BY <1>0, <1>3 DEF Compiler!handleHostInputNoLayoutTypecast
<1>4. CASE info.ops.toLayout /\ info.ops.typecast
  BY <1>0, <1>4 DEF Compiler!handleHostInputLayoutTypecast
<1>. QED
  BY <1>1, <1>2, <1>3, <1>4

\* The handlers of the pass for a tensor on the device; only one of them
\* drops a memory config.
LEMMA CreateDeviceHandlers ==
  ASSUME info.input \in Descs, info.output \in Descs, isOnDevice(info.input),
         info.ops = Compiler!determineRequiredOps(info.input, info.output)
  PROVE
    \/ /\ createHandler = <<"typecast", "toLayout", "fromDevice">>
       /\ isTilized(info.input) /\ info.output.dataType = BFloat16
       /\ isOnHost(info.output) \/ info.input.mem = info.output.mem \/ Dropping
    \/ /\ ~Dropping
       /\ \/ /\ createHandler = <<"toMemoryConfig", "fromDevice">>
             /\ ~info.ops.toLayout /\ ~info.ops.typecast
          \/ /\ createHandler = <<"toLayout", "toMemoryConfig", "fromDevice">>
             /\ ~info.ops.typecast /\ info.input.dataType = BFloat16
          \/ /\ createHandler = <<"fromDevice", "toLayout">>
             /\ ~info.ops.typecast /\ isOnHost(info.output)
          \/ /\ createHandler = <<"forceFromDevice", "toLayout", "forceToDevice">>
             /\ ~info.ops.typecast /\ isOnDevice(info.output)
          \/ /\ createHandler = <<"forceFromDevice", "toLayout", "forceToDevice", "toMemoryConfig">>
             /\ ~info.ops.typecast /\ isOnDevice(info.output)
          \/ /\ createHandler = <<"typecast", "toMemoryConfig", "fromDevice">>
             /\ ~info.ops.toLayout /\ isTilized(info.input)
          \/ /\ createHandler = <<"fromDevice", "typecast">>
             /\ ~info.ops.toLayout /\ isOnHost(info.output)
          \/ /\ createHandler = <<"forceFromDevice", "typecast", "forceToDevice", "toMemoryConfig">>
             /\ ~info.ops.toLayout /\ isOnDevice(info.output)
          \/ /\ createHandler = <<"typecast", "fromDevice", "toLayout">>
             /\ isTilized(info.input) /\ isOnHost(info.output)
          \/ /\ createHandler = <<"typecast", "forceFromDevice", "toLayout", "forceToDevice", "toMemoryConfig">>
             /\ isTilized(info.input) /\ isOnDevice(info.output)
          \/ /\ createHandler = <<"toLayout", "typecast", "toMemoryConfig", "fromDevice">>
             /\ isTilized(info.output) /\ info.input.dataType = BFloat16
          \/ /\ createHandler = <<"fromDevice", "toLayout", "typecast">>
             /\ isOnHost(info.output)
          \/ /\ createHandler = <<"forceFromDevice", "toLayout", "forceToDevice", "typecast", "toMemoryConfig">>
             /\ isTilized(info.output) /\ isOnDevice(info.output)
<1>0. /\ info.ops.toLayout <=> info.input.layout # info.output.layout
      /\ info.input.layout \in {"row_major", "tile"} /\ info.output.layout \in {"row_major", "tile"}
      /\ info.ops.typecast <=> info.input.dataType # info.output.dataType
      /\ info.ops.fromDevice <=> isOnHost(info.output)
      /\ info.ops.toLayout \in BOOLEAN /\ info.ops.typecast \in BOOLEAN
  BY RequiredOps, DescFacts DEF Layouts, Compiler!determineRequiredOps
<1>. USE DEF createHandler, Compiler!handleDeviceInputLayoutConversion, Compiler!shouldTilize,
             Compiler!shouldUntilize, Compiler!canTilizeDataTypeOnDevice,
             Compiler!canUntilizeDataTypeOnDevice, canUntilizeDataTypeOnDevice,
             Compiler!isTilized, isTilized, Compiler!isOnHost, isOnHost, isOnDevice, Dropping, DropsMemoryConfig
<1>1. CASE ~info.ops.toLayout /\ ~info.ops.typecast
  BY <1>0, <1>1 DEF Compiler!handleDeviceInputNoLayoutNoTypecast
<1>2. CASE info.ops.toLayout /\ ~info.ops.typecast
  BY <1>0, <1>2 DEF Compiler!handleDeviceInputLayoutNoTypecast
<1>3. CASE ~info.ops.toLayout /\ info.ops.typecast
  BY <1>0, <1>3 DEF Compiler!handleDeviceInputNoLayoutTypecast
<1>4. CASE info.ops.toLayout /\ info.ops.typecast
  BY <1>0, <1>4 DEF Compiler!handleDeviceInputLayoutTypecast
<1>. QED
  BY <1>1, <1>2, <1>3, <1>4

\* The create steps that the handler has been through, one by one.
LEMMA CreatedAt ==
  ASSUME NEW s
  PROVE  /\ at = 1 => ~Created(s)
         /\ at = 2 => (Created(s) <=> creates[1] = s)
         /\ at = 3 => (Created(s) <=> creates[1] = s \/ creates[2] = s)
         /\ at = 4 => (Created(s) <=> creates[1] = s \/ creates[2] = s \/ creates[3] = s)
         /\ at = 5 => (Created(s) <=> \/ creates[1] = s \/ creates[2] = s
                                      \/ creates[3] = s \/ creates[4] = s)
         /\ at = 6 => (Created(s) <=> \/ creates[1] = s \/ creates[2] = s \/ creates[3] = s
                                      \/ creates[4] = s \/ creates[5] = s)
<1>1. at = 1 => 1 .. at - 1 = {}
  OBVIOUS
<1>2. at = 2 => 1 .. at - 1 = {1}
  OBVIOUS
<1>3. at = 3 => 1 .. at - 1 = {1, 2}
  OBVIOUS
<1>4. at = 4 => 1 .. at - 1 = {1, 2, 3}
  OBVIOUS
<1>5. at = 5 => 1 .. at - 1 = {1, 2, 3, 4}
  OBVIOUS
<1>6. at = 6 => 1 .. at - 1 = {1, 2, 3, 4, 5}
  OBVIOUS
<1>. QED
  BY <1>1, <1>2, <1>3, <1>4, <1>5, <1>6 DEF Created

CreateNames == {"toLayout", "typecast", "toDevice", "forceToDevice", "toMemoryConfig",
                "fromDevice", "forceFromDevice"}

deviceToDevice == isOnDevice(info.input) /\ isOnDevice(info.output)

\* The op that create step s creates, if any, can take the current value;
\* to_memory_config, which gets the type of the to_layout, comes when the
\* layout and the data type are settled.
CreateReady(s) ==
    /\ s = "toLayout" /\ info.ops.toLayout =>
          isOnHost(currentInput) \/ currentInput.dataType = BFloat16
    /\ s = "typecast" /\ info.ops.typecast => isOnHost(currentInput) \/ isTilized(currentInput)
    /\ s = "toDevice" /\ info.ops.toDevice => isOnHost(currentInput)
    /\ s = "forceToDevice" => isOnHost(currentInput) /\ deviceToDevice
    /\ s = "fromDevice" /\ info.ops.fromDevice => isOnDevice(currentInput)
    /\ s = "forceFromDevice" =>
          /\ isOnDevice(currentInput) /\ deviceToDevice
          /\ ~Created("forceToDevice") /\ ~Created("toMemoryConfig")
    /\ s = "toMemoryConfig" /\ deviceToDevice =>
          /\ isOnDevice(currentInput)
          /\ currentInput.layout = info.output.layout
          /\ currentInput.dataType = info.output.dataType

\* What a handler of the pass does: it ends with every component converted,
\* the dropped memory config excepted, and each created op can take its input.
CreatesRight ==
    /\ at <= Len(creates) => creates[at] \in CreateNames /\ CreateReady(creates[at])
    /\ at > Len(creates) => /\ info.ops.toLayout => Created("toLayout")
                            /\ info.ops.typecast => Created("typecast")
                            /\ memNow = IF Dropping THEN info.input.mem ELSE info.output.mem

\* The compiler's handlers of an input on the host.
LEMMA HostCreates ==
  ASSUME currentInput \in Descs, Creating, isOnHost(info.input)
  PROVE  CreatesRight
<1>0. /\ info.input.mem = SystemMemory
      /\ isOnHost(currentInput) <=> currentInput.mem = SystemMemory
      /\ isOnHost(info.output) <=> info.output.mem = SystemMemory
      /\ memNow = IF Created("toDevice") THEN info.output.mem ELSE info.input.mem
      /\ info.ops.toLayout <=> info.input.layout # info.output.layout
      /\ info.ops.typecast <=> info.input.dataType # info.output.dataType
      /\ info.ops.toDevice <=> isOnDevice(info.output)
      /\ ~info.ops.fromDevice /\ ~info.ops.toMemoryConfig
      /\ ~Dropping
  BY DescFacts, RequiredOps DEF Creating, memNow, isOnDevice, Dropping, DropsMemoryConfig
<1>. USE DEF CreatesRight, CreateNames, CreateReady, isOnDevice, isTilized, deviceToDevice
<1>1. CASE /\ createHandler = <<"toDevice", "toMemoryConfig">>
           /\ ~info.ops.toLayout /\ ~info.ops.typecast
  <2>1. /\ Len(creates) = 2 /\ at \in {1, 2, 3}
        /\ creates[1] = "toDevice" /\ creates[2] = "toMemoryConfig"
    BY <1>1 DEF Creating
  <2>. QED
    BY <2>1, <1>0, <1>1, CreatedAt DEF Creating
<1>2. CASE /\ createHandler = <<"toLayout", "toMemoryConfig">>
           /\ ~info.ops.typecast /\ isOnHost(info.output)
  <2>1. /\ Len(creates) = 2 /\ at \in {1, 2, 3}
        /\ creates[1] = "toLayout" /\ creates[2] = "toMemoryConfig"
    BY <1>2 DEF Creating
  <2>. QED
    BY <2>1, <1>0, <1>2, CreatedAt DEF Creating
<1>3. CASE /\ createHandler = <<"toDevice", "toLayout", "toMemoryConfig">>
           /\ ~info.ops.typecast /\ info.output.dataType = BFloat16
  <2>1. /\ Len(creates) = 3 /\ at \in {1, 2, 3, 4}
        /\ creates[1] = "toDevice" /\ creates[2] = "toLayout"
        /\ creates[3] = "toMemoryConfig"
    BY <1>3 DEF Creating
  <2>. QED
    BY <2>1, <1>0, <1>3, CreatedAt DEF Creating
<1>4. CASE /\ createHandler = <<"toLayout", "toDevice", "toMemoryConfig">>
           /\ ~info.ops.typecast
  <2>1. /\ Len(creates) = 3 /\ at \in {1, 2, 3, 4}
        /\ creates[1] = "toLayout" /\ creates[2] = "toDevice"
        /\ creates[3] = "toMemoryConfig"
    BY <1>4 DEF Creating
  <2>. QED
    BY <2>1, <1>0, <1>4, CreatedAt DEF Creating
<1>5. CASE /\ createHandler = <<"typecast", "toMemoryConfig">>
           /\ ~info.ops.toLayout /\ isOnHost(info.output)
  <2>1. /\ Len(creates) = 2 /\ at \in {1, 2, 3}
        /\ creates[1] = "typecast" /\ creates[2] = "toMemoryConfig"
    BY <1>5 DEF Creating
  <2>. QED
    BY <2>1, <1>0, <1>5, CreatedAt DEF Creating
<1>6. CASE /\ createHandler = <<"typecast", "toDevice", "toMemoryConfig">>
           /\ ~info.ops.toLayout
  <2>1. /\ Len(creates) = 3 /\ at \in {1, 2, 3, 4}
        /\ creates[1] = "typecast" /\ creates[2] = "toDevice"
        /\ creates[3] = "toMemoryConfig"
    BY <1>6 DEF Creating
  <2>. QED
    BY <2>1, <1>0, <1>6, CreatedAt DEF Creating
<1>7. CASE /\ createHandler = <<"toDevice", "typecast", "toMemoryConfig">>
           /\ ~info.ops.toLayout /\ isTilized(info.output)
  <2>1. /\ Len(creates) = 3 /\ at \in {1, 2, 3, 4}
        /\ creates[1] = "toDevice" /\ creates[2] = "typecast"
        /\ creates[3] = "toMemoryConfig"
    BY <1>7 DEF Creating
  <2>. QED
    BY <2>1, <1>0, <1>7, CreatedAt DEF Creating
<1>8. CASE /\ createHandler = <<"typecast", "toLayout", "toMemoryConfig">>
           /\ isOnHost(info.output)
  <2>1. /\ Len(creates) = 3 /\ at \in {1, 2, 3, 4}
        /\ creates[1] = "typecast" /\ creates[2] = "toLayout"
        /\ creates[3] = "toMemoryConfig"
    BY <1>8 DEF Creating
  <2>. QED
    BY <2>1, <1>0, <1>8, CreatedAt DEF Creating
<1>9. CASE /\ createHandler = <<"toDevice", "typecast", "toLayout", "toMemoryConfig">>
           /\ isTilized(info.input) /\ info.output.dataType = BFloat16
  <2>1. /\ Len(creates) = 4 /\ at \in {1, 2, 3, 4, 5}
        /\ creates[1] = "toDevice" /\ creates[2] = "typecast"
        /\ creates[3] = "toLayout" /\ creates[4] = "toMemoryConfig"
    BY <1>9 DEF Creating
  <2>. QED
    BY <2>1, <1>0, <1>9, CreatedAt DEF Creating
<1>10. CASE /\ createHandler = <<"typecast", "toLayout", "toDevice", "toMemoryConfig">>
  <2>1. /\ Len(creates) = 4 /\ at \in {1, 2, 3, 4, 5}
        /\ creates[1] = "typecast" /\ creates[2] = "toLayout"
        /\ creates[3] = "toDevice" /\ creates[4] = "toMemoryConfig"
    BY <1>10 DEF Creating
  <2>. QED
    BY <2>1, <1>0, <1>10, CreatedAt DEF Creating
<1>11. CASE /\ createHandler = <<"toDevice", "toLayout", "typecast", "toMemoryConfig">>
           /\ isTilized(info.output) /\ info.input.dataType = BFloat16
  <2>1. /\ Len(creates) = 4 /\ at \in {1, 2, 3, 4, 5}
        /\ creates[1] = "toDevice" /\ creates[2] = "toLayout"
        /\ creates[3] = "typecast" /\ creates[4] = "toMemoryConfig"
    BY <1>11 DEF Creating
  <2>. QED
    BY <2>1, <1>0, <1>11, CreatedAt DEF Creating
<1>12. CASE /\ createHandler = <<"typecast", "toDevice", "toLayout", "toMemoryConfig">>
           /\ info.output.dataType = BFloat16
  <2>1. /\ Len(creates) = 4 /\ at \in {1, 2, 3, 4, 5}
        /\ creates[1] = "typecast" /\ creates[2] = "toDevice"
        /\ creates[3] = "toLayout" /\ creates[4] = "toMemoryConfig"
    BY <1>12 DEF Creating
  <2>. QED
    BY <2>1, <1>0, <1>12, CreatedAt DEF Creating
<1>. QED
  BY CreateHostHandlers, <1>1, <1>2, <1>3, <1>4, <1>5, <1>6, <1>7, <1>8, <1>9, <1>10, <1>11, <1>12 DEF Creating

\* The compiler's handlers of an input on the device.
LEMMA DeviceCreates ==
  ASSUME currentInput \in Descs, Creating, isOnDevice(info.input)
  PROVE  CreatesRight
<1>0. /\ info.input.mem # SystemMemory
      /\ isOnHost(currentInput) <=> currentInput.mem = SystemMemory
      /\ isOnHost(info.output) <=> info.output.mem = SystemMemory
      /\ memNow = IF isOnHost(info.output)
                  THEN IF Created("fromDevice") THEN info.output.mem ELSE info.input.mem
                  ELSE IF Created("forceToDevice") \/ Created("toMemoryConfig")
                  THEN info.output.mem
                  ELSE IF Created("forceFromDevice") THEN SystemMemory ELSE info.input.mem
      /\ info.ops.toLayout <=> info.input.layout # info.output.layout
      /\ info.ops.typecast <=> info.input.dataType # info.output.dataType
      /\ ~info.ops.toDevice
      /\ info.ops.fromDevice <=> isOnHost(info.output)
      /\ Dropping => isOnDevice(info.output)
  BY DescFacts, RequiredOps DEF Creating, memNow, isOnDevice, Dropping, DropsMemoryConfig
<1>. USE DEF CreatesRight, CreateNames, CreateReady, isOnDevice, isTilized, deviceToDevice
<1>1. CASE /\ createHandler = <<"typecast", "toLayout", "fromDevice">>
           /\ isTilized(info.input) /\ info.output.dataType = BFloat16
           /\ isOnHost(info.output) \/ info.input.mem = info.output.mem \/ Dropping
  <2>1. /\ Len(creates) = 3 /\ at \in {1, 2, 3, 4}
        /\ creates[1] = "typecast" /\ creates[2] = "toLayout"
        /\ creates[3] = "fromDevice"
    BY <1>1 DEF Creating
  <2>. QED
    BY <2>1, <1>0, <1>1, CreatedAt DEF Creating
<1>2. CASE /\ createHandler = <<"toMemoryConfig", "fromDevice">>
           /\ ~info.ops.toLayout /\ ~info.ops.typecast
           /\ ~Dropping
  <2>1. /\ Len(creates) = 2 /\ at \in {1, 2, 3}
        /\ creates[1] = "toMemoryConfig" /\ creates[2] = "fromDevice"
    BY <1>2 DEF Creating
  <2>. QED
    BY <2>1, <1>0, <1>2, CreatedAt DEF Creating
<1>3. CASE /\ createHandler = <<"toLayout", "toMemoryConfig", "fromDevice">>
           /\ ~info.ops.typecast /\ info.input.dataType = BFloat16
           /\ ~Dropping
  <2>1. /\ Len(creates) = 3 /\ at \in {1, 2, 3, 4}
        /\ creates[1] = "toLayout" /\ creates[2] = "toMemoryConfig"
        /\ creates[3] = "fromDevice"
    BY <1>3 DEF Creating
  <2>. QED
    BY <2>1, <1>0, <1>3, CreatedAt DEF Creating
<1>4. CASE /\ createHandler = <<"fromDevice", "toLayout">>
           /\ ~info.ops.typecast /\ isOnHost(info.output)
           /\ ~Dropping
  <2>1. /\ Len(creates) = 2 /\ at \in {1, 2, 3}
        /\ creates[1] = "fromDevice" /\ creates[2] = "toLayout"
    BY <1>4 DEF Creating
  <2>. QED
    BY <2>1, <1>0, <1>4, CreatedAt DEF Creating
<1>5. CASE /\ createHandler = <<"forceFromDevice", "toLayout", "forceToDevice">>
           /\ ~info.ops.typecast /\ isOnDevice(info.output)
           /\ ~Dropping
  <2>1. /\ Len(creates) = 3 /\ at \in {1, 2, 3, 4}
        /\ creates[1] = "forceFromDevice" /\ creates[2] = "toLayout"
        /\ creates[3] = "forceToDevice"
    BY <1>5 DEF Creating
  <2>. QED
    BY <2>1, <1>0, <1>5, CreatedAt DEF Creating
<1>6. CASE /\ createHandler = <<"forceFromDevice", "toLayout", "forceToDevice", "toMemoryConfig">>
           /\ ~info.ops.typecast /\ isOnDevice(info.output)
           /\ ~Dropping
  <2>1. /\ Len(creates) = 4 /\ at \in {1, 2, 3, 4, 5}
        /\ creates[1] = "forceFromDevice" /\ creates[2] = "toLayout"
        /\ creates[3] = "forceToDevice" /\ creates[4] = "toMemoryConfig"
    BY <1>6 DEF Creating
  <2>. QED
    BY <2>1, <1>0, <1>6, CreatedAt DEF Creating
<1>7. CASE /\ createHandler = <<"typecast", "toMemoryConfig", "fromDevice">>
           /\ ~info.ops.toLayout /\ isTilized(info.input)
           /\ ~Dropping
  <2>1. /\ Len(creates) = 3 /\ at \in {1, 2, 3, 4}
        /\ creates[1] = "typecast" /\ creates[2] = "toMemoryConfig"
        /\ creates[3] = "fromDevice"
    BY <1>7 DEF Creating
  <2>. QED
    BY <2>1, <1>0, <1>7, CreatedAt DEF Creating
<1>8. CASE /\ createHandler = <<"fromDevice", "typecast">>
           /\ ~info.ops.toLayout /\ isOnHost(info.output)
           /\ ~Dropping
  <2>1. /\ Len(creates) = 2 /\ at \in {1, 2, 3}
        /\ creates[1] = "fromDevice" /\ creates[2] = "typecast"
    BY <1>8 DEF Creating
  <2>. QED
    BY <2>1, <1>0, <1>8, CreatedAt DEF Creating
<1>9. CASE /\ createHandler = <<"forceFromDevice", "typecast", "forceToDevice", "toMemoryConfig">>
           /\ ~info.ops.toLayout /\ isOnDevice(info.output)
           /\ ~Dropping
  <2>1. /\ Len(creates) = 4 /\ at \in {1, 2, 3, 4, 5}
        /\ creates[1] = "forceFromDevice" /\ creates[2] = "typecast"
        /\ creates[3] = "forceToDevice" /\ creates[4] = "toMemoryConfig"
    BY <1>9 DEF Creating
  <2>. QED
    BY <2>1, <1>0, <1>9, CreatedAt DEF Creating
<1>10. CASE /\ createHandler = <<"typecast", "fromDevice", "toLayout">>
           /\ isTilized(info.input) /\ isOnHost(info.output)
           /\ ~Dropping
  <2>1. /\ Len(creates) = 3 /\ at \in {1, 2, 3, 4}
        /\ creates[1] = "typecast" /\ creates[2] = "fromDevice"
        /\ creates[3] = "toLayout"
    BY <1>10 DEF Creating
  <2>. QED
    BY <2>1, <1>0, <1>10, CreatedAt DEF Creating
<1>11. CASE /\ createHandler = <<"typecast", "forceFromDevice", "toLayout", "forceToDevice", "toMemoryConfig">>
           /\ isTilized(info.input) /\ isOnDevice(info.output)
           /\ ~Dropping
  <2>1. /\ Len(creates) = 5 /\ at \in {1, 2, 3, 4, 5, 6}
        /\ creates[1] = "typecast" /\ creates[2] = "forceFromDevice"
        /\ creates[3] = "toLayout" /\ creates[4] = "forceToDevice"
        /\ creates[5] = "toMemoryConfig"
    BY <1>11 DEF Creating
  <2>. QED
    BY <2>1, <1>0, <1>11, CreatedAt DEF Creating
<1>12. CASE /\ createHandler = <<"toLayout", "typecast", "toMemoryConfig", "fromDevice">>
           /\ isTilized(info.output) /\ info.input.dataType = BFloat16
           /\ ~Dropping
  <2>1. /\ Len(creates) = 4 /\ at \in {1, 2, 3, 4, 5}
        /\ creates[1] = "toLayout" /\ creates[2] = "typecast"
        /\ creates[3] = "toMemoryConfig" /\ creates[4] = "fromDevice"
    BY <1>12 DEF Creating
  <2>. QED
    BY <2>1, <1>0, <1>12, CreatedAt DEF Creating
<1>13. CASE /\ createHandler = <<"fromDevice", "toLayout", "typecast">>
           /\ isOnHost(info.output)
           /\ ~Dropping
  <2>1. /\ Len(creates) = 3 /\ at \in {1, 2, 3, 4}
        /\ creates[1] = "fromDevice" /\ creates[2] = "toLayout"
        /\ creates[3] = "typecast"
    BY <1>13 DEF Creating
  <2>. QED
    BY <2>1, <1>0, <1>13, CreatedAt DEF Creating
<1>14. CASE /\ createHandler = <<"forceFromDevice", "toLayout", "forceToDevice", "typecast", "toMemoryConfig">>
           /\ isTilized(info.output) /\ isOnDevice(info.output)
           /\ ~Dropping
  <2>1. /\ Len(creates) = 5 /\ at \in {1, 2, 3, 4, 5, 6}
        /\ creates[1] = "forceFromDevice" /\ creates[2] = "toLayout"
        /\ creates[3] = "forceToDevice" /\ creates[4] = "typecast"
        /\ creates[5] = "toMemoryConfig"
    BY <1>14 DEF Creating
  <2>. QED
    BY <2>1, <1>0, <1>14, CreatedAt DEF Creating
<1>. QED
  BY CreateDeviceHandlers, <1>1, <1>2, <1>3, <1>4, <1>5, <1>6, <1>7, <1>8, <1>9, <1>10, <1>11, <1>12, <1>13, <1>14 DEF Creating

\* Every handler of the compiler's.
LEMMA HandlersRight ==
  ASSUME currentInput \in Descs, Creating
  PROVE  CreatesRight
BY HostCreates, DeviceCreates DEF isOnDevice

\* The record of the op that create step s creates.
created(s) == [op |-> Compiler!create(s).op, arg |-> Compiler!create(s).arg,
               type |-> Compiler!create(s).type]

\* What each create step creates, and when.
LEMMA CreateRecords ==
  /\ Compiler!create("toLayout").needed = info.ops.toLayout
  /\ created("toLayout") = [op |-> "to_layout", arg |-> info.output.layout,
                            type |-> [currentInput EXCEPT !.layout = info.output.layout]]
  /\ Compiler!create("typecast").needed = info.ops.typecast
  /\ created("typecast") = [op |-> IF isOnHost(currentInput) THEN "to_dtype" ELSE "typecast",
                            arg |-> info.output.dataType,
                            type |-> [currentInput EXCEPT !.dataType = info.output.dataType]]
  /\ Compiler!create("toDevice").needed <=> info.ops.toDevice
  /\ Compiler!create("forceToDevice").needed
  /\ \A s \in {"toDevice", "forceToDevice"} :
        created(s) = [op |-> "to_device", arg |-> info.output.mem,
                      type |-> [currentInput EXCEPT !.mem = info.output.mem]]
  /\ Compiler!create("fromDevice").needed <=> info.ops.fromDevice
  /\ Compiler!create("forceFromDevice").needed
  /\ \A s \in {"fromDevice", "forceFromDevice"} :
        created(s) = [op |-> "from_device", arg |-> SystemMemory,
                      type |-> [currentInput EXCEPT !.mem = SystemMemory]]
  /\ Compiler!create("toMemoryConfig").needed = info.ops.toMemoryConfig
  /\ created("toMemoryConfig") = [op |-> "to_memory_config", arg |-> info.output.mem,
                                  type |-> info.output]
<1>. USE DEF created, Compiler!create
<1>1. /\ Compiler!create("toLayout").needed = info.ops.toLayout
      /\ created("toLayout") = [op |-> "to_layout", arg |-> info.output.layout,
                                type |-> [currentInput EXCEPT !.layout = info.output.layout]]
  BY DEF Compiler!createToLayoutOpIfNeeded
<1>2. /\ Compiler!create("typecast").needed = info.ops.typecast
      /\ created("typecast") =
            [op |-> IF isOnHost(currentInput) THEN "to_dtype" ELSE "typecast",
             arg |-> info.output.dataType,
             type |-> [currentInput EXCEPT !.dataType = info.output.dataType]]
  BY DEF Compiler!createDataTypeCastingOpIfNeeded, Compiler!isOnHost, isOnHost
<1>3. /\ Compiler!create("toDevice").needed <=> info.ops.toDevice
      /\ Compiler!create("forceToDevice").needed
      /\ created("toDevice") = [op |-> "to_device", arg |-> info.output.mem,
                                type |-> [currentInput EXCEPT !.mem = info.output.mem]]
      /\ created("forceToDevice") = [op |-> "to_device", arg |-> info.output.mem,
                                     type |-> [currentInput EXCEPT !.mem = info.output.mem]]
  BY DEF Compiler!createToDeviceOpIfNeeded
<1>4. /\ Compiler!create("fromDevice").needed <=> info.ops.fromDevice
      /\ Compiler!create("forceFromDevice").needed
      /\ created("fromDevice") = [op |-> "from_device", arg |-> SystemMemory,
                                  type |-> [currentInput EXCEPT !.mem = SystemMemory]]
      /\ created("forceFromDevice") = [op |-> "from_device", arg |-> SystemMemory,
                                       type |-> [currentInput EXCEPT !.mem = SystemMemory]]
  BY SameLayouts DEF Compiler!createFromDeviceOpIfNeeded
<1>5. /\ Compiler!create("toMemoryConfig").needed = info.ops.toMemoryConfig
      /\ created("toMemoryConfig") = [op |-> "to_memory_config", arg |-> info.output.mem,
                                      type |-> info.output]
  BY DEF Compiler!createToMemoryConfigOpIfNeeded
<1>. QED
  BY <1>1, <1>2, <1>3, <1>4, <1>5

\* A created op can take the current value, and its result type is the type
\* of what it returns.
LEMMA CreatedTyped ==
  ASSUME currentInput \in Descs, Creating, NEW s \in CreateNames, CreateReady(s),
         Compiler!create(s).needed
  PROVE  /\ created(s) \in [op : OpNames, arg : Args, type : Descs]
         /\ supported(created(s), currentInput)
         /\ created(s).type = apply(created(s), currentInput)
<1>0. /\ info.output \in Descs /\ info.output.layout \in Layouts
      /\ info.output.dataType \in DataTypes /\ info.output.mem \in Memories
  BY DescFacts DEF Creating
<1>. DEFINE toLayoutType == [currentInput EXCEPT !.layout = info.output.layout]
            dataTypeType == [currentInput EXCEPT !.dataType = info.output.dataType]
            toDeviceType == [currentInput EXCEPT !.mem = info.output.mem]
            fromDeviceType == [currentInput EXCEPT !.mem = SystemMemory]
<1>9. /\ toLayoutType \in Descs /\ dataTypeType \in Descs
      /\ toDeviceType \in Descs /\ fromDeviceType \in Descs
  BY <1>0, DescFacts
<1>1. CASE s = "toLayout"
  <2>1. created(s) = [op |-> "to_layout", arg |-> info.output.layout, type |-> toLayoutType]
    BY <1>1, CreateRecords
  <2>2. isOnHost(currentInput) \/ currentInput.dataType = BFloat16
    BY <1>1, CreateRecords DEF CreateReady
  <2>. QED
    BY <1>0, <1>9, <2>1, <2>2 DEF supported, apply, OpNames, Args
<1>2. CASE s = "typecast"
  <2>1. created(s) = [op |-> IF isOnHost(currentInput) THEN "to_dtype" ELSE "typecast",
                      arg |-> info.output.dataType, type |-> dataTypeType]
    BY <1>2, CreateRecords
  <2>2. isOnHost(currentInput) \/ isTilized(currentInput)
    BY <1>2, CreateRecords DEF CreateReady
  <2>3. CASE isOnHost(currentInput)
    BY <1>0, <1>9, <2>1, <2>3 DEF supported, apply, OpNames, Args
  <2>4. CASE ~isOnHost(currentInput)
    BY <1>0, <1>9, <2>1, <2>2, <2>4 DEF supported, apply, OpNames, Args, isOnDevice
  <2>. QED
    BY <2>3, <2>4
<1>3. CASE s = "toDevice" \/ s = "forceToDevice"
  <2>1. created(s) = [op |-> "to_device", arg |-> info.output.mem, type |-> toDeviceType]
    BY <1>3, CreateRecords
  <2>2. isOnHost(currentInput)
    BY <1>3, CreateRecords DEF CreateReady
  <2>. QED
    BY <1>0, <1>9, <2>1, <2>2 DEF supported, apply, OpNames, Args
<1>4. CASE s = "fromDevice" \/ s = "forceFromDevice"
  <2>1. created(s) = [op |-> "from_device", arg |-> SystemMemory, type |-> fromDeviceType]
    BY <1>4, CreateRecords
  <2>2. isOnDevice(currentInput) /\ SystemMemory \in Memories
    BY <1>4, CreateRecords, DescFacts DEF CreateReady
  <2>. QED
    BY <1>0, <1>9, <2>1, <2>2 DEF supported, apply, OpNames, Args
<1>5. CASE s = "toMemoryConfig"
  <2>1. deviceToDevice
    BY <1>5, CreateRecords, RequiredOps DEF Creating, deviceToDevice
  <2>2. /\ isOnDevice(currentInput)
        /\ currentInput.layout = info.output.layout
        /\ currentInput.dataType = info.output.dataType
    BY <1>5, <2>1 DEF CreateReady
  <2>3. info.output = toDeviceType
    <3>1. /\ toDeviceType.layout = info.output.layout
          /\ toDeviceType.dataType = info.output.dataType
          /\ toDeviceType.mem = info.output.mem
      BY <2>2 DEF Descs
    <3>. HIDE DEF toDeviceType
    <3>. QED
      BY <1>0, <1>9, <3>1, DescFacts
  <2>4. created(s) = [op |-> "to_memory_config", arg |-> info.output.mem, type |-> info.output]
    BY <1>5, CreateRecords
  <2>. QED
    BY <1>0, <2>2, <2>3, <2>4 DEF supported, apply, OpNames, Args
<1>. QED
  BY <1>1, <1>2, <1>3, <1>4, <1>5 DEF CreateNames

\* The create steps taken after one more step.
LEMMA CreatedNext ==
  ASSUME at \in Nat \ {0}, at' = at + 1, UNCHANGED creates, NEW s
  PROVE  Created(s)' <=> Created(s) \/ creates[at] = s
<1>1. 1 .. at' - 1 = (1 .. at - 1) \cup {at}
  OBVIOUS
<1>. QED
  BY <1>1 DEF Created

\* A create step converts the component that it is for, and no other.
LEMMA CreateConverts ==
  ASSUME currentInput \in Descs, Creating, Compiler!createOp
  PROVE  Creating' /\ currentInput' \in Descs
<1>1. /\ creates[at] \in CreateNames /\ CreateReady(creates[at])
      /\ at \in Nat \ {0} /\ at \in 1 .. Len(creates) /\ at' = at + 1
      /\ UNCHANGED <<argType, toLayouts, pass, info, creates, replacements>>
  BY HandlersRight DEF Compiler!createOp, CreatesRight, Creating
<1>2. \A s : Created(s)' <=> Created(s) \/ creates[at] = s
  BY <1>1, CreatedNext
<1>3. createHandler' = createHandler /\ at' \in 1 .. Len(creates') + 1
  BY <1>1 DEF createHandler, Compiler!handleHostInputLayoutConversion,
     Compiler!handleDeviceInputLayoutConversion, Compiler!handleHostInputNoLayoutNoTypecast,
     Compiler!handleHostInputLayoutNoTypecast, Compiler!handleHostInputNoLayoutTypecast,
     Compiler!handleHostInputLayoutTypecast, Compiler!handleDeviceInputNoLayoutNoTypecast,
     Compiler!handleDeviceInputLayoutNoTypecast, Compiler!handleDeviceInputNoLayoutTypecast,
     Compiler!handleDeviceInputLayoutTypecast, Compiler!shouldTilize, Compiler!shouldUntilize
<1>4. /\ info.ops.toLayout <=> info.input.layout # info.output.layout
      /\ info.ops.typecast <=> info.input.dataType # info.output.dataType
      /\ info.ops.toDevice <=> isOnHost(info.input) /\ isOnDevice(info.output)
      /\ info.ops.fromDevice <=> isOnDevice(info.input) /\ isOnHost(info.output)
      /\ info.ops.toMemoryConfig <=> deviceToDevice /\ info.input.mem # info.output.mem
      /\ isOnHost(info.input) <=> info.input.mem = SystemMemory
      /\ isOnHost(info.output) <=> info.output.mem = SystemMemory
      /\ isOnHost(currentInput) <=> currentInput.mem = SystemMemory
      /\ info.output \in Descs /\ info.output.layout \in Layouts
      /\ info.output.dataType \in DataTypes /\ info.output.mem \in Memories
  BY RequiredOps, DescFacts DEF Creating, deviceToDevice
<1>5. currentInput' = IF Compiler!create(creates[at]).needed THEN created(creates[at]).type
                      ELSE currentInput
  BY DEF Compiler!createOp, created
<1>. SUFFICES /\ currentInput' \in Descs
              /\ currentInput'.layout =
                    IF Created("toLayout")' THEN info.output.layout ELSE info.input.layout
              /\ currentInput'.dataType =
                    IF Created("typecast")' THEN info.output.dataType ELSE info.input.dataType
              /\ currentInput'.mem = memNow'
  BY <1>1, <1>3 DEF Creating, Compiler!determineRequiredOps, Compiler!isOnHost,
     Compiler!isOnDevice, Compiler!isSharded
<1>6. CASE creates[at] = "toLayout"
  <2>1. currentInput' = IF info.ops.toLayout THEN [currentInput EXCEPT !.layout = info.output.layout]
                        ELSE currentInput
    BY <1>5, <1>6, CreateRecords
  <2>2. memNow' = memNow
    BY <1>1, <1>2, <1>6 DEF memNow
  <2>. QED
    BY <1>2, <1>4, <1>6, <2>1, <2>2, DescFacts DEF Creating, Descs
<1>7. CASE creates[at] = "typecast"
  <2>1. currentInput' = IF info.ops.typecast
                        THEN [currentInput EXCEPT !.dataType = info.output.dataType]
                        ELSE currentInput
    BY <1>5, <1>7, CreateRecords
  <2>2. memNow' = memNow
    BY <1>1, <1>2, <1>7 DEF memNow
  <2>. QED
    BY <1>2, <1>4, <1>7, <2>1, <2>2, DescFacts DEF Creating, Descs
<1>8. CASE creates[at] = "toDevice"
  <2>1. currentInput' = IF info.ops.toDevice THEN [currentInput EXCEPT !.mem = info.output.mem]
                        ELSE currentInput
    BY <1>5, <1>8, CreateRecords
  <2>. QED
    BY <1>1, <1>2, <1>4, <1>8, <2>1, DescFacts DEF Creating, Descs, memNow, isOnDevice
<1>9. CASE creates[at] = "forceToDevice"
  <2>1. currentInput' = [currentInput EXCEPT !.mem = info.output.mem] /\ deviceToDevice
    BY <1>1, <1>5, <1>9, CreateRecords DEF CreateReady
  <2>. QED
    BY <1>1, <1>2, <1>4, <1>9, <2>1, DescFacts DEF Creating, Descs, memNow, isOnDevice,
       deviceToDevice
<1>10. CASE creates[at] = "fromDevice"
  <2>1. currentInput' = IF info.ops.fromDevice THEN [currentInput EXCEPT !.mem = SystemMemory]
                        ELSE currentInput
    BY <1>5, <1>10, CreateRecords
  <2>. QED
    BY <1>1, <1>2, <1>4, <1>10, <2>1, DescFacts DEF Creating, Descs, memNow, isOnDevice
<1>11. CASE creates[at] = "forceFromDevice"
  <2>1. /\ currentInput' = [currentInput EXCEPT !.mem = SystemMemory] /\ deviceToDevice
        /\ ~Created("forceToDevice") /\ ~Created("toMemoryConfig")
    BY <1>1, <1>5, <1>11, CreateRecords DEF CreateReady
  <2>. QED
    BY <1>1, <1>2, <1>4, <1>11, <2>1, DescFacts DEF Creating, Descs, memNow, isOnDevice,
       deviceToDevice
<1>12. CASE creates[at] = "toMemoryConfig"
  <2>1. currentInput' = IF info.ops.toMemoryConfig THEN info.output ELSE currentInput
    BY <1>5, <1>12, CreateRecords
  <2>2. CASE deviceToDevice
    <3>1. /\ isOnDevice(currentInput)
          /\ currentInput.layout = info.output.layout
          /\ currentInput.dataType = info.output.dataType
      BY <1>1, <1>12, <2>2 DEF CreateReady
    <3>2. memNow' = info.output.mem
      BY <1>1, <1>2, <1>12, <2>2 DEF memNow, deviceToDevice, isOnDevice
    <3>3. currentInput'.mem = info.output.mem
      BY <1>4, <2>1, <2>2, <3>1 DEF Creating, memNow, isOnDevice, deviceToDevice
    <3>. QED
      BY <1>2, <1>4, <1>12, <2>1, <3>1, <3>2, <3>3 DEF Creating
  <2>3. CASE ~deviceToDevice
    <3>1. memNow' = memNow
      BY <1>1, <1>2, <1>12, <2>3 DEF memNow, deviceToDevice, isOnDevice
    <3>. QED
      BY <1>2, <1>4, <1>12, <2>1, <2>3, <3>1 DEF Creating
  <2>. QED
    BY <2>2, <2>3
<1>. QED
  BY <1>1, <1>6, <1>7, <1>8, <1>9, <1>10, <1>11, <1>12 DEF CreateNames

\* Erasing an element of a sequence leaves a sequence.
LEMMA RemoveAtType ==
  ASSUME NEW T, NEW q \in Seq(T), NEW n \in 1 .. Len(q)
  PROVE  Compiler!RemoveAt(q, n) \in Seq(T)
<1>1. SubSeq(q, 1, n - 1) \in Seq(T) /\ SubSeq(q, n + 1, Len(q)) \in Seq(T)
  OBVIOUS
<1>. QED
  BY <1>1 DEF Compiler!RemoveAt

\* The elements of a sequence, and a function on 1 .. n as a sequence.
LEMMA Elements ==
  ASSUME NEW T, NEW q \in Seq(T)
  PROVE  /\ \A i \in 1 .. Len(q) : q[i] \in T
         /\ q # <<>> => Head(q) \in T
OBVIOUS

\* A function over 1 .. n is a sequence.
LEMMA FunctionIsSeq ==
  ASSUME NEW T, NEW U, T \subseteq U, NEW n \in Nat, NEW f \in [1 .. n -> T]
  PROVE  f \in Seq(U)
OBVIOUS

\* Appending an op that takes the current value and returns what its type says.
LEMMA AppendTyped ==
  ASSUME ProgramTyped, argType \in Descs, UNCHANGED argType,
         NEW o \in [op : OpNames, arg : Args, type : Descs],
         supported(o, currentInput), o.type = apply(o, currentInput),
         program' = Append(program, o), currentInput' = o.type
  PROVE  ProgramTyped'
<1>1. /\ program' \in Seq([op : OpNames, arg : Args, type : Descs])
      /\ Len(program') = Len(program) + 1 /\ Len(program) \in Nat
      /\ \A n \in 1 .. Len(program) : program'[n] = program[n]
      /\ program'[Len(program) + 1] = o
  BY DEF ProgramTyped
<1>2. \A n \in 1 .. Len(program) + 1 : typeBefore(n)' = typeBefore(n)
  BY <1>1 DEF typeBefore
<1>3. ASSUME NEW n \in 1 .. Len(program')
      PROVE  /\ supported(program'[n], typeBefore(n)')
             /\ program'[n].type = apply(program'[n], typeBefore(n)')
  <2>1. CASE n \in 1 .. Len(program)
    BY <1>1, <1>2, <2>1 DEF ProgramTyped
  <2>2. CASE n = Len(program) + 1
    BY <1>1, <1>2, <2>2 DEF ProgramTyped
  <2>. QED
    BY <1>1, <2>1, <2>2
<1>4. (currentInput = typeBefore(Len(program) + 1))'
  BY <1>1 DEF typeBefore
<1>. QED
  BY <1>1, <1>3, <1>4 DEF ProgramTyped, supported, apply, isOnHost, isOnDevice, isTilized

\* Canonicalization keeps a chain of to_layout ops.
LEMMA CanonicalizeStep ==
  ASSUME CompilerInv, NEW n \in DOMAIN toLayouts,
         Compiler!foldToLayout(n) \/ Compiler!mergeToLayouts(n)
  PROVE  CompilerInv'
<1>1. /\ pass = "canonicalize"
      /\ UNCHANGED <<argType, pass, info, creates, at, currentInput, program, replacements>>
  BY DEF Compiler!foldToLayout, Compiler!mergeToLayouts
<1>. DEFINE T == [type : Descs, uses : Nat \ {0}]
<1>2. toLayouts \in Seq(T) /\ n \in 1 .. Len(toLayouts)
  BY DEF CompilerInv
<1>3. toLayouts' \in Seq(T)
  <2>1. CASE Compiler!foldToLayout(n)
    <3>. DEFINE folded == IF n = 1 THEN toLayouts
                          ELSE [toLayouts EXCEPT ![n - 1].uses = @ - 1 + toLayouts[n].uses]
    <3>1. toLayouts' = Compiler!RemoveAt(folded, n)
      BY <2>1 DEF Compiler!foldToLayout
    <3>2. folded \in Seq(T) /\ n \in 1 .. Len(folded)
      <4>1. CASE n = 1
        BY <1>2, <4>1
      <4>2. CASE n # 1
        <5>. DEFINE previous == [toLayouts[n - 1] EXCEPT !.uses = @ - 1 + toLayouts[n].uses]
        <5>1. n - 1 \in 1 .. Len(toLayouts)
          BY <1>2, <4>2
        <5>2. toLayouts[n - 1] \in T /\ toLayouts[n] \in T
          <6>. HIDE DEF T
          <6>. QED
            BY <1>2, <5>1
        <5>3. previous \in T
          BY <5>2
        <5>4. folded = [toLayouts EXCEPT ![n - 1] = previous]
          BY <4>2, <5>1, <1>2
        <5>. HIDE DEF previous, T, folded
        <5>. QED
          BY <1>2, <5>1, <5>3, <5>4
      <4>. QED
        BY <4>1, <4>2
    <3>. HIDE DEF folded, T
    <3>. QED
      BY <3>1, <3>2, RemoveAtType
  <2>2. CASE Compiler!mergeToLayouts(n)
    <3>1. toLayouts' = Compiler!RemoveAt(toLayouts, n - 1) /\ n - 1 \in 1 .. Len(toLayouts)
      BY <1>2, <2>2 DEF Compiler!mergeToLayouts, Compiler!canMerge
    <3>. HIDE DEF T
    <3>. QED
      BY <1>2, <3>1, RemoveAtType
  <2>. QED
    BY <2>1, <2>2
<1>4. ProgramTyped'
  BY <1>1 DEF CompilerInv, ProgramTyped, typeBefore, supported, apply, isOnHost, isOnDevice, isTilized
<1>. QED
  BY <1>1, <1>3, <1>4 DEF CompilerInv, OnlyMemoryConfigDropped, NoRedundantToLayout

\* The program, its types and what is said of the replacements depend on
\* nothing else.
LEMMA CompilerUnchanged ==
  ASSUME UNCHANGED <<argType, currentInput, program, replacements>>
  PROVE  /\ ProgramTyped' <=> ProgramTyped
         /\ OnlyMemoryConfigDropped' <=> OnlyMemoryConfigDropped
         /\ NothingDropped' <=> NothingDropped
BY DEF ProgramTyped, typeBefore, supported, apply, isOnHost, isOnDevice, isTilized,
   OnlyMemoryConfigDropped, NothingDropped, DropsMemoryConfig, canUntilizeDataTypeOnDevice

\* The canonicalizer stops: no to_layout has the type of its input.
LEMMA CanonicalizedStep ==
  ASSUME CompilerInv, Compiler!canonicalized
  PROVE  CompilerInv'
<1>1. /\ pass = "canonicalize" /\ pass' = "decompose"
      /\ UNCHANGED <<argType, toLayouts, info, creates, at, currentInput, program, replacements>>
      /\ \A n \in DOMAIN toLayouts : ~Compiler!canFold(n)
  BY DEF Compiler!canonicalized
<1>2. toLayouts \in Seq([type : Descs, uses : Nat \ {0}]) /\ currentInput = argType
  BY <1>1 DEF CompilerInv
<1>3. \A n \in 1 .. Len(toLayouts) - 1 : toLayouts[n].type # toLayouts[n + 1].type
  <2>. SUFFICES ASSUME NEW n \in 1 .. Len(toLayouts) - 1
                PROVE  toLayouts[n].type # toLayouts[n + 1].type
    OBVIOUS
  <2>1. n + 1 \in DOMAIN toLayouts /\ n + 1 # 1 /\ (n + 1) - 1 = n
    BY <1>2
  <2>. QED
    BY <1>1, <2>1 DEF Compiler!canFold, Compiler!inputType
<1>4. toLayouts # <<>> => currentInput # Head(toLayouts).type
  <2>. SUFFICES ASSUME toLayouts # <<>>
                PROVE  currentInput # Head(toLayouts).type
    OBVIOUS
  <2>1. 1 \in DOMAIN toLayouts /\ Head(toLayouts) = toLayouts[1]
    BY <1>2
  <2>. QED
    BY <1>1, <1>2, <2>1 DEF Compiler!canFold, Compiler!inputType
<1>5. NotRedundant'
  BY <1>1, <1>3, <1>4 DEF NotRedundant
<1>. QED
  BY <1>1, <1>5, CompilerUnchanged DEF CompilerInv, NoRedundantToLayout

\* The handler of the next to_layout is chosen, or there is nothing to create.
LEMMA CreateLayoutConversionOpsStep ==
  ASSUME CompilerInv, Compiler!createLayoutConversionOps
  PROVE  CompilerInv'
<1>. DEFINE output == Head(toLayouts).type
            ops == Compiler!determineRequiredOps(currentInput, output)
<1>1. /\ pass = "decompose" /\ toLayouts # <<>>
      /\ UNCHANGED <<argType, toLayouts, currentInput, program, replacements>>
  BY DEF Compiler!createLayoutConversionOps
<1>2. output \in Descs /\ currentInput \in Descs
  <2>1. toLayouts \in Seq([type : Descs, uses : Nat \ {0}])
    BY DEF CompilerInv
  <2>2. Head(toLayouts) \in [type : Descs, uses : Nat \ {0}]
    BY <1>1, <2>1, Elements
  <2>. QED
    BY <2>2 DEF CompilerInv
<1>3. CASE Compiler!isCreationValid(currentInput, output, ops)
  <2>1. /\ info' = [input |-> currentInput, output |-> output, ops |-> ops]
        /\ creates' = IF isOnHost(currentInput)
                      THEN Compiler!handleHostInputLayoutConversion'
                      ELSE Compiler!handleDeviceInputLayoutConversion'
        /\ at' = 1 /\ pass' = "create"
    BY <1>3 DEF Compiler!createLayoutConversionOps, Compiler!isOnHost, isOnHost
  <2>2. creates' = createHandler'
    BY <2>1 DEF createHandler
  <2>3. \A s : ~Created(s)'
    BY <2>1 DEF Created
  <2>4. Len(creates') \in Nat
    <3>1. info'.ops.toLayout \in BOOLEAN /\ info'.ops.typecast \in BOOLEAN
      BY <2>1 DEF Compiler!determineRequiredOps
    <3>2. Len(Compiler!handleHostInputLayoutConversion') \in Nat
      BY <3>1 DEF Compiler!handleHostInputLayoutConversion,
         Compiler!handleHostInputNoLayoutNoTypecast, Compiler!handleHostInputLayoutNoTypecast,
         Compiler!handleHostInputNoLayoutTypecast, Compiler!handleHostInputLayoutTypecast
    <3>3. Len(Compiler!handleDeviceInputLayoutConversion') \in Nat
      BY <3>1 DEF Compiler!handleDeviceInputLayoutConversion,
         Compiler!handleDeviceInputNoLayoutNoTypecast,
         Compiler!handleDeviceInputLayoutNoTypecast,
         Compiler!handleDeviceInputNoLayoutTypecast, Compiler!handleDeviceInputLayoutTypecast
    <3>. QED
      BY <2>1, <3>2, <3>3
  <2>5. memNow' = currentInput.mem
    BY <2>1, <2>3 DEF memNow
  <2>6. /\ info'.ops = Compiler!determineRequiredOps(info.input, info.output)'
        /\ info'.input = currentInput' /\ info'.output = Head(toLayouts').type
        /\ info'.input \in Descs /\ info'.output \in Descs
    BY <1>1, <1>2, <2>1 DEF Compiler!determineRequiredOps, Compiler!isOnHost,
       Compiler!isOnDevice, Compiler!isSharded
  <2>7. Creating'
    BY <1>1, <2>1, <2>2, <2>3, <2>4, <2>5, <2>6 DEF Creating
  <2>8. NotRedundant'
    BY <1>1, <2>1 DEF NotRedundant, CompilerInv
  <2>. QED
    BY <1>1, <2>1, <2>7, <2>8, CompilerUnchanged DEF CompilerInv, NoRedundantToLayout
<1>4. CASE ~Compiler!isCreationValid(currentInput, output, ops)
  <2>1. pass' = "failed" /\ UNCHANGED <<info, creates, at>>
    BY <1>4 DEF Compiler!createLayoutConversionOps
  <2>2. currentInput = output
    BY <1>2, <1>4, RequiredOps
  <2>3. ~NothingDropped
    BY <1>1, <2>2 DEF CompilerInv, NotRedundant
  <2>4. ~NothingDropped'
    BY <1>1, <2>3, CompilerUnchanged
  <2>5. NoRedundantToLayout'
    BY <2>4 DEF NothingDropped, NoRedundantToLayout
  <2>6. NotRedundant'
    BY <1>1, <2>1 DEF NotRedundant, CompilerInv
  <2>. QED
    BY <1>1, <2>1, <2>5, <2>6, CompilerUnchanged DEF CompilerInv
<1>. QED
  BY <1>3, <1>4

\* An op is created, or was not needed.
LEMMA CreateOpStep ==
  ASSUME CompilerInv, Compiler!createOp
  PROVE  CompilerInv'
<1>1. /\ pass = "create" /\ at <= Len(creates)
      /\ UNCHANGED <<argType, toLayouts, pass, info, creates, replacements>>
  BY DEF Compiler!createOp
<1>2. Creating /\ currentInput \in Descs
  BY <1>1 DEF CompilerInv
<1>3. Creating' /\ currentInput' \in Descs
  BY <1>2, CreateConverts
<1>4. ProgramTyped'
  <2>1. creates[at] \in CreateNames /\ CreateReady(creates[at])
    BY <1>1, <1>2, HandlersRight DEF CreatesRight
  <2>2. CASE Compiler!create(creates[at]).needed
    <3>1. /\ program' = Append(program, created(creates[at]))
          /\ currentInput' = created(creates[at]).type
      BY <2>2 DEF Compiler!createOp, created
    <3>2. /\ created(creates[at]) \in [op : OpNames, arg : Args, type : Descs]
          /\ supported(created(creates[at]), currentInput)
          /\ created(creates[at]).type = apply(created(creates[at]), currentInput)
      BY <1>2, <2>1, <2>2, CreatedTyped
    <3>. QED
      BY <1>1, <3>1, <3>2, AppendTyped DEF CompilerInv
  <2>3. CASE ~Compiler!create(creates[at]).needed
    <3>1. UNCHANGED <<argType, currentInput, program, replacements>>
      BY <1>1, <2>3 DEF Compiler!createOp
    <3>. QED
      BY <3>1, CompilerUnchanged DEF CompilerInv
  <2>. QED
    BY <2>2, <2>3
<1>5. NotRedundant'
  BY <1>1 DEF NotRedundant, CompilerInv
<1>6. OnlyMemoryConfigDropped' <=> OnlyMemoryConfigDropped
  BY <1>1 DEF OnlyMemoryConfigDropped, DropsMemoryConfig, isOnDevice, isOnHost, isTilized,
     canUntilizeDataTypeOnDevice
<1>. QED
  BY <1>1, <1>3, <1>4, <1>5, <1>6 DEF CompilerInv, NoRedundantToLayout

\* The to_layout is replaced by the value that the create steps end with.
LEMMA ReplaceToLayoutStep ==
  ASSUME CompilerInv, Compiler!replaceToLayout
  PROVE  CompilerInv'
<1>. DEFINE r == [op |-> info.output, by |-> currentInput, before |-> info.input]
<1>1. /\ pass = "create" /\ pass' = "decompose" /\ at > Len(creates)
      /\ replacements' = Append(replacements, r) /\ toLayouts' = Tail(toLayouts)
      /\ UNCHANGED <<argType, currentInput, program>>
  BY DEF Compiler!replaceToLayout
<1>2. /\ Creating /\ currentInput \in Descs /\ toLayouts # <<>>
      /\ info.input \in Descs /\ info.output \in Descs /\ info.output = Head(toLayouts).type
      /\ toLayouts \in Seq([type : Descs, uses : Nat \ {0}])
      /\ replacements \in Seq([op : Descs, by : Descs, before : Descs])
  BY <1>1 DEF CompilerInv, Creating
<1>3. r.by = IF DropsMemoryConfig(r) THEN [r.op EXCEPT !.mem = r.before.mem] ELSE r.op
  <2>1. /\ info.ops.toLayout <=> info.input.layout # info.output.layout
        /\ info.ops.typecast <=> info.input.dataType # info.output.dataType
    BY <1>2, RequiredOps DEF Creating
  <2>2. /\ currentInput.layout = info.output.layout
        /\ currentInput.dataType = info.output.dataType
        /\ currentInput.mem = IF Dropping THEN info.input.mem ELSE info.output.mem
    BY <1>1, <1>2, <2>1, HandlersRight DEF CreatesRight, Creating
  <2>3. CASE Dropping
    <3>. DEFINE kept == [info.output EXCEPT !.mem = info.input.mem]
    <3>1. kept \in Descs
      BY <1>2, DescFacts
    <3>2. /\ kept.layout = info.output.layout /\ kept.dataType = info.output.dataType
          /\ kept.mem = info.input.mem
      BY <1>2 DEF Descs
    <3>3. currentInput = kept
      <4>. HIDE DEF kept
      <4>. QED
        BY <1>2, <2>2, <2>3, <3>1, <3>2, DescFacts
    <3>. QED
      BY <2>3, <3>3 DEF Dropping
  <2>4. CASE ~Dropping
    <3>1. currentInput = info.output
      BY <1>2, <2>2, <2>4, DescFacts
    <3>. QED
      BY <2>4, <3>1 DEF Dropping
  <2>. QED
    BY <2>3, <2>4
<1>. HIDE DEF r
<1>4. r \in [op : Descs, by : Descs, before : Descs]
  BY <1>2 DEF r
<1>5. /\ Len(replacements) \in Nat /\ Len(replacements') = Len(replacements) + 1
      /\ DOMAIN replacements = 1 .. Len(replacements)
      /\ DOMAIN replacements' = 1 .. Len(replacements) + 1
      /\ \A n \in 1 .. Len(replacements) : replacements'[n] = replacements[n]
      /\ replacements'[Len(replacements) + 1] = r
      /\ replacements' \in Seq([op : Descs, by : Descs, before : Descs])
  BY <1>1, <1>2, <1>4
<1>6. OnlyMemoryConfigDropped'
  <2>. SUFFICES ASSUME NEW n \in DOMAIN replacements'
                PROVE  replacements'[n].by =
                          IF DropsMemoryConfig(replacements'[n])
                          THEN [replacements'[n].op EXCEPT !.mem = replacements'[n].before.mem]
                          ELSE replacements'[n].op
    BY DEF OnlyMemoryConfigDropped, DropsMemoryConfig, isOnDevice, isOnHost, isTilized,
       canUntilizeDataTypeOnDevice
  <2>1. CASE n \in 1 .. Len(replacements)
    BY <1>5, <2>1 DEF CompilerInv, OnlyMemoryConfigDropped
  <2>2. CASE n = Len(replacements) + 1
    BY <1>3, <1>5, <2>2
  <2>. QED
    BY <1>5, <2>1, <2>2
<1>7. /\ toLayouts' \in Seq([type : Descs, uses : Nat \ {0}])
      /\ Len(toLayouts') = Len(toLayouts) - 1 /\ Len(toLayouts) \in Nat
      /\ \A n \in 1 .. Len(toLayouts') : toLayouts'[n] = toLayouts[n + 1]
      /\ Head(toLayouts) = toLayouts[1]
      /\ toLayouts' # <<>> => Head(toLayouts') = toLayouts[2] /\ 1 \in 1 .. Len(toLayouts) - 1
  BY <1>1, <1>2
<1>8. NotRedundant'
  <2>0. \A n \in 1 .. Len(toLayouts) - 1 : toLayouts[n].type # toLayouts[n + 1].type
    BY <1>1 DEF CompilerInv, NotRedundant
  <2>1. ASSUME NEW n \in 1 .. Len(toLayouts') - 1
        PROVE  toLayouts'[n].type # toLayouts'[n + 1].type
    <3>1. /\ n + 1 \in 1 .. Len(toLayouts) - 1
          /\ n \in 1 .. Len(toLayouts') /\ n + 1 \in 1 .. Len(toLayouts')
      BY <1>7
    <3>. QED
      BY <1>7, <2>0, <3>1
  <2>2. ASSUME toLayouts' # <<>>, NothingDropped'
        PROVE  currentInput' # Head(toLayouts').type
    <3>1. ~DropsMemoryConfig(r)
      <4>1. Len(replacements) + 1 \in DOMAIN replacements'
        BY <1>5
      <4>2. ~DropsMemoryConfig(replacements'[Len(replacements) + 1])
        BY <2>2, <4>1 DEF NothingDropped, DropsMemoryConfig, isOnDevice, isOnHost, isTilized,
           canUntilizeDataTypeOnDevice
      <4>. QED
        BY <1>5, <4>2
    <3>2. currentInput = toLayouts[1].type
      BY <1>2, <1>3, <1>7, <3>1 DEF r
    <3>3. toLayouts[1].type # toLayouts[1 + 1].type
      BY <1>7, <2>0, <2>2
    <3>. QED
      BY <1>1, <1>7, <2>2, <3>2, <3>3
  <2>. QED
    BY <2>1, <2>2 DEF NotRedundant
<1>9. ProgramTyped'
  BY <1>1 DEF CompilerInv, ProgramTyped, typeBefore, supported, apply, isOnHost, isOnDevice,
     isTilized
<1>. QED
  BY <1>1, <1>5, <1>6, <1>7, <1>8, <1>9 DEF CompilerInv, NoRedundantToLayout

\* Every step of the compiler preserves its invariant, and it has no step
\* once it is done.
LEMMA CompilerInvStep ==
  ASSUME CompilerInv, [Compiler!NextDecompose]_dvars
  PROVE  CompilerInv'
<1>1. CASE Compiler!finishPass
  <2>1. /\ pass = "decompose" /\ pass' = "done"
        /\ UNCHANGED <<argType, toLayouts, info, creates, at, currentInput, program,
                       replacements>>
    BY <1>1 DEF Compiler!finishPass
  <2>2. NotRedundant'
    BY <2>1 DEF CompilerInv, NotRedundant
  <2>. QED
    BY <2>1, <2>2, CompilerUnchanged DEF CompilerInv, NoRedundantToLayout
<1>2. CASE UNCHANGED dvars
  <2>1. UNCHANGED <<argType, toLayouts, pass, info, creates, at, currentInput, program,
                    replacements>>
    BY <1>2 DEF dvars
  <2>2. NotRedundant' <=> NotRedundant
    BY <2>1, CompilerUnchanged DEF NotRedundant
  <2>3. NoRedundantToLayout' <=> NoRedundantToLayout
    BY <2>1 DEF NoRedundantToLayout, DropsMemoryConfig, isOnDevice, isOnHost, isTilized,
       canUntilizeDataTypeOnDevice
  <2>4. Creating => Creating'
    <3>1. createHandler' = createHandler
      BY <2>1 DEF createHandler, Compiler!handleHostInputLayoutConversion,
         Compiler!handleDeviceInputLayoutConversion,
         Compiler!handleHostInputNoLayoutNoTypecast,
         Compiler!handleHostInputLayoutNoTypecast, Compiler!handleHostInputNoLayoutTypecast,
         Compiler!handleHostInputLayoutTypecast,
         Compiler!handleDeviceInputNoLayoutNoTypecast,
         Compiler!handleDeviceInputLayoutNoTypecast,
         Compiler!handleDeviceInputNoLayoutTypecast,
         Compiler!handleDeviceInputLayoutTypecast, Compiler!shouldTilize,
         Compiler!shouldUntilize
    <3>2. memNow' = memNow /\ \A s : Created(s)' <=> Created(s)
      BY <2>1 DEF memNow, Created
    <3>. QED
      BY <2>1, <3>1, <3>2 DEF Creating, Compiler!determineRequiredOps, Compiler!isOnHost,
         Compiler!isOnDevice, Compiler!isSharded
  <2>. QED
    BY <2>1, <2>2, <2>3, <2>4, CompilerUnchanged DEF CompilerInv
<1>. QED
  BY <1>1, <1>2, CanonicalizeStep, CanonicalizedStep, CreateLayoutConversionOpsStep,
     CreateOpStep, ReplaceToLayoutStep DEF Compiler!NextDecompose

\* The pass is over when it says so, and the argument keeps its type.
LEMMA CompilerDone ==
  ASSUME CompilerInv, Compiler!NextDecompose
  PROVE  pass # "done" /\ UNCHANGED argType
BY DEF Compiler!NextDecompose, Compiler!foldToLayout, Compiler!mergeToLayouts,
   Compiler!canonicalized, Compiler!createLayoutConversionOps, Compiler!createOp,
   Compiler!replaceToLayout, Compiler!finishPass

\* A function of any length, and any tensor of the caller.
LEMMA InitInv ==
  ASSUME Init
  PROVE  ConversionInv
<1>. USE DEF Init, Compiler!InitDecompose
<1>1. ConverterInv /\ outputDesc = argType /\ tensor = NoTensor /\ ran = 0 /\ converter = "new"
  BY ConverterInit DEF InitConverter
<1>2. /\ argType \in Descs /\ currentInput = argType /\ pass = "canonicalize"
      /\ program = <<>> /\ replacements = <<>>
  BY SameLayouts
<1>3. toLayouts \in Seq([type : Descs, uses : Nat \ {0}])
  <2>1. PICK n \in 1 .. MaxToLayouts : toLayouts \in [1 .. n -> [type : Descs, uses : {1, 2}]]
    BY SameLayouts
  <2>2. n \in Nat /\ [type : Descs, uses : {1, 2}] \subseteq [type : Descs, uses : Nat \ {0}]
    OBVIOUS
  <2>. QED
    BY <2>1, <2>2, FunctionIsSeq
<1>4. ProgramTyped
  <2>1. Len(program) = 0 /\ program \in Seq([op : OpNames, arg : Args, type : Descs])
    BY <1>2
  <2>. QED
    BY <1>2, <2>1 DEF ProgramTyped, typeBefore
<1>5. OnlyMemoryConfigDropped /\ replacements \in Seq([op : Descs, by : Descs, before : Descs])
  BY <1>2 DEF OnlyMemoryConfigDropped
<1>6. RunInv
  BY <1>1, <1>2 DEF RunInv
<1>. QED
  BY <1>1, <1>2, <1>3, <1>4, <1>5, <1>6 DEF ConversionInv, CompilerInv, NoRedundantToLayout

\* The type before an op of the program is a descriptor.
LEMMA TypeBefore ==
  ASSUME CompilerInv, NEW n \in 1 .. Len(program) + 1
  PROVE  typeBefore(n) \in Descs
<1>1. program \in Seq([op : OpNames, arg : Args, type : Descs]) /\ argType \in Descs
  BY DEF CompilerInv, ProgramTyped
<1>2. CASE n = 1
  BY <1>1, <1>2 DEF typeBefore
<1>3. CASE n # 1
  <2>1. n - 1 \in 1 .. Len(program)
    BY <1>1, <1>3
  <2>2. program[n - 1] \in [op : OpNames, arg : Args, type : Descs]
    BY <1>1, <2>1, Elements
  <2>. QED
    BY <1>3, <2>2 DEF typeBefore
<1>. QED
  BY <1>2, <1>3

\* The result of a program that has none is not a tensor.
LEMMA NoTensorNoDesc == NoTensor \notin Descs
BY DEF NoTensor, Descs

\* Every step of the whole system preserves the invariant.
LEMMA ConversionInvStep ==
  ASSUME ConversionInv, [Next]_vars
  PROVE  ConversionInv'
<1>1. ConverterInv'
  BY ConverterInvStep, ConverterSteps DEF ConversionInv
<1>2. CompilerInv'
  <2>1. [Compiler!NextDecompose]_dvars
    BY DEF Next, vars, compile, toLayout, submit, runOp
  <2>. QED
    BY <2>1, CompilerInvStep DEF ConversionInv
<1>. USE DEF RunInv
<1>3. RunInv'
  <2>1. CASE compile
    <3>1. /\ pass # "done" /\ UNCHANGED <<argType, cvars, tensor, ran>>
      BY <2>1, CompilerDone DEF compile, ConversionInv
    <3>2. converter = "new" /\ tensor = NoTensor /\ ran = 0
      BY <3>1 DEF ConversionInv
    <3>3. Len(program') \in Nat
      BY <1>2 DEF CompilerInv, ProgramTyped
    <3>. QED
      BY <3>1, <3>2, <3>3 DEF ConversionInv, cvars
  <2>2. CASE toLayout
    <3>1. pass = "done" /\ UNCHANGED <<pass, argType, program, tensor, ran, outputDesc>>
      BY <2>2 DEF toLayout, dvars, NextConverter, convertTensorLayout, step, fatal, returnTensor
    <3>2. converter = "returned" => converter' = "returned"
      BY <2>2 DEF toLayout, NextConverter, convertTensorLayout, step, fatal, returnTensor
    <3>3. typeBefore(ran + 1)' = typeBefore(ran + 1)
      BY <3>1 DEF typeBefore
    <3>. QED
      BY <3>1, <3>2, <3>3 DEF ConversionInv
  <2>3. CASE submit
    <3>1. /\ tensor = NoTensor /\ ran = 0 /\ converter = "returned" /\ tensor' = out
          /\ UNCHANGED <<argType, outputDesc, pass, converter, program, ran>>
      BY <2>3 DEF submit, ConversionInv, cvars, dvars
    <3>2. out = argType /\ argType \in Descs
      BY <3>1 DEF ConversionInv, ConverterInv
    <3>3. typeBefore(ran + 1)' = argType
      BY <3>1 DEF typeBefore
    <3>. QED
      BY <3>1, <3>2, <3>3, NoTensorNoDesc DEF ConversionInv
  <2>4. CASE runOp
    <3>1. /\ tensor # NoTensor /\ ran < Len(program) /\ ran' = ran + 1
          /\ tensor' = apply(program[ran + 1], tensor)
          /\ UNCHANGED <<argType, outputDesc, pass, converter, program>>
      BY <2>4 DEF runOp, cvars, dvars
    <3>2. /\ tensor = typeBefore(ran + 1) /\ ran \in 0 .. Len(program)
          /\ Len(program) \in Nat /\ converter = "returned"
      BY <3>1 DEF ConversionInv, CompilerInv, ProgramTyped
    <3>3. ran + 1 \in 1 .. Len(program) /\ ran + 2 \in 1 .. Len(program) + 1
      BY <3>1, <3>2
    <3>4. tensor' = program[ran + 1].type
      BY <3>1, <3>2, <3>3 DEF ConversionInv, CompilerInv, ProgramTyped
    <3>5. typeBefore(ran + 2) = program[ran + 1].type /\ typeBefore(ran + 2) \in Descs
      BY <3>2, <3>3, TypeBefore DEF typeBefore, ConversionInv
    <3>6. typeBefore(ran + 1)' = program[ran + 1].type
      BY <3>1, <3>2 DEF typeBefore
    <3>. QED
      BY <3>1, <3>2, <3>3, <3>4, <3>5, <3>6, NoTensorNoDesc DEF ConversionInv
  <2>5. CASE UNCHANGED vars
    <3>1. UNCHANGED <<argType, outputDesc, pass, converter, program, tensor, ran>>
      BY <2>5 DEF vars, cvars, dvars
    <3>2. typeBefore(ran + 1)' = typeBefore(ran + 1)
      BY <3>1 DEF typeBefore
    <3>. QED
      BY <3>1, <3>2 DEF ConversionInv
  <2>. QED
    BY <2>1, <2>2, <2>3, <2>4, <2>5 DEF Next
<1>. QED
  BY <1>1, <1>2, <1>3 DEF ConversionInv

\* What the invariant says of the properties that the runs check.
LEMMA ConversionInvImplies ==
  ASSUME ConversionInv
  PROVE  /\ OpsSupported
         /\ TensorsMatchTypes
         /\ OnlyMemoryConfigDropped
         /\ NoRedundantToLayout
<1>1. ASSUME converter = "converting", pc <= Len(steps), steps[pc] # "LOG_FATAL"
      PROVE  call(steps[pc]).needed => supported(call(steps[pc]), out)
  <2>1. HandlerRight
    BY <1>1, ConvertingRight DEF ConversionInv, ConverterInv
  <2>2. steps[pc] \in StepNames /\ Ready(steps[pc])
    BY <1>1, <2>1 DEF HandlerRight
  <2>. QED
    BY <2>2, ReadySupported
<1>2. ASSUME tensor # NoTensor, ran < Len(program)
      PROVE  supported(program[ran + 1], tensor)
  <2>1. tensor = typeBefore(ran + 1) /\ ran + 1 \in 1 .. Len(program)
    BY <1>2 DEF ConversionInv, RunInv, CompilerInv, ProgramTyped
  <2>. QED
    BY <2>1 DEF ConversionInv, CompilerInv, ProgramTyped
<1>3. TensorsMatchTypes
  <2>1. ran \in Nat
    BY DEF ConversionInv, RunInv
  <2>. QED
    BY <2>1 DEF ConversionInv, RunInv, TensorsMatchTypes, typeBefore
<1>4. OpsSupported
  BY <1>1, <1>2 DEF OpsSupported
<1>. QED
  BY <1>3, <1>4 DEF ConversionInv, CompilerInv

\* The invariant holds in every state.
LEMMA ConversionInductive == Spec => []ConversionInv
<1>1. Init => ConversionInv
  BY InitInv
<1>2. ConversionInv /\ [Next]_vars => ConversionInv'
  BY ConversionInvStep
<1>. QED
  BY <1>1, <1>2, PTL DEF Spec

\* No handler, of the runtime's converter or of the compiler's pass, calls an
\* operation on a tensor that the operation cannot take.
THEOREM OperationsSupported == Spec => []OpsSupported
<1>1. ConversionInv => OpsSupported
  BY ConversionInvImplies
<1>. QED
  BY <1>1, ConversionInductive, PTL

\* Every tensor that the compiled function produces is the one that its
\* result type describes, so insertTTNNTensorAndValidate never fails.
THEOREM ResultTypesRight == Spec => []TensorsMatchTypes
<1>1. ConversionInv => TensorsMatchTypes
  BY ConversionInvImplies
<1>. QED
  BY <1>1, ConversionInductive, PTL

\* A to_layout is replaced by a value of its own type; the memory config of a
\* device tensor that is untilized and cast on the device is all that the
\* pass can drop.
THEOREM ReplacementsRight == Spec => []OnlyMemoryConfigDropped
<1>1. ConversionInv => OnlyMemoryConfigDropped
  BY ConversionInvImplies
<1>. QED
  BY <1>1, ConversionInductive, PTL

\* After the canonicalizer, the pass fails on no to_layout, unless an earlier
\* one lost its memory config.
THEOREM PassFailsOnlyAfterDrop == Spec => []NoRedundantToLayout
<1>1. ConversionInv => NoRedundantToLayout
  BY ConversionInvImplies
<1>. QED
  BY <1>1, ConversionInductive, PTL
=============================================================================
