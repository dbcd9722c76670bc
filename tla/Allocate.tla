------------------------------ MODULE Allocate ------------------------------
(***************************************************************************)
(* The ttir-allocate pass.  TTIRAllocateStreams, run by the greedy rewrite *)
(* driver, puts a stream_layout with an L1 storage buffer of its own on    *)
(* every operand of a ttir.generic op that needs data movement; then each  *)
(* function is walked with a fresh SimpleAllocator, a bump allocator that  *)
(* gives every memref.alloc in device memory its address.                  *)
(*                                                                         *)
(* The IR is kept to what the pass reads: a function is a sequence of      *)
(* memref.alloc and ttir.generic ops.  The storage buffers inserted in     *)
(* front of a generic op are counted at the operand they were made for.    *)
(***************************************************************************)
EXTENDS Integers, Sequences, FiniteSets

CONSTANTS
    \* the fields of the ChipDescAttr, in bytes
    l1Size, l1UnreservedBase, scratchL1RegionSize, nocL1AddressAlignBytes,
    dramChannelSize, dramUnreservedBase, dramUnreservedEnd,
    nocDRAMAddressAlignBytes,
    Modules,    \* the modules to compile: sequences of functions
    NDEBUG      \* asserts are compiled out

DeviceSpaces == {"DeviceL1", "DeviceDRAM"}
Spaces == DeviceSpaces \cup {"System", "SystemMMIO"}

AllocOps == [op : {"alloc"}, space : Spaces, size : Nat]

\* An operand of a generic op: the op that defines it, whether its indexing
\* map has a broadcast or a reduction dimension, whether it is an output, its
\* memory space and the size of its shard, and the storage buffers that
\* insertStream has created for it.
OperandRecs ==
    [def : {"view_layout", "stream_layout", "other"}, moves : BOOLEAN,
     output : BOOLEAN, space : Spaces, size : Nat, storages : {0, 1}]

GenericOps == [op : {"generic"}, operands : Seq(OperandRecs)]

ASSUME ChipDescAssumption ==
    /\ {l1Size, l1UnreservedBase, scratchL1RegionSize, dramChannelSize,
        dramUnreservedBase, dramUnreservedEnd} \subseteq Nat
    /\ {nocL1AddressAlignBytes, nocDRAMAddressAlignBytes} \subseteq Nat \ {0}
    /\ scratchL1RegionSize <= l1Size

ASSUME ModulesAssumption ==
    /\ Modules \subseteq Seq(Seq(AllocOps \cup GenericOps))
    /\ \A m \in Modules : \A f \in DOMAIN m : \A i \in DOMAIN m[f] :
          m[f][i].op = "generic" =>
             \A j \in DOMAIN m[f][i].operands :
                m[f][i].operands[j].storages = 0
    /\ NDEBUG \in BOOLEAN

-----------------------------------------------------------------------------
(* SimpleAllocator                                                         *)

baseAddress(s) ==
    IF s = "DeviceL1" THEN l1UnreservedBase ELSE dramUnreservedBase

size(s) ==
    IF s = "DeviceL1" THEN l1Size - scratchL1RegionSize ELSE dramChannelSize

alignment(s) ==
    IF s = "DeviceL1" THEN nocL1AddressAlignBytes ELSE nocDRAMAddressAlignBytes

end(s) == baseAddress(s) + size(s)

createSimpleAllocator == [s \in DeviceSpaces |-> baseAddress(s)]

\* The NoC alignments are powers of two, for which the code's masking is
\* rounding up to a multiple.
alignUp(ptr, a) == ((ptr + a - 1) \div a) * a

isDeviceMemorySpace(s) == s \in DeviceSpaces

-----------------------------------------------------------------------------
VARIABLES
    module,     \* the IR
    phase,      \* the step of the pass: "streams", "buffers", or how it ended
    func,       \* the function being walked,
    index,      \* the op of it that the walk visits
    operand,    \* and the operand of that op whose storage the walk visits
    currPtr,    \* of the current function's SimpleAllocator
    allocated   \* the allocs that have been given an address

walkVars == <<func, index, operand, currPtr, allocated>>
vars == <<module, phase, func, index, operand, currPtr, allocated>>

Init ==
    /\ module \in Modules
    /\ phase = "streams"
    /\ func = 1
    /\ index = 1
    /\ operand = 1
    /\ currPtr = createSimpleAllocator
    /\ allocated = {}

-----------------------------------------------------------------------------
(* TTIRAllocateStreams                                                     *)

\* For mutation: without the test for the driver's fixed point.
needsStreamAgain(o) ==
    o.def = "view_layout" \/ (~o.output /\ o.moves)

needsStream(o) ==
    /\ o.def # "stream_layout"
    /\ o.def = "view_layout" \/ (~o.output /\ o.moves)

insertStream(o) ==
    [o EXCEPT !.def = "stream_layout", !.storages = @ + 1]

isGeneric(f, i) == module[f][i].op = "generic"

\* The driver may visit the generic ops in any order.
matchAndRewrite(f, i) ==
    /\ phase = "streams"
    /\ isGeneric(f, i)
    /\ \E j \in DOMAIN module[f][i].operands :
          needsStream(module[f][i].operands[j])
    /\ module' = [module EXCEPT ![f][i].operands =
                    [j \in DOMAIN @ |->
                        IF needsStream(@[j]) THEN insertStream(@[j]) ELSE @[j]]]
    /\ UNCHANGED <<phase, walkVars>>

\* The greedy driver has reached its fixed point.
streamsDone ==
    /\ phase = "streams"
    /\ \A f \in DOMAIN module : \A i \in DOMAIN module[f] :
          isGeneric(f, i) =>
             \A j \in DOMAIN module[f][i].operands :
                ~needsStream(module[f][i].operands[j])
    /\ phase' = "buffers"
    /\ UNCHANGED <<module, walkVars>>

-----------------------------------------------------------------------------
(* runAllocateBuffers                                                      *)

\* For mutation: the assert is checked before the pointer is advanced.
allocateAssertFirst(s, bytes) ==
    LET result == alignUp(currPtr[s], alignment(s))
    IN  /\ IF NDEBUG \/ result <= end(s)
              THEN phase' = phase
              ELSE phase' = "aborted"
        /\ currPtr' = [currPtr EXCEPT ![s] = result + bytes]
        /\ allocated' =
              IF NDEBUG \/ result <= end(s)
                 THEN allocated \cup
                        {[func |-> func, index |-> index, operand |-> operand,
                          space |-> s, address |-> result, size |-> bytes]}
                 ELSE allocated

\* For mutation: the pointer is a copy of currPtr's entry.
allocateByValue(s, bytes) ==
    LET result == alignUp(currPtr[s], alignment(s))
    IN  /\ allocated' = allocated \cup
              {[func |-> func, index |-> index, operand |-> operand,
                space |-> s, address |-> result, size |-> bytes]}
        /\ UNCHANGED <<phase, currPtr>>

\* allocate, and the attributes that are set from its result.  An assert that
\* fails aborts the compiler.
allocate(s, bytes) ==
    LET result == alignUp(currPtr[s], alignment(s))
        ptr == result + bytes
    IN  /\ IF NDEBUG \/ ptr <= end(s)
              THEN phase' = phase
              ELSE phase' = "aborted"
        /\ currPtr' = [currPtr EXCEPT ![s] = ptr]
        /\ allocated' =
              IF NDEBUG \/ ptr <= end(s)
                 THEN allocated \cup
                        {[func |-> func, index |-> index, operand |-> operand,
                          space |-> s, address |-> result, size |-> bytes]}
                 ELSE allocated

allocateIfDevice(s, bytes) ==
    \/ /\ isDeviceMemorySpace(s)
       /\ allocate(s, bytes)
    \/ /\ ~isDeviceMemorySpace(s)
       /\ UNCHANGED <<phase, currPtr, allocated>>

walking == phase = "buffers" /\ func \in DOMAIN module

visitAlloc ==
    /\ walking
    /\ index \in DOMAIN module[func]
    /\ ~isGeneric(func, index)
    /\ allocateIfDevice(module[func][index].space, module[func][index].size)
    /\ index' = index + 1
    /\ UNCHANGED <<module, func, operand>>

\* For mutation: an inserted storage is taken to be allocated already.
visitStorageSkips ==
    /\ walking
    /\ index \in DOMAIN module[func]
    /\ isGeneric(func, index)
    /\ operand \in DOMAIN module[func][index].operands
    /\ operand' = operand + 1
    /\ UNCHANGED <<module, func, index, phase, currPtr, allocated>>

\* The storage inserted in front of a generic op, in the operands' order.
visitStorage ==
    /\ walking
    /\ index \in DOMAIN module[func]
    /\ isGeneric(func, index)
    /\ operand \in DOMAIN module[func][index].operands
    /\ LET o == module[func][index].operands[operand] IN
          \/ /\ o.storages = 1
             /\ allocateIfDevice(o.space, o.size)
          \/ /\ o.storages = 0
             /\ UNCHANGED <<phase, currPtr, allocated>>
    /\ operand' = operand + 1
    /\ UNCHANGED <<module, func, index>>

visitGeneric ==
    /\ walking
    /\ index \in DOMAIN module[func]
    /\ isGeneric(func, index)
    /\ operand \notin DOMAIN module[func][index].operands
    /\ index' = index + 1
    /\ operand' = 1
    /\ UNCHANGED <<module, phase, func, currPtr, allocated>>

nextFunc ==
    /\ walking
    /\ index \notin DOMAIN module[func]
    /\ func' = func + 1
    /\ index' = 1
    /\ currPtr' = createSimpleAllocator
    /\ UNCHANGED <<module, phase, operand, allocated>>

succeeded ==
    /\ phase = "buffers"
    /\ func \notin DOMAIN module
    /\ phase' = "done"
    /\ UNCHANGED <<module, walkVars>>

Ended == phase \in {"done", "aborted"} /\ UNCHANGED vars

Next ==
    \/ \E f \in DOMAIN module : \E i \in DOMAIN module[f] :
          matchAndRewrite(f, i)
    \/ streamsDone
    \/ visitAlloc
    \/ visitStorage
    \/ visitGeneric
    \/ nextFunc
    \/ succeeded
    \/ Ended

Spec == Init /\ [][Next]_vars

-----------------------------------------------------------------------------
(* Properties                                                              *)

Allocations ==
    [func : Nat, index : Nat, operand : Nat, space : DeviceSpaces,
     address : Nat, size : Nat]

\* The IR stays well formed; no operand gets a second storage buffer, which
\* the greedy driver would otherwise insert for ever.
TypeOK ==
    /\ module \in Seq(Seq(AllocOps \cup GenericOps))
    /\ phase \in {"streams", "buffers", "done", "aborted"}
    /\ func \in Nat \ {0}
    /\ index \in Nat \ {0}
    /\ operand \in Nat \ {0}
    /\ currPtr \in [DeviceSpaces -> Nat]
    /\ allocated \subseteq Allocations

Before(a, b) == a.address + a.size <= b.address

\* No two buffers of a function share memory: nothing is ever deallocated, so
\* all of them may be live at once.
BuffersDisjoint ==
    \A a, b \in allocated :
        a.func = b.func /\ a.space = b.space /\ a # b =>
           Before(a, b) \/ Before(b, a)

\* Every buffer starts at an address that the NoC can transfer to or from and
\* stays between the unreserved base and the end that the allocator asserts.
BuffersInBounds ==
    \A a \in allocated :
        /\ a.address % alignment(a.space) = 0
        /\ a.address >= baseAddress(a.space)
        /\ NDEBUG \/ a.address + a.size <= end(a.space)

\* The places of the allocs in device memory that the walk comes to at an op.
deviceAllocsAt(op) ==
    IF op.op = "generic"
       THEN {j \in DOMAIN op.operands :
                /\ op.operands[j].storages = 1
                /\ isDeviceMemorySpace(op.operands[j].space)}
       ELSE {j \in {1} : isDeviceMemorySpace(op.space)}

deviceAllocs ==
    UNION {UNION {{<<f, i, j>> : j \in deviceAllocsAt(module[f][i])} :
                    i \in DOMAIN module[f]} : f \in DOMAIN module}

\* When the pass succeeds, no operand is left that needs data movement and has
\* no stream, and every alloc in device memory, the inserted storage included,
\* has exactly one address.
EveryBufferPlaced ==
    phase = "done" =>
       /\ \A f \in DOMAIN module : \A i \in DOMAIN module[f] :
             isGeneric(f, i) =>
                \A j \in DOMAIN module[f][i].operands :
                   ~needsStream(module[f][i].operands[j])
       /\ \A p \in deviceAllocs :
             Cardinality({a \in allocated :
                            <<a.func, a.index, a.operand>> = p}) = 1
       /\ Cardinality(allocated) = Cardinality(deviceAllocs)

\* "out-of-memory condition will result in hard assert failure": a buffer that
\* was given an address lies in the memory it was allocated from, below the
\* scratch region of L1 or the reserved end of the DRAM channel.
OutOfMemoryAsserts ==
    \A a \in allocated :
        a.address + a.size <=
           IF a.space = "DeviceL1" THEN l1Size - scratchL1RegionSize
                                   ELSE dramUnreservedEnd
=============================================================================
