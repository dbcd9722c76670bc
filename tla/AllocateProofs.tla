--------------------------- MODULE AllocateProofs ---------------------------
(***************************************************************************)
(* For every chip descriptor and every module: the buffers that            *)
(* ttir-allocate places in a function never overlap, are aligned, and stay *)
(* within the bounds that the allocator asserts.                           *)
(*                                                                         *)
(* The invariants of Allocate speak of addresses only; what makes them     *)
(* inductive is how they relate to the bump pointer of the allocator: all  *)
(* that was placed in the current function lies below it, and it never     *)
(* falls below the base.  That every buffer gets an address needs a second *)
(* invariant, over the walk: each device alloc that it has passed has      *)
(* exactly one.                                                            *)
(***************************************************************************)
EXTENDS Allocate, FiniteSetTheorems, TLAPS

\* Every buffer of the function being walked ends at or before the bump
\* pointer, and no function ahead of the walk has a buffer.
BelowCurrPtr ==
    \A a \in allocated :
        /\ a.func <= func
        /\ a.func = func => a.address + a.size <= currPtr[a.space]

AboveBase == \A s \in DeviceSpaces : currPtr[s] >= baseAddress(s)

\* An operand for which a storage buffer was inserted is a stream.
StorageHasStream ==
    \A f \in DOMAIN module : \A i \in DOMAIN module[f] :
        isGeneric(f, i) =>
           \A j \in DOMAIN module[f][i].operands :
              module[f][i].operands[j].storages = 1 =>
                 module[f][i].operands[j].def = "stream_layout"

IInv ==
    /\ TypeOK
    /\ StorageHasStream
    /\ BelowCurrPtr
    /\ AboveBase
    /\ BuffersDisjoint
    /\ BuffersInBounds

-----------------------------------------------------------------------------
\* What rounding up returns: a multiple of the alignment, not below ptr.
LEMMA AlignUp ==
    ASSUME NEW ptr \in Nat, NEW a \in Nat \ {0}
    PROVE  /\ alignUp(ptr, a) \in Nat
           /\ alignUp(ptr, a) >= ptr
           /\ alignUp(ptr, a) % a = 0
<1> DEFINE q == (ptr + a - 1) \div a
<1>1. q \in Nat /\ q * a + ((ptr + a - 1) % a) = ptr + a - 1
  OBVIOUS
<1>2. (ptr + a - 1) % a \in 0 .. a - 1
  OBVIOUS
<1>3. q * a \in Nat
  BY <1>1
<1>4. (q * a) % a = 0
  BY <1>1
<1> QED
  BY <1>1, <1>2, <1>3, <1>4 DEF alignUp

\* The memory spaces' bases, sizes and alignments are numbers.
LEMMA SpaceFacts ==
    ASSUME NEW s \in DeviceSpaces
    PROVE  /\ baseAddress(s) \in Nat
           /\ size(s) \in Nat
           /\ end(s) \in Nat
           /\ alignment(s) \in Nat \ {0}
  BY ChipDescAssumption DEF baseAddress, size, end, alignment, DeviceSpaces

\* An op of a well-formed module that the walk takes for an alloc is one.
LEMMA AllocOpType ==
    ASSUME TypeOK, NEW f \in DOMAIN module, NEW i \in DOMAIN module[f],
           ~isGeneric(f, i)
    PROVE  module[f][i].space \in Spaces /\ module[f][i].size \in Nat
<1>1. module[f] \in Seq(AllocOps \cup GenericOps)
  BY DEF TypeOK
<1>2. module[f][i] \in AllocOps \cup GenericOps
  BY <1>1
<1> QED
  BY <1>2 DEF isGeneric, AllocOps, GenericOps

\* An op that has operands has well-formed ones.
LEMMA OperandType ==
    ASSUME TypeOK, NEW f \in DOMAIN module, NEW i \in DOMAIN module[f],
           isGeneric(f, i)
    PROVE  /\ module[f][i] \in GenericOps
           /\ module[f][i].operands \in Seq(OperandRecs)
<1>1. module[f] \in Seq(AllocOps \cup GenericOps)
  BY DEF TypeOK
<1>2. module[f][i] \in AllocOps \cup GenericOps
  BY <1>1
<1> QED
  BY <1>2 DEF isGeneric, AllocOps, GenericOps

\* insertStream turns an operand that has no storage buffer into a stream.
LEMMA InsertStreamType ==
    ASSUME NEW o \in OperandRecs, o.storages = 0
    PROVE  /\ insertStream(o) \in OperandRecs
           /\ insertStream(o).def = "stream_layout"
<1> DEFINE r == insertStream(o)
<1>1. r = [o EXCEPT !.def = "stream_layout", !.storages = 1]
  BY DEF insertStream
<1>2. r = [def |-> "stream_layout", moves |-> o.moves, output |-> o.output,
           space |-> o.space, size |-> o.size, storages |-> 1]
  BY <1>1 DEF OperandRecs
<1>3. o.moves \in BOOLEAN /\ o.output \in BOOLEAN
  BY DEF OperandRecs
<1>4. o.space \in Spaces /\ o.size \in Nat
  BY DEF OperandRecs
<1>5. ASSUME NEW m \in BOOLEAN, NEW u \in BOOLEAN, NEW s \in Spaces,
             NEW n \in Nat
      PROVE  [def |-> "stream_layout", moves |-> m, output |-> u,
              space |-> s, size |-> n, storages |-> 1] \in OperandRecs
  BY DEF OperandRecs
<1> HIDE DEF r
<1>6. r \in OperandRecs
  BY <1>2, <1>3, <1>4, <1>5, Zenon
<1>7. r.def = "stream_layout"
  BY <1>2
<1> QED
  BY <1>6, <1>7 DEF r

-----------------------------------------------------------------------------
\* The initial states satisfy the inductive invariant.
LEMMA InitIInv == Init => IInv
<1> SUFFICES ASSUME Init PROVE IInv
  OBVIOUS
<1>1. module \in Seq(Seq(AllocOps \cup GenericOps))
  BY ModulesAssumption DEF Init
<1>2. currPtr \in [DeviceSpaces -> Nat]
  BY SpaceFacts DEF Init, createSimpleAllocator
<1>3. TypeOK
  BY <1>1, <1>2 DEF Init, TypeOK
<1>4. AboveBase
  BY SpaceFacts DEF Init, AboveBase, createSimpleAllocator
<1>5. StorageHasStream
  BY ModulesAssumption DEF Init, StorageHasStream, isGeneric
<1> QED
  BY <1>3, <1>4, <1>5
     DEF Init, IInv, BelowCurrPtr, BuffersDisjoint, BuffersInBounds

\* allocate puts the new buffer at or above the bump pointer, that is behind
\* every buffer of the function, and moves the pointer to the buffer's end.
LEMMA AllocatePreserves ==
    ASSUME IInv, NEW s \in DeviceSpaces, NEW bytes \in Nat,
           phase = "buffers", allocate(s, bytes),
           module' = module, func' = func,
           index' \in Nat \ {0}, operand' \in Nat \ {0}
    PROVE  IInv'
<1> DEFINE result == alignUp(currPtr[s], alignment(s))
           ptr == result + bytes
           r == [func |-> func, index |-> index, operand |-> operand,
                 space |-> s, address |-> result, size |-> bytes]
<1>1. currPtr[s] \in Nat /\ alignment(s) \in Nat \ {0} /\ end(s) \in Nat
  BY SpaceFacts DEF IInv, TypeOK
<1>2. result \in Nat /\ result >= currPtr[s] /\ result % alignment(s) = 0
  BY <1>1, AlignUp
<1>3. currPtr' = [currPtr EXCEPT ![s] = ptr] /\ ptr \in Nat
  BY <1>2 DEF allocate
<1>4. \/ allocated' = allocated
      \/ allocated' = allocated \cup {r} /\ (NDEBUG \/ ptr <= end(s))
  BY DEF allocate
<1>5. phase' \in {"streams", "buffers", "done", "aborted"}
  BY DEF allocate
<1>6. r \in Allocations
  BY <1>2 DEF Allocations, IInv, TypeOK
<1>7. TypeOK'
  BY <1>3, <1>4, <1>5, <1>6 DEF IInv, TypeOK
<1>8. \A t \in DeviceSpaces : currPtr'[t] \in Nat /\ currPtr'[t] >= currPtr[t]
  BY <1>1, <1>2, <1>3 DEF IInv, TypeOK
<1>9. AboveBase'
  <2>1. \A t \in DeviceSpaces : currPtr[t] \in Nat /\ baseAddress(t) \in Nat
    BY SpaceFacts DEF IInv, TypeOK
  <2> QED
    BY <1>8, <2>1 DEF IInv, AboveBase
<1>10. BelowCurrPtr'
  <2> SUFFICES ASSUME NEW a \in allocated'
               PROVE  /\ a.func <= func
                      /\ a.func = func => a.address + a.size <= currPtr'[a.space]
    BY DEF BelowCurrPtr
  <2>1. CASE a \in allocated
    <3>1. a \in Allocations /\ a.func <= func
              /\ (a.func = func => a.address + a.size <= currPtr[a.space])
      BY <2>1 DEF IInv, TypeOK, BelowCurrPtr
    <3>2. a.space \in DeviceSpaces /\ a.address \in Nat /\ a.size \in Nat
      BY <3>1 DEF Allocations
    <3> QED
      BY <3>1, <3>2, <1>8 DEF IInv, TypeOK
  <2>2. CASE a = r
    BY <2>2, <1>3 DEF IInv, TypeOK
  <2> QED
    BY <2>1, <2>2, <1>4
<1>11. BuffersDisjoint'
  <2>1. \A a \in allocated :
           a.func = func /\ a.space = s => Before(a, r)
    <3> SUFFICES ASSUME NEW a \in allocated, a.func = func, a.space = s
                 PROVE  a.address + a.size <= result
      BY DEF Before
    <3>1. a.address + a.size <= currPtr[s]
      BY DEF IInv, BelowCurrPtr
    <3>2. a.address \in Nat /\ a.size \in Nat
      BY DEF IInv, TypeOK, Allocations
    <3> QED
      BY <3>1, <3>2, <1>1, <1>2
  <2> SUFFICES ASSUME NEW a \in allocated', NEW b \in allocated',
                      a.func = b.func, a.space = b.space, a # b
               PROVE  Before(a, b) \/ Before(b, a)
    BY DEF BuffersDisjoint
  <2>2. CASE a \in allocated /\ b \in allocated
    BY <2>2 DEF IInv, BuffersDisjoint
  <2>3. CASE a \in allocated /\ b = r
    BY <2>3, <2>1
  <2>4. CASE a = r /\ b \in allocated
    BY <2>4, <2>1
  <2> QED
    BY <2>2, <2>3, <2>4, <1>4
<1>12. BuffersInBounds'
  <2> SUFFICES ASSUME NEW a \in allocated'
               PROVE  /\ a.address % alignment(a.space) = 0
                      /\ a.address >= baseAddress(a.space)
                      /\ NDEBUG \/ a.address + a.size <= end(a.space)
    BY DEF BuffersInBounds
  <2>1. CASE a \in allocated
    BY <2>1 DEF IInv, BuffersInBounds
  <2>2. CASE a = r /\ (NDEBUG \/ ptr <= end(s))
    <3>1. currPtr[s] >= baseAddress(s) /\ baseAddress(s) \in Nat
      BY SpaceFacts DEF IInv, AboveBase
    <3>2. result >= baseAddress(s)
      BY <3>1, <1>1, <1>2
    <3> QED
      BY <2>2, <3>2, <1>2
  <2> QED
    BY <2>1, <2>2, <1>4
<1>13. StorageHasStream'
  BY DEF IInv, StorageHasStream, isGeneric
<1> QED
  BY <1>7, <1>9, <1>10, <1>11, <1>12, <1>13 DEF IInv

\* A step that leaves the allocator and the current function alone.
LEMMA SameAllocator ==
    ASSUME IInv, TypeOK', StorageHasStream',
           UNCHANGED <<func, currPtr, allocated>>
    PROVE  IInv'
  BY DEF IInv, BelowCurrPtr, AboveBase, BuffersDisjoint, BuffersInBounds

\* Visiting an alloc: in system memory nothing happens.
LEMMA AllocateIfDevicePreserves ==
    ASSUME IInv, NEW s \in Spaces, NEW bytes \in Nat,
           phase = "buffers", allocateIfDevice(s, bytes),
           module' = module, func' = func,
           index' \in Nat \ {0}, operand' \in Nat \ {0}
    PROVE  IInv'
<1>1. CASE isDeviceMemorySpace(s) /\ allocate(s, bytes)
  BY <1>1, AllocatePreserves DEF isDeviceMemorySpace
<1>2. CASE UNCHANGED <<phase, currPtr, allocated>>
  <2>1. TypeOK'
    BY <1>2 DEF IInv, TypeOK
  <2>2. StorageHasStream'
    BY DEF IInv, StorageHasStream, isGeneric
  <2> QED
    BY <1>2, <2>1, <2>2, SameAllocator
<1> QED
  BY <1>1, <1>2 DEF allocateIfDevice

\* Putting streams on the operands of a generic op keeps the IR well formed:
\* an operand that already has a storage buffer has a stream, and is left alone.
LEMMA MatchAndRewritePreserves ==
    ASSUME IInv, NEW f \in DOMAIN module, NEW i \in DOMAIN module[f],
           matchAndRewrite(f, i)
    PROVE  IInv'
<1> DEFINE op == module[f][i]
           rewritten(o) == IF needsStream(o) THEN insertStream(o) ELSE o
           new == [op EXCEPT !.operands =
                     [j \in DOMAIN op.operands |-> rewritten(op.operands[j])]]
<1>1. op \in GenericOps /\ op.operands \in Seq(OperandRecs)
  BY OperandType DEF IInv, matchAndRewrite
<1>2. module[f] \in Seq(AllocOps \cup GenericOps)
  BY DEF IInv, TypeOK
<1>3. module' = [module EXCEPT ![f] = [module[f] EXCEPT ![i] = new]]
  BY DEF matchAndRewrite, rewritten
<1>4. \A j \in DOMAIN op.operands :
         /\ rewritten(op.operands[j]) \in OperandRecs
         /\ rewritten(op.operands[j]).storages = 1 =>
               rewritten(op.operands[j]).def = "stream_layout"
  <2> SUFFICES ASSUME NEW j \in DOMAIN op.operands
               PROVE  /\ rewritten(op.operands[j]) \in OperandRecs
                      /\ rewritten(op.operands[j]).storages = 1 =>
                            rewritten(op.operands[j]).def = "stream_layout"
    OBVIOUS
  <2>1. op.operands[j] \in OperandRecs
    BY <1>1
  <2>2. op.operands[j].storages = 1 => op.operands[j].def = "stream_layout"
    BY DEF IInv, StorageHasStream, matchAndRewrite
  <2>3. CASE needsStream(op.operands[j])
    <3>1. op.operands[j].storages = 0
      BY <2>1, <2>2, <2>3 DEF needsStream, OperandRecs
    <3> QED
      BY <2>1, <2>3, <3>1, InsertStreamType
  <2>4. CASE ~needsStream(op.operands[j])
    BY <2>1, <2>2, <2>4
  <2> QED
    BY <2>3, <2>4
<1> HIDE DEF rewritten
<1>5. new.operands = [j \in DOMAIN op.operands |-> rewritten(op.operands[j])]
  BY <1>1 DEF GenericOps
<1>6. new.op = "generic" /\ new.operands \in Seq(OperandRecs)
        /\ new \in GenericOps
  <2>1. [j \in DOMAIN op.operands |-> rewritten(op.operands[j])]
          \in Seq(OperandRecs)
    BY <1>1, <1>4
  <2> QED
    BY <1>1, <2>1 DEF GenericOps
<1> HIDE DEF new
<1>7. module' \in Seq(Seq(AllocOps \cup GenericOps))
  <2>1. [module[f] EXCEPT ![i] = new] \in Seq(AllocOps \cup GenericOps)
    BY <1>2, <1>6
  <2> QED
    BY <1>3, <2>1 DEF IInv, TypeOK
<1>8. TypeOK'
  BY <1>7 DEF IInv, TypeOK, matchAndRewrite, walkVars
<1>9. StorageHasStream'
  <2> SUFFICES ASSUME NEW g \in DOMAIN module', NEW k \in DOMAIN module'[g],
                      module'[g][k].op = "generic",
                      NEW j \in DOMAIN module'[g][k].operands,
                      module'[g][k].operands[j].storages = 1
               PROVE  module'[g][k].operands[j].def = "stream_layout"
    BY DEF StorageHasStream, isGeneric
  <2>1. CASE g = f /\ k = i
    <3>1. module'[g][k] = new
      BY <1>2, <1>3, <2>1 DEF IInv, TypeOK
    <3> QED
      BY <3>1, <1>4, <1>5
  <2>2. CASE ~(g = f /\ k = i)
    <3>1. g \in DOMAIN module /\ k \in DOMAIN module[g]
            /\ module'[g][k] = module[g][k]
      BY <1>2, <1>3, <2>2 DEF IInv, TypeOK
    <3> QED
      BY <3>1 DEF IInv, StorageHasStream, isGeneric
  <2> QED
    BY <2>1, <2>2
<1> QED
  BY <1>8, <1>9, SameAllocator DEF matchAndRewrite, walkVars

\* The walk moves on to the next function with a fresh allocator: nothing has
\* been placed in that function yet.
LEMMA NextFuncPreserves == IInv /\ nextFunc => IInv'
<1> SUFFICES ASSUME IInv, nextFunc PROVE IInv'
  OBVIOUS
<1>1. createSimpleAllocator \in [DeviceSpaces -> Nat]
  BY SpaceFacts DEF createSimpleAllocator
<1>2. TypeOK'
  BY <1>1 DEF IInv, TypeOK, nextFunc
<1>3. StorageHasStream'
  BY DEF IInv, StorageHasStream, isGeneric, nextFunc
<1>4. BelowCurrPtr'
  <2>1. \A a \in allocated : a.func \in Nat /\ a.func <= func
    BY DEF IInv, TypeOK, Allocations, BelowCurrPtr
  <2>2. func \in Nat /\ func' = func + 1 /\ allocated' = allocated
    BY DEF IInv, TypeOK, nextFunc
  <2>3. \A a \in allocated : a.func <= func' /\ a.func # func'
    BY <2>1, <2>2
  <2> QED
    BY <2>2, <2>3 DEF BelowCurrPtr
<1>5. AboveBase'
  BY SpaceFacts DEF AboveBase, nextFunc, createSimpleAllocator
<1>6. BuffersDisjoint' /\ BuffersInBounds'
  BY DEF IInv, nextFunc, BuffersDisjoint, BuffersInBounds
<1> QED
  BY <1>2, <1>3, <1>4, <1>5, <1>6 DEF IInv

\* Every step of the pass preserves the inductive invariant.
LEMMA NextIInv == IInv /\ [Next]_vars => IInv'
<1> SUFFICES ASSUME IInv, [Next]_vars PROVE IInv'
  OBVIOUS
<1>1. ASSUME NEW f \in DOMAIN module, NEW i \in DOMAIN module[f],
             matchAndRewrite(f, i)
      PROVE  IInv'
  BY <1>1, MatchAndRewritePreserves
<1>2. CASE visitAlloc
  <2>1. /\ func \in DOMAIN module
        /\ index \in DOMAIN module[func]
        /\ ~isGeneric(func, index)
        /\ phase = "buffers"
    BY <1>2 DEF visitAlloc, walking
  <2>2. module[func][index].space \in Spaces /\ module[func][index].size \in Nat
    BY <2>1, AllocOpType DEF IInv
  <2>3. index' \in Nat \ {0} /\ operand' \in Nat \ {0}
    BY <1>2 DEF visitAlloc, IInv, TypeOK
  <2> QED
    BY <1>2, <2>1, <2>2, <2>3, AllocateIfDevicePreserves DEF visitAlloc
<1>3. CASE visitStorage
  <2> DEFINE o == module[func][index].operands[operand]
  <2>1. /\ func \in DOMAIN module
        /\ index \in DOMAIN module[func]
        /\ isGeneric(func, index)
        /\ operand \in DOMAIN module[func][index].operands
        /\ phase = "buffers"
    BY <1>3 DEF visitStorage, walking
  <2>2. o \in OperandRecs
    BY <2>1, OperandType DEF IInv
  <2>3. index' \in Nat \ {0} /\ operand' \in Nat \ {0}
    BY <1>3 DEF visitStorage, IInv, TypeOK
  <2>4. CASE allocateIfDevice(o.space, o.size)
    BY <1>3, <2>1, <2>2, <2>3, <2>4, AllocateIfDevicePreserves
       DEF visitStorage, OperandRecs
  <2>5. CASE UNCHANGED <<phase, currPtr, allocated>>
    <3>1. TypeOK'
      BY <1>3, <2>3, <2>5 DEF visitStorage, IInv, TypeOK
    <3>2. StorageHasStream'
      BY <1>3 DEF visitStorage, IInv, StorageHasStream, isGeneric
    <3> QED
      BY <1>3, <2>5, <3>1, <3>2, SameAllocator DEF visitStorage
  <2> QED
    BY <1>3, <2>4, <2>5 DEF visitStorage
<1>4. CASE nextFunc
  BY <1>4, NextFuncPreserves
<1>5. CASE streamsDone \/ visitGeneric \/ succeeded \/ Ended \/ UNCHANGED vars
  <2>1. UNCHANGED <<module, func, currPtr, allocated>>
    BY <1>5 DEF streamsDone, visitGeneric, succeeded, Ended, vars, walkVars
  <2>2. TypeOK'
    BY <1>5, <2>1
       DEF IInv, TypeOK, streamsDone, visitGeneric, succeeded, Ended, vars,
           walkVars
  <2>3. StorageHasStream'
    BY <2>1 DEF IInv, StorageHasStream, isGeneric
  <2> QED
    BY <2>1, <2>2, <2>3, SameAllocator
<1> QED
  BY <1>1, <1>2, <1>3, <1>4, <1>5 DEF Next

-----------------------------------------------------------------------------
\* The inductive invariant holds throughout the pass.
THEOREM Invariance == Spec => []IInv
<1> QED
  BY InitIInv, NextIInv, PTL DEF Spec

\* The rewritten IR is well formed; in particular TTIRAllocateStreams never
\* inserts a second storage buffer for an operand, for any module.
THEOREM TypeCorrect == Spec => []TypeOK
<1>1. IInv => TypeOK
  BY DEF IInv
<1> QED
  BY <1>1, Invariance, PTL

\* SimpleAllocator never hands out overlapping buffers within a function.
THEOREM DisjointSafe == Spec => []BuffersDisjoint
<1>1. IInv => BuffersDisjoint
  BY DEF IInv
<1> QED
  BY <1>1, Invariance, PTL

\* Every address is aligned for the NoC, at or above the unreserved base, and
\* the buffer ends within the bound of the assert.
THEOREM BoundsSafe == Spec => []BuffersInBounds
<1>1. IInv => BuffersInBounds
  BY DEF IInv
<1> QED
  BY <1>1, Invariance, PTL

-----------------------------------------------------------------------------
(* Every buffer is placed once                                             *)

\* Number j is one of the device allocs that the walk comes to at op i of
\* function f.
isDeviceAlloc(f, i, j) ==
    /\ f \in DOMAIN module
    /\ i \in DOMAIN module[f]
    /\ j \in deviceAllocsAt(module[f][i])

\* The walk has gone past that place.
Passed(f, i, j) ==
    \/ f < func
    \/ f = func /\ i < index
    \/ f = func /\ i = index /\ j < operand

isAt(a, f, i, j) == a.func = f /\ a.index = i /\ a.operand = j

StreamsInserted ==
    \A f \in DOMAIN module : \A i \in DOMAIN module[f] :
        isGeneric(f, i) =>
           \A j \in DOMAIN module[f][i].operands :
              ~needsStream(module[f][i].operands[j])

AtGeneric ==
    /\ func \in DOMAIN module
    /\ index \in DOMAIN module[func]
    /\ isGeneric(func, index)

\* The pass has no buffer before its walk starts, has no operand left to
\* stream from then on, and ends only behind the last function.
WalkInv ==
    /\ phase = "streams" =>
          allocated = {} /\ func = 1 /\ index = 1 /\ operand = 1
    /\ phase # "streams" => StreamsInserted
    /\ phase = "buffers" /\ ~AtGeneric => operand = 1
    /\ phase = "done" => func \notin DOMAIN module

\* An address was given to each device alloc that the walk has passed, unless
\* it was aborted, to no other, and only once.
PlacedInv ==
    /\ IsFiniteSet(allocated)
    /\ \A a \in allocated :
          /\ isDeviceAlloc(a.func, a.index, a.operand)
          /\ Passed(a.func, a.index, a.operand)
    /\ \A a, b \in allocated : isAt(a, b.func, b.index, b.operand) => a = b
    /\ phase \in {"buffers", "done"} =>
          \A f \in DOMAIN module : \A i \in DOMAIN module[f] :
             \A j \in deviceAllocsAt(module[f][i]) :
                Passed(f, i, j) => \E a \in allocated : isAt(a, f, i, j)

CompleteInv == WalkInv /\ PlacedInv

\* The numbers of a device alloc are within the module, the function and the
\* operands; an alloc op is its own, only, device alloc.
LEMMA DeviceAllocFacts ==
    ASSUME TypeOK, NEW f, NEW i, NEW j, isDeviceAlloc(f, i, j)
    PROVE  /\ f \in 1 .. Len(module) /\ i \in 1 .. Len(module[f])
           /\ j \in Nat
           /\ isGeneric(f, i) => j \in DOMAIN module[f][i].operands
           /\ ~isGeneric(f, i) => j = 1
<1>1. f \in DOMAIN module /\ i \in DOMAIN module[f]
  BY DEF isDeviceAlloc
<1>2. module[f] \in Seq(AllocOps \cup GenericOps)
  BY <1>1 DEF TypeOK
<1>3. f \in 1 .. Len(module) /\ i \in 1 .. Len(module[f])
  BY <1>1, <1>2 DEF TypeOK
<1>4. CASE isGeneric(f, i)
  <2>1. module[f][i].operands \in Seq(OperandRecs)
    BY <1>1, <1>4, OperandType
  <2>2. j \in DOMAIN module[f][i].operands
    BY <1>4 DEF isDeviceAlloc, deviceAllocsAt, isGeneric
  <2> QED
    BY <1>3, <1>4, <2>1, <2>2
<1>5. CASE ~isGeneric(f, i)
  BY <1>3, <1>5 DEF isDeviceAlloc, deviceAllocsAt, isGeneric
<1> QED
  BY <1>4, <1>5

\* A step that walks past no device alloc.
LEMMA NothingPassed ==
    ASSUME PlacedInv, module' = module, allocated' = allocated,
           phase' \in {"buffers", "done"} => phase \in {"buffers", "done"},
           \A f, i, j : isDeviceAlloc(f, i, j) =>
              (Passed(f, i, j)' <=> Passed(f, i, j))
    PROVE  PlacedInv'
<1>1. ASSUME NEW f, NEW i, NEW j
      PROVE  isDeviceAlloc(f, i, j)' <=> isDeviceAlloc(f, i, j)
  BY DEF isDeviceAlloc
<1>2. IsFiniteSet(allocated)'
  BY DEF PlacedInv
<1>3. \A a \in allocated' :
         /\ isDeviceAlloc(a.func, a.index, a.operand)'
         /\ Passed(a.func, a.index, a.operand)'
  BY <1>1 DEF PlacedInv
<1>4. \A a, b \in allocated' : isAt(a, b.func, b.index, b.operand) => a = b
  BY DEF PlacedInv
<1>5. ASSUME phase' \in {"buffers", "done"},
             NEW f \in DOMAIN module, NEW i \in DOMAIN module[f],
             NEW j \in deviceAllocsAt(module[f][i]), Passed(f, i, j)'
      PROVE  \E a \in allocated : isAt(a, f, i, j)
  <2>1. isDeviceAlloc(f, i, j)
    BY DEF isDeviceAlloc
  <2>2. Passed(f, i, j)
    BY <1>5, <2>1
  <2> QED
    BY <1>5, <2>2 DEF PlacedInv
<1> QED
  BY <1>2, <1>3, <1>4, <1>5 DEF PlacedInv, isAt

\* A step that walks past one device alloc, the one at the walk's position,
\* and gives it an address or aborts.
LEMMA OnePassed ==
    ASSUME TypeOK, PlacedInv, phase = "buffers", module' = module,
           isDeviceAlloc(func, index, operand),
           NEW r, isAt(r, func, index, operand),
           \/ allocated' = allocated \cup {r} /\ phase' = phase
           \/ allocated' = allocated /\ phase' = "aborted",
           \A f, i, j : isDeviceAlloc(f, i, j) =>
              (Passed(f, i, j)' <=>
                 Passed(f, i, j) \/ (f = func /\ i = index /\ j = operand))
    PROVE  PlacedInv'
<1>1. ASSUME NEW f, NEW i, NEW j
      PROVE  isDeviceAlloc(f, i, j)' <=> isDeviceAlloc(f, i, j)
  BY DEF isDeviceAlloc
<1>2. IsFiniteSet(allocated)'
  BY FS_AddElement DEF PlacedInv
<1>3. ASSUME NEW a \in allocated'
      PROVE  /\ isDeviceAlloc(a.func, a.index, a.operand)'
             /\ Passed(a.func, a.index, a.operand)'
  <2>1. CASE a \in allocated
    BY <2>1, <1>1 DEF PlacedInv
  <2>2. CASE a = r
    BY <2>2, <1>1 DEF isAt
  <2> QED
    BY <2>1, <2>2
<1>4. ASSUME NEW a \in allocated
      PROVE  ~isAt(a, func, index, operand)
  <2>1. ~Passed(func, index, operand)
    BY DEF TypeOK, Passed
  <2> QED
    BY <2>1 DEF isAt, PlacedInv
<1>5. ASSUME NEW a \in allocated', NEW b \in allocated',
             isAt(a, b.func, b.index, b.operand)
      PROVE  a = b
  <2>1. CASE a \in allocated /\ b \in allocated
    BY <1>5, <2>1 DEF PlacedInv
  <2>2. CASE a = r /\ b \in allocated
    BY <1>4, <1>5, <2>2 DEF isAt
  <2>3. CASE a \in allocated /\ b = r
    BY <1>4, <1>5, <2>3 DEF isAt
  <2> QED
    BY <2>1, <2>2, <2>3
<1>6. ASSUME phase' \in {"buffers", "done"},
             NEW f \in DOMAIN module, NEW i \in DOMAIN module[f],
             NEW j \in deviceAllocsAt(module[f][i]), Passed(f, i, j)'
      PROVE  \E a \in allocated' : isAt(a, f, i, j)
  <2>1. isDeviceAlloc(f, i, j) /\ r \in allocated' /\ allocated \subseteq allocated'
    BY <1>6 DEF isDeviceAlloc
  <2>2. CASE Passed(f, i, j)
    BY <1>6, <2>1, <2>2 DEF PlacedInv
  <2>3. CASE f = func /\ i = index /\ j = operand
    BY <2>1, <2>3
  <2> QED
    BY <1>6, <2>1, <2>2, <2>3
<1> QED
  BY <1>2, <1>3, <1>5, <1>6 DEF PlacedInv, isAt

\* Where the walk gets to: past the alloc op or past the operand that it
\* visits, past the end of an op or of a function, and never over a device
\* alloc that it does not visit.
LEMMA PassedSteps ==
    ASSUME TypeOK, WalkInv, phase = "buffers", func \in DOMAIN module,
           NEW f, NEW i, NEW j, isDeviceAlloc(f, i, j)
    PROVE  /\ visitAlloc \/ visitStorage =>
                 (Passed(f, i, j)' <=>
                    Passed(f, i, j) \/ (f = func /\ i = index /\ j = operand))
           /\ visitGeneric \/ nextFunc =>
                 (Passed(f, i, j)' <=> Passed(f, i, j))
<1>1. /\ f \in 1 .. Len(module) /\ i \in 1 .. Len(module[f]) /\ j \in Nat
      /\ isGeneric(f, i) => j \in DOMAIN module[f][i].operands
      /\ ~isGeneric(f, i) => j = 1
  BY DeviceAllocFacts
<1>2. func \in Nat /\ index \in Nat \ {0} /\ operand \in Nat \ {0}
  BY DEF TypeOK
<1>3. module[func] \in Seq(AllocOps \cup GenericOps)
  BY DEF TypeOK
<1>4. ASSUME visitAlloc
      PROVE  Passed(f, i, j)' <=>
                Passed(f, i, j) \/ (f = func /\ i = index /\ j = operand)
  <2>1. ~isGeneric(func, index) /\ func' = func /\ index' = index + 1
          /\ operand' = operand
    BY <1>4 DEF visitAlloc
  <2>2. operand = 1
    BY <2>1 DEF WalkInv, AtGeneric
  <2>3. f = func /\ i = index => j = 1
    BY <1>1, <2>1
  <2>4. i \in Nat /\ f \in Nat /\ j \in Nat \ {0}
    BY <1>1, OperandType DEF isDeviceAlloc
  <2> QED
    BY <1>2, <2>1, <2>2, <2>3, <2>4 DEF Passed
<1>5. ASSUME visitStorage
      PROVE  Passed(f, i, j)' <=>
                Passed(f, i, j) \/ (f = func /\ i = index /\ j = operand)
  BY <1>1, <1>2, <1>5 DEF Passed, visitStorage
<1>6. ASSUME visitGeneric
      PROVE  Passed(f, i, j)' <=> Passed(f, i, j)
  <2>1. /\ isGeneric(func, index) /\ index \in DOMAIN module[func]
        /\ func' = func /\ index' = index + 1 /\ operand' = 1
        /\ operand \notin DOMAIN module[func][index].operands
    BY <1>6 DEF visitGeneric
  <2>2. module[func][index].operands \in Seq(OperandRecs)
    BY <2>1, OperandType
  <2>3. f = func /\ i = index => j < operand
    <3> SUFFICES ASSUME f = func, i = index PROVE j < operand
      OBVIOUS
    <3>1. j \in DOMAIN module[func][index].operands
      BY <1>1, <2>1
    <3> QED
      BY <3>1, <2>1, <2>2, <1>2
  <2>4. i \in Nat /\ f \in Nat /\ j \in Nat
    BY <1>1, <1>3
  <2>5. j \in Nat \ {0}
    BY <1>1, OperandType DEF isDeviceAlloc
  <2> QED
    BY <1>2, <2>1, <2>3, <2>4, <2>5 DEF Passed
<1>7. ASSUME nextFunc
      PROVE  Passed(f, i, j)' <=> Passed(f, i, j)
  <2>1. /\ index \notin DOMAIN module[func]
        /\ func' = func + 1 /\ index' = 1 /\ operand' = operand
    BY <1>7 DEF nextFunc
  <2>2. f = func => i < index
    BY <1>1, <1>2, <1>3, <2>1
  <2>3. operand = 1
    BY <2>1 DEF WalkInv, AtGeneric
  <2>4. i \in Nat \ {0} /\ f \in Nat /\ j \in Nat \ {0}
    BY <1>1, OperandType DEF isDeviceAlloc
  <2> QED
    BY <1>2, <2>1, <2>2, <2>3, <2>4 DEF Passed
<1> QED
  BY <1>4, <1>5, <1>6, <1>7

\* What an alloc at the walk's position does: it is given an address, or it
\* is in system memory, or the compiler aborts.
LEMMA PlacesOne ==
    ASSUME IInv, CompleteInv, phase = "buffers",
           func \in DOMAIN module, index \in DOMAIN module[func],
           module' = module, visitAlloc \/ visitStorage,
           NEW s, NEW bytes, allocateIfDevice(s, bytes),
           isDeviceAlloc(func, index, operand) <=> isDeviceMemorySpace(s)
    PROVE  PlacedInv' /\ phase' \in {"buffers", "aborted"}
<1> DEFINE r == [func |-> func, index |-> index, operand |-> operand,
                 space |-> s, address |-> alignUp(currPtr[s], alignment(s)),
                 size |-> bytes]
<1>1. \A f, i, j : isDeviceAlloc(f, i, j) =>
         (Passed(f, i, j)' <=>
            Passed(f, i, j) \/ (f = func /\ i = index /\ j = operand))
  BY PassedSteps DEF IInv, CompleteInv
<1>2. CASE isDeviceMemorySpace(s) /\ allocate(s, bytes)
  <2>1. \/ allocated' = allocated \cup {r} /\ phase' = phase
        \/ allocated' = allocated /\ phase' = "aborted"
    BY <1>2 DEF allocate
  <2>2. isAt(r, func, index, operand)
    BY DEF isAt
  <2> HIDE DEF r
  <2>3. isDeviceAlloc(func, index, operand)
    BY <1>2
  <2>4. PlacedInv'
    BY <1>1, <2>1, <2>2, <2>3, OnePassed DEF IInv, CompleteInv
  <2> QED
    BY <2>1, <2>4
<1>3. CASE ~isDeviceMemorySpace(s) /\ UNCHANGED <<phase, currPtr, allocated>>
  <2>1. \A f, i, j : isDeviceAlloc(f, i, j) =>
           (Passed(f, i, j)' <=> Passed(f, i, j))
    BY <1>1, <1>3
  <2> QED
    BY <1>3, <2>1, NothingPassed DEF CompleteInv
<1> QED
  BY <1>2, <1>3 DEF allocateIfDevice

\* Visiting an alloc op.
LEMMA VisitAllocPlaces ==
    ASSUME IInv, CompleteInv, visitAlloc
    PROVE  CompleteInv'
<1>1. /\ phase = "buffers" /\ func \in DOMAIN module
      /\ index \in DOMAIN module[func] /\ ~isGeneric(func, index)
      /\ UNCHANGED <<module, func, operand>> /\ index' = index + 1
  BY DEF visitAlloc, walking
<1>2. operand = 1
  BY <1>1 DEF CompleteInv, WalkInv, AtGeneric
<1>3. isDeviceAlloc(func, index, operand) <=>
        isDeviceMemorySpace(module[func][index].space)
  BY <1>1, <1>2 DEF isDeviceAlloc, deviceAllocsAt, isGeneric
<1>4. allocateIfDevice(module[func][index].space, module[func][index].size)
  BY DEF visitAlloc
<1>5. PlacedInv' /\ phase' \in {"buffers", "aborted"}
  BY <1>1, <1>3, <1>4, PlacesOne
<1>6. StreamsInserted'
  BY <1>1 DEF CompleteInv, WalkInv, StreamsInserted, isGeneric
<1>7. WalkInv'
  BY <1>1, <1>2, <1>5, <1>6 DEF WalkInv
<1> QED
  BY <1>5, <1>7 DEF CompleteInv

\* Visiting the storage of an operand, if one was inserted.
LEMMA VisitStoragePlaces ==
    ASSUME IInv, CompleteInv, visitStorage
    PROVE  CompleteInv'
<1> DEFINE o == module[func][index].operands[operand]
<1>1. /\ phase = "buffers" /\ func \in DOMAIN module
      /\ index \in DOMAIN module[func] /\ isGeneric(func, index)
      /\ operand \in DOMAIN module[func][index].operands
      /\ UNCHANGED <<module, func, index>> /\ operand' = operand + 1
  BY DEF visitStorage, walking
<1>2. isDeviceAlloc(func, index, operand) <=>
        o.storages = 1 /\ isDeviceMemorySpace(o.space)
  BY <1>1 DEF isDeviceAlloc, deviceAllocsAt, isGeneric
<1>3. PlacedInv' /\ phase' \in {"buffers", "aborted"}
  <2>1. CASE o.storages = 1 /\ allocateIfDevice(o.space, o.size)
    <3>1. isDeviceAlloc(func, index, operand) <=> isDeviceMemorySpace(o.space)
      BY <1>2, <2>1
    <3> QED
      BY <1>1, <2>1, <3>1, PlacesOne
  <2>2. CASE o.storages = 0 /\ UNCHANGED <<phase, currPtr, allocated>>
    <3>1. \A f, i, j : isDeviceAlloc(f, i, j) =>
             (Passed(f, i, j)' <=> Passed(f, i, j))
      BY <1>1, <1>2, <2>2, PassedSteps DEF IInv, CompleteInv
    <3> QED
      BY <1>1, <2>2, <3>1, NothingPassed DEF CompleteInv
  <2> QED
    BY <2>1, <2>2 DEF visitStorage
<1>4. StreamsInserted'
  BY <1>1 DEF CompleteInv, WalkInv, StreamsInserted, isGeneric
<1>5. AtGeneric'
  BY <1>1 DEF AtGeneric, isGeneric
<1>6. WalkInv'
  BY <1>3, <1>4, <1>5 DEF WalkInv
<1> QED
  BY <1>3, <1>6 DEF CompleteInv

\* Leaving an op or a function, and the other steps of the pass, place
\* nothing; the walk starts before every device alloc.
LEMMA OtherStepsPlace ==
    ASSUME IInv, CompleteInv
    PROVE  /\ \A f \in DOMAIN module : \A i \in DOMAIN module[f] :
                 matchAndRewrite(f, i) => CompleteInv'
           /\ streamsDone => CompleteInv'
           /\ visitGeneric => CompleteInv'
           /\ nextFunc => CompleteInv'
           /\ succeeded => CompleteInv'
           /\ Ended \/ UNCHANGED vars => CompleteInv'
<1>1. ASSUME NEW f \in DOMAIN module, NEW i \in DOMAIN module[f],
             matchAndRewrite(f, i)
      PROVE  CompleteInv'
  <2>1. /\ phase = "streams" /\ phase' = "streams" /\ allocated' = {}
        /\ func' = 1 /\ index' = 1 /\ operand' = 1
    BY <1>1 DEF matchAndRewrite, walkVars, CompleteInv, WalkInv
  <2>2. WalkInv'
    BY <2>1 DEF WalkInv
  <2>3. PlacedInv'
    BY <2>1, FS_EmptySet DEF PlacedInv
  <2> QED
    BY <2>2, <2>3 DEF CompleteInv
<1>2. ASSUME streamsDone
      PROVE  CompleteInv'
  <2>1. /\ phase = "streams" /\ phase' = "buffers" /\ allocated = {}
        /\ func = 1 /\ index = 1 /\ operand = 1
        /\ UNCHANGED <<module, func, index, operand, allocated>>
    BY <1>2 DEF streamsDone, walkVars, CompleteInv, WalkInv
  <2>2. StreamsInserted'
    BY <1>2, <2>1 DEF streamsDone, StreamsInserted, isGeneric
  <2>3. WalkInv'
    BY <2>1, <2>2 DEF WalkInv
  <2>4. \A f, i, j : isDeviceAlloc(f, i, j)' => ~Passed(f, i, j)'
    <3> SUFFICES ASSUME NEW f, NEW i, NEW j, isDeviceAlloc(f, i, j)
                 PROVE  ~Passed(f, i, j)'
      BY <2>1 DEF isDeviceAlloc
    <3>1. i \in Nat \ {0} /\ f \in Nat \ {0} /\ j \in Nat \ {0}
      BY DeviceAllocFacts, OperandType DEF isDeviceAlloc, IInv
    <3> QED
      BY <2>1, <3>1 DEF Passed
  <2>5. PlacedInv'
    BY <2>1, <2>4, FS_EmptySet DEF PlacedInv, isDeviceAlloc
  <2> QED
    BY <2>3, <2>5 DEF CompleteInv
<1>3. ASSUME visitGeneric
      PROVE  CompleteInv'
  <2>1. /\ phase = "buffers" /\ func \in DOMAIN module
        /\ UNCHANGED <<module, phase, func, allocated>> /\ operand' = 1
    BY <1>3 DEF visitGeneric, walking
  <2>2. \A f, i, j : isDeviceAlloc(f, i, j) =>
           (Passed(f, i, j)' <=> Passed(f, i, j))
    BY <1>3, <2>1, PassedSteps DEF IInv, CompleteInv
  <2>3. PlacedInv'
    BY <2>1, <2>2, NothingPassed DEF CompleteInv
  <2>4. StreamsInserted'
    BY <2>1 DEF CompleteInv, WalkInv, StreamsInserted, isGeneric
  <2> QED
    BY <2>1, <2>3, <2>4 DEF CompleteInv, WalkInv
<1>4. ASSUME nextFunc
      PROVE  CompleteInv'
  <2>1. /\ phase = "buffers" /\ func \in DOMAIN module
        /\ index \notin DOMAIN module[func]
        /\ UNCHANGED <<module, phase, operand, allocated>>
    BY <1>4 DEF nextFunc, walking
  <2>2. operand = 1
    BY <2>1 DEF CompleteInv, WalkInv, AtGeneric
  <2>3. \A f, i, j : isDeviceAlloc(f, i, j) =>
           (Passed(f, i, j)' <=> Passed(f, i, j))
    BY <1>4, <2>1, PassedSteps DEF IInv, CompleteInv
  <2>4. PlacedInv'
    BY <2>1, <2>3, NothingPassed DEF CompleteInv
  <2>5. StreamsInserted'
    BY <2>1 DEF CompleteInv, WalkInv, StreamsInserted, isGeneric
  <2> QED
    BY <2>1, <2>2, <2>4, <2>5 DEF CompleteInv, WalkInv
<1>5. ASSUME succeeded \/ Ended \/ UNCHANGED vars
      PROVE  CompleteInv'
  <2>1. /\ UNCHANGED <<module, func, index, operand, allocated>>
        /\ \/ phase' = phase
           \/ phase = "buffers" /\ phase' = "done" /\ func \notin DOMAIN module
    BY <1>5 DEF succeeded, Ended, vars, walkVars
  <2>2. \A f, i, j : Passed(f, i, j)' <=> Passed(f, i, j)
    BY <2>1 DEF Passed
  <2>3. PlacedInv'
    BY <2>1, <2>2, NothingPassed DEF CompleteInv
  <2>4. /\ StreamsInserted' <=> StreamsInserted
        /\ AtGeneric' <=> AtGeneric
    BY <2>1 DEF StreamsInserted, AtGeneric, isGeneric
  <2>5. WalkInv'
    BY <2>1, <2>4 DEF CompleteInv, WalkInv
  <2> QED
    BY <2>3, <2>5 DEF CompleteInv
<1> QED
  BY <1>1, <1>2, <1>3, <1>4, <1>5

\* The walk's invariant holds throughout the pass.
THEOREM WalkComplete == Spec => []CompleteInv
<1>1. Init => CompleteInv
  <2> SUFFICES ASSUME Init PROVE CompleteInv
    OBVIOUS
  <2>1. /\ phase = "streams" /\ allocated = {}
        /\ func = 1 /\ index = 1 /\ operand = 1
    BY DEF Init
  <2> QED
    BY <2>1, FS_EmptySet DEF CompleteInv, WalkInv, PlacedInv
<1>2. IInv /\ CompleteInv /\ [Next]_vars => CompleteInv'
  <2> SUFFICES ASSUME IInv, CompleteInv, [Next]_vars PROVE CompleteInv'
    OBVIOUS
  <2>1. \/ \E f \in DOMAIN module : \E i \in DOMAIN module[f] :
              matchAndRewrite(f, i)
        \/ streamsDone \/ visitAlloc \/ visitStorage \/ visitGeneric
        \/ nextFunc \/ succeeded \/ Ended \/ UNCHANGED vars
    BY DEF Next
  <2> QED
    BY <2>1, VisitAllocPlaces, VisitStoragePlaces, OtherStepsPlace
<1> QED
  BY <1>1, <1>2, Invariance, PTL DEF Spec

\* When the walk is behind the last function, every device alloc has exactly
\* one address, and nothing else has one.
LEMMA AllPlaced ==
    ASSUME IInv, CompleteInv, phase = "done"
    PROVE  /\ \A p \in deviceAllocs :
                 Cardinality({a \in allocated :
                                <<a.func, a.index, a.operand>> = p}) = 1
           /\ Cardinality(allocated) = Cardinality(deviceAllocs)
<1> DEFINE place(a) == <<a.func, a.index, a.operand>>
           F == [a \in allocated |-> place(a)]
<1>1. \A p : p \in deviceAllocs <=>
                \E f, i, j : isDeviceAlloc(f, i, j) /\ p = <<f, i, j>>
  BY DEF deviceAllocs, isDeviceAlloc
<1>2. ASSUME NEW f, NEW i, NEW j, isDeviceAlloc(f, i, j)
      PROVE  \E a \in allocated : isAt(a, f, i, j)
  <2>1. f \in 1 .. Len(module)
    BY <1>2, DeviceAllocFacts DEF IInv
  <2>2. func \notin 1 .. Len(module) /\ func \in Nat \ {0} /\ Len(module) \in Nat
    BY DEF CompleteInv, WalkInv, IInv, TypeOK
  <2>3. Passed(f, i, j)
    BY <2>1, <2>2 DEF Passed
  <2> QED
    BY <1>2, <2>3 DEF isDeviceAlloc, CompleteInv, PlacedInv
<1>3. \A a \in allocated : place(a) \in deviceAllocs
  BY <1>1 DEF CompleteInv, PlacedInv
<1>4. \A a, b \in allocated : place(a) = place(b) => a = b
  BY DEF CompleteInv, PlacedInv, isAt
<1>5. ASSUME NEW p \in deviceAllocs
      PROVE  \E a \in allocated : place(a) = p
  BY <1>1, <1>2 DEF isAt
<1>6. \A p \in deviceAllocs :
         Cardinality({a \in allocated : place(a) = p}) = 1
  <2> SUFFICES ASSUME NEW p \in deviceAllocs
               PROVE  Cardinality({a \in allocated : place(a) = p}) = 1
    OBVIOUS
  <2>1. PICK a \in allocated : place(a) = p
    BY <1>5
  <2>2. {b \in allocated : place(b) = p} = {a}
    BY <2>1, <1>4
  <2> QED
    BY <2>2, FS_Singleton
<1>7. ExistsBijection(allocated, deviceAllocs)
  <2>1. F \in [allocated -> deviceAllocs]
    BY <1>3
  <2>2. \A a, b \in allocated : F[a] = F[b] => a = b
    BY <1>4
  <2>3. \A p \in deviceAllocs : \E a \in allocated : F[a] = p
    BY <1>5
  <2> HIDE DEF F
  <2>4. F \in Bijection(allocated, deviceAllocs)
    BY <2>1, <2>2, <2>3 DEF Bijection, Injection, Surjection, IsInjective
  <2> QED
    BY <2>4 DEF ExistsBijection
<1>8. Cardinality(allocated) = Cardinality(deviceAllocs)
  BY <1>7, FS_Bijection DEF CompleteInv, PlacedInv
<1> QED
  BY <1>6, <1>8

\* A pass that succeeds has streamed every operand that needs it and placed
\* every device alloc, the inserted storage included, exactly once, in every
\* module.
THEOREM PlacementComplete == Spec => []EveryBufferPlaced
<1>1. IInv /\ CompleteInv => EveryBufferPlaced
  <2> SUFFICES ASSUME IInv, CompleteInv, phase = "done" PROVE EveryBufferPlaced
    BY DEF EveryBufferPlaced
  <2>1. StreamsInserted
    BY DEF CompleteInv, WalkInv
  <2> QED
    BY <2>1, AllPlaced DEF EveryBufferPlaced, StreamsInserted
<1> QED
  BY <1>1, Invariance, WalkComplete, PTL
=============================================================================
