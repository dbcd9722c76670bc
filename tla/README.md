# A TLA+ verification of tt-mlir

tt-mlir compiles tensor programs to Tenstorrent devices and runs them. This
directory holds TLA+ models of the parts of it whose correctness depends on
more than one step: the kernels it generates, which run concurrently on a grid
of cores; the runtime that executes compiled programs and caches constant
results between them; four compiler passes that keep state while they walk the
IR, the TTNN optimizer with its scheduler and constraint solver among them; the
layout conversions of compiler and runtime; and the thread that tt-explorer
runs models in. TLC checks the models on
small instances, TLAPS proves the main results about six of them for all
instances.

    tlc -config MCGatherMcast_column.cfg MCGatherMcast     # one run
    tlapm GatherMcastProofs.tla                            # one module's proofs

`PROJECT.json` lists the components, the runs, for every property a mutation of
the model that breaks it, the source lines behind every definition, the hazards
the properties are aimed at, the findings and the theorems.

## 1. Inventory

### The system

    StableHLO / TOSA / PyTorch
         | frontend conversions
         v
        TTIR --------------------------------+
         | const-eval hoisting               | TTMetal path: ttir.generic,
         | (lib/Transforms)                  | streams, allocation, generated
         v                                   v datamovement, kernels
        TTNN: optimizer, layouts,           TTKernel / TTMetal
         | deallocation                      |
         v                                   v
     flatbuffer binary  ----------------> runtime (ttnn | ttmetal)
                                             ^
     tt-explorer, ttrt, python bindings -----+

| Component | State it keeps | Operations | Hard behaviour | What makes it correct | Here |
|---|---|---|---|---|---|
| Generated kernels of `ttir.generic` (`GenericGenerateDatamovement`, `GenericGenerateLoops`, `GenericHWThreadSelection`, `TTIRToTTKernel`) | circular buffers, semaphores, NoC transactions | reserve, DMA, multicast, wait, set, inc, push, pop | threads of all cores interleave; the NoC is asynchronous; semaphores are reset between iterations | each core combines the right blocks in order; nothing is overwritten while read; nobody waits for ever | `GatherMcast`, `GenericOp` |
| TTNN deallocation pass (`TTNN/Transforms/Passes.cpp`) | IR | insert a deallocate after each last use | aliases; const-eval functions do not own their parameters | nothing is freed before its last use or leaked | `Deallocate` |
| TTNN program executor, tensor pool | pool, retain flags, versions, storages shared by tensors | submit, run an op, gather outputs, nested executors | long sequences of legal calls; aliases between client, pool and cache | operands are alive; retained tensors survive | `ProgramExecutor` |
| Const-eval tensor cache | device, program, callee -> outputs and input versions | get, store, clear, remove | a stale entry is only seen submissions later | a submission computes what it would without the cache | `ProgramExecutor` |
| Const-eval hoisting (`lib/Transforms/ConstEvalHoist.cpp`) | union-find of subgraphs, IR | analyse, hoist, undo | ids recorded before later merges; hash-map order | all that is constant is hoisted, the IR stays valid, undo undoes | `ConstEvalHoist` |
| TTIR allocation (`TTIR/Transforms/Allocate.cpp`) | bump pointers, IR | insert streams, allocate | the first step makes buffers the second must see; limits and alignment | buffers disjoint, in bounds, none forgotten | `Allocate` |
| tt-explorer `ModelRunner` | thread, error, progress, log queue, model states, directories | run, reset, status check, the stages of a run | request threads and runner thread share fields without a lock; stages fail | truthful status, artifacts of the right run, runs end | `ModelRunner` |
| Layout conversion (`layout_converter.cpp`, `TTNNDecomposeLayouts.cpp`, the canonicalization of `to_layout`) | the sequence of ops created so far | decide the order of to_device, from_device, to_layout, typecast, to_memory_config | each pair of layouts has its own order; decided twice, in compiler and runtime; later ops see the replacements of earlier ones | each step is legal where the tensor is, the end is the wanted layout | `TensorLayout`, `ToLayout`, `LayoutConverter`, `DecomposeLayouts`, `LayoutConversion` |
| Operation scheduler (`lib/Scheduler`) | scheduled and unscheduled ops | getScheduleableOps, scheduleOp | the order of a hash set | the new order defines values before their uses | `Scheduler`, `OpGraph` |
| TTNN optimizer (`DFShardingPolicy`, `BFInterleavedPolicy`, `GreedyL1InterleavedPolicy`, `L1ChainConfig`, `ShardSolver`, `MemoryLayoutAnalysis`, `Optimizer.cpp`) | schedule, chains with their state machine, bitsets of configs and sets of paths, L1 usage counters, IR | schedule an op, build/resolve/complete a chain, propagate, set a config, insert a reshard or a spill | constraint propagation with work lists; greedy choices; results collected before later rewrites | the solver ends with a consistent, best choice; ops read what the backend accepted; L1 budgets hold | `L1ChainConfig`, `ShardSolver`, the three policies, `Optimizer` |
| TTMetal runtime (`runtime/lib/ttmetal/executor.cpp`) | buffers, events, command queues | execute a command | asynchronous command queues | waits match records | planned |
| DMA lowering (`GenericLowerDMAs.cpp`) | none | coalesce affine accesses | arithmetic | same accesses as the reference | planned |
| Frontend conversions, dialect conversions, fusing and folding patterns, CPU hoisting | none | rewrite one op | none beyond tensor arithmetic | semantics of single ops | not modelled |
| Dialect definitions, verifiers, flatbuffer translation, op model, dylibs, system descriptor, debug hooks, command-line tools, bindings | files, generated code | - | I/O and generated code | - | not modelled |

### How the components interact

* `const-eval-hoist` replaces constant subgraphs by `tt.load_cached`; the
  deallocation pass puts deallocates into the remaining function *and* into the
  hoisted ones; the executor runs both, with the cache between them. The three
  are written against each other's conventions (a const-eval function does not
  free its parameters; a program deallocates the results of `load_cached`, which
  is harmless only because the cache's own tensors share their storage), which is
  why `ProgramExecutor` runs the output of `Deallocate` and not hand-made
  programs.
* `ttir-allocate` gives every stream one storage buffer. The generated kernels
  rely on it: with one buffer the CB's read and write pointers coincide, and a
  multicast from the read pointer sends what was fetched at the write pointer.
* The runtime is entered by client calls between submissions; handles are
  shared pointers, so the client, the pool and the cache keep each other's
  tensors alive.
* The scheduler offers ready ops to a memory layout policy; the policy builds
  chains of ops that stay in L1 and, for sharding, hands each to a solver that
  asks the backend's op model; the optimizer applies schedule, layouts, reshards
  and spills. The reshards and spills are `to_layout` ops, which
  `ttnn-decompose-layouts` later breaks into the operations the executor runs.
* The caller of the runtime brings its tensors to the layout of a program's
  inputs with `toLayout`; the program's own conversions were decomposed by the
  compiler. `LayoutConversion` sends one tensor through both.
* tt-explorer polls `ModelRunner` from request threads while the runner thread
  starts the compiler and the device tools as subprocesses.

## 2. Modules

### GatherMcast, GenericOp, GatherMcastProofs

`GatherMcast` is the code that the passes *generate*, as it runs on the device:
on every core of the grid one datamovement thread per input operand and one
compute thread. `dm[i][c]` and `compute[c]` are program counters; the actions
are the statements in the generated order:

| Action | Statements |
|---|---|
| `YieldLocal` | an operand that is no stream: reserve, push |
| `StreamDMA` | a streamed operand without reduction: reserve, read, barrier, push |
| `GatherDMA` | the sender's read of the block |
| `WaitReceiversReady`, `ResetReceiversReady` | `semaphore_wait(volume - 1, reset 0)`, which is lowered to two statements |
| `McastDMA`, `SetSenderFinished` | the multicast write; the write barrier, then the multicast of the semaphore, push |
| `IncReceiversReady`, `WaitSenderFinished`, `ResetSenderFinished` | the receiver's side |
| `AwaitInputs`, `Compute`, `PopFront` | the compute kernel: wait for every CB, combine, pop one CB after the other |
| `LandInc`, `LandData`, `LandSet` | NoC transactions arrive (external: the hardware) |

`coreIndex`, `mcastVolume`, `isSender`, `mcastDests`, `allParallel` are
`calculateGatherMcastArguments` and `calculateMcastIterators`. A block is named
by its operand, the sender's coordinates and the iteration; its contents do not
matter. Assumptions: one condition per multicast operand and enough hardware
threads, both of which the passes check (`OneCondition`, `HWThreadSelection`).

`GenericOp` is what the op promised before any datamovement was generated: each
core combines, iteration by iteration, the blocks that the indexing maps name.
`Promise == INSTANCE GenericOp` maps `out` to `out`.

### Deallocate, ProgramExecutor, DeallocateProofs, ProgramExecutorProofs

`Deallocate` is the pass as a function from functions to functions (a sequence
of operations with operands and results by name). `ProgramExecutor` runs its
result. Its state is the runtime's: `wrapper` (the `TTNNTensorWrapper` objects
with retain flag and version), `storage` (what several tensors may share),
`held` (the client's handles), `cache`, and `stack`, the nested executors with
their pools. Client actions: `createOwnedHostTensor`, `setTensorRetain`,
`releaseHandle`, `toLayout`, `deallocateTensor`, `memcpy`, `clearCache`,
`removeFromCache`, `submit`. Execution: one action per kind of operation
(`runCompute`, `runView`, `runInplace`, `runDeallocate`, `runLoadCachedHit`,
`runLoadCachedMiss`), `finishConstEval` (which stores in the cache) and
`finishProgram`. Contents are terms over the client's data and the device, so
that two results are equal only if the same computation made them; the
reference for a submission is `ProgramValue`, which knows nothing of pools,
storages or caches. `ttnn::deallocate` is external: without force it frees a
storage only if no other tensor shares it.

`OverwriteShared` says whether the client overwrites (by `memcpy` or by an
in-place program) tensors that the cache has recorded a version or a copy of.
With it the cache is not transparent (section 5), so the passing run goes
without and the run `overwrite` with it.

What the theorems suppose of the programs are definitions, not assumptions of
the model; `MCProgramExecutor` has TLC evaluate them on the run's programs.

* `ProgramsInSSAForm` is what the pass gets: the IR's verifier and
  `ConstEvalHoist` guarantee that each value is defined once and before its uses,
  that operations have the operands and results of their kind, and that a
  const-eval function calls none and returns no parameter.
* `ProgramsWellFormed` is what the executor relies on after the pass: no value is
  used after its deallocate, none is deallocated twice or returned freed, and a
  const-eval function frees no parameter. It is no hypothesis: `DeallocateProofs`
  derives it from the first.
* `ProgramsWriteSeparate`, for `CacheIsTransparent` only: a function writes only
  inputs of the program, and none that an operation before the write views or
  that `load_cached` takes. The patterns that make the in-place operations
  (`UpdateCacheOpConversionPattern` and `FillCacheOpConversionPattern`,
  `TTIRToTTNN.cpp:514` and `:552`) refuse one that is not the only user of its
  cache tensor, which leaves no other view and no `load_cached`; that the tensor is
  an input, not a constant, a model parameter or itself a view, is how these
  operations are used and not checked there.

### ConstEvalHoist, ConstEvalHoistProofs

The block is chosen operation by operation as the walk of the analysis reaches
it (`processOp`, `skipOp`), so all blocks up to a length are covered, with the
union-find structure, path compression and ranks included. The subgraphs that
an operation depends on are merged in any order: the code keeps them in a
`SmallSet`, which is in order of insertion or sorted, as its size decides. Then
`createConstEvalFunction` hoists one subgraph at a time in any order (a
`DenseMap` decides in the code), and `undoConstEvalImpl` inlines everything
again. The reference is `ConstantGiven`: what is hoisted is the set of the
operations whose operands are constant given that set. As an operation comes
after its operands there is only one.

### Allocate, AllocateProofs

`matchAndRewrite` is the greedy driver's step on one generic op, in any order;
`streamsDone` its fixed point. Then every function is walked with a fresh
allocator: `visitAlloc`, `visitGeneric`, `visitStorage`, `nextFunc`. `allocate`
includes the assert, which ends the pass unless `NDEBUG`. Sizes are inputs.

### ModelRunner, ModelRunnerProofs

One action per read or write of a field of the singleton: a request thread's
`run` is a chain from the two reads of `is_busy()` (`checkThread`, `checkAlive`)
through `reset_state`, whose assertion reads twice as well, and its five
assignments to `newThread` and `startThread`; a status check reads done (two reads
again, the second of which raises when a reset came between), the logs, the
progress and the error one after the other; the runner thread goes through
`prepare`, `compile`, `translate`, `perf` and `fullProgress`, or by an exception into
`setError` (and `logError`, when it is no `ExplorerRunException`), and ends with
`finally` and `exit`. A run's error is its number, or `EmptyError` where the code
raises an `ExplorerRunException` without a message. Output directories are a
function of the model's path that need not be injective, as the code names them
after the file (`OutputDir`). The subprocesses and the file system are external.

### TensorLayout, ToLayout, LayoutConverter, DecomposeLayouts, LayoutConversion, LayoutConversionProofs

A tensor is a descriptor: memory (system memory, DRAM, L1 interleaved or sharded
on a grid), tilized or not, data type. `TensorLayout` says what each ttnn
operation makes of a descriptor and on which it can be called (external, from
the restrictions both converters observe).

`LayoutConverter` is the runtime's converter. `convertTensorLayout` picks the
handler (eight of them: host or device input, with or without layout change and
typecast), whose sequence of `...IfNeeded` calls `step` then executes; `fatal`
is `LOG_FATAL`. `DecomposeLayouts` is the compiler's: the canonicalizer folds
and merges `to_layout` ops in any order its worklist may have (`foldToLayout`,
`mergeToLayouts`), then each remaining one is replaced by what its handler
creates, op by op (`createLayoutConversionOps`, `createOp`, `replaceToLayout`),
and `finishPass` is the pass' failure or success. A `to_layout` whose type is on
the device always has a device operand: `TTIRToTTNN.cpp:224`, `TransformUtils.cpp:94`
and the optimizer make it so, and a merge takes operand and type from the same op
(`TTNNOps.cpp:1470`). The check for a missing device (`TTNNDecomposeLayouts.cpp:985`) can
therefore not fail on what these passes make, and is left out. `LayoutConversion` composes the two
with the executor: compile a function, convert the caller's tensor, submit,
run the created ops.

`ToLayout` is what a conversion promises: in one step the tensor has the wanted
descriptor, or it is refused, exactly when `Unsupported`. `Promise == INSTANCE
ToLayout` maps the converter's many steps to that one; a conversion under way
maps to `pending`.

### OpGraph, Scheduler, L1ChainConfig, ShardSolver, the policies, Optimizer, OptimizerProofs

`OpGraph` is the IR as the optimizer sees it: numbered ops with a kind, operands
and a result layout, and the order of each function's block. `Scheduler` is the
ready list; a hash set orders it in the code, so every order is possible here.
`L1ChainConfig` is the chain's state machine.

A result's layout is DRAM, the host, or one of the numbers of layouts. A `to_layout`
to DRAM has its own layout as its only config and is analyzed like an op, one to
the host is not (`isAnalyzable`).

* `DFShardingPolicy`: `scheduleRound` is one round of the scheduling loop (the
  op is skipped, extends the chain or ends it), `nextFunc` the walk; then each
  chain is resolved (`resolveWithSolver` ... `chainCompleted`). Whether two
  results fit in L1 depends on sizes that are left out: ending a chain is always
  possible.
* `ShardSolver`: `preprocessFirstOp`, `resolveEdge` (one edge of `resolveStep`,
  with the reshard when there is no path), `process` and `updateRound` (one round
  of the two work lists), `set`, `produceMaxCoreUsage`. A bitset is a set of
  numbers up to `kNumBitsetBits`, which is more than the `K` configs there are,
  as in the code. The op model is external: each time it is asked, any answer is
  possible, and `accepted` remembers what it allowed.
* `BFInterleavedPolicy`: `scheduleLeastChange`, `finishFunc`, with unsigned
  words of `WordBits` bits, because `allocOfL1Mem - deallocOfL1Mem` wraps.
* `GreedyL1InterleavedPolicy`: `scheduleGreedily` (an op of a round, with any
  of the best masks and precedences, which pointer order decides in the code),
  `nextRound`, `completeFunc` with the depth-first `buildSchedule`.
* `Optimizer`: `applyAnalysis` (order, types, collected result types),
  `processMemReconfigEdges` (one entry, in the order of a hash map),
  `processSpillOp`, `setFuncType`, function by function; without
  `memReconfigEnabled` no reshard is inserted. `overrideInputLayout` is a set of
  pairs of an op and an operand; `extractReshardEdges` and `overridesFound` make
  edges of them and compare the numbers, as the pass does before it begins.

An assertion of the code that fails leads to phase `abort`; `AssertionsHold`
says that it is not reached.

## 3. Runs

| Run | Instance | Shows |
|---|---|---|
| `column` | 3x1 grid, three operands (multicast, plain DMA because its reduction dimension has size 1, local), 2 iterations, fair | `McastIntoReserved`: multicast data is in flight only to a receiver that has reserved its CB for that iteration; `NoIncrementLost`, `NoFinishedLost`: no reset of a semaphore wipes out a signal of the next iteration; `NeverStuck`: threads do not wait in a circle; `StableWhileAwaited`; `ImplementsGenericOp` (refinement with fairness); `Termination` |
| `runtime` | 4 programs, 2 devices, 2 contents, 5 client calls and 2 submissions | `OperandsAlive`, `CacheTransparent`, `PoolEmptied`, `InputsFreed`, `RetainedSurvive` |
| `block` | all blocks of up to 3 operations of every kind; all blocks of up to 5 constant operations | `HoistsAllConstants`, `FuncsSelfContained`, `BlockDominance`, `UndoRestores`; `HoistedTogether`, which needs the longer blocks |
| `module` | all functions of up to 4 ops, followed by another | `TypeOK`, `BuffersDisjoint`, `BuffersInBounds`, `EveryBufferPlaced` |
| `poller` | a thread that starts two runs, of any of three models, two of which have the same file name and one is a flatbuffer; a thread that polls once | `StatusHonest`, `ArtifactsMatch`, `RunsEnd`, `PollsReturn` |
| `layouts` | all pairs of 30 descriptors for one conversion; for two, intermediate types in system memory, DRAM and sharded L1 | `OpsSupported`, `TensorsMatchTypes`, `OnlyMemoryConfigDropped`, `NoRedundantToLayout`, `ConverterImplementsToLayout` (refinement of `ToLayout`) |
| `optimizer` | functions of 3 and 4 ops, trees of 6, two functions; 2 configs per op, 3 layouts, 3 bits; L1 of 6 units and results of 1, 2 or 4 | `AssertionsHold`, `ChainsConsecutive`, `InputsAsValidated`, `Dominance`, `FirstResultScheduled`, `ResultTypesMatch`, `MaximisesCoreUsage`, `L1UsageExact`, `GreedyFitsL1`, `Terminates` |
| `overwrite`, `oom`, `replace`, `functions`, `executors` | see section 5 | violations of what the code's comments and assertions say |

The type invariant of `Allocate` is checked and proved, those of `GatherMcast` and
`ProgramExecutor` are proved, and elsewhere types are a part of the inductive
invariants. The
runs of `GatherMcast`, `Allocate` and `Optimizer` check for deadlock (the end is
an explicit stuttering step there; the other models stop when their bounds are
used up, or when the tensor has been converted).

### The bounds, and why they are enough

* **Grids.** The protocol of one operand concerns one sender and its
  receivers; two receivers are enough for one to be late while another is
  ready. The column has three datamovement threads per core, as many as it has
  operands: `NumDatamovementThreads` comes from the chip descriptor. It multicasts
  one operand only. That a core sends one operand and receives another, along rows
  and columns, which takes a 2x2 grid, is left to the theorems: all of the
  properties but the fairness half of refinement and termination are proved for every
  grid, `NeverStuck` among them. Two iterations are needed
  for a signal to be taken for the previous one; a receiver can be at most one
  iteration behind its sender (that is `ReceiverInv`, which is proved).
* **Runtime.** `MaxHeld` 2 gives every program its two inputs, which may
  be two handles to one storage; five calls are enough to make two tensors, retain or convert one and
  interfere between two submissions, and the second submission is the one that
  hits the cache. A third would start from a cache that a second can also leave.
  The programs free a cached tensor, return a cached view of an input, return an
  input, write one in place, and free a view together with the input it is of:
  in the last case neither deallocate is the one of the storage's last tensor, so
  the input stays allocated, the one exception that `InputsFreed` makes.
* **Blocks.** Three operations with two operands cover each pair of a creation
  or shared op with users inside and outside a subgraph; five constant
  operations are the least with which an id that is no longer a root is merged
  again (a mutation that links ids instead of roots is only found there).
* **Allocation.** Sizes 0, 3 and 8 are the empty, the unaligned and the
  aligned one; four of them reach the end of both spaces.
* **Layouts.** The handlers test only where a tensor is, its layout, whether
  its type is bfloat16 and whether two memories, grids or types differ; two
  grids and two types besides bfloat16 give every outcome of the tests. A second
  `to_layout` is the least that can be folded, merged, or meet the replacement
  of another.
* **Optimizer.** Three ops of which two are special give every fork, join and
  repeated operand next to a chain; four give chains of three ops, in which a
  selection at one end has to propagate to the other. Two configs are enough for
  one to die, one spare bit for the bits that stand for no config, and one
  layout that is no config for reshards from other layouts. Six ops are the least
  for a greedy decision that takes the L1 a sibling's subtree needs into account;
  three more functions (`MCLaterResult`, `MCNoChoice`, `MCThroughLayout`) have ops that
  only a later result needs, an operand that needs all of L1, and an op that needs
  less than the DRAM `to_layout` it reads, whose need the op has to count.
* **ModelRunner.** A second run is needed for anything stale to be seen, and for a
  directory to be taken by another model. One poll can begin in the first run and
  end in the second; polls share nothing but the log queue with each other, and the
  number of them is no bound of the theorems.

### Fairness

* `GatherMcast`: weak fairness of each datamovement thread, each compute thread
  and each NoC transaction. Each thread has a RISC-V processor to itself and
  spins on its waits, so it runs whenever it can; the NoC delivers. No strong
  fairness is needed, as no condition that a thread waits for is withdrawn by
  another.
* `ModelRunner`: weak fairness of each request thread and of the runner thread:
  the interpreter schedules all threads, and subprocesses end. That a frontend
  ever sends another request is not assumed.
* `Optimizer`: weak fairness of `Next`. The pass is sequential code on one
  thread; it goes on until it returns.

## 4. Theorems

### GatherMcastProofs

For every grid, number of operands, choice of iterators and streams, and trip
count, from the assumptions of the module only: `TypeCorrect`, `McastSafe`
(`McastIntoReserved`), `ReadySafe` (`NoIncrementLost`), `FinishedSafe`
(`NoFinishedLost`), `AwaitedIsStable` (`StableWhileAwaited`) and
`RefinesGenericOp` (`Spec => Promise!Spec`, the safety half of
`ImplementsGenericOp`), and `DeadlockFree` (`NeverStuck`).

None of the properties is inductive: each speaks about one moment of the
handshake. `IInv` describes all moments of it:

* `CBInv`: the distance between a datamovement thread's iteration and the
  compute thread's is the number of blocks in the CB, and what is in the CB is
  the block of that iteration;
* `ComputeInv`: what has been awaited is there, and `out` is the sequence of
  blocks wanted so far;
* `QuietInv`: cores that are not receivers have no transactions under way;
* `ReceiverInv`: a receiver is either *in step* with its sender (same
  iteration, no announcement anywhere) or *behind* (the sender has gone on to
  the next iteration, and exactly one announcement is in flight or has landed).
  This is the heart: it says that the two ends differ by at most one iteration
  and in which of the two semaphores the difference is stored;
* `ReadyInv`: the value of `receiversReady` is the number of receivers whose
  increment for this iteration has arrived. Together with
  `NumberOfReceivers` (the receivers of a sender are `mcastVolume - 1`, by a
  bijection with an interval) it gives: when the sender's wait passes, *all*
  receivers have reserved their CBs.

The lemmas `<Action>IInv` show that each action preserves `IInv`. For the
refinement, a `Compute` step of the kernels is an `Iterate` step of the generic
op, by `ComputeInv`, and every other step leaves `out` unchanged.

`DeadlockFree` takes a state in which all threads wait and nothing is in flight
(`WaitingThreads` says what is left of `IInv` there) and looks at a core whose compute
thread has done the least iterations, m. Unless all is done, it waits for an operand
whose datamovement thread is in iteration m and waits for a semaphore, and so is
the sender of that operand, by `ReceiverInv`. The sender waits for a receiver,
which is in iteration m too: its CB is empty, as its compute thread would otherwise
be behind all others, and so it is not waiting for compute and has signalled. Rows
and columns cannot block each other, as m is the same for all of them. `NeverStuck`
names the conditions that the threads wait for (`DMCanGo`, `ComputeCanGo`) because
`ENABLED` is out of the provers' reach; TLC's deadlock check in the run `column` is
independent of them.

### AllocateProofs

For every chip descriptor and every set of modules: `TypeCorrect` (in
particular at most one storage per operand, so the driver stops),
`DisjointSafe` (`BuffersDisjoint`), `BoundsSafe` (`BuffersInBounds`) and
`PlacementComplete` (`EveryBufferPlaced`). The invariant adds `BelowCurrPtr` (all
buffers of the current function end at or below the bump pointer, none belongs
to a later function), `AboveBase`, and `StorageHasStream` (an operand that has a
storage is a stream and does not need one again). `AlignUp` is the only
arithmetic. For completeness `CompleteInv` says which buffers the walk has
passed (all of earlier functions, those before the walk's position, and the
storages before the position within a generic), and that exactly those on the
device have an address; `WalkComplete` proves it.

### DeallocateProofs

`DeallocationSafe`: for functions in SSA form of any length, with any number of
operands, results and uses, what `TTNNDeallocate` compiles is well formed.

The pass's output is a concatenation of one chunk per operation, the operation
and the deallocations inserted after it, each chunk itself a concatenation. The
library says nothing of `FlattenSeq`, so the lemmas come first: `FlattenOffsets`
(by `Induct`, over the number of sequences) gives offsets by which each element
has one position and each position one element. From there `CompiledSource`: there is a
map `src` from positions of the compiled body to operations of the source, which
grows by one where the position has a source operation, and stays where it has a
deallocation of a value that the function owns and last uses at operation
`src[i]`; each deallocation occurs once (`CompiledAs`). By induction over
positions, what is defined at position i of the compiled body is what was defined
at `src[i]` (`CompiledDefined`). A value whose last use comes after `src[i]` has not
been deallocated (`DeallocatesLast`), so it is still live (`CompiledLive`): all
operands of an operation are.

### ProgramExecutorProofs

For every binary made of functions in SSA form, any number of devices, tensors,
calls and submissions, and whether or not the client overwrites tensors:
`TypeCorrect` (`TypeOK`), `OperandsStayAlive` (`OperandsAlive`), `RetainedStay`
(`RetainedSurvive`) and `PoolsEmptied` (`PoolEmptied`). They follow from
`ExecutorSafe`: `ExecutorInv` is inductive.

That the operands of the *next* operation are allocated says nothing about
those of the operation after it, and which deallocates are harmless depends on
who else has the tensor. `ExecutorInv` therefore says of each executor on the
stack that its pool holds exactly the values live at its program counter
(`liveBefore`, from the function alone) and that all of them are allocated, and
it says who may share what:

* two values of one pool are the same wrapper only if it is retained (the
  client passed it twice), so a deallocate never frees a wrapper that is still
  in the pool under another name (`ProgramOwns`);
* the parameters of a nested const-eval function are values of its caller, and
  nothing frees them there; what it computes are wrappers that no other value,
  of its own or of its caller, is (`ConstEvalOwns`), and only those are freed.

`CacheSafe` (`CachedInv`, from `ExecutorInv`) adds the cache: what it has is
allocated, and neither the client nor a pool has those wrappers. The results of
`load_cached` are other wrappers of the same storages, and `ttnn::deallocate`
without force does not free a storage that two wrappers have. What a const-eval
function has computed so far is not the client's either, so its outputs are the
cache's alone when it returns. `OperandsStayAlive` needs both invariants: its
last part is that a cache hit finds allocated tensors.

`Settle`, the destruction of wrappers nobody refers to, ends every action; the
lemmas about `Referenced` and `Restrict` say what survives it.

`PoolsEmptied` combines the two modules: a pool is `liveBefore` at the program
counter, and at the end of a compiled function nothing is live but what it
returns and, of a const-eval function, its parameters.

`CacheIsTransparent` (`CacheTransparent`) adds `ProgramsWriteSeparate` and
`OverwriteShared = FALSE` to the hypotheses. The reference for a submission,
`ProgramValue`, is the last of a sequence of environments, one per operation,
that uses the values of the const-eval functions and no cache.
`CompiledProgramValues` says that the compiled program, position by position,
computes the environments of the source at `src`. `ValuesInv` relates the two executions:

* each executor's pool has, through wrappers and storages, the contents of the
  environment at its program counter (`PoolHolds`). A pool has fewer values than
  the environment, those not yet deallocated, so this is an inclusion;
* a nested const-eval function runs on the contents that its caller has
  (`NestedValues`);
* a cache entry is the value of its const-eval function on some contents, and
  each tensor whose version it has recorded still has those contents if it
  exists (`EntryValues`). Versions are the names of wrappers, as no runtime call
  increments one, so a hit compares exactly the wrappers (`VersionInv`);
* what a program is still going to write shares its storage with no other value
  of its pool, with no output in the cache, and with no tensor whose version an
  entry has recorded (`Separate`, `NestedSeparate`).

The last part is what the other three need to survive `runInplace` and `memcpy`,
and it is not preserved alone: an operation before the write could view the
tensor or cache it (excluded by `ProgramsWriteSeparate`), and a client could pass
one storage twice, or one shared with the cache (the guard of `submit`). A new
wrapper is no danger, as a recorded version is always older than
`latestVersion`.

### ConstEvalHoistProofs

For every function of one block, of any length and with any number of operands
and arguments, and every order in which `SmallSet` and `DenseMap` yield their
elements: `AllConstantsHoisted` (`HoistsAllConstants`), `NoOutOfScopeValue`
(`FuncsSelfContained`), `BlockStaysDominated` (`BlockDominance`),
`DependentsHoistedTogether` (`HoistedTogether`) and `UndoGivesBack`
(`UndoRestores`), each from `PassInvariant`.

The operators of the pass are recursive, and so the proof is by induction, which
the provers do not do by themselves. `LeastNumber` (a set of naturals has a least
element) follows from the well-foundedness theorems of the library, and `Induct`
from it: a set that has 0, and with n also n + 1, has all naturals. On these rest

* `InOrder`: the list of a finite set of operations in block order exists, and
  is ascending and complete;
* `ForestInduct`: in a union-find structure whose ranks grow towards the roots
  (`Forest`) what passes from parents to children holds of all ids. Then each id
  has one root (`RootsExist`, `RootsUnique`), `rootIn` finds it (`RootIn`), path
  compression leaves it (`FindRoot`), `linkRoots` and `unionSubgraphs` join two
  classes and keep the others (`LinkRoots`, `UnionSubgraphs`, `Coarser`), and
  `mergedSubgraphs` joins all of a list;
* `FlattenSegments`: in the concatenation of the functions' bodies each body is
  a segment, and there is nothing else.

`Analysis` is the invariant of the walk: `SubgraphsClosed` says that an operand
of an operation in a subgraph is a parameter recorded under the id that the
operation had at the time, a shared op, or in the same subgraph by its present
root, which is what stale ids could break; `CreationUsed` and
`OthersNotConstant` that neither too much nor too little is taken.
`HoistState` is the invariant of the transform: each function holds one subgraph
and returns what is used outside it, the functions are disjoint, and the rest is
still in order. `UndoneBlock` adds that the first clone of a shared op comes
before all the uses of any.

### LayoutConversionProofs

For every set of data types, grids and sharded memories, and functions of any
length: `ConverterCorrect` (`ConverterImplementsToLayout`: the refinement of
`ToLayout` by the runtime's converter), `OperationsSupported` (`OpsSupported`),
`ResultTypesRight` (`TensorsMatchTypes`), `ReplacementsRight`
(`OnlyMemoryConfigDropped`) and `PassFailsOnlyAfterDrop` (`NoRedundantToLayout`).

`ConverterInv` says, while a handler runs, that each component of the tensor's
descriptor (memory, layout, data type) is the wanted one if the step for it has
been taken and the given one if not: this is what the returned descriptor
follows from, and what the device can do with the tensor at each step.
`CompilerInv` says the same of the op sequence under construction in the pass,
with the operand types it goes through, of the ops created earlier and of the
replacements; `RunInv` that the tensor is what the type of the last op run says.
The proof goes through the handlers' lists step by step, sixteen of them.

### ModelRunnerProofs

For any number of models, runs and pollers, and whichever models share a
directory: `HonestStatus` (`StatusHonest`) and `ArtifactsOfTheRun`
(`ArtifactsMatch`), both under `SingleExecutor`: one request thread sends execute
requests, as the frontend does. The code does not enforce it. With two such threads
there are two live runner threads (run `executors`), which share all fields, and no
status can be trusted; that only one run is alive at a time is a consequence of
the hypothesis and no theorem here. `ArtifactsMatch` allows for what the directories'
names allow: the artifacts of a model's run are there unless a *later* run of
another model with the *same file name* took the directory.

`RunnerInv` follows a run through the request thread's chain: between
`checkThread` and `startThread` no thread is alive, so what `reset_state` clears
is nobody's; from then on only the runner thread writes error and progress,
error before progress and both before it ends. A poll that has read "done"
therefore read it after the last write, and its later reads, if no reset came
between, give the values of that run.

### OptimizerProofs

For every module the policies may be run on and whatever order the ready ops
come out of the hash set:

* `ChainsStayConsecutive` (`ChainsConsecutive`, from `PolicyInvariant`): an op of
  a chain has one use, and its user is the next op of the schedule. `DFInv` needs,
  besides the chains' ops (`FollowedInv`), what the loop knows between two rounds
  (`CurrentInv`): when the last scheduled op is in a chain, the current op is its
  only user, is not yet scheduled, and the open chain is not empty. The next
  round therefore considers the current op only, and nothing can come between.
  When a chain ends, the current op is cleared together with the reason to keep
  it. With several functions, `ScheduleInv` keeps the later schedules empty, so
  that the chains of one function say nothing about those of the next.
* `UsageStaysExact` (`L1UsageExact`): the running usage is the size of the
  results in L1 that still have a use to come, and never above the budget.
  `UsageInv` gives the entries of the map (the chain's ops with uses left, each
  with the number of these uses) and their sum; `DependenciesInv` says that what
  an op depends on is scheduled before it, so that all uses of an op about to be
  scheduled are still to come and its count starts right. A step splits the sum
  into what is freed, what stays and what is added; the difference does not wrap,
  because what is freed is part of the sum. The lemmas on `FoldSet` (it is the sum
  in whatever order, removing and splitting) are proved by induction on the
  cardinality, with sets of numbers in place of an induction predicate.
  The hypothesis `ResultsAreUsed` excludes dead ops: the policy would never
  release the result of one, and its count would differ from the uses to come.
  All modules of the run have it.
* `ResultTypesStay` (`ResultTypesMatch`): when the pass is done, the type of each
  function is that of the values its return reads, with any policy, any overrides
  and whatever the backend answers, although the types are collected before the
  reshards and the spills go in. `ResultsInv` carries the reason from the policies
  to the rewrite: no edge that a chain, the solver or the user wants resharded ends
  at a return or starts at a `to_layout` that is returned (`edgeFine`), and no chain
  that is spilled ends with a returned op (`opFine`). An op joins a chain only
  when its single user has L1 configs, so it is not returned (`JoinsFine`); the
  solver reshards operands of the chain's ops only, the next edge of an op and, when
  a chain is started, the first operand of its first op, which exists because only
  a chain with ops is ever Built. The interleaved policies ask for neither. Each
  rewrite keeps the returns, their operands and the layouts of these (`KeepsReturns`,
  `ReturnsStay`, `TypesStay`), so that a function that has its type keeps it while
  the following ones are rewritten (`TypesInv`). In a run that reaches `abort` the
  property says nothing.
  The hypothesis `ModulesWellFormed` says what the earlier passes leave and an
  override may name: one return per function, of values of its own; a `to_layout`
  in front of a return has no other user (`TTNNLayout` makes one per returned value;
  with another user a reshard in place would change the returned type); only returns
  read a `to_layout` to the host; ops with L1 configs have an operand; overrides name
  operands that exist, and none of a return. TLC evaluates it
  on the modules of all runs of `MCOptimizer` (`WellFormedInstance`).

### Assumptions

Besides those already named for `GatherMcast` and `Allocate`: `BoundsAssumption`
(the model's bounds are natural numbers), `ErrorAssumption` (`NoError` is neither
the number of a run nor `EmptyError`), `RunsAssumption` (flatbuffers are models, and
each model has a directory), `PoliciesAssumption`, `MemReconfigAssumption` (a Boolean),
`GraphsAssumption` (the ops are numbered through the
module, one function after the other, and start in DRAM or, a `to_layout`, on the host), `WordAssumption`
(sizes and budget are words, and every op the policy analyzes has a size), `FuncBoundsAssumption` (a function has finitely many
arguments, numbered below 0, and the three kinds of operation) and
`MaxOperandsAssumption` (a natural number). TLC evaluates all of them in the runs.

### Only model-checked

* Liveness (`Termination`, `RunsEnd`, `PollsReturn`, `Terminates`, the fairness
  in `ImplementsGenericOp`): TLAPS handles neither fairness nor `ENABLED`.
* `InputsFreed`: it is about the moment at which a storage had its last tensor,
  and its comment names a case outside the instances (an entry shared the storage
  at the input's last use and was replaced afterwards) that would have to be part
  of the statement first.
* The rest of the optimizer. `AssertionsHold`, `InputsAsValidated` and
  `MaximisesCoreUsage` rest on the solver: that its propagation keeps every
  remaining config on a full path through the chain is a statement about all
  paths at once. `GreedyFitsL1`, `FirstResultScheduled` and `Dominance` rest on the greedy
  policy's recursive schedule, `Dominance` also on positions in filtered and edited blocks
  (`SelectSeq`), of which the provers know nothing.

## 5. Findings

| Run | Code | What it does | What is said |
|---|---|---|---|
| `overwrite` | `runtime.cpp:599` | `memcpy` changes contents and not the version (nothing calls `updateVersion`), so the next submission uses the stale const-eval result | "When input tensor versions change, the cached outputs need to be recomputed." (`tensor_cache.h:29`) |
| `oom` | `Allocate.cpp:277` | the size of a space is added to its base although it is counted from zero, so buffers may reach into the L1 scratch region or past the DRAM channel before the assert fires | "out-of-memory condition will result in hard assert failure." (`Allocate.cpp:268`) |
| `replace` | `TTNNDecomposeLayouts.cpp:843` | a device to device `to_layout` that untilizes, casts to bfloat16 and changes the memory config is decomposed without the `to_memory_config` | the op "wraps all layout information" and is "later broken down into specific memory/layout operations" (`TTNNOps.td:59-60`) |
| `functions` | `L1ChainConfig.cpp:31` | with two functions the empty chain that the first leaves behind reaches `resolveWithSolver` unbuilt; `BFInterleavedPolicy` builds the chains of earlier functions again | "Built: L1 chain is built, but not resolved yet. ShardSolver can be run." (`L1ChainConfig.h:36`) and the assert |
| `executors` | `runner.py:368` | two execute requests both pass the check before either has started its thread, and two runs share the fields | "Ensuring only one can be run at a time." (`runner.py:38`) |

The following contradict what the code says as well; the models have the same
outcomes, but no run is given to them:

* `TensorCache::remove` asserts that the key is *absent* (`tensor_cache.h:107`, "Outer
  key not found in remove() call!"). The action `removeFromCache` has that outcome.
* An override of an operand whose producer is in the same chain ends the pass:
  `resolveStep` reads `memReconfigMap.at(edge)` (`ShardSolver.cpp:151`), an entry
  that only `insertReshard` makes. `TTNNPipelines.h:33` promises "one memory reconfig
  op responsible for resharding the op1's first operand".
* So does an override of two operands of one op, as in the example at
  `TTNNPipelines.h:31`: the number of overridden *ops* is asserted to be that of the
  overridden *edges* (`Optimizer.cpp:520`).
* `precedenceMap` "contains the order in which operands need to be executed for each
  op" (`GreedyL1InterleavedPolicy.h:97`), but an operand in L1 that needs exactly all of
  L1 is in none: `minRequiredL1Usage` starts there and is compared with `<`
  (`GreedyL1InterleavedPolicy.cpp:101`), so that no choice is made. The operand is not
  scheduled, and ops that read it are moved before it.
* The greedy schedule is built from the first returned value only
  (`GreedyL1InterleavedPolicy.h:119`). Ops that another result needs keep their place
  while the ops they read move behind them.
* `ModelState` keeps "track of all additional data that was created"
  (`runner.py:25`) per model path, but directories are named after the file without its
  path (`runner.py:214`): a run removes the artifacts of another model of that name, whose
  `ModelState` still leads there.

What the optimizer's properties leave out, because the code does differ there: `InputsAsValidated` says
nothing of operands the user overrides, of a `to_layout` with several users that
is resharded in place, and of an op that reads the resharded value twice
(`notAsValidated`). `Dominance` and `GreedyFitsL1` exclude schedules from which the
greedy policy loses ops (`scheduleIncomplete`); `FirstResultScheduled` says which
these can be: what the first result depends on is always scheduled, unless an operand
on the way needs all of L1 (`requiresAllOfL1`). The functions of the run have both kinds of
lost ops. Its overrides (`MCOverrides`) are of one operand, and of none inside a chain.
`OnlyMemoryConfigDropped` and `NoRedundantToLayout`
except the conversions that the run `replace` is about.

`NoRedundantToLayout` speaks of pipelines in which nothing runs between the
canonicalization of `to_layout` and its decomposition. With the optimizer or const-eval
hoisting in between (`TTNNPipelines.cpp:145-155`) there are `to_layout` ops that no
canonicalizer has seen, which the property does not cover. In those pipelines an L1
interleaved tensor can also have a grid other than 1x1
(`AllPossibleLayoutsAnalysis.cpp:95`), which `TensorLayout` leaves out; the
decisions modelled here compare the grids of sharded tensors only.

### Known, without a property

What was met in the code while modelling it, contradicts no stated promise, and
is worth knowing when it is changed:

* `ModelRunner`: a poll between the assignment of `runner_thread` and `start()`
  sees a run that is "done" (`runner.py:377`); a status read across a reset
  combines two runs (`StatusHonest` therefore speaks of statuses of one run); with
  two pollers one can take the log line that the other is about to `get()`.
* Kernels: the multicast goes from the CB's read pointer to its write pointer
  (`TTIRToTTKernel.cpp:452`), which coincide for one-buffer CBs only;
  `noc_semaphore_set_multicast` gets the full multicast volume as its number of
  destinations, the data multicast one less (`TTIRToTTKernel.cpp:886`).
* Runtime: `gatherOutputTensors` clears the retain flag of a returned input
  (`types.cpp:148`); one handle passed for two inputs is freed under the second
  (`runtime.cpp:859`, excluded by the guard of `submit`); `getOpOutputTensor` has
  no case for `LoadCachedOp` (`runtime.cpp:841`).
* Allocation: every function starts again at the base, so that buffers of two
  functions share addresses (`Allocate.cpp:240`).
* Layouts: the comment at `TTNNDecomposeLayouts.cpp:972` says "bfloat16 or
  float32" and that untilizing is always on the host; the code tilizes and
  untilizes bfloat16 on the device.
* Optimizer: an override of an operand that is an
  argument dereferences null (`DFShardingPolicy.cpp:154`); ops of other dialects
  are not moved with the schedule (`Optimizer.cpp:314`); reshards and spills of all
  functions are applied once per function (`Optimizer.cpp:430`, hidden by the
  assert of `functions`); `1 << numOfOps` overflows from 31 operands in L1 on
  (`GreedyL1InterleavedPolicy.cpp:30`); `changeInL1Usage` wraps around for an op
  that frees more than it allocates (`BFInterleavedPolicy.cpp:70`; in the model:
  the schedule is worse, not wrong).

## 6. Not modelled, and why

* Pattern rewrites of single operations, verifiers, type conversion: no state
  and no order; their correctness is tensor arithmetic.
* Flatbuffer serialisation, dylibs, system descriptors, device opening, memory
  and performance reports: I/O.
* Two threads submitting at the same time: executor and cache have no locks and
  no claim to be safe for it.
* `LegalLayoutAnalysis` enumerates layouts for tensor shapes, and the op model
  asks the device library: the optimizer's model takes their results as inputs.
* Block data formats in the layout conversions, for which element type and data
  type differ, tensor shapes and mesh shardings.
* CBs with more than one buffer: the allocation pass makes none.
* Multiple functions calling each other and sharing device addresses: the
  allocator is per function and the code does not say what may be live at once.
* Names, attributes, types, statistics, logging text.

## 7. Plan

Done: `GatherMcast` with `GenericOp` and their proofs; `Deallocate` composed
with `ProgramExecutor`; `ConstEvalHoist`; `Allocate` and its proofs;
`ModelRunner`; the layout conversions with the abstract `ToLayout`; the
scheduler, the three memory layout policies with chains and solver, and the
optimizer that applies their result.

The proofs of `LayoutConversion`, `ModelRunner`, `ProgramExecutor` and
`ConstEvalHoist`, of `EveryBufferPlaced`, and of `ChainsConsecutive`,
`L1UsageExact` and `ResultTypesMatch` of the optimizer are done as well, and so are `TTNNDeallocate` and
the transparency of the const-eval cache.

Next, proving more:

1. `Dominance`, for the two policies whose schedule comes from the `Scheduler`; it
   needs facts about edited blocks.
2. `InputsFreed`, once its exception says when the cache shared a storage.

And modelling more:

1. `CQExecutor` (`runtime/lib/ttmetal/executor.cpp`): commands, buffers and
   events; every wait has its record, buffers outlive the programs using them.
2. `LowerDMAs` (`GenericLowerDMAs.cpp`): coalescing against element-wise access.
3. `HoistCPUOps`: which functions share a hoisted definition.
