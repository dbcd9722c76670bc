-------------------------- MODULE ProgramExecutor --------------------------
(***************************************************************************)
(* The TTNN runtime: tensors and their handles, the program executor with  *)
(* its tensor pool, and the cache of const-eval results.                   *)
(*                                                                         *)
(* A ttnn::Tensor refers to a storage, which copies of the tensor share.   *)
(* The runtime puts each tensor in a TTNNTensorWrapper with a retain flag  *)
(* and a version; handles to one wrapper are shared by the client, by the  *)
(* pool of a running program and by the cache.  A wrapper nobody refers to *)
(* is destroyed, and with its last tensor a storage is released.           *)
(*                                                                         *)
(* The client creates, converts, overwrites and frees tensors between      *)
(* submissions.  A submission runs a compiled program: a tt.load_cached    *)
(* operation in it either takes its results from the cache or runs the     *)
(* const-eval function in a nested executor and caches what it returns.    *)
(***************************************************************************)
EXTENDS Deallocate, FiniteSets, Functions

CONSTANTS
    Programs,       \* the binary's functions, before deallocation is inserted
    ConstEval,      \* callee name -> const-eval function
    Devices,        \* ids of the mesh devices
    Data,           \* contents of the tensors the client creates
    NDEBUG,         \* whether assert() is compiled out
    OverwriteShared,\* whether the client has tensors overwritten that the
                    \* cache holds a version or a copy of, or that it passes
                    \* twice
    MaxHeld,        \* bound on the handles the client makes
    MaxCalls,       \* bound on the client's calls other than submit
    MaxSubmits      \* bound on submissions

ASSUME BoundsAssumption ==
    /\ {MaxHeld, MaxCalls, MaxSubmits} \subseteq Nat
    /\ NDEBUG \in BOOLEAN

VARIABLES
    wrapper,        \* TTNNTensorWrapper objects
    storage,        \* storages that some tensor refers to
    latestVersion,
    held,           \* the wrappers that the client has a handle to
    cache,          \* TensorCache: key -> CacheValue
    stack,          \* executors, the innermost last
    calls,          \* the client's calls so far
    submits,
    agreed,         \* every program so far produced what it promised
    aborted         \* a failed assert() has stopped the process

vars == <<wrapper, storage, latestVersion, held, cache, stack, calls,
          submits, agreed, aborted>>

-----------------------------------------------------------------------------
\* f with x bound to e; and f with the bindings of g, which take precedence.
With(f, x, e) == [y \in DOMAIN f \cup {x} |-> IF y = x THEN e ELSE f[y]]
Overlay(g, f) ==
    [y \in DOMAIN g \cup DOMAIN f |-> IF y \in DOMAIN g THEN g[y] ELSE f[y]]

-----------------------------------------------------------------------------
(* Contents are terms, so that two computations agree only if they apply   *)
(* the same operations to the same data on the same device.                *)

Leaf(d) == [op |-> d, dev |-> "host", args |-> <<>>]
Term(name, dev, args) == [op |-> name, dev |-> dev, args |-> args]

\* What one operation other than load_cached makes of the environment.
Apply(o, env, dev) ==
    LET args == [n \in DOMAIN o.ins |-> env[o.ins[n]]]
    IN  CASE o.op = "compute" -> With(env, o.outs[1], Term(o.name, dev, args))
          [] o.op = "view" -> With(env, o.outs[1], args[1])
          [] o.op = "inplace" -> [env EXCEPT ![o.ins[1]] = Term(o.name, dev, args)]
          [] OTHER -> env

Bind(f, args) == [v \in ToSet(f.params) |->
                     args[CHOOSE n \in DOMAIN f.params : f.params[n] = v]]

Returned(f, env) == [n \in DOMAIN f.ret |-> env[f.ret[n]]]

\* The environments of a const-eval function after each of its operations.
ConstEvalValues(f, args, dev) ==
    LET env[k \in 0 .. Len(f.body)] ==
            IF k = 0 THEN Bind(f, args) ELSE Apply(f.body[k], env[k - 1], dev)
    IN  env

ConstEvalValue(f, args, dev) ==
    Returned(f, ConstEvalValues(f, args, dev)[Len(f.body)])

\* What load_cached makes of the environment when nothing is cached.
ApplyLoadCached(o, env, dev) ==
    LET r == ConstEvalValue(ConstEval[o.name],
                 [n \in DOMAIN o.ins |-> env[o.ins[n]]], dev)
    IN  Overlay([v \in ToSet(o.outs) |->
                    r[CHOOSE n \in DOMAIN o.outs : o.outs[n] = v]], env)

ProgramValues(f, args, dev) ==
    LET env[k \in 0 .. Len(f.body)] ==
            IF k = 0 THEN Bind(f, args)
            ELSE IF f.body[k].op = "load_cached"
            THEN ApplyLoadCached(f.body[k], env[k - 1], dev)
            ELSE Apply(f.body[k], env[k - 1], dev)
    IN  env

\* What a program computes when nothing is cached.
ProgramValue(f, args, dev) ==
    Returned(f, ProgramValues(f, args, dev)[Len(f.body)])

-----------------------------------------------------------------------------
(* Wrappers, storages and their lifetime                                   *)

TTNNTensorWrapper(t, r, v) == [tensor |-> t, retain |-> r, version |-> v]

is_allocated(w) == storage[wrapper[w].tensor].allocated
contents(w) == storage[wrapper[w].tensor].data

\* ttnn: the number of tensors that share w's storage.
use_count(w) ==
    Cardinality({x \in DOMAIN wrapper : wrapper[x].tensor = wrapper[w].tensor})

freshStorage ==
    CHOOSE s \in 1 .. Cardinality(DOMAIN storage) + 1 : s \notin DOMAIN storage

allocatedWith(d) == [data |-> d, allocated |-> TRUE]

\* ttnn::deallocate(tensor, force = false) on the storages ss.
deallocate(ss, w) ==
    IF use_count(w) = 1 THEN [ss EXCEPT ![wrapper[w].tensor].allocated = FALSE]
    ELSE ss

Referenced(h, c, stk) ==
    h \cup (UNION {ToSet(c[k].tensors) : k \in DOMAIN c})
      \cup (UNION {Range(stk[n].live) \cup ToSet(stk[n].inputs) : n \in DOMAIN stk})

\* The end of every action: ws and ss are the wrappers and storages that it
\* leaves behind, less those that only destroyed handles referred to.
Settle(ws, ss, h, c, stk) ==
    LET alive == Referenced(h, c, stk)
    IN  /\ wrapper' = Restrict(ws, alive)
        /\ storage' = Restrict(ss, {ws[w].tensor : w \in alive})
        /\ held' = h
        /\ cache' = c
        /\ stack' = stk

-----------------------------------------------------------------------------
(* The runtime API between submissions                                     *)

Idle == stack = <<>> /\ ~aborted

\* One more call of the client's between submissions.
Call ==
    /\ Idle
    /\ calls < MaxCalls
    /\ calls' = calls + 1

Init ==
    /\ wrapper = <<>>
    /\ storage = <<>>
    /\ latestVersion = 0
    /\ held = {}
    /\ cache = <<>>
    /\ stack = <<>>
    /\ calls = 0
    /\ submits = 0
    /\ agreed = TRUE
    /\ aborted = FALSE

\* Wrappers are named by the order of their construction; version is a field
\* of its own, which nothing updates after construction.
createOwnedHostTensor(d) ==
    /\ Call
    /\ Cardinality(held) < MaxHeld
    /\ Settle(With(wrapper, latestVersion,
                   TTNNTensorWrapper(freshStorage, FALSE, latestVersion)),
              With(storage, freshStorage, allocatedWith(Leaf(d))),
              held \cup {latestVersion}, cache, stack)
    /\ latestVersion' = latestVersion + 1
    /\ UNCHANGED <<submits, agreed, aborted>>

setTensorRetain(w, r) ==
    /\ Call
    /\ wrapper[w].retain # r
    /\ wrapper' = [wrapper EXCEPT ![w].retain = r]
    /\ UNCHANGED <<storage, latestVersion, held, cache, stack, submits,
                   agreed, aborted>>

\* The client's last handle to w goes away.
releaseHandle(w) ==
    /\ Call
    /\ Settle(wrapper, storage, held \ {w}, cache, stack)
    /\ UNCHANGED <<latestVersion, submits, agreed, aborted>>

\* The mutant of toLayout: without a choice of the caller's w is freed, though
\* its own flag decides what becomes of the result.
toLayoutFreesByDefault(w, same, retain) ==
    LET shouldRetain == IF retain = <<>> THEN wrapper[w].retain ELSE retain[1]
        out == IF same THEN wrapper[w].tensor ELSE freshStorage
        withOut == With(wrapper, latestVersion,
                        TTNNTensorWrapper(out, shouldRetain, latestVersion))
        converted == With(storage, out, allocatedWith(contents(w)))
    IN  /\ Call
        /\ is_allocated(w)
        /\ Cardinality(held) < MaxHeld
        /\ Settle(withOut,
                  IF retain = <<TRUE>> \/ same THEN converted ELSE deallocate(converted, w),
                  held \cup {latestVersion}, cache, stack)
        /\ latestVersion' = latestVersion + 1
        /\ UNCHANGED <<submits, agreed, aborted>>

\* same: w has the desired layout already and the converter returns it as is.
\* retain: <<>>, or the caller's choice.
toLayout(w, same, retain) ==
    LET shouldRetain == IF retain = <<>> THEN wrapper[w].retain ELSE retain[1]
        out == IF same THEN wrapper[w].tensor ELSE freshStorage
        withOut == With(wrapper, latestVersion,
                        TTNNTensorWrapper(out, shouldRetain, latestVersion))
        converted == With(storage, out, allocatedWith(contents(w)))
    IN  /\ Call
        /\ is_allocated(w)
        /\ Cardinality(held) < MaxHeld
        /\ Settle(withOut,
                  IF shouldRetain \/ same THEN converted ELSE deallocate(converted, w),
                  held \cup {latestVersion}, cache, stack)
        /\ latestVersion' = latestVersion + 1
        /\ UNCHANGED <<submits, agreed, aborted>>

deallocateTensor(w) ==
    /\ Call
    /\ is_allocated(w)
    /\ storage' = deallocate(storage, w)
    /\ UNCHANGED <<wrapper, latestVersion, held, cache, stack, submits,
                   agreed, aborted>>

\* Whether w's storage is an output in the cache, or that of a tensor whose
\* version the cache compares.
SharedWithCache(w) ==
    \E k \in DOMAIN cache, x \in DOMAIN wrapper :
        /\ wrapper[x].tensor = wrapper[w].tensor
        /\ \/ x \in ToSet(cache[k].tensors)
           \/ wrapper[x].version \in ToSet(cache[k].inputVersions)

memcpy(dst, src) ==
    /\ Call
    /\ is_allocated(dst) /\ is_allocated(src)
    /\ contents(dst) # contents(src)
    /\ OverwriteShared \/ ~SharedWithCache(dst)
    /\ storage' = [storage EXCEPT ![wrapper[dst].tensor].data = contents(src)]
    /\ UNCHANGED <<wrapper, latestVersion, held, cache, stack, submits,
                   agreed, aborted>>

clearCache ==
    /\ Call
    /\ cache # <<>>
    /\ Settle(wrapper, storage, held, <<>>, stack)
    /\ UNCHANGED <<latestVersion, submits, agreed, aborted>>

\* TensorCache::remove of an outer key that the cache has.  Its assert is
\* inverted: it holds only for a key that the cache does not have.
removeFromCache(dev, p) ==
    LET outerKey == {k \in DOMAIN cache : k.dev = dev /\ k.prog = p}
    IN  /\ Call
        /\ outerKey # {}
        /\ aborted' = ~NDEBUG
        /\ Settle(wrapper, storage, held,
                  IF NDEBUG THEN Restrict(cache, DOMAIN cache \ outerKey) ELSE cache,
                  stack)
        /\ UNCHANGED <<latestVersion, submits, agreed>>

-----------------------------------------------------------------------------
(* ProgramExecutor                                                         *)

Compiled == [p \in DOMAIN Programs |-> TTNNDeallocate(Programs[p])]
CompiledConstEval == [c \in DOMAIN ConstEval |-> TTNNDeallocate(ConstEval[c])]

isSequence(s) == s \in Seq(ToSet(s))

\* The values that the tensor pool should have before operation k of f: those
\* defined before it and not deallocated.
definedBefore(f, k) ==
    ToSet(f.params) \cup UNION {ToSet(f.body[i].outs) : i \in 1 .. k - 1}

liveBefore(f, k) ==
    {v \in definedBefore(f, k) :
        \A i \in 1 .. k - 1 :
            f.body[i].op = "deallocate" => v \notin ToSet(f.body[i].ins)}

\* What the compiler guarantees of a function in the binary: it is in SSA
\* form, uses no value after its deallocation, and a const-eval function
\* neither frees nor returns its parameters.
WellFormed(f) ==
    /\ isSequence(f.params) /\ isSequence(f.ret) /\ isSequence(f.body)
    /\ IsInjective(f.params)
    /\ ToSet(f.ret) \subseteq liveBefore(f, Len(f.body) + 1)
    /\ f.constEval => ToSet(f.ret) \cap ToSet(f.params) = {}
    /\ \A k \in DOMAIN f.body :
        LET o == f.body[k]
        IN  /\ isSequence(o.ins) /\ isSequence(o.outs)
            /\ ToSet(o.ins) \subseteq liveBefore(f, k)
            /\ ToSet(o.outs) \cap definedBefore(f, k) = {}
            /\ IsInjective(o.outs)
            /\ o.op \in {"compute", "view"} => Len(o.outs) = 1
            /\ o.op \in {"inplace", "deallocate"} => o.outs = <<>>
            /\ o.op \in {"view", "inplace"} => o.ins # <<>>
            /\ o.op = "deallocate" =>
                  /\ Len(o.ins) = 1
                  /\ f.constEval => o.ins[1] \notin ToSet(f.params)
            /\ o.op = "load_cached" =>
                  /\ ~f.constEval
                  /\ o.name \in DOMAIN ConstEval
                  /\ Len(o.ins) = Len(CompiledConstEval[o.name].params)
                  /\ Len(o.outs) = Len(CompiledConstEval[o.name].ret)

ProgramsWellFormed ==
    /\ \A p \in DOMAIN Programs :
          /\ DOMAIN Programs[p] = {"params", "constEval", "ret", "body"}
          /\ WellFormed(Compiled[p])
          /\ ~Compiled[p].constEval
    /\ \A c \in DOMAIN ConstEval :
          /\ WellFormed(CompiledConstEval[c])
          /\ CompiledConstEval[c].constEval

\* What the IR's verifier and ConstEvalHoist guarantee of a function before
\* deallocation: each value is defined once and before its uses, an operation
\* has the operands and results of its kind, and a const-eval function neither
\* calls another one nor returns its parameters.
InSSAForm(f) ==
    /\ DOMAIN f = {"params", "constEval", "ret", "body"}
    /\ isSequence(f.params) /\ isSequence(f.ret) /\ isSequence(f.body)
    /\ f.constEval \in BOOLEAN
    /\ IsInjective(f.params)
    /\ ToSet(f.ret) \subseteq definedBefore(f, Len(f.body) + 1)
    /\ f.constEval => ToSet(f.ret) \cap ToSet(f.params) = {}
    /\ \A k \in DOMAIN f.body :
        LET o == f.body[k]
        IN  /\ o.op \in {"compute", "view", "inplace", "load_cached"}
            /\ isSequence(o.ins) /\ isSequence(o.outs)
            /\ ToSet(o.ins) \subseteq definedBefore(f, k)
            /\ ToSet(o.outs) \cap definedBefore(f, k) = {}
            /\ IsInjective(o.outs)
            /\ o.op \in {"compute", "view"} => Len(o.outs) = 1
            /\ o.op = "inplace" => o.outs = <<>>
            /\ o.op \in {"view", "inplace"} => o.ins # <<>>
            /\ o.op = "load_cached" =>
                  /\ ~f.constEval
                  /\ o.name \in DOMAIN ConstEval
                  /\ Len(o.ins) = Len(ConstEval[o.name].params)
                  /\ Len(o.outs) = Len(ConstEval[o.name].ret)

ProgramsInSSAForm ==
    /\ \A p \in DOMAIN Programs : InSSAForm(Programs[p]) /\ ~Programs[p].constEval
    /\ \A c \in DOMAIN ConstEval : InSSAForm(ConstEval[c]) /\ ConstEval[c].constEval

\* What caching takes for granted of the writes in function f: it only writes
\* parameters, none that an operation before the write views or that
\* load_cached takes.  The patterns that make the in-place operations
\* (TTIRToTTNN.cpp, UpdateCacheOpConversionPattern and FillCacheOpConversion-
\* Pattern) refuse one that is not the only user of its cache tensor, as "this
\* op can only work if it is the final use of the cache tensor in the order of
\* execution"; that the tensor is an input of the program, neither a constant
\* nor a parameter of the model, is how these operations are used.
WritesSeparate(f) ==
    \A k \in DOMAIN f.body : f.body[k].op = "inplace" =>
        /\ ~f.constEval
        /\ f.body[k].ins[1] \in ToSet(f.params)
        /\ \A j \in DOMAIN f.body :
              /\ f.body[j].op = "view" /\ f.body[j].ins[1] = f.body[k].ins[1] => k < j
              /\ f.body[j].op = "load_cached" =>
                    f.body[k].ins[1] \notin ToSet(f.body[j].ins)

ProgramsWriteSeparate ==
    /\ \A p \in DOMAIN Programs : WritesSeparate(Programs[p])
    /\ \A c \in DOMAIN ConstEval : WritesSeparate(ConstEval[c])

\* The executor of function f on the wrappers args.
Executor(f, dev, p, args) ==
    [fn |-> f, dev |-> dev, prog |-> p, pc |-> 1, inputs |-> args,
     live |-> Bind(f, args), versions |-> <<>>, promised |-> <<>>]

\* Whether program f overwrites its n-th argument.
Writes(f, n) ==
    \E k \in DOMAIN f.body :
        f.body[k].op = "inplace" /\ f.body[k].ins[1] = f.params[n]

\* Whether only the n-th of the arguments args has its storage.
PassedOnce(args, n) ==
    \A m \in DOMAIN args :
        m # n => wrapper[args[m]].tensor # wrapper[args[n]].tensor

\* A handle is passed once, unless its tensor is retained: the program frees
\* the others at their last use.
submit(p, dev, args) ==
    /\ Idle
    /\ submits < MaxSubmits
    /\ \A n \in DOMAIN args : is_allocated(args[n])
    /\ \A m, n \in DOMAIN args :
           m # n /\ args[m] = args[n] => wrapper[args[m]].retain
    /\ \A n \in DOMAIN args :
           Writes(Programs[p], n) =>
               OverwriteShared \/ (PassedOnce(args, n) /\ ~SharedWithCache(args[n]))
    /\ stack' = <<[Executor(Compiled[p], dev, p, args) EXCEPT !.promised =
                      ProgramValue(Programs[p],
                          [n \in DOMAIN args |-> contents(args[n])], dev)]>>
    /\ submits' = submits + 1
    /\ UNCHANGED <<wrapper, storage, latestVersion, held, cache, calls, agreed, aborted>>

Running == stack # <<>>
Top == stack[Len(stack)]
AtEnd(fr) == fr.pc > Len(fr.fn.body)
Op == Top.fn.body[Top.pc]

Resume(fr) == [stack EXCEPT ![Len(stack)] = [fr EXCEPT !.pc = @ + 1]]

\* The assertions of getRuntimeTensorAndValidate.
validated(fr, v) == v \in DOMAIN fr.live /\ is_allocated(fr.live[v])

\* Running an operation of the given kind, all of whose operands it validates.
runOperation(kind) ==
    /\ Running
    /\ ~AtEnd(Top)
    /\ Op.op = kind
    /\ \A v \in ToSet(Op.ins) : validated(Top, v)

Arg(n) == Top.live[Op.ins[n]]

\* insertTTNNTensorAndValidate: a new wrapper, not retained.
runCompute ==
    /\ runOperation("compute")
    /\ Settle(With(wrapper, latestVersion,
                   TTNNTensorWrapper(freshStorage, FALSE, latestVersion)),
              With(storage, freshStorage, allocatedWith(
                  Term(Op.name, Top.dev, [n \in DOMAIN Op.ins |-> contents(Arg(n))]))),
              held, cache,
              Resume([Top EXCEPT !.live = With(@, Op.outs[1], latestVersion)]))
    /\ latestVersion' = latestVersion + 1
    /\ UNCHANGED <<calls, submits, agreed, aborted>>

\* An operation that may return its operand's tensor: a reshape, a layout
\* conversion with nothing to convert.
runView ==
    /\ runOperation("view")
    /\ Settle(With(wrapper, latestVersion,
                   TTNNTensorWrapper(wrapper[Arg(1)].tensor, FALSE, latestVersion)),
              storage, held, cache,
              Resume([Top EXCEPT !.live = With(@, Op.outs[1], latestVersion)]))
    /\ latestVersion' = latestVersion + 1
    /\ UNCHANGED <<calls, submits, agreed, aborted>>

\* update_cache and fill_cache write their first operand.
runInplace ==
    /\ runOperation("inplace")
    /\ storage' = [storage EXCEPT ![wrapper[Arg(1)].tensor].data =
                      Term(Op.name, Top.dev, [n \in DOMAIN Op.ins |-> contents(Arg(n))])]
    /\ stack' = Resume(Top)
    /\ UNCHANGED <<wrapper, latestVersion, held, cache, calls, submits, agreed, aborted>>

\* The mutant of freed: a storage is freed though other tensors share it.
freedForce(w) ==
    IF wrapper[w].retain THEN storage
    ELSE [storage EXCEPT ![wrapper[w].tensor].allocated = FALSE]

\* The mutant of freed: the retain flag is tested the wrong way round.
freedRetained(w) == IF wrapper[w].retain THEN deallocate(storage, w) ELSE storage

freed(w) == IF wrapper[w].retain THEN storage ELSE deallocate(storage, w)

runDeallocate ==
    /\ runOperation("deallocate")
    /\ Settle(wrapper, freed(Arg(1)), held, cache,
              Resume([Top EXCEPT !.live =
                         Restrict(@, DOMAIN @ \ ToSet(Op.ins))]))
    /\ UNCHANGED <<latestVersion, calls, submits, agreed, aborted>>

\* The mutant of cacheKey: the device is left out.
cacheKeyNoDevice(fr, callee) == [dev |-> "any", prog |-> fr.prog, callee |-> callee]

cacheKey(fr, callee) == [dev |-> fr.dev, prog |-> fr.prog, callee |-> callee]

inputVersions(fr, o) == [n \in DOMAIN o.ins |-> wrapper[fr.live[o.ins[n]]].version]

\* TensorCache::getAll
isHit(fr, o) ==
    /\ cacheKey(fr, o.name) \in DOMAIN cache
    /\ cache[cacheKey(fr, o.name)].inputVersions = inputVersions(fr, o)

\* The wrappers and the executor fr after insertTTNNTensorAndValidate of the
\* tensors of outs as the results of o.
insertedWrappers(ws, outs) ==
    Overlay([w \in latestVersion .. latestVersion + Len(outs) - 1 |->
                TTNNTensorWrapper(ws[outs[w - latestVersion + 1]].tensor, FALSE, w)],
            ws)
insertedLive(fr, o) ==
    [fr EXCEPT !.live =
        Overlay([v \in ToSet(o.outs) |->
                    latestVersion + (CHOOSE n \in DOMAIN o.outs : o.outs[n] = v) - 1],
                @)]

runLoadCachedHit ==
    LET outs == cache[cacheKey(Top, Op.name)].tensors
    IN  /\ runOperation("load_cached")
        /\ isHit(Top, Op)
        /\ \A n \in DOMAIN outs : is_allocated(outs[n])
        /\ Settle(insertedWrappers(wrapper, outs), storage, held, cache,
                  Resume(insertedLive(Top, Op)))
        /\ latestVersion' = latestVersion + Len(outs)
        /\ UNCHANGED <<calls, submits, agreed, aborted>>

\* A miss runs the const-eval function in an executor of its own.
runLoadCachedMiss ==
    /\ runOperation("load_cached")
    /\ ~isHit(Top, Op)
    /\ stack' = Append(stack,
           [Executor(CompiledConstEval[Op.name], Top.dev, Top.prog,
                     [n \in DOMAIN Op.ins |-> Arg(n)])
               EXCEPT !.versions = inputVersions(Top, Op)])
    /\ UNCHANGED <<wrapper, storage, latestVersion, held, cache, calls, submits,
                   agreed, aborted>>

outputs(fr) == [n \in DOMAIN fr.fn.ret |-> fr.live[fr.fn.ret[n]]]

\* gatherOutputTensors: the outputs are no longer retained.
gathered(fr) ==
    [w \in DOMAIN wrapper |->
        IF w \in ToSet(outputs(fr)) THEN [wrapper[w] EXCEPT !.retain = FALSE]
        ELSE wrapper[w]]

AtEndWithOutputs ==
    /\ Running
    /\ AtEnd(Top)
    /\ ToSet(Top.fn.ret) \subseteq DOMAIN Top.live

\* The nested executor returns to load_cached, which stores what it computed
\* and then makes it the results of the operation.
finishConstEval ==
    LET parent == stack[Len(stack) - 1]
        o == parent.fn.body[parent.pc]
        outs == outputs(Top)
    IN  /\ AtEndWithOutputs
        /\ Len(stack) > 1
        /\ Settle(insertedWrappers(gathered(Top), outs), storage, held,
                  With(cache, cacheKey(parent, o.name),
                       [inputVersions |-> Top.versions, tensors |-> outs]),
                  [SubSeq(stack, 1, Len(stack) - 1) EXCEPT ![Len(stack) - 1] =
                      [insertedLive(parent, o) EXCEPT !.pc = @ + 1]])
        /\ latestVersion' = latestVersion + Len(outs)
        /\ UNCHANGED <<calls, submits, agreed, aborted>>

finishProgram ==
    /\ AtEndWithOutputs
    /\ Len(stack) = 1
    /\ Settle(gathered(Top), storage, held \cup ToSet(outputs(Top)), cache, <<>>)
    /\ agreed' = (agreed /\ Top.promised =
                     [n \in DOMAIN outputs(Top) |-> contents(outputs(Top)[n])])
    /\ UNCHANGED <<latestVersion, calls, submits, aborted>>

Client ==
    \/ \E d \in Data : createOwnedHostTensor(d)
    \/ \E w \in held :
           \/ \E r \in BOOLEAN : setTensorRetain(w, r)
           \/ releaseHandle(w)
           \/ \E same \in BOOLEAN, retain \in {<<>>, <<TRUE>>, <<FALSE>>} :
                  toLayout(w, same, retain)
           \/ deallocateTensor(w)
           \/ \E src \in held : memcpy(w, src)
    \/ clearCache
    \/ \E dev \in Devices, p \in DOMAIN Programs : removeFromCache(dev, p)
    \/ \E p \in DOMAIN Programs, dev \in Devices :
           \E args \in [DOMAIN Programs[p].params -> held] : submit(p, dev, args)

Execute ==
    \/ runCompute
    \/ runView
    \/ runInplace
    \/ runDeallocate
    \/ runLoadCachedHit
    \/ runLoadCachedMiss
    \/ finishConstEval
    \/ finishProgram

Next == Client \/ Execute

Spec == Init /\ [][Next]_vars

-----------------------------------------------------------------------------
(* Properties                                                              *)

\* Wrappers, storages, handles, cache entries and executors refer to each
\* other without dangling names, and no version is newer than the counter.
TypeOK ==
    /\ \A w \in DOMAIN wrapper :
           /\ wrapper[w].tensor \in DOMAIN storage
           /\ wrapper[w].retain \in BOOLEAN
           /\ wrapper[w].version \in 0 .. latestVersion - 1
    /\ DOMAIN wrapper = Referenced(held, cache, stack)
    /\ DOMAIN storage = {wrapper[w].tensor : w \in DOMAIN wrapper}
    /\ calls \in 0 .. MaxCalls
    /\ submits \in 0 .. MaxSubmits
    /\ aborted \in BOOLEAN

\* The tensor pool's assertions never fire, whatever the deallocations, the
\* cache and the aliases between tensors were: each operand of the next
\* operation is in the pool and allocated (getRuntimeTensorAndValidate), and
\* so are the tensors of a cache hit (insertTTNNTensorAndValidate).
OperandsAlive ==
    Running =>
        IF AtEnd(Top)
        THEN \A v \in ToSet(Top.fn.ret) : validated(Top, v)
        ELSE /\ \A v \in ToSet(Op.ins) : validated(Top, v)
             /\ Op.op = "load_cached" /\ isHit(Top, Op) =>
                   \A w \in ToSet(cache[cacheKey(Top, Op.name)].tensors) :
                       is_allocated(w)

\* A finished program produced what it computes without the cache on the
\* contents its inputs had when it was submitted.
CacheTransparent == agreed

\* Whether program f makes a view of its n-th argument.
Views(f, n) ==
    \E k \in DOMAIN f.body :
        f.body[k].op = "view" /\ f.body[k].ins[1] = f.params[n]

\* At its end a program's pool has no tensor but its outputs: each other value
\* met its deallocate.  A const-eval function still has its parameters, and a
\* function without operations too, for whose arguments Liveness gives the
\* terminator as start (TTNNDeallocate).
PoolEmptied ==
    Running /\ AtEnd(Top) =>
        DOMAIN Top.live = ToSet(Top.fn.ret)
            \cup (IF Top.fn.constEval \/ Top.fn.body = <<>> THEN ToSet(Top.fn.params)
                  ELSE {})

\* A program has freed each input that is neither retained nor returned and
\* whose storage no other tensor shares.  An input that the program made a view
\* of stays allocated: neither deallocate is the one of the storage's last
\* tensor.  (So does one whose storage a cache entry shared at its last use,
\* when that program then replaced the entry: no program of the instances.)
InputsFreed ==
    Len(stack) = 1 /\ AtEnd(Top) =>
        \A n \in DOMAIN Top.inputs :
            LET w == Top.inputs[n]
            IN  is_allocated(w) => \/ wrapper[w].retain
                                   \/ w \in ToSet(outputs(Top))
                                   \/ use_count(w) > 1
                                   \/ Views(Top.fn, n)

\* A retained tensor of the client stays allocated through every submission
\* and conversion: only deallocateTensor, or toLayout told not to retain,
\* frees it.
RetainedSurvive ==
    [][\A w \in held :
          wrapper[w].retain /\ is_allocated(w) /\ w \in held' /\ ~is_allocated(w)' =>
              \/ deallocateTensor(w)
              \/ \E same \in BOOLEAN : toLayout(w, same, <<FALSE>>)]_vars
=============================================================================
