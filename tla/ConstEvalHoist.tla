--------------------------- MODULE ConstEvalHoist ---------------------------
(***************************************************************************)
(* The const-eval-hoist-transform pass (lib/Transforms/ConstEvalHoist.cpp).*)
(*                                                                         *)
(* Operations whose operands are all constant are grouped into subgraphs   *)
(* with a union-find structure, in one walk over the block; each subgraph  *)
(* becomes a const-eval function, and a tt.load_cached at the top of the   *)
(* block takes its place.  undo-const-eval inlines the functions again.    *)
(*                                                                         *)
(* The block is chosen one operation at a time, as the walk reaches it.    *)
(* Operation n has one result, the value n; the parameters are the values  *)
(* below 0.  An operation is a creation op (no operands: empty, full,      *)
(* arange), a shared op (no operands and duplicated into every function:   *)
(* get_device) or any other ("compute").                                   *)
(***************************************************************************)
EXTENDS Integers, Sequences, FiniteSets, FiniteSetsExt, SequencesExt, Functions

CONSTANTS
    FuncBounds,     \* what the functions may look like: records of
                    \*   params       the arguments, negative integers
                    \*   constParams  those that are parameters or constants
                    \*   kinds        the kinds of operation in the block
                    \*   maxOps       bound on the length of the block
                    \*   returnAny    whether any results are returned, or
                    \*                just the last
    MaxOperands     \* bound on the operands of an operation

ASSUME FuncBoundsAssumption ==
    \A f \in FuncBounds :
        /\ IsFiniteSet(f.params)
        /\ \A p \in f.params : p \in Int /\ p < 0
        /\ f.constParams \subseteq f.params
        /\ f.kinds \subseteq {"creation", "shared", "compute"}

ASSUME MaxOperandsAssumption == MaxOperands \in Nat

VARIABLES
    function,           \* the one of FuncBounds that is walked
    phase,              \* analyze, hoist, done, undone
    block,              \* block[n]: [kind, ins]
    ret,                \* the values that the terminator returns
    unionFind,          \* [parent, rank]
    subgraphOf,         \* opToSubgraphMap, and valueToSubgraphMap
    subgraphParams,
    funcs,              \* const-eval functions: [params, body, outs]
    body                \* the operations left in the function, in order

vars == <<function, phase, block, ret, unionFind, subgraphOf, subgraphParams, funcs, body>>

Params == function.params
ConstParams == function.constParams

Ops == DOMAIN block
isCreationOp(n) == block[n].kind = "creation"
isSharedOp(n) == block[n].kind = "shared"

\* The operations of a set in the order they have in the block.
inOrder(S) ==
    [k \in 1 .. Cardinality(S) |->
        CHOOSE n \in S : Cardinality({m \in S : m < n}) = k - 1]

Shared == {n \in Ops : isSharedOp(n)}
sharedOps == inOrder(Shared)

-----------------------------------------------------------------------------
(* Union-find, with path compression and union by rank                     *)

rootIn(parent, id) ==
    LET up[x \in DOMAIN parent] == IF parent[x] = x THEN x ELSE up[parent[x]]
    IN  up[id]

findRoot(uf, id) ==
    LET path[x \in DOMAIN uf.parent] ==
            IF uf.parent[x] = x THEN {x} ELSE {x} \cup path[uf.parent[x]]
    IN  [uf EXCEPT !.parent =
            [x \in DOMAIN @ |-> IF x \in path[id] THEN rootIn(@, id) ELSE @[x]]]

linkRoots(uf, rx, ry) ==
    CASE rx = ry -> uf
      [] rx # ry /\ uf.rank[rx] < uf.rank[ry] -> [uf EXCEPT !.parent[rx] = ry]
      [] OTHER -> [uf EXCEPT !.parent[ry] = rx,
                             !.rank[rx] = IF @ = uf.rank[ry] THEN @ + 1 ELSE @]

\* The mutant of unionSubgraphs: the ids are linked instead of their roots.
linkIds(uf, x, y) == linkRoots(uf, x, y)

unionSubgraphs(uf, x, y) ==
    LET compressed == findRoot(findRoot(uf, x), y)
    IN  linkRoots(compressed, rootIn(compressed.parent, x),
                              rootIn(compressed.parent, y))

-----------------------------------------------------------------------------
(* ConstEvalAnalyze                                                        *)

Init ==
    /\ function \in FuncBounds
    /\ phase = "analyze"
    /\ block = <<>>
    /\ ret = {}
    /\ unionFind = [parent |-> <<>>, rank |-> <<>>]
    /\ subgraphOf = <<>>
    /\ subgraphParams = <<>>
    /\ funcs = <<>>
    /\ body = <<>>

operandIsConstEval(v) ==
    IF v < 0 THEN v \in ConstParams
    ELSE v \in DOMAIN subgraphOf \/ isSharedOp(v) \/ isCreationOp(v)

\* The walk reaches an operation that the analysis leaves where it is: a
\* creation op, a shared op, or one with an operand that is not constant.
skipOp(kind, ins) ==
    /\ phase = "analyze"
    /\ kind # "compute" \/ \E n \in DOMAIN ins : ~operandIsConstEval(ins[n])
    /\ block' = Append(block, [kind |-> kind, ins |-> ins])
    /\ UNCHANGED <<function, phase, ret, unionFind, subgraphOf, subgraphParams,
                   funcs, body>>

\* The subgraphs that an operation depends on.
dependentSubgraphIds(ins) == {subgraphOf[v] : v \in ToSet(ins) \cap DOMAIN subgraphOf}

\* The mutant of creationOps: they stay behind.
noCreationOps(ins) == {}

\* The creation ops that an operation brings into its subgraph.
creationOps(ins) ==
    {v \in ToSet(ins) : v > 0 /\ v \notin DOMAIN subgraphOf /\ isCreationOp(v)}

\* All subgraphs are merged with the first.
mergedSubgraphs(ids) ==
    LET merged[k \in 1 .. Len(ids)] ==
            IF k = 1 THEN unionFind ELSE unionSubgraphs(merged[k - 1], ids[1], ids[k])
    IN  merged[Len(ids)]

\* The op joins the subgraphs ids, merged into one, or is a new subgraph.
joinSubgraphs(ins, ids) ==
    LET fresh == Len(unionFind.parent) + 1
        uf == IF ids = <<>>
              THEN [parent |-> Append(unionFind.parent, fresh),
                    rank |-> Append(unionFind.rank, 0)]
              ELSE mergedSubgraphs(ids)
        target == CASE ids = <<>> -> fresh
                    [] Len(ids) = 1 -> ids[1]
                    [] OTHER -> rootIn(uf.parent, ids[1])
        joining == {Len(block) + 1} \cup creationOps(ins)
        params == ToSet(ins) \cap Params
    IN  /\ unionFind' = IF Len(ids) > 1 THEN findRoot(uf, ids[1]) ELSE uf
        /\ subgraphOf' = [v \in DOMAIN subgraphOf \cup joining |->
                            IF v \in joining THEN target ELSE subgraphOf[v]]
        /\ subgraphParams' = IF ids = <<>> THEN Append(subgraphParams, params)
                             ELSE [subgraphParams EXCEPT ![target] = @ \cup params]

\* processOp on an operation whose operands are all constant.  The subgraphs
\* that it depends on are a SmallSet, which is in order of insertion while it
\* is small and sorted when it is not: any order is allowed for.
processOp(ins) ==
    /\ phase = "analyze"
    /\ \A k \in DOMAIN ins : operandIsConstEval(ins[k])
    /\ block' = Append(block, [kind |-> "compute", ins |-> ins])
    /\ \E ids \in SetToSeqs(dependentSubgraphIds(ins)) : joinSubgraphs(ins, ids)
    /\ UNCHANGED <<function, phase, ret, funcs, body>>

\* The walk reaches the terminator, which returns the values r.
endOfBlock(r) ==
    /\ phase = "analyze"
    /\ phase' = "hoist"
    /\ ret' = r
    /\ body' = [n \in Ops |-> n]
    /\ UNCHANGED <<function, block, unionFind, subgraphOf, subgraphParams, funcs>>

-----------------------------------------------------------------------------
(* getAnalysisResults and createConstEvalFunction                          *)

rootOf(n) == rootIn(unionFind.parent, subgraphOf[n])

subgraphOps(root) ==
    inOrder({n \in DOMAIN subgraphOf : rootOf(n) = root})

\* A mutant of inputParameters: those recorded for the root alone.
rootParameters(root) == subgraphParams[root]

inputParameters(root) ==
    UNION {subgraphParams[subgraphOf[n]] : n \in ToSet(subgraphOps(root))}

\* A mutant of collectSubgraphBoundary: the terminator's uses are forgotten.
boundaryWithoutReturn(ops) ==
    inOrder({v \in ToSet(ops) :
               \E n \in Ops \ ToSet(ops) : v \in ToSet(block[n].ins)})

\* The values of a subgraph that are used outside it.
collectSubgraphBoundary(ops) ==
    inOrder({v \in ToSet(ops) :
               \/ v \in ret
               \/ \E n \in Ops \ ToSet(ops) : v \in ToSet(block[n].ins)})

roots == {rootOf(n) : n \in DOMAIN subgraphOf}

hoisted == UNION {ToSet(funcs[i].body) : i \in DOMAIN funcs}

\* The subgraphs come out of a hash map, in any order.  The shared ops are
\* cloned into every function, and a load_cached is inserted after those of
\* the functions before; uses of the outputs now refer to its results.
createConstEvalFunction(root) ==
    LET ops == subgraphOps(root)
    IN  /\ phase = "hoist"
        /\ ToSet(ops) \cap hoisted = {}
        /\ funcs' = Append(funcs,
               [params |-> SetToSeq(inputParameters(root)),
                body |-> sharedOps \o ops,
                outs |-> collectSubgraphBoundary(ops)])
        /\ body' = inOrder(ToSet(body) \ ToSet(ops))
        /\ UNCHANGED <<function, phase, block, ret, unionFind, subgraphOf,
                       subgraphParams>>

allHoisted ==
    /\ phase = "hoist"
    /\ DOMAIN subgraphOf \subseteq hoisted
    /\ phase' = "done"
    /\ UNCHANGED <<function, block, ret, unionFind, subgraphOf, subgraphParams,
                   funcs, body>>

\* The mutant of firstInstance: the op that was in the block all along.
lastInstance(ops) == Max({k \in DOMAIN ops : isSharedOp(ops[k])})

\* deduplicateSharedOps: the instance that replaces the others.
firstInstance(ops) == Min({k \in DOMAIN ops : isSharedOp(ops[k])})

\* undoConstEvalImpl: every function is inlined at its load_cached, and of the
\* shared ops, which are equal, the first in the block replaces the others.
undoConstEvalImpl ==
    LET inlined == FlattenSeq([i \in DOMAIN funcs |-> funcs[i].body]) \o body
        keep(k) == ~isSharedOp(inlined[k]) \/ k = firstInstance(inlined)
        kept == inOrder({k \in DOMAIN inlined : keep(k)})
    IN  /\ phase = "done"
        /\ phase' = "undone"
        /\ body' = [k \in DOMAIN kept |-> inlined[kept[k]]]
        /\ funcs' = <<>>
        /\ UNCHANGED <<function, block, ret, unionFind, subgraphOf, subgraphParams>>

Operands == Params \cup Ops

Next ==
    \/ /\ Len(block) < function.maxOps
       /\ \/ \E kind \in function.kinds \ {"compute"} : skipOp(kind, <<>>)
          \/ \E k \in 1 .. MaxOperands : \E ins \in [1 .. k -> Operands] :
                 /\ "compute" \in function.kinds
                 /\ skipOp("compute", ins) \/ processOp(ins)
    \/ \E r \in SUBSET Ops :
           (function.returnAny \/ r = Ops \cap {Len(block)}) /\ endOfBlock(r)
    \/ \E root \in roots : createConstEvalFunction(root)
    \/ allHoisted
    \/ undoConstEvalImpl

Spec == Init /\ [][Next]_vars

-----------------------------------------------------------------------------
(* Properties                                                              *)

\* The operations that are constant when those of S are: their operands are
\* constant arguments, operations in S, or made from nothing.
ConstantGiven(S) ==
    {n \in Ops : /\ block[n].kind = "compute"
                 /\ \A v \in ToSet(block[n].ins) :
                        \/ v \in ConstParams \cup S
                        \/ v \in Ops /\ block[v].kind \in {"creation", "shared"}}

\* The pass hoists every constant operation, and of the others only creation
\* ops that a constant operation uses.  An operation comes after its operands,
\* so there is only one set that is constant given itself.
HoistsAllConstants ==
    phase = "done" =>
        LET constant == {n \in hoisted : block[n].kind = "compute"}
            used == {v \in Ops : isCreationOp(v) /\
                                 \E n \in constant : v \in ToSet(block[n].ins)}
        IN  /\ constant = ConstantGiven(constant)
            /\ hoisted \ Shared = constant \cup used

\* Operations that depend on each other, by a chain of operands that crosses
\* neither an argument nor a shared op, are hoisted into the same function,
\* and no operation into two.
Adjacent(m, n) == m \in ToSet(block[n].ins) \/ n \in ToSet(block[m].ins)
HoistedTogether ==
    phase = "done" =>
        LET own(i) == ToSet(funcs[i].body) \ Shared
        IN  /\ \A i \in DOMAIN funcs : \A m \in own(i) :
                   \A n \in DOMAIN subgraphOf : Adjacent(m, n) => n \in own(i)
            /\ \A i, j \in DOMAIN funcs : i # j => own(i) \cap own(j) = {}

\* Every operand in a const-eval function is one of its parameters or the
\* result of an operation before it: "Subgraph depends on out-of-scope value!"
\* is never reached, and no other argument is read.
FuncsSelfContained ==
    \A i \in DOMAIN funcs :
        /\ ToSet(funcs[i].params) \subseteq ConstParams
        /\ \A k \in DOMAIN funcs[i].body :
               \A v \in ToSet(block[funcs[i].body[k]].ins) :
                   \/ v \in ToSet(funcs[i].params)
                   \/ \E j \in 1 .. k - 1 : funcs[i].body[j] = v

\* After each function is hoisted the rest of the block is still in SSA form:
\* what an operation or the terminator uses is an argument, a result of a
\* load_cached, or the result of an operation before it.
BlockDominance ==
    phase \in {"hoist", "done"} =>
        LET loaded == UNION {ToSet(funcs[i].outs) : i \in DOMAIN funcs}
        IN  /\ \A k \in DOMAIN body : \A v \in ToSet(block[body[k]].ins) :
                   \/ v \in Params \cup loaded
                   \/ \E j \in 1 .. k - 1 : body[j] = v
            /\ ret \subseteq loaded \cup ToSet(body)

\* Undoing the pass gives back the operations of the block, in an order in
\* which uses follow definitions (a shared op stands for its equals).
UndoRestores ==
    phase = "undone" =>
        LET definedAt(v, k) ==
                \E j \in 1 .. k - 1 : body[j] = v \/ (isSharedOp(v) /\ isSharedOp(body[j]))
        IN  /\ ToSet(body) \ Shared = Ops \ Shared
            /\ \A k \in DOMAIN body : \A v \in ToSet(block[body[k]].ins) :
                   v \in Params \/ definedAt(v, k)
=============================================================================
