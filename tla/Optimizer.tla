------------------------------ MODULE Optimizer ------------------------------
(***************************************************************************)
(* The TTNN optimizer pass: a memory layout policy schedules the functions *)
(* and chooses chains of ops that stay in L1, and the result is applied    *)
(* function by function: the order of the ops, their layouts, the reshards *)
(* between ops, the spills at the ends of chains and the function's type.  *)
(***************************************************************************)
EXTENDS DFShardingPolicy, GreedyL1InterleavedPolicy

CONSTANTS
    Policies(_),        \* the memory layout policies a user may choose for the ops
    Overrides(_),       \* what a user may give as overrideInputLayout for the ops:
                        \* sets of pairs of an op and an operand index
    memReconfigEnabled  \* the option that inserts the reshards

ASSUME PoliciesAssumption ==
    \A g \in Graphs :
      Policies(g) \subseteq {"DFSharding", "BFInterleaved", "GreedyL1Interleaved"}

ASSUME MemReconfigAssumption == memReconfigEnabled \in BOOLEAN

VARIABLES
    policy,
    applied,        \* the function that the result is applied to
    pendingEdges,   \* edges of memReconfigEntryMap to process for it
    spills,         \* chains of spillToDramOps still to process for it
    resultTypes,    \* funcResultTypes of the walk over its ops
    funcType        \* the result types of the functions

optvars == <<policy, applied, pendingEdges, spills, resultTypes, funcType>>
vars == <<dfvars, bfvars, greedyvars, optvars>>

Completed == {c \in ToSet(l1ChainConfigs) : c.state = "Completed"}

\* MemoryLayoutAnalysis' result: the config of a completed chain's op replaces
\* the legal configs; all other ops take their first one, which is in DRAM.
layoutOf(o) ==
    LET chosen == {x \in Completed \X (1 .. Len(ops)) :
                     x[2] \in DOMAIN x[1].ops /\ x[1].ops[x[2]] = o}
    IN  IF chosen = {} THEN DRAM
        ELSE LET choice == CHOOSE x \in chosen : TRUE IN choice[1].config[choice[2]]

\* An op is in one chain, so no edge has entries of two.
analysisEntries ==
    [e \in UNION {DOMAIN c.memReconfigEntryMap : c \in Completed} |->
       (CHOOSE c \in Completed : e \in DOMAIN c.memReconfigEntryMap).memReconfigEntryMap[e]]

\* Edges the user asked for are added to the analysis' own.
reconfigEdges == DOMAIN analysisEntries \cup overrideReshardEdges

\* The ops are the last ones of these chains, in the order of the chains.
spillToDramOps ==
    {i \in DOMAIN l1ChainConfigs : /\ l1ChainConfigs[i].state = "Completed"
                                   /\ l1ChainConfigs[i].spillEndToDRAM}

\* Mutant: every scheduled op is moved behind the first one.
behindFirst(b, s) ==
    LET others == SelectSeq(b, LAMBDA o : ~Contains(Tail(s), o))
        p == positionIn(others, s[1])
    IN  IF s = <<>> THEN b
        ELSE SubSeq(others, 1, p) \o Reverse(Tail(s)) \o SubSeq(others, p + 1, Len(others))

\* Every scheduled op is moved behind the one before it, so that the schedule
\* ends up where its first op is.
scheduledOrder(b, s) ==
    LET others == SelectSeq(b, LAMBDA o : ~Contains(Tail(s), o))
        p == positionIn(others, s[1])
    IN  IF s = <<>> THEN b
        ELSE SubSeq(others, 1, p - 1) \o s \o SubSeq(others, p + 1, Len(others))

terminator(f) == CHOOSE o \in DOMAIN ops : ops[o].func = f /\ Kind(o) = "return"

\* Mutant: the types the values had before the walk.
returnedTypesBefore(typed) ==
    LET returned == ops[terminator(applied)].ins
    IN  [i \in DOMAIN returned |-> IF returned[i] = 0 THEN DRAM ELSE ops[returned[i]].layout]

returnedTypes(typed) ==
    LET returned == ops[terminator(applied)].ins
    IN  [i \in DOMAIN returned |-> IF returned[i] = 0 THEN DRAM ELSE typed[returned[i]].layout]

\* The schedule is applied, then the walk sets the types and ends with the
\* types of the returned values.
applyAnalysis ==
    /\ phase = "apply"
    /\ LET b == scheduledOrder(block[applied], schedule[applied])
           typed == [o \in DOMAIN ops |->
                       IF ops[o].func = applied /\ Kind(o) \in {"compute", "excluded"}
                       THEN [ops[o] EXCEPT !.layout = layoutOf(o)] ELSE ops[o]]
       IN  /\ block' = [block EXCEPT ![applied] = b]
           /\ ops' = typed
           /\ resultTypes' = returnedTypes(typed)
    /\ pendingEdges' = IF memReconfigEnabled THEN reconfigEdges ELSE {}
    /\ spills' = spillToDramOps
    /\ phase' = "reconfig"
    /\ UNCHANGED <<schedvars, l1ChainConfigs, solvervars, chain, currentOp,
                   overrideReshardEdges, bfvars, greedyvars, policy, applied, funcType>>

\* Mutant: the layout of the consumer's result for every reshard.
reshardLayoutOfConsumer(e) == ops[e[2]].layout

\* The layout a reshard has to produce: an override takes the one of the
\* consumer's result.
reshardLayout(e) ==
    IF e \in DOMAIN analysisEntries THEN analysisEntries[e].found.layout
    ELSE ops[e[2]].layout

newToLayout(f, in, layout) ==
    [func |-> f, kind |-> "to_layout", ins |-> <<in>>, layout |-> layout]

\* A to_layout producer is updated in place; else a to_layout goes in between.
processMemReconfigEdge(e) ==
    IF e[1] # 0 /\ Kind(e[1]) = "to_layout"
    THEN /\ ops' = [ops EXCEPT ![e[1]].layout = reshardLayout(e)]
         /\ UNCHANGED block
    ELSE /\ ops' = Append([ops EXCEPT ![e[2]].ins[e[3]] = Len(ops) + 1],
                          newToLayout(ops[e[2]].func, ops[e[2]].ins[e[3]],
                                      reshardLayout(e)))
         /\ block' = [block EXCEPT ![ops[e[2]].func] =
                        insertBefore(@, e[2], Len(ops) + 1)]

processMemReconfigEdges ==
    /\ phase = "reconfig"
    /\ \E e \in pendingEdges :
         \* an entry is overridden or has a selected config
         IF e \in DOMAIN analysisEntries /\ analysisEntries[e].selected = 0
         THEN phase' = "abort" /\ UNCHANGED <<graphvars, pendingEdges>>
         ELSE /\ processMemReconfigEdge(e)
              /\ pendingEdges' = pendingEdges \ {e}
              /\ UNCHANGED phase
    /\ UNCHANGED <<schedvars, l1ChainConfigs, solvervars, chain, currentOp,
                   overrideReshardEdges, bfvars, greedyvars, policy, applied, spills,
                   resultTypes, funcType>>

\* A to_layout to DRAM behind the op takes over its use.  The loop follows the
\* list of uses through the use it has just moved to the new op, so that no
\* further use is reached.
processSpillOp ==
    LET o == Last(l1ChainConfigs[Min(spills)].ops)
        new == Len(ops) + 1
    IN  /\ phase = "reconfig"
        /\ pendingEdges = {}
        /\ spills # {}
        /\ \E u \in uses(o) :
             ops' = Append([ops EXCEPT ![u[1]].ins[u[2]] = new],
                           newToLayout(ops[o].func, o, DRAM))
        /\ block' = [block EXCEPT ![ops[o].func] = insertAfter(@, o, new)]
        /\ spills' = spills \ {Min(spills)}
        /\ UNCHANGED <<schedvars, chainvars, solvervars, chain, currentOp,
                       overrideReshardEdges, bfvars, greedyvars, policy, applied,
                       pendingEdges, resultTypes, funcType>>

setFuncType ==
    /\ phase = "reconfig"
    /\ pendingEdges = {}
    /\ spills = {}
    /\ funcType' = [funcType EXCEPT ![applied] = resultTypes]
    /\ phase' = IF applied + 1 \in Funcs THEN "apply" ELSE "done"
    /\ applied' = IF applied + 1 \in Funcs THEN applied + 1 ELSE applied
    /\ UNCHANGED <<graphvars, schedvars, l1ChainConfigs, solvervars, chain,
                   currentOp, overrideReshardEdges, bfvars, greedyvars, policy,
                   pendingEdges, spills, resultTypes>>

DFSharding ==
    /\ policy = "DFSharding"
    /\ DFNext
    /\ UNCHANGED <<bfvars, greedyvars, optvars>>

BFInterleaved ==
    /\ policy = "BFInterleaved"
    /\ BFNext
    /\ UNCHANGED <<solvervars, chain, currentOp, overrideReshardEdges, greedyvars,
                   optvars>>

GreedyL1Interleaved ==
    /\ policy = "GreedyL1Interleaved"
    /\ GreedyNext
    /\ UNCHANGED <<solvervars, chain, currentOp, overrideReshardEdges, bfvars,
                   optvars>>

apply == applyAnalysis \/ processMemReconfigEdges \/ processSpillOp \/ setFuncType

Finished == phase \in {"done", "abort"} /\ UNCHANGED vars

Next == DFSharding \/ BFInterleaved \/ GreedyL1Interleaved \/ apply \/ Finished

\* The operands that overrideInputLayout names, as edges; to_layouts are skipped.
extractReshardEdges(overrideInputLayout) ==
    {<<ops[p[1]].ins[p[2]], p[1], p[2]>> :
       p \in {q \in overrideInputLayout : Kind(q[1]) # "to_layout"}}

\* The assertion behind it compares the ops with the edges.
overridesFound(overrideInputLayout) ==
    Cardinality({p[1] : p \in overrideInputLayout})
      = Cardinality(extractReshardEdges(overrideInputLayout))

Init ==
    /\ InitGraph
    /\ InitScheduler
    /\ InitChains
    /\ InitSolver
    /\ InitBF
    /\ InitGreedy
    /\ currentOp = 0
    /\ \E overrideInputLayout \in Overrides(ops) :
         /\ overrideReshardEdges = extractReshardEdges(overrideInputLayout)
         /\ phase = IF overridesFound(overrideInputLayout) THEN "schedule" ELSE "abort"
    /\ policy \in Policies(ops)
    /\ applied = 1
    /\ pendingEdges = {}
    /\ spills = {}
    /\ resultTypes = <<>>
    /\ funcType = [f \in Funcs |->
                     [i \in DOMAIN ops[terminator(f)].ins |->
                        operandLayout(terminator(f), i)]]

Spec == Init /\ [][Next]_vars

\* The pass is sequential code on one thread: it goes on until it is done.
FairSpec == Spec /\ WF_vars(Next)

-----------------------------------------------------------------------------
(* Properties                                                              *)

\* No assertion and no llvm_unreachable of the policies, of the chains or of
\* the solver is reached, whatever the backend answers: in particular the
\* solver never runs out of paths after a config has been set, and every
\* chain is Built when it is resolved.
AssertionsHold == phase # "abort"

\* The L1 check of the policy counts the results of an op and of its user
\* only.  That is enough because a chain's op has a single use and its user is
\* the very next op of the schedule, so that no other result of a chain is
\* alive at the same time.
ChainsConsecutive ==
    policy = "DFSharding" /\ phase \in {"schedule", "resolve"} =>
      \A c \in ToSet(l1ChainConfigs) : \A o \in ToSet(c.ops) :
        LET s == schedule[ops[o].func]
        IN  positionIn(s, o) < Len(s) =>
              {u[1] : u \in uses(o)} = {s[positionIn(s, o) + 1]} /\ hasOneUse(o)

inCompletedChain(o) == \E c \in Completed : o \in ToSet(c.ops)

\* Cases in which the inputs do differ from the validated ones: an input the
\* user overrides, a to_layout with several users that is resharded in place,
\* and an op that reads the resharded value twice.
notAsValidated(o) ==
    \/ \E e \in overrideReshardEdges : e[2] = o
    \/ \E i \in DOMAIN ops[o].ins :
         /\ ops[o].ins[i] # 0
         /\ Kind(ops[o].ins[i]) = "to_layout"
         /\ ~hasOneUse(ops[o].ins[i])
    \/ \E a \in accepted : a[1] = o /\ Cardinality(a[2]) > 1

\* When the pass is done, an op of a resolved chain has the config, and reads
\* its operands in the layouts, that the backend has accepted together; every
\* other op reads its operands from DRAM (a return also from the host).  It takes
\* the solver, the reshards and the spills together, so the reshards have to be
\* enabled.
InputsAsValidated ==
    phase = "done" /\ policy = "DFSharding" /\ memReconfigEnabled =>
      \A o \in DOMAIN ops :
        Kind(o) \in {"compute", "excluded", "return"} /\ ~notAsValidated(o) =>
          IF inCompletedChain(o)
          THEN \E a \in accepted :
                 /\ a[1] = o
                 /\ a[4] = ops[o].layout
                 /\ \A i \in DOMAIN ops[o].ins :
                      operandLayout(o, i) = IF i \in a[2] THEN a[3] ELSE DRAM
          ELSE \A i \in DOMAIN ops[o].ins :
                 \/ operandLayout(o, i) = DRAM
                 \/ operandLayout(o, i) = Host /\ Kind(o) = "return"

\* The greedy policy loses ops: those that only a later returned value needs,
\* and operands in L1 of an op for which getGreedyConfig has no choice.
scheduleIncomplete ==
    \E o \in DOMAIN precedenceMap : ~Contains(schedule[ops[o].func], o)

\* The ops that o depends on through any number of others, and o.
neededFor[o \in Nat] == {o} \cup UNION {neededFor[d] : d \in dependencies(o)}

\* An op that the greedy policy keeps in L1 although it requires all of L1, so
\* that no order of the operands of its users is legal.
requiresAllOfL1(o) ==
    /\ o \in DOMAIN OpMemSpecMap
    /\ OpMemSpecMap[o].layout = L1Interleaved
    /\ OpMemSpecMap[o].requiredL1Usage >= AvailableL1CacheSize

\* The precedences of all ops together lead the greedy policy from the first
\* returned value to every op that is needed for it.  Only what lies behind an op
\* that requires all of L1 is lost.
FirstResultScheduled ==
    policy = "GreedyL1Interleaved" /\ phase = "apply" /\ applied = 1 =>
      \A f \in Funcs :
        LET needed == neededFor[ops[terminator(f)].ins[1]]
        IN  \A o \in needed :
              \/ Contains(schedule[f], o)
              \/ \E d \in needed : requiresAllOfL1(d) /\ o \in neededFor[d]

\* The new order of the ops, with the to_layout ops that were inserted, defines
\* every value before its uses (unless the schedule is incomplete).
Dominance ==
    phase = "done" /\ ~scheduleIncomplete =>
      \A f \in Funcs : \A o \in ToSet(block[f]) : \A d \in operands(o) \ {0} :
        positionIn(block[f], d) < positionIn(block[f], o)

\* What the earlier passes leave to the optimizer: functions are numbered from 1
\* and each ends with its one return, of values of its own; a to_layout in front of
\* a return, which the layout pass puts there, has no other user, and no other one
\* goes to the host; an op with L1 configs has an operand; and an override names no
\* operand of a return, which has no result that would give the reshard its layout.
ModulesWellFormed ==
    \A g \in Graphs :
      /\ {g[o].func : o \in DOMAIN g} = 1 .. g[Len(g)].func
      /\ \A f \in 1 .. g[Len(g)].func : \E r \in DOMAIN g : \A o \in DOMAIN g :
           (g[o].func = f /\ g[o].kind = "return") <=> o = r
      /\ \A r \in DOMAIN g : \A i \in DOMAIN g[r].ins :
           LET d == g[r].ins[i]
           IN  g[r].kind = "return" /\ d # 0 =>
                 /\ d \in DOMAIN g
                 /\ g[d].func = g[r].func
                 /\ g[d].kind = "to_layout" =>
                      \A c \in DOMAIN g : d \in ToSet(g[c].ins) => g[c].kind = "return"
      /\ \A o, c \in DOMAIN g :
           g[o].layout = Host /\ o \in ToSet(g[c].ins) => g[c].kind = "return"
      /\ \A o \in DOMAIN g : g[o].kind \in {"compute", "excluded"} => g[o].ins # <<>>
      /\ \A overrideInputLayout \in Overrides(g) : \A p \in overrideInputLayout :
           p[1] \in DOMAIN g /\ g[p[1]].kind # "return" /\ p[2] \in DOMAIN g[p[1]].ins

\* The type of a function agrees with what its terminator returns, although
\* the types are collected before the reshards and the spills are inserted.
ResultTypesMatch ==
    phase = "done" =>
      \A f \in Funcs : funcType[f] = [i \in DOMAIN ops[terminator(f)].ins |->
                                        operandLayout(terminator(f), i)]

\* The choices of configs for a chain that respect every answer of the backend.
Solutions(c) ==
    {s \in [DOMAIN c.ops -> 1 .. K] :
       \A n \in DOMAIN c.ops :
         LET o == c.ops[n]
             into == {e \in DOMAIN c.memReconfigEntryMap : e[2] = o}
         IN  IF into # {}
             THEN \A e \in into : s[n] = c.memReconfigEntryMap[e].found.config
             ELSE \/ n = 1 /\ \E e \in overrideReshardEdges : e[2] = o
                  \/ \E a \in accepted :
                       /\ a[1] = o
                       /\ a[3] = IF n = 1 THEN DRAM ELSE s[n - 1]
                       /\ a[4] = s[n]}

coresUsed(s) == FoldLeft(LAMBDA n, config : n + GridVolume[config], 0, s)

\* The configs of a chain use as many cores as any consistent choice does.
MaximisesCoreUsage ==
    policy = "DFSharding" /\ phase = "apply" =>
      \A c \in Completed :
        /\ c.config \in Solutions(c)
        /\ \A s \in Solutions(c) : coresUsed(s) <= coresUsed(c.config)

\* The running L1 usage of the breadth first policy is the size of the results
\* in L1 that have a user which is not scheduled yet, and within the budget.
L1UsageExact ==
    policy = "BFInterleaved" /\ phase = "schedule" =>
      LET done == ToSet(schedule[func])
          live == {o \in ToSet(lastChain.ops) : \E u \in uses(o) : u[1] \notin done}
      IN  /\ currentL1Usage = FoldSet(LAMBDA o, n : OutputL1Usage[o] + n, 0, live)
          /\ currentL1Usage <= AvailableL1CacheSize

\* The greedy policy decides op by op, and computes needs in an order that it
\* then changes; still, wherever the depth first schedule is, the results in L1
\* that are computed and have a use to come fit in L1 together.
GreedyFitsL1 ==
    policy = "GreedyL1Interleaved" /\ phase = "apply" /\ ~scheduleIncomplete =>
      \A f \in Funcs : \A n \in DOMAIN schedule[f] :
        LET done == ToSet(SubSeq(schedule[f], 1, n - 1))
            live == {o \in done \cup {schedule[f][n]} :
                       /\ layoutOf(o) = L1Interleaved
                       /\ \E u \in uses(o) : u[1] \notin done}
        IN  sumOutputs(live) <= AvailableL1CacheSize

\* The pass ends: the work lists of the solver drain and every op is scheduled.
Terminates == <>(phase = "done")
==============================================================================
