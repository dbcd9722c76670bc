---------------------- MODULE GreedyL1InterleavedPolicy ----------------------
(***************************************************************************)
(* The greedy interleaved policy.  When an op is scheduled, the policy     *)
(* chooses which of the op and its operands in L1 stay there, so that most *)
(* of L1 is used, and in which order the operands have to be computed.     *)
(* The schedule is then built depth first from the returned value.         *)
(***************************************************************************)
EXTENDS BFInterleavedPolicy

VARIABLES
    roundOps,       \* the ready ops of this round that are not scheduled yet
    scheduled,      \* what the scheduler has scheduled
    OpMemSpecMap,   \* op -> [layout, requiredL1Usage]
    precedenceMap   \* op -> the order in which its operands are computed

greedyvars == <<roundOps, scheduled, OpMemSpecMap, precedenceMap>>

sumOutputs(S) == FoldSet(LAMBDA o, n : OutputL1Usage[o] + n, 0, S)

\* opsL1Usage: the op, if its result has one use, and its operands in L1.
opsL1Usage(o) ==
    {d \in operands(o) \ {0} : /\ isAnalyzable(d)
                               /\ OpMemSpecMap[d].layout = L1Interleaved}
    \cup {d \in {o} : hasOneUse(d) /\ hasL1BufferType(d)}

requiredOf(d) == OpMemSpecMap[d].requiredL1Usage

\* The L1 that is needed to compute the ops of p one after the other.
requiredForOrder(p) ==
    Max({0} \cup {sumOutputs(ToSet(SubSeq(p, 1, i - 1))) + requiredOf(p[i]) :
                    i \in DOMAIN p})

\* The orders of the L1 operands that need the least, if that is less than L1.
L1Precedences(S) ==
    LET orders == SetToSeqs(S)
    IN  {p \in orders : /\ requiredForOrder(p) < AvailableL1CacheSize
                        /\ \A q \in orders : requiredForOrder(p) <= requiredForOrder(q)}

legalMasks(o) ==
    {S \in SUBSET opsL1Usage(o) : /\ sumOutputs(S) > 0
                                  /\ sumOutputs(S) <= AvailableL1CacheSize
                                  /\ L1Precedences(S \ {o}) # {}}

\* The choices of getGreedyConfig: a legal mask that uses most of L1, the
\* operands it leaves in DRAM in any order, and an order of those in L1.  The
\* choice depends on the addresses of the ops.  No legal mask: no choice.
getGreedyConfig(o) ==
    LET masks == legalMasks(o)
        best == {S \in masks : \A T \in masks : sumOutputs(T) <= sumOutputs(S)}
        layouts(S) == [d \in opsL1Usage(o) |-> IF d \in S THEN L1Interleaved ELSE DRAM]
    IN  IF masks = {} THEN {[configs |-> NoEntries, precedence |-> <<>>]}
        ELSE UNION {{[configs |-> layouts(S), precedence |-> inDRAM \o inL1] :
                       inDRAM \in SetToSeqs(opsL1Usage(o) \ (S \cup {o})),
                       inL1 \in L1Precedences(S \ {o})} : S \in best}

\* Mutant: operands in DRAM are left out, unless they are not analyzed at all.
opsPrecedenceNoDRAM(o) ==
    SelectSeq(ops[o].ins, LAMBDA d : d # 0 /\ isTTSchedulableOp(d) /\ ~isAnalyzable(d))

\* The operands that are not in L1, in operand order.
opsPrecedence(o) ==
    SelectSeq(ops[o].ins, LAMBDA d : d # 0 /\ isTTSchedulableOp(d) /\ d \notin opsL1Usage(o))

\* What the op needs when its operands are computed in operand order.
requiredL1Usage(o, layout) ==
    LET inputs == SelectSeq(ops[o].ins, isAnalyzable)
        usage(d) == IF layout[d] = DRAM THEN 0 ELSE OutputL1Usage[d]
        before(i) == FoldLeft(LAMBDA n, d : n + usage(d), 0, SubSeq(inputs, 1, i))
    IN  Max({before(i - 1) + requiredOf(inputs[i]) : i \in DOMAIN inputs}
            \cup {before(Len(inputs)) + usage(o)})

memSpec(layout, required) == [layout |-> layout, requiredL1Usage |-> required]

\* One op of a round.  The op starts in DRAM.
scheduleGreedily ==
    /\ phase = "schedule"
    /\ \E o \in roundOps : \E choice \in getGreedyConfig(o) :
         LET before == IF isAnalyzable(o) THEN o :> memSpec(DRAM, 0) @@ OpMemSpecMap
                       ELSE OpMemSpecMap
             layout == [d \in DOMAIN before |->
                          IF d \in DOMAIN choice.configs THEN choice.configs[d]
                          ELSE before[d].layout]
             required == [d \in DOMAIN before |->
                            IF d = o THEN requiredL1Usage(o, layout)
                            ELSE before[d].requiredL1Usage]
         IN  /\ OpMemSpecMap' = [d \in DOMAIN before |-> memSpec(layout[d], required[d])]
             /\ precedenceMap' = o :> (opsPrecedence(o) \o choice.precedence)
                                 @@ precedenceMap
             /\ scheduled' = Append(scheduled, o)
             /\ roundOps' = roundOps \ {o}
    /\ UNCHANGED <<graphvars, schedvars, chainvars>>

nextRound ==
    /\ phase = "schedule"
    /\ roundOps = {}
    /\ unscheduledOps(scheduled) # {}
    /\ roundOps' = getScheduleableOps(scheduled)
    /\ UNCHANGED <<graphvars, schedvars, chainvars, scheduled, OpMemSpecMap,
                   precedenceMap>>

\* Depth first, an op after its precedents; the graph has no cycle, so an op
\* that was visited is in the schedule s.
buildSchedule[o \in Nat, s \in Seq(Nat)] ==
    Append(FoldLeft(LAMBDA t, d : IF Contains(t, d) THEN t ELSE buildSchedule[d, t],
                    s, precedenceMap[o]),
           o)

\* The schedule follows the first returned value only.
constructSchedule == buildSchedule[ops[Last(block[func])].ins[1], <<>>]

\* The function's chain holds all ops of the map, also those in DRAM.
completeFunc ==
    /\ phase = "schedule"
    /\ roundOps = {}
    /\ unscheduledOps(scheduled) = {}
    /\ schedule' = [schedule EXCEPT ![func] = constructSchedule]
    /\ l1ChainConfigs' =
         LET specs == [NewChain EXCEPT !.ops = SetToSeq(DOMAIN OpMemSpecMap)]
             configs == [o \in DOMAIN OpMemSpecMap |-> OpMemSpecMap[o].layout]
         IN  Front(l1ChainConfigs)
             \o <<complete(resolve(build(specs)), configs, NoEntries)>>
             \o (IF func + 1 \in Funcs THEN <<NewChain>> ELSE <<>>)
    /\ phase' = IF func + 1 \in Funcs THEN "schedule" ELSE "apply"
    /\ func' = IF func + 1 \in Funcs THEN func + 1 ELSE func
    /\ scheduled' = <<>>
    /\ OpMemSpecMap' = IF func + 1 \in Funcs THEN NoEntries ELSE OpMemSpecMap
    /\ UNCHANGED <<graphvars, roundOps, precedenceMap>>

GreedyNext == scheduleGreedily \/ nextRound \/ completeFunc

InitGreedy ==
    /\ roundOps = {}
    /\ scheduled = <<>>
    /\ OpMemSpecMap = NoEntries
    /\ precedenceMap = NoEntries
==============================================================================
