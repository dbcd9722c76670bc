-------------------------- MODULE DFShardingPolicy --------------------------
(***************************************************************************)
(* The depth first sharding policy.  It schedules the ops of a function so *)
(* that an op is followed by its user, and grows a chain as long as the    *)
(* current op has that user alone; then every chain is resolved with a     *)
(* solver of its own and ends with a spill to DRAM.                        *)
(***************************************************************************)
EXTENDS ShardSolver

VARIABLE
    currentOp       \* the op to schedule next, 0 for none

dfvars == <<graphvars, schedvars, chainvars, solvervars, chain, currentOp,
            overrideReshardEdges>>

lastChain == l1ChainConfigs[Len(l1ChainConfigs)]

\* Layout ops go first while no chain is open.
candidates ==
    LET ready == getScheduleableOps(schedule[func])
        layoutOps == {o \in ready : Kind(o) = "to_layout"}
    IN  IF isEmpty(lastChain) /\ layoutOps # {} THEN layoutOps
        ELSE IF currentOp # 0 THEN {currentOp}
        ELSE ready

\* Mutant: an op with several uses may join a chain.
validForShardingForks(o, nextOp) ==
    /\ shardedConfigs(o) # {}
    /\ shardedConfigs(nextOp) # {}
    /\ Kind(o) # "excluded"

validForSharding(o, nextOp) ==
    /\ hasOneUse(o)
    /\ shardedConfigs(o) # {}
    /\ shardedConfigs(nextOp) # {}
    /\ Kind(o) # "excluded"

\* The op starts no chain.
skipLayoutOp(o) ==
    /\ isEmpty(lastChain)
    /\ Kind(o) = "to_layout"
    /\ currentOp' = 0
    /\ UNCHANGED chainvars

\* The op joins the chain and its user is next.  That both fit in L1 depends
\* on sizes the model leaves out: endChain is possible in any case.
extendChain(o, nextOp) ==
    /\ nextOp \in getScheduleableOps(Append(schedule[func], o))
    /\ o \in operands(nextOp)
    /\ validForSharding(o, nextOp)
    /\ l1ChainConfigs' = addOpL1MemSpec(o)
    /\ currentOp' = nextOp
    /\ UNCHANGED phase

\* The op does not join the chain, which ends if there is one.
endChain(o) ==
    /\ isEmpty(lastChain) => Kind(o) # "to_layout"
    /\ currentOp' = 0
    /\ IF isEmpty(lastChain)
       THEN UNCHANGED l1ChainConfigs
       ELSE l1ChainConfigs' = Append(Front(l1ChainConfigs) \o <<build(lastChain)>>,
                                     NewChain)
    /\ UNCHANGED phase

\* One round of the scheduling loop.
scheduleRound ==
    /\ phase = "schedule"
    /\ unscheduledOps(schedule[func]) # {}
    /\ \E o \in candidates :
         /\ scheduleOp(o)
         /\ \/ skipLayoutOp(o)
            \/ \E nextOp \in DOMAIN ops : extendChain(o, nextOp)
            \/ endChain(o)
    /\ UNCHANGED <<graphvars, func, solvervars, chain, overrideReshardEdges>>

\* The walk goes to the next function with a new chain; after the last one an
\* empty chain at the end is dropped.
nextFunc ==
    /\ phase = "schedule"
    /\ unscheduledOps(schedule[func]) = {}
    /\ currentOp' = 0
    /\ IF func + 1 \in Funcs
       THEN /\ func' = func + 1
            /\ l1ChainConfigs' = Append(l1ChainConfigs, NewChain)
            /\ UNCHANGED phase
       ELSE /\ phase' = "resolve"
            /\ l1ChainConfigs' = IF isEmpty(lastChain) THEN Front(l1ChainConfigs)
                                 ELSE l1ChainConfigs
            /\ UNCHANGED func
    /\ UNCHANGED <<graphvars, schedule, solvervars, chain, overrideReshardEdges>>

-----------------------------------------------------------------------------
(* The chains are resolved one after another.                              *)

resolveWithSolver ==
    /\ stage = "idle"
    /\ chain \in DOMAIN l1ChainConfigs
    /\ IF l1ChainConfigs[chain].state # "Built"
       THEN phase' = "abort" /\ UNCHANGED <<stage, at, bitsets>>
       ELSE /\ stage' = "first"
            /\ at' = 1
            /\ bitsets' = [o \in shardedOps |-> kBitsetAll]
            /\ UNCHANGED phase
    /\ UNCHANGED <<l1ChainConfigs, chain, pathSets, memReconfigMap, queue,
                   needsUpdate, accMaxCoreUsage, selectedOpConfig, accepted>>

chainFailed ==
    /\ stage = "failed"
    /\ l1ChainConfigs' = [l1ChainConfigs EXCEPT ![chain].state = "Failed"]
    /\ chain' = chain + 1
    /\ resetSolver
    /\ UNCHANGED phase

chainResolved ==
    /\ stage = "update"
    /\ needsUpdate = <<>>
    /\ at = Len(shardSpecs)
    /\ l1ChainConfigs' = [l1ChainConfigs EXCEPT ![chain].state = "Resolved"]
    /\ stage' = "pick"
    /\ at' = 1
    /\ accMaxCoreUsage' = produceMaxCoreUsage
    /\ UNCHANGED <<chain, phase, bitsets, pathSets, memReconfigMap, queue,
                   needsUpdate, selectedOpConfig, accepted>>

\* The config that leads to the most cores; among equals the last one that is
\* not block sharded, or else the first.
bestConfig(o) ==
    LET cores == Max({accMaxCoreUsage[o][c] : c \in remaining(o)})
        best == {c \in remaining(o) : accMaxCoreUsage[o][c] = cores}
    IN  IF best \subseteq BlockSharded THEN Min(best) ELSE Max(best \ BlockSharded)

pickOpShardConfig ==
    /\ stage = "pick"
    /\ IF remaining(shardSpecs[at]) = {}
       THEN phase' = "abort" /\ UNCHANGED solvervars
       ELSE set(shardSpecs[at], bestConfig(shardSpecs[at]))
    /\ UNCHANGED <<l1ChainConfigs, chain>>

nextPick ==
    /\ stage = "settle"
    /\ needsUpdate = <<>>
    /\ at < Len(shardSpecs)
    /\ stage' = "pick"
    /\ at' = at + 1
    /\ UNCHANGED <<l1ChainConfigs, phase, chain, bitsets, pathSets,
                   memReconfigMap, queue, needsUpdate, accMaxCoreUsage,
                   selectedOpConfig, accepted>>

\* All configs of the chain are sharded, so its end is always spilled.
chainCompleted ==
    /\ stage = "settle"
    /\ needsUpdate = <<>>
    /\ at = Len(shardSpecs)
    /\ l1ChainConfigs' =
         [l1ChainConfigs EXCEPT ![chain] =
            [complete(@, selectedOpConfig, memReconfigMap) EXCEPT
               !.spillEndToDRAM = TRUE]]
    /\ chain' = chain + 1
    /\ resetSolver
    /\ UNCHANGED phase

resolveChain ==
    /\ phase = "resolve"
    /\ \/ resolveWithSolver
       \/ resolveEdge /\ UNCHANGED <<l1ChainConfigs, chain>>
       \/ /\ preprocessFirstOp \/ process \/ nextConsumer \/ nextUpdate
          /\ UNCHANGED <<chainvars, chain>>
       \/ updateRound /\ UNCHANGED <<l1ChainConfigs, chain>>
       \/ chainFailed
       \/ chainResolved
       \/ pickOpShardConfig
       \/ nextPick
       \/ chainCompleted
    /\ UNCHANGED <<graphvars, schedvars, currentOp, overrideReshardEdges>>

\* The end of the policy's run.
chainsDone ==
    /\ phase = "resolve"
    /\ stage = "idle"
    /\ chain > Len(l1ChainConfigs)
    /\ phase' = "apply"
    /\ UNCHANGED <<graphvars, schedvars, l1ChainConfigs, solvervars, chain,
                   currentOp, overrideReshardEdges>>

DFNext == scheduleRound \/ nextFunc \/ resolveChain \/ chainsDone
==============================================================================
