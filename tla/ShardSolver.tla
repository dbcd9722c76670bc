----------------------------- MODULE ShardSolver -----------------------------
(***************************************************************************)
(* The solver of a sharding chain.  Every op keeps a bitset of the configs *)
(* that are still possible and every edge between two ops of the chain a   *)
(* set of paths, pairs of a producer and a consumer config the backend     *)
(* accepts.  Removing a config removes its paths and, through them, configs*)
(* of the neighbours.  Where no path exists a reshard is put on the edge.  *)
(*                                                                         *)
(* The backend's op model is external: whatever it may answer is chosen    *)
(* when it is asked, and accepted records what it allowed.  One layout is  *)
(* checked at a time; all other operands are taken to be in DRAM.          *)
(***************************************************************************)
EXTENDS L1ChainConfig

CONSTANTS
    kNumBitsetBits,
    GridVolume,         \* of each sharded config
    BlockSharded        \* the configs with a block sharded layout

ASSUME SolverAssumption ==
    /\ kNumBitsetBits \in Nat
    /\ K <= kNumBitsetBits
    /\ GridVolume \in [1 .. K -> Nat \ {0}]
    /\ BlockSharded \subseteq 1 .. K

VARIABLES
    overrideReshardEdges,   \* edges <<producer, consumer, operand>> of the user
    chain,                  \* the chain that is resolved
    stage, at,              \* where the solver is, and at which op of the chain
    bitsets, pathSets, memReconfigMap,
    queue,                  \* of OperationPathsProcessor
    needsUpdate,            \* the work list of updateSolver
    accMaxCoreUsage, selectedOpConfig,
    accepted                \* {<<consumer, operands, layout, config>>}

solvervars == <<stage, at, bitsets, pathSets, memReconfigMap, queue,
                needsUpdate, accMaxCoreUsage, selectedOpConfig, accepted>>

shardSpecs == l1ChainConfigs[chain].ops
shardedOps == ToSet(shardSpecs)
kBitsetAll == 1 .. kNumBitsetBits

operandOpEdges(o) ==
    SelectSeq([i \in DOMAIN ops[o].ins |-> <<ops[o].ins[i], o, i>>],
              LAMBDA e : e[1] \in shardedOps)

userOpEdges(o) ==
    FlattenSeq([n \in DOMAIN shardSpecs |->
                  SelectSeq(operandOpEdges(shardSpecs[n]), LAMBDA e : e[1] = o)])

\* getOperandPathSetsPts and getUserPathSetsPts: the edges resolved so far.
resolvedOf(edges) == SelectSeq(edges, LAMBDA e : e \in DOMAIN pathSets)
pathSetEdges(o) == resolvedOf(operandOpEdges(o)) \o resolvedOf(userOpEdges(o))

\* checkShardCompatible gives the layout to every operand that is the value
\* under check, and DRAM to all others.
checkedOperands(e) ==
    IF e[1] = 0 THEN {e[3]}
    ELSE {i \in DOMAIN ops[e[2]].ins : ops[e[2]].ins[i] = e[1]}

-----------------------------------------------------------------------------
(* PathSet                                                                 *)

\* Mutant: only the producer's end of a path is looked at.
livePathsOfProducer(st, e) == {p \in st.pathSets[e] : p[1] \in st.bitsets[e[1]]}

livePaths(st, e) ==
    {p \in st.pathSets[e] : p[1] \in st.bitsets[e[1]] /\ p[2] \in st.bitsets[e[2]]}

\* PathSet::update: drops the dead paths and the configs without a path.
update(st, e) ==
    LET paths == livePaths(st, e)
        b == [st.bitsets EXCEPT ![e[1]] = @ \cap {p[1] : p \in paths},
                                ![e[2]] = @ \cap {p[2] : p \in paths}]
    IN  [st EXCEPT !.bitsets = b,
                   !.pathSets[e] = paths,
                   !.changed = IF b = st.bitsets THEN @ ELSE Append(@, e)]

addOp(q, o) == IF Contains(q, o) THEN q ELSE Append(q, o)

\* PathSet::updateOperationProcessor: as update, and both ops are queued, the
\* consumer first when it is the producer that lost a config.
updateOperationProcessor(st, e) ==
    LET new == update(st, e)
        lost(o) == new.bitsets[o] # st.bitsets[o]
        q1 == IF lost(e[1]) THEN addOp(addOp(st.queue, e[2]), e[1]) ELSE st.queue
        q2 == IF lost(e[2]) THEN addOp(addOp(q1, e[1]), e[2]) ELSE q1
    IN  [new EXCEPT !.queue = q2]

State(b, q) ==
    [bitsets |-> b, pathSets |-> pathSets, queue |-> q, changed |-> <<>>]

\* PathSet::empty
emptyPathSet(st, e) ==
    {} \in {st.pathSets[e], st.bitsets[e[1]], st.bitsets[e[2]]}

-----------------------------------------------------------------------------
(* resolveStep                                                             *)

NoReshard == [layout |-> DRAM, config |-> 0]

\* What insertReshard may find for an edge: the first sharded layout of the
\* operand's type that the backend takes, with the config it answers.  The
\* layouts in asked have been refused before.
Reshards(asked) == {NoReshard} \cup [layout : Sharded \ asked, config : 1 .. K]

\* insertReshard clears the consumer's bitset first, also when it fails.
insertReshard(e, found) ==
    /\ memReconfigMap' = IF found = NoReshard THEN memReconfigMap
                         ELSE [d \in DOMAIN memReconfigMap \cup {e} |->
                                 IF d \in DOMAIN memReconfigMap THEN memReconfigMap[d]
                                 ELSE [found |-> found, selected |-> 0]]
    /\ accepted' = IF found = NoReshard THEN accepted
                   ELSE accepted \cup {<<e[2], checkedOperands(e), found.layout,
                                         found.config>>}

\* The first op of the chain reads its operand 0 from DRAM if the backend can
\* do that for one of its configs at least, and after a reshard otherwise.
preprocessFirstOp ==
    LET first == shardSpecs[1]
        e == <<ops[first].ins[1], first, 1>>
    IN  /\ stage = "first"
        /\ IF e \in overrideReshardEdges
           THEN stage' = "edges" /\ UNCHANGED <<bitsets, memReconfigMap, accepted>>
           ELSE \E valid \in SUBSET shardedConfigs(first) :
                  \/ /\ valid # {}
                     /\ bitsets' = [bitsets EXCEPT
                                      ![first] = @ \ (shardedConfigs(first) \ valid)]
                     /\ accepted' = accepted \cup
                                      {<<first, checkedOperands(e), DRAM, c>> : c \in valid}
                     /\ stage' = "edges"
                     /\ UNCHANGED memReconfigMap
                  \/ /\ valid = {}
                     /\ \E found \in Reshards({}) :
                          /\ insertReshard(e, found)
                          /\ bitsets' = [bitsets EXCEPT
                                           ![first] = {found.config} \ {0}]
                          /\ stage' = IF found = NoReshard THEN "failed" ELSE "edges"
        /\ UNCHANGED <<at, pathSets, queue, needsUpdate, accMaxCoreUsage,
                       selectedOpConfig>>

edgesLeft(o) ==
    {<<ops[o].ins[i], o, i>> : i \in {j \in DOMAIN ops[o].ins : ops[o].ins[j] \in shardedOps}}
      \ DOMAIN pathSets

\* In operand order.
nextEdge(o) == CHOOSE e \in edgesLeft(o) : \A d \in edgesLeft(o) : e[3] <= d[3]

\* The paths of an edge are recorded, and its ends keep the configs on them.
recordPaths(e, paths, edgeProducer, consumerBitset) ==
    /\ bitsets' = [bitsets EXCEPT
                     ![e[1]] = @ \cap edgeProducer,
                     ![e[2]] = consumerBitset \cap {p[2] : p \in paths}]
    /\ queue' = IF bitsets[e[1]] \subseteq edgeProducer THEN queue
                ELSE addOp(queue, e[1])
    /\ pathSets' = pathSets @@ e :> paths

\* The next edge of the consumer: the backend is asked for every config of the
\* producer that is left and answers with a config of the consumer, or 0.
\* (An overridden edge has no entry in memReconfigMap yet: its at() asserts.)
resolveEdge ==
    /\ stage = "edges"
    /\ edgesLeft(shardSpecs[at]) # {}
    /\ LET e == nextEdge(shardSpecs[at])
           producers == bitsets[e[1]] \cap shardedConfigs(e[1])
       IN  \E answer \in [producers -> 0 .. K] :
             LET paths == {<<q, answer[q]>> : q \in {p \in producers : answer[p] # 0}}
                 consumers == {p[2] : p \in paths}
             IN  \/ /\ consumers \cap bitsets[e[2]] # {}
                    /\ recordPaths(e, paths, {p[1] : p \in paths}, bitsets[e[2]])
                    /\ accepted' = accepted \cup
                         {<<e[2], checkedOperands(e), p[1], p[2]>> : p \in paths}
                    /\ UNCHANGED <<stage, memReconfigMap>>
                 \/ /\ consumers \cap bitsets[e[2]] = {}
                    /\ \E found \in Reshards(producers) :
                         /\ insertReshard(e, found)
                         /\ IF found = NoReshard
                            THEN /\ stage' = "failed"
                                 /\ UNCHANGED <<bitsets, queue, pathSets>>
                            ELSE /\ recordPaths(e,
                                      paths \cup {<<q, found.config>> : q \in producers},
                                      bitsets[e[1]], {found.config})
                                 /\ UNCHANGED stage
    /\ phase' = IF nextEdge(shardSpecs[at]) \in overrideReshardEdges
                THEN "abort" ELSE phase
    /\ UNCHANGED <<at, needsUpdate, accMaxCoreUsage, selectedOpConfig>>

\* Mutant: the op stays in the queue.
processedNotPopped ==
    FoldLeft(updateOperationProcessor, State(bitsets, queue),
             pathSetEdges(Last(queue)))

processed ==
    FoldLeft(updateOperationProcessor, State(bitsets, Front(queue)),
             pathSetEdges(Last(queue)))

\* One round of OperationPathsProcessor::process, last in first out.
process ==
    /\ stage = "edges"
    /\ edgesLeft(shardSpecs[at]) = {}
    /\ queue # <<>>
    /\ \E st \in {processed} :
         bitsets' = st.bitsets /\ pathSets' = st.pathSets /\ queue' = st.queue
    /\ UNCHANGED <<stage, at, memReconfigMap, needsUpdate, accMaxCoreUsage,
                   selectedOpConfig, accepted>>

\* To the next consumer; after the last one updateSolver is called for all ops.
nextConsumer ==
    /\ stage = "edges"
    /\ edgesLeft(shardSpecs[at]) = {}
    /\ queue = <<>>
    /\ IF at < Len(shardSpecs)
       THEN at' = at + 1 /\ UNCHANGED <<stage, needsUpdate>>
       ELSE /\ stage' = "update"
            /\ at' = 1
            /\ needsUpdate' = <<shardSpecs[1]>>
    /\ UNCHANGED <<bitsets, pathSets, memReconfigMap, queue, accMaxCoreUsage,
                   selectedOpConfig, accepted>>

-----------------------------------------------------------------------------
(* updateSolver                                                            *)

\* addOperandsAndUsers: no TTNN op has the destination style interface, so
\* only the users are added, except ignoreOp.
addOperandsAndUsers(o, ignoreOp) ==
    SetToSeq(({u[1] : u \in uses(o)} \cap shardedOps) \ {ignoreOp})

\* What a changed edge pushes when it is seen from op o: the op at its other
\* end and that op's users.
otherEnd(e, o) == IF e[2] = o THEN e[1] ELSE e[2]
pushed(changed, o) ==
    FlattenSeq([n \in DOMAIN changed |->
                  <<otherEnd(changed[n], o)>>
                    \o addOperandsAndUsers(otherEnd(changed[n], o), o)])

\* One round of the while loop: the op on top stays until nothing changes.
updateRound ==
    /\ needsUpdate # <<>>
    /\ \E o \in {Last(needsUpdate)} : \E edges \in {pathSetEdges(o)} :
        \E st \in {FoldLeft(update, State(bitsets, queue), edges)} :
        /\ bitsets' = st.bitsets
        /\ pathSets' = st.pathSets
        /\ needsUpdate' = IF st.changed = <<>> THEN Front(needsUpdate)
                          ELSE needsUpdate \o pushed(st.changed, o)
        \* handleNoPathsLeftOnUpdate: llvm_unreachable
        /\ phase' = IF \E e \in ToSet(edges) : emptyPathSet(st, e)
                    THEN "abort" ELSE phase
        /\ UNCHANGED <<stage, at, memReconfigMap, queue, accMaxCoreUsage,
                       selectedOpConfig, accepted>>

\* updateSolver of the next op of the chain, without expanding the root.
nextUpdate ==
    /\ stage = "update"
    /\ needsUpdate = <<>>
    /\ at < Len(shardSpecs)
    /\ at' = at + 1
    /\ needsUpdate' = <<shardSpecs[at + 1]>>
    /\ UNCHANGED <<stage, bitsets, pathSets, memReconfigMap, queue,
                   accMaxCoreUsage, selectedOpConfig, accepted>>

-----------------------------------------------------------------------------
(* The selection                                                           *)

\* Mutant: the cores of the op alone.
produceOwnCoreUsage == [o \in shardedOps |-> GridVolume]

\* From the tail of the chain: the cores of a config and the most that its
\* users can add to them over live paths.  (In a chain a consumer has one
\* producer, by which the code divides.)
produceMaxCoreUsage ==
    LET n == Len(shardSpecs)
        acc[i \in 1 .. n] ==
            [c \in 1 .. K |->
               GridVolume[c] +
               IF i = n THEN 0
               ELSE Max({0} \cup
                        {acc[i + 1][p[2]] :
                           p \in {q \in pathSets[Head(userOpEdges(shardSpecs[i]))] :
                                    q[1] = c}})]
    IN  [o \in shardedOps |-> acc[positionIn(shardSpecs, o)]]

\* at(op): the configs left, smallest index first.
remaining(o) == bitsets[o] \cap shardedConfigs(o)

\* set(op, config): the op keeps one config, an entry on an edge into it is
\* told, and updateSolver starts with the op's own edges.
set(o, config) ==
    LET entries == {e \in DOMAIN memReconfigMap : e[2] = o}
        b == [bitsets EXCEPT ![o] = {config}]
    IN  \E st \in {FoldLeft(update, State(b, queue), pathSetEdges(o))} :
        /\ selectedOpConfig' = selectedOpConfig @@ o :> config
        /\ memReconfigMap' = [e \in DOMAIN memReconfigMap |->
                                IF e \in entries
                                THEN [memReconfigMap[e] EXCEPT !.selected = config]
                                ELSE memReconfigMap[e]]
        /\ bitsets' = st.bitsets
        /\ pathSets' = st.pathSets
        /\ needsUpdate' = <<o>> \o addOperandsAndUsers(o, 0)
        /\ stage' = "settle"
        /\ phase' = IF /\ config \in bitsets[o]
                       /\ \A e \in entries : memReconfigMap[e].found.config = config
                    THEN phase ELSE "abort"
        /\ UNCHANGED <<at, queue, accMaxCoreUsage, accepted>>

resetSolver ==
    /\ stage' = "idle"
    /\ at' = 0
    /\ bitsets' = NoEntries
    /\ pathSets' = NoEntries
    /\ memReconfigMap' = NoEntries
    /\ queue' = <<>>
    /\ needsUpdate' = <<>>
    /\ accMaxCoreUsage' = NoEntries
    /\ selectedOpConfig' = NoEntries
    /\ UNCHANGED accepted

InitSolver ==
    /\ chain = 1
    /\ stage = "idle"
    /\ at = 0
    /\ bitsets = NoEntries
    /\ pathSets = NoEntries
    /\ memReconfigMap = NoEntries
    /\ queue = <<>>
    /\ needsUpdate = <<>>
    /\ accMaxCoreUsage = NoEntries
    /\ selectedOpConfig = NoEntries
    /\ accepted = {}
==============================================================================
