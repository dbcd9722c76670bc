------------------------- MODULE BFInterleavedPolicy -------------------------
(***************************************************************************)
(* The breadth first interleaved policy.  Among the ops that can be        *)
(* scheduled it takes the one that changes the L1 usage least, and keeps   *)
(* its result in L1 while the budget allows; a result is freed when its    *)
(* last user is scheduled.  All sizes are unsigned words.                  *)
(***************************************************************************)
EXTENDS L1ChainConfig

CONSTANTS
    WordBits,
    OutputL1Usage,          \* getOpOutputL1Usage of each op's L1 layout
    AvailableL1CacheSize

ASSUME WordAssumption ==
    /\ WordBits \in Nat
    /\ AvailableL1CacheSize \in 0 .. 2 ^ WordBits - 1
    /\ \A o \in DOMAIN OutputL1Usage : OutputL1Usage[o] \in 0 .. 2 ^ WordBits - 1
    /\ \A g \in Graphs : \A o \in DOMAIN g :
         g[o].kind \in {"compute", "excluded"} => o \in DOMAIN OutputL1Usage

VARIABLES
    currentL1UsagePerOp,    \* op -> [l1MemUsagePerUser, numOfUnscheduledUsers]
    currentL1Usage

bfvars == <<currentL1UsagePerOp, currentL1Usage>>

MaxWord == 2 ^ WordBits - 1
sub(a, b) == (a - b) % 2 ^ WordBits

\* Mutant: an op that can only be in DRAM is not looked at.
hasL1Config(o) == o # 0 /\ L1Interleaved \in interleavedConfigs(o)

\* Ops with legal configs that are in DRAM or interleaved in L1.
isAnalyzable(o) == o # 0 /\ interleavedConfigs(o) # {}

hasL1BufferType(o) == o # 0 /\ L1Interleaved \in interleavedConfigs(o)

\* How often an op is an operand of another.
timesUsedBy(c, o) == Cardinality({u \in uses(o) : u[1] = c})

analyzableOperands(o) ==
    {d \in operands(o) : isAnalyzable(d) /\ d \in DOMAIN currentL1UsagePerOp}

usersLeft(d) == currentL1UsagePerOp[d].numOfUnscheduledUsers
usageOf(d) == currentL1UsagePerOp[d].l1MemUsagePerUser

sumUsage(S) == FoldSet(LAMBDA d, n : usageOf(d) + n, 0, S)

\* walkOnAnalyzableOperands visits an operand as often as it occurs.
deallocOfL1Mem(o) ==
    sumUsage({d \in analyzableOperands(o) : usersLeft(d) = 1})

fitsL1(o) ==
    hasL1BufferType(o) /\ currentL1Usage + OutputL1Usage[o] <= AvailableL1CacheSize

changeInL1Usage(o) ==
    sub(IF fitsL1(o) THEN OutputL1Usage[o] ELSE 0, deallocOfL1Mem(o))

\* Any op whose change is the least, in the order the set offers them.
leastChange(ready) ==
    {o \in ready : /\ changeInL1Usage(o) < MaxWord
                   /\ \A d \in ready : changeInL1Usage(o) <= changeInL1Usage(d)}

\* Mutant: users are counted instead of uses; an op may use a value twice.
numOfDistinctUsers(o) == Cardinality({u[1] : u \in uses(o)})

numOfUsers(o) == Cardinality(uses(o))

\* The op's own result, if it goes to L1.
allocated(o) == {d \in {o} : fitsL1(d)}

opL1MemUsage(o) ==
    [l1MemUsagePerUser |-> OutputL1Usage[o], numOfUnscheduledUsers |-> numOfUsers(o)]

scheduleLeastChange ==
    /\ phase = "schedule"
    /\ unscheduledOps(schedule[func]) # {}
    /\ \E o \in leastChange(getScheduleableOps(schedule[func])) :
         LET freed == {d \in analyzableOperands(o) : usersLeft(d) = timesUsedBy(o, d)}
         IN  /\ currentL1UsagePerOp' =
                  [d \in (DOMAIN currentL1UsagePerOp \ freed) \cup allocated(o) |->
                     IF d = o THEN opL1MemUsage(o)
                     ELSE [currentL1UsagePerOp[d] EXCEPT
                             !.numOfUnscheduledUsers = @ - timesUsedBy(o, d)]]
             /\ currentL1Usage' =
                  sub(currentL1Usage + (IF fitsL1(o) THEN OutputL1Usage[o] ELSE 0),
                      sumUsage(freed))
             /\ l1ChainConfigs' =
                  IF fitsL1(o)
                  THEN [addOpL1MemSpec(o) EXCEPT ![Len(l1ChainConfigs)].config =
                          Append(@, L1Interleaved)]
                  ELSE l1ChainConfigs
             /\ scheduleOp(o)
    /\ UNCHANGED <<graphvars, func, phase>>

\* Users that return the value are taken off; then nothing may be left, and
\* every chain, also of an earlier function, is built, resolved and completed.
returnUsers(o) ==
    Cardinality({u \in uses(o) : Kind(u[1]) = "return"})

finishFunc ==
    LET left == {o \in DOMAIN currentL1UsagePerOp : usersLeft(o) # returnUsers(o)}
        erased == DOMAIN currentL1UsagePerOp \ left
    IN  /\ phase = "schedule"
        /\ unscheduledOps(schedule[func]) = {}
        /\ currentL1UsagePerOp' = [o \in left |-> currentL1UsagePerOp[o]]
        /\ currentL1Usage' = sub(currentL1Usage, sumUsage(erased))
        /\ IF /\ left = {} /\ currentL1Usage' = 0
              /\ \A c \in ToSet(l1ChainConfigs) : c.state = "InBuild"
           THEN /\ phase' = IF func + 1 \in Funcs THEN "schedule" ELSE "apply"
                /\ func' = IF func + 1 \in Funcs THEN func + 1 ELSE func
                /\ l1ChainConfigs' =
                     [i \in DOMAIN l1ChainConfigs |->
                        [resolve(build(l1ChainConfigs[i])) EXCEPT !.state = "Completed"]]
                     \o (IF func + 1 \in Funcs THEN <<NewChain>> ELSE <<>>)
           ELSE phase' = "abort" /\ UNCHANGED <<func, l1ChainConfigs>>
        /\ UNCHANGED <<graphvars, schedule>>

BFNext == scheduleLeastChange \/ finishFunc

InitBF ==
    /\ currentL1UsagePerOp = NoEntries
    /\ currentL1Usage = 0
==============================================================================
