---------------------------- MODULE L1ChainConfig ----------------------------
(***************************************************************************)
(* The L1 chains the memory layout policies produce.  A chain lists ops    *)
(* whose results stay in L1 and goes from InBuild to Built, Resolved and   *)
(* Completed, or to Failed when the solver finds no configs for it.        *)
(***************************************************************************)
EXTENDS Scheduler

VARIABLES
    l1ChainConfigs, \* state: InBuild, Built, Resolved, Completed or Failed
    phase           \* of the pass; "abort" when an assertion fails

chainvars == <<l1ChainConfigs, phase>>

NoEntries == [e \in {} |-> {}]

NewChain ==
    [ops |-> <<>>, state |-> "InBuild", config |-> <<>>,
     memReconfigEntryMap |-> NoEntries, spillEndToDRAM |-> FALSE]

isEmpty(c) == c.ops = <<>>

addOpL1MemSpec(o) ==
    [l1ChainConfigs EXCEPT ![Len(l1ChainConfigs)].ops = Append(@, o)]

build(c) == [c EXCEPT !.state = "Built"]

\* resolve(): no solver; the policy has chosen the layouts itself.
resolve(c) == [c EXCEPT !.state = "Resolved"]

\* complete(selectedOpConfig, memReconfigEntryMap).
complete(c, selectedOpConfig, entries) ==
    [c EXCEPT !.config = [i \in DOMAIN c.ops |-> selectedOpConfig[c.ops[i]]],
              !.memReconfigEntryMap = entries,
              !.state = "Completed"]

InitChains == l1ChainConfigs = <<NewChain>>
==============================================================================
