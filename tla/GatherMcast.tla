---------------------------- MODULE GatherMcast ----------------------------
(***************************************************************************)
(* The kernels that the TTMetal pipeline generates for one ttir.generic    *)
(* op, running on a grid of Tensix cores.                                  *)
(*                                                                         *)
(* Every core runs one datamovement thread per input operand and one       *)
(* compute thread.  A datamovement thread fills its circular buffer (CB)   *)
(* once per loop iteration; the compute thread awaits all the CBs, computes*)
(* and pops them.  An operand that is a stream and is reduced over a grid  *)
(* dimension is fetched once per row (or column), by the core with index 0 *)
(* along that dimension (the sender), and multicast to the others (the     *)
(* receivers) under the control of two semaphores:                         *)
(*                                                                         *)
(*   receiversReady  at the sender, incremented by every receiver whose CB *)
(*                   is reserved, awaited and reset by the sender;         *)
(*   senderFinished  at each receiver, set by the sender's multicast,      *)
(*                   awaited and reset by the receiver.                    *)
(*                                                                         *)
(* NoC transactions are asynchronous: they are issued by one action and    *)
(* take effect at the other core in another, and only the write barrier    *)
(* orders them.                                                            *)
(***************************************************************************)
EXTENDS Integers, FiniteSets, Sequences

CONSTANTS
    GridY, GridX,           \* the grid of the generic op
    Inputs,                 \* number of input operands
    IteratorTypes,          \* IteratorTypes[i][d]: the iterator that operand
                            \* i's indexing map has at grid dimension d
    Streams,                \* the operands whose memref is a stream view
    NumIters,               \* trip count of the loop nest around each region
    NumDatamovementThreads, \* of the chip descriptor
    NumComputeThreads

Operands == 1 .. Inputs
Dims == {1, 2}
Grid == <<GridY, GridX>>

ASSUME GridAssumption ==
    /\ GridY \in Nat \ {0}
    /\ GridX \in Nat \ {0}

ASSUME OperandsAssumption ==
    /\ Inputs \in Nat \ {0}
    /\ Streams \subseteq Operands
    /\ IteratorTypes \in [Operands -> [Dims -> {"parallel", "reduction"}]]

ASSUME NumItersAssumption == NumIters \in Nat

\* TTIRGenericHWThreadSelection: after the output's trivial thread has been
\* merged into compute, every region needs a hardware thread of its own.
validHWThreadSelection ==
    Inputs + 1 <= NumDatamovementThreads + NumComputeThreads

ASSUME HWThreadSelection == validHWThreadSelection

Cores == (0 .. GridY - 1) \X (0 .. GridX - 1)

-----------------------------------------------------------------------------
(* calculateMcastIterators and calculateGatherMcastArguments               *)

\* A reduction over a grid dimension of size 1 falls back to parallel.
allParallel(i) ==
    \A d \in Dims : IteratorTypes[i][d] = "parallel" \/ Grid[d] = 1

isMcast(i) == i \in Streams /\ ~allParallel(i)

conditions(i) == {d \in Dims : IteratorTypes[i][d] = "reduction"}

\* "Exactly one condition supported"
ASSUME OneCondition ==
    \A i \in Operands : isMcast(i) => Cardinality(conditions(i)) = 1

\* The sender's logical coordinates, as core c computes them.
coreIndex(i, c) ==
    <<IF 1 \in conditions(i) THEN 0 ELSE c[1],
      IF 2 \in conditions(i) THEN 0 ELSE c[2]>>

mcastVolume(i) ==
    (IF 1 \in conditions(i) THEN GridY ELSE 1)
      * (IF 2 \in conditions(i) THEN GridX ELSE 1)

isSender(i, c) == coreIndex(i, c) = c

\* The rectangle of the multicast that starts at core s, s itself excluded:
\* src and dst are the same CB, so the multicast does not loop back.
mcastDests(i, s) == {c \in Cores : coreIndex(i, c) = s /\ c # s}

\* The block of operand i that core c needs in iteration k: the stream index
\* depends on the core's position along the parallel dimensions only.
Block(i, c, k) == <<i, coreIndex(i, c), k>>

NoBlock == <<>>

-----------------------------------------------------------------------------
VARIABLES
    dm,             \* dm[i][c]: the next statement of the datamovement thread
    dmIter,         \* dmIter[i][c]: its loop induction variable
    compute,        \* compute[c]: the next statement of the compute thread
    computeIter,    \* its loop induction variable
    popped,         \* popped[c]: number of input CBs popped in this iteration
    pages,          \* pages[i][c]: blocks pushed and not yet popped (CB holds 1)
    l1,             \* l1[i][c]: the block stored in the CB's L1 memory
    outPages,       \* outPages[c]: the output CB
    out,            \* out[c]: the blocks that core c has combined, in order
    receiversReady, \* receiversReady[i][c]: the semaphores
    senderFinished,
    incInFlight,    \* NoC transactions issued and not yet landed, counted by
    dataInFlight,   \* operand and remote core: semaphore increments (by the
    setInFlight     \* issuing core), mcast data and mcast semaphore values (by
                    \* the destination core)

dmVars == <<dm, dmIter>>
computeVars == <<compute, computeIter, popped, outPages, out>>
cbVars == <<pages, l1>>
semVars == <<receiversReady, senderFinished>>
nocVars == <<incInFlight, dataInFlight, setInFlight>>
vars == <<dm, dmIter, compute, computeIter, popped, pages, l1, outPages, out,
          receiversReady, senderFinished, incInFlight, dataInFlight,
          setInFlight>>

OnAll(x) == [i \in Operands |-> [c \in Cores |-> x]]

LoopStart == IF NumIters = 0 THEN "done" ELSE "reserve"

Init ==
    /\ dm = OnAll(LoopStart)
    /\ dmIter = OnAll(0)
    /\ compute = [c \in Cores |-> LoopStart]
    /\ computeIter = [c \in Cores |-> 0]
    /\ popped = [c \in Cores |-> 0]
    /\ pages = OnAll(0)
    /\ l1 = OnAll(NoBlock)
    /\ outPages = [c \in Cores |-> 0]
    /\ out = [c \in Cores |-> <<>>]
    /\ receiversReady = OnAll(0)
    /\ senderFinished = OnAll(0)
    /\ incInFlight = OnAll(0)
    /\ dataInFlight = OnAll(0)
    /\ setInFlight = OnAll(0)

-----------------------------------------------------------------------------
(* The datamovement threads (createGatherMcastDMA, buildDatamovementBlock).*)
(* An action runs a thread from one point where it can block, or where     *)
(* another core could see a difference, to the next.  (The operators       *)
(* that Next does not use, IncBeforeReserve and the like, are faulty       *)
(* variants of the action that follows them: each is known to break one of *)
(* the properties below.)                                                  *)

GotoDM(i, c, from, to) ==
    /\ dm[i][c] = from
    /\ dm' = [dm EXCEPT ![i][c] = to]

\* cb_reserve_back of the whole CB, which the lowering of the final ttir.yield
\* hoists to the front of the block; the thread blocks until the CB is free.
Reserve(i, c) == pages[i][c] = 0

\* cb_push_back (the ttir.yield), and the end of the loop body.
Yield(i, c, from) ==
    /\ GotoDM(i, c, from,
              IF dmIter[i][c] + 1 = NumIters THEN "done" ELSE "reserve")
    /\ dmIter' = [dmIter EXCEPT ![i][c] = @ + 1]
    /\ pages' = [pages EXCEPT ![i][c] = @ + 1]

\* An operand that is not streamed: its block is in the CB's memory already.
YieldLocal(i, c) ==
    /\ i \notin Streams
    /\ Reserve(i, c)
    /\ Yield(i, c, "reserve")
    /\ UNCHANGED <<computeVars, l1, semVars, nocVars>>

\* The indexed ttir.dma and its wait, noc_async_read and
\* noc_async_read_barrier, into the core's own CB.
Fetch(i, c) == l1' = [l1 EXCEPT ![i][c] = Block(i, c, dmIter[i][c])]

\* A streamed operand that is not multicast.
StreamDMA(i, c) ==
    /\ i \in Streams /\ ~isMcast(i)
    /\ Reserve(i, c)
    /\ Fetch(i, c)
    /\ Yield(i, c, "reserve")
    /\ UNCHANGED <<computeVars, semVars, nocVars>>

\* The sender's side of the scf.if.
GatherDMA(i, c) ==
    /\ isMcast(i) /\ isSender(i, c)
    /\ Reserve(i, c)
    /\ Fetch(i, c)
    /\ GotoDM(i, c, "reserve", "waitReady")
    /\ UNCHANGED <<dmIter, computeVars, pages, semVars, nocVars>>

WaitAllButOne(i, c) ==
    /\ receiversReady[i][c] >= mcastVolume(i) - 2
    /\ GotoDM(i, c, "waitReady", "resetReady")
    /\ UNCHANGED <<dmIter, computeVars, cbVars, semVars, nocVars>>

WaitSenderIncluded(i, c) ==
    /\ receiversReady[i][c] = mcastVolume(i)
    /\ GotoDM(i, c, "waitReady", "resetReady")
    /\ UNCHANGED <<dmIter, computeVars, cbVars, semVars, nocVars>>

\* noc_semaphore_wait(receiversReady, mcastVolume - 1): equality, not >=.
WaitReceiversReady(i, c) ==
    /\ receiversReady[i][c] = mcastVolume(i) - 1
    /\ GotoDM(i, c, "waitReady", "resetReady")
    /\ UNCHANGED <<dmIter, computeVars, cbVars, semVars, nocVars>>

\* The reset value of the ttir.semaphore_wait is a separate noc_semaphore_set.
ResetReceiversReady(i, c) ==
    /\ GotoDM(i, c, "resetReady", "mcast")
    /\ receiversReady' = [receiversReady EXCEPT ![i][c] = 0]
    /\ UNCHANGED <<dmIter, computeVars, cbVars, senderFinished, nocVars>>

Issue(flight, i, dests) ==
    [flight EXCEPT ![i] = [r \in Cores |->
        IF r \in dests THEN flight[i][r] + 1 ELSE flight[i][r]]]

\* noc_async_write_multicast from the sender's CB to the receivers' CBs.
McastDMA(i, c) ==
    /\ GotoDM(i, c, "mcast", "writeBarrier")
    /\ dataInFlight' = Issue(dataInFlight, i, mcastDests(i, c))
    /\ UNCHANGED <<dmIter, computeVars, cbVars, semVars, incInFlight,
                   setInFlight>>

SetWithoutWriteBarrier(i, c) ==
    /\ senderFinished' = [senderFinished EXCEPT ![i][c] = 1]
    /\ setInFlight' = Issue(setInFlight, i, mcastDests(i, c))
    /\ Yield(i, c, "writeBarrier")
    /\ UNCHANGED <<computeVars, l1, receiversReady, incInFlight, dataInFlight>>

\* noc_async_write_barrier: all the destinations have acknowledged.  Then
\* noc_semaphore_set on the local word, and its multicast.
SetSenderFinished(i, c) ==
    /\ \A r \in mcastDests(i, c) : dataInFlight[i][r] = 0
    /\ senderFinished' = [senderFinished EXCEPT ![i][c] = 1]
    /\ setInFlight' = Issue(setInFlight, i, mcastDests(i, c))
    /\ Yield(i, c, "writeBarrier")
    /\ UNCHANGED <<computeVars, l1, receiversReady, incInFlight, dataInFlight>>

IncBeforeReserve(i, c) ==
    /\ isMcast(i) /\ ~isSender(i, c)
    /\ GotoDM(i, c, "reserve", "waitFinished")
    /\ incInFlight' = [incInFlight EXCEPT ![i][c] = @ + 1]
    /\ UNCHANGED <<dmIter, computeVars, cbVars, semVars, dataInFlight,
                   setInFlight>>

\* The receivers' side: noc_semaphore_inc of the sender's receiversReady.
IncReceiversReady(i, c) ==
    /\ isMcast(i) /\ ~isSender(i, c)
    /\ Reserve(i, c)
    /\ GotoDM(i, c, "reserve", "waitFinished")
    /\ incInFlight' = [incInFlight EXCEPT ![i][c] = @ + 1]
    /\ UNCHANGED <<dmIter, computeVars, cbVars, semVars, dataInFlight,
                   setInFlight>>

WaitSenderFinished(i, c) ==
    /\ senderFinished[i][c] = 1
    /\ GotoDM(i, c, "waitFinished", "resetFinished")
    /\ UNCHANGED <<dmIter, computeVars, cbVars, semVars, nocVars>>

ResetSenderFinished(i, c) ==
    /\ senderFinished' = [senderFinished EXCEPT ![i][c] = 0]
    /\ Yield(i, c, "resetFinished")
    /\ UNCHANGED <<computeVars, l1, receiversReady, nocVars>>

-----------------------------------------------------------------------------
(* The compute thread, with the output's await merged into it              *)

GotoCompute(c, from, to) ==
    /\ compute[c] = from
    /\ compute' = [compute EXCEPT ![c] = to]

\* cb_reserve_back of the output, then cb_wait_front on every input.
AwaitInputs(c) ==
    /\ outPages[c] = 0
    /\ \A i \in Operands : pages[i][c] > 0
    /\ GotoCompute(c, "reserve", "compute")
    /\ UNCHANGED <<dmVars, computeIter, popped, outPages, out, cbVars, semVars,
                   nocVars>>

\* The body of the generic op, then cb_push_back of the output.
Compute(c) ==
    /\ GotoCompute(c, "compute", "pop")
    /\ out' = [out EXCEPT ![c] = Append(@, [i \in Operands |-> l1[i][c]])]
    /\ outPages' = [outPages EXCEPT ![c] = @ + 1]
    /\ UNCHANGED <<dmVars, computeIter, popped, cbVars, semVars, nocVars>>

\* cb_wait_front of the output, then the cb_pop_fronts that the lowering of
\* the awaits moved before the terminator: the inputs in operand order, and
\* after the last of them the output; then the end of the loop body.
PopFront(c) ==
    LET i == popped[c] + 1
        last == i = Inputs
    IN  /\ outPages[c] > 0
        /\ pages' = [pages EXCEPT ![i][c] = @ - 1]
        /\ popped' = [popped EXCEPT ![c] = IF last THEN 0 ELSE i]
        /\ outPages' = [outPages EXCEPT ![c] = IF last THEN @ - 1 ELSE @]
        /\ computeIter' = [computeIter EXCEPT ![c] = IF last THEN @ + 1 ELSE @]
        /\ GotoCompute(c, "pop", CASE ~last -> "pop"
                                   [] last /\ computeIter[c] + 1 < NumIters
                                        -> "reserve"
                                   [] OTHER -> "done")
        /\ UNCHANGED <<dmVars, out, l1, semVars, nocVars>>

-----------------------------------------------------------------------------
(* The NoC                                                                 *)

\* An atomic increment lands at the sender of core r's group.
LandInc(i, r) ==
    /\ incInFlight[i][r] > 0
    /\ incInFlight' = [incInFlight EXCEPT ![i][r] = @ - 1]
    /\ receiversReady' = [receiversReady EXCEPT ![i][coreIndex(i, r)] = @ + 1]
    /\ UNCHANGED <<dmVars, computeVars, cbVars, senderFinished, dataInFlight,
                   setInFlight>>

\* Multicast data is read from the sender's L1 when it lands, not when issued.
LandData(i, r) ==
    /\ dataInFlight[i][r] > 0
    /\ dataInFlight' = [dataInFlight EXCEPT ![i][r] = @ - 1]
    /\ l1' = [l1 EXCEPT ![i][r] = l1[i][coreIndex(i, r)]]
    /\ UNCHANGED <<dmVars, computeVars, pages, semVars, incInFlight,
                   setInFlight>>

LandSet(i, r) ==
    /\ setInFlight[i][r] > 0
    /\ setInFlight' = [setInFlight EXCEPT ![i][r] = @ - 1]
    /\ senderFinished' =
          [senderFinished EXCEPT ![i][r] = senderFinished[i][coreIndex(i, r)]]
    /\ UNCHANGED <<dmVars, computeVars, cbVars, receiversReady, incInFlight,
                   dataInFlight>>

-----------------------------------------------------------------------------
DMThread(i, c) ==
    \/ YieldLocal(i, c)
    \/ StreamDMA(i, c)
    \/ GatherDMA(i, c)
    \/ WaitReceiversReady(i, c)
    \/ ResetReceiversReady(i, c)
    \/ McastDMA(i, c)
    \/ SetSenderFinished(i, c)
    \/ IncReceiversReady(i, c)
    \/ WaitSenderFinished(i, c)
    \/ ResetSenderFinished(i, c)

ComputeThread(c) == AwaitInputs(c) \/ Compute(c) \/ PopFront(c)

NoC(i, c) == LandInc(i, c) \/ LandData(i, c) \/ LandSet(i, c)

AllDone ==
    /\ \A c \in Cores : compute[c] = "done"
    /\ \A i \in Operands, c \in Cores : dm[i][c] = "done"

\* The kernels have returned.
Terminated == AllDone /\ UNCHANGED vars

Next ==
    \/ \E i \in Operands, c \in Cores : DMThread(i, c) \/ NoC(i, c)
    \/ \E c \in Cores : ComputeThread(c)
    \/ Terminated

Spec == Init /\ [][Next]_vars

\* Every thread is a RISC-V processor of its own and the NoC delivers every
\* transaction.
Fairness ==
    /\ \A i \in Operands, c \in Cores :
          /\ WF_vars(DMThread(i, c))
          /\ WF_vars(LandInc(i, c))
          /\ WF_vars(LandData(i, c))
          /\ WF_vars(LandSet(i, c))
    /\ \A c \in Cores : WF_vars(ComputeThread(c))

FairSpec == Spec /\ Fairness

-----------------------------------------------------------------------------
(* Properties                                                              *)

DMLabels == {"reserve", "waitReady", "resetReady", "mcast", "writeBarrier",
             "waitFinished", "resetFinished", "done"}
ComputeLabels == {"reserve", "compute", "pop", "done"}

Blocks == {NoBlock} \cup
          {Block(i, c, k) : i \in Operands, c \in Cores, k \in 0 .. NumIters}

\* The values of the variables of the generated kernels.
TypeOK ==
    /\ dm \in [Operands -> [Cores -> DMLabels]]
    /\ dmIter \in [Operands -> [Cores -> 0 .. NumIters]]
    /\ compute \in [Cores -> ComputeLabels]
    /\ computeIter \in [Cores -> 0 .. NumIters]
    /\ popped \in [Cores -> 0 .. Inputs - 1]
    /\ pages \in [Operands -> [Cores -> {0, 1}]]
    /\ l1 \in [Operands -> [Cores -> Blocks]]
    /\ outPages \in [Cores -> {0, 1}]
    /\ out \in [Cores -> Seq([Operands -> Blocks])]
    /\ receiversReady \in [Operands -> [Cores -> Nat]]
    /\ senderFinished \in [Operands -> [Cores -> {0, 1}]]
    /\ incInFlight \in [Operands -> [Cores -> {0, 1}]]
    /\ dataInFlight \in [Operands -> [Cores -> {0, 1}]]
    /\ setInFlight \in [Operands -> [Cores -> {0, 1}]]

\* The handshake of createGatherMcastDMA is for this: multicast data is only
\* ever in flight to a receiver that has reserved its CB for the same
\* iteration and waits for it, so that it cannot overwrite a block that the
\* receiver's compute thread still reads.
McastIntoReserved ==
    \A i \in Operands, r \in Cores :
        dataInFlight[i][r] > 0 =>
            /\ dm[i][r] = "waitFinished"
            /\ pages[i][r] = 0
            /\ dmIter[i][r] = dmIter[i][coreIndex(i, r)]

\* The wait for receiversReady and its reset are two separate statements: no
\* increment may arrive between them, or be on its way, as the reset would
\* lose it and the next iteration would wait for ever.
NoIncrementLost ==
    \A i \in Operands, s \in Cores :
        dm[i][s] = "resetReady" =>
            /\ receiversReady[i][s] = mcastVolume(i) - 1
            /\ \A r \in mcastDests(i, s) : incInFlight[i][r] = 0

\* Likewise for the receiver's reset of senderFinished: the sender has not
\* announced another block by the time of the reset.
NoFinishedLost ==
    \A i \in Operands, r \in Cores :
        dm[i][r] = "resetFinished" =>
            /\ senderFinished[i][r] = 1
            /\ setInFlight[i][r] = 0
            /\ l1[i][r] = Block(i, r, dmIter[i][r])

\* The conditions under which the kernels' threads are not blocked.
DMCanGo(i, c) ==
    \/ dm[i][c] = "reserve" /\ Reserve(i, c)
    \/ dm[i][c] = "waitReady" /\ receiversReady[i][c] = mcastVolume(i) - 1
    \/ dm[i][c] \in {"resetReady", "mcast", "resetFinished"}
    \/ /\ dm[i][c] = "writeBarrier"
       /\ \A r \in mcastDests(i, c) : dataInFlight[i][r] = 0
    \/ dm[i][c] = "waitFinished" /\ senderFinished[i][c] = 1

ComputeCanGo(c) ==
    \/ /\ compute[c] = "reserve" /\ outPages[c] = 0
       /\ \A i \in Operands : pages[i][c] > 0
    \/ compute[c] = "compute"
    \/ compute[c] = "pop" /\ outPages[c] > 0

Quiet(i, c) ==
    incInFlight[i][c] = 0 /\ dataInFlight[i][c] = 0 /\ setInFlight[i][c] = 0

\* The kernels of all cores never come to a state in which every thread that
\* has not returned waits, for a CB or a semaphore, and no NoC transaction is
\* left to wake one: the senders of the rows, the senders of the columns,
\* their receivers and the compute threads do not wait in a circle.
NeverStuck ==
    \/ AllDone
    \/ \E i \in Operands, c \in Cores : DMCanGo(i, c) \/ ~Quiet(i, c)
    \/ \E c \in Cores : ComputeCanGo(c)

\* From cb_wait_front until its cb_pop_front the block that the compute thread
\* reads is not written, neither locally nor by a remote core.
StableWhileAwaited ==
    [][\A i \in Operands, c \in Cores :
          (compute[c] = "compute" \/ (compute[c] = "pop" /\ popped[c] < i))
             => l1'[i][c] = l1[i][c]]_vars

\* The blocks that the body of the generic op combines in iteration k: the
\* streamed ones have been fetched, the others are in the CB all along.
Wanted(c, k) ==
    [i \in Operands |-> IF i \in Streams THEN Block(i, c, k) ELSE NoBlock]

Promise == INSTANCE GenericOp

\* The generated datamovement and compute kernels implement the generic op:
\* each core combines the right blocks in the right order and gets through
\* all its iterations.
ImplementsGenericOp == Promise!FairSpec

\* Every kernel returns on every core: the threads and semaphores never wait
\* for each other for ever.
Termination == <>AllDone

=============================================================================
