------------------------- MODULE GatherMcastProofs -------------------------
(***************************************************************************)
(* Proofs about the generated gather/multicast kernels, for every grid,    *)
(* every set of operands and every trip count.                             *)
(***************************************************************************)
EXTENDS GatherMcast, FiniteSetTheorems, WellFoundedInduction, TLAPS

-----------------------------------------------------------------------------
(* The inductive invariant                                                 *)

Idle == {"reserve", "done"}
Sending == {"waitReady", "resetReady", "mcast", "writeBarrier"}
Receiving == {"waitFinished", "resetFinished"}

\* One CB, between the datamovement thread that fills it and compute.
CBInv(i, c) ==
    /\ dm[i][c] = "done" <=> dmIter[i][c] = NumIters
    /\ popped[c] < i => dmIter[i][c] = computeIter[c] + pages[i][c]
    /\ popped[c] >= i => dmIter[i][c] = computeIter[c] + pages[i][c] + 1
    /\ dm[i][c] \notin Idle => pages[i][c] = 0
    /\ dm[i][c] \in Idle /\ dmIter[i][c] > 0 /\ i \in Streams
          => l1[i][c] = Block(i, c, dmIter[i][c] - 1)
    /\ i \notin Streams => l1[i][c] = NoBlock
    /\ dm[i][c] \in Sending => /\ isMcast(i) /\ isSender(i, c)
                               /\ l1[i][c] = Block(i, c, dmIter[i][c])
    /\ dm[i][c] \in Receiving => isMcast(i) /\ ~isSender(i, c)

ComputeInv(c) ==
    /\ compute[c] = "done" <=> computeIter[c] = NumIters
    /\ popped[c] > 0 => compute[c] = "pop"
    /\ outPages[c] = IF compute[c] = "pop" THEN 1 ELSE 0
    /\ compute[c] \in {"compute", "pop"} =>
          \A i \in Operands : i > popped[c] => pages[i][c] = 1
    /\ compute[c] = "pop" => Len(out[c]) = computeIter[c] + 1
    /\ compute[c] # "pop" => Len(out[c]) = computeIter[c]
    /\ \A k \in 1 .. Len(out[c]) : out[c][k] = Wanted(c, k - 1)

\* Only receivers have transactions on their account.
QuietInv(i, c) ==
    /\ ~(isMcast(i) /\ ~isSender(i, c)) =>
          /\ incInFlight[i][c] = 0
          /\ dataInFlight[i][c] = 0
          /\ setInFlight[i][c] = 0
    /\ isMcast(i) /\ isSender(i, c) /\ dmIter[i][c] > 0
          => senderFinished[i][c] = 1

\* A receiver is in the sender's iteration, or still has to take up the
\* announcement of the one that the sender has just left.
InStep(i, r, s) ==
    /\ dmIter[i][r] = dmIter[i][s]
    /\ setInFlight[i][r] = 0
    /\ senderFinished[i][r] = 0
    /\ dataInFlight[i][r] = 1 => dm[i][s] = "writeBarrier"
    /\ dm[i][r] \in Idle \cup {"waitFinished"}
    /\ dm[i][r] \in Idle =>
          /\ incInFlight[i][r] = 0
          /\ dm[i][s] \in {"reserve", "waitReady", "done"}
    /\ dm[i][s] \in {"resetReady", "mcast", "writeBarrier"} =>
          incInFlight[i][r] = 0
    /\ dm[i][s] = "writeBarrier" /\ dataInFlight[i][r] = 0 =>
          l1[i][r] = Block(i, r, dmIter[i][r])

Behind(i, r, s) ==
    /\ dmIter[i][s] = dmIter[i][r] + 1
    /\ incInFlight[i][r] = 0
    /\ dataInFlight[i][r] = 0
    /\ dm[i][s] \in {"reserve", "waitReady", "done"}
    /\ l1[i][r] = Block(i, r, dmIter[i][r])
    /\ dm[i][r] \in Receiving
    /\ setInFlight[i][r] + senderFinished[i][r] = 1
    /\ dm[i][r] = "resetFinished" => senderFinished[i][r] = 1

ReceiverInv(i, r) ==
    isMcast(i) /\ ~isSender(i, r) =>
        InStep(i, r, coreIndex(i, r)) \/ Behind(i, r, coreIndex(i, r))

\* The receivers whose increment has arrived for the sender's iteration.
Arrived(i, s) ==
    {r \in mcastDests(i, s) : /\ dmIter[i][r] = dmIter[i][s]
                              /\ dm[i][r] = "waitFinished"
                              /\ incInFlight[i][r] = 0}

ReadyInv(i, s) ==
    isMcast(i) /\ isSender(i, s) =>
        receiversReady[i][s] = IF dm[i][s] \in {"mcast", "writeBarrier"}
                               THEN 0 ELSE Cardinality(Arrived(i, s))

IInv ==
    /\ TypeOK
    /\ \A i \in Operands, c \in Cores :
          /\ CBInv(i, c)
          /\ QuietInv(i, c)
          /\ ReceiverInv(i, c)
          /\ ReadyInv(i, c)
    /\ \A c \in Cores : ComputeInv(c)

-----------------------------------------------------------------------------
(* The geometry of a multicast                                             *)

\* Every core of a group computes the same sender (calculateGatherMcastArguments).
LEMMA SenderOfGroup ==
    ASSUME NEW i \in Operands, NEW c \in Cores
    PROVE  /\ coreIndex(i, c) \in Cores
           /\ isSender(i, coreIndex(i, c))
           /\ ~isSender(i, c) => c \in mcastDests(i, coreIndex(i, c))
BY GridAssumption DEF Cores, coreIndex, isSender, mcastDests

\* The receivers that a sender serves, and who serves a receiver.
LEMMA DestsOfSender ==
    ASSUME NEW i \in Operands, NEW s \in Cores, NEW r \in mcastDests(i, s)
    PROVE  r \in Cores /\ r # s /\ coreIndex(i, r) = s /\ ~isSender(i, r)
BY DEF mcastDests, isSender

\* The blocks of a group depend on its sender only, and have the type of L1.
LEMMA BlockOfGroup ==
    ASSUME NEW i \in Operands, NEW c \in Cores, NEW k \in 0 .. NumIters
    PROVE  /\ Block(i, coreIndex(i, c), k) = Block(i, c, k)
           /\ Block(i, c, k) \in Blocks
           /\ NoBlock \in Blocks
<1>1. coreIndex(i, coreIndex(i, c)) = coreIndex(i, c)
  BY SenderOfGroup DEF isSender
<1> QED
  BY <1>1 DEF Block, Blocks

\* The receivers number mcastVolume - 1, the value the sender waits for.
LEMMA NumberOfReceivers ==
    ASSUME NEW i \in Operands, NEW s \in Cores, isMcast(i), isSender(i, s)
    PROVE  /\ IsFiniteSet(mcastDests(i, s))
           /\ Cardinality(mcastDests(i, s)) = mcastVolume(i) - 1
<1> DEFINE N == mcastVolume(i)
           G == mcastDests(i, s) \cup {s}
<1>1. PICK d : conditions(i) = {d}
  <2>1. IsFiniteSet(Dims)
    <3>1. IsFiniteSet({1}) /\ IsFiniteSet({1} \cup {2})
      BY FS_Singleton, FS_AddElement
    <3>2. Dims = {1} \cup {2}
      BY DEF Dims
    <3> QED
      BY <3>1, <3>2
  <2>2. IsFiniteSet(conditions(i)) /\ Cardinality(conditions(i)) = 1
    BY <2>1, FS_Subset, OneCondition DEF conditions
  <2> QED
    BY <2>2, FS_Singleton
<1>2. d \in Dims
  BY <1>1 DEF conditions
<1>3. N \in Nat \ {0} /\ N = Grid[d]
  BY <1>1, <1>2, GridAssumption DEF mcastVolume, Dims, Grid
<1> DEFINE f == [x \in 0 .. N - 1 |-> IF d = 1 THEN <<x, s[2]>> ELSE <<s[1], x>>]
<1>4. f \in Bijection(0 .. N - 1, G)
  <2>1. f \in [0 .. N - 1 -> G]
    BY <1>1, <1>2, <1>3, GridAssumption
    DEF G, mcastDests, coreIndex, isSender, Cores, Dims, Grid
  <2>2. \A x, y \in 0 .. N - 1 : f[x] = f[y] => x = y
    OBVIOUS
  <2>3. \A c \in G : \E x \in 0 .. N - 1 : f[x] = c
    BY <1>1, <1>2, <1>3, GridAssumption
    DEF G, mcastDests, coreIndex, isSender, Cores, Dims, Grid
  <2> QED
    BY <2>1, <2>2, <2>3, Zenon
    DEF Bijection, Injection, Surjection, IsInjective, Range
<1>5. IsFiniteSet(0 .. N - 1) /\ Cardinality(0 .. N - 1) = N
  <2> HIDE DEF N, G, f
  <2>1. 0 \in Int /\ N - 1 \in Int /\ ~ (0 > N - 1) /\ (N - 1) - 0 + 1 = N
    BY <1>3
  <2>2. /\ IsFiniteSet(0 .. N - 1)
        /\ Cardinality(0 .. N - 1)
             = IF 0 > N - 1 THEN 0 ELSE (N - 1) - 0 + 1
    BY <2>1, FS_Interval, Zenon
  <2> QED
    BY <2>1, <2>2, Zenon
<1>6. IsFiniteSet(G) /\ Cardinality(G) = N
  <2> HIDE DEF N, G, f
  <2>1. ExistsBijection(0 .. N - 1, G)
    BY <1>4 DEF ExistsBijection
  <2> QED
    BY <1>5, <2>1, FS_Bijection
<1>7. mcastDests(i, s) = G \ {s} /\ s \in G
  BY DEF mcastDests
<1> HIDE DEF G, N
<1> QED
  BY <1>6, <1>7, FS_RemoveElement DEF N

-----------------------------------------------------------------------------
(* IInv holds initially                                                    *)

\* The kernel arguments and semaphores as the runtime creates them satisfy
\* the inductive invariant.
LEMMA InitIInv == Init => IInv
<1> SUFFICES ASSUME Init PROVE IInv
  OBVIOUS
<1> USE OperandsAssumption, NumItersAssumption, GridAssumption DEF OnAll
<1>1. TypeOK
  <2>1. LoopStart \in {"reserve", "done"}
    BY DEF LoopStart
  <2>2. 0 \in 0 .. Inputs - 1 /\ 0 \in 0 .. NumIters /\ NoBlock \in Blocks
    BY DEF Blocks
  <2> QED
    BY <2>1, <2>2 DEF Init, TypeOK, DMLabels, ComputeLabels
<1>2. ASSUME NEW i \in Operands, NEW c \in Cores
      PROVE  CBInv(i, c) /\ QuietInv(i, c) /\ ReceiverInv(i, c)
  <2>1. coreIndex(i, c) \in Cores
    BY SenderOfGroup
  <2>2. CBInv(i, c)
    <3>1. dmIter[i][c] = 0 /\ computeIter[c] = 0 /\ popped[c] = 0
      BY DEF Init
    <3>2. pages[i][c] = 0 /\ l1[i][c] = NoBlock
      BY DEF Init
    <3>3. dm[i][c] = IF NumIters = 0 THEN "done" ELSE "reserve"
      BY DEF Init, LoopStart
    <3>4. i \in Nat /\ i > 0
      BY DEF Operands
    <3> QED
      BY <3>1, <3>2, <3>3, <3>4 DEF CBInv, Idle, Sending, Receiving
  <2>3. QuietInv(i, c)
    BY DEF Init, QuietInv
  <2>4. ReceiverInv(i, c)
    BY <2>1 DEF Init, LoopStart, ReceiverInv, InStep, Idle
  <2> QED
    BY <2>2, <2>3, <2>4
<1>3. ASSUME NEW i \in Operands, NEW s \in Cores
      PROVE  ReadyInv(i, s)
  <2>1. Arrived(i, s) = {}
    BY DestsOfSender DEF Init, LoopStart, Arrived
  <2> QED
    BY <2>1, FS_EmptySet DEF Init, LoopStart, ReadyInv
<1>4. ASSUME NEW c \in Cores
      PROVE  ComputeInv(c)
  BY DEF Init, LoopStart, ComputeInv
<1> QED
  BY <1>1, <1>2, <1>3, <1>4 DEF IInv

-----------------------------------------------------------------------------
(* Every step preserves IInv                                               *)

\* The state that belongs to operand j on core d.
SameCell(j, d) ==
    /\ dm'[j][d] = dm[j][d]
    /\ dmIter'[j][d] = dmIter[j][d]
    /\ pages'[j][d] = pages[j][d]
    /\ l1'[j][d] = l1[j][d]
    /\ receiversReady'[j][d] = receiversReady[j][d]
    /\ senderFinished'[j][d] = senderFinished[j][d]
    /\ incInFlight'[j][d] = incInFlight[j][d]
    /\ dataInFlight'[j][d] = dataInFlight[j][d]
    /\ setInFlight'[j][d] = setInFlight[j][d]

Group(i, s) == {d \in Cores : coreIndex(i, d) = s}

\* A step that leaves the compute threads alone and, apart from one operand's
\* state on the cores of one group, everything else, need only be examined
\* there.
LEMMA GroupStep ==
    ASSUME IInv, TypeOK', UNCHANGED computeVars,
           NEW i \in Operands, NEW s \in Cores, isSender(i, s),
           \A j \in Operands, d \in Cores :
               j # i \/ coreIndex(j, d) # s => SameCell(j, d),
           \A d \in Group(i, s) : /\ CBInv(i, d)'
                                  /\ QuietInv(i, d)'
                                  /\ ReceiverInv(i, d)'
                                  /\ pages[i][d] = 1 => pages'[i][d] = 1,
           ReadyInv(i, s)'
    PROVE  IInv'
<1>1. ASSUME NEW j \in Operands, NEW d \in Cores, j # i \/ coreIndex(j, d) # s
      PROVE  CBInv(j, d)'
  BY <1>1 DEF IInv, CBInv, SameCell, computeVars
<1>2. ASSUME NEW j \in Operands, NEW d \in Cores, j # i \/ coreIndex(j, d) # s
      PROVE  QuietInv(j, d)'
  BY <1>2 DEF IInv, QuietInv, SameCell
<1>3. ASSUME NEW j \in Operands, NEW d \in Cores, j # i \/ coreIndex(j, d) # s
      PROVE  ReceiverInv(j, d)'
  <2> DEFINE t == coreIndex(j, d)
  <2>1. t \in Cores /\ coreIndex(j, t) = t
    BY SenderOfGroup DEF isSender
  <2>2. SameCell(j, d) /\ SameCell(j, t)
    BY <1>3, <2>1
  <2>3. InStep(j, d, t) => InStep(j, d, t)'
    BY <2>2 DEF InStep, SameCell
  <2>4. Behind(j, d, t) => Behind(j, d, t)'
    BY <2>2 DEF Behind, SameCell
  <2> QED
    BY <2>3, <2>4 DEF IInv, ReceiverInv
<1>4. ASSUME NEW j \in Operands, NEW d \in Cores, j # i \/ d # s
      PROVE  ReadyInv(j, d)'
  <2> SUFFICES ASSUME isMcast(j), isSender(j, d)
               PROVE  ReadyInv(j, d)'
    BY DEF ReadyInv
  <2>1. SameCell(j, d)
    BY <1>4 DEF isSender
  <2>2. \A r \in mcastDests(j, d) : SameCell(j, r)
    BY <1>4, DestsOfSender
  <2>3. Arrived(j, d)' = Arrived(j, d)
    BY <2>1, <2>2 DEF Arrived, SameCell
  <2> QED
    BY <2>1, <2>3 DEF IInv, ReadyInv, SameCell
<1>5. ASSUME NEW d \in Cores
      PROVE  ComputeInv(d)'
  <2>1. \A j \in Operands : pages[j][d] = 1 => pages'[j][d] = 1
    BY DEF SameCell, Group
  <2> QED
    BY <2>1 DEF IInv, ComputeInv, computeVars
<1> QED
  BY <1>1, <1>2, <1>3, <1>4, <1>5 DEF IInv, Group

\* cb_push_back hands the block of this iteration over to compute.
LEMMA YieldCB ==
    ASSUME IInv, NEW i \in Operands, NEW c \in Cores,
           NEW from \in DMLabels \ {"done"}, Yield(i, c, from),
           Reserve(i, c), UNCHANGED computeVars,
           l1'[i][c] = IF i \in Streams THEN Block(i, c, dmIter[i][c])
                                        ELSE NoBlock
    PROVE  /\ dmIter[i][c] \in 0 .. NumIters - 1
           /\ dmIter'[i][c] = dmIter[i][c] + 1
           /\ dm'[i][c] \in Idle
           /\ pages'[i][c] = 1
           /\ CBInv(i, c)'
<1> USE NumItersAssumption
<1>1. CBInv(i, c) /\ TypeOK
  BY DEF IInv
<1>2. dmIter[i][c] \in 0 .. NumIters - 1
  BY <1>1 DEF Yield, GotoDM, CBInv, TypeOK
<1>3. dmIter'[i][c] = dmIter[i][c] + 1 /\ pages'[i][c] = 1
  BY <1>1 DEF Yield, Reserve, TypeOK
<1>4. dm'[i][c] = IF dmIter[i][c] + 1 = NumIters THEN "done" ELSE "reserve"
  BY <1>1 DEF Yield, GotoDM, TypeOK
<1>5. popped'[c] = popped[c] /\ computeIter'[c] = computeIter[c]
  BY DEF computeVars
<1>6. popped[c] \in Nat /\ computeIter[c] \in Nat /\ i \in Nat
  BY <1>1, OperandsAssumption DEF TypeOK, Operands
<1>7. popped[c] < i => dmIter'[i][c] = computeIter[c] + 1
  BY <1>1, <1>2, <1>3, <1>6 DEF CBInv, Reserve
<1>8. popped[c] >= i => dmIter'[i][c] = computeIter[c] + 1 + 1
  BY <1>1, <1>2, <1>3, <1>6 DEF CBInv, Reserve
<1>9. dmIter'[i][c] - 1 = dmIter[i][c]
  BY <1>2, <1>3
<1> QED
  BY <1>2, <1>3, <1>4, <1>5, <1>7, <1>8, <1>9
  DEF CBInv, Idle, Sending, Receiving

\* A thread of an operand that needs no data movement pushes its aliased CB.
LEMMA YieldLocalIInv ==
    ASSUME IInv, NEW i \in Operands, NEW c \in Cores, YieldLocal(i, c)
    PROVE  IInv'
<1> DEFINE s == coreIndex(i, c)
<1> USE NumItersAssumption
<1>1. s \in Cores /\ isSender(i, s) /\ c \in Group(i, s)
  BY SenderOfGroup DEF Group
<1>2. ~isMcast(i)
  BY DEF YieldLocal, isMcast
<1>3. CBInv(i, c) /\ TypeOK
  BY DEF IInv
<1>4. dmIter[i][c] < NumIters /\ dmIter[i][c] \in 0 .. NumIters
  BY <1>3 DEF YieldLocal, Yield, GotoDM, CBInv, TypeOK
<1>5. TypeOK'
  <2>1. dm' \in [Operands -> [Cores -> DMLabels]]
    BY <1>3 DEF YieldLocal, Yield, GotoDM, TypeOK, DMLabels
  <2>2. dmIter' \in [Operands -> [Cores -> 0 .. NumIters]]
    BY <1>3, <1>4 DEF YieldLocal, Yield, TypeOK
  <2>3. pages' \in [Operands -> [Cores -> {0, 1}]]
    BY <1>3 DEF YieldLocal, Yield, Reserve, TypeOK
  <2> QED
    BY <1>3, <2>1, <2>2, <2>3
    DEF YieldLocal, TypeOK, computeVars, semVars, nocVars
<1>6. UNCHANGED computeVars
  BY DEF YieldLocal
<1>7. \A j \in Operands, d \in Cores : j # i \/ d # c => SameCell(j, d)
  BY <1>3 DEF YieldLocal, Yield, GotoDM, Reserve, SameCell,
     TypeOK, semVars, nocVars
<1>8. CBInv(i, c)' /\ pages'[i][c] = 1
  <2>1. l1'[i][c] = NoBlock
    BY <1>3 DEF YieldLocal, CBInv, TypeOK
  <2> QED
    BY <1>6, <2>1, YieldCB DEF YieldLocal, DMLabels
<1>9. \A d \in Group(i, s) : CBInv(i, d)' /\ (pages[i][d] = 1 => pages'[i][d] = 1)
  BY <1>6, <1>7, <1>8 DEF IInv, Group, SameCell, CBInv, computeVars
<1>10. \A d \in Group(i, s) : QuietInv(i, d)' /\ ReceiverInv(i, d)'
  BY <1>2 DEF YieldLocal, IInv, Group, QuietInv, ReceiverInv, nocVars
<1>11. ReadyInv(i, s)'
  BY <1>2 DEF ReadyInv
<1> QED
  BY <1>1, <1>5, <1>6, <1>7, <1>9, <1>10, <1>11, GroupStep DEF Group

\* A thread whose stream is not multicast fetches its block and pushes it.
LEMMA StreamDMAIInv ==
    ASSUME IInv, NEW i \in Operands, NEW c \in Cores, StreamDMA(i, c)
    PROVE  IInv'
<1> DEFINE s == coreIndex(i, c)
<1> USE NumItersAssumption
<1>1. s \in Cores /\ isSender(i, s) /\ c \in Group(i, s)
  BY SenderOfGroup DEF Group
<1>2. ~isMcast(i)
  BY DEF StreamDMA, isMcast
<1>3. CBInv(i, c) /\ TypeOK
  BY DEF IInv
<1>4. dmIter[i][c] < NumIters /\ dmIter[i][c] \in 0 .. NumIters
  BY <1>3 DEF StreamDMA, Yield, GotoDM, CBInv, TypeOK
<1>5. TypeOK'
  <2>1. Block(i, c, dmIter[i][c]) \in Blocks
    BY <1>4, BlockOfGroup
  <2>2. dm' \in [Operands -> [Cores -> DMLabels]]
    BY <1>3 DEF StreamDMA, Yield, GotoDM, TypeOK, DMLabels
  <2>3. dmIter' \in [Operands -> [Cores -> 0 .. NumIters]]
    BY <1>3, <1>4 DEF StreamDMA, Yield, TypeOK
  <2>4. pages' \in [Operands -> [Cores -> {0, 1}]]
    BY <1>3 DEF StreamDMA, Yield, Reserve, TypeOK
  <2>5. l1' \in [Operands -> [Cores -> Blocks]]
    BY <1>3, <2>1 DEF StreamDMA, Fetch, TypeOK
  <2> QED
    BY <1>3, <2>2, <2>3, <2>4, <2>5
    DEF StreamDMA, TypeOK, computeVars, semVars, nocVars
<1>6. UNCHANGED computeVars
  BY DEF StreamDMA
<1>7. \A j \in Operands, d \in Cores : j # i \/ d # c => SameCell(j, d)
  BY <1>3 DEF StreamDMA, Yield, GotoDM, Reserve, Fetch, SameCell,
     TypeOK, semVars, nocVars
<1>8. CBInv(i, c)' /\ pages'[i][c] = 1
  <2>1. l1'[i][c] = Block(i, c, dmIter[i][c])
    BY <1>3 DEF StreamDMA, Fetch, CBInv, TypeOK
  <2> QED
    BY <1>6, <2>1, YieldCB DEF StreamDMA, DMLabels
<1>9. \A d \in Group(i, s) : CBInv(i, d)' /\ (pages[i][d] = 1 => pages'[i][d] = 1)
  BY <1>6, <1>7, <1>8 DEF IInv, Group, SameCell, CBInv, computeVars
<1>10. \A d \in Group(i, s) : QuietInv(i, d)' /\ ReceiverInv(i, d)'
  BY <1>2 DEF StreamDMA, IInv, Group, QuietInv, ReceiverInv, nocVars
<1>11. ReadyInv(i, s)'
  BY <1>2 DEF ReadyInv
<1> QED
  BY <1>1, <1>5, <1>6, <1>7, <1>9, <1>10, <1>11, GroupStep DEF Group

\* The members of a sender's group: itself and its receivers.
LEMMA GroupOfSender ==
    ASSUME NEW i \in Operands, NEW s \in Cores, isSender(i, s)
    PROVE  /\ s \in Group(i, s)
           /\ \A d \in Group(i, s) : d # s =>
                 d \in mcastDests(i, s) /\ ~isSender(i, d) /\ coreIndex(i, d) = s
BY DEF Group, mcastDests, isSender

\* The per-operand parts of the invariant depend on one row of the state only.
LEMMA SameCellInv ==
    ASSUME NEW i \in Operands, NEW d \in Cores, SameCell(i, d),
           UNCHANGED computeVars, CBInv(i, d), QuietInv(i, d)
    PROVE  CBInv(i, d)' /\ QuietInv(i, d)' /\ pages'[i][d] = pages[i][d]
BY DEF SameCell, CBInv, QuietInv, computeVars

\* The sender has gathered its block and goes to await the receivers.
LEMMA GatherDMAIInv ==
    ASSUME IInv, NEW i \in Operands, NEW c \in Cores, GatherDMA(i, c)
    PROVE  IInv'
<1> USE NumItersAssumption
<1>1. CBInv(i, c) /\ QuietInv(i, c) /\ ReadyInv(i, c) /\ TypeOK
  BY DEF IInv
<1>2. isMcast(i) /\ isSender(i, c)
  BY DEF GatherDMA
<1>3. dm[i][c] = "reserve" /\ dm'[i][c] = "waitReady"
  BY <1>1 DEF GatherDMA, GotoDM, TypeOK
<1>4. dmIter[i][c] < NumIters /\ dmIter[i][c] \in 0 .. NumIters
  BY <1>1, <1>3 DEF CBInv, TypeOK
<1>5. UNCHANGED computeVars
  BY DEF GatherDMA
<1>6. ASSUME NEW d \in Group(i, c), d # c
      PROVE  /\ d \in mcastDests(i, c) /\ ~isSender(i, d) /\ d \in Cores
             /\ coreIndex(i, d) = c
             /\ CBInv(i, d) /\ QuietInv(i, d)
             /\ InStep(i, d, c) \/ Behind(i, d, c)
  BY <1>2, <1>6, GroupOfSender DEF IInv, Group, ReceiverInv
<1>7. TypeOK'
  <2>1. Block(i, c, dmIter[i][c]) \in Blocks
    BY <1>4, BlockOfGroup
  <2> QED
    BY <1>1, <2>1 DEF GatherDMA, GotoDM, Fetch, TypeOK, DMLabels, computeVars,
       semVars, nocVars
<1>8. \A j \in Operands, d \in Cores : j # i \/ d # c => SameCell(j, d)
  BY <1>1 DEF GatherDMA, GotoDM, Fetch, SameCell, TypeOK,
     cbVars, semVars, nocVars
<1>9. \A d \in Group(i, c) : /\ CBInv(i, d)' /\ QuietInv(i, d)'
                             /\ pages[i][d] = 1 => pages'[i][d] = 1
  <2>1. CBInv(i, c)' /\ QuietInv(i, c)'
    <3>1. l1'[i][c] = Block(i, c, dmIter[i][c])
      BY <1>1 DEF GatherDMA, Fetch, TypeOK
    <3>2. pages[i][c] = 0
      BY DEF GatherDMA, Reserve
    <3> QED
      BY <1>1, <1>2, <1>3, <1>4, <1>5, <3>1, <3>2
      DEF GatherDMA, CBInv, QuietInv, Idle, Sending, Receiving, computeVars,
          semVars, nocVars, isMcast
  <2> QED
    BY <1>5, <1>6, <1>8, <2>1 DEF GatherDMA, CBInv, QuietInv, SameCell, Group,
       computeVars
<1>10. \A d \in Group(i, c) : ReceiverInv(i, d)'
  BY <1>2, <1>3, <1>6, <1>8 DEF ReceiverInv, InStep, Behind, SameCell, GatherDMA,
     Group
<1>11. Arrived(i, c)' = Arrived(i, c)
  <2>1. \A r \in mcastDests(i, c) : SameCell(i, r)
    BY <1>8, DestsOfSender
  <2>2. dmIter'[i][c] = dmIter[i][c]
    BY DEF GatherDMA
  <2> QED
    BY <2>1, <2>2 DEF Arrived, SameCell
<1>12. ReadyInv(i, c)'
  BY <1>1, <1>2, <1>3, <1>11 DEF ReadyInv, GatherDMA, semVars
<1> QED
  <2>1. \A j \in Operands, d \in Cores :
           j # i \/ coreIndex(j, d) # c => SameCell(j, d)
    BY <1>2, <1>8 DEF isSender
  <2> QED
    BY <1>2, <1>5, <1>7, <1>9, <1>10, <1>12, <2>1, GroupStep

\* All the receivers have arrived when the semaphore shows their number.
LEMMA WaitReceiversReadyIInv ==
    ASSUME IInv, NEW i \in Operands, NEW c \in Cores, WaitReceiversReady(i, c)
    PROVE  IInv'
<1> USE NumItersAssumption
<1>1. CBInv(i, c) /\ QuietInv(i, c) /\ ReadyInv(i, c) /\ TypeOK
  BY DEF IInv
<1>2. isMcast(i) /\ isSender(i, c)
  BY <1>1 DEF WaitReceiversReady, GotoDM, CBInv, Sending
<1>3. dm[i][c] = "waitReady" /\ dm'[i][c] = "resetReady"
  BY <1>1 DEF WaitReceiversReady, GotoDM, TypeOK
<1>4. dmIter[i][c] < NumIters /\ dmIter[i][c] \in 0 .. NumIters
  BY <1>1, <1>3 DEF CBInv, TypeOK
<1>5. UNCHANGED computeVars
  BY DEF WaitReceiversReady
<1>6. ASSUME NEW d \in Group(i, c), d # c
      PROVE  /\ d \in mcastDests(i, c) /\ ~isSender(i, d) /\ d \in Cores
             /\ coreIndex(i, d) = c
             /\ CBInv(i, d) /\ QuietInv(i, d)
             /\ InStep(i, d, c) \/ Behind(i, d, c)
  BY <1>2, <1>6, GroupOfSender DEF IInv, Group, ReceiverInv
<1>7. TypeOK'
  BY <1>1 DEF WaitReceiversReady, GotoDM, TypeOK, DMLabels, computeVars, cbVars,
     semVars, nocVars
<1>8. \A j \in Operands, d \in Cores : j # i \/ d # c => SameCell(j, d)
  BY <1>1 DEF WaitReceiversReady, GotoDM, SameCell, TypeOK,
     cbVars, semVars, nocVars
<1>9. \A d \in Group(i, c) : /\ CBInv(i, d)' /\ QuietInv(i, d)'
                             /\ pages[i][d] = 1 => pages'[i][d] = 1
  <2>1. CBInv(i, c)'
    BY <1>1, <1>2, <1>3, <1>4, <1>5
    DEF WaitReceiversReady, CBInv, Idle, Sending, Receiving, computeVars, cbVars
  <2>2. QuietInv(i, c)'
    BY <1>1 DEF WaitReceiversReady, QuietInv, semVars, nocVars
  <2> QED
    BY <1>5, <1>6, <1>8, <2>1, <2>2, SameCellInv DEF WaitReceiversReady, cbVars
<1>10. \A d \in Group(i, c) : ReceiverInv(i, d)'
  <2>1. Arrived(i, c) = mcastDests(i, c)
    <3>1. Cardinality(Arrived(i, c)) = mcastVolume(i) - 1
      BY <1>1, <1>2, <1>3 DEF ReadyInv, WaitReceiversReady
    <3>2. Arrived(i, c) \in SUBSET mcastDests(i, c)
      BY DEF Arrived
    <3> QED
      BY <1>2, <3>1, <3>2, NumberOfReceivers, FS_Subset
  <2>2. ASSUME NEW d \in Group(i, c), d # c
        PROVE  InStep(i, d, c)'
    <3>1. /\ dmIter[i][d] = dmIter[i][c]
          /\ dm[i][d] = "waitFinished"
          /\ incInFlight[i][d] = 0
      BY <1>6, <2>1, <2>2 DEF Arrived
    <3>2. InStep(i, d, c)
      BY <1>1, <1>4, <1>6, <2>2, <3>1 DEF Behind
    <3> QED
      BY <1>3, <1>6, <1>8, <2>2, <3>1, <3>2
      DEF InStep, SameCell, WaitReceiversReady, Idle
  <2> QED
    BY <1>2, <1>6, <2>2 DEF ReceiverInv, Group
<1>11. Arrived(i, c)' = Arrived(i, c)
  <2>1. \A r \in mcastDests(i, c) : SameCell(i, r)
    BY <1>8, DestsOfSender
  <2>2. dmIter'[i][c] = dmIter[i][c]
    BY DEF WaitReceiversReady
  <2> QED
    BY <2>1, <2>2 DEF Arrived, SameCell
<1>12. ReadyInv(i, c)'
  BY <1>1, <1>2, <1>3, <1>11 DEF ReadyInv, WaitReceiversReady, semVars
<1> QED
  <2>1. \A j \in Operands, d \in Cores :
           j # i \/ coreIndex(j, d) # c => SameCell(j, d)
    BY <1>2, <1>8 DEF isSender
  <2> QED
    BY <1>2, <1>5, <1>7, <1>9, <1>10, <1>12, <2>1, GroupStep

\* The sender's reset loses no increment: each receiver has sent the one of
\* this iteration, and none can send the next before it is released.
LEMMA ResetReceiversReadyIInv ==
    ASSUME IInv, NEW i \in Operands, NEW c \in Cores, ResetReceiversReady(i, c)
    PROVE  IInv'
<1> USE NumItersAssumption
<1>1. CBInv(i, c) /\ QuietInv(i, c) /\ ReadyInv(i, c) /\ TypeOK
  BY DEF IInv
<1>2. isMcast(i) /\ isSender(i, c)
  BY <1>1 DEF ResetReceiversReady, GotoDM, CBInv, Sending
<1>3. dm[i][c] = "resetReady" /\ dm'[i][c] = "mcast"
  BY <1>1 DEF ResetReceiversReady, GotoDM, TypeOK
<1>4. dmIter[i][c] < NumIters /\ dmIter[i][c] \in 0 .. NumIters
  BY <1>1, <1>3 DEF CBInv, TypeOK
<1>5. UNCHANGED computeVars
  BY DEF ResetReceiversReady
<1>6. ASSUME NEW d \in Group(i, c), d # c
      PROVE  /\ d \in mcastDests(i, c) /\ ~isSender(i, d) /\ d \in Cores
             /\ coreIndex(i, d) = c
             /\ CBInv(i, d) /\ QuietInv(i, d)
             /\ InStep(i, d, c) \/ Behind(i, d, c)
  BY <1>2, <1>6, GroupOfSender DEF IInv, Group, ReceiverInv
<1>7. TypeOK'
  BY <1>1 DEF ResetReceiversReady, GotoDM, TypeOK, DMLabels, computeVars,
     cbVars, nocVars
<1>8. \A j \in Operands, d \in Cores : j # i \/ d # c => SameCell(j, d)
  BY <1>1 DEF ResetReceiversReady, GotoDM, SameCell, TypeOK,
     cbVars, semVars, nocVars
<1>9. \A d \in Group(i, c) : /\ CBInv(i, d)' /\ QuietInv(i, d)'
                             /\ pages[i][d] = 1 => pages'[i][d] = 1
  <2>1. CBInv(i, c)'
    BY <1>1, <1>2, <1>3, <1>4, <1>5
    DEF ResetReceiversReady, CBInv, Idle, Sending, Receiving, computeVars, cbVars
  <2>2. QuietInv(i, c)'
    BY <1>1 DEF ResetReceiversReady, QuietInv, semVars, nocVars
  <2> QED
    BY <1>5, <1>6, <1>8, <2>1, <2>2, SameCellInv DEF ResetReceiversReady, cbVars
<1>10. \A d \in Group(i, c) : ReceiverInv(i, d)'
  BY <1>2, <1>3, <1>6, <1>8 DEF ReceiverInv, InStep, Behind, SameCell,
     ResetReceiversReady, Group
<1>12. ReadyInv(i, c)'
  BY <1>1, <1>3 DEF ReadyInv, ResetReceiversReady, TypeOK
<1> QED
  <2>1. \A j \in Operands, d \in Cores :
           j # i \/ coreIndex(j, d) # c => SameCell(j, d)
    BY <1>2, <1>8 DEF isSender
  <2> QED
    BY <1>2, <1>5, <1>7, <1>9, <1>10, <1>12, <2>1, GroupStep

\* The multicast is issued when every receiver of the group has reserved.
LEMMA McastDMAIInv ==
    ASSUME IInv, NEW i \in Operands, NEW c \in Cores, McastDMA(i, c)
    PROVE  IInv'
<1> USE NumItersAssumption
<1>1. CBInv(i, c) /\ QuietInv(i, c) /\ ReadyInv(i, c) /\ TypeOK
  BY DEF IInv
<1>2. isMcast(i) /\ isSender(i, c)
  BY <1>1 DEF McastDMA, GotoDM, CBInv, Sending
<1>3. dm[i][c] = "mcast" /\ dm'[i][c] = "writeBarrier"
  BY <1>1 DEF McastDMA, GotoDM, TypeOK
<1>4. dmIter[i][c] < NumIters /\ dmIter[i][c] \in 0 .. NumIters
  BY <1>1, <1>3 DEF CBInv, TypeOK
<1>5. UNCHANGED computeVars
  BY DEF McastDMA
<1>6. ASSUME NEW d \in Group(i, c), d # c
      PROVE  /\ d \in mcastDests(i, c) /\ ~isSender(i, d) /\ d \in Cores
             /\ coreIndex(i, d) = c
             /\ CBInv(i, d) /\ QuietInv(i, d)
             /\ InStep(i, d, c) \/ Behind(i, d, c)
  BY <1>2, <1>6, GroupOfSender DEF IInv, Group, ReceiverInv
<1>7. TypeOK'
  <2>1. \A d \in Cores : d \in mcastDests(i, c) => dataInFlight[i][d] = 0
    BY <1>1, <1>2, <1>3, DestsOfSender
    DEF IInv, ReceiverInv, InStep, Behind, TypeOK
  <2>2. dataInFlight' \in [Operands -> [Cores -> {0, 1}]]
    BY <1>1, <2>1 DEF McastDMA, Issue, TypeOK
  <2> QED
    BY <1>1, <2>2 DEF McastDMA, GotoDM, TypeOK, DMLabels, computeVars, cbVars,
       semVars
<1>8. \A j \in Operands, d \in Cores : j # i \/ d \notin Group(i, c) => SameCell(j, d)
  <2>1. c \in Group(i, c) /\ mcastDests(i, c) \subseteq Group(i, c)
    BY <1>2 DEF Group, isSender, mcastDests
  <2>2. ASSUME NEW j \in Operands, NEW d \in Cores, j # i \/ d \notin Group(i, c)
        PROVE  /\ dm'[j][d] = dm[j][d]
               /\ dataInFlight'[j][d] = dataInFlight[j][d]
    BY <1>1, <2>1, <2>2 DEF McastDMA, GotoDM, Issue, TypeOK
  <2> QED
    BY <2>2 DEF McastDMA, SameCell, cbVars, semVars
<1>9. ASSUME NEW d \in Group(i, c)
      PROVE  /\ CBInv(i, d)' /\ QuietInv(i, d)' /\ ReceiverInv(i, d)'
             /\ pages[i][d] = 1 => pages'[i][d] = 1
  <2>1. CASE d = c
    <3>1. c \notin mcastDests(i, c)
      BY DEF mcastDests
    <3>2. dataInFlight'[i][c] = dataInFlight[i][c]
      BY <1>1, <3>1 DEF McastDMA, Issue, TypeOK
    <3>3. CBInv(i, c)'
      BY <1>1, <1>2, <1>3, <1>4, <1>5
      DEF McastDMA, CBInv, Idle, Sending, Receiving, computeVars, cbVars
    <3>4. QuietInv(i, c)' /\ ReceiverInv(i, c)'
      BY <1>1, <1>2, <3>2 DEF McastDMA, QuietInv, ReceiverInv, semVars
    <3> QED
      BY <2>1, <3>3, <3>4 DEF McastDMA, cbVars
  <2>2. CASE d # c
    <3>1. /\ dm'[i][d] = dm[i][d]
          /\ UNCHANGED <<dmIter, pages, l1, senderFinished, incInFlight, setInFlight>>
      BY <1>1, <1>6, <2>2 DEF McastDMA, GotoDM, cbVars, semVars, TypeOK
    <3>2. InStep(i, d, c)
      BY <1>3, <1>6, <2>2 DEF Behind
    <3>3. dataInFlight[i][d] = 0
      BY <1>1, <1>3, <1>6, <2>2, <3>2 DEF InStep, TypeOK
    <3>4. dataInFlight'[i][d] = 1
      BY <1>1, <1>6, <2>2, <3>3 DEF McastDMA, Issue, TypeOK
    <3>5. InStep(i, d, c)'
      BY <1>3, <3>1, <3>2, <3>4 DEF InStep, Idle
    <3>6. CBInv(i, d)' /\ QuietInv(i, d)' /\ ReceiverInv(i, d)'
      BY <1>2, <1>5, <1>6, <2>2, <3>1, <3>5
      DEF CBInv, QuietInv, ReceiverInv, computeVars
    <3> QED
      BY <3>1, <3>6
  <2> QED
    BY <2>1, <2>2
<1>12. ReadyInv(i, c)'
  BY <1>1, <1>2, <1>3 DEF ReadyInv, McastDMA, semVars
<1> QED
  <2>1. \A j \in Operands, d \in Cores :
           j # i \/ coreIndex(j, d) # c => SameCell(j, d)
    BY <1>8 DEF Group
  <2> QED
    BY <1>2, <1>5, <1>7, <1>9, <1>12, <2>1, GroupStep

\* The sender releases its receivers once its writes have landed: they go
\* from InStep to Behind, all at once.
LEMMA SetSenderFinishedIInv ==
    ASSUME IInv, NEW i \in Operands, NEW c \in Cores, SetSenderFinished(i, c)
    PROVE  IInv'
<1> USE NumItersAssumption
<1>1. CBInv(i, c) /\ QuietInv(i, c) /\ ReadyInv(i, c) /\ TypeOK
  BY DEF IInv
<1>2. dm[i][c] = "writeBarrier" /\ isMcast(i) /\ isSender(i, c)
  BY <1>1 DEF SetSenderFinished, Yield, GotoDM, CBInv, Sending
<1>3. UNCHANGED computeVars
  BY DEF SetSenderFinished
<1>4. /\ dmIter[i][c] \in 0 .. NumIters - 1
      /\ dmIter'[i][c] = dmIter[i][c] + 1
      /\ dm'[i][c] \in Idle
      /\ pages'[i][c] = 1
      /\ CBInv(i, c)'
  <2>1. pages[i][c] = 0 /\ i \in Streams /\ l1'[i][c] = Block(i, c, dmIter[i][c])
    BY <1>1, <1>2 DEF SetSenderFinished, CBInv, Sending, Idle, isMcast
  <2> QED
    BY <1>3, <2>1, YieldCB DEF SetSenderFinished, Reserve, DMLabels
<1>5. ASSUME NEW d \in Group(i, c), d # c
      PROVE  /\ d \in mcastDests(i, c) /\ ~isSender(i, d) /\ d \in Cores
             /\ coreIndex(i, d) = c
             /\ CBInv(i, d) /\ QuietInv(i, d)
             /\ InStep(i, d, c)
             /\ dataInFlight[i][d] = 0
             /\ dm[i][d] = "waitFinished"
             /\ setInFlight[i][d] = 0
  <2>1. d \in mcastDests(i, c) /\ ~isSender(i, d) /\ d \in Cores /\ coreIndex(i, d) = c
    BY <1>2, <1>5, GroupOfSender DEF Group
  <2>2. CBInv(i, d) /\ QuietInv(i, d) /\ InStep(i, d, c)
    BY <1>2, <2>1 DEF IInv, ReceiverInv, Behind
  <2> QED
    BY <1>2, <2>1, <2>2 DEF SetSenderFinished, InStep
<1>6. TypeOK'
  <2>1. \A d \in Cores : d \in mcastDests(i, c) => setInFlight[i][d] = 0
    BY <1>5 DEF Group, mcastDests
  <2>2. setInFlight' \in [Operands -> [Cores -> {0, 1}]]
    BY <1>1, <2>1 DEF SetSenderFinished, Issue, TypeOK
  <2>3. dmIter' \in [Operands -> [Cores -> 0 .. NumIters]]
    BY <1>1, <1>4 DEF SetSenderFinished, Yield, TypeOK
  <2>4. pages' \in [Operands -> [Cores -> {0, 1}]]
    BY <1>1, <1>4 DEF SetSenderFinished, Yield, TypeOK
  <2>5. dm' \in [Operands -> [Cores -> DMLabels]]
    BY <1>1 DEF SetSenderFinished, Yield, GotoDM, TypeOK, DMLabels
  <2>6. senderFinished' \in [Operands -> [Cores -> {0, 1}]]
    BY <1>1 DEF SetSenderFinished, TypeOK
  <2> QED
    BY <1>1, <2>2, <2>3, <2>4, <2>5, <2>6
    DEF SetSenderFinished, TypeOK, computeVars
<1>7. \A j \in Operands, d \in Cores : j # i \/ d \notin Group(i, c) => SameCell(j, d)
  <2>1. c \in Group(i, c) /\ mcastDests(i, c) \subseteq Group(i, c)
    BY <1>2 DEF Group, isSender, mcastDests
  <2>2. ASSUME NEW j \in Operands, NEW d \in Cores, j # i \/ d \notin Group(i, c)
        PROVE  /\ dm'[j][d] = dm[j][d]
               /\ dmIter'[j][d] = dmIter[j][d]
               /\ pages'[j][d] = pages[j][d]
               /\ senderFinished'[j][d] = senderFinished[j][d]
               /\ setInFlight'[j][d] = setInFlight[j][d]
    BY <1>1, <2>1, <2>2 DEF SetSenderFinished, Yield, GotoDM, Issue, TypeOK
  <2> QED
    BY <2>2 DEF SetSenderFinished, SameCell
<1>8. QuietInv(i, c)' /\ ReceiverInv(i, c)'
  <2>1. c \notin mcastDests(i, c)
    BY DEF mcastDests
  <2>2. setInFlight'[i][c] = setInFlight[i][c] /\ senderFinished'[i][c] = 1
    BY <1>1, <2>1 DEF SetSenderFinished, Issue, TypeOK
  <2> QED
    BY <1>1, <1>2, <2>2 DEF SetSenderFinished, QuietInv, ReceiverInv
<1>9. ASSUME NEW d \in Group(i, c), d # c
      PROVE  /\ CBInv(i, d)' /\ QuietInv(i, d)' /\ ReceiverInv(i, d)'
             /\ pages'[i][d] = pages[i][d]
             /\ dmIter'[i][d] # dmIter'[i][c]
  <2>1. /\ dm'[i][d] = dm[i][d]
        /\ dmIter'[i][d] = dmIter[i][d]
        /\ pages'[i][d] = pages[i][d]
        /\ senderFinished'[i][d] = senderFinished[i][d]
        /\ UNCHANGED <<l1, incInFlight, dataInFlight>>
    BY <1>1, <1>5, <1>9 DEF SetSenderFinished, Yield, GotoDM, TypeOK
  <2>2. setInFlight'[i][d] = 1
    BY <1>1, <1>5, <1>9 DEF SetSenderFinished, Issue, TypeOK
  <2>3. Behind(i, d, c)'
    BY <1>2, <1>4, <1>5, <1>9, <2>1, <2>2
    DEF Behind, InStep, Idle, Receiving
  <2> QED
    BY <1>2, <1>3, <1>4, <1>5, <1>9, <2>1, <2>2, <2>3
    DEF CBInv, QuietInv, ReceiverInv, InStep, computeVars
<1>10. ReadyInv(i, c)'
  <2>1. Arrived(i, c)' = {}
    BY <1>9, DestsOfSender DEF Arrived, Group
  <2>2. receiversReady'[i][c] = 0
    BY <1>1, <1>2 DEF SetSenderFinished, ReadyInv
  <2> QED
    BY <2>1, <2>2, FS_EmptySet DEF ReadyInv
<1> QED
  <2>1. \A j \in Operands, d \in Cores :
           j # i \/ coreIndex(j, d) # c => SameCell(j, d)
    BY <1>7 DEF Group
  <2>2. \A d \in Group(i, c) : /\ CBInv(i, d)' /\ QuietInv(i, d)' /\ ReceiverInv(i, d)'
                               /\ pages[i][d] = 1 => pages'[i][d] = 1
    BY <1>4, <1>8, <1>9
  <2> QED
    BY <1>2, <1>3, <1>6, <1>10, <2>1, <2>2, GroupStep

\* A step of a receiver, or a transaction on its account, need only be examined
\* for that receiver and for the semaphore of its sender.
LEMMA ReceiverStep ==
    ASSUME IInv, TypeOK', UNCHANGED computeVars,
           NEW i \in Operands, NEW c \in Cores, isMcast(i), ~isSender(i, c),
           \A j \in Operands, d \in Cores :
               j # i \/ d # c =>
                   /\ dm'[j][d] = dm[j][d]
                   /\ dmIter'[j][d] = dmIter[j][d]
                   /\ pages'[j][d] = pages[j][d]
                   /\ l1'[j][d] = l1[j][d]
                   /\ senderFinished'[j][d] = senderFinished[j][d]
                   /\ incInFlight'[j][d] = incInFlight[j][d]
                   /\ dataInFlight'[j][d] = dataInFlight[j][d]
                   /\ setInFlight'[j][d] = setInFlight[j][d],
           \A j \in Operands, d \in Cores :
               j # i \/ d # coreIndex(i, c) =>
                   receiversReady'[j][d] = receiversReady[j][d],
           CBInv(i, c)', QuietInv(i, c)', ReceiverInv(i, c)',
           pages[i][c] = 1 => pages'[i][c] = 1,
           ReadyInv(i, coreIndex(i, c))'
    PROVE  IInv'
<1> DEFINE s == coreIndex(i, c)
<1>1. s \in Cores /\ isSender(i, s) /\ coreIndex(i, s) = s /\ s # c
  BY SenderOfGroup DEF isSender
<1>2. \A j \in Operands, d \in Cores :
         j # i \/ coreIndex(j, d) # s => SameCell(j, d)
  BY <1>1 DEF SameCell
<1>3. ASSUME NEW d \in Group(i, s), d # c
      PROVE  /\ CBInv(i, d)' /\ QuietInv(i, d)' /\ ReceiverInv(i, d)'
             /\ pages'[i][d] = pages[i][d]
  <2>1. d \in Cores /\ coreIndex(i, d) = s
    BY DEF Group
  <2>2. CBInv(i, d)' /\ QuietInv(i, d)'
    BY <1>3, <2>1 DEF IInv, CBInv, QuietInv, computeVars
  <2>3. InStep(i, d, s) => InStep(i, d, s)'
    BY <1>1, <1>3, <2>1 DEF InStep
  <2>4. Behind(i, d, s) => Behind(i, d, s)'
    BY <1>1, <1>3, <2>1 DEF Behind
  <2> QED
    BY <1>3, <2>1, <2>2, <2>3, <2>4 DEF IInv, ReceiverInv
<1> HIDE DEF s
<1>4. ReadyInv(i, s)'
  BY DEF s
<1> QED
  BY <1>1, <1>2, <1>3, <1>4, GroupStep

\* A receiver that has reserved its CB announces itself to the sender.
LEMMA IncReceiversReadyIInv ==
    ASSUME IInv, NEW i \in Operands, NEW c \in Cores, IncReceiversReady(i, c)
    PROVE  IInv'
<1> DEFINE s == coreIndex(i, c)
<1> USE NumItersAssumption
<1>1. CBInv(i, c) /\ QuietInv(i, c) /\ TypeOK
  BY DEF IInv
<1>2. isMcast(i) /\ ~isSender(i, c)
  BY <1>1 DEF IncReceiversReady
<1>3. s \in Cores /\ isSender(i, s) /\ s # c /\ c \in mcastDests(i, s)
  BY <1>2, SenderOfGroup
<1>4. InStep(i, c, s) \/ Behind(i, c, s)
  BY <1>2 DEF IInv, ReceiverInv
<1>5. ReadyInv(i, s)
  BY <1>3 DEF IInv
<1>6. UNCHANGED computeVars
  BY DEF IncReceiversReady
<1>7. ASSUME NEW j \in Operands, NEW d \in Cores, j # i \/ d # c
      PROVE  /\ dm'[j][d] = dm[j][d]
             /\ dmIter'[j][d] = dmIter[j][d]
             /\ pages'[j][d] = pages[j][d]
             /\ l1'[j][d] = l1[j][d]
             /\ senderFinished'[j][d] = senderFinished[j][d]
             /\ incInFlight'[j][d] = incInFlight[j][d]
             /\ dataInFlight'[j][d] = dataInFlight[j][d]
             /\ setInFlight'[j][d] = setInFlight[j][d]
  BY <1>1, <1>7 DEF IncReceiversReady, GotoDM, cbVars, semVars, TypeOK
<1>8. \A j \in Operands, d \in Cores : j # i \/ d # s =>
         receiversReady'[j][d] = receiversReady[j][d]
  BY <1>1, <1>3 DEF IncReceiversReady, semVars, TypeOK
<1>9. \A r \in mcastDests(i, s) : r # c =>
         (r \in Arrived(i, s)' <=> r \in Arrived(i, s))
  BY <1>3, <1>7, DestsOfSender DEF Arrived
<1>10. TypeOK' /\ incInFlight'[i][c] = 1
  <2>1. incInFlight[i][c] = 0
    BY <1>1, <1>4 DEF IncReceiversReady, GotoDM, InStep, Behind, Idle
  <2> QED
    BY <1>1, <2>1 DEF IncReceiversReady, GotoDM, TypeOK, DMLabels, computeVars,
       cbVars, semVars
<1>11. CBInv(i, c)' /\ QuietInv(i, c)' /\ (pages[i][c] = 1 => pages'[i][c] = 1)
  <2>1. dm[i][c] = "reserve" /\ dm'[i][c] = "waitFinished" /\ pages[i][c] = 0
    BY <1>1 DEF IncReceiversReady, GotoDM, Reserve, TypeOK
  <2>2. CBInv(i, c)'
    BY <1>1, <1>2, <1>6, <2>1
    DEF IncReceiversReady, CBInv, Idle, Sending, Receiving, computeVars, cbVars,
        isMcast
  <2> QED
    BY <1>2, <2>1, <2>2 DEF IncReceiversReady, QuietInv, cbVars
<1>12. ReceiverInv(i, c)'
  <2>1. dm[i][c] = "reserve" /\ dm'[i][c] = "waitFinished"
    BY <1>1 DEF IncReceiversReady, GotoDM, TypeOK
  <2>2. InStep(i, c, s)
    BY <1>4, <2>1 DEF Behind, Receiving
  <2>3. InStep(i, c, s)'
    BY <1>3, <1>7, <2>1, <2>2
    DEF IncReceiversReady, InStep, Idle, cbVars, semVars
  <2> QED
    BY <2>3 DEF ReceiverInv
<1>13. ReadyInv(i, s)'
  <2>1. c \in Arrived(i, s)' <=> c \in Arrived(i, s)
    BY <1>1, <1>10 DEF Arrived, InStep, Behind, IncReceiversReady, GotoDM
  <2>2. Arrived(i, s)' \subseteq mcastDests(i, s) /\ Arrived(i, s) \subseteq mcastDests(i, s)
    BY DEF Arrived
  <2>3. Arrived(i, s)' = Arrived(i, s)
    BY <1>9, <2>1, <2>2
  <2> QED
    BY <1>3, <1>5, <1>7, <2>3 DEF IncReceiversReady, ReadyInv, semVars
<1> QED
  BY <1>2, <1>6, <1>7, <1>8, <1>10, <1>11, <1>12, <1>13, ReceiverStep

\* A receiver sees the semaphore set.
LEMMA WaitSenderFinishedIInv ==
    ASSUME IInv, NEW i \in Operands, NEW c \in Cores, WaitSenderFinished(i, c)
    PROVE  IInv'
<1> DEFINE s == coreIndex(i, c)
<1> USE NumItersAssumption
<1>1. CBInv(i, c) /\ QuietInv(i, c) /\ TypeOK
  BY DEF IInv
<1>2. isMcast(i) /\ ~isSender(i, c)
  BY <1>1 DEF WaitSenderFinished, GotoDM, CBInv, Receiving
<1>3. s \in Cores /\ isSender(i, s) /\ s # c /\ c \in mcastDests(i, s)
  BY <1>2, SenderOfGroup
<1>4. InStep(i, c, s) \/ Behind(i, c, s)
  BY <1>2 DEF IInv, ReceiverInv
<1>5. ReadyInv(i, s)
  BY <1>3 DEF IInv
<1>6. UNCHANGED computeVars
  BY DEF WaitSenderFinished
<1>7. ASSUME NEW j \in Operands, NEW d \in Cores, j # i \/ d # c
      PROVE  /\ dm'[j][d] = dm[j][d]
             /\ dmIter'[j][d] = dmIter[j][d]
             /\ pages'[j][d] = pages[j][d]
             /\ l1'[j][d] = l1[j][d]
             /\ senderFinished'[j][d] = senderFinished[j][d]
             /\ incInFlight'[j][d] = incInFlight[j][d]
             /\ dataInFlight'[j][d] = dataInFlight[j][d]
             /\ setInFlight'[j][d] = setInFlight[j][d]
  BY <1>1, <1>7 DEF WaitSenderFinished, GotoDM, cbVars, semVars, nocVars, TypeOK
<1>8. \A j \in Operands, d \in Cores : j # i \/ d # s =>
         receiversReady'[j][d] = receiversReady[j][d]
  BY <1>1, <1>3 DEF WaitSenderFinished, semVars, TypeOK
<1>9. \A r \in mcastDests(i, s) : r # c =>
         (r \in Arrived(i, s)' <=> r \in Arrived(i, s))
  BY <1>3, <1>7, DestsOfSender DEF Arrived
<1>10. TypeOK'
  BY <1>1 DEF WaitSenderFinished, GotoDM, TypeOK, DMLabels, computeVars, cbVars,
     semVars, nocVars
<1>11. CBInv(i, c)' /\ QuietInv(i, c)' /\ (pages[i][c] = 1 => pages'[i][c] = 1)
  <2>1. dm[i][c] = "waitFinished" /\ dm'[i][c] = "resetFinished"
    BY <1>1 DEF WaitSenderFinished, GotoDM, TypeOK
  <2>2. CBInv(i, c)'
    BY <1>1, <1>2, <1>6, <2>1
    DEF WaitSenderFinished, CBInv, Idle, Sending, Receiving, computeVars, cbVars
  <2> QED
    BY <1>1, <1>2, <2>2 DEF WaitSenderFinished, QuietInv, cbVars, semVars, nocVars
<1>12. ReceiverInv(i, c)' /\ Behind(i, c, s)
  <2>1. dm[i][c] = "waitFinished" /\ dm'[i][c] = "resetFinished"
    BY <1>1 DEF WaitSenderFinished, GotoDM, TypeOK
  <2>2. Behind(i, c, s) /\ senderFinished[i][c] = 1
    BY <1>4 DEF WaitSenderFinished, InStep
  <2>3. Behind(i, c, s)'
    BY <1>3, <1>7, <2>1, <2>2
    DEF WaitSenderFinished, Behind, Receiving, cbVars, semVars, nocVars
  <2> QED
    BY <2>2, <2>3 DEF ReceiverInv
<1>13. ReadyInv(i, s)'
  <2>1. c \in Arrived(i, s)' <=> c \in Arrived(i, s)
    BY <1>1, <1>3, <1>7, <1>12 DEF Arrived, InStep, Behind, WaitSenderFinished, TypeOK
  <2>2. Arrived(i, s)' \subseteq mcastDests(i, s) /\ Arrived(i, s) \subseteq mcastDests(i, s)
    BY DEF Arrived
  <2>3. Arrived(i, s)' = Arrived(i, s)
    BY <1>9, <2>1, <2>2
  <2> QED
    BY <1>3, <1>5, <1>7, <2>3 DEF WaitSenderFinished, ReadyInv, semVars
<1> QED
  BY <1>2, <1>6, <1>7, <1>8, <1>10, <1>11, <1>12, <1>13, ReceiverStep

\* A receiver resets its semaphore, pushes the CB and is in step again.
LEMMA ResetSenderFinishedIInv ==
    ASSUME IInv, NEW i \in Operands, NEW c \in Cores, ResetSenderFinished(i, c)
    PROVE  IInv'
<1> DEFINE s == coreIndex(i, c)
<1> USE NumItersAssumption
<1>1. CBInv(i, c) /\ QuietInv(i, c) /\ TypeOK
  BY DEF IInv
<1>2. isMcast(i) /\ ~isSender(i, c)
  BY <1>1 DEF ResetSenderFinished, Yield, GotoDM, CBInv, Receiving
<1>3. s \in Cores /\ isSender(i, s) /\ s # c /\ c \in mcastDests(i, s)
  BY <1>2, SenderOfGroup
<1>4. InStep(i, c, s) \/ Behind(i, c, s)
  BY <1>2 DEF IInv, ReceiverInv
<1>5. ReadyInv(i, s)
  BY <1>3 DEF IInv
<1>6. UNCHANGED computeVars
  BY DEF ResetSenderFinished
<1>7. ASSUME NEW j \in Operands, NEW d \in Cores, j # i \/ d # c
      PROVE  /\ dm'[j][d] = dm[j][d]
             /\ dmIter'[j][d] = dmIter[j][d]
             /\ pages'[j][d] = pages[j][d]
             /\ l1'[j][d] = l1[j][d]
             /\ senderFinished'[j][d] = senderFinished[j][d]
             /\ incInFlight'[j][d] = incInFlight[j][d]
             /\ dataInFlight'[j][d] = dataInFlight[j][d]
             /\ setInFlight'[j][d] = setInFlight[j][d]
  BY <1>1, <1>7 DEF ResetSenderFinished, Yield, GotoDM, nocVars, TypeOK
<1>8. \A j \in Operands, d \in Cores : j # i \/ d # s =>
         receiversReady'[j][d] = receiversReady[j][d]
  BY <1>1, <1>3 DEF ResetSenderFinished, semVars, TypeOK
<1>9. \A r \in mcastDests(i, s) : r # c =>
         (r \in Arrived(i, s)' <=> r \in Arrived(i, s))
  BY <1>3, <1>7, DestsOfSender DEF Arrived
<1>10. dm[i][c] = "resetFinished" /\ Behind(i, c, s) /\ pages[i][c] = 0
  BY <1>1, <1>4 DEF ResetSenderFinished, Yield, GotoDM, InStep, CBInv, Idle
<1>11. /\ dmIter[i][c] \in 0 .. NumIters - 1
       /\ dmIter'[i][c] = dmIter[i][c] + 1
       /\ dm'[i][c] \in Idle
       /\ pages'[i][c] = 1
       /\ CBInv(i, c)'
  BY <1>2, <1>6, <1>10, YieldCB
  DEF ResetSenderFinished, Reserve, Behind, DMLabels, isMcast
<1>12. TypeOK'
  <2>1. dmIter' \in [Operands -> [Cores -> 0 .. NumIters]]
    BY <1>1, <1>11 DEF ResetSenderFinished, Yield, TypeOK
  <2>2. pages' \in [Operands -> [Cores -> {0, 1}]]
    BY <1>1, <1>11 DEF ResetSenderFinished, Yield, TypeOK
  <2>3. dm' \in [Operands -> [Cores -> DMLabels]]
    BY <1>1 DEF ResetSenderFinished, Yield, GotoDM, TypeOK, DMLabels
  <2>4. senderFinished' \in [Operands -> [Cores -> {0, 1}]]
    BY <1>1 DEF ResetSenderFinished, TypeOK
  <2> QED
    BY <1>1, <2>1, <2>2, <2>3, <2>4
    DEF ResetSenderFinished, TypeOK, computeVars, nocVars
<1>13. CBInv(i, c)' /\ QuietInv(i, c)' /\ (pages[i][c] = 1 => pages'[i][c] = 1)
  BY <1>2, <1>11 DEF QuietInv
<1>14. ReceiverInv(i, c)'
  <2>1. senderFinished'[i][c] = 0 /\ UNCHANGED nocVars /\ UNCHANGED l1
    BY <1>1 DEF ResetSenderFinished, TypeOK
  <2>2. setInFlight[i][c] = 0
    BY <1>1, <1>10 DEF Behind, TypeOK
  <2>3. InStep(i, c, s)'
    BY <1>3, <1>7, <1>10, <1>11, <2>1, <2>2
    DEF InStep, Behind, Idle, nocVars
  <2> QED
    BY <2>3 DEF ReceiverInv
<1>15. ReadyInv(i, s)'
  <2>1. c \in Arrived(i, s)' <=> c \in Arrived(i, s)
    BY <1>10, <1>11 DEF Arrived, InStep, Behind, Idle
  <2>2. Arrived(i, s)' \subseteq mcastDests(i, s) /\ Arrived(i, s) \subseteq mcastDests(i, s)
    BY DEF Arrived
  <2>3. Arrived(i, s)' = Arrived(i, s)
    BY <1>9, <2>1, <2>2
  <2> QED
    BY <1>3, <1>5, <1>7, <2>3 DEF ResetSenderFinished, ReadyInv, semVars
<1> QED
  BY <1>2, <1>6, <1>7, <1>8, <1>12, <1>13, <1>14, <1>15, ReceiverStep

\* An increment arrives: the counter keeps counting the arrived receivers.
LEMMA LandIncIInv ==
    ASSUME IInv, NEW i \in Operands, NEW c \in Cores, LandInc(i, c)
    PROVE  IInv'
<1> DEFINE s == coreIndex(i, c)
<1> USE NumItersAssumption
<1>1. CBInv(i, c) /\ QuietInv(i, c) /\ TypeOK
  BY DEF IInv
<1>2. isMcast(i) /\ ~isSender(i, c)
  BY <1>1 DEF LandInc, QuietInv, TypeOK
<1>3. s \in Cores /\ isSender(i, s) /\ s # c /\ c \in mcastDests(i, s)
  BY <1>2, SenderOfGroup
<1>4. InStep(i, c, s) \/ Behind(i, c, s)
  BY <1>2 DEF IInv, ReceiverInv
<1>5. ReadyInv(i, s)
  BY <1>3 DEF IInv
<1>6. UNCHANGED computeVars
  BY DEF LandInc
<1>7. ASSUME NEW j \in Operands, NEW d \in Cores, j # i \/ d # c
      PROVE  /\ dm'[j][d] = dm[j][d]
             /\ dmIter'[j][d] = dmIter[j][d]
             /\ pages'[j][d] = pages[j][d]
             /\ l1'[j][d] = l1[j][d]
             /\ senderFinished'[j][d] = senderFinished[j][d]
             /\ incInFlight'[j][d] = incInFlight[j][d]
             /\ dataInFlight'[j][d] = dataInFlight[j][d]
             /\ setInFlight'[j][d] = setInFlight[j][d]
  BY <1>1, <1>7 DEF LandInc, dmVars, cbVars, TypeOK
<1>8. \A j \in Operands, d \in Cores : j # i \/ d # s =>
         receiversReady'[j][d] = receiversReady[j][d]
  BY <1>1, <1>3 DEF LandInc, semVars, TypeOK
<1>9. \A r \in mcastDests(i, s) : r # c =>
         (r \in Arrived(i, s)' <=> r \in Arrived(i, s))
  BY <1>3, <1>7, DestsOfSender DEF Arrived
<1>10. incInFlight[i][c] = 1 /\ incInFlight'[i][c] = 0
  BY <1>1 DEF LandInc, TypeOK
<1>11. InStep(i, c, s) /\ dm[i][c] = "waitFinished"
  BY <1>4, <1>10 DEF InStep, Behind, Idle
<1>12. TypeOK'
  <2>1. receiversReady' \in [Operands -> [Cores -> Nat]]
    BY <1>1, <1>3 DEF LandInc, TypeOK
  <2>2. incInFlight' \in [Operands -> [Cores -> {0, 1}]]
    BY <1>1, <1>10 DEF LandInc, TypeOK
  <2> QED
    BY <1>1, <2>1, <2>2 DEF LandInc, TypeOK, dmVars, computeVars, cbVars
<1>13. CBInv(i, c)' /\ QuietInv(i, c)' /\ (pages[i][c] = 1 => pages'[i][c] = 1)
  BY <1>1, <1>2, <1>6 DEF LandInc, CBInv, QuietInv, dmVars, cbVars, computeVars
<1>14. ReceiverInv(i, c)'
  <2>1. InStep(i, c, s)'
    BY <1>10, <1>11 DEF LandInc, InStep, Idle, dmVars, cbVars
  <2> QED
    BY <2>1 DEF ReceiverInv
<1>15. ReadyInv(i, s)'
  <2>1. dm[i][s] \notin {"mcast", "writeBarrier"} /\ dm'[i][s] = dm[i][s]
    BY <1>3, <1>7, <1>10, <1>11 DEF InStep
  <2>2. c \notin Arrived(i, s) /\ c \in Arrived(i, s)'
    BY <1>3, <1>10, <1>11 DEF Arrived, InStep, LandInc, dmVars
  <2>3. Arrived(i, s)' \subseteq mcastDests(i, s) /\ Arrived(i, s) \subseteq mcastDests(i, s)
    BY DEF Arrived
  <2>4. Arrived(i, s)' = Arrived(i, s) \cup {c}
    BY <1>3, <1>9, <2>2, <2>3
  <2>5. IsFiniteSet(Arrived(i, s))
    BY <1>2, <1>3, <2>3, NumberOfReceivers, FS_Subset
  <2>6. Cardinality(Arrived(i, s)') = Cardinality(Arrived(i, s)) + 1
    BY <2>2, <2>4, <2>5, FS_AddElement
  <2>7. receiversReady'[i][s] = receiversReady[i][s] + 1
    BY <1>1, <1>3 DEF LandInc, TypeOK
  <2> QED
    BY <1>2, <1>3, <1>5, <2>1, <2>6, <2>7 DEF ReadyInv
<1> QED
  BY <1>2, <1>6, <1>7, <1>8, <1>12, <1>13, <1>14, <1>15, ReceiverStep

\* Multicast data arrives in a CB that is still reserved.
LEMMA LandDataIInv ==
    ASSUME IInv, NEW i \in Operands, NEW c \in Cores, LandData(i, c)
    PROVE  IInv'
<1> DEFINE s == coreIndex(i, c)
<1> USE NumItersAssumption
<1>1. CBInv(i, c) /\ QuietInv(i, c) /\ TypeOK
  BY DEF IInv
<1>2. isMcast(i) /\ ~isSender(i, c)
  BY <1>1 DEF LandData, QuietInv, TypeOK
<1>3. s \in Cores /\ isSender(i, s) /\ s # c /\ c \in mcastDests(i, s)
  BY <1>2, SenderOfGroup
<1>4. InStep(i, c, s) \/ Behind(i, c, s)
  BY <1>2 DEF IInv, ReceiverInv
<1>5. ReadyInv(i, s)
  BY <1>3 DEF IInv
<1>6. UNCHANGED computeVars
  BY DEF LandData
<1>7. ASSUME NEW j \in Operands, NEW d \in Cores, j # i \/ d # c
      PROVE  /\ dm'[j][d] = dm[j][d]
             /\ dmIter'[j][d] = dmIter[j][d]
             /\ pages'[j][d] = pages[j][d]
             /\ l1'[j][d] = l1[j][d]
             /\ senderFinished'[j][d] = senderFinished[j][d]
             /\ incInFlight'[j][d] = incInFlight[j][d]
             /\ dataInFlight'[j][d] = dataInFlight[j][d]
             /\ setInFlight'[j][d] = setInFlight[j][d]
  BY <1>1, <1>7 DEF LandData, dmVars, semVars, TypeOK
<1>8. \A j \in Operands, d \in Cores : j # i \/ d # s =>
         receiversReady'[j][d] = receiversReady[j][d]
  BY <1>1, <1>3 DEF LandData, semVars, TypeOK
<1>9. \A r \in mcastDests(i, s) : r # c =>
         (r \in Arrived(i, s)' <=> r \in Arrived(i, s))
  BY <1>3, <1>7, DestsOfSender DEF Arrived
<1>10. dataInFlight[i][c] = 1 /\ dataInFlight'[i][c] = 0
  BY <1>1 DEF LandData, TypeOK
<1>11. InStep(i, c, s) /\ dm[i][c] = "waitFinished" /\ dm[i][s] = "writeBarrier"
  BY <1>4, <1>10 DEF InStep, Behind, Idle
<1>12. l1'[i][c] = Block(i, c, dmIter[i][c])
  <2>1. dmIter[i][c] = dmIter[i][s] /\ dmIter[i][c] \in 0 .. NumIters
    BY <1>1, <1>11 DEF InStep, TypeOK
  <2>2. l1[i][s] = Block(i, s, dmIter[i][s])
    BY <1>3, <1>11 DEF IInv, CBInv, Sending
  <2>3. l1'[i][c] = l1[i][s]
    BY <1>1 DEF LandData, TypeOK
  <2> QED
    BY <2>1, <2>2, <2>3, BlockOfGroup
<1>13. TypeOK'
  <2>1. dataInFlight' \in [Operands -> [Cores -> {0, 1}]]
    BY <1>1, <1>10 DEF LandData, TypeOK
  <2>2. l1' \in [Operands -> [Cores -> Blocks]]
    BY <1>1, <1>3 DEF LandData, TypeOK
  <2> QED
    BY <1>1, <2>1, <2>2 DEF LandData, TypeOK, dmVars, computeVars, semVars
<1>14. CBInv(i, c)' /\ QuietInv(i, c)' /\ (pages[i][c] = 1 => pages'[i][c] = 1)
  <2>1. i \in Streams
    BY <1>2 DEF isMcast
  <2> QED
    BY <1>1, <1>2, <1>6, <1>11, <2>1 DEF LandData, CBInv, QuietInv, Idle, Sending,
       Receiving, dmVars, computeVars
<1>15. ReceiverInv(i, c)'
  <2>1. InStep(i, c, s)'
    BY <1>10, <1>11, <1>12 DEF LandData, InStep, Idle, dmVars, semVars
  <2> QED
    BY <2>1 DEF ReceiverInv
<1>16. ReadyInv(i, s)'
  <2>1. c \in Arrived(i, s)' <=> c \in Arrived(i, s)
    BY <1>1 DEF Arrived, InStep, Behind, LandData, dmVars
  <2>2. Arrived(i, s)' \subseteq mcastDests(i, s) /\ Arrived(i, s) \subseteq mcastDests(i, s)
    BY DEF Arrived
  <2>3. Arrived(i, s)' = Arrived(i, s)
    BY <1>9, <2>1, <2>2
  <2> QED
    BY <1>3, <1>5, <1>7, <2>3 DEF LandData, dmVars, ReadyInv, semVars
<1> QED
  BY <1>2, <1>6, <1>7, <1>8, <1>13, <1>14, <1>15, <1>16, ReceiverStep

\* The multicast semaphore value arrives, at a receiver that is behind.
LEMMA LandSetIInv ==
    ASSUME IInv, NEW i \in Operands, NEW c \in Cores, LandSet(i, c)
    PROVE  IInv'
<1> DEFINE s == coreIndex(i, c)
<1> USE NumItersAssumption
<1>1. CBInv(i, c) /\ QuietInv(i, c) /\ TypeOK
  BY DEF IInv
<1>2. isMcast(i) /\ ~isSender(i, c)
  BY <1>1 DEF LandSet, QuietInv, TypeOK
<1>3. s \in Cores /\ isSender(i, s) /\ s # c /\ c \in mcastDests(i, s)
  BY <1>2, SenderOfGroup
<1>4. InStep(i, c, s) \/ Behind(i, c, s)
  BY <1>2 DEF IInv, ReceiverInv
<1>5. ReadyInv(i, s)
  BY <1>3 DEF IInv
<1>6. UNCHANGED computeVars
  BY DEF LandSet
<1>7. ASSUME NEW j \in Operands, NEW d \in Cores, j # i \/ d # c
      PROVE  /\ dm'[j][d] = dm[j][d]
             /\ dmIter'[j][d] = dmIter[j][d]
             /\ pages'[j][d] = pages[j][d]
             /\ l1'[j][d] = l1[j][d]
             /\ senderFinished'[j][d] = senderFinished[j][d]
             /\ incInFlight'[j][d] = incInFlight[j][d]
             /\ dataInFlight'[j][d] = dataInFlight[j][d]
             /\ setInFlight'[j][d] = setInFlight[j][d]
  BY <1>1, <1>7 DEF LandSet, dmVars, cbVars, TypeOK
<1>8. \A j \in Operands, d \in Cores : j # i \/ d # s =>
         receiversReady'[j][d] = receiversReady[j][d]
  BY <1>1, <1>3 DEF LandSet, semVars, TypeOK
<1>9. \A r \in mcastDests(i, s) : r # c =>
         (r \in Arrived(i, s)' <=> r \in Arrived(i, s))
  BY <1>3, <1>7, DestsOfSender DEF Arrived
<1>10. setInFlight[i][c] = 1 /\ setInFlight'[i][c] = 0
  BY <1>1 DEF LandSet, TypeOK
<1>11. Behind(i, c, s) /\ senderFinished[i][c] = 0 /\ dm[i][c] = "waitFinished"
  BY <1>1, <1>4, <1>10 DEF InStep, Behind, Receiving, TypeOK
<1>12. senderFinished'[i][c] = 1
  <2>1. dmIter[i][s] > 0
    BY <1>1, <1>11 DEF Behind, TypeOK
  <2>2. senderFinished[i][s] = 1
    BY <1>2, <1>3, <2>1 DEF IInv, QuietInv
  <2> QED
    BY <1>1, <2>2 DEF LandSet, TypeOK
<1>13. TypeOK'
  <2>1. setInFlight' \in [Operands -> [Cores -> {0, 1}]]
    BY <1>1, <1>10 DEF LandSet, TypeOK
  <2>2. senderFinished' \in [Operands -> [Cores -> {0, 1}]]
    BY <1>1, <1>3 DEF LandSet, TypeOK
  <2> QED
    BY <1>1, <2>1, <2>2 DEF LandSet, TypeOK, dmVars, computeVars, cbVars
<1>14. CBInv(i, c)' /\ QuietInv(i, c)' /\ (pages[i][c] = 1 => pages'[i][c] = 1)
  BY <1>1, <1>2, <1>6 DEF LandSet, CBInv, QuietInv, dmVars, cbVars, computeVars
<1>15. ReceiverInv(i, c)'
  <2>1. Behind(i, c, s)'
    BY <1>10, <1>11, <1>12 DEF LandSet, Behind, dmVars, cbVars
  <2> QED
    BY <2>1 DEF ReceiverInv
<1>16. ReadyInv(i, s)'
  <2>1. c \in Arrived(i, s)' <=> c \in Arrived(i, s)
    BY <1>1 DEF Arrived, InStep, Behind, LandSet, dmVars
  <2>2. Arrived(i, s)' \subseteq mcastDests(i, s) /\ Arrived(i, s) \subseteq mcastDests(i, s)
    BY DEF Arrived
  <2>3. Arrived(i, s)' = Arrived(i, s)
    BY <1>9, <2>1, <2>2
  <2> QED
    BY <1>3, <1>5, <1>7, <2>3 DEF LandSet, dmVars, ReadyInv, semVars
<1> QED
  BY <1>2, <1>6, <1>7, <1>8, <1>13, <1>14, <1>15, <1>16, ReceiverStep

\* A step of a compute thread does not touch the handshake.
LEMMA HandshakeFrame ==
    ASSUME IInv, UNCHANGED <<dmVars, l1, semVars, nocVars>>,
           NEW j \in Operands, NEW d \in Cores
    PROVE  QuietInv(j, d)' /\ ReceiverInv(j, d)' /\ ReadyInv(j, d)'
<1>1. QuietInv(j, d)'
  BY DEF IInv, QuietInv, dmVars, semVars, nocVars
<1>2. ReceiverInv(j, d)'
  BY DEF IInv, ReceiverInv, InStep, Behind, dmVars, semVars, nocVars
<1>3. Arrived(j, d)' = Arrived(j, d)
  BY DEF Arrived, dmVars, nocVars
<1>4. ReadyInv(j, d)'
  BY <1>3 DEF IInv, ReadyInv, dmVars, semVars
<1> QED
  BY <1>1, <1>2, <1>4

\* Compute has all the CBs of its iteration.
LEMMA AwaitInputsIInv ==
    ASSUME IInv, NEW c \in Cores, AwaitInputs(c)
    PROVE  IInv'
<1>1. TypeOK /\ ComputeInv(c)
  BY DEF IInv
<1>2. TypeOK'
  BY <1>1 DEF AwaitInputs, GotoCompute, TypeOK, ComputeLabels, dmVars, cbVars,
     semVars, nocVars
<1>3. ASSUME NEW j \in Operands, NEW d \in Cores
      PROVE  CBInv(j, d)' /\ QuietInv(j, d)' /\ ReceiverInv(j, d)' /\ ReadyInv(j, d)'
  <2>1. CBInv(j, d)'
    BY DEF AwaitInputs, IInv, CBInv, dmVars, cbVars
  <2> QED
    BY <2>1, HandshakeFrame DEF AwaitInputs, cbVars
<1>4. ComputeInv(c)'
  <2>1. compute[c] = "reserve" /\ compute'[c] = "compute"
    BY <1>1 DEF AwaitInputs, GotoCompute, TypeOK
  <2>2. \A j \in Operands : pages'[j][c] = 1
    BY <1>1 DEF AwaitInputs, TypeOK, cbVars
  <2>3. NumIters # computeIter[c] /\ popped[c] = 0
    BY <1>1, <2>1, OperandsAssumption DEF ComputeInv, TypeOK
  <2> QED
    BY <1>1, <2>1, <2>2, <2>3 DEF AwaitInputs, ComputeInv
<1>5. ASSUME NEW d \in Cores, d # c
      PROVE  ComputeInv(d)'
  <2>1. compute'[d] = compute[d]
    BY <1>1, <1>5 DEF AwaitInputs, GotoCompute, TypeOK
  <2> QED
    BY <2>1 DEF AwaitInputs, IInv, ComputeInv, cbVars
<1> QED
  BY <1>2, <1>3, <1>4, <1>5 DEF IInv

\* What is in the CBs when the compute thread runs the body.
LEMMA ComputeReadsWanted ==
    ASSUME IInv, NEW c \in Cores, Compute(c)
    PROVE  /\ popped[c] = 0 /\ outPages[c] = 0
           /\ Len(out[c]) = computeIter[c] /\ computeIter[c] \in 0 .. NumIters - 1
           /\ [j \in Operands |-> l1[j][c]] = Wanted(c, computeIter[c])
<1> USE NumItersAssumption, OperandsAssumption
<1>1. TypeOK /\ ComputeInv(c)
  BY DEF IInv
<1>2. compute[c] = "compute"
  BY DEF Compute, GotoCompute
<1>3. /\ popped[c] = 0 /\ outPages[c] = 0 /\ Len(out[c]) = computeIter[c]
      /\ computeIter[c] \in 0 .. NumIters - 1
  BY <1>1, <1>2 DEF ComputeInv, TypeOK
<1>4. ASSUME NEW j \in Operands
      PROVE  l1[j][c] = IF j \in Streams THEN Block(j, c, computeIter[c]) ELSE NoBlock
  <2>1. j > 0 /\ j \in Nat
    BY DEF Operands
  <2>2. pages[j][c] = 1
    BY <1>1, <1>2, <1>3, <2>1 DEF ComputeInv
  <2>3. CBInv(j, c) /\ dmIter[j][c] \in 0 .. NumIters /\ computeIter[c] \in 0 .. NumIters
    BY <1>1 DEF IInv, TypeOK
  <2>4. dmIter[j][c] = computeIter[c] + 1
    BY <1>3, <2>1, <2>2, <2>3 DEF CBInv
  <2>5. dm[j][c] \in Idle
    BY <2>2, <2>3 DEF CBInv
  <2>6. dmIter[j][c] - 1 = computeIter[c] /\ dmIter[j][c] > 0
    BY <2>3, <2>4
  <2> QED
    BY <2>3, <2>5, <2>6 DEF CBInv
<1> QED
  BY <1>3, <1>4 DEF Wanted

\* Compute combines the blocks that this iteration wants.
LEMMA ComputeIInv ==
    ASSUME IInv, NEW c \in Cores, Compute(c)
    PROVE  IInv'
<1> USE NumItersAssumption, OperandsAssumption
<1> DEFINE blocks == [j \in Operands |-> l1[j][c]]
<1>1. TypeOK /\ ComputeInv(c)
  BY DEF IInv
<1>2. compute[c] = "compute" /\ compute'[c] = "pop"
  BY <1>1 DEF Compute, GotoCompute, TypeOK
<1>3. popped[c] = 0 /\ outPages[c] = 0 /\ Len(out[c]) = computeIter[c]
  BY ComputeReadsWanted
<1>4. blocks = Wanted(c, computeIter[c])
  BY ComputeReadsWanted
<1>5. blocks = Wanted(c, computeIter[c]) /\ blocks \in [Operands -> Blocks]
  BY <1>1, <1>4 DEF TypeOK
<1>6. out' = [out EXCEPT ![c] = Append(out[c], blocks)]
  BY DEF Compute
<1> HIDE DEF blocks
<1>7. TypeOK'
  <2>1. out' \in [Cores -> Seq([Operands -> Blocks])]
    BY <1>1, <1>5, <1>6 DEF TypeOK
  <2> QED
    BY <1>1, <1>3, <2>1 DEF Compute, GotoCompute, TypeOK, ComputeLabels, dmVars,
       cbVars, semVars, nocVars
<1>8. ASSUME NEW j \in Operands, NEW d \in Cores
      PROVE  CBInv(j, d)' /\ QuietInv(j, d)' /\ ReceiverInv(j, d)' /\ ReadyInv(j, d)'
  <2>1. CBInv(j, d)'
    BY DEF Compute, IInv, CBInv, dmVars, cbVars
  <2> QED
    BY <2>1, HandshakeFrame DEF Compute, cbVars
<1>9. ComputeInv(c)'
  <2>1. out[c] \in Seq([Operands -> Blocks]) /\ out'[c] = Append(out[c], blocks)
    BY <1>1, <1>6 DEF TypeOK
  <2>2. Len(out'[c]) = computeIter[c] + 1
    BY <1>3, <1>5, <2>1
  <2>3. \A k \in 1 .. Len(out'[c]) : out'[c][k] = Wanted(c, k - 1)
    <3> SUFFICES ASSUME NEW k \in 1 .. Len(out'[c])
                 PROVE  out'[c][k] = Wanted(c, k - 1)
      OBVIOUS
    <3>1. computeIter[c] \in Nat
      BY <1>1 DEF TypeOK
    <3>2. CASE k = computeIter[c] + 1
      <4>1. k - 1 = computeIter[c] /\ out'[c][k] = blocks
        BY <1>3, <1>5, <2>1, <3>1, <3>2
      <4> QED
        BY <1>5, <4>1
    <3>3. CASE k # computeIter[c] + 1
      <4>1. k \in 1 .. Len(out[c]) /\ out'[c][k] = out[c][k]
        BY <1>3, <1>5, <2>1, <2>2, <3>1, <3>3
      <4> QED
        BY <1>1, <4>1 DEF ComputeInv
    <3> QED
      BY <3>2, <3>3
  <2>4. outPages'[c] = 1
    BY <1>1, <1>3 DEF Compute, TypeOK
  <2> QED
    BY <1>1, <1>2, <2>2, <2>3, <2>4 DEF Compute, ComputeInv, cbVars
<1>10. ASSUME NEW d \in Cores, d # c
       PROVE  ComputeInv(d)'
  <2>1. compute'[d] = compute[d] /\ out'[d] = out[d] /\ outPages'[d] = outPages[d]
    BY <1>1, <1>10 DEF Compute, GotoCompute, TypeOK
  <2>2. UNCHANGED <<computeIter, popped, pages>>
    BY DEF Compute, cbVars
  <2> QED
    BY <2>1, <2>2 DEF IInv, ComputeInv
<1> QED
  BY <1>7, <1>8, <1>9, <1>10 DEF IInv

\* Compute pops one CB, or ends its iteration with the output's.
LEMMA PopFrontIInv ==
    ASSUME IInv, NEW c \in Cores, PopFront(c)
    PROVE  IInv'
<1> USE NumItersAssumption, OperandsAssumption
<1> DEFINE i == popped[c] + 1
           last == i = Inputs
<1>1. TypeOK /\ ComputeInv(c)
  BY DEF IInv
<1>2. compute[c] = "pop" /\ outPages[c] = 1 /\ Len(out[c]) = computeIter[c] + 1
  BY <1>1 DEF PopFront, GotoCompute, ComputeInv
<1>3. i \in Operands /\ i \in Nat /\ popped[c] \in Nat /\ i > popped[c]
  BY <1>1 DEF TypeOK, Operands
<1>4. computeIter[c] \in 0 .. NumIters - 1
  BY <1>1, <1>2 DEF ComputeInv, TypeOK
<1>5. pages[i][c] = 1 /\ pages'[i][c] = 0
  <2>1. pages[i][c] = 1
    BY <1>1, <1>2, <1>3 DEF ComputeInv
  <2>2. pages'[i][c] = pages[i][c] - 1
    BY <1>1, <1>3 DEF PopFront, TypeOK
  <2> QED
    BY <2>1, <2>2
<1>6. \A j \in Operands, d \in Cores : j # i \/ d # c => pages'[j][d] = pages[j][d]
  BY <1>1, <1>3 DEF PopFront, TypeOK
<1>7. /\ popped'[c] = IF last THEN 0 ELSE i
      /\ outPages'[c] = IF last THEN 0 ELSE 1
      /\ computeIter'[c] = IF last THEN computeIter[c] + 1 ELSE computeIter[c]
      /\ compute'[c] = IF ~last THEN "pop"
                       ELSE IF computeIter[c] + 1 < NumIters THEN "reserve" ELSE "done"
  <2>1. popped'[c] = IF last THEN 0 ELSE i
    BY <1>1 DEF PopFront, TypeOK
  <2>2. outPages'[c] = IF last THEN 0 ELSE 1
    BY <1>1, <1>2 DEF PopFront, TypeOK
  <2>3. computeIter'[c] = IF last THEN computeIter[c] + 1 ELSE computeIter[c]
    BY <1>1 DEF PopFront, TypeOK
  <2>4. compute'[c] = IF ~last THEN "pop"
                      ELSE IF computeIter[c] + 1 < NumIters THEN "reserve" ELSE "done"
    BY <1>1 DEF PopFront, GotoCompute, TypeOK
  <2> QED
    BY <2>1, <2>2, <2>3, <2>4
<1>8. \A d \in Cores : d # c => /\ popped'[d] = popped[d]
                                 /\ outPages'[d] = outPages[d]
                                 /\ computeIter'[d] = computeIter[d]
                                 /\ compute'[d] = compute[d]
  BY <1>1 DEF PopFront, GotoCompute, TypeOK
<1>9. TypeOK'
  <2>1. pages' \in [Operands -> [Cores -> {0, 1}]]
    BY <1>1, <1>3, <1>5 DEF PopFront, TypeOK
  <2>2. popped' \in [Cores -> 0 .. Inputs - 1]
    BY <1>1, <1>3 DEF PopFront, TypeOK, Operands
  <2>3. outPages' \in [Cores -> {0, 1}]
    BY <1>1, <1>2 DEF PopFront, TypeOK
  <2>4. computeIter' \in [Cores -> 0 .. NumIters]
    BY <1>1, <1>4 DEF PopFront, TypeOK
  <2>5. compute' \in [Cores -> ComputeLabels]
    BY <1>1 DEF PopFront, GotoCompute, TypeOK, ComputeLabels
  <2> QED
    BY <1>1, <2>1, <2>2, <2>3, <2>4, <2>5
    DEF PopFront, TypeOK, dmVars, semVars, nocVars
<1>10. ASSUME NEW j \in Operands, NEW d \in Cores
       PROVE  CBInv(j, d)'
  <2>1. CBInv(j, d) /\ j \in Nat
    BY DEF IInv, Operands
  <2>2. CASE d # c
    BY <1>6, <1>8, <2>1, <2>2 DEF PopFront, CBInv, dmVars
  <2>3. CASE d = c
    <3>1. /\ dmIter[j][c] \in Nat /\ pages[j][c] \in Nat /\ pages'[j][c] \in Nat
          /\ computeIter[c] \in Nat
      <4>1. pages' \in [Operands -> [Cores -> {0, 1}]]
        BY <1>9 DEF TypeOK
      <4>2. dmIter[j][c] \in Nat /\ computeIter[c] \in Nat
        BY <1>1 DEF TypeOK
      <4>3. pages[j][c] \in {0, 1} /\ pages'[j][c] \in {0, 1}
        BY <1>1, <4>1 DEF TypeOK
      <4> QED
        BY <4>2, <4>3
    <3>2. dm[j][c] \notin Idle => pages'[j][c] = 0
      <4>1. dm[j][c] \notin Idle => pages[j][c] = 0
        BY <2>1, <2>3 DEF CBInv
      <4> QED
        BY <1>5, <1>6, <4>1
    <3>3. popped'[c] < j => dmIter[j][c] = computeIter'[c] + pages'[j][c]
      <4>1. CASE last
        <5>1. popped[c] >= j \/ j = i
          BY <1>3, <2>1, <4>1 DEF Operands
        <5>2. CASE j = i
          BY <1>3, <1>5, <1>7, <2>1, <2>3, <3>1, <4>1, <5>2 DEF CBInv
        <5>3. CASE popped[c] >= j
          <6>1. pages'[j][c] = pages[j][c]
            BY <1>3, <1>6, <2>1, <5>3
          <6> QED
            BY <1>7, <2>1, <2>3, <3>1, <4>1, <5>3, <6>1 DEF CBInv
        <5> QED
          BY <5>1, <5>2, <5>3
      <4>2. CASE ~last
        BY <1>3, <1>6, <1>7, <2>1, <2>3, <3>1, <4>2 DEF CBInv
      <4> QED
        BY <4>1, <4>2
    <3>4. popped'[c] >= j => dmIter[j][c] = computeIter'[c] + pages'[j][c] + 1
      <4>1. CASE last
        BY <1>7, <2>1, <4>1 DEF Operands
      <4>2. CASE ~last
        <5>1. CASE j = i
          BY <1>3, <1>5, <1>7, <2>1, <2>3, <3>1, <4>2, <5>1 DEF CBInv
        <5>2. CASE j # i
          BY <1>3, <1>6, <1>7, <2>1, <2>3, <3>1, <4>2, <5>2 DEF CBInv
        <5> QED
          BY <5>1, <5>2
      <4> QED
        BY <4>1, <4>2
    <3> QED
      BY <2>1, <2>3, <3>2, <3>3, <3>4 DEF PopFront, CBInv, dmVars
  <2> QED
    BY <2>2, <2>3
<1>11. ComputeInv(c)'
  <2>1. \A j \in Operands : j > i => pages'[j][c] = 1
    BY <1>1, <1>2, <1>3, <1>6 DEF ComputeInv, Operands
  <2>2. CASE last
    BY <1>1, <1>2, <1>4, <1>7, <2>2 DEF PopFront, ComputeInv
  <2>3. CASE ~last
    BY <1>1, <1>2, <1>4, <1>7, <2>1, <2>3 DEF PopFront, ComputeInv
  <2> QED
    BY <2>2, <2>3
<1>12. ASSUME NEW d \in Cores, d # c
       PROVE  ComputeInv(d)'
  BY <1>6, <1>8, <1>12 DEF PopFront, IInv, ComputeInv
<1>13. ASSUME NEW j \in Operands, NEW d \in Cores
       PROVE  QuietInv(j, d)' /\ ReceiverInv(j, d)' /\ ReadyInv(j, d)'
  BY HandshakeFrame DEF PopFront
<1> QED
  BY <1>9, <1>10, <1>11, <1>12, <1>13 DEF IInv

\* Every step of any thread or of the NoC preserves the inductive invariant.
LEMMA NextIInv == IInv /\ [Next]_vars => IInv'
<1> SUFFICES ASSUME IInv, [Next]_vars PROVE IInv'
  OBVIOUS
<1>1. ASSUME NEW i \in Operands, NEW c \in Cores, DMThread(i, c)
      PROVE  IInv'
  BY <1>1, YieldLocalIInv, StreamDMAIInv, GatherDMAIInv, WaitReceiversReadyIInv,
     ResetReceiversReadyIInv, McastDMAIInv, SetSenderFinishedIInv,
     IncReceiversReadyIInv, WaitSenderFinishedIInv, ResetSenderFinishedIInv
  DEF DMThread
<1>2. ASSUME NEW i \in Operands, NEW c \in Cores, NoC(i, c)
      PROVE  IInv'
  BY <1>2, LandIncIInv, LandDataIInv, LandSetIInv DEF NoC
<1>3. ASSUME NEW c \in Cores, ComputeThread(c)
      PROVE  IInv'
  BY <1>3, AwaitInputsIInv, ComputeIInv, PopFrontIInv DEF ComputeThread
<1>4. CASE UNCHANGED vars
  <2>1. \A i \in Operands, c \in Cores :
           QuietInv(i, c)' /\ ReceiverInv(i, c)' /\ ReadyInv(i, c)'
    BY <1>4, HandshakeFrame DEF vars, dmVars, semVars, nocVars
  <2>2. TypeOK' /\ \A i \in Operands, c \in Cores : CBInv(i, c)'
    BY <1>4 DEF vars, IInv, TypeOK, CBInv
  <2>3. \A c \in Cores : ComputeInv(c)'
    BY <1>4 DEF vars, IInv, ComputeInv
  <2> QED
    BY <2>1, <2>2, <2>3 DEF IInv
<1> QED
  BY <1>1, <1>2, <1>3, <1>4 DEF Next, Terminated

-----------------------------------------------------------------------------
(* The theorems                                                            *)

\* The invariant that carries all the others.
THEOREM Invariance == Spec => []IInv
<1>1. Init => IInv
  BY InitIInv
<1>2. IInv /\ [Next]_vars => IInv'
  BY NextIInv
<1> QED
  BY <1>1, <1>2, PTL DEF Spec

\* TypeOK holds for every grid, operand list and trip count: in particular a
\* CB never holds more than its one block, and no NoC transaction of a kind is
\* ever issued to a core while an earlier one is under way.
THEOREM TypeCorrect == Spec => []TypeOK
<1>1. IInv => TypeOK
  BY DEF IInv
<1> QED
  BY <1>1, Invariance, PTL

\* Multicast data only ever travels to receivers that have reserved their CB
\* and wait for that very block (createGatherMcastDMA).
THEOREM McastSafe == Spec => []McastIntoReserved
<1>1. ASSUME IInv PROVE McastIntoReserved
  <2> SUFFICES ASSUME NEW i \in Operands, NEW r \in Cores, dataInFlight[i][r] > 0
               PROVE  /\ dm[i][r] = "waitFinished"
                      /\ pages[i][r] = 0
                      /\ dmIter[i][r] = dmIter[i][coreIndex(i, r)]
    BY DEF McastIntoReserved
  <2>1. CBInv(i, r) /\ QuietInv(i, r) /\ ReceiverInv(i, r) /\ dataInFlight[i][r] \in {0, 1}
    BY <1>1 DEF IInv, TypeOK
  <2>2. InStep(i, r, coreIndex(i, r)) /\ dataInFlight[i][r] = 1
    BY <2>1 DEF QuietInv, ReceiverInv, Behind
  <2>3. dm[i][r] = "waitFinished"
    BY <2>2 DEF InStep
  <2> QED
    BY <2>1, <2>2, <2>3 DEF InStep, CBInv, Idle
<1> QED
  BY <1>1, Invariance, PTL

\* The sender's reset of receiversReady wipes out exactly the increments of
\* this iteration.
THEOREM ReadySafe == Spec => []NoIncrementLost
<1>1. ASSUME IInv PROVE NoIncrementLost
  <2> SUFFICES ASSUME NEW i \in Operands, NEW s \in Cores, dm[i][s] = "resetReady"
               PROVE  /\ receiversReady[i][s] = mcastVolume(i) - 1
                      /\ \A r \in mcastDests(i, s) : incInFlight[i][r] = 0
    BY DEF NoIncrementLost
  <2>1. isMcast(i) /\ isSender(i, s) /\ ReadyInv(i, s)
    BY <1>1 DEF IInv, CBInv, Sending
  <2>2. ASSUME NEW r \in mcastDests(i, s)
        PROVE  r \in Arrived(i, s) /\ incInFlight[i][r] = 0
    <3>1. r \in Cores /\ ~isSender(i, r) /\ coreIndex(i, r) = s
      BY DestsOfSender
    <3>2. InStep(i, r, s)
      BY <1>1, <2>1, <3>1 DEF IInv, ReceiverInv, Behind
    <3> QED
      BY <3>2 DEF InStep, Arrived
  <2>3. Arrived(i, s) = mcastDests(i, s)
    BY <2>2 DEF Arrived
  <2> QED
    BY <2>1, <2>2, <2>3, NumberOfReceivers DEF ReadyInv
<1> QED
  BY <1>1, Invariance, PTL

\* The receiver's reset of senderFinished wipes out exactly the announcement
\* of this iteration, whose block has landed.
THEOREM FinishedSafe == Spec => []NoFinishedLost
<1>1. ASSUME IInv PROVE NoFinishedLost
  <2> SUFFICES ASSUME NEW i \in Operands, NEW r \in Cores, dm[i][r] = "resetFinished"
               PROVE  /\ senderFinished[i][r] = 1
                      /\ setInFlight[i][r] = 0
                      /\ l1[i][r] = Block(i, r, dmIter[i][r])
    BY DEF NoFinishedLost
  <2>1. setInFlight[i][r] \in {0, 1} /\ isMcast(i) /\ ~isSender(i, r)
    BY <1>1 DEF IInv, CBInv, Receiving, TypeOK
  <2>2. Behind(i, r, coreIndex(i, r))
    BY <1>1, <2>1 DEF IInv, ReceiverInv, InStep, Idle
  <2> QED
    BY <2>1, <2>2 DEF Behind
<1> QED
  BY <1>1, Invariance, PTL

\* A non-empty set of iteration numbers has a least element.
LEMMA LeastNumber ==
    ASSUME NEW S \in SUBSET Nat, S # {}
    PROVE  \E n \in S : \A m \in S : n <= m
<1> DEFINE Less == OpToRel(<, Nat)
<1>1. IsWellFoundedOn(Less, Nat)
  BY NatLessThanWellFounded
<1>2. \A m, n \in Nat : <<m, n>> \in Less <=> m < n
  BY DEF OpToRel
<1> HIDE DEF Less
<1>3. PICK n \in S : \A m \in S : <<m, n>> \notin Less
  BY <1>1, WFMin
<1>4. \A m \in S : ~(m < n)
  BY <1>2, <1>3
<1> QED
  BY <1>3, <1>4

\* With nothing in flight and every thread waiting, no thread is between two
\* waits, and each datamovement thread is as far as compute and its CB say.
LEMMA WaitingThreads ==
    ASSUME IInv, ~NeverStuck, NEW i \in Operands, NEW c \in Cores
    PROVE  /\ dm[i][c] \in {"reserve", "waitReady", "waitFinished", "done"}
           /\ dm[i][c] = "reserve" => pages[i][c] = 1
           /\ dm[i][c] = "waitFinished" => senderFinished[i][c] = 0
           /\ dm[i][c] = "waitReady" => receiversReady[i][c] # mcastVolume(i) - 1
           /\ Quiet(i, c)
           /\ compute[c] \in {"reserve", "done"}
           /\ dmIter[i][c] = computeIter[c] + pages[i][c]
           /\ pages[i][c] \in {0, 1}
           /\ dmIter[i][c] \in 0 .. NumIters
           /\ computeIter[c] \in 0 .. NumIters
<1>1. TypeOK /\ CBInv(i, c) /\ ComputeInv(c)
  BY DEF IInv
<1>2. ~DMCanGo(i, c) /\ Quiet(i, c) /\ ~ComputeCanGo(c)
  BY DEF NeverStuck
<1>3. dm[i][c] # "writeBarrier"
  BY <1>2, DestsOfSender DEF NeverStuck, DMCanGo, Quiet
<1>4. compute[c] \in {"reserve", "done"}
  BY <1>1, <1>2 DEF ComputeCanGo, ComputeInv, TypeOK, ComputeLabels
<1>5. popped[c] = 0 /\ i \in Nat /\ i > 0
  BY <1>1, <1>4, OperandsAssumption DEF ComputeInv, TypeOK, Operands
<1>6. dmIter[i][c] = computeIter[c] + pages[i][c]
  BY <1>1, <1>5 DEF CBInv
<1> QED
  BY <1>1, <1>2, <1>3, <1>4, <1>6
  DEF DMCanGo, Reserve, TypeOK, DMLabels

\* Whatever the grid, the operands and the trip count, the kernels of a generic
\* op do not deadlock.  Consider a core whose compute thread is furthest behind,
\* and an operand it waits for: if a sender has that operand's block to come,
\* the sender's CB is free, for otherwise its compute thread would be further
\* behind still, and so are the CBs of the receivers the sender waits for.
THEOREM DeadlockFree == Spec => []NeverStuck
<1>1. ASSUME IInv, ~NeverStuck PROVE FALSE
  <2> USE NumItersAssumption
  <2> DEFINE Iters == {computeIter[c] : c \in Cores}
  <2>1. Iters \in SUBSET Nat /\ Iters # {}
    <3>1. <<0, 0>> \in Cores
      BY GridAssumption DEF Cores
    <3>2. \A c \in Cores : computeIter[c] \in Nat
      BY <1>1 DEF IInv, TypeOK
    <3> QED
      BY <3>1, <3>2
  <2>2. PICK m \in Iters : \A n \in Iters : m <= n
    BY <2>1, LeastNumber
  <2>3. PICK c \in Cores : m = computeIter[c]
    BY <2>2
  <2>4. /\ m \in 0 .. NumIters
        /\ \A d \in Cores : /\ computeIter[d] \in 0 .. NumIters
                            /\ m <= computeIter[d]
    BY <1>1, <2>2, <2>3 DEF IInv, TypeOK
  <2> HIDE DEF Iters
  <2>5. m < NumIters
    <3> SUFFICES ASSUME m = NumIters PROVE FALSE
      BY <2>4
    <3>1. \A d \in Cores : compute[d] = "done"
      BY <1>1, <2>4 DEF IInv, ComputeInv
    <3>2. ASSUME NEW j \in Operands, NEW d \in Cores
          PROVE  dm[j][d] = "done"
      <4>1. computeIter[d] = NumIters
        BY <2>4
      <4>2. dmIter[j][d] = NumIters
        BY <1>1, <4>1, WaitingThreads
      <4> QED
        BY <1>1, <4>2 DEF IInv, CBInv
    <3> QED
      BY <1>1, <3>1, <3>2 DEF NeverStuck, AllDone
  <2>6. PICK i \in Operands : pages[i][c] = 0
    <3>1. ComputeInv(c) /\ compute[c] \in {"reserve", "done"}
      <4>1. 1 \in Operands
        BY OperandsAssumption DEF Operands
      <4> QED
        BY <1>1, <4>1, WaitingThreads DEF IInv
    <3>2. compute[c] = "reserve" /\ outPages[c] = 0
      BY <2>3, <2>5, <3>1 DEF ComputeInv
    <3>3. \E i \in Operands : ~(pages[i][c] > 0)
      BY <1>1, <3>2 DEF NeverStuck, ComputeCanGo
    <3> QED
      BY <1>1, <3>3 DEF IInv, TypeOK
  <2>7. dmIter[i][c] = m
    BY <1>1, <2>3, <2>4, <2>6, WaitingThreads
  \* What holds of any core of operand i in iteration m.
  <2>8. ASSUME NEW d \in Cores, dmIter[i][d] = m
        PROVE  /\ dm[i][d] \in {"waitReady", "waitFinished"}
               /\ Quiet(i, d)
    <3>1. dm[i][d] # "done"
      BY <1>1, <2>5, <2>8 DEF IInv, CBInv
    <3>2. dm[i][d] # "reserve"
      <4> SUFFICES ASSUME pages[i][d] = 1 PROVE FALSE
        BY <1>1, WaitingThreads
      <4>1. m = computeIter[d] + 1
        BY <1>1, <2>8, WaitingThreads
      <4> QED
        BY <2>4, <4>1
    <3> QED
      BY <1>1, <3>1, <3>2, WaitingThreads
  <2> DEFINE s == coreIndex(i, c)
  <2>9. s \in Cores /\ isSender(i, s)
    BY SenderOfGroup
  <2>10. isMcast(i) /\ dmIter[i][s] = m
    <3>1. dm[i][c] \in {"waitReady", "waitFinished"} /\ CBInv(i, c) /\ isMcast(i)
      BY <1>1, <2>7, <2>8 DEF IInv, CBInv, Sending, Receiving
    <3>2. CASE isSender(i, c)
      BY <2>7, <3>1, <3>2 DEF isSender
    <3>3. CASE ~isSender(i, c)
      <4>1. dm[i][c] = "waitFinished"
        BY <3>1, <3>3 DEF CBInv, Sending
      <4>2. senderFinished[i][c] = 0 /\ setInFlight[i][c] = 0
        BY <1>1, <4>1, WaitingThreads DEF Quiet
      <4>3. InStep(i, c, s)
        BY <1>1, <3>1, <3>3, <4>2 DEF IInv, ReceiverInv, Behind
      <4> QED
        BY <2>7, <3>1, <4>3 DEF InStep
    <3> QED
      BY <3>2, <3>3
  <2>11. dm[i][s] = "waitReady"
    BY <1>1, <2>8, <2>9, <2>10 DEF IInv, CBInv, Receiving
  <2>12. ASSUME NEW r \in mcastDests(i, s)
         PROVE  r \in Arrived(i, s)
    <3>1. r \in Cores /\ ~isSender(i, r) /\ coreIndex(i, r) = s
      BY <2>9, DestsOfSender
    <3>2. InStep(i, r, s)
      <4> SUFFICES ASSUME Behind(i, r, s) PROVE FALSE
        BY <1>1, <2>10, <3>1 DEF IInv, ReceiverInv
      <4>1. /\ dm[i][r] = "waitFinished"
            /\ senderFinished[i][r] = 0
            /\ setInFlight[i][r] = 0
        BY <1>1, <3>1, WaitingThreads DEF Behind, Receiving, Quiet
      <4> QED
        BY <4>1 DEF Behind
    <3>3. dmIter[i][r] = m
      BY <2>10, <3>2 DEF InStep
    <3>4. dm[i][r] = "waitFinished" /\ incInFlight[i][r] = 0
      BY <2>8, <3>1, <3>2, <3>3 DEF InStep, Idle, Quiet
    <3> QED
      BY <2>10, <3>3, <3>4 DEF Arrived
  <2>13. Arrived(i, s) = mcastDests(i, s)
    BY <2>12 DEF Arrived
  <2>14. receiversReady[i][s] = mcastVolume(i) - 1
    BY <1>1, <2>9, <2>10, <2>11, <2>13, NumberOfReceivers DEF IInv, ReadyInv
  <2> QED
    BY <1>1, <2>9, <2>11, <2>14, WaitingThreads
<1> QED
  BY <1>1, Invariance, PTL

\* Only a CB that is reserved by its datamovement thread is ever written.
LEMMA WritesOnlyReserved ==
    ASSUME IInv, [Next]_vars, NEW i \in Operands, NEW c \in Cores, pages[i][c] = 1
    PROVE  l1'[i][c] = l1[i][c]
<1>1. TypeOK /\ CBInv(i, c)
  BY DEF IInv
<1>2. ASSUME NEW j \in Operands, NEW d \in Cores, DMThread(j, d)
      PROVE  l1'[i][c] = l1[i][c]
  <2>1. CASE l1' = l1
    BY <2>1
  <2>2. CASE Fetch(j, d) /\ Reserve(j, d)
    BY <1>1, <2>2 DEF Fetch, Reserve, TypeOK
  <2> QED
    BY <1>2, <2>1, <2>2 DEF DMThread, YieldLocal, StreamDMA, GatherDMA,
       WaitReceiversReady, ResetReceiversReady, McastDMA, SetSenderFinished,
       IncReceiversReady, WaitSenderFinished, ResetSenderFinished, cbVars
<1>3. ASSUME NEW j \in Operands, NEW d \in Cores, NoC(j, d)
      PROVE  l1'[i][c] = l1[i][c]
  <2>1. CASE LandInc(j, d) \/ LandSet(j, d)
    BY <2>1 DEF LandInc, LandSet, cbVars
  <2>2. CASE LandData(j, d)
    <3>1. dataInFlight[j][d] = 1
      BY <1>1, <2>2 DEF LandData, TypeOK
    <3>2. QuietInv(j, d) /\ ReceiverInv(j, d) /\ CBInv(j, d)
      BY DEF IInv
    <3>3. InStep(j, d, coreIndex(j, d))
      BY <3>1, <3>2 DEF QuietInv, ReceiverInv, Behind
    <3>4. dm[j][d] = "waitFinished"
      BY <3>1, <3>3 DEF InStep
    <3>5. pages[j][d] = 0
      BY <3>2, <3>4 DEF CBInv, Idle
    <3> QED
      BY <1>1, <2>2, <3>5 DEF LandData, TypeOK
  <2> QED
    BY <1>3, <2>1, <2>2 DEF NoC
<1>4. ASSUME NEW d \in Cores, ComputeThread(d)
      PROVE  l1' = l1
  BY <1>4 DEF ComputeThread, AwaitInputs, Compute, PopFront, cbVars
<1>5. CASE UNCHANGED vars
  BY <1>5 DEF vars
<1> QED
  BY <1>2, <1>3, <1>4, <1>5 DEF Next, Terminated

\* A block is not written from the moment the compute thread has awaited it
\* until it pops it, by its own core or by another.
THEOREM AwaitedIsStable == Spec => StableWhileAwaited
<1>1. IInv /\ [Next]_vars =>
        [\A i \in Operands, c \in Cores :
           (compute[c] = "compute" \/ (compute[c] = "pop" /\ popped[c] < i))
             => l1'[i][c] = l1[i][c]]_vars
  <2> SUFFICES ASSUME IInv, [Next]_vars, NEW i \in Operands, NEW c \in Cores,
                      compute[c] = "compute" \/ (compute[c] = "pop" /\ popped[c] < i)
               PROVE  l1'[i][c] = l1[i][c]
    OBVIOUS
  <2>1. ComputeInv(c) /\ popped[c] \in Nat /\ i \in Nat /\ i > 0
    BY OperandsAssumption DEF IInv, TypeOK, Operands
  <2>2. popped[c] < i
    BY <2>1 DEF ComputeInv
  <2>3. pages[i][c] = 1
    BY <2>1, <2>2 DEF ComputeInv
  <2> QED
    BY <2>3, WritesOnlyReserved
<1> QED
  BY <1>1, Invariance, PTL DEF Spec, StableWhileAwaited

\* The safety part of ImplementsGenericOp: the kernels combine the blocks that
\* the generic op's indexing maps select, in order, each exactly once.
THEOREM RefinesGenericOp == Spec => Promise!Spec
<1>1. Init => Promise!Init
  BY DEF Init, Promise!Init
<1>2. IInv /\ [Next]_vars => [Promise!Next]_out
  <2> SUFFICES ASSUME IInv, [Next]_vars, out' # out
               PROVE  Promise!Next
    OBVIOUS
  <2>1. PICK c \in Cores : Compute(c)
    <3>1. ASSUME NEW i \in Operands, NEW c \in Cores, DMThread(i, c) \/ NoC(i, c)
          PROVE  UNCHANGED computeVars
      BY <3>1 DEF DMThread, NoC, YieldLocal, StreamDMA, GatherDMA,
         WaitReceiversReady, ResetReceiversReady, McastDMA, SetSenderFinished,
         IncReceiversReady, WaitSenderFinished, ResetSenderFinished, LandInc,
         LandData, LandSet
    <3>2. ASSUME NEW c \in Cores, ComputeThread(c)
          PROVE  Compute(c) \/ UNCHANGED out
      BY <3>2 DEF ComputeThread, AwaitInputs, PopFront
    <3> QED
      BY <3>1, <3>2 DEF Next, Terminated, vars, computeVars
  <2>2. /\ Len(out[c]) = computeIter[c] /\ computeIter[c] \in 0 .. NumIters - 1
        /\ [j \in Operands |-> l1[j][c]] = Wanted(c, computeIter[c])
    BY <2>1, ComputeReadsWanted
  <2>3. Len(out[c]) < NumIters
    BY <2>2, NumItersAssumption
  <2>4. out' = [out EXCEPT ![c] = Append(out[c], Wanted(c, Len(out[c])))]
    BY <2>1, <2>2 DEF Compute
  <2>5. Promise!Iterate(c)
    BY <2>3, <2>4 DEF Promise!Iterate
  <2> QED
    BY <2>5 DEF Promise!Next
<1> QED
  BY <1>1, <1>2, Invariance, PTL DEF Spec, Promise!Spec

=============================================================================
