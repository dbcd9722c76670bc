----------------------- MODULE ProgramExecutorProofs -----------------------
(***************************************************************************)
(* The TTNN runtime, for every set of programs that the compiler may have  *)
(* put in a binary and every sequence of calls of the client.              *)
(*                                                                         *)
(* What a run of a program may rely on is that no step frees a storage     *)
(* that a value in a tensor pool refers to.  A deallocate frees a storage  *)
(* only when a single wrapper refers to it; so the invariant says who may  *)
(* share a wrapper: two values of a program only when the client passed    *)
(* one retained tensor twice, and the values that a const-eval function    *)
(* computes with nobody.  A second invariant says the same of the cache:   *)
(* its wrappers are its own, and those that programs get from it only      *)
(* share their storages.  A third one is about contents: an entry is the   *)
(* value of its const-eval function on contents that the tensors whose     *)
(* versions it compares still have, and what a program is going to         *)
(* overwrite is shared neither with the cache nor with another value of    *)
(* its pool.                                                               *)
(***************************************************************************)
EXTENDS DeallocateProofs

Fields == {"fn", "dev", "prog", "pc", "inputs", "live", "versions", "promised"}

\* Wrappers ws and storages ss are well formed, all of them older than v.
HeapTyped(ws, ss, v) ==
    /\ v \in Nat
    /\ IsFiniteSet(DOMAIN ws)
    /\ \A w \in DOMAIN ws :
          /\ w \in 0 .. v - 1
          /\ DOMAIN ws[w] = {"tensor", "retain", "version"}
          /\ ws[w].tensor \in DOMAIN ss
          /\ ws[w].retain \in BOOLEAN
          /\ ws[w].version \in 0 .. v - 1
    /\ \A s \in DOMAIN ss :
          /\ DOMAIN ss[s] = {"data", "allocated"}
          /\ ss[s].allocated \in BOOLEAN

\* Nothing is alive but what is referred to.
HeapInv ==
    /\ HeapTyped(wrapper, storage, latestVersion)
    /\ DOMAIN wrapper = Referenced(held, cache, stack)
    /\ DOMAIN storage = {wrapper[w].tensor : w \in DOMAIN wrapper}

\* A cache entry has one tensor for each output of its const-eval function.
CacheInv(c) ==
    \A k \in DOMAIN c :
        /\ k.callee \in DOMAIN ConstEval
        /\ isSequence(c[k].tensors)
        /\ Len(c[k].tensors) = Len(CompiledConstEval[k.callee].ret)

\* An executor's pool is what its program counter says it should be.
FrameInv(fr) ==
    /\ DOMAIN fr = Fields
    /\ fr.pc \in 1 .. Len(fr.fn.body) + 1
    /\ DOMAIN fr.live = liveBefore(fr.fn, fr.pc)

\* The values in an executor's pool are allocated tensors.
FrameAlive(ws, ss, fr) ==
    \A v \in DOMAIN fr.live :
        /\ fr.live[v] \in DOMAIN ws
        /\ ss[ws[fr.live[v]].tensor].allocated

\* Only a retained tensor is two values of a program.
ProgramOwns(ws, fr) ==
    \A u, v \in DOMAIN fr.live :
        u # v /\ fr.live[u] = fr.live[v] => ws[fr.live[u]].retain

\* A const-eval function shares its parameters with the program that called
\* it and the tensors that it computes with no other value.
ConstEvalOwns(caller, fr) ==
    \A v \in DOMAIN fr.live :
        IF v \in ToSet(fr.fn.params)
           THEN fr.live[v] \in Range(caller.live)
           ELSE /\ fr.live[v] \notin Range(caller.live)
                /\ \A u \in DOMAIN fr.live : fr.live[u] = fr.live[v] => u = v

Outer(ws, ss, fr) ==
    /\ FrameInv(fr)
    /\ fr.prog \in DOMAIN Programs
    /\ fr.fn = Compiled[fr.prog]
    /\ FrameAlive(ws, ss, fr)
    /\ ProgramOwns(ws, fr)

Nested(ws, ss, caller, fr) ==
    /\ FrameInv(fr)
    /\ caller.pc <= Len(caller.fn.body)
    /\ caller.fn.body[caller.pc].op = "load_cached"
    /\ fr.fn = CompiledConstEval[caller.fn.body[caller.pc].name]
    /\ FrameAlive(ws, ss, fr)
    /\ ConstEvalOwns(caller, fr)

StackInv(ws, ss, stk) ==
    \/ stk = <<>>
    \/ stk = <<stk[1]>> /\ Outer(ws, ss, stk[1])
    \/ /\ stk = <<stk[1], stk[2]>>
       /\ Outer(ws, ss, stk[1])
       /\ Nested(ws, ss, stk[1], stk[2])

CountsInv ==
    /\ calls \in 0 .. MaxCalls
    /\ submits \in 0 .. MaxSubmits
    /\ aborted \in BOOLEAN

ExecutorInv ==
    /\ HeapInv
    /\ CacheInv(cache)
    /\ StackInv(wrapper, storage, stack)
    /\ CountsInv

-----------------------------------------------------------------------------
(* Functions and their live ranges                                         *)

\* A sequence is indexed from 1 to its length.
LEMMA SequenceFacts ==
    ASSUME NEW s, isSequence(s)
    PROVE  Len(s) \in Nat /\ DOMAIN s = 1 .. Len(s)
  BY DEF isSequence

\* The pool of a fresh executor has the parameters.
LEMMA LiveFirst == ASSUME NEW f PROVE liveBefore(f, 1) = ToSet(f.params)
  BY DEF liveBefore, definedBefore

\* What the pool should have after operation k.
LEMMA LiveNext ==
    ASSUME NEW f, WellFormed(f), NEW k \in DOMAIN f.body
    PROVE  /\ k \in Nat /\ k + 1 \in 1 .. Len(f.body) + 1
           /\ f.body[k].op = "deallocate" =>
                 liveBefore(f, k + 1) = liveBefore(f, k) \ ToSet(f.body[k].ins)
           /\ f.body[k].op # "deallocate" =>
                 liveBefore(f, k + 1) = liveBefore(f, k) \cup ToSet(f.body[k].outs)
<1> DEFINE o == f.body[k]
<1>1. Len(f.body) \in Nat /\ DOMAIN f.body = 1 .. Len(f.body)
  BY SequenceFacts DEF WellFormed
<1>2. k \in Nat /\ k + 1 \in 1 .. Len(f.body) + 1 /\ k + 1 - 1 = k
  BY <1>1
<1>3. \A i : i \in 1 .. k <=> i \in 1 .. k - 1 \/ i = k
  BY <1>1
<1>4. definedBefore(f, k + 1) = definedBefore(f, k) \cup ToSet(o.outs)
  <2>1. ASSUME NEW v
        PROVE  v \in definedBefore(f, k + 1) <=>
                  v \in definedBefore(f, k) \cup ToSet(o.outs)
    BY <1>2, <1>3 DEF definedBefore
  <2> QED
    BY <2>1
<1>5. ASSUME NEW i \in 1 .. k - 1
      PROVE  ToSet(f.body[i].ins) \subseteq definedBefore(f, k)
  <2>1. i \in DOMAIN f.body /\ \A j : j \in 1 .. i - 1 => j \in 1 .. k - 1
    BY <1>1
  <2>2. ToSet(f.body[i].ins) \subseteq liveBefore(f, i)
    BY <2>1 DEF WellFormed
  <2> QED
    BY <2>1, <2>2 DEF liveBefore, definedBefore
<1>6. ToSet(o.outs) \cap definedBefore(f, k) = {}
        /\ ToSet(o.ins) \subseteq liveBefore(f, k)
        /\ (o.op = "deallocate" => o.outs = <<>>)
  BY DEF WellFormed
<1>7. CASE o.op = "deallocate"
  <2>1. ToSet(o.outs) = {}
    BY <1>6, <1>7 DEF ToSet
  <2>2. ASSUME NEW v
        PROVE  v \in liveBefore(f, k + 1) <=>
                  v \in liveBefore(f, k) \ ToSet(o.ins)
    BY <1>2, <1>3, <1>4, <1>7, <2>1 DEF liveBefore
  <2> QED
    BY <1>2, <1>7, <2>2
<1>8. CASE o.op # "deallocate"
  <2>1. ASSUME NEW v
        PROVE  v \in liveBefore(f, k + 1) <=>
                  v \in liveBefore(f, k) \cup ToSet(o.outs)
    BY <1>2, <1>3, <1>4, <1>5, <1>6, <1>8 DEF liveBefore
  <2> QED
    BY <1>2, <1>8, <2>1
<1> QED
  BY <1>7, <1>8

\* TTNNDeallocate changes nothing of a function but its body.
LEMMA CompiledParams ==
    ASSUME ProgramsWellFormed, NEW p \in DOMAIN Programs
    PROVE  Compiled[p].params = Programs[p].params
<1>1. \E b : TTNNDeallocate(Programs[p]) = [Programs[p] EXCEPT !.body = b]
  BY Zenon DEF TTNNDeallocate
<1>2. "params" \in DOMAIN Programs[p]
  BY DEF ProgramsWellFormed
<1>3. Compiled[p] = TTNNDeallocate(Programs[p])
  BY DEF Compiled
<1> QED
  BY <1>1, <1>2, <1>3

-----------------------------------------------------------------------------
(* References                                                              *)

CacheRefs(c) == UNION {ToSet(c[k].tensors) : k \in DOMAIN c}

FrameRefs(fr) == Range(fr.live) \cup ToSet(fr.inputs)

\* What is referred to when no program runs, when one runs, and when a
\* const-eval function runs for it.
LEMMA RefsOfStacks ==
    ASSUME NEW h, NEW c, NEW a, NEW b
    PROVE  /\ Referenced(h, c, <<>>) = h \cup CacheRefs(c)
           /\ Referenced(h, c, <<a>>) = h \cup CacheRefs(c) \cup FrameRefs(a)
           /\ Referenced(h, c, <<a, b>>) =
                 h \cup CacheRefs(c) \cup FrameRefs(a) \cup FrameRefs(b)
<1>1. Referenced(h, c, <<>>) = h \cup CacheRefs(c)
  <2>1. DOMAIN <<>> = {}
    OBVIOUS
  <2> QED
    BY <2>1, Zenon DEF Referenced, CacheRefs
<1>2. ASSUME NEW stk, NEW x
      PROVE  x \in Referenced(h, c, stk) <=>
                \/ x \in h \cup CacheRefs(c)
                \/ \E n \in DOMAIN stk : x \in FrameRefs(stk[n])
  <2>1. Referenced(h, c, stk) =
           (h \cup CacheRefs(c)) \cup UNION {FrameRefs(stk[n]) : n \in DOMAIN stk}
    BY DEF Referenced, CacheRefs, FrameRefs
  <2> QED
    BY <2>1
<1>3. Referenced(h, c, <<a>>) = h \cup CacheRefs(c) \cup FrameRefs(a)
  <2>1. DOMAIN <<a>> = {1} /\ <<a>>[1] = a
    OBVIOUS
  <2>2. \A x : x \in Referenced(h, c, <<a>>) <=>
                  x \in h \cup CacheRefs(c) \cup FrameRefs(a)
    BY <1>2, <2>1, Zenon
  <2> QED
    BY <2>2, Zenon
<1>4. Referenced(h, c, <<a, b>>) =
         h \cup CacheRefs(c) \cup FrameRefs(a) \cup FrameRefs(b)
  <2>1. DOMAIN <<a, b>> = {1, 2} /\ <<a, b>>[1] = a /\ <<a, b>>[2] = b
    OBVIOUS
  <2>2. \A x : x \in Referenced(h, c, <<a, b>>) <=>
                  x \in h \cup CacheRefs(c) \cup FrameRefs(a) \cup FrameRefs(b)
    BY <1>2, <2>1, Zenon
  <2> QED
    BY <2>2, Zenon
<1> QED
  BY <1>1, <1>3, <1>4

-----------------------------------------------------------------------------
(* Wrappers and storages                                                   *)

Alive(ws, ss, w) == ss[ws[w].tensor].allocated

\* ws2, ss2 has the wrappers of ws, ss, and those that were alive still are.
Keeps(ws, ss, ws2, ss2) ==
    \A w \in DOMAIN ws :
        /\ w \in DOMAIN ws2
        /\ ws2[w] = ws[w]
        /\ Alive(ws, ss, w) => Alive(ws2, ss2, w)

\* The fields of a new wrapper.
LEMMA WrapperFields ==
    ASSUME NEW t, NEW r, NEW v, NEW x, x = TTNNTensorWrapper(t, r, v)
    PROVE  /\ DOMAIN x = {"tensor", "retain", "version"}
           /\ x.tensor = t /\ x.retain = r /\ x.version = v
  BY DEF TTNNTensorWrapper

\* A new storage is allocated.
LEMMA StorageFields ==
    ASSUME NEW d, NEW x, x = allocatedWith(d)
    PROVE  /\ DOMAIN x = {"data", "allocated"}
           /\ x.allocated = TRUE
           /\ x.allocated
  BY DEF allocatedWith

\* A wrapper of a tensor with a storage of its own.
LEMMA NewTensor ==
    ASSUME HeapTyped(wrapper, storage, latestVersion),
           latestVersion' = latestVersion + 1,
           NEW t, NEW d, NEW r \in BOOLEAN,
           NEW ws2, ws2 = With(wrapper, latestVersion,
                           TTNNTensorWrapper(t, r, latestVersion)),
           NEW ss2, ss2 = With(storage, t, allocatedWith(d))
    PROVE  /\ HeapTyped(ws2, ss2, latestVersion')
           /\ DOMAIN ws2 = DOMAIN wrapper \cup {latestVersion}
           /\ Keeps(wrapper, storage, ws2, ss2)
           /\ Alive(ws2, ss2, latestVersion)
<1> DEFINE v == latestVersion
<1>1. /\ DOMAIN ws2 = DOMAIN wrapper \cup {v}
      /\ ws2[v] = TTNNTensorWrapper(t, r, v)
      /\ \A w \in DOMAIN wrapper : w # v => ws2[w] = wrapper[w]
  BY DEF With
<1>2. /\ DOMAIN ss2 = DOMAIN storage \cup {t}
      /\ ss2[t] = allocatedWith(d)
      /\ \A s \in DOMAIN storage : s # t => ss2[s] = storage[s]
  BY DEF With
<1>3. v \in Nat /\ \A w \in DOMAIN wrapper : w \in 0 .. v - 1 /\ w # v
  BY DEF HeapTyped
<1>4. IsFiniteSet(DOMAIN ws2)
  BY <1>1, FS_AddElement DEF HeapTyped
<1>5. ASSUME NEW w \in DOMAIN ws2
      PROVE  /\ w \in 0 .. v + 1 - 1
             /\ DOMAIN ws2[w] = {"tensor", "retain", "version"}
             /\ ws2[w].tensor \in DOMAIN ss2
             /\ ws2[w].retain \in BOOLEAN
             /\ ws2[w].version \in 0 .. v + 1 - 1
  <2>1. CASE w = v
    BY <1>1, <1>2, <1>3, <2>1, WrapperFields
  <2>2. CASE w \in DOMAIN wrapper
    <3>1. ws2[w] = wrapper[w]
      BY <1>1, <1>3, <2>2
    <3>2. wrapper[w].version \in 0 .. v - 1 /\ w \in 0 .. v - 1
      BY <2>2 DEF HeapTyped
    <3> QED
      BY <1>2, <1>3, <2>2, <3>1, <3>2 DEF HeapTyped
  <2> QED
    BY <1>1, <2>1, <2>2
<1>6. ASSUME NEW s \in DOMAIN ss2
      PROVE  DOMAIN ss2[s] = {"data", "allocated"} /\ ss2[s].allocated \in BOOLEAN
  <2>1. CASE s = t
    BY <1>2, <2>1, StorageFields
  <2>2. CASE s \in DOMAIN storage /\ s # t
    BY <1>2, <2>2 DEF HeapTyped
  <2> QED
    BY <1>2, <2>1, <2>2
<1>7. HeapTyped(ws2, ss2, latestVersion')
  BY <1>3, <1>4, <1>5, <1>6 DEF HeapTyped
<1>8. Keeps(wrapper, storage, ws2, ss2)
  <2> SUFFICES ASSUME NEW w \in DOMAIN wrapper
               PROVE  w \in DOMAIN ws2 /\ ws2[w] = wrapper[w]
                      /\ (Alive(wrapper, storage, w) => Alive(ws2, ss2, w))
    BY DEF Keeps
  <2>1. w \in DOMAIN ws2 /\ ws2[w] = wrapper[w] /\ wrapper[w].tensor \in DOMAIN storage
    BY <1>1, <1>3 DEF HeapTyped
  <2>2. CASE wrapper[w].tensor = t
    BY <1>2, <2>1, <2>2, StorageFields DEF Alive
  <2>3. CASE wrapper[w].tensor # t
    BY <1>2, <2>1, <2>3 DEF Alive
  <2> QED
    BY <2>1, <2>2, <2>3
<1>9. Alive(ws2, ss2, v)
  <2>1. ws2[v].tensor = t
    BY <1>1, WrapperFields
  <2>2. ss2[t].allocated
    BY <1>2, StorageFields
  <2> QED
    BY <2>1, <2>2 DEF Alive
<1> QED
  BY <1>1, <1>7, <1>8, <1>9

\* A wrapper of a tensor that shares a storage.
LEMMA NewView ==
    ASSUME HeapTyped(wrapper, storage, latestVersion),
           latestVersion' = latestVersion + 1,
           NEW t \in DOMAIN storage, NEW r \in BOOLEAN,
           NEW ws2, ws2 = With(wrapper, latestVersion,
                           TTNNTensorWrapper(t, r, latestVersion))
    PROVE  /\ HeapTyped(ws2, storage, latestVersion')
           /\ DOMAIN ws2 = DOMAIN wrapper \cup {latestVersion}
           /\ Keeps(wrapper, storage, ws2, storage)
           /\ ws2[latestVersion].tensor = t
<1> DEFINE v == latestVersion
<1>1. /\ DOMAIN ws2 = DOMAIN wrapper \cup {v}
      /\ ws2[v] = TTNNTensorWrapper(t, r, v)
      /\ \A w \in DOMAIN wrapper : w # v => ws2[w] = wrapper[w]
  BY DEF With
<1>2. v \in Nat /\ \A w \in DOMAIN wrapper : w \in 0 .. v - 1 /\ w # v
  BY DEF HeapTyped
<1>3. IsFiniteSet(DOMAIN ws2)
  BY <1>1, FS_AddElement DEF HeapTyped
<1>4. ASSUME NEW w \in DOMAIN ws2
      PROVE  /\ w \in 0 .. v + 1 - 1
             /\ DOMAIN ws2[w] = {"tensor", "retain", "version"}
             /\ ws2[w].tensor \in DOMAIN storage
             /\ ws2[w].retain \in BOOLEAN
             /\ ws2[w].version \in 0 .. v + 1 - 1
  <2>1. CASE w = v
    BY <1>1, <1>2, <2>1, WrapperFields
  <2>2. CASE w \in DOMAIN wrapper
    <3>1. ws2[w] = wrapper[w]
      BY <1>1, <1>2, <2>2
    <3>2. wrapper[w].version \in 0 .. v - 1 /\ w \in 0 .. v - 1
      BY <2>2 DEF HeapTyped
    <3> QED
      BY <1>2, <2>2, <3>1, <3>2 DEF HeapTyped
  <2> QED
    BY <1>1, <2>1, <2>2
<1>5. HeapTyped(ws2, storage, latestVersion')
  BY <1>2, <1>3, <1>4 DEF HeapTyped
<1>6. ws2[v].tensor = t
  BY <1>1, WrapperFields
<1> QED
  BY <1>1, <1>2, <1>5, <1>6 DEF Keeps, Alive

\* deallocate changes no storage but that of a tensor that shares it with none.
LEMMA DeallocateHeap ==
    ASSUME NEW ss, HeapTyped(wrapper, ss, latestVersion),
           NEW w \in DOMAIN wrapper,
           NEW ss2, ss2 = deallocate(ss, w)
    PROVE  /\ HeapTyped(wrapper, ss2, latestVersion)
           /\ DOMAIN ss2 = DOMAIN ss
           /\ \A x \in DOMAIN wrapper :
                 x # w => ss2[wrapper[x].tensor] = ss[wrapper[x].tensor]
<1>1. CASE use_count(w) # 1
  BY <1>1 DEF deallocate
<1>2. CASE use_count(w) = 1
  <2> DEFINE t == wrapper[w].tensor
             sharers == {x \in DOMAIN wrapper : wrapper[x].tensor = t}
  <2>1. t \in DOMAIN ss /\ DOMAIN ss[t] = {"data", "allocated"}
    BY DEF HeapTyped
  <2>2. IsFiniteSet(sharers)
    BY FS_Subset DEF HeapTyped
  <2>3. \E x : sharers = {x}
    BY <1>2, <2>2, FS_Singleton DEF use_count
  <2>4. sharers = {w}
    BY <2>3
  <2>5. ss2 = [ss EXCEPT ![t] = [ss[t] EXCEPT !.allocated = FALSE]]
    BY <1>2 DEF deallocate
  <2>6. DOMAIN ss2 = DOMAIN ss /\ \A s \in DOMAIN ss : s # t => ss2[s] = ss[s]
    BY <2>5
  <2>7. DOMAIN ss2[t] = {"data", "allocated"} /\ ss2[t].allocated = FALSE
    BY <2>1, <2>5
  <2>8. \A x \in DOMAIN wrapper :
           x # w => ss2[wrapper[x].tensor] = ss[wrapper[x].tensor]
    BY <2>4, <2>6 DEF HeapTyped
  <2>9. HeapTyped(wrapper, ss2, latestVersion)
    <3> HIDE DEF t
    <3>1. \A s \in DOMAIN ss2 :
             DOMAIN ss2[s] = {"data", "allocated"} /\ ss2[s].allocated \in BOOLEAN
      BY <2>6, <2>7 DEF HeapTyped
    <3> QED
      BY <3>1, <2>6 DEF HeapTyped
  <2> QED
    BY <2>6, <2>8, <2>9
<1> QED
  BY <1>1, <1>2

\* The results of a load_cached: wrappers of their own that share the storage
\* of the cached tensors.
LEMMA Inserted ==
    ASSUME NEW ws, NEW ss, HeapTyped(ws, ss, latestVersion),
           NEW outs, isSequence(outs), ToSet(outs) \subseteq DOMAIN ws,
           NEW ws2, ws2 = insertedWrappers(ws, outs)
    PROVE  /\ HeapTyped(ws2, ss, latestVersion + Len(outs))
           /\ Keeps(ws, ss, ws2, ss)
<1> DEFINE v == latestVersion
           new == v .. v + Len(outs) - 1
           r == FALSE
<1>1. Len(outs) \in Nat /\ DOMAIN outs = 1 .. Len(outs)
  BY SequenceFacts
<1>2. v \in Nat /\ \A w \in DOMAIN ws : w \in 0 .. v - 1 /\ w \notin new
  BY <1>1 DEF HeapTyped
<1>3. r \in BOOLEAN
  OBVIOUS
<1>4. ws2 = Overlay([w \in new |->
                 TTNNTensorWrapper(ws[outs[w - v + 1]].tensor, r, w)], ws)
  BY DEF insertedWrappers
<1> HIDE DEF r
<1>5. /\ DOMAIN ws2 = new \cup DOMAIN ws
      /\ \A w \in DOMAIN ws : ws2[w] = ws[w]
  BY <1>2, <1>4 DEF Overlay
<1>6. \A w \in new : ws2[w] = TTNNTensorWrapper(ws[outs[w - v + 1]].tensor, r, w)
  BY <1>4 DEF Overlay
<1>7. \A w \in new : /\ w \in 0 .. v + Len(outs) - 1
                     /\ w - v + 1 \in DOMAIN outs
                     /\ outs[w - v + 1] \in DOMAIN ws
  BY <1>1, <1>2 DEF ToSet
<1>8. IsFiniteSet(DOMAIN ws2)
  <2>1. IsFiniteSet(new)
    BY <1>1, <1>2, FS_Interval
  <2>2. IsFiniteSet(DOMAIN ws)
    BY DEF HeapTyped
  <2> HIDE DEF new
  <2> QED
    BY <1>5, <2>1, <2>2, FS_Union
<1>9. ASSUME NEW w \in DOMAIN ws2
      PROVE  /\ w \in 0 .. v + Len(outs) - 1
             /\ DOMAIN ws2[w] = {"tensor", "retain", "version"}
             /\ ws2[w].tensor \in DOMAIN ss
             /\ ws2[w].retain \in BOOLEAN
             /\ ws2[w].version \in 0 .. v + Len(outs) - 1
  <2>1. CASE w \in new
    <3>1. /\ DOMAIN ws2[w] = {"tensor", "retain", "version"}
          /\ ws2[w].tensor = ws[outs[w - v + 1]].tensor
          /\ ws2[w].retain = r /\ ws2[w].version = w
      BY <1>6, <2>1, WrapperFields
    <3>2. ws[outs[w - v + 1]].tensor \in DOMAIN ss
      BY <1>7, <2>1 DEF HeapTyped
    <3> QED
      BY <1>3, <1>7, <2>1, <3>1, <3>2
  <2>2. CASE w \in DOMAIN ws
    <3>1. ws2[w] = ws[w]
      BY <1>5, <2>2
    <3>2. ws[w].version \in 0 .. v - 1 /\ w \in 0 .. v - 1
      BY <2>2 DEF HeapTyped
    <3>3. w \in 0 .. v + Len(outs) - 1 /\ ws[w].version \in 0 .. v + Len(outs) - 1
      BY <1>1, <1>2, <3>2
    <3> QED
      BY <2>2, <3>1, <3>3 DEF HeapTyped
  <2> QED
    BY <1>5, <2>1, <2>2
<1>10. HeapTyped(ws2, ss, v + Len(outs))
  <2>1. v + Len(outs) \in Nat
    BY <1>1, <1>2
  <2> QED
    BY <1>8, <1>9, <2>1 DEF HeapTyped
<1>11. Keeps(ws, ss, ws2, ss)
  BY <1>5 DEF Keeps, Alive
<1> QED
  BY <1>10, <1>11

\* gatherOutputTensors only clears retain flags.
LEMMA Gathered ==
    ASSUME HeapTyped(wrapper, storage, latestVersion), NEW fr,
           NEW ws, ws = gathered(fr)
    PROVE  /\ HeapTyped(ws, storage, latestVersion)
           /\ DOMAIN ws = DOMAIN wrapper
           /\ \A w \in DOMAIN wrapper :
                 /\ ws[w].tensor = wrapper[w].tensor
                 /\ w \notin ToSet(outputs(fr)) => ws[w] = wrapper[w]
<1>1. DOMAIN ws = DOMAIN wrapper
  BY DEF gathered
<1>2. ASSUME NEW w \in DOMAIN wrapper
      PROVE  /\ DOMAIN ws[w] = {"tensor", "retain", "version"}
             /\ ws[w].tensor = wrapper[w].tensor
             /\ ws[w].retain \in BOOLEAN
             /\ ws[w].version = wrapper[w].version
             /\ w \notin ToSet(outputs(fr)) => ws[w] = wrapper[w]
  <2>1. /\ DOMAIN wrapper[w] = {"tensor", "retain", "version"}
        /\ wrapper[w].retain \in BOOLEAN
    BY DEF HeapTyped
  <2>2. CASE w \in ToSet(outputs(fr))
    <3>1. ws[w] = [wrapper[w] EXCEPT !.retain = FALSE]
      BY <2>2 DEF gathered
    <3> QED
      BY <2>1, <2>2, <3>1
  <2>3. CASE w \notin ToSet(outputs(fr))
    <3>1. ws[w] = wrapper[w]
      BY <2>3 DEF gathered
    <3> QED
      BY <2>1, <3>1
  <2> QED
    BY <2>2, <2>3
<1>3. HeapTyped(ws, storage, latestVersion)
  <2>1. ASSUME NEW w \in DOMAIN ws
        PROVE  /\ w \in 0 .. latestVersion - 1
               /\ DOMAIN ws[w] = {"tensor", "retain", "version"}
               /\ ws[w].tensor \in DOMAIN storage
               /\ ws[w].retain \in BOOLEAN
               /\ ws[w].version \in 0 .. latestVersion - 1
    <3>1. /\ w \in 0 .. latestVersion - 1
          /\ wrapper[w].tensor \in DOMAIN storage
          /\ wrapper[w].version \in 0 .. latestVersion - 1
      BY <1>1 DEF HeapTyped
    <3> QED
      BY <1>1, <1>2, <3>1
  <2> QED
    BY <1>1, <2>1 DEF HeapTyped
<1> QED
  BY <1>1, <1>2, <1>3

\* What the destruction of unreferenced wrappers and storages leaves.
LEMMA SettleHeap ==
    ASSUME NEW ws, NEW ss, NEW h, NEW c, NEW stk,
           HeapTyped(ws, ss, latestVersion'),
           Referenced(h, c, stk) \subseteq DOMAIN ws,
           Settle(ws, ss, h, c, stk)
    PROVE  /\ HeapInv'
           /\ held' = h /\ cache' = c /\ stack' = stk
           /\ DOMAIN wrapper' = Referenced(h, c, stk)
           /\ \A w \in Referenced(h, c, stk) :
                 /\ wrapper'[w] = ws[w]
                 /\ storage'[ws[w].tensor] = ss[ws[w].tensor]
<1> DEFINE alive == Referenced(h, c, stk)
           tensors == {ws[w].tensor : w \in alive}
<1>1. /\ wrapper' = [w \in alive |-> ws[w]]
      /\ storage' = [s \in tensors |-> ss[s]]
      /\ held' = h /\ cache' = c /\ stack' = stk
  BY DEF Settle, Restrict
<1> HIDE DEF alive
<1>2. /\ DOMAIN wrapper' = alive
      /\ \A w \in alive : wrapper'[w] = ws[w]
  BY <1>1
<1>3. /\ DOMAIN storage' = tensors
      /\ \A s \in tensors : storage'[s] = ss[s]
  BY <1>1
<1>4. DOMAIN storage' = {wrapper'[w].tensor : w \in DOMAIN wrapper'}
  <2>1. ASSUME NEW t
        PROVE  t \in tensors <=> \E w \in alive : t = wrapper'[w].tensor
    BY <1>2
  <2> QED
    BY <1>2, <1>3, <2>1
<1>5. alive \subseteq DOMAIN ws
  BY DEF alive
<1>6. tensors \subseteq DOMAIN ss
  BY <1>5 DEF HeapTyped
<1>7. IsFiniteSet(DOMAIN wrapper')
  BY <1>2, <1>5, FS_Subset DEF HeapTyped
<1>8. ASSUME NEW w \in DOMAIN wrapper'
      PROVE  /\ w \in 0 .. latestVersion' - 1
             /\ DOMAIN wrapper'[w] = {"tensor", "retain", "version"}
             /\ wrapper'[w].tensor \in DOMAIN storage'
             /\ wrapper'[w].retain \in BOOLEAN
             /\ wrapper'[w].version \in 0 .. latestVersion' - 1
  <2>1. w \in DOMAIN ws /\ wrapper'[w] = ws[w] /\ ws[w].tensor \in tensors
    BY <1>2, <1>5
  <2> QED
    BY <1>3, <2>1 DEF HeapTyped
<1>9. ASSUME NEW s \in DOMAIN storage'
      PROVE  /\ DOMAIN storage'[s] = {"data", "allocated"}
             /\ storage'[s].allocated \in BOOLEAN
  BY <1>3, <1>6 DEF HeapTyped
<1>10. HeapTyped(wrapper', storage', latestVersion')
  <2>1. latestVersion' \in Nat
    BY DEF HeapTyped
  <2> QED
    BY <1>7, <1>8, <1>9, <2>1 DEF HeapTyped
<1>11. HeapInv'
  BY <1>1, <1>2, <1>4, <1>10 DEF HeapInv, alive
<1>12. \A w \in alive : storage'[ws[w].tensor] = ss[ws[w].tensor]
  BY <1>3
<1> QED
  BY <1>1, <1>2, <1>11, <1>12 DEF alive

\* Membership in what is referred to.
LEMMA InReferenced ==
    ASSUME NEW h, NEW c, NEW stk, NEW x
    PROVE  x \in Referenced(h, c, stk) <=>
              \/ x \in h
              \/ x \in CacheRefs(c)
              \/ \E n \in DOMAIN stk : x \in FrameRefs(stk[n])
<1>1. Referenced(h, c, stk) =
         (h \cup CacheRefs(c)) \cup UNION {FrameRefs(stk[n]) : n \in DOMAIN stk}
  BY DEF Referenced, CacheRefs, FrameRefs
<1> QED
  BY <1>1

-----------------------------------------------------------------------------
(* The client's calls                                                      *)

\* A tensor that something still refers to after the step is not freed by it.
Survives(w) == is_allocated(w) /\ w \in DOMAIN wrapper' => is_allocated(w)'

\* A value of an executor.
InPool(w) == \E n \in DOMAIN stack : w \in Range(stack[n].live)

\* The client or an executor may have w after a step: they had it before, or w
\* is new.
Passed(w) == w \in held \/ InPool(w) \/ w \notin DOMAIN wrapper

\* A step takes no tensor from the cache to the client or to an executor, and
\* none from the client to the results of a const-eval function.
Passes ==
    /\ \A x \in CacheRefs(cache') : x \in CacheRefs(cache)
    /\ \A w \in held' : Passed(w)
    /\ \A n \in DOMAIN stack' : \A v \in DOMAIN stack'[n].live : Passed(stack'[n].live[v])
    /\ \A n \in DOMAIN stack' \ {1} :
          /\ held' = held
          /\ \A v \in DOMAIN stack'[n].live : v \notin ToSet(stack'[n].fn.params) =>
                \/ stack'[n].live[v] \notin DOMAIN wrapper
                \/ /\ n \in DOMAIN stack /\ stack[n].fn = stack'[n].fn
                   /\ v \in DOMAIN stack[n].live /\ stack[n].live[v] = stack'[n].live[v]

\* Every call of the client's ends with the destruction of what it let go.
LEMMA ClientSettles ==
    ASSUME ExecutorInv, stack = <<>>, CountsInv',
           NEW ws, NEW ss, NEW h, NEW c,
           HeapTyped(ws, ss, latestVersion'),
           h \subseteq DOMAIN ws, CacheRefs(c) \subseteq DOMAIN ws, CacheInv(c),
           Settle(ws, ss, h, c, stack)
    PROVE  /\ ExecutorInv'
           /\ \A w \in DOMAIN wrapper' : is_allocated(w)' <=> Alive(ws, ss, w)
<1>1. Referenced(h, c, stack) = h \cup CacheRefs(c)
  BY RefsOfStacks
<1>2. Referenced(h, c, stack) \subseteq DOMAIN ws
  BY <1>1
<1>3. /\ HeapInv' /\ cache' = c /\ stack' = stack
      /\ DOMAIN wrapper' = Referenced(h, c, stack)
      /\ \A w \in Referenced(h, c, stack) :
            wrapper'[w] = ws[w] /\ storage'[ws[w].tensor] = ss[ws[w].tensor]
  BY <1>2, SettleHeap
<1>4. CacheInv(cache)'
  BY <1>3 DEF CacheInv
<1>5. StackInv(wrapper, storage, stack)'
  BY <1>3 DEF StackInv
<1>6. ExecutorInv'
  BY <1>3, <1>4, <1>5 DEF ExecutorInv
<1>7. \A w \in DOMAIN wrapper' : is_allocated(w)' <=> Alive(ws, ss, w)
  BY <1>3 DEF is_allocated, Alive
<1> QED
  BY <1>6, <1>7

\* What holds when the client may call.
LEMMA IdleFacts ==
    ASSUME ExecutorInv, Idle
    PROVE  /\ stack = <<>>
           /\ HeapTyped(wrapper, storage, latestVersion)
           /\ held \subseteq DOMAIN wrapper
           /\ CacheRefs(cache) \subseteq DOMAIN wrapper
           /\ CacheInv(cache)
<1>1. DOMAIN wrapper = held \cup CacheRefs(cache)
  BY RefsOfStacks DEF ExecutorInv, HeapInv, Idle
<1> QED
  BY <1>1 DEF ExecutorInv, HeapInv, Idle

\* A call of the client's counts once.
LEMMA CallCounts ==
    ASSUME ExecutorInv, Call, UNCHANGED submits, aborted' \in BOOLEAN
    PROVE  CountsInv' /\ Idle
<1>1. calls \in 0 .. MaxCalls /\ calls < MaxCalls /\ calls' = calls + 1
  BY DEF ExecutorInv, CountsInv, Call
<1>2. calls' \in 0 .. MaxCalls
  BY <1>1, BoundsAssumption
<1> QED
  BY <1>2 DEF ExecutorInv, CountsInv, Call

\* A new tensor of the client.
LEMMA createOwnedHostTensorKeeps ==
    ASSUME ExecutorInv, NEW d, createOwnedHostTensor(d)
    PROVE  ExecutorInv' /\ \A w \in DOMAIN wrapper : Survives(w)
<1> DEFINE v == latestVersion
           r == FALSE
           t == freshStorage
           data == Leaf(d)
           ws == With(wrapper, v, TTNNTensorWrapper(t, r, v))
           ss == With(storage, t, allocatedWith(data))
<1>1. CountsInv' /\ Idle
  BY CallCounts DEF createOwnedHostTensor, ExecutorInv, CountsInv
<1>2. /\ stack = <<>> /\ HeapTyped(wrapper, storage, v)
      /\ held \subseteq DOMAIN wrapper
      /\ CacheRefs(cache) \subseteq DOMAIN wrapper /\ CacheInv(cache)
  BY <1>1, IdleFacts
<1>3. Settle(ws, ss, held \cup {v}, cache, stack) /\ latestVersion' = v + 1
  BY DEF createOwnedHostTensor
<1>4. /\ r \in BOOLEAN
      /\ ws = With(wrapper, v, TTNNTensorWrapper(t, r, v))
      /\ ss = With(storage, t, allocatedWith(data))
  OBVIOUS
<1> HIDE DEF r, t, data, ws, ss
<1>5. /\ HeapTyped(ws, ss, latestVersion') /\ DOMAIN ws = DOMAIN wrapper \cup {v}
      /\ Keeps(wrapper, storage, ws, ss)
  <2>0. v \in Nat /\ latestVersion' \in Nat /\ latestVersion' = v + 1
    BY <1>2, <1>3 DEF HeapTyped
  <2>1. HeapTyped(ws, ss, latestVersion')
    BY <1>2, <1>4, <2>0, NewTensor
  <2>2. DOMAIN ws = DOMAIN wrapper \cup {v}
    BY <1>4 DEF With
  <2>3. Keeps(wrapper, storage, ws, ss)
    BY <1>2, <1>4, <2>0, NewTensor
  <2> QED
    BY <2>1, <2>2, <2>3
<1>6. /\ ExecutorInv'
      /\ \A w \in DOMAIN wrapper' : is_allocated(w)' <=> Alive(ws, ss, w)
  BY <1>1, <1>2, <1>3, <1>5, ClientSettles
<1> QED
  BY <1>2, <1>5, <1>6 DEF Survives, Keeps, Alive, is_allocated

\* setTensorRetain touches one flag.
LEMMA setTensorRetainKeeps ==
    ASSUME ExecutorInv, NEW w \in held, NEW r \in BOOLEAN, setTensorRetain(w, r)
    PROVE  ExecutorInv' /\ \A x \in DOMAIN wrapper : Survives(x)
<1>1. CountsInv' /\ Idle
  BY CallCounts DEF setTensorRetain, ExecutorInv, CountsInv
<1>2. /\ stack = <<>> /\ HeapTyped(wrapper, storage, latestVersion)
      /\ held \subseteq DOMAIN wrapper /\ CacheInv(cache)
  BY <1>1, IdleFacts
<1>3. /\ wrapper' = [wrapper EXCEPT ![w] = [wrapper[w] EXCEPT !.retain = r]]
      /\ UNCHANGED <<storage, latestVersion, held, cache, stack>>
  BY DEF setTensorRetain
<1>4. DOMAIN wrapper' = DOMAIN wrapper
  BY <1>3
<1>5. ASSUME NEW x \in DOMAIN wrapper
      PROVE  /\ DOMAIN wrapper'[x] = {"tensor", "retain", "version"}
             /\ wrapper'[x].tensor = wrapper[x].tensor
             /\ wrapper'[x].retain \in BOOLEAN
             /\ wrapper'[x].version = wrapper[x].version
  <2>1. /\ DOMAIN wrapper[x] = {"tensor", "retain", "version"}
        /\ wrapper[x].retain \in BOOLEAN
    BY <1>2 DEF HeapTyped
  <2>2. CASE x = w
    <3>1. wrapper'[x] = [wrapper[x] EXCEPT !.retain = r]
      BY <1>3, <2>2
    <3> QED
      BY <2>1, <3>1
  <2>3. CASE x # w
    <3>1. wrapper'[x] = wrapper[x]
      BY <1>3, <2>3
    <3> QED
      BY <2>1, <3>1
  <2> QED
    BY <2>2, <2>3
<1>6. HeapTyped(wrapper', storage', latestVersion')
  <2>1. ASSUME NEW x \in DOMAIN wrapper'
        PROVE  /\ x \in 0 .. latestVersion' - 1
               /\ DOMAIN wrapper'[x] = {"tensor", "retain", "version"}
               /\ wrapper'[x].tensor \in DOMAIN storage'
               /\ wrapper'[x].retain \in BOOLEAN
               /\ wrapper'[x].version \in 0 .. latestVersion' - 1
    <3>1. /\ x \in 0 .. latestVersion - 1
          /\ wrapper[x].tensor \in DOMAIN storage
          /\ wrapper[x].version \in 0 .. latestVersion - 1
      BY <1>2, <1>4 DEF HeapTyped
    <3> QED
      BY <1>3, <1>4, <1>5, <3>1
  <2> QED
    BY <1>2, <1>3, <1>4, <2>1 DEF HeapTyped
<1>7. HeapInv'
  <2>1. {wrapper'[x].tensor : x \in DOMAIN wrapper'} =
           {wrapper[x].tensor : x \in DOMAIN wrapper}
    BY <1>4, <1>5
  <2> QED
    BY <1>3, <1>4, <1>6, <2>1 DEF HeapInv, ExecutorInv
<1>8. ExecutorInv'
  BY <1>1, <1>2, <1>3, <1>7 DEF ExecutorInv, StackInv, CacheInv
<1> QED
  BY <1>2, <1>3, <1>5, <1>8 DEF Survives, is_allocated

\* The client lets go of a handle.
LEMMA releaseHandleKeeps ==
    ASSUME ExecutorInv, NEW w \in held, releaseHandle(w)
    PROVE  ExecutorInv' /\ \A x \in DOMAIN wrapper : Survives(x)
<1>1. CountsInv' /\ Idle
  BY CallCounts DEF releaseHandle, ExecutorInv, CountsInv
<1>2. /\ stack = <<>> /\ HeapTyped(wrapper, storage, latestVersion)
      /\ held \subseteq DOMAIN wrapper
      /\ CacheRefs(cache) \subseteq DOMAIN wrapper /\ CacheInv(cache)
  BY <1>1, IdleFacts
<1>3. /\ Settle(wrapper, storage, held \ {w}, cache, stack)
      /\ latestVersion' = latestVersion
  BY DEF releaseHandle
<1>4. held' = held \ {w}
  BY <1>3 DEF Settle
<1>5. /\ ExecutorInv'
      /\ \A x \in DOMAIN wrapper' : is_allocated(x)' <=> Alive(wrapper, storage, x)
  BY <1>1, <1>2, <1>3, ClientSettles
<1> QED
  BY <1>4, <1>5 DEF Survives, Alive, is_allocated

\* toLayout frees its input only when told not to retain it.
LEMMA toLayoutKeeps ==
    ASSUME ExecutorInv, NEW w \in held, NEW same \in BOOLEAN,
           NEW retain \in {<<>>, <<TRUE>>, <<FALSE>>},
           toLayout(w, same, retain)
    PROVE  /\ ExecutorInv'
           /\ \A x \in DOMAIN wrapper :
                 Survives(x) \/ (x = w /\ (wrapper[w].retain => retain = <<FALSE>>))
<1> DEFINE v == latestVersion
           r == IF retain = <<>> THEN wrapper[w].retain ELSE retain[1]
           out == IF same THEN wrapper[w].tensor ELSE freshStorage
           data == contents(w)
           ws == With(wrapper, v, TTNNTensorWrapper(out, r, v))
           converted == With(storage, out, allocatedWith(data))
           ss == IF r \/ same THEN converted ELSE deallocate(converted, w)
<1>1. CountsInv' /\ Idle
  BY CallCounts DEF toLayout, ExecutorInv, CountsInv
<1>2. /\ stack = <<>> /\ HeapTyped(wrapper, storage, v)
      /\ held \subseteq DOMAIN wrapper
      /\ CacheRefs(cache) \subseteq DOMAIN wrapper /\ CacheInv(cache)
  BY <1>1, IdleFacts
<1>3. Settle(ws, ss, held \cup {v}, cache, stack) /\ latestVersion' = v + 1
  BY DEF toLayout
<1>4. /\ r \in BOOLEAN
      /\ retain # <<FALSE>> /\ wrapper[w].retain => r
  <2>1. w \in DOMAIN wrapper /\ wrapper[w].retain \in BOOLEAN
    BY <1>2 DEF HeapTyped
  <2>2. CASE retain = <<>>
    BY <2>1, <2>2
  <2>3. CASE retain = <<TRUE>>
    <3>1. retain # <<>> /\ retain[1] = TRUE
      BY <2>3
    <3> QED
      BY <3>1
  <2>4. CASE retain = <<FALSE>>
    <3>1. retain # <<>> /\ retain[1] = FALSE
      BY <2>4
    <3> QED
      BY <2>4, <3>1
  <2> QED
    BY <2>2, <2>3, <2>4
<1>5. /\ ws = With(wrapper, v, TTNNTensorWrapper(out, r, v))
      /\ converted = With(storage, out, allocatedWith(data))
      /\ (r \/ same) => ss = converted
      /\ ~(r \/ same) => ss = deallocate(converted, w)
  OBVIOUS
<1> HIDE DEF r, out, data, ws, converted, ss
<1>6. /\ HeapTyped(ws, converted, latestVersion') /\ DOMAIN ws = DOMAIN wrapper \cup {v}
      /\ Keeps(wrapper, storage, ws, converted)
  <2>0. v \in Nat /\ latestVersion' \in Nat /\ latestVersion' = v + 1
    BY <1>2, <1>3 DEF HeapTyped
  <2>1. HeapTyped(ws, converted, latestVersion')
    BY <1>2, <1>4, <1>5, <2>0, NewTensor
  <2>2. DOMAIN ws = DOMAIN wrapper \cup {v}
    BY <1>5 DEF With
  <2>3. Keeps(wrapper, storage, ws, converted)
    BY <1>2, <1>4, <1>5, <2>0, NewTensor
  <2> QED
    BY <2>1, <2>2, <2>3
<1>7. HeapTyped(wrapper, converted, v)
  <2>1. DOMAIN storage \subseteq DOMAIN converted
    BY <1>5 DEF With
  <2> QED
    BY <1>2, <1>6, <2>1 DEF HeapTyped
<1>8. /\ HeapTyped(wrapper, ss, v) /\ DOMAIN ss = DOMAIN converted
      /\ \A x \in DOMAIN wrapper :
            x # w \/ r => ss[wrapper[x].tensor] = converted[wrapper[x].tensor]
  <2>1. CASE r \/ same
    BY <1>5, <1>7, <2>1
  <2>2. CASE ~(r \/ same)
    BY <1>2, <1>5, <1>7, <2>2, DeallocateHeap
  <2> QED
    BY <2>1, <2>2
<1>9. HeapTyped(ws, ss, latestVersion')
  BY <1>6, <1>8 DEF HeapTyped
<1>10. /\ ExecutorInv'
       /\ \A x \in DOMAIN wrapper' : is_allocated(x)' <=> Alive(ws, ss, x)
  BY <1>1, <1>2, <1>3, <1>6, <1>9, ClientSettles
<1>11. ASSUME NEW x \in DOMAIN wrapper,
              ~(x = w /\ (wrapper[w].retain => retain = <<FALSE>>))
       PROVE  Survives(x)
  <2> SUFFICES ASSUME is_allocated(x)
               PROVE  Alive(ws, ss, x)
    BY <1>10 DEF Survives
  <2>1. x # w \/ r
    BY <1>4, <1>11
  <2>2. x \in DOMAIN wrapper /\ ws[x] = wrapper[x]
          /\ (Alive(wrapper, storage, x) => Alive(ws, converted, x))
    BY <1>2, <1>6 DEF Keeps
  <2>3. ss[wrapper[x].tensor] = converted[wrapper[x].tensor]
    BY <1>8, <2>1, <2>2
  <2> QED
    BY <2>2, <2>3 DEF Alive, is_allocated
<1> QED
  BY <1>10, <1>11

\* A step between submissions that changes storages and nothing else.
LEMMA StorageOnly ==
    ASSUME ExecutorInv, CountsInv', stack = <<>>,
           UNCHANGED <<wrapper, latestVersion, held, cache, stack>>,
           HeapTyped(wrapper, storage', latestVersion),
           DOMAIN storage' = DOMAIN storage
    PROVE  ExecutorInv'
<1>1. HeapInv'
  BY DEF ExecutorInv, HeapInv
<1> QED
  BY <1>1 DEF ExecutorInv, CacheInv, StackInv

\* deallocateTensor frees no tensor but its own.
LEMMA deallocateTensorKeeps ==
    ASSUME ExecutorInv, NEW w \in held, deallocateTensor(w)
    PROVE  ExecutorInv' /\ \A x \in DOMAIN wrapper : Survives(x) \/ x = w
<1>1. CountsInv' /\ Idle
  BY CallCounts DEF deallocateTensor, ExecutorInv, CountsInv
<1>2. /\ stack = <<>> /\ HeapTyped(wrapper, storage, latestVersion)
      /\ held \subseteq DOMAIN wrapper
  BY <1>1, IdleFacts
<1>3. /\ storage' = deallocate(storage, w)
      /\ UNCHANGED <<wrapper, latestVersion, held, cache, stack>>
  BY DEF deallocateTensor
<1>4. /\ HeapTyped(wrapper, storage', latestVersion)
      /\ DOMAIN storage' = DOMAIN storage
      /\ \A x \in DOMAIN wrapper :
            x # w => storage'[wrapper[x].tensor] = storage[wrapper[x].tensor]
  BY <1>2, <1>3, DeallocateHeap
<1>5. ExecutorInv'
  BY <1>1, <1>2, <1>3, <1>4, StorageOnly
<1> QED
  BY <1>2, <1>3, <1>4, <1>5 DEF Survives, is_allocated

\* Writing the data of a storage.
LEMMA WriteHeap ==
    ASSUME NEW ws, NEW ss, NEW v, HeapTyped(ws, ss, v), NEW t, NEW d,
           NEW ss2, ss2 = [ss EXCEPT ![t].data = d]
    PROVE  /\ HeapTyped(ws, ss2, v)
           /\ DOMAIN ss2 = DOMAIN ss
           /\ \A s \in DOMAIN ss : ss2[s].allocated = ss[s].allocated
<1>1. DOMAIN ss2 = DOMAIN ss
  OBVIOUS
<1>2. ASSUME NEW s \in DOMAIN ss
      PROVE  /\ DOMAIN ss2[s] = {"data", "allocated"}
             /\ ss2[s].allocated = ss[s].allocated
  <2>1. DOMAIN ss[s] = {"data", "allocated"}
    BY DEF HeapTyped
  <2>2. CASE s = t
    <3>1. ss2[s] = [ss[s] EXCEPT !.data = d]
      BY <2>2
    <3> QED
      BY <2>1, <3>1
  <2>3. CASE s # t
    <3>1. ss2[s] = ss[s]
      BY <2>3
    <3> QED
      BY <2>1, <3>1
  <2> QED
    BY <2>2, <2>3
<1>3. HeapTyped(ws, ss2, v)
  <2>1. \A s \in DOMAIN ss2 :
           DOMAIN ss2[s] = {"data", "allocated"} /\ ss2[s].allocated \in BOOLEAN
    BY <1>1, <1>2 DEF HeapTyped
  <2> QED
    BY <1>1, <2>1 DEF HeapTyped
<1> QED
  BY <1>1, <1>2, <1>3

\* memcpy writes the contents of one storage.
LEMMA memcpyKeeps ==
    ASSUME ExecutorInv, NEW dst \in held, NEW src \in held, memcpy(dst, src)
    PROVE  ExecutorInv' /\ \A x \in DOMAIN wrapper : Survives(x)
<1> DEFINE t == wrapper[dst].tensor
           d == contents(src)
<1>1. CountsInv' /\ Idle
  BY CallCounts DEF memcpy, ExecutorInv, CountsInv
<1>2. /\ stack = <<>> /\ HeapTyped(wrapper, storage, latestVersion)
      /\ held \subseteq DOMAIN wrapper
  BY <1>1, IdleFacts
<1>3. /\ storage' = [storage EXCEPT ![t].data = d]
      /\ UNCHANGED <<wrapper, latestVersion, held, cache, stack>>
  BY DEF memcpy
<1> HIDE DEF t, d
<1>4. /\ HeapTyped(wrapper, storage', latestVersion)
      /\ DOMAIN storage' = DOMAIN storage
      /\ \A s \in DOMAIN storage : storage'[s].allocated = storage[s].allocated
  <2>1. HeapTyped(wrapper, storage', latestVersion)
    BY <1>2, <1>3, WriteHeap
  <2>2. DOMAIN storage' = DOMAIN storage
    BY <1>3
  <2>3. \A s \in DOMAIN storage : storage'[s].allocated = storage[s].allocated
    BY <1>2, <1>3, WriteHeap
  <2> QED
    BY <2>1, <2>2, <2>3
<1>5. ExecutorInv'
  BY <1>1, <1>2, <1>3, <1>4, StorageOnly
<1>6. \A x \in DOMAIN wrapper : wrapper[x].tensor \in DOMAIN storage
  BY <1>2 DEF HeapTyped
<1> QED
  BY <1>3, <1>4, <1>5, <1>6 DEF Survives, is_allocated

\* An empty cache holds nothing alive.
LEMMA clearCacheKeeps ==
    ASSUME ExecutorInv, clearCache
    PROVE  ExecutorInv' /\ \A x \in DOMAIN wrapper : Survives(x)
<1> DEFINE none == <<>>
<1>1. CountsInv' /\ Idle
  BY CallCounts DEF clearCache, ExecutorInv, CountsInv
<1>2. /\ stack = <<>> /\ HeapTyped(wrapper, storage, latestVersion)
      /\ held \subseteq DOMAIN wrapper
  BY <1>1, IdleFacts
<1>3. Settle(wrapper, storage, held, none, stack) /\ latestVersion' = latestVersion
  BY DEF clearCache
<1>4. DOMAIN none = {}
  OBVIOUS
<1> HIDE DEF none
<1>5. CacheRefs(none) \subseteq DOMAIN wrapper /\ CacheInv(none)
  BY <1>4 DEF CacheRefs, CacheInv
<1>6. /\ ExecutorInv'
      /\ \A x \in DOMAIN wrapper' : is_allocated(x)' <=> Alive(wrapper, storage, x)
  BY <1>1, <1>2, <1>3, <1>5, ClientSettles
<1> QED
  BY <1>6 DEF Survives, Alive, is_allocated

\* remove drops one program's entries, or stops at its assert.
LEMMA removeFromCacheKeeps ==
    ASSUME ExecutorInv, NEW dev, NEW p, removeFromCache(dev, p)
    PROVE  ExecutorInv' /\ \A x \in DOMAIN wrapper : Survives(x)
<1> DEFINE outerKey == {k \in DOMAIN cache : k.dev = dev /\ k.prog = p}
           c == IF NDEBUG THEN Restrict(cache, DOMAIN cache \ outerKey) ELSE cache
<1>1. CountsInv' /\ Idle
  BY CallCounts, BoundsAssumption DEF removeFromCache, ExecutorInv, CountsInv
<1>2. /\ stack = <<>> /\ HeapTyped(wrapper, storage, latestVersion)
      /\ held \subseteq DOMAIN wrapper
      /\ CacheRefs(cache) \subseteq DOMAIN wrapper /\ CacheInv(cache)
  BY <1>1, IdleFacts
<1>3. Settle(wrapper, storage, held, c, stack) /\ latestVersion' = latestVersion
  BY DEF removeFromCache
<1>4. DOMAIN c \subseteq DOMAIN cache /\ \A k \in DOMAIN c : c[k] = cache[k]
  BY DEF Restrict
<1> HIDE DEF c
<1>5. CacheRefs(c) \subseteq DOMAIN wrapper /\ CacheInv(c)
  BY <1>2, <1>4 DEF CacheRefs, CacheInv
<1>6. /\ ExecutorInv'
      /\ \A x \in DOMAIN wrapper' : is_allocated(x)' <=> Alive(wrapper, storage, x)
  BY <1>1, <1>2, <1>3, <1>5, ClientSettles
<1> QED
  BY <1>6 DEF Survives, Alive, is_allocated

-----------------------------------------------------------------------------
(* Executors                                                               *)

\* A step that keeps what was alive keeps what an executor may rely on.
LEMMA OuterKeeps ==
    ASSUME NEW ws, NEW ss, NEW ws2, NEW ss2, Keeps(ws, ss, ws2, ss2),
           NEW fr, Outer(ws, ss, fr)
    PROVE  Outer(ws2, ss2, fr)
<1>1. FrameAlive(ws2, ss2, fr)
  BY DEF Outer, FrameAlive, Keeps, Alive
<1>2. ProgramOwns(ws2, fr)
  BY DEF Outer, FrameAlive, ProgramOwns, Keeps
<1> QED
  BY <1>1, <1>2 DEF Outer

\* The same for the executor of a const-eval function.
LEMMA NestedKeeps ==
    ASSUME NEW ws, NEW ss, NEW ws2, NEW ss2, Keeps(ws, ss, ws2, ss2),
           NEW caller, NEW fr, Nested(ws, ss, caller, fr)
    PROVE  Nested(ws2, ss2, caller, fr)
<1>1. FrameAlive(ws2, ss2, fr)
  BY DEF Nested, FrameAlive, Keeps, Alive
<1> QED
  BY <1>1 DEF Nested

\* Executor fr2 is fr after the operation at its program counter, with the
\* pool live.
Advanced(fr, fr2, live) ==
    /\ DOMAIN fr2 = Fields
    /\ fr2.pc = fr.pc + 1
    /\ fr2.fn = fr.fn /\ fr2.prog = fr.prog /\ fr2.inputs = fr.inputs
    /\ fr2.live = live

\* The fields of an executor after an operation.
LEMMA AdvancedFields ==
    ASSUME NEW fr, DOMAIN fr = Fields, NEW live,
           NEW fr1, fr1 = [fr EXCEPT !.live = live],
           NEW fr2, fr2 = [fr1 EXCEPT !.pc = @ + 1]
    PROVE  Advanced(fr, fr2, live)
  BY DEF Advanced, Fields

\* The pool live2 is live and the results outs, each in a new wrapper.
Extended(ws, ws2, ss2, live, live2, outs) ==
    /\ DOMAIN live2 = DOMAIN live \cup ToSet(outs)
    /\ \A v \in DOMAIN live : live2[v] = live[v]
    /\ \A v \in ToSet(outs) :
          /\ live2[v] \in DOMAIN ws2
          /\ live2[v] \notin DOMAIN ws
          /\ Alive(ws2, ss2, live2[v])
    /\ \A u, v \in ToSet(outs) : live2[u] = live2[v] => u = v

\* What the program counter says of the pool, after an operation other than
\* a deallocation.
LEMMA ExtendedFrame ==
    ASSUME NEW fr, FrameInv(fr), WellFormed(fr.fn), fr.pc <= Len(fr.fn.body),
           fr.fn.body[fr.pc].op # "deallocate",
           NEW ws, NEW ss, NEW ws2, NEW ss2, Keeps(ws, ss, ws2, ss2),
           FrameAlive(ws, ss, fr),
           NEW live, Extended(ws, ws2, ss2, fr.live, live, fr.fn.body[fr.pc].outs),
           NEW fr2, Advanced(fr, fr2, live)
    PROVE  /\ FrameInv(fr2)
           /\ FrameAlive(ws2, ss2, fr2)
           /\ \A v \in ToSet(fr.fn.body[fr.pc].outs) :
                 v \notin ToSet(fr.fn.params) /\ v \notin DOMAIN fr.live
<1> DEFINE f == fr.fn
           k == fr.pc
           outs == f.body[k].outs
<1>1. Len(f.body) \in Nat /\ DOMAIN f.body = 1 .. Len(f.body)
  BY SequenceFacts DEF WellFormed
<1>2. k \in DOMAIN f.body
  BY <1>1 DEF FrameInv
<1>3. /\ k + 1 \in 1 .. Len(f.body) + 1
      /\ liveBefore(f, k + 1) = liveBefore(f, k) \cup ToSet(outs)
  BY <1>2, LiveNext
<1>4. FrameInv(fr2)
  BY <1>3 DEF FrameInv, Advanced, Extended
<1>5. FrameAlive(ws2, ss2, fr2)
  <2> SUFFICES ASSUME NEW v \in DOMAIN live
               PROVE  live[v] \in DOMAIN ws2 /\ Alive(ws2, ss2, live[v])
    BY DEF FrameAlive, Alive, Advanced
  <2>1. CASE v \in DOMAIN fr.live
    BY <2>1 DEF Extended, FrameAlive, Keeps, Alive
  <2>2. CASE v \in ToSet(outs)
    BY <2>2 DEF Extended
  <2> QED
    BY <2>1, <2>2 DEF Extended
<1>6. ToSet(outs) \cap definedBefore(f, k) = {}
  BY <1>2 DEF WellFormed
<1>7. ToSet(f.params) \subseteq definedBefore(f, k)
        /\ liveBefore(f, k) \subseteq definedBefore(f, k)
  BY DEF definedBefore, liveBefore
<1> QED
  BY <1>4, <1>5, <1>6, <1>7 DEF FrameInv

\* A program gets the results of an operation.
LEMMA OuterExtends ==
    ASSUME NEW ws, NEW ss, NEW ws2, NEW ss2, Keeps(ws, ss, ws2, ss2),
           NEW fr, Outer(ws, ss, fr), WellFormed(fr.fn), fr.pc <= Len(fr.fn.body),
           fr.fn.body[fr.pc].op # "deallocate",
           NEW live, Extended(ws, ws2, ss2, fr.live, live, fr.fn.body[fr.pc].outs),
           NEW fr2, Advanced(fr, fr2, live)
    PROVE  Outer(ws2, ss2, fr2)
<1> DEFINE outs == fr.fn.body[fr.pc].outs
<1>1. /\ FrameInv(fr2) /\ FrameAlive(ws2, ss2, fr2)
      /\ \A v \in ToSet(outs) : v \notin DOMAIN fr.live
  BY ExtendedFrame DEF Outer
<1>2. ASSUME NEW u \in DOMAIN live, NEW v \in DOMAIN live,
             u # v, live[u] = live[v]
      PROVE  ws2[live[u]].retain
  <2>1. CASE u \in DOMAIN fr.live /\ v \in DOMAIN fr.live
    <3>1. live[u] = fr.live[u] /\ live[v] = fr.live[v]
      BY <2>1 DEF Extended
    <3>2. ws[fr.live[u]].retain
      BY <1>2, <2>1, <3>1 DEF Outer, ProgramOwns
    <3>3. ws2[fr.live[u]] = ws[fr.live[u]]
      BY <2>1 DEF Outer, FrameAlive, Keeps
    <3> QED
      BY <3>1, <3>2, <3>3
  <2>2. CASE u \in DOMAIN fr.live /\ v \in ToSet(outs)
    BY <1>2, <2>2 DEF Outer, FrameAlive, Extended
  <2>3. CASE v \in DOMAIN fr.live /\ u \in ToSet(outs)
    BY <1>2, <2>3 DEF Outer, FrameAlive, Extended
  <2>4. CASE u \in ToSet(outs) /\ v \in ToSet(outs)
    BY <1>2, <2>4 DEF Extended
  <2> QED
    BY <2>1, <2>2, <2>3, <2>4 DEF Extended
<1>3. ProgramOwns(ws2, fr2)
  BY <1>2 DEF ProgramOwns, Advanced
<1> QED
  BY <1>1, <1>3 DEF Outer, Advanced

\* A const-eval function gets the results of an operation, which its caller
\* does not have.
LEMMA NestedExtends ==
    ASSUME NEW ws, NEW ss, NEW ws2, NEW ss2, Keeps(ws, ss, ws2, ss2),
           NEW caller, FrameAlive(ws, ss, caller),
           NEW fr, Nested(ws, ss, caller, fr), WellFormed(fr.fn),
           fr.pc <= Len(fr.fn.body), fr.fn.body[fr.pc].op # "deallocate",
           NEW live, Extended(ws, ws2, ss2, fr.live, live, fr.fn.body[fr.pc].outs),
           NEW fr2, Advanced(fr, fr2, live)
    PROVE  Nested(ws2, ss2, caller, fr2)
<1> DEFINE outs == fr.fn.body[fr.pc].outs
<1>1. /\ FrameInv(fr2) /\ FrameAlive(ws2, ss2, fr2)
      /\ \A v \in ToSet(outs) : v \notin ToSet(fr.fn.params)
  BY ExtendedFrame DEF Nested
<1>2. Range(caller.live) \subseteq DOMAIN ws
  BY DEF FrameAlive, Range
<1>3. ASSUME NEW v \in DOMAIN live
      PROVE  IF v \in ToSet(fr.fn.params)
             THEN live[v] \in Range(caller.live)
             ELSE /\ live[v] \notin Range(caller.live)
                  /\ \A u \in DOMAIN live : live[u] = live[v] => u = v
  <2>1. CASE v \in ToSet(outs)
    <3>1. \A u \in DOMAIN fr.live : live[u] \in DOMAIN ws
      BY DEF Extended, Nested, FrameAlive
    <3> QED
      BY <1>1, <1>2, <2>1, <3>1 DEF Extended
  <2>2. CASE v \in DOMAIN fr.live
    <3>1. live[v] = fr.live[v] /\ live[v] \in DOMAIN ws
      BY <2>2 DEF Extended, Nested, FrameAlive
    <3>2. \A u \in DOMAIN live :
             live[u] = live[v] => u \in DOMAIN fr.live /\ fr.live[u] = fr.live[v]
      BY <3>1 DEF Extended
    <3> QED
      BY <2>2, <3>1, <3>2 DEF Nested, ConstEvalOwns
  <2> QED
    BY <2>1, <2>2 DEF Extended
<1>4. ConstEvalOwns(caller, fr2)
  BY <1>3 DEF ConstEvalOwns, Advanced
<1> QED
  BY <1>1, <1>4 DEF Nested, Advanced

\* The executor that runs is a program's, or a const-eval function's that a
\* program called.
LEMMA RunningStack ==
    ASSUME ExecutorInv, Running
    PROVE  \/ /\ Len(stack) = 1 /\ stack = <<Top>>
              /\ Outer(wrapper, storage, Top)
           \/ /\ Len(stack) = 2 /\ stack = <<stack[1], Top>>
              /\ Outer(wrapper, storage, stack[1])
              /\ Nested(wrapper, storage, stack[1], Top)
<1>1. CASE stack = <<stack[1]>> /\ Outer(wrapper, storage, stack[1])
  <2>1. Len(stack) = 1
    BY <1>1
  <2>2. Top = stack[1]
    BY <2>1 DEF Top
  <2> QED
    BY <1>1, <2>1, <2>2
<1>2. CASE /\ stack = <<stack[1], stack[2]>>
           /\ Outer(wrapper, storage, stack[1])
           /\ Nested(wrapper, storage, stack[1], stack[2])
  <2>1. Len(stack) = 2
    BY <1>2
  <2>2. Top = stack[2]
    BY <2>1 DEF Top
  <2> QED
    BY <1>2, <2>1, <2>2
<1> QED
  BY <1>1, <1>2 DEF ExecutorInv, StackInv, Running

\* Two executors: a program and the const-eval function it waits for.
LEMMA NestedStack ==
    ASSUME ExecutorInv, Running, Len(stack) > 1
    PROVE  /\ Len(stack) = 2 /\ stack = <<stack[1], Top>>
           /\ Outer(wrapper, storage, stack[1])
           /\ Nested(wrapper, storage, stack[1], Top)
<1>1. ~(1 > 1)
  OBVIOUS
<1>2. Len(stack) # 1
  BY <1>1, Zenon
<1> QED
  BY <1>2, RunningStack, Zenon

\* What every executor may rely on.
LEMMA TopFacts ==
    ASSUME ProgramsWellFormed, ExecutorInv, Running
    PROVE  /\ FrameInv(Top)
           /\ FrameAlive(wrapper, storage, Top)
           /\ WellFormed(Top.fn)
           /\ Len(stack) = 2 => Top.fn.constEval
           /\ FrameRefs(Top) \subseteq DOMAIN wrapper
<1>1. FrameRefs(Top) \subseteq DOMAIN wrapper
  <2>1. Len(stack) \in DOMAIN stack
    <3>1. CASE stack = <<stack[1]>>
      BY <3>1
    <3>2. CASE stack = <<stack[1], stack[2]>>
      BY <3>2
    <3> QED
      BY <3>1, <3>2 DEF ExecutorInv, StackInv, Running
  <2>2. \A x \in FrameRefs(Top) : x \in Referenced(held, cache, stack)
    BY <2>1, InReferenced DEF Top
  <2> QED
    BY <2>2 DEF ExecutorInv, HeapInv
<1>2. CASE /\ Len(stack) = 1 /\ stack = <<Top>>
           /\ Outer(wrapper, storage, Top)
  <2>1. WellFormed(Top.fn)
    BY <1>2 DEF Outer, ProgramsWellFormed
  <2> QED
    BY <1>2, <1>1, <2>1 DEF Outer
<1>3. CASE /\ Len(stack) = 2 /\ stack = <<stack[1], Top>>
           /\ Outer(wrapper, storage, stack[1])
           /\ Nested(wrapper, storage, stack[1], Top)
  <2> DEFINE a == stack[1]
             o == a.fn.body[a.pc]
  <2>1. WellFormed(a.fn) /\ a.pc \in DOMAIN a.fn.body
    <3>1. WellFormed(a.fn)
      BY <1>3 DEF Outer, ProgramsWellFormed
    <3>2. DOMAIN a.fn.body = 1 .. Len(a.fn.body) /\ Len(a.fn.body) \in Nat
      BY <3>1, SequenceFacts DEF WellFormed
    <3> QED
      BY <1>3, <3>1, <3>2 DEF Outer, Nested, FrameInv
  <2>2. o.name \in DOMAIN ConstEval
    BY <1>3, <2>1 DEF WellFormed, Nested
  <2>3. WellFormed(Top.fn) /\ Top.fn.constEval
    BY <1>3, <2>2 DEF Nested, ProgramsWellFormed
  <2> QED
    BY <1>3, <1>1, <2>3 DEF Nested
<1> QED
  BY <1>2, <1>3, RunningStack

\* The operation that runs.
LEMMA OpFacts ==
    ASSUME ProgramsWellFormed, ExecutorInv, Running, ~AtEnd(Top)
    PROVE  /\ Top.pc \in DOMAIN Top.fn.body
           /\ Top.pc <= Len(Top.fn.body)
           /\ Op = Top.fn.body[Top.pc]
           /\ isSequence(Op.ins) /\ isSequence(Op.outs)
           /\ ToSet(Op.ins) \subseteq DOMAIN Top.live
<1>1. FrameInv(Top) /\ WellFormed(Top.fn)
  BY TopFacts
<1>2. DOMAIN Top.fn.body = 1 .. Len(Top.fn.body) /\ Len(Top.fn.body) \in Nat
  BY <1>1, SequenceFacts DEF WellFormed
<1>3. Top.pc \in DOMAIN Top.fn.body /\ Top.pc <= Len(Top.fn.body)
  BY <1>1, <1>2 DEF FrameInv, AtEnd
<1> QED
  BY <1>1, <1>3 DEF FrameInv, WellFormed, Op

\* A step of an executor ends with the destruction of what it let go.
LEMMA RunSettles ==
    ASSUME NEW ws, NEW ss, NEW h, NEW c, NEW stk,
           HeapTyped(ws, ss, latestVersion'),
           Referenced(h, c, stk) \subseteq DOMAIN ws,
           CacheInv(c), StackInv(ws, ss, stk), CountsInv',
           Settle(ws, ss, h, c, stk)
    PROVE  /\ ExecutorInv'
           /\ \A w \in DOMAIN wrapper' :
                 w \in DOMAIN ws /\ (is_allocated(w)' <=> Alive(ws, ss, w))
<1>1. /\ HeapInv' /\ cache' = c /\ stack' = stk
      /\ DOMAIN wrapper' = Referenced(h, c, stk)
      /\ \A w \in Referenced(h, c, stk) :
            wrapper'[w] = ws[w] /\ storage'[ws[w].tensor] = ss[ws[w].tensor]
  BY SettleHeap
<1>2. ASSUME NEW n \in DOMAIN stk
      PROVE  /\ FrameAlive(ws, ss, stk[n]) => FrameAlive(wrapper', storage', stk[n])
             /\ FrameAlive(ws, ss, stk[n]) /\ ProgramOwns(ws, stk[n]) =>
                   ProgramOwns(wrapper', stk[n])
  <2>1. \A v \in DOMAIN stk[n].live : stk[n].live[v] \in Referenced(h, c, stk)
    BY InReferenced DEF FrameRefs, Range
  <2>2. FrameAlive(ws, ss, stk[n]) => FrameAlive(wrapper', storage', stk[n])
    BY <1>1, <2>1 DEF FrameAlive
  <2>3. FrameAlive(ws, ss, stk[n]) /\ ProgramOwns(ws, stk[n]) =>
           ProgramOwns(wrapper', stk[n])
    BY <1>1, <2>1 DEF ProgramOwns
  <2> QED
    BY <2>2, <2>3
<1>3. StackInv(wrapper', storage', stk)
  <2>1. CASE stk = <<>>
    BY <2>1 DEF StackInv
  <2>2. CASE stk = <<stk[1]>> /\ Outer(ws, ss, stk[1])
    <3>1. 1 \in DOMAIN stk
      BY <2>2
    <3>2. Outer(wrapper', storage', stk[1])
      BY <1>2, <2>2, <3>1 DEF Outer
    <3> QED
      BY <2>2, <3>2 DEF StackInv
  <2>3. CASE /\ stk = <<stk[1], stk[2]>> /\ Outer(ws, ss, stk[1])
             /\ Nested(ws, ss, stk[1], stk[2])
    <3>1. 1 \in DOMAIN stk /\ 2 \in DOMAIN stk
      BY <2>3
    <3>2. Outer(wrapper', storage', stk[1])
      BY <1>2, <2>3, <3>1 DEF Outer
    <3>3. Nested(wrapper', storage', stk[1], stk[2])
      BY <1>2, <2>3, <3>1 DEF Nested
    <3> QED
      BY <2>3, <3>2, <3>3 DEF StackInv
  <2> QED
    BY <2>1, <2>2, <2>3 DEF StackInv
<1>4. CacheInv(cache')
  BY <1>1
<1>5. ExecutorInv'
  BY <1>1, <1>3, <1>4 DEF ExecutorInv
<1> QED
  BY <1>1, <1>5 DEF is_allocated, Alive

\* Whatever has the handles of the client, the cache and the executors has
\* all that is referred to.
LEMMA RefsWithin ==
    ASSUME NEW h, NEW c, NEW stk, NEW D,
           h \subseteq D, CacheRefs(c) \subseteq D,
           \A n \in DOMAIN stk : FrameRefs(stk[n]) \subseteq D
    PROVE  Referenced(h, c, stk) \subseteq D
  BY InReferenced

\* The converse, in a state.
LEMMA RefsInHeap ==
    ASSUME ExecutorInv
    PROVE  /\ held \subseteq DOMAIN wrapper
           /\ CacheRefs(cache) \subseteq DOMAIN wrapper
           /\ \A n \in DOMAIN stack : FrameRefs(stack[n]) \subseteq DOMAIN wrapper
  BY InReferenced DEF ExecutorInv, HeapInv

\* Executors that refer to nothing new keep what is referred to.
LEMMA SameRefs ==
    ASSUME NEW h, NEW c, NEW stk, NEW stk2,
           \A n \in DOMAIN stk2 : FrameRefs(stk2[n]) \subseteq Referenced(h, c, stk),
           \A n \in DOMAIN stk : n \in DOMAIN stk2 /\ FrameRefs(stk2[n]) = FrameRefs(stk[n])
    PROVE  Referenced(h, c, stk2) = Referenced(h, c, stk)
<1>1. ASSUME NEW x
      PROVE  x \in Referenced(h, c, stk2) <=> x \in Referenced(h, c, stk)
  BY InReferenced
<1> QED
  BY <1>1

\* The stack of a program and its callee.
LEMMA AppendOne == ASSUME NEW a, NEW b PROVE Append(<<a>>, b) = <<a, b>>
<1> DEFINE s == Append(<<a>>, b)
<1>1. <<a>> \in Seq({a, b}) /\ b \in {a, b} /\ Len(<<a>>) = 1
  OBVIOUS
<1>2. s \in Seq({a, b}) /\ Len(s) = 2
  BY <1>1
<1>3. s[1] = a /\ s[2] = b
  BY <1>1
<1> HIDE DEF s
<1>4. s = <<a, b>>
  BY <1>2, <1>3
<1> QED
  BY <1>4 DEF s

\* The stack after a step of its innermost executor, from what that executor
\* and its caller then rely on.
LEMMA StackOfTop ==
    ASSUME ExecutorInv, Running, NEW ws, NEW ss, NEW fr2,
           NEW stk, stk = [stack EXCEPT ![Len(stack)] = fr2],
           Len(stack) = 1 => Outer(ws, ss, fr2),
           Len(stack) = 2 => /\ Outer(ws, ss, stack[1])
                             /\ Nested(ws, ss, stack[1], fr2),
           DOMAIN wrapper \subseteq DOMAIN ws,
           FrameRefs(fr2) \subseteq DOMAIN ws
    PROVE  /\ StackInv(ws, ss, stk)
           /\ Referenced(held, cache, stk) \subseteq DOMAIN ws
<1>1. /\ held \subseteq DOMAIN ws /\ CacheRefs(cache) \subseteq DOMAIN ws
      /\ \A n \in DOMAIN stack : FrameRefs(stack[n]) \subseteq DOMAIN ws
  BY RefsInHeap
<1>2. CASE Len(stack) = 1 /\ stack = <<stack[1]>>
  <2>1. stk = <<fr2>>
    BY <1>2
  <2>2. stk = <<stk[1]>> /\ stk[1] = fr2
    BY <2>1
  <2>3. DOMAIN stk = {1}
    BY <2>1
  <2>4. StackInv(ws, ss, stk)
    BY <1>2, <2>2 DEF StackInv
  <2>5. \A n \in DOMAIN stk : FrameRefs(stk[n]) \subseteq DOMAIN ws
    BY <2>2, <2>3
  <2>6. Referenced(held, cache, stk) \subseteq DOMAIN ws
    BY <1>1, <2>5, RefsWithin
  <2> QED
    BY <2>4, <2>6
<1>3. CASE Len(stack) = 2 /\ stack = <<stack[1], stack[2]>>
  <2>1. stk = <<stack[1], fr2>>
    BY <1>3
  <2>2. stk = <<stk[1], stk[2]>> /\ stk[1] = stack[1] /\ stk[2] = fr2
    BY <2>1
  <2>3. DOMAIN stk = {1, 2} /\ 1 \in DOMAIN stack
    BY <1>3, <2>1
  <2>4. StackInv(ws, ss, stk)
    BY <1>3, <2>2 DEF StackInv
  <2>5. \A n \in DOMAIN stk : FrameRefs(stk[n]) \subseteq DOMAIN ws
    BY <1>1, <2>2, <2>3
  <2>6. Referenced(held, cache, stk) \subseteq DOMAIN ws
    BY <1>1, <2>5, RefsWithin
  <2> QED
    BY <2>4, <2>6
<1>4. \/ Len(stack) = 1 /\ stack = <<stack[1]>>
      \/ Len(stack) = 2 /\ stack = <<stack[1], stack[2]>>
  <2>1. CASE stack = <<stack[1]>>
    <3>1. Len(stack) = 1
      BY <2>1
    <3> QED
      BY <2>1, <3>1
  <2>2. CASE stack = <<stack[1], stack[2]>>
    <3>1. Len(stack) = 2
      BY <2>2
    <3> QED
      BY <2>2, <3>1
  <2> QED
    BY <2>1, <2>2 DEF ExecutorInv, StackInv, Running
<1> QED
  BY <1>2, <1>3, <1>4

\* What the client's retained tensors and the counters are after a step of an
\* executor.
LEMMA KeptSurvive ==
    ASSUME ExecutorInv, NEW ws, NEW ss, Keeps(wrapper, storage, ws, ss),
           \A w \in DOMAIN wrapper' : is_allocated(w)' <=> Alive(ws, ss, w)
    PROVE  \A w \in DOMAIN wrapper : Survives(w)
  BY DEF Survives, Keeps, Alive, is_allocated

\* A step of an executor counts as no call.
LEMMA SameCounts ==
    ASSUME ExecutorInv, UNCHANGED <<calls, submits, aborted>>
    PROVE  CountsInv'
  BY DEF ExecutorInv, CountsInv

\* An operation that adds its results to the pool, in new wrappers: the stack
\* that it leaves.
LEMMA ExtendedStack ==
    ASSUME ProgramsWellFormed, ExecutorInv, Running, ~AtEnd(Top),
           Op.op # "deallocate",
           NEW ws, NEW ss, Keeps(wrapper, storage, ws, ss),
           NEW live, Extended(wrapper, ws, ss, Top.live, live, Op.outs),
           NEW fr2, Advanced(Top, fr2, live),
           NEW stk, stk = [stack EXCEPT ![Len(stack)] = fr2]
    PROVE  /\ StackInv(ws, ss, stk)
           /\ Referenced(held, cache, stk) \subseteq DOMAIN ws
<1>1. /\ FrameInv(Top) /\ WellFormed(Top.fn)
      /\ FrameAlive(wrapper, storage, Top)
      /\ FrameRefs(Top) \subseteq DOMAIN wrapper
  BY TopFacts
<1>2. /\ Top.pc <= Len(Top.fn.body)
      /\ Op = Top.fn.body[Top.pc]
  BY OpFacts
<1>3. Len(stack) = 1 => Outer(ws, ss, fr2)
  <2> SUFFICES ASSUME Len(stack) = 1 PROVE Outer(ws, ss, fr2)
    OBVIOUS
  <2>1. Outer(wrapper, storage, Top)
    BY RunningStack
  <2> QED
    BY <1>1, <1>2, <2>1, OuterExtends
<1>4. Len(stack) = 2 => Outer(ws, ss, stack[1]) /\ Nested(ws, ss, stack[1], fr2)
  <2> SUFFICES ASSUME Len(stack) = 2
               PROVE  Outer(ws, ss, stack[1]) /\ Nested(ws, ss, stack[1], fr2)
    OBVIOUS
  <2>1. /\ Outer(wrapper, storage, stack[1])
        /\ Nested(wrapper, storage, stack[1], Top)
    BY RunningStack
  <2>2. Outer(ws, ss, stack[1])
    BY <2>1, OuterKeeps
  <2>3. Nested(ws, ss, stack[1], fr2)
    BY <1>1, <1>2, <2>1, NestedExtends DEF Outer
  <2> QED
    BY <2>2, <2>3
<1>5. DOMAIN wrapper \subseteq DOMAIN ws
  BY DEF Keeps
<1>6. FrameRefs(fr2) \subseteq DOMAIN ws
  <2>1. fr2.inputs = Top.inputs /\ fr2.live = live
    BY DEF Advanced
  <2>2. ToSet(fr2.inputs) \subseteq DOMAIN ws
    BY <1>1, <1>5, <2>1 DEF FrameRefs
  <2>3. \A v \in DOMAIN live : live[v] \in DOMAIN ws
    BY <1>1, <1>5 DEF Extended, FrameAlive
  <2> QED
    BY <2>1, <2>2, <2>3 DEF FrameRefs, Range
<1> QED
  BY <1>3, <1>4, <1>5, <1>6, StackOfTop

\* A step of the innermost executor that adds new tensors to its pool.
LEMMA TopPasses ==
    ASSUME NEW fr2, stack' = [stack EXCEPT ![Len(stack)] = fr2],
           held' = held, cache' = cache, fr2.fn = Top.fn,
           \A v \in DOMAIN fr2.live :
              \/ fr2.live[v] \notin DOMAIN wrapper
              \/ v \in DOMAIN Top.live /\ fr2.live[v] = Top.live[v]
    PROVE  Passes
<1>1. DOMAIN stack' = DOMAIN stack
  OBVIOUS
<1>2. ASSUME NEW n \in DOMAIN stack
      PROVE  /\ stack'[n].fn = stack[n].fn
             /\ \A v \in DOMAIN stack'[n].live :
                   \/ stack'[n].live[v] \notin DOMAIN wrapper
                   \/ v \in DOMAIN stack[n].live /\ stack'[n].live[v] = stack[n].live[v]
  <2>1. CASE n = Len(stack)
    <3>1. stack'[n] = fr2 /\ stack[n] = Top
      BY <2>1 DEF Top
    <3> QED
      BY <3>1
  <2>2. CASE n # Len(stack)
    <3>1. stack'[n] = stack[n]
      BY <2>2
    <3> QED
      BY <3>1
  <2> QED
    BY <2>1, <2>2
<1>3. \A n \in DOMAIN stack' : \A v \in DOMAIN stack'[n].live : Passed(stack'[n].live[v])
  BY <1>1, <1>2 DEF Passed, InPool, Range
<1>4. \A w \in held' : Passed(w)
  BY DEF Passed
<1> QED
  BY <1>1, <1>2, <1>3, <1>4 DEF Passes

\* Such an operation, from the heap that it leaves.
LEMMA RunExtends ==
    ASSUME ProgramsWellFormed, ExecutorInv, Running, ~AtEnd(Top),
           Op.op # "deallocate", UNCHANGED <<calls, submits, aborted>>,
           NEW ws, NEW ss, HeapTyped(ws, ss, latestVersion'),
           Keeps(wrapper, storage, ws, ss),
           NEW live, Extended(wrapper, ws, ss, Top.live, live, Op.outs),
           NEW fr, fr = [Top EXCEPT !.live = live],
           Settle(ws, ss, held, cache, Resume(fr))
    PROVE  ExecutorInv' /\ Passes /\ \A w \in DOMAIN wrapper : Survives(w)
<1> DEFINE fr2 == [fr EXCEPT !.pc = @ + 1]
           stk == Resume(fr)
<1>1. Advanced(Top, fr2, live)
  BY TopFacts, AdvancedFields DEF FrameInv
<1>2. stk = [stack EXCEPT ![Len(stack)] = fr2] /\ Settle(ws, ss, held, cache, stk)
  BY DEF Resume
<1> HIDE DEF fr2, stk
<1>3. StackInv(ws, ss, stk) /\ Referenced(held, cache, stk) \subseteq DOMAIN ws
  BY <1>1, <1>2, ExtendedStack
<1>4. CacheInv(cache) /\ CountsInv'
  BY SameCounts DEF ExecutorInv
<1>5. /\ ExecutorInv'
      /\ \A w \in DOMAIN wrapper' : is_allocated(w)' <=> Alive(ws, ss, w)
  BY <1>2, <1>3, <1>4, RunSettles
<1>6. Passes
  <2>1. stack' = stk /\ held' = held /\ cache' = cache
    BY <1>2 DEF Settle
  <2>2. fr2.fn = Top.fn /\ fr2.live = live
    BY <1>1 DEF Advanced
  <2>3. \A v \in DOMAIN live :
           live[v] \notin DOMAIN wrapper \/ (v \in DOMAIN Top.live /\ live[v] = Top.live[v])
    BY DEF Extended
  <2> QED
    BY <1>2, <2>1, <2>2, <2>3, TopPasses
<1> QED
  BY <1>5, <1>6, KeptSurvive

\* The results of an operation are not in the pool yet.
LEMMA NewResults ==
    ASSUME ProgramsWellFormed, ExecutorInv, Running, ~AtEnd(Top)
    PROVE  ToSet(Op.outs) \cap DOMAIN Top.live = {}
<1>1. FrameInv(Top) /\ WellFormed(Top.fn)
  BY TopFacts
<1>2. Top.pc \in DOMAIN Top.fn.body /\ Op = Top.fn.body[Top.pc]
  BY OpFacts
<1>3. ToSet(Op.outs) \cap definedBefore(Top.fn, Top.pc) = {}
  BY <1>1, <1>2 DEF WellFormed
<1> QED
  BY <1>1, <1>3 DEF FrameInv, liveBefore

\* insertTTNNTensorAndValidate of the one result of an operation.
LEMMA ExtendedByOne ==
    ASSUME ProgramsWellFormed, ExecutorInv, Running, ~AtEnd(Top),
           Op.op \in {"compute", "view"},
           NEW ws, NEW ss, DOMAIN ws = DOMAIN wrapper \cup {latestVersion},
           Alive(ws, ss, latestVersion),
           NEW live, live = With(Top.live, Op.outs[1], latestVersion)
    PROVE  Extended(wrapper, ws, ss, Top.live, live, Op.outs)
<1> DEFINE x == Op.outs[1]
<1>1. WellFormed(Top.fn)
  BY TopFacts
<1>2. Top.pc \in DOMAIN Top.fn.body /\ Op = Top.fn.body[Top.pc] /\ isSequence(Op.outs)
  BY OpFacts
<1>3. Len(Op.outs) = 1
  BY <1>1, <1>2 DEF WellFormed
<1>4. DOMAIN Op.outs = {1}
  BY <1>2, <1>3, SequenceFacts
<1>5. ToSet(Op.outs) = {x}
  BY <1>4 DEF ToSet
<1>6. x \notin DOMAIN Top.live
  BY <1>5, NewResults
<1>7. latestVersion \notin DOMAIN wrapper
  BY DEF ExecutorInv, HeapInv, HeapTyped
<1>8. DOMAIN live = DOMAIN Top.live \cup {x}
  BY DEF With
<1>9. live[x] = latestVersion /\ \A v \in DOMAIN Top.live : live[v] = Top.live[v]
  BY <1>6 DEF With
<1> HIDE DEF x
<1> QED
  BY <1>5, <1>7, <1>8, <1>9 DEF Extended

\* The result of an operation has a storage of its own.
LEMMA runComputeKeeps ==
    ASSUME ProgramsWellFormed, ExecutorInv, runCompute
    PROVE  ExecutorInv' /\ Passes /\ \A w \in DOMAIN wrapper : Survives(w)
<1> DEFINE v == latestVersion
           r == FALSE
           t == freshStorage
           data == Term(Op.name, Top.dev, [n \in DOMAIN Op.ins |-> contents(Arg(n))])
           ws == With(wrapper, v, TTNNTensorWrapper(t, r, v))
           ss == With(storage, t, allocatedWith(data))
           live == With(Top.live, Op.outs[1], v)
           fr == [Top EXCEPT !.live = live]
<1>1. /\ Running /\ ~AtEnd(Top) /\ Op.op = "compute"
      /\ UNCHANGED <<calls, submits, aborted>>
      /\ latestVersion' = latestVersion + 1
  BY DEF runCompute, runOperation
<1>2. Settle(ws, ss, held, cache, Resume(fr))
  BY DEF runCompute
<1>3. /\ r \in BOOLEAN
      /\ ws = With(wrapper, latestVersion, TTNNTensorWrapper(t, r, latestVersion))
      /\ ss = With(storage, t, allocatedWith(data))
  OBVIOUS
<1>4. live = With(Top.live, Op.outs[1], latestVersion) /\ fr = [Top EXCEPT !.live = live]
  OBVIOUS
<1>5. HeapTyped(wrapper, storage, latestVersion)
  BY DEF ExecutorInv, HeapInv
<1> HIDE DEF r, t, data, ws, ss, live, fr
<1>6. HeapTyped(ws, ss, latestVersion')
  BY <1>1, <1>3, <1>5, NewTensor
<1>7. Keeps(wrapper, storage, ws, ss) /\ Alive(ws, ss, latestVersion)
  BY <1>1, <1>3, <1>5, NewTensor
<1>8. DOMAIN ws = DOMAIN wrapper \cup {latestVersion}
  BY <1>3 DEF With
<1>9. Extended(wrapper, ws, ss, Top.live, live, Op.outs)
  BY <1>1, <1>4, <1>7, <1>8, ExtendedByOne
<1> QED
  BY <1>1, <1>2, <1>4, <1>6, <1>7, <1>9, RunExtends

\* The first operand of an operation that has one.
LEMMA FirstOperand ==
    ASSUME ProgramsWellFormed, ExecutorInv, Running, ~AtEnd(Top),
           Op.op \in {"view", "inplace", "deallocate"}
    PROVE  /\ Op.ins[1] \in DOMAIN Top.live
           /\ Arg(1) = Top.live[Op.ins[1]]
           /\ Arg(1) \in DOMAIN wrapper
           /\ wrapper[Arg(1)].tensor \in DOMAIN storage
           /\ Alive(wrapper, storage, Arg(1))
<1>1. WellFormed(Top.fn) /\ FrameAlive(wrapper, storage, Top)
  BY TopFacts
<1>2. /\ Top.pc \in DOMAIN Top.fn.body /\ Op = Top.fn.body[Top.pc]
      /\ isSequence(Op.ins) /\ ToSet(Op.ins) \subseteq DOMAIN Top.live
  BY OpFacts
<1>3. Len(Op.ins) \in Nat /\ DOMAIN Op.ins = 1 .. Len(Op.ins)
  BY <1>2, SequenceFacts
<1>4. Len(Op.ins) # 0
  <2>1. CASE Op.op = "deallocate"
    <3>1. Len(Op.ins) = 1
      BY <1>1, <1>2, <2>1, Zenon DEF WellFormed
    <3> QED
      BY <3>1
  <2>2. CASE Op.op \in {"view", "inplace"}
    <3>1. Op.ins # <<>>
      BY <1>1, <1>2, <2>2 DEF WellFormed
    <3> QED
      BY <1>2, <3>1 DEF isSequence
  <2> QED
    BY <2>1, <2>2
<1>5. Op.ins[1] \in DOMAIN Top.live
  BY <1>2, <1>3, <1>4 DEF ToSet
<1> QED
  BY <1>1, <1>5 DEF Arg, FrameAlive, Alive, ExecutorInv, HeapInv, HeapTyped

\* A view shares the storage of its operand.
LEMMA runViewKeeps ==
    ASSUME ProgramsWellFormed, ExecutorInv, runView
    PROVE  ExecutorInv' /\ Passes /\ \A w \in DOMAIN wrapper : Survives(w)
<1> DEFINE v == latestVersion
           r == FALSE
           t == wrapper[Arg(1)].tensor
           ws == With(wrapper, v, TTNNTensorWrapper(t, r, v))
           live == With(Top.live, Op.outs[1], v)
           fr == [Top EXCEPT !.live = live]
<1>1. /\ Running /\ ~AtEnd(Top) /\ Op.op = "view"
      /\ UNCHANGED <<calls, submits, aborted>>
      /\ latestVersion' = latestVersion + 1
  BY DEF runView, runOperation
<1>2. Settle(ws, storage, held, cache, Resume(fr))
  BY DEF runView
<1>3. /\ r \in BOOLEAN
      /\ ws = With(wrapper, latestVersion, TTNNTensorWrapper(t, r, latestVersion))
  OBVIOUS
<1>4. live = With(Top.live, Op.outs[1], latestVersion) /\ fr = [Top EXCEPT !.live = live]
  OBVIOUS
<1>5. HeapTyped(wrapper, storage, latestVersion)
  BY DEF ExecutorInv, HeapInv
<1>6. t \in DOMAIN storage /\ storage[t].allocated
  BY <1>1, FirstOperand DEF Alive
<1> HIDE DEF r, t, ws, live, fr
<1>7. HeapTyped(ws, storage, latestVersion')
  BY <1>1, <1>3, <1>5, <1>6, NewView
<1>8. Keeps(wrapper, storage, ws, storage) /\ ws[latestVersion].tensor = t
  BY <1>1, <1>3, <1>5, <1>6, NewView
<1>9. DOMAIN ws = DOMAIN wrapper \cup {latestVersion}
  BY <1>3 DEF With
<1>10. Extended(wrapper, ws, storage, Top.live, live, Op.outs)
  <2>1. Alive(ws, storage, latestVersion)
    BY <1>6, <1>8 DEF Alive
  <2> QED
    BY <1>1, <1>4, <1>9, <2>1, ExtendedByOne
<1> QED
  BY <1>1, <1>2, <1>4, <1>7, <1>8, <1>10, RunExtends

\* An operation with no results, at the end of which the pool is the same.
LEMMA runInplaceKeeps ==
    ASSUME ProgramsWellFormed, ExecutorInv, runInplace
    PROVE  ExecutorInv' /\ Passes /\ \A w \in DOMAIN wrapper : Survives(w)
<1> DEFINE t == wrapper[Arg(1)].tensor
           d == Term(Op.name, Top.dev, [n \in DOMAIN Op.ins |-> contents(Arg(n))])
           fr2 == [Top EXCEPT !.pc = @ + 1]
<1>1. /\ Running /\ ~AtEnd(Top) /\ Op.op = "inplace"
      /\ UNCHANGED <<wrapper, latestVersion, held, cache, calls, submits, aborted>>
  BY DEF runInplace, runOperation
<1>2. storage' = [storage EXCEPT ![t].data = d]
  BY DEF runInplace
<1>3. stack' = [stack EXCEPT ![Len(stack)] = fr2]
  BY DEF runInplace, Resume
<1>4. HeapTyped(wrapper, storage, latestVersion) /\ FrameInv(Top) /\ WellFormed(Top.fn)
  BY <1>1, TopFacts DEF ExecutorInv, HeapInv
<1>5. Advanced(Top, fr2, Top.live)
  BY <1>4 DEF Advanced, FrameInv, Fields
<1> HIDE DEF t, d, fr2
<1>6. HeapTyped(wrapper, storage', latestVersion)
  BY <1>2, <1>4, WriteHeap
<1>7. \A s \in DOMAIN storage : storage'[s].allocated = storage[s].allocated
  BY <1>2, <1>4, WriteHeap
<1>8. DOMAIN storage' = DOMAIN storage
  BY <1>2
<1>9. Keeps(wrapper, storage, wrapper, storage')
  BY <1>4, <1>7 DEF Keeps, Alive, HeapTyped
<1>10. Extended(wrapper, wrapper, storage', Top.live, Top.live, Op.outs)
  <2>1. Top.pc \in DOMAIN Top.fn.body /\ Op = Top.fn.body[Top.pc]
    BY <1>1, OpFacts
  <2>2. Op.outs = <<>>
    BY <1>1, <1>4, <2>1 DEF WellFormed
  <2>3. ToSet(Op.outs) = {}
    BY <2>2 DEF ToSet
  <2> QED
    BY <2>3 DEF Extended
<1>11. StackInv(wrapper, storage', stack')
  BY <1>1, <1>3, <1>5, <1>9, <1>10, ExtendedStack
<1>12. Referenced(held, cache, stack') = Referenced(held, cache, stack)
  <2>1. FrameRefs(fr2) = FrameRefs(Top)
    BY <1>5 DEF FrameRefs, Advanced
  <2>2. DOMAIN stack' = DOMAIN stack
    BY <1>3
  <2>3. \A n \in DOMAIN stack : FrameRefs(stack'[n]) = FrameRefs(stack[n])
    BY <1>3, <2>1 DEF Top
  <2>4. \A x : x \in Referenced(held, cache, stack') <=>
                  x \in Referenced(held, cache, stack)
    BY <2>2, <2>3, InReferenced
  <2> QED
    BY <2>4
<1>13. HeapInv'
  BY <1>1, <1>6, <1>8, <1>12 DEF HeapInv, ExecutorInv
<1>14. ExecutorInv'
  <2>1. CountsInv' /\ CacheInv(cache') /\ StackInv(wrapper', storage', stack')
    BY <1>1, <1>11, SameCounts DEF ExecutorInv
  <2> QED
    BY <1>13, <2>1 DEF ExecutorInv
<1>15. \A w \in DOMAIN wrapper' : is_allocated(w)' <=> Alive(wrapper, storage', w)
  BY <1>1 DEF is_allocated, Alive
<1>16. Passes
  BY <1>1, <1>3, <1>5, TopPasses DEF Advanced
<1> QED
  BY <1>9, <1>14, <1>15, <1>16, KeptSurvive

\* freed leaves every storage allocated but that of a tensor that is not
\* retained and shares its storage with none.
LEMMA FreedHeap ==
    ASSUME ExecutorInv, NEW w \in DOMAIN wrapper, NEW ss, ss = freed(w)
    PROVE  /\ HeapTyped(wrapper, ss, latestVersion)
           /\ \A x \in DOMAIN wrapper :
                 x # w \/ wrapper[w].retain =>
                     ss[wrapper[x].tensor] = storage[wrapper[x].tensor]
<1>1. HeapTyped(wrapper, storage, latestVersion)
  BY DEF ExecutorInv, HeapInv
<1>2. CASE wrapper[w].retain
  BY <1>1, <1>2 DEF freed
<1>3. CASE ~wrapper[w].retain
  <2>1. ss = deallocate(storage, w)
    BY <1>3 DEF freed
  <2> QED
    BY <1>1, <1>3, <2>1, DeallocateHeap
<1> QED
  BY <1>2, <1>3

\* A deallocation in a program frees no storage that another value, the
\* caller of a const-eval function or a retained tensor has.
LEMMA runDeallocateKeeps ==
    ASSUME ProgramsWellFormed, ExecutorInv, runDeallocate
    PROVE  /\ ExecutorInv'
           /\ Passes
           /\ \A x \in DOMAIN wrapper :
                 Survives(x) \/ (x = Arg(1) /\ ~wrapper[x].retain)
<1> DEFINE a == Op.ins[1]
           w == Arg(1)
           ss == freed(w)
           live == Restrict(Top.live, DOMAIN Top.live \ ToSet(Op.ins))
           fr == [Top EXCEPT !.live = live]
           fr2 == [fr EXCEPT !.pc = @ + 1]
           stk == Resume(fr)
<1>1. /\ Running /\ ~AtEnd(Top) /\ Op.op = "deallocate"
      /\ UNCHANGED <<latestVersion, calls, submits, aborted>>
  BY DEF runDeallocate, runOperation
<1>2. Settle(wrapper, ss, held, cache, stk)
  BY DEF runDeallocate
<1>3. /\ FrameInv(Top) /\ WellFormed(Top.fn)
      /\ FrameAlive(wrapper, storage, Top)
      /\ FrameRefs(Top) \subseteq DOMAIN wrapper
      /\ (Len(stack) = 2 => Top.fn.constEval)
  BY <1>1, TopFacts
<1>4. Advanced(Top, fr2, live)
  BY <1>3, AdvancedFields DEF FrameInv
<1>5. stk = [stack EXCEPT ![Len(stack)] = fr2] /\ ss = freed(w)
  BY DEF Resume
<1>6. /\ a \in DOMAIN Top.live /\ w = Top.live[a] /\ w \in DOMAIN wrapper
  BY <1>1, FirstOperand
<1>7. Top.pc \in DOMAIN Top.fn.body /\ Op = Top.fn.body[Top.pc]
  BY <1>1, OpFacts
<1>8. ToSet(Op.ins) = {a} /\ (Len(stack) = 2 => a \notin ToSet(Top.fn.params))
  <2>1. Len(Op.ins) = 1
    BY <1>1, <1>3, <1>7, Zenon DEF WellFormed
  <2>2. isSequence(Op.ins)
    BY <1>1, OpFacts
  <2>3. DOMAIN Op.ins = {1}
    BY <2>1, <2>2, SequenceFacts
  <2>4. ToSet(Op.ins) = {a}
    BY <2>3 DEF ToSet
  <2>5. Top.fn.constEval => a \notin ToSet(Top.fn.params)
    BY <1>1, <1>3, <1>7, Zenon DEF WellFormed
  <2> QED
    BY <1>3, <2>4, <2>5
<1>9. DOMAIN live = DOMAIN Top.live \ {a} /\ \A v \in DOMAIN live : live[v] = Top.live[v]
  BY <1>8 DEF Restrict
<1> HIDE DEF a, w, ss, live, fr, fr2, stk
<1>10. /\ HeapTyped(wrapper, ss, latestVersion)
       /\ \A x \in DOMAIN wrapper :
             x # w \/ wrapper[w].retain =>
                 ss[wrapper[x].tensor] = storage[wrapper[x].tensor]
  BY <1>5, <1>6, FreedHeap
<1>11. FrameInv(fr2)
  <2>1. /\ Top.pc + 1 \in 1 .. Len(Top.fn.body) + 1
        /\ liveBefore(Top.fn, Top.pc + 1) = liveBefore(Top.fn, Top.pc) \ ToSet(Op.ins)
    BY <1>1, <1>3, <1>7, LiveNext
  <2>2. liveBefore(Top.fn, Top.pc + 1) = DOMAIN live
    BY <1>3, <1>8, <1>9, <2>1 DEF FrameInv
  <2> QED
    BY <1>4, <2>1, <2>2 DEF FrameInv, Advanced
<1>12. Len(stack) = 1 => Outer(wrapper, ss, fr2)
  <2> SUFFICES ASSUME Len(stack) = 1 PROVE Outer(wrapper, ss, fr2)
    OBVIOUS
  <2>1. Outer(wrapper, storage, Top)
    BY <1>1, RunningStack
  <2>2. ASSUME NEW v \in DOMAIN live
        PROVE  live[v] \in DOMAIN wrapper /\ ss[wrapper[live[v]].tensor].allocated
    <3>1. live[v] \in DOMAIN wrapper /\ storage[wrapper[live[v]].tensor].allocated
      BY <1>3, <1>9 DEF FrameAlive
    <3>2. live[v] = w => wrapper[w].retain
      BY <1>6, <1>9, <2>1 DEF Outer, ProgramOwns
    <3> QED
      BY <1>10, <3>1, <3>2
  <2>3. FrameAlive(wrapper, ss, fr2)
    BY <1>4, <2>2 DEF FrameAlive, Advanced
  <2>4. ProgramOwns(wrapper, fr2)
    BY <1>4, <1>9, <2>1 DEF Outer, ProgramOwns, Advanced
  <2> QED
    BY <1>4, <1>11, <2>1, <2>3, <2>4 DEF Outer, Advanced
<1>13. Len(stack) = 2 => /\ Outer(wrapper, ss, stack[1])
                         /\ Nested(wrapper, ss, stack[1], fr2)
  <2> SUFFICES ASSUME Len(stack) = 2
               PROVE  Outer(wrapper, ss, stack[1]) /\ Nested(wrapper, ss, stack[1], fr2)
    OBVIOUS
  <2>1. /\ Outer(wrapper, storage, stack[1])
        /\ Nested(wrapper, storage, stack[1], Top)
    BY <1>1, RunningStack
  <2>2. w \notin Range(stack[1].live) /\ \A v \in DOMAIN live : live[v] # w
    BY <1>6, <1>8, <1>9, <2>1 DEF Nested, ConstEvalOwns
  <2>3. FrameAlive(wrapper, ss, stack[1])
    BY <1>10, <2>1, <2>2 DEF Outer, FrameAlive, Range
  <2>4. \A v \in DOMAIN live :
           live[v] \in DOMAIN wrapper /\ ss[wrapper[live[v]].tensor].allocated
    BY <1>3, <1>9, <1>10, <2>2 DEF FrameAlive
  <2>5. FrameAlive(wrapper, ss, fr2)
    BY <1>4, <2>4 DEF FrameAlive, Advanced
  <2>6. ConstEvalOwns(stack[1], fr2)
    <3>1. fr2.live = live /\ fr2.fn = Top.fn
      BY <1>4 DEF Advanced
    <3>2. ASSUME NEW v \in DOMAIN live
          PROVE  IF v \in ToSet(Top.fn.params)
                 THEN live[v] \in Range(stack[1].live)
                 ELSE /\ live[v] \notin Range(stack[1].live)
                      /\ \A u \in DOMAIN live : live[u] = live[v] => u = v
      BY <1>9, <2>1 DEF Nested, ConstEvalOwns
    <3> QED
      BY <3>1, <3>2 DEF ConstEvalOwns
  <2>7. Outer(wrapper, ss, stack[1])
    BY <2>1, <2>3 DEF Outer
  <2>8. Nested(wrapper, ss, stack[1], fr2)
    BY <1>4, <1>11, <2>1, <2>5, <2>6 DEF Nested, Advanced
  <2> QED
    BY <2>7, <2>8
<1>14. FrameRefs(fr2) \subseteq DOMAIN wrapper
  <2>1. fr2.inputs = Top.inputs /\ fr2.live = live
    BY <1>4 DEF Advanced
  <2>2. Range(live) \subseteq Range(Top.live)
    BY <1>9 DEF Range
  <2> QED
    BY <1>3, <2>1, <2>2 DEF FrameRefs
<1>15. /\ StackInv(wrapper, ss, stk)
       /\ Referenced(held, cache, stk) \subseteq DOMAIN wrapper
  BY <1>1, <1>5, <1>12, <1>13, <1>14, StackOfTop
<1>16. HeapTyped(wrapper, ss, latestVersion') /\ CacheInv(cache) /\ CountsInv'
  BY <1>1, <1>10, SameCounts DEF ExecutorInv
<1>17. /\ ExecutorInv'
       /\ \A x \in DOMAIN wrapper' : is_allocated(x)' <=> Alive(wrapper, ss, x)
  BY <1>2, <1>15, <1>16, RunSettles
<1>18. \A x \in DOMAIN wrapper : Survives(x) \/ (x = w /\ ~wrapper[x].retain)
  BY <1>10, <1>17 DEF Survives, Alive, is_allocated
<1>19. Passes
  <2>1. stack' = stk /\ held' = held /\ cache' = cache
    BY <1>2 DEF Settle
  <2> QED
    BY <1>4, <1>5, <1>9, <2>1, TopPasses DEF Advanced
<1> QED
  BY <1>17, <1>18, <1>19 DEF w

\* insertTTNNTensorAndValidate of the results res of a load_cached, which share
\* the storages of the tensors outs.
LEMMA ExtendedByCached ==
    ASSUME NEW ws, NEW ss, HeapTyped(ws, ss, latestVersion),
           NEW outs, isSequence(outs), ToSet(outs) \subseteq DOMAIN ws,
           \A n \in DOMAIN outs : Alive(ws, ss, outs[n]),
           NEW ws2, ws2 = insertedWrappers(ws, outs),
           NEW live, NEW res, isSequence(res), Len(res) = Len(outs),
           ToSet(res) \cap DOMAIN live = {},
           NEW live2,
           live2 = Overlay([v \in ToSet(res) |->
                       latestVersion + (CHOOSE n \in DOMAIN res : res[n] = v) - 1],
                           live)
    PROVE  Extended(ws, ws2, ss, live, live2, res)
<1> DEFINE idx(v) == CHOOSE n \in DOMAIN res : res[n] = v
<1>1. Len(outs) \in Nat /\ DOMAIN outs = 1 .. Len(outs) /\ DOMAIN res = DOMAIN outs
  BY SequenceFacts
<1>2. latestVersion \in Nat /\ \A w \in DOMAIN ws : w \in 0 .. latestVersion - 1
  BY DEF HeapTyped
<1>3. DOMAIN live2 = DOMAIN live \cup ToSet(res)
  BY DEF Overlay
<1>4. \A v \in DOMAIN live : live2[v] = live[v]
  BY DEF Overlay
<1>5. \A v \in ToSet(res) : live2[v] = latestVersion + idx(v) - 1
  BY DEF Overlay
<1>6. \A v \in ToSet(res) : idx(v) \in DOMAIN outs /\ res[idx(v)] = v
  BY <1>1 DEF ToSet
<1> HIDE DEF idx
<1>7. /\ DOMAIN ws2 = DOMAIN ws \cup (latestVersion .. latestVersion + Len(outs) - 1)
      /\ \A n \in DOMAIN outs : ws2[latestVersion + n - 1].tensor = ws[outs[n]].tensor
  <2>1. DOMAIN ws2 = DOMAIN ws \cup (latestVersion .. latestVersion + Len(outs) - 1)
    <3> DEFINE new == [w \in latestVersion .. latestVersion + Len(outs) - 1 |->
                     TTNNTensorWrapper(ws[outs[w - latestVersion + 1]].tensor, FALSE, w)]
    <3>1. ws2 = Overlay(new, ws)
      BY DEF insertedWrappers
    <3>2. DOMAIN new = latestVersion .. latestVersion + Len(outs) - 1
      OBVIOUS
    <3> HIDE DEF new
    <3> QED
      BY <3>1, <3>2 DEF Overlay
  <2>2. ASSUME NEW n \in DOMAIN outs
        PROVE  ws2[latestVersion + n - 1].tensor = ws[outs[n]].tensor
    <3> DEFINE w == latestVersion + n - 1
               r == FALSE
               new == [x \in latestVersion .. latestVersion + Len(outs) - 1 |->
                     TTNNTensorWrapper(ws[outs[x - latestVersion + 1]].tensor, r, x)]
    <3>1. /\ w \in latestVersion .. latestVersion + Len(outs) - 1
          /\ w - latestVersion + 1 = n
      BY <1>1, <1>2
    <3>2. ws2 = Overlay(new, ws)
      BY DEF insertedWrappers
    <3> HIDE DEF w, r
    <3>3. w \in DOMAIN new /\ new[w] = TTNNTensorWrapper(ws[outs[n]].tensor, r, w)
      BY <3>1
    <3> HIDE DEF new
    <3>4. ws2[w] = new[w]
      BY <3>2, <3>3 DEF Overlay
    <3>5. ws2[w].tensor = ws[outs[n]].tensor
      BY <3>3, <3>4, WrapperFields
    <3> QED
      BY <3>5 DEF w
  <2> QED
    BY <2>1, <2>2
<1>8. ASSUME NEW v \in ToSet(res)
      PROVE  /\ live2[v] \in DOMAIN ws2
             /\ live2[v] \notin DOMAIN ws
             /\ Alive(ws2, ss, live2[v])
  <2>1. idx(v) \in 1 .. Len(outs) /\ live2[v] = latestVersion + idx(v) - 1
    BY <1>1, <1>5, <1>6
  <2>2. live2[v] \in latestVersion .. latestVersion + Len(outs) - 1
    BY <1>1, <1>2, <2>1
  <2>3. live2[v] \in DOMAIN ws2
    BY <1>7, <2>2
  <2>4. live2[v] \notin DOMAIN ws
    BY <1>2, <2>2
  <2>5. ws2[live2[v]].tensor = ws[outs[idx(v)]].tensor
    BY <1>1, <1>7, <2>1
  <2>6. Alive(ws, ss, outs[idx(v)])
    BY <1>1, <2>1
  <2>7. Alive(ws2, ss, live2[v])
    BY <2>5, <2>6 DEF Alive
  <2> QED
    BY <2>3, <2>4, <2>7
<1>9. ASSUME NEW u \in ToSet(res), NEW v \in ToSet(res), live2[u] = live2[v]
      PROVE  u = v
  <2>1. idx(u) = idx(v)
    BY <1>1, <1>2, <1>5, <1>6, <1>9
  <2> QED
    BY <1>6, <2>1
<1> QED
  BY <1>3, <1>4, <1>8, <1>9 DEF Extended

\* The const-eval function that a load_cached names.
LEMMA LoadCachedFacts ==
    ASSUME ProgramsWellFormed, NEW ws, NEW ss, NEW fr, Outer(ws, ss, fr),
           fr.pc <= Len(fr.fn.body), fr.fn.body[fr.pc].op = "load_cached"
    PROVE  /\ WellFormed(fr.fn) /\ fr.pc \in DOMAIN fr.fn.body
           /\ fr.fn.body[fr.pc].name \in DOMAIN ConstEval
           /\ isSequence(fr.fn.body[fr.pc].ins) /\ isSequence(fr.fn.body[fr.pc].outs)
           /\ Len(fr.fn.body[fr.pc].ins) =
                 Len(CompiledConstEval[fr.fn.body[fr.pc].name].params)
           /\ Len(fr.fn.body[fr.pc].outs) =
                 Len(CompiledConstEval[fr.fn.body[fr.pc].name].ret)
           /\ ToSet(fr.fn.body[fr.pc].ins) \subseteq DOMAIN fr.live
           /\ ToSet(fr.fn.body[fr.pc].outs) \cap DOMAIN fr.live = {}
<1> DEFINE f == fr.fn
           o == f.body[fr.pc]
<1>1. WellFormed(f) /\ FrameInv(fr)
  BY DEF Outer, ProgramsWellFormed
<1>2. DOMAIN f.body = 1 .. Len(f.body) /\ Len(f.body) \in Nat
  BY <1>1, SequenceFacts DEF WellFormed
<1>3. fr.pc \in DOMAIN f.body
  BY <1>1, <1>2 DEF FrameInv
<1>4. /\ o.name \in DOMAIN ConstEval
      /\ Len(o.ins) = Len(CompiledConstEval[o.name].params)
      /\ Len(o.outs) = Len(CompiledConstEval[o.name].ret)
  BY <1>1, <1>3, Zenon DEF WellFormed
<1>5. isSequence(o.ins) /\ isSequence(o.outs)
  BY <1>1, <1>3, Zenon DEF WellFormed
<1>6. /\ ToSet(o.ins) \subseteq liveBefore(f, fr.pc)
      /\ ToSet(o.outs) \cap definedBefore(f, fr.pc) = {}
  BY <1>1, <1>3, Zenon DEF WellFormed
<1>7. DOMAIN fr.live = liveBefore(f, fr.pc)
        /\ liveBefore(f, fr.pc) \subseteq definedBefore(f, fr.pc)
  BY <1>1 DEF FrameInv, liveBefore
<1> QED
  BY <1>1, <1>3, <1>4, <1>5, <1>6, <1>7

\* A load_cached is an operation of a program, not of a const-eval function.
LEMMA LoadCachedOuter ==
    ASSUME ProgramsWellFormed, ExecutorInv, runOperation("load_cached")
    PROVE  /\ Running /\ ~AtEnd(Top)
           /\ Len(stack) = 1 /\ stack = <<Top>>
           /\ Outer(wrapper, storage, Top)
           /\ Top.pc <= Len(Top.fn.body)
           /\ Op = Top.fn.body[Top.pc] /\ Op.op = "load_cached"
<1>1. Running /\ ~AtEnd(Top) /\ Op.op = "load_cached"
  BY DEF runOperation
<1>2. /\ Top.pc \in DOMAIN Top.fn.body /\ Op = Top.fn.body[Top.pc]
      /\ Top.pc <= Len(Top.fn.body)
  BY <1>1, OpFacts
<1>3. WellFormed(Top.fn) /\ (Len(stack) = 2 => Top.fn.constEval)
  BY <1>1, TopFacts
<1>4. ~Top.fn.constEval
  BY <1>1, <1>2, <1>3, Zenon DEF WellFormed
<1>5. Len(stack) # 2
  BY <1>3, <1>4
<1> QED
  BY <1>1, <1>2, <1>5, RunningStack

\* The results of a hit share the storages of the cached tensors, which the
\* operation has checked to be allocated.
LEMMA runLoadCachedHitKeeps ==
    ASSUME ProgramsWellFormed, ExecutorInv, runLoadCachedHit
    PROVE  ExecutorInv' /\ Passes /\ \A w \in DOMAIN wrapper : Survives(w)
<1> DEFINE key == cacheKey(Top, Op.name)
           outs == cache[key].tensors
           ws == insertedWrappers(wrapper, outs)
           res == Op.outs
           live == Overlay([v \in ToSet(res) |->
                       latestVersion + (CHOOSE n \in DOMAIN res : res[n] = v) - 1],
                           Top.live)
           fr == [Top EXCEPT !.live = live]
<1>1. /\ runOperation("load_cached")
      /\ key \in DOMAIN cache
      /\ UNCHANGED <<calls, submits, aborted>>
      /\ latestVersion' = latestVersion + Len(outs)
      /\ \A n \in DOMAIN outs : is_allocated(outs[n])
  BY DEF runLoadCachedHit, isHit
<1>2. Settle(ws, storage, held, cache, Resume(fr))
  BY DEF runLoadCachedHit, insertedLive
<1>3. /\ Running /\ ~AtEnd(Top) /\ Outer(wrapper, storage, Top)
      /\ Top.pc <= Len(Top.fn.body)
      /\ Op = Top.fn.body[Top.pc] /\ Op.op = "load_cached"
  BY <1>1, LoadCachedOuter
<1>4. /\ isSequence(res) /\ ToSet(res) \cap DOMAIN Top.live = {}
      /\ Len(res) = Len(CompiledConstEval[Op.name].ret)
  BY <1>3, LoadCachedFacts
<1>5. key.callee = Op.name
  BY DEF cacheKey
<1>6. isSequence(outs) /\ Len(outs) = Len(res)
  BY <1>1, <1>4, <1>5 DEF ExecutorInv, CacheInv
<1>7. ToSet(outs) \subseteq DOMAIN wrapper
  <2>1. ToSet(outs) \subseteq CacheRefs(cache)
    BY <1>1 DEF CacheRefs
  <2> QED
    BY <2>1, RefsInHeap
<1>8. HeapTyped(wrapper, storage, latestVersion)
  BY DEF ExecutorInv, HeapInv
<1>9. \A n \in DOMAIN outs : Alive(wrapper, storage, outs[n])
  BY <1>1 DEF Alive, is_allocated
<1>10. /\ ws = insertedWrappers(wrapper, outs) /\ fr = [Top EXCEPT !.live = live]
       /\ live = Overlay([v \in ToSet(res) |->
                    latestVersion + (CHOOSE n \in DOMAIN res : res[n] = v) - 1],
                         Top.live)
       /\ res = Op.outs
  OBVIOUS
<1> HIDE DEF key, outs, ws, res, live, fr
<1>11. HeapTyped(ws, storage, latestVersion + Len(outs)) /\ Keeps(wrapper, storage, ws, storage)
  BY <1>6, <1>7, <1>8, <1>10, Inserted
<1>12. HeapTyped(ws, storage, latestVersion')
  BY <1>1, <1>11
<1>13. Extended(wrapper, ws, storage, Top.live, live, res)
  BY <1>4, <1>6, <1>7, <1>8, <1>9, <1>10, ExtendedByCached
<1> QED
  BY <1>1, <1>2, <1>3, <1>10, <1>11, <1>12, <1>13, RunExtends

\* The executor of a function f that is about to run on args.
Starts(f, p, args, fr) ==
    /\ DOMAIN fr = Fields
    /\ fr.fn = f /\ fr.prog = p /\ fr.pc = 1
    /\ fr.inputs = args /\ fr.live = Bind(f, args)

\* Its pool is its parameters, bound to the arguments.
LEMMA NewExecutor ==
    ASSUME NEW f, WellFormed(f), NEW args, DOMAIN args = DOMAIN f.params,
           NEW p, NEW fr, Starts(f, p, args, fr)
    PROVE  /\ FrameInv(fr)
           /\ DOMAIN fr.live = ToSet(f.params)
           /\ \A v \in DOMAIN fr.live :
                 \E n \in DOMAIN args : f.params[n] = v /\ fr.live[v] = args[n]
           /\ FrameRefs(fr) \subseteq ToSet(args)
<1> DEFINE idx(v) == CHOOSE n \in DOMAIN f.params : f.params[n] = v
<1>1. Len(f.body) \in Nat
  BY SequenceFacts DEF WellFormed
<1>2. DOMAIN fr.live = ToSet(f.params)
  BY DEF Starts, Bind
<1>3. FrameInv(fr)
  BY <1>1, <1>2, LiveFirst DEF FrameInv, Starts
<1>4. \A v \in ToSet(f.params) : fr.live[v] = args[idx(v)]
  BY DEF Starts, Bind
<1>5. \A v \in ToSet(f.params) : idx(v) \in DOMAIN f.params /\ f.params[idx(v)] = v
  BY DEF ToSet
<1> HIDE DEF idx
<1>6. \A v \in DOMAIN fr.live :
         \E n \in DOMAIN args : f.params[n] = v /\ fr.live[v] = args[n]
  BY <1>2, <1>4, <1>5
<1>7. Range(fr.live) \subseteq ToSet(args)
  BY <1>6 DEF Range, ToSet
<1>8. fr.inputs = args
  BY DEF Starts
<1> QED
  BY <1>2, <1>3, <1>6, <1>7, <1>8 DEF FrameRefs

\* A const-eval function starts on values of its caller.
LEMMA runLoadCachedMissKeeps ==
    ASSUME ProgramsWellFormed, ExecutorInv, runLoadCachedMiss
    PROVE  ExecutorInv' /\ Passes /\ \A w \in DOMAIN wrapper : Survives(w)
<1> DEFINE f == CompiledConstEval[Op.name]
           args == [n \in DOMAIN Op.ins |-> Arg(n)]
           caller == Top
           fr == [Executor(f, caller.dev, caller.prog, args)
                     EXCEPT !.versions = inputVersions(Top, Op)]
<1>1. /\ runOperation("load_cached")
      /\ UNCHANGED <<wrapper, storage, latestVersion, held, cache, calls, submits, aborted>>
  BY DEF runLoadCachedMiss
<1>2. stack' = Append(stack, fr)
  BY DEF runLoadCachedMiss
<1>3. /\ Running /\ ~AtEnd(caller) /\ stack = <<caller>>
      /\ Outer(wrapper, storage, caller)
      /\ caller.pc <= Len(caller.fn.body)
      /\ Op = caller.fn.body[caller.pc] /\ Op.op = "load_cached"
  BY <1>1, LoadCachedOuter
<1>4. /\ Op.name \in DOMAIN ConstEval /\ isSequence(Op.ins)
      /\ Len(Op.ins) = Len(f.params)
      /\ ToSet(Op.ins) \subseteq DOMAIN caller.live
  BY <1>3, LoadCachedFacts
<1>5. WellFormed(f)
  BY <1>4 DEF ProgramsWellFormed
<1>6. DOMAIN args = DOMAIN f.params
  <2>1. DOMAIN Op.ins = 1 .. Len(Op.ins) /\ DOMAIN f.params = 1 .. Len(f.params)
    BY <1>4, <1>5, SequenceFacts DEF WellFormed
  <2> QED
    BY <1>4, <2>1
<1>7. \A n \in DOMAIN args : args[n] \in Range(caller.live)
  <2>1. \A n \in DOMAIN Op.ins : Op.ins[n] \in DOMAIN caller.live
    BY <1>4 DEF ToSet
  <2> QED
    BY <2>1 DEF Arg, Range
<1>8. Starts(f, caller.prog, args, fr)
  BY DEF Starts, Executor, Fields
<1> HIDE DEF f, args, caller, fr
<1>9. /\ FrameInv(fr) /\ DOMAIN fr.live = ToSet(f.params)
      /\ \A v \in DOMAIN fr.live : fr.live[v] \in Range(caller.live)
      /\ FrameRefs(fr) \subseteq ToSet(args)
  <2>1. FrameInv(fr) /\ FrameRefs(fr) \subseteq ToSet(args)
    BY <1>5, <1>6, <1>8, NewExecutor
  <2>2. DOMAIN fr.live = ToSet(f.params)
    BY <1>8 DEF Starts, Bind
  <2>3. \A v \in DOMAIN fr.live : \E n \in DOMAIN args : fr.live[v] = args[n]
    BY <1>5, <1>6, <1>8, NewExecutor
  <2> QED
    BY <1>7, <2>1, <2>2, <2>3
<1>10. Nested(wrapper, storage, caller, fr)
  <2>1. FrameAlive(wrapper, storage, fr)
    BY <1>3, <1>9 DEF Outer, FrameAlive, Range
  <2>2. fr.fn = f
    BY <1>8 DEF Starts
  <2>3. ConstEvalOwns(caller, fr)
    BY <1>9, <2>2 DEF ConstEvalOwns
  <2> QED
    BY <1>3, <1>9, <2>1, <2>2, <2>3 DEF Nested, f
<1>11. stack' = <<caller, fr>>
  <2>1. Append(<<caller>>, fr) = <<caller, fr>>
    BY AppendOne, Zenon
  <2> QED
    BY <1>2, <1>3, <2>1, Zenon
<1>12. StackInv(wrapper', storage', stack')
  <2>1. stack'[1] = caller /\ stack'[2] = fr
    BY <1>11
  <2> QED
    BY <1>1, <1>3, <1>10, <1>11, <2>1 DEF StackInv
<1>13. Referenced(held, cache, stack') = Referenced(held, cache, stack)
  <2>1. DOMAIN stack' = {1, 2} /\ stack'[1] = caller /\ stack'[2] = fr
    BY <1>11
  <2>2. DOMAIN stack = {1} /\ stack[1] = caller
    BY <1>3
  <2>3. FrameRefs(fr) \subseteq FrameRefs(caller)
    BY <1>7, <1>9 DEF FrameRefs, ToSet
  <2>4. FrameRefs(caller) \subseteq Referenced(held, cache, stack)
    BY <2>2, InReferenced
  <2> QED
    BY <2>1, <2>2, <2>3, <2>4, SameRefs
<1>14. HeapInv'
  BY <1>1, <1>13 DEF HeapInv, ExecutorInv
<1>15. ExecutorInv'
  BY <1>1, <1>12, <1>14, SameCounts DEF ExecutorInv, CacheInv
<1>16. Passes
  <2>1. DOMAIN stack' = {1, 2} /\ stack'[1] = caller /\ stack'[2] = fr
    BY <1>11
  <2>2. 1 \in DOMAIN stack /\ stack[1] = caller
    BY <1>3
  <2>3. \A x \in Range(caller.live) : Passed(x)
    BY <2>2, Zenon DEF Passed, InPool
  <2>4. \A v \in DOMAIN caller.live : caller.live[v] \in Range(caller.live)
    BY DEF Range
  <2>5. \A n \in DOMAIN stack' : \A v \in DOMAIN stack'[n].live : Passed(stack'[n].live[v])
    BY <1>9, <2>1, <2>3, <2>4
  <2>6. fr.fn = f
    BY <1>8 DEF Starts
  <2>7. \A n \in DOMAIN stack' \ {1} :
           \A v \in DOMAIN stack'[n].live : v \in ToSet(stack'[n].fn.params)
    BY <1>9, <2>1, <2>6
  <2>8. \A w \in held' : Passed(w)
    BY <1>1 DEF Passed
  <2> QED
    BY <1>1, <2>5, <2>7, <2>8 DEF Passes
<1> QED
  BY <1>1, <1>15, <1>16 DEF Survives, is_allocated

\* A program starts on tensors of the client, of which only retained ones may
\* come twice.
LEMMA submitKeeps ==
    ASSUME ProgramsWellFormed, ExecutorInv, NEW p \in DOMAIN Programs, NEW dev,
           NEW args \in [DOMAIN Programs[p].params -> held], submit(p, dev, args)
    PROVE  ExecutorInv' /\ Passes /\ \A w \in DOMAIN wrapper : Survives(w)
<1> DEFINE f == Compiled[p]
           value == ProgramValue(Programs[p],
                        [n \in DOMAIN args |-> contents(args[n])], dev)
           fr == [Executor(f, dev, p, args) EXCEPT !.promised = value]
<1>1. /\ Idle /\ submits < MaxSubmits /\ submits' = submits + 1
      /\ UNCHANGED <<wrapper, storage, latestVersion, held, cache, calls, aborted>>
  BY DEF submit
<1>2. \A n \in DOMAIN args : args[n] \in held /\ Alive(wrapper, storage, args[n])
  BY DEF submit, is_allocated, Alive
<1>3. \A m, n \in DOMAIN args : m # n /\ args[m] = args[n] => wrapper[args[m]].retain
  BY DEF submit
<1>4. stack' = <<fr>>
  BY DEF submit
<1>5. WellFormed(f) /\ DOMAIN args = DOMAIN f.params
  BY CompiledParams DEF ProgramsWellFormed
<1>6. Starts(f, p, args, fr)
  BY DEF Starts, Executor, Fields
<1>7. held \subseteq DOMAIN wrapper /\ CacheInv(cache) /\ stack = <<>>
  BY <1>1, IdleFacts
<1> HIDE DEF f, fr
<1>8. FrameInv(fr) /\ FrameRefs(fr) \subseteq ToSet(args)
  BY <1>5, <1>6, NewExecutor
<1>9. \A v \in DOMAIN fr.live :
         \E n \in DOMAIN args : f.params[n] = v /\ fr.live[v] = args[n]
  BY <1>5, <1>6, NewExecutor
<1>10. Outer(wrapper, storage, fr)
  <2>1. FrameAlive(wrapper, storage, fr)
    BY <1>2, <1>7, <1>9 DEF FrameAlive, Alive
  <2>2. ProgramOwns(wrapper, fr)
    BY <1>3, <1>9 DEF ProgramOwns
  <2> QED
    BY <1>6, <1>8, <2>1, <2>2 DEF Outer, Starts, f
<1>11. StackInv(wrapper', storage', stack')
  <2>1. stack'[1] = fr
    BY <1>4
  <2> QED
    BY <1>1, <1>4, <1>10, <2>1 DEF StackInv
<1>12. Referenced(held, cache, stack') = Referenced(held, cache, stack)
  <2>1. DOMAIN stack' = {1} /\ stack'[1] = fr
    BY <1>4
  <2>2. DOMAIN stack = {}
    BY <1>7
  <2>3. FrameRefs(fr) \subseteq Referenced(held, cache, stack)
    BY <1>2, <1>8, InReferenced DEF ToSet
  <2> QED
    BY <2>1, <2>2, <2>3, SameRefs
<1>13. HeapInv'
  BY <1>1, <1>12 DEF HeapInv, ExecutorInv
<1>14. CountsInv'
  <2>1. submits \in 0 .. MaxSubmits /\ MaxSubmits \in Nat
    BY BoundsAssumption DEF ExecutorInv, CountsInv
  <2>2. submits' \in 0 .. MaxSubmits
    BY <1>1, <2>1
  <2> QED
    BY <1>1, <2>2 DEF ExecutorInv, CountsInv
<1>15. ExecutorInv'
  BY <1>1, <1>7, <1>11, <1>13, <1>14 DEF ExecutorInv, CacheInv
<1>16. Passes
  <2>1. DOMAIN stack' = {1} /\ stack'[1] = fr
    BY <1>4
  <2>2. \A v \in DOMAIN fr.live : fr.live[v] \in held
    BY <1>2, <1>9
  <2> QED
    BY <1>1, <2>1, <2>2 DEF Passes, Passed
<1> QED
  BY <1>1, <1>15, <1>16 DEF Survives, is_allocated

\* The executor that runs has a pool.
LEMMA TopInPool ==
    ASSUME ExecutorInv, Running, NEW v \in DOMAIN Top.live
    PROVE  InPool(Top.live[v])
<1>1. Len(stack) \in DOMAIN stack
  <2>1. CASE stack = <<stack[1]>>
    BY <2>1
  <2>2. CASE stack = <<stack[1], stack[2]>>
    BY <2>2
  <2> QED
    BY <2>1, <2>2 DEF ExecutorInv, StackInv, Running
<1>2. Top.live[v] \in Range(stack[Len(stack)].live)
  BY DEF Top, Range
<1> QED
  BY <1>1, <1>2 DEF InPool

\* The outputs of an executor at its end are tensors in its pool.
LEMMA OutputsInPool ==
    ASSUME ProgramsWellFormed, ExecutorInv, AtEndWithOutputs
    PROVE  /\ isSequence(outputs(Top)) /\ Len(outputs(Top)) = Len(Top.fn.ret)
           /\ ToSet(outputs(Top)) \subseteq DOMAIN wrapper
           /\ \A n \in DOMAIN outputs(Top) : Alive(wrapper, storage, outputs(Top)[n])
           /\ \A w \in ToSet(outputs(Top)) :
                 \E v \in ToSet(Top.fn.ret) : v \in DOMAIN Top.live /\ w = Top.live[v]
<1> DEFINE ret == Top.fn.ret
           outs == outputs(Top)
<1>1. Running /\ ToSet(ret) \subseteq DOMAIN Top.live
  BY DEF AtEndWithOutputs
<1>2. WellFormed(Top.fn) /\ FrameAlive(wrapper, storage, Top)
  BY <1>1, TopFacts
<1>3. Len(ret) \in Nat /\ DOMAIN ret = 1 .. Len(ret)
  BY <1>2, SequenceFacts DEF WellFormed
<1>4. outs = [n \in DOMAIN ret |-> Top.live[ret[n]]]
  BY DEF outputs
<1>5. \A n \in DOMAIN ret : ret[n] \in ToSet(ret) /\ ret[n] \in DOMAIN Top.live
  BY <1>1 DEF ToSet
<1> HIDE DEF outs, ret
<1>6. DOMAIN outs = DOMAIN ret /\ \A n \in DOMAIN ret : outs[n] = Top.live[ret[n]]
  BY <1>4
<1>7. isSequence(outs) /\ Len(outs) = Len(ret)
  <2>1. outs \in [1 .. Len(ret) -> ToSet(outs)]
    BY <1>3, <1>4 DEF ToSet
  <2>2. outs \in Seq(ToSet(outs))
    BY <1>3, <2>1
  <2> QED
    BY <1>3, <1>6, <2>2 DEF isSequence
<1>8. ToSet(outs) \subseteq DOMAIN wrapper
  BY <1>2, <1>5, <1>6 DEF FrameAlive, ToSet
<1>9. \A n \in DOMAIN outs : Alive(wrapper, storage, outs[n])
  BY <1>2, <1>5, <1>6 DEF FrameAlive, Alive
<1>10. \A w \in ToSet(outs) :
          \E v \in ToSet(ret) : v \in DOMAIN Top.live /\ w = Top.live[v]
  BY <1>5, <1>6 DEF ToSet
<1> QED
  BY <1>7, <1>8, <1>9, <1>10 DEF outs, ret

\* The outputs of a program become the client's.
LEMMA finishProgramKeeps ==
    ASSUME ProgramsWellFormed, ExecutorInv, finishProgram
    PROVE  ExecutorInv' /\ Passes /\ \A w \in DOMAIN wrapper : Survives(w)
<1> DEFINE ws == gathered(Top)
           outs == outputs(Top)
           h == held \cup ToSet(outs)
           none == <<>>
<1>1. AtEndWithOutputs /\ UNCHANGED <<latestVersion, calls, submits, aborted>>
  BY DEF finishProgram
<1>2. Settle(ws, storage, h, cache, none)
  BY DEF finishProgram
<1>3. ToSet(outs) \subseteq DOMAIN wrapper
  BY <1>1, OutputsInPool
<1>4. HeapTyped(wrapper, storage, latestVersion)
  BY DEF ExecutorInv, HeapInv
<1>5. ws = gathered(Top) /\ none = <<>> /\ DOMAIN none = {}
  OBVIOUS
<1> HIDE DEF ws, none
<1>6. HeapTyped(ws, storage, latestVersion')
  <2>1. HeapTyped(ws, storage, latestVersion)
    BY <1>4, <1>5, Gathered
  <2> QED
    BY <1>1, <2>1
<1>7. \A w \in DOMAIN wrapper : ws[w].tensor = wrapper[w].tensor
  BY <1>4, <1>5, Gathered
<1>8. DOMAIN ws = DOMAIN wrapper
  BY <1>5 DEF gathered
<1>9. h \subseteq DOMAIN ws /\ CacheRefs(cache) \subseteq DOMAIN ws
  BY <1>3, <1>8, RefsInHeap
<1>10. Referenced(h, cache, none) \subseteq DOMAIN ws
  BY <1>5, <1>9, RefsWithin
<1>11. StackInv(ws, storage, none)
  BY <1>5 DEF StackInv
<1>12. CacheInv(cache) /\ CountsInv'
  BY <1>1, SameCounts DEF ExecutorInv
<1> HIDE DEF h
<1>13. /\ ExecutorInv'
       /\ \A w \in DOMAIN wrapper' : is_allocated(w)' <=> Alive(ws, storage, w)
  BY <1>2, <1>6, <1>10, <1>11, <1>12, RunSettles
<1>14. Passes
  <2>1. held' = h /\ cache' = cache /\ DOMAIN stack' = {}
    BY <1>2, <1>5 DEF Settle
  <2>2. \A w \in ToSet(outs) : InPool(w)
    BY <1>1, OutputsInPool, TopInPool DEF AtEndWithOutputs
  <2>3. \A w \in held' : Passed(w)
    BY <2>1, <2>2 DEF Passed, h
  <2> QED
    BY <2>1, <2>3 DEF Passes
<1>15. \A w \in DOMAIN wrapper : Survives(w)
  BY <1>7, <1>13 DEF Survives, Alive, is_allocated
<1> QED
  BY <1>13, <1>14, <1>15

\* A const-eval function returns none of its caller's values, so that clearing
\* the retain flags of its outputs leaves the caller's tensors as they were.
LEMMA GatheredOuter ==
    ASSUME ProgramsWellFormed, ExecutorInv, AtEndWithOutputs, Len(stack) = 2
    PROVE  Outer(gathered(Top), storage, stack[1])
<1> DEFINE ws == gathered(Top)
           caller == stack[1]
<1>1. Running /\ HeapTyped(wrapper, storage, latestVersion) /\ ws = gathered(Top)
  BY DEF AtEndWithOutputs, ExecutorInv, HeapInv
<1>2. Outer(wrapper, storage, caller) /\ Nested(wrapper, storage, caller, Top)
  BY <1>1, RunningStack
<1>3. WellFormed(Top.fn) /\ Top.fn.constEval
  BY <1>1, TopFacts
<1>4. ToSet(Top.fn.ret) \cap ToSet(Top.fn.params) = {}
  BY <1>3 DEF WellFormed
<1>5. \A w \in ToSet(outputs(Top)) : w \notin Range(caller.live)
  <2>1. \A w \in ToSet(outputs(Top)) :
           \E v \in ToSet(Top.fn.ret) : v \in DOMAIN Top.live /\ w = Top.live[v]
    BY OutputsInPool
  <2>2. \A v \in DOMAIN Top.live :
           v \notin ToSet(Top.fn.params) => Top.live[v] \notin Range(caller.live)
    BY <1>2 DEF Nested, ConstEvalOwns
  <2> QED
    BY <1>4, <2>1, <2>2
<1> HIDE DEF ws, caller
<1>6. \A w \in DOMAIN wrapper :
         /\ ws[w].tensor = wrapper[w].tensor
         /\ w \notin ToSet(outputs(Top)) => ws[w] = wrapper[w]
  BY <1>1, Gathered
<1>7. DOMAIN ws = DOMAIN wrapper
  BY <1>1 DEF gathered
<1>8. FrameAlive(ws, storage, caller)
  BY <1>2, <1>6, <1>7 DEF Outer, FrameAlive
<1>9. \A v \in DOMAIN caller.live :
         caller.live[v] \in DOMAIN wrapper /\ caller.live[v] \in Range(caller.live)
  BY <1>2 DEF Outer, FrameAlive, Range
<1>10. ProgramOwns(ws, caller)
  BY <1>2, <1>5, <1>6, <1>9 DEF Outer, ProgramOwns
<1>11. Outer(ws, storage, caller)
  BY <1>2, <1>8, <1>10 DEF Outer
<1> QED
  BY <1>11 DEF ws, caller

\* The stack of a program alone, from that of the program and its callee.
LEMMA CallerOnly ==
    ASSUME NEW a, NEW b, NEW c, NEW stk, stk = <<a, b>>,
           NEW stk2, stk2 = [SubSeq(stk, 1, Len(stk) - 1) EXCEPT ![Len(stk) - 1] = c]
    PROVE  stk2 = <<c>>
<1>1. Len(stk) - 1 = 1
  OBVIOUS
<1>2. SubSeq(stk, 1, 1) = <<a>>
  <2>1. stk \in Seq({a, b}) /\ 1 \in 1 .. Len(stk) /\ stk[1] = a
    OBVIOUS
  <2> DEFINE t == SubSeq(stk, 1, 1)
  <2>2. t \in Seq({a, b}) /\ Len(t) = 1 /\ t[1] = a
    BY <2>1
  <2> HIDE DEF t
  <2>3. t = <<a>>
    BY <2>2
  <2> QED
    BY <2>3 DEF t
<1>3. stk2 = [<<a>> EXCEPT ![1] = c]
  BY <1>1, <1>2, Zenon
<1>4. [<<a>> EXCEPT ![1] = c] = <<c>>
  OBVIOUS
<1> QED
  BY <1>3, <1>4, Zenon

\* The cache takes the tensors outs, the client none, and the caller of the
\* const-eval function new ones.
Returns(outs) ==
    /\ held' = held
    /\ \A x \in CacheRefs(cache') : x \in CacheRefs(cache) \/ x \in ToSet(outs)
    /\ DOMAIN stack' = {1}
    /\ \A w \in Range(stack'[1].live) :
          w \notin DOMAIN wrapper \/ w \in Range(stack[1].live)

\* The outputs of a const-eval function are cached and become results of the
\* load_cached.
LEMMA finishConstEvalKeeps ==
    ASSUME ProgramsWellFormed, ExecutorInv, finishConstEval
    PROVE  ExecutorInv' /\ Returns(outputs(Top)) /\ \A w \in DOMAIN wrapper : Survives(w)
<1> DEFINE parent == stack[Len(stack) - 1]
           o == parent.fn.body[parent.pc]
           outs == outputs(Top)
           ws == gathered(Top)
           ws2 == insertedWrappers(ws, outs)
           key == cacheKey(parent, o.name)
           entry == [inputVersions |-> Top.versions, tensors |-> outs]
           c == With(cache, key, entry)
           res == o.outs
           live == Overlay([v \in ToSet(res) |->
                       latestVersion + (CHOOSE n \in DOMAIN res : res[n] = v) - 1],
                           parent.live)
           fr == [parent EXCEPT !.live = live]
           fr2 == [fr EXCEPT !.pc = @ + 1]
           stk == [SubSeq(stack, 1, Len(stack) - 1) EXCEPT ![Len(stack) - 1] = fr2]
<1>1. /\ AtEndWithOutputs /\ Running /\ Len(stack) > 1
      /\ UNCHANGED <<calls, submits, aborted>>
      /\ latestVersion' = latestVersion + Len(outs)
  BY DEF finishConstEval, AtEndWithOutputs
<1>2. Settle(ws2, storage, held, c, stk)
  BY DEF finishConstEval, insertedLive
<1>3. /\ Len(stack) = 2 /\ stack = <<parent, Top>>
      /\ Outer(wrapper, storage, parent) /\ Nested(wrapper, storage, parent, Top)
  <2> HIDE DEF parent
  <2>1. /\ Len(stack) = 2 /\ stack = <<stack[1], Top>>
        /\ Outer(wrapper, storage, stack[1])
        /\ Nested(wrapper, storage, stack[1], Top)
    BY <1>1, NestedStack
  <2> USE DEF parent
  <2>2. parent = stack[1]
    BY <2>1
  <2> QED
    BY <2>1, <2>2, Zenon
<1>4. parent = stack[1]
  BY <1>3
<1>5. Outer(ws, storage, parent)
  BY <1>1, <1>3, <1>4, GatheredOuter
<1> HIDE DEF parent
<1>6. parent.pc <= Len(parent.fn.body) /\ o.op = "load_cached"
        /\ Top.fn = CompiledConstEval[o.name]
  BY <1>3 DEF Nested
<1>7. /\ WellFormed(parent.fn) /\ o.name \in DOMAIN ConstEval
      /\ isSequence(res) /\ ToSet(res) \cap DOMAIN parent.live = {}
      /\ Len(res) = Len(Top.fn.ret)
  BY <1>3, <1>6, LoadCachedFacts
<1>8. /\ isSequence(outs) /\ Len(outs) = Len(Top.fn.ret)
      /\ ToSet(outs) \subseteq DOMAIN wrapper
      /\ \A n \in DOMAIN outs : Alive(wrapper, storage, outs[n])
  BY <1>1, OutputsInPool
<1>9. HeapTyped(wrapper, storage, latestVersion)
  BY DEF ExecutorInv, HeapInv
<1>10. /\ ws = gathered(Top) /\ ws2 = insertedWrappers(ws, outs)
       /\ res = parent.fn.body[parent.pc].outs /\ o = parent.fn.body[parent.pc]
       /\ live = Overlay([v \in ToSet(res) |->
                    latestVersion + (CHOOSE n \in DOMAIN res : res[n] = v) - 1],
                         parent.live)
  OBVIOUS
<1>11. c = With(cache, key, entry) /\ key.callee = o.name /\ entry.tensors = outs
  BY DEF cacheKey
<1>12. Advanced(parent, fr2, live)
  BY <1>3, AdvancedFields DEF Outer, FrameInv
<1>13. stk = [SubSeq(stack, 1, Len(stack) - 1) EXCEPT ![Len(stack) - 1] = fr2]
  OBVIOUS
<1> HIDE DEF o, outs, ws, ws2, key, entry, c, res, live, fr, fr2, stk
<1>14. stk = <<fr2>>
  BY <1>3, <1>13, CallerOnly
<1>15. HeapTyped(ws, storage, latestVersion)
  BY <1>9, <1>10, Gathered
<1>16. \A w \in DOMAIN wrapper : ws[w].tensor = wrapper[w].tensor
  BY <1>9, <1>10, Gathered
<1>17. DOMAIN ws = DOMAIN wrapper
  BY <1>10 DEF gathered
<1>18. /\ ToSet(outs) \subseteq DOMAIN ws
       /\ \A n \in DOMAIN outs : outs[n] \in DOMAIN wrapper /\ Alive(ws, storage, outs[n])
  BY <1>8, <1>16, <1>17 DEF Alive, ToSet
<1>19. /\ HeapTyped(ws2, storage, latestVersion + Len(outs))
       /\ Keeps(ws, storage, ws2, storage)
  BY <1>8, <1>10, <1>15, <1>18, Inserted
<1>20. HeapTyped(ws2, storage, latestVersion')
  BY <1>1, <1>19
<1>21. Extended(ws, ws2, storage, parent.live, live, res)
  BY <1>7, <1>8, <1>10, <1>15, <1>18, ExtendedByCached, SMTT(30)
<1>22. Outer(ws2, storage, fr2)
  BY <1>5, <1>6, <1>7, <1>10, <1>12, <1>19, <1>21, OuterExtends
<1>23. StackInv(ws2, storage, stk)
  <2>1. stk[1] = fr2
    BY <1>14
  <2> QED
    BY <1>14, <1>22, <2>1 DEF StackInv
<1>24. DOMAIN wrapper \subseteq DOMAIN ws2
  BY <1>17, <1>19 DEF Keeps
<1>25. CacheInv(c) /\ CacheRefs(c) \subseteq DOMAIN ws2
  <2>1. /\ DOMAIN c = DOMAIN cache \cup {key} /\ c[key] = entry
        /\ \A k \in DOMAIN cache : k # key => c[k] = cache[k]
    BY <1>11 DEF With
  <2>2. ASSUME NEW k \in DOMAIN c
        PROVE  /\ k.callee \in DOMAIN ConstEval /\ isSequence(c[k].tensors)
               /\ Len(c[k].tensors) = Len(CompiledConstEval[k.callee].ret)
               /\ ToSet(c[k].tensors) \subseteq DOMAIN ws2
    <3>1. CASE k = key
      <4>1. k.callee = o.name /\ c[k].tensors = outs
        BY <1>11, <2>1, <3>1
      <4> QED
        BY <1>6, <1>7, <1>8, <1>24, <4>1
    <3>2. CASE k \in DOMAIN cache /\ k # key
      <4>1. c[k] = cache[k]
        BY <2>1, <3>2
      <4>2. ToSet(cache[k].tensors) \subseteq DOMAIN ws2
        BY <1>24, <3>2, RefsInHeap DEF CacheRefs
      <4> QED
        BY <3>2, <4>1, <4>2 DEF ExecutorInv, CacheInv
    <3> QED
      BY <2>1, <3>1, <3>2
  <2>3. CacheInv(c)
    BY <2>2 DEF CacheInv
  <2>4. CacheRefs(c) \subseteq DOMAIN ws2
    BY <2>2 DEF CacheRefs
  <2> QED
    BY <2>3, <2>4
<1>26. Referenced(held, c, stk) \subseteq DOMAIN ws2
  <2>1. DOMAIN stk = {1} /\ stk[1] = fr2
    BY <1>14
  <2>2. FrameRefs(parent) \subseteq DOMAIN wrapper
    <3>1. 1 \in DOMAIN stack
      BY <1>3
    <3> QED
      BY <1>4, <3>1, RefsInHeap
  <2>3. fr2.inputs = parent.inputs /\ fr2.live = live
    BY <1>12 DEF Advanced
  <2>4. \A v \in DOMAIN live : live[v] \in DOMAIN ws2
    BY <1>22, <2>3 DEF Outer, FrameAlive
  <2>5. FrameRefs(fr2) \subseteq DOMAIN ws2
    BY <1>24, <2>2, <2>3, <2>4 DEF FrameRefs, Range
  <2>6. \A n \in DOMAIN stk : FrameRefs(stk[n]) \subseteq DOMAIN ws2
    BY <2>1, <2>5
  <2>7. held \subseteq DOMAIN ws2
    BY <1>24, RefsInHeap
  <2> QED
    BY <1>25, <2>6, <2>7, RefsWithin
<1>27. CountsInv'
  BY <1>1, SameCounts
<1>28. /\ ExecutorInv'
       /\ \A w \in DOMAIN wrapper' : is_allocated(w)' <=> Alive(ws2, storage, w)
  BY <1>2, <1>20, <1>23, <1>25, <1>26, <1>27, RunSettles
<1>29. \A w \in DOMAIN wrapper : ws2[w].tensor = wrapper[w].tensor
  BY <1>16, <1>17, <1>19 DEF Keeps
<1>30. Returns(outs)
  <2>1. held' = held /\ cache' = c /\ stack' = stk
    BY <1>2 DEF Settle
  <2>2. DOMAIN stack' = {1} /\ stack'[1] = fr2
    BY <1>14, <2>1
  <2>3. \A x \in CacheRefs(c) : x \in CacheRefs(cache) \/ x \in ToSet(outs)
    <3>1. /\ DOMAIN c = DOMAIN cache \cup {key} /\ c[key] = entry
          /\ \A k \in DOMAIN cache : k # key => c[k] = cache[k]
      BY <1>11 DEF With
    <3> QED
      BY <1>11, <3>1 DEF CacheRefs
  <2>4. \A w \in Range(live) : w \notin DOMAIN wrapper \/ w \in Range(parent.live)
    BY <1>17, <1>21 DEF Extended, Range
  <2>5. fr2.live = live
    BY <1>12 DEF Advanced
  <2> QED
    BY <1>4, <2>1, <2>2, <2>3, <2>4, <2>5 DEF Returns
<1>31. \A w \in DOMAIN wrapper : Survives(w)
  BY <1>28, <1>29 DEF Survives, Alive, is_allocated
<1> QED
  BY <1>28, <1>30, <1>31 DEF outs

-----------------------------------------------------------------------------
(* All steps                                                               *)

\* The runtime before its first call.
LEMMA InitInv == Init => ExecutorInv
<1> SUFFICES ASSUME Init PROVE ExecutorInv
  OBVIOUS
<1>1. DOMAIN wrapper = {} /\ DOMAIN storage = {} /\ DOMAIN cache = {} /\ stack = <<>>
  BY DEF Init
<1>2. HeapTyped(wrapper, storage, latestVersion)
  <2>1. latestVersion \in Nat
    BY DEF Init
  <2>2. IsFiniteSet(DOMAIN wrapper)
    BY <1>1, FS_EmptySet
  <2> QED
    BY <1>1, <2>1, <2>2 DEF HeapTyped
<1>3. DOMAIN wrapper = Referenced(held, cache, stack)
  <2>1. DOMAIN stack = {} /\ held = {}
    BY DEF Init
  <2>2. CacheRefs(cache) = {}
    BY <1>1 DEF CacheRefs
  <2>3. \A x : x \notin Referenced(held, cache, stack)
    BY <2>1, <2>2, InReferenced
  <2> QED
    BY <1>1, <2>3
<1>4. HeapInv
  BY <1>1, <1>2, <1>3 DEF HeapInv
<1>5. CacheInv(cache) /\ StackInv(wrapper, storage, stack)
  BY <1>1 DEF CacheInv, StackInv
<1>6. calls \in 0 .. MaxCalls /\ submits \in 0 .. MaxSubmits
  BY BoundsAssumption DEF Init
<1>7. aborted \in BOOLEAN
  BY DEF Init
<1> QED
  BY <1>4, <1>5, <1>6, <1>7 DEF ExecutorInv, CountsInv

\* What a step of the client may free: a tensor that it passes to
\* deallocateTensor, or to a toLayout that is not to retain it.
ClientFrees(w) ==
    \/ deallocateTensor(w)
    \/ \E same \in BOOLEAN : toLayout(w, same, <<FALSE>>)

MayFree(w) == w \in held /\ (wrapper[w].retain => ClientFrees(w))

\* Every call of the client.
LEMMA ClientKeeps ==
    ASSUME ProgramsWellFormed, ExecutorInv, Client
    PROVE  ExecutorInv' /\ \A w \in DOMAIN wrapper : Survives(w) \/ MayFree(w)
<1>1. CASE \E d \in Data : createOwnedHostTensor(d)
  BY <1>1, createOwnedHostTensorKeeps
<1>2. ASSUME NEW w \in held, NEW r \in BOOLEAN, setTensorRetain(w, r)
      PROVE  ExecutorInv' /\ \A x \in DOMAIN wrapper : Survives(x) \/ MayFree(x)
  BY <1>2, setTensorRetainKeeps
<1>3. ASSUME NEW w \in held, releaseHandle(w)
      PROVE  ExecutorInv' /\ \A x \in DOMAIN wrapper : Survives(x) \/ MayFree(x)
  BY <1>3, releaseHandleKeeps
<1>4. ASSUME NEW w \in held, NEW same \in BOOLEAN,
             NEW retain \in {<<>>, <<TRUE>>, <<FALSE>>}, toLayout(w, same, retain)
      PROVE  ExecutorInv' /\ \A x \in DOMAIN wrapper : Survives(x) \/ MayFree(x)
  <2>1. /\ ExecutorInv'
        /\ \A x \in DOMAIN wrapper :
              Survives(x) \/ (x = w /\ (wrapper[w].retain => retain = <<FALSE>>))
    BY <1>4, toLayoutKeeps
  <2>2. retain = <<FALSE>> => ClientFrees(w)
    BY <1>4, Zenon DEF ClientFrees
  <2> QED
    BY <2>1, <2>2, Zenon DEF MayFree
<1>5. ASSUME NEW w \in held, deallocateTensor(w)
      PROVE  ExecutorInv' /\ \A x \in DOMAIN wrapper : Survives(x) \/ MayFree(x)
  <2>1. ExecutorInv' /\ \A x \in DOMAIN wrapper : Survives(x) \/ x = w
    BY <1>5, deallocateTensorKeeps
  <2> QED
    BY <1>5, <2>1, Zenon DEF ClientFrees, MayFree
<1>6. ASSUME NEW w \in held, NEW src \in held, memcpy(w, src)
      PROVE  ExecutorInv' /\ \A x \in DOMAIN wrapper : Survives(x) \/ MayFree(x)
  BY <1>6, memcpyKeeps
<1>7. CASE clearCache
  BY <1>7, clearCacheKeeps
<1>8. CASE \E dev \in Devices, p \in DOMAIN Programs : removeFromCache(dev, p)
  BY <1>8, removeFromCacheKeeps
<1>9. ASSUME NEW p \in DOMAIN Programs, NEW dev \in Devices,
             NEW args \in [DOMAIN Programs[p].params -> held], submit(p, dev, args)
      PROVE  ExecutorInv' /\ \A x \in DOMAIN wrapper : Survives(x) \/ MayFree(x)
  BY <1>9, submitKeeps
<1> QED
  BY <1>1, <1>2, <1>3, <1>4, <1>5, <1>6, <1>7, <1>8, <1>9, Zenon DEF Client

\* Every step of an executor.
LEMMA ExecuteKeeps ==
    ASSUME ProgramsWellFormed, ExecutorInv, Execute
    PROVE  /\ ExecutorInv' /\ (finishConstEval \/ Passes)
           /\ \A w \in DOMAIN wrapper : Survives(w) \/ (InPool(w) /\ ~wrapper[w].retain)
<1>1. CASE runDeallocate
  <2>1. InPool(Arg(1))
    <3>1. Running /\ ~AtEnd(Top) /\ Op.op = "deallocate"
      BY <1>1 DEF runDeallocate, runOperation
    <3>2. Op.ins[1] \in DOMAIN Top.live /\ Arg(1) = Top.live[Op.ins[1]]
      BY <3>1, FirstOperand
    <3> QED
      BY <3>1, <3>2, TopInPool
  <2> QED
    BY <1>1, <2>1, runDeallocateKeeps
<1>2. CASE ~runDeallocate
  BY <1>2, runComputeKeeps, runViewKeeps, runInplaceKeeps,
     runLoadCachedHitKeeps, runLoadCachedMissKeeps, finishConstEvalKeeps,
     finishProgramKeeps, Zenon DEF Execute
<1> QED
  BY <1>1, <1>2

\* A stuttering step.
LEMMA StutterKeeps ==
    ASSUME ExecutorInv, UNCHANGED vars
    PROVE  ExecutorInv'
<1>1. /\ wrapper' = wrapper /\ storage' = storage /\ latestVersion' = latestVersion
      /\ held' = held /\ cache' = cache /\ stack' = stack
      /\ UNCHANGED <<calls, submits, aborted>>
  BY DEF vars
<1>2. HeapInv'
  BY <1>1 DEF ExecutorInv, HeapInv
<1>3. CacheInv(cache') /\ StackInv(wrapper', storage', stack')
  BY <1>1 DEF ExecutorInv
<1> QED
  BY <1>1, <1>2, <1>3, SameCounts DEF ExecutorInv

\* ExecutorInv is inductive.
LEMMA NextInv == ProgramsWellFormed /\ ExecutorInv /\ [Next]_vars => ExecutorInv'
  BY ClientKeeps, ExecuteKeeps, StutterKeeps DEF Next

-----------------------------------------------------------------------------
(* The cache                                                               *)

\* What the cache has is allocated, and neither the client nor an executor has
\* it: they have tensors that share its storage.  What a const-eval function
\* has computed and is going to return is not the client's either.
CachedInv ==
    /\ \A x \in CacheRefs(cache) : x \notin held /\ ~InPool(x) /\ is_allocated(x)
    /\ \A n \in DOMAIN stack \ {1} : \A v \in DOMAIN stack[n].live :
          v \notin ToSet(stack[n].fn.params) => stack[n].live[v] \notin held

\* A client that is handed no cached tensor, with no executor about.
LEMMA IdlePasses ==
    ASSUME stack' = <<>>, \A x \in CacheRefs(cache') : x \in CacheRefs(cache),
           \A w \in held' : w \in held \/ w \notin DOMAIN wrapper
    PROVE  Passes
<1>1. DOMAIN stack' = {}
  OBVIOUS
<1> QED
  BY <1>1 DEF Passes, Passed

\* The calls of the client.
LEMMA ClientPasses ==
    ASSUME ProgramsWellFormed, ExecutorInv, Client
    PROVE  Passes
<1>0. latestVersion \notin DOMAIN wrapper
  BY DEF ExecutorInv, HeapInv, HeapTyped
<1>1. ASSUME NEW d \in Data, createOwnedHostTensor(d)
      PROVE  Passes
  <2>1. stack' = <<>> /\ cache' = cache /\ held' = held \cup {latestVersion}
    BY <1>1 DEF createOwnedHostTensor, Settle, Call, Idle
  <2> QED
    BY <1>0, <2>1, IdlePasses
<1>2. ASSUME NEW w \in held, NEW r \in BOOLEAN, setTensorRetain(w, r)
      PROVE  Passes
  BY <1>2, IdlePasses DEF setTensorRetain, Call, Idle
<1>3. ASSUME NEW w \in held, releaseHandle(w)
      PROVE  Passes
  BY <1>3, IdlePasses DEF releaseHandle, Settle, Call, Idle
<1>4. ASSUME NEW w \in held, NEW same \in BOOLEAN,
             NEW retain \in {<<>>, <<TRUE>>, <<FALSE>>}, toLayout(w, same, retain)
      PROVE  Passes
  <2>1. stack' = <<>> /\ cache' = cache /\ held' = held \cup {latestVersion}
    BY <1>4 DEF toLayout, Settle, Call, Idle
  <2> QED
    BY <1>0, <2>1, IdlePasses
<1>5. ASSUME NEW w \in held, deallocateTensor(w)
      PROVE  Passes
  BY <1>5, IdlePasses DEF deallocateTensor, Call, Idle
<1>6. ASSUME NEW w \in held, NEW src \in held, memcpy(w, src)
      PROVE  Passes
  BY <1>6, IdlePasses DEF memcpy, Call, Idle
<1>7. CASE clearCache
  <2>1. stack' = <<>> /\ held' = held /\ DOMAIN cache' = {}
    BY <1>7 DEF clearCache, Settle, Call, Idle
  <2>2. \A x : x \notin CacheRefs(cache')
    BY <2>1 DEF CacheRefs
  <2> QED
    BY <2>1, <2>2, IdlePasses
<1>8. ASSUME NEW dev \in Devices, NEW p \in DOMAIN Programs, removeFromCache(dev, p)
      PROVE  Passes
  <2>1. /\ stack' = <<>> /\ held' = held
        /\ DOMAIN cache' \subseteq DOMAIN cache
        /\ \A k \in DOMAIN cache' : cache'[k] = cache[k]
    BY <1>8 DEF removeFromCache, Settle, Restrict, Call, Idle
  <2>2. \A x \in CacheRefs(cache') : x \in CacheRefs(cache)
    BY <2>1 DEF CacheRefs
  <2> QED
    BY <2>1, <2>2, IdlePasses
<1>9. ASSUME NEW p \in DOMAIN Programs, NEW dev \in Devices,
             NEW args \in [DOMAIN Programs[p].params -> held], submit(p, dev, args)
      PROVE  Passes
  BY <1>9, submitKeeps
<1> QED
  BY <1>1, <1>2, <1>3, <1>4, <1>5, <1>6, <1>7, <1>8, <1>9, Zenon DEF Client

\* A step that passes no cached tensor on frees none.
LEMMA PassesCached ==
    ASSUME ExecutorInv, ExecutorInv', CachedInv, Passes,
           \A w \in DOMAIN wrapper : Survives(w) \/ w \in held \/ InPool(w)
    PROVE  CachedInv'
<1>1. /\ held \subseteq DOMAIN wrapper
      /\ CacheRefs(cache) \subseteq DOMAIN wrapper
  BY RefsInHeap
<1>2. CacheRefs(cache') \subseteq DOMAIN wrapper'
  BY InReferenced DEF ExecutorInv, HeapInv
<1>3. ASSUME NEW x \in CacheRefs(cache')
      PROVE  x \notin held' /\ ~InPool(x)' /\ is_allocated(x)'
  <2>1. x \in CacheRefs(cache) /\ x \in DOMAIN wrapper /\ x \in DOMAIN wrapper'
    BY <1>1, <1>2, <1>3 DEF Passes
  <2>2. x \notin held /\ ~InPool(x) /\ is_allocated(x)
    BY <2>1 DEF CachedInv
  <2>3. ~Passed(x)
    BY <2>1, <2>2 DEF Passed
  <2>4. is_allocated(x)'
    BY <2>1, <2>2 DEF Survives
  <2>5. x \notin held'
    BY <2>3 DEF Passes
  <2>6. ~InPool(x)'
    BY <2>3 DEF Passes, InPool, Range
  <2> QED
    BY <2>4, <2>5, <2>6
<1>4. ASSUME NEW n \in DOMAIN stack' \ {1}, NEW v \in DOMAIN stack'[n].live,
             v \notin ToSet(stack'[n].fn.params)
      PROVE  stack'[n].live[v] \notin held'
  BY <1>1, <1>4 DEF Passes, CachedInv
<1> QED
  BY <1>3, <1>4 DEF CachedInv

\* What a const-eval function returns becomes the cache's alone.
LEMMA finishConstEvalCached ==
    ASSUME ProgramsWellFormed, ExecutorInv, CachedInv, finishConstEval
    PROVE  CachedInv'
<1> DEFINE outs == outputs(Top)
<1>1. ExecutorInv' /\ \A w \in DOMAIN wrapper : Survives(w)
  BY finishConstEvalKeeps
<1>2. /\ held' = held
      /\ \A x \in CacheRefs(cache') : x \in CacheRefs(cache) \/ x \in ToSet(outs)
      /\ DOMAIN stack' = {1}
      /\ \A w \in Range(stack'[1].live) :
            w \notin DOMAIN wrapper \/ w \in Range(stack[1].live)
  BY finishConstEvalKeeps DEF Returns
<1>3. /\ AtEndWithOutputs /\ Running /\ Len(stack) > 1
  BY DEF finishConstEval, AtEndWithOutputs
<1>4. Len(stack) = 2 /\ stack = <<stack[1], Top>> /\ Nested(wrapper, storage, stack[1], Top)
  BY <1>3, NestedStack
<1>5. DOMAIN stack = {1, 2} /\ stack[2] = Top
  BY <1>4
<1>6. WellFormed(Top.fn) /\ Top.fn.constEval
  BY <1>3, <1>4, TopFacts
<1>7. \A w \in ToSet(outs) :
         \E v \in DOMAIN Top.live : w = Top.live[v] /\ v \notin ToSet(Top.fn.params)
  <2>1. ToSet(Top.fn.ret) \cap ToSet(Top.fn.params) = {}
    BY <1>6 DEF WellFormed
  <2>2. \A w \in ToSet(outs) :
           \E v \in ToSet(Top.fn.ret) : v \in DOMAIN Top.live /\ w = Top.live[v]
    BY <1>3, OutputsInPool
  <2> QED
    BY <2>1, <2>2
<1>8. \A w \in ToSet(outs) : w \notin held /\ w \notin Range(stack[1].live)
  <2>1. ConstEvalOwns(stack[1], Top)
    BY <1>4, Zenon DEF Nested
  <2>2. \A v \in DOMAIN Top.live :
           v \notin ToSet(Top.fn.params) => Top.live[v] \notin Range(stack[1].live)
    BY <2>1, Zenon DEF ConstEvalOwns
  <2>3. 2 \in DOMAIN stack \ {1}
    BY <1>5
  <2>4. \A v \in DOMAIN stack[2].live :
           v \notin ToSet(stack[2].fn.params) => stack[2].live[v] \notin held
    BY <2>3, Zenon DEF CachedInv
  <2>5. \A v \in DOMAIN Top.live :
           v \notin ToSet(Top.fn.params) => Top.live[v] \notin held
    <3>1. stack[2] = Top
      BY <1>5
    <3> QED
      BY <2>4, <3>1, Zenon
  <2> HIDE DEF outs
  <2> QED
    BY <1>7, <2>2, <2>5, Zenon
<1>9. \A w \in ToSet(outs) : w \in DOMAIN wrapper /\ is_allocated(w)
  BY <1>3, OutputsInPool DEF Alive, is_allocated, ToSet
<1>10. CacheRefs(cache) \subseteq DOMAIN wrapper
  BY RefsInHeap
<1>11. CacheRefs(cache') \subseteq DOMAIN wrapper'
  BY <1>1, InReferenced DEF ExecutorInv, HeapInv
<1>12. ASSUME NEW x \in CacheRefs(cache')
       PROVE  x \notin held' /\ ~InPool(x)' /\ is_allocated(x)'
  <2>1. /\ x \in DOMAIN wrapper /\ is_allocated(x) /\ x \notin held
        /\ x \notin Range(stack[1].live)
    BY <1>2, <1>5, <1>8, <1>9, <1>10, <1>12 DEF CachedInv, InPool
  <2>2. is_allocated(x)'
    BY <1>1, <1>11, <1>12, <2>1 DEF Survives
  <2>3. ~InPool(x)'
    BY <1>2, <2>1 DEF InPool
  <2> QED
    BY <1>2, <2>1, <2>2, <2>3
<1>13. DOMAIN stack' \ {1} = {}
  BY <1>2
<1> QED
  BY <1>12, <1>13 DEF CachedInv

\* CachedInv is kept by every step.
LEMMA NextCached ==
    ASSUME ProgramsWellFormed, ExecutorInv, CachedInv, [Next]_vars
    PROVE  CachedInv'
<1>1. CASE Client
  <2>1. /\ ExecutorInv' /\ Passes
        /\ \A w \in DOMAIN wrapper : Survives(w) \/ MayFree(w)
    BY <1>1, ClientKeeps, ClientPasses
  <2> QED
    BY <2>1, PassesCached DEF MayFree
<1>2. CASE finishConstEval
  BY <1>2, finishConstEvalCached
<1>3. CASE Execute /\ ~finishConstEval
  BY <1>3, ExecuteKeeps, PassesCached
<1>4. CASE UNCHANGED vars
  <2>1. wrapper' = wrapper /\ storage' = storage /\ held' = held /\ cache' = cache /\ stack' = stack
    BY <1>4 DEF vars
  <2> QED
    BY <2>1 DEF CachedInv, InPool, is_allocated
<1> QED
  BY <1>1, <1>2, <1>3, <1>4 DEF Next

-----------------------------------------------------------------------------
(* Theorems                                                                *)

\* ExecutorInv holds in every state, whatever programs are in the binary and
\* whatever the client calls.
THEOREM ExecutorSafe == ProgramsInSSAForm => (Spec => []ExecutorInv)
<1>1. ASSUME ProgramsInSSAForm, ProgramsWellFormed PROVE Spec => []ExecutorInv
  <2>1. ExecutorInv /\ [Next]_vars => ExecutorInv'
    BY <1>1, NextInv
  <2> QED
    BY InitInv, <2>1, PTL DEF Spec
<1> QED
  BY <1>1, DeallocationSafe

\* No wrapper, storage, cache entry or executor has a dangling name, and
\* nothing stays alive that nothing refers to (TypeOK).
THEOREM TypeCorrect == ProgramsInSSAForm => (Spec => []TypeOK)
<1>1. ASSUME ProgramsInSSAForm, ProgramsWellFormed PROVE Spec => []TypeOK
  <2>1. ExecutorInv => TypeOK
    BY DEF ExecutorInv, HeapInv, HeapTyped, CountsInv, TypeOK
  <2>2. Spec => []ExecutorInv
    BY <1>1, ExecutorSafe
  <2> QED
    BY <2>1, <2>2, PTL
<1> QED
  BY <1>1, DeallocationSafe

\* A cached tensor stays allocated as long as the cache has it, though programs
\* deallocate the results of load_cached and clients their outputs.
THEOREM CacheSafe == ProgramsInSSAForm => (Spec => []CachedInv)
<1>1. ASSUME ProgramsInSSAForm, ProgramsWellFormed PROVE Spec => []CachedInv
  <2>1. Init => CachedInv
    <3>1. Init => DOMAIN cache = {} /\ DOMAIN stack = {}
      BY DEF Init
    <3> QED
      BY <3>1 DEF CachedInv, CacheRefs
  <2>2. ExecutorInv /\ CachedInv /\ [Next]_vars => CachedInv'
    BY <1>1, NextCached
  <2>3. Spec => []ExecutorInv
    BY <1>1, ExecutorSafe
  <2> QED
    BY <2>1, <2>2, <2>3, PTL DEF Spec
<1> QED
  BY <1>1, DeallocationSafe

\* The tensor pool's assertions never fire: whatever was freed, cached or
\* aliased before, each operand of the next operation, each output at the end
\* and each tensor of a cache hit is allocated, the operands and outputs in
\* the pool.
THEOREM OperandsStayAlive == ProgramsInSSAForm => (Spec => []OperandsAlive)
<1>1. ASSUME ProgramsInSSAForm, ProgramsWellFormed PROVE Spec => []OperandsAlive
  <2>1. ExecutorInv /\ CachedInv => OperandsAlive
    <3> SUFFICES ASSUME ExecutorInv, CachedInv, Running
                 PROVE  /\ AtEnd(Top) => \A v \in ToSet(Top.fn.ret) : validated(Top, v)
                        /\ ~AtEnd(Top) => \A v \in ToSet(Op.ins) : validated(Top, v)
                        /\ isHit(Top, Op) =>
                              \A w \in ToSet(cache[cacheKey(Top, Op.name)].tensors) :
                                 is_allocated(w)
      BY DEF OperandsAlive
    <3>1. FrameInv(Top) /\ WellFormed(Top.fn) /\ FrameAlive(wrapper, storage, Top)
      BY <1>1, TopFacts
    <3>2. \A v \in DOMAIN Top.live : validated(Top, v)
      BY <3>1 DEF FrameAlive, validated, is_allocated
    <3>3. ~AtEnd(Top) => ToSet(Op.ins) \subseteq DOMAIN Top.live
      BY <1>1, OpFacts
    <3>4. AtEnd(Top) => ToSet(Top.fn.ret) \subseteq DOMAIN Top.live
      <4>1. Len(Top.fn.body) \in Nat
        BY <3>1, SequenceFacts DEF WellFormed
      <4>2. AtEnd(Top) => Top.pc = Len(Top.fn.body) + 1
        BY <3>1, <4>1 DEF AtEnd, FrameInv
      <4> QED
        BY <3>1, <4>2 DEF FrameInv, WellFormed
    <3>5. isHit(Top, Op) =>
             \A w \in ToSet(cache[cacheKey(Top, Op.name)].tensors) : is_allocated(w)
      BY DEF isHit, CachedInv, CacheRefs
    <3> QED
      BY <3>2, <3>3, <3>4, <3>5
  <2>2. Spec => []ExecutorInv /\ []CachedInv
    BY <1>1, ExecutorSafe, CacheSafe
  <2> QED
    BY <2>1, <2>2, PTL
<1> QED
  BY <1>1, DeallocationSafe

\* A retained tensor that the client keeps stays allocated through every
\* submission, conversion and cache operation but deallocateTensor of it and a
\* toLayout of it that is told not to retain.
THEOREM RetainedStay == ProgramsInSSAForm => (Spec => RetainedSurvive)
<1>1. ASSUME ProgramsInSSAForm, ProgramsWellFormed PROVE Spec => RetainedSurvive
  <2> DEFINE Step == \A w \in held :
                 wrapper[w].retain /\ is_allocated(w) /\ w \in held' /\ ~is_allocated(w)' =>
                     \/ deallocateTensor(w)
                     \/ \E same \in BOOLEAN : toLayout(w, same, <<FALSE>>)
  <2>1. ExecutorInv /\ [Next]_vars => [Step]_vars
    <3>0. ASSUME ExecutorInv, ExecutorInv'
          PROVE  held \subseteq DOMAIN wrapper /\ held' \subseteq DOMAIN wrapper'
      BY <3>0, InReferenced DEF ExecutorInv, HeapInv
    <3>1. ASSUME ExecutorInv, Client PROVE Step
      <4>1. /\ ExecutorInv'
            /\ \A w \in DOMAIN wrapper : Survives(w) \/ MayFree(w)
        BY <1>1, <3>1, ClientKeeps
      <4>2. held \subseteq DOMAIN wrapper /\ held' \subseteq DOMAIN wrapper'
        BY <3>0, <3>1, <4>1
      <4> QED
        BY <4>1, <4>2, Zenon DEF Survives, MayFree, ClientFrees
    <3>2. ASSUME ExecutorInv, Execute PROVE Step
      <4>1. /\ ExecutorInv'
            /\ \A w \in DOMAIN wrapper : Survives(w) \/ (InPool(w) /\ ~wrapper[w].retain)
        BY <1>1, <3>2, ExecuteKeeps
      <4>2. held \subseteq DOMAIN wrapper /\ held' \subseteq DOMAIN wrapper'
        BY <3>0, <3>2, <4>1
      <4> QED
        BY <4>1, <4>2, Zenon DEF Survives
    <3> QED
      BY <3>1, <3>2 DEF Next
  <2>2. Spec => []ExecutorInv
    BY <1>1, ExecutorSafe
  <2> QED
    BY <2>1, <2>2, PTL DEF Spec, RetainedSurvive
<1> QED
  BY <1>1, DeallocationSafe

-----------------------------------------------------------------------------
(* Environments                                                            *)

\* The recursive function in ConstEvalValues exists.
LEMMA ConstEvalStep ==
    ASSUME NEW f, Len(f.body) \in Nat, NEW args, NEW dev
    PROVE  LET e == ConstEvalValues(f, args, dev)
           IN  /\ e[0] = Bind(f, args)
               /\ \A k \in 1 .. Len(f.body) : e[k] = Apply(f.body[k], e[k - 1], dev)
<1> DEFINE n == Len(f.body)
           At(e, k) == IF k = 0 THEN Bind(f, args) ELSE Apply(f.body[k], e[k - 1], dev)
           P(e, m) == e = [k \in 0 .. m |-> At(e, k)]
           T == {m \in Nat : \E e : P(e, m)}
<1>1. 0 \in T
  <2> DEFINE e == [k \in 0 .. 0 |-> Bind(f, args)]
  <2>1. P(e, 0)
    OBVIOUS
  <2> QED
    BY <2>1
<1>2. ASSUME NEW m \in Nat, m \in T PROVE m + 1 \in T
  <2>1. PICK e : P(e, m)
    BY <1>2
  <2> DEFINE g == [k \in 0 .. m + 1 |-> At(e, k)]
  <2>2. ASSUME NEW k \in 0 .. m PROVE g[k] = e[k]
    <3>1. k \in 0 .. m + 1
      OBVIOUS
    <3>2. e[k] = At(e, k)
      BY <2>1, Zenon
    <3>3. g[k] = At(e, k)
      BY <3>1, Zenon
    <3> QED
      BY <3>2, <3>3, Zenon
  <2> HIDE DEF g
  <2>3. ASSUME NEW k \in 0 .. m + 1, k # 0 PROVE g[k - 1] = e[k - 1]
    <3>1. k - 1 \in 0 .. m
      BY <2>3
    <3> QED
      BY <2>2, <3>1, Zenon
  <2>4. P(g, m + 1)
    <3>1. \A k \in 0 .. m + 1 : At(e, k) = At(g, k)
      BY <2>3
    <3> QED
      BY <3>1, Zenon DEF g
  <2>5. m + 1 \in Nat
    OBVIOUS
  <2> QED
    BY <2>4, <2>5, Zenon
<1>3. \A m \in Nat : m \in T
  <2> HIDE DEF T
  <2> QED
    BY <1>1, <1>2, Induct
<1> DEFINE env == CHOOSE e : P(e, n)
<1>4. P(env, n)
  BY <1>3
<1>5. ConstEvalValues(f, args, dev) = env
  BY DEF ConstEvalValues
<1> HIDE DEF env
<1>6. \A k \in 0 .. n : env[k] = At(env, k)
  BY <1>4, Zenon
<1>7. 0 \in 0 .. n /\ \A k \in 1 .. n : k \in 0 .. n /\ k # 0
  OBVIOUS
<1> QED
  BY <1>5, <1>6, <1>7, Zenon

\* One operation of a program, when nothing is cached.
ApplyOperation(o, env, dev) ==
    IF o.op = "load_cached" THEN ApplyLoadCached(o, env, dev) ELSE Apply(o, env, dev)

\* The recursive function in ProgramValues exists.
LEMMA ProgramStep ==
    ASSUME NEW f, Len(f.body) \in Nat, NEW args, NEW dev
    PROVE  LET e == ProgramValues(f, args, dev)
           IN  /\ e[0] = Bind(f, args)
               /\ \A k \in 1 .. Len(f.body) :
                     e[k] = ApplyOperation(f.body[k], e[k - 1], dev)
<1> DEFINE n == Len(f.body)
           At(e, k) == IF k = 0 THEN Bind(f, args)
                       ELSE IF f.body[k].op = "load_cached"
                       THEN ApplyLoadCached(f.body[k], e[k - 1], dev)
                       ELSE Apply(f.body[k], e[k - 1], dev)
           P(e, m) == e = [k \in 0 .. m |-> At(e, k)]
           T == {m \in Nat : \E e : P(e, m)}
<1>1. 0 \in T
  <2> DEFINE e == [k \in 0 .. 0 |-> Bind(f, args)]
  <2>1. P(e, 0)
    OBVIOUS
  <2> QED
    BY <2>1
<1>2. ASSUME NEW m \in Nat, m \in T PROVE m + 1 \in T
  <2>1. PICK e : P(e, m)
    BY <1>2
  <2> DEFINE g == [k \in 0 .. m + 1 |-> At(e, k)]
  <2>2. ASSUME NEW k \in 0 .. m PROVE g[k] = e[k]
    <3>1. k \in 0 .. m + 1
      OBVIOUS
    <3>2. e[k] = At(e, k)
      BY <2>1, Zenon
    <3>3. g[k] = At(e, k)
      BY <3>1, Zenon
    <3> QED
      BY <3>2, <3>3, Zenon
  <2> HIDE DEF g
  <2>3. ASSUME NEW k \in 0 .. m + 1, k # 0 PROVE g[k - 1] = e[k - 1]
    <3>1. k - 1 \in 0 .. m
      BY <2>3
    <3> QED
      BY <2>2, <3>1, Zenon
  <2>4. P(g, m + 1)
    <3>1. \A k \in 0 .. m + 1 : At(e, k) = At(g, k)
      BY <2>3
    <3> QED
      BY <3>1, Zenon DEF g
  <2>5. m + 1 \in Nat
    OBVIOUS
  <2> QED
    BY <2>4, <2>5, Zenon
<1>3. \A m \in Nat : m \in T
  <2> HIDE DEF T
  <2> QED
    BY <1>1, <1>2, Induct
<1> DEFINE env == CHOOSE e : P(e, n)
<1>4. P(env, n)
  BY <1>3
<1>5. ProgramValues(f, args, dev) = env
  BY DEF ProgramValues
<1> HIDE DEF env
<1>6. \A k \in 0 .. n : env[k] = At(env, k)
  BY <1>4, Zenon
<1>7. 0 \in 0 .. n /\ \A k \in 1 .. n : k \in 0 .. n /\ k # 0
  OBVIOUS
<1>8. \A k \in 1 .. n : env[k] = ApplyOperation(f.body[k], env[k - 1], dev)
  BY <1>6, <1>7, Zenon DEF ApplyOperation
<1> QED
  BY <1>5, <1>6, <1>7, <1>8, Zenon

\* A deallocate changes no value.
LEMMA ApplyDeallocate ==
    ASSUME NEW o, o.op = "deallocate", NEW env, NEW dev
    PROVE  Apply(o, env, dev) = env /\ ApplyOperation(o, env, dev) = env
<1>1. o.op # "compute" /\ o.op # "view" /\ o.op # "inplace" /\ o.op # "load_cached"
  OBVIOUS
<1>2. Apply(o, env, dev) = env
  BY <1>1 DEF Apply
<1> QED
  BY <1>1, <1>2 DEF ApplyOperation

\* A program computes the same before and after TTNNDeallocate.
LEMMA CompiledProgramValues ==
    ASSUME NEW f, InSSAForm(f), NEW g, g.params = f.params, NEW src, CompiledAs(f, g, src),
           NEW args, NEW dev
    PROVE  \A i \in 0 .. Len(g.body) :
              ProgramValues(g, args, dev)[i] = ProgramValues(f, args, dev)[src[i]]
<1> DEFINE N == Len(g.body)
           e == ProgramValues(f, args, dev)
           d == ProgramValues(g, args, dev)
           T == {i \in Nat : i <= N => d[i] = e[src[i]]}
<1>1. N \in Nat /\ Size(f) \in Nat /\ src \in [0 .. N -> 0 .. Size(f)]
  BY SSAFacts DEF CompiledAs, Size
<1>2. /\ e[0] = Bind(f, args) /\ d[0] = Bind(g, args)
      /\ \A k \in 1 .. Size(f) : e[k] = ApplyOperation(f.body[k], e[k - 1], dev)
      /\ \A k \in 1 .. N : d[k] = ApplyOperation(g.body[k], d[k - 1], dev)
  BY <1>1, ProgramStep DEF Size
<1> HIDE DEF N, e, d
<1>3. 0 \in T
  <2>1. Bind(g, args) = Bind(f, args)
    BY DEF Bind
  <2>2. src[0] = 0
    BY DEF CompiledAs
  <2> QED
    BY <1>2, <2>1, <2>2
<1>4. ASSUME NEW m \in Nat, m \in T PROVE m + 1 \in T
  <2> SUFFICES ASSUME m + 1 <= N PROVE d[m + 1] = e[src[m + 1]]
    OBVIOUS
  <2> DEFINE i == m + 1
  <2>1. i \in 1 .. N /\ i - 1 = m /\ m <= N /\ i \in 0 .. N /\ m \in 0 .. N
    BY <1>1
  <2>2. d[i] = ApplyOperation(g.body[i], d[m], dev) /\ d[m] = e[src[m]]
    BY <1>2, <1>4, <2>1
  <2>3. \/ src[i] = src[i - 1] + 1 /\ g.body[i] = f.body[src[i]]
        \/ src[i] = src[i - 1] /\ IsLastUse(f, src[i], g.body[i])
    BY <2>1 DEF CompiledAs, N
  <2>4. src[i] \in 0 .. Size(f) /\ src[m] \in 0 .. Size(f)
    BY <1>1, <2>1
  <2> HIDE DEF i
  <2>5. CASE src[i] = src[i - 1] + 1 /\ g.body[i] = f.body[src[i]]
    <3>1. src[i] \in 1 .. Size(f) /\ src[i] - 1 = src[m]
      BY <1>1, <2>1, <2>4, <2>5
    <3>2. e[src[i]] = ApplyOperation(f.body[src[i]], e[src[m]], dev)
      BY <1>2, <3>1
    <3> QED
      BY <2>2, <2>5, <3>2 DEF i
  <2>6. CASE src[i] = src[i - 1] /\ IsLastUse(f, src[i], g.body[i])
    <3>1. g.body[i].op = "deallocate"
      BY <2>6 DEF IsLastUse, DeallocateOp
    <3>2. ApplyOperation(g.body[i], d[m], dev) = d[m]
      BY <3>1, ApplyDeallocate
    <3> QED
      BY <2>1, <2>2, <2>6, <3>2 DEF i
  <2> QED
    BY <2>3, <2>5, <2>6
<1>5. \A i \in Nat : i \in T
  <2> HIDE DEF T
  <2> QED
    BY <1>3, <1>4, Induct
<1>6. \A i \in 0 .. N : i \in Nat /\ i <= N
  BY <1>1
<1> QED
  BY <1>5, <1>6 DEF N, e, d

\* A const-eval function computes the same with deallocations and without
\* (runOnOperation): environment i of the compiled function is the one of the
\* operation that its operation i comes from.
LEMMA CompiledConstEvalValues ==
    ASSUME NEW f, InSSAForm(f), NEW g, g.params = f.params, NEW src, CompiledAs(f, g, src),
           NEW args, NEW dev
    PROVE  \A i \in 0 .. Len(g.body) :
              ConstEvalValues(g, args, dev)[i] = ConstEvalValues(f, args, dev)[src[i]]
<1> DEFINE N == Len(g.body)
           e == ConstEvalValues(f, args, dev)
           d == ConstEvalValues(g, args, dev)
           T == {i \in Nat : i <= N => d[i] = e[src[i]]}
<1>1. N \in Nat /\ Size(f) \in Nat /\ src \in [0 .. N -> 0 .. Size(f)]
  BY SSAFacts DEF CompiledAs, Size
<1>2. /\ e[0] = Bind(f, args) /\ d[0] = Bind(g, args)
      /\ \A k \in 1 .. Size(f) : e[k] = Apply(f.body[k], e[k - 1], dev)
      /\ \A k \in 1 .. N : d[k] = Apply(g.body[k], d[k - 1], dev)
  BY <1>1, ConstEvalStep DEF Size
<1> HIDE DEF N, e, d
<1>3. 0 \in T
  <2>1. Bind(g, args) = Bind(f, args)
    BY DEF Bind
  <2>2. src[0] = 0
    BY DEF CompiledAs
  <2> QED
    BY <1>2, <2>1, <2>2
<1>4. ASSUME NEW m \in Nat, m \in T PROVE m + 1 \in T
  <2> SUFFICES ASSUME m + 1 <= N PROVE d[m + 1] = e[src[m + 1]]
    OBVIOUS
  <2> DEFINE i == m + 1
  <2>1. i \in 1 .. N /\ i - 1 = m /\ m <= N /\ i \in 0 .. N /\ m \in 0 .. N
    BY <1>1
  <2>2. d[i] = Apply(g.body[i], d[m], dev) /\ d[m] = e[src[m]]
    BY <1>2, <1>4, <2>1
  <2>3. \/ src[i] = src[i - 1] + 1 /\ g.body[i] = f.body[src[i]]
        \/ src[i] = src[i - 1] /\ IsLastUse(f, src[i], g.body[i])
    BY <2>1 DEF CompiledAs, N
  <2>4. src[i] \in 0 .. Size(f) /\ src[m] \in 0 .. Size(f)
    BY <1>1, <2>1
  <2> HIDE DEF i
  <2>5. CASE src[i] = src[i - 1] + 1 /\ g.body[i] = f.body[src[i]]
    <3>1. src[i] \in 1 .. Size(f) /\ src[i] - 1 = src[m]
      BY <1>1, <2>1, <2>4, <2>5
    <3>2. e[src[i]] = Apply(f.body[src[i]], e[src[m]], dev)
      BY <1>2, <3>1
    <3> QED
      BY <2>2, <2>5, <3>2 DEF i
  <2>6. CASE src[i] = src[i - 1] /\ IsLastUse(f, src[i], g.body[i])
    <3>1. g.body[i].op = "deallocate"
      BY <2>6 DEF IsLastUse, DeallocateOp
    <3>2. Apply(g.body[i], d[m], dev) = d[m]
      BY <3>1, ApplyDeallocate
    <3> QED
      BY <2>1, <2>2, <2>6, <3>2 DEF i
  <2> QED
    BY <2>3, <2>5, <2>6
<1>5. \A i \in Nat : i \in T
  <2> HIDE DEF T
  <2> QED
    BY <1>3, <1>4, Induct
<1>6. \A i \in 0 .. N : i \in Nat /\ i <= N
  BY <1>1
<1> QED
  BY <1>5, <1>6 DEF N, e, d

\* What the executor on top runs is compiled from a function in SSA form.
LEMMA TopCompiled ==
    ASSUME ProgramsInSSAForm, ExecutorInv, Running
    PROVE  \E f : InSSAForm(f) /\ Top.fn = TTNNDeallocate(f)
<1>1. CASE Outer(wrapper, storage, Top)
  BY <1>1 DEF Outer, Compiled, ProgramsInSSAForm
<1>2. CASE Outer(wrapper, storage, stack[1]) /\ Nested(wrapper, storage, stack[1], Top)
  <2> DEFINE o == stack[1].fn.body[stack[1].pc]
  <2>1. o.op = "load_cached" /\ Top.fn = CompiledConstEval[o.name]
    BY <1>2, Zenon DEF Nested
  <2>2. o.name \in DOMAIN ConstEval
    BY <1>2, <2>1, DeallocationSafe, LoadCachedFacts DEF Nested
  <2> QED
    BY <2>1, <2>2 DEF CompiledConstEval, ProgramsInSSAForm
<1> QED
  BY <1>1, <1>2, RunningStack

\* Every value of a program but its outputs met its deallocate, and nothing
\* else left the pool (PoolEmptied): TTNNDeallocate covers each value.
THEOREM PoolsEmptied == ProgramsInSSAForm => (Spec => []PoolEmptied)
<1>1. ASSUME ProgramsInSSAForm, ProgramsWellFormed PROVE Spec => []PoolEmptied
  <2>1. ExecutorInv => PoolEmptied
    <3> SUFFICES ASSUME ExecutorInv, Running, AtEnd(Top)
                 PROVE  DOMAIN Top.live = ToSet(Top.fn.ret)
                           \cup (IF Top.fn.constEval \/ Top.fn.body = <<>>
                                 THEN ToSet(Top.fn.params) ELSE {})
      BY DEF PoolEmptied
    <3> DEFINE g == Top.fn
    <3>1. PICK f : InSSAForm(f) /\ g = TTNNDeallocate(f)
      BY <1>1, TopCompiled
    <3>2. g.params = f.params /\ g.ret = f.ret /\ g.constEval = f.constEval
      BY <3>1, CompiledFields
    <3>3. PICK src : CompiledAs(f, g, src)
      BY <3>1, CompiledSource
    <3>4. isSequence(g.body)
      BY <3>1, CompiledSource
    <3>5. liveBefore(g, Len(g.body) + 1) =
             ToSet(f.ret) \cup (IF f.constEval \/ g.body = <<>> THEN ToSet(f.params) ELSE {})
      <4> HIDE DEF g
      <4> QED
        BY <3>1, <3>2, <3>3, <3>4, CompiledEnd
    <3>6. FrameInv(Top) /\ Len(g.body) \in Nat
      BY <1>1, <3>4, TopFacts, SequenceFacts
    <3>7. Top.pc = Len(g.body) + 1
      BY <3>6 DEF AtEnd, FrameInv
    <3> QED
      BY <3>2, <3>5, <3>6, <3>7 DEF FrameInv
  <2>2. Spec => []ExecutorInv
    BY <1>1, ExecutorSafe
  <2> QED
    BY <2>1, <2>2, PTL
<1> QED
  BY <1>1, DeallocationSafe

-----------------------------------------------------------------------------
(* Contents                                                                *)

Content(ws, ss, w) == ss[ws[w].tensor].data

\* A wrapper's version is its name: nothing updates it.
VersionInv(ws) == \A w \in DOMAIN ws : ws[w].version = w

\* SharedWithCache(w), for wrappers ws and cache c.
InCache(ws, c, w) ==
    \E k \in DOMAIN c, y \in DOMAIN ws :
        /\ ws[y].tensor = ws[w].tensor
        /\ \/ y \in ToSet(c[k].tensors)
           \/ ws[y].version \in ToSet(c[k].inputVersions)

\* The tensors of cache entry e at key k are what the const-eval function
\* computes on the contents of those inputs of the entry that still exist.
EntryValues(ws, ss, v, k, e) ==
    /\ \A n \in DOMAIN e.inputVersions : e.inputVersions[n] \in 0 .. v - 1
    /\ \E args :
          /\ args = [n \in DOMAIN e.inputVersions |-> args[n]]
          /\ \A n \in DOMAIN e.inputVersions : e.inputVersions[n] \in DOMAIN ws =>
                Content(ws, ss, e.inputVersions[n]) = args[n]
          /\ \A n \in DOMAIN e.tensors :
                Content(ws, ss, e.tensors[n]) =
                    ConstEvalValue(ConstEval[k.callee], args, k.dev)[n]

\* A step keeps the tensor and version of a wrapper, names new ones by their
\* versions, and writes nothing that the cache shares.
HeapSteps ==
    /\ latestVersion' \in Nat /\ latestVersion <= latestVersion'
    /\ \A w \in DOMAIN wrapper' :
          IF w \in DOMAIN wrapper
             THEN /\ wrapper'[w].tensor = wrapper[w].tensor
                  /\ wrapper'[w].version = wrapper[w].version
                  /\ \/ Content(wrapper', storage', w) = Content(wrapper, storage, w)
                     \/ ~InCache(wrapper, cache, w)
             ELSE w \in latestVersion .. latestVersion' - 1 /\ wrapper'[w].version = w

\* Versions stay the wrappers' names.
LEMMA VersionKept ==
    ASSUME HeapSteps, VersionInv(wrapper)
    PROVE  VersionInv(wrapper')
  BY DEF HeapSteps, VersionInv

\* An entry that stays in the cache keeps its values.
LEMMA EntryKept ==
    ASSUME ExecutorInv, HeapSteps, VersionInv(wrapper), NEW k \in DOMAIN cache,
           EntryValues(wrapper, storage, latestVersion, k, cache[k]),
           ToSet(cache[k].tensors) \subseteq DOMAIN wrapper,
           ToSet(cache[k].tensors) \subseteq DOMAIN wrapper'
    PROVE  EntryValues(wrapper', storage', latestVersion', k, cache[k])
<1> DEFINE e == cache[k]
           iv == e.inputVersions
<1>1. latestVersion \in Nat
  BY DEF ExecutorInv, HeapInv, HeapTyped
<1>2. \A n \in DOMAIN iv : iv[n] \in 0 .. latestVersion - 1
  BY DEF EntryValues
<1>3. PICK args :
         /\ args = [n \in DOMAIN iv |-> args[n]]
         /\ \A n \in DOMAIN iv : iv[n] \in DOMAIN wrapper =>
               Content(wrapper, storage, iv[n]) = args[n]
         /\ \A n \in DOMAIN e.tensors :
               Content(wrapper, storage, e.tensors[n]) =
                   ConstEvalValue(ConstEval[k.callee], args, k.dev)[n]
  BY Zenon DEF EntryValues
<1>4. \A n \in DOMAIN iv : iv[n] \in 0 .. latestVersion' - 1
  BY <1>1, <1>2 DEF HeapSteps
<1>5. ASSUME NEW w \in DOMAIN wrapper, w \in DOMAIN wrapper',
             w \in ToSet(e.tensors) \/ w \in ToSet(iv)
      PROVE  Content(wrapper', storage', w) = Content(wrapper, storage, w)
  <2>1. wrapper[w].version = w
    BY DEF VersionInv
  <2>2. InCache(wrapper, cache, w)
    BY <1>5, <2>1 DEF InCache
  <2> QED
    BY <1>5, <2>2 DEF HeapSteps
<1>6. ASSUME NEW n \in DOMAIN iv, iv[n] \in DOMAIN wrapper'
      PROVE  Content(wrapper', storage', iv[n]) = args[n]
  <2>1. iv[n] \in DOMAIN wrapper
    BY <1>1, <1>2, <1>6 DEF HeapSteps
  <2>2. iv[n] \in ToSet(iv)
    BY DEF ToSet
  <2> HIDE DEF iv
  <2>3. Content(wrapper', storage', iv[n]) = Content(wrapper, storage, iv[n])
    BY <1>5, <1>6, <2>1, <2>2, Zenon
  <2> QED
    BY <1>3, <2>1, <2>3
<1>7. ASSUME NEW n \in DOMAIN e.tensors
      PROVE  Content(wrapper', storage', e.tensors[n]) =
                ConstEvalValue(ConstEval[k.callee], args, k.dev)[n]
  <2>1. e.tensors[n] \in ToSet(e.tensors)
    BY DEF ToSet
  <2>2. e.tensors[n] \in DOMAIN wrapper /\ e.tensors[n] \in DOMAIN wrapper'
    BY <2>1
  <2> HIDE DEF e
  <2>3. Content(wrapper', storage', e.tensors[n]) = Content(wrapper, storage, e.tensors[n])
    BY <1>5, <2>1, <2>2, Zenon
  <2> QED
    BY <1>3, <2>3
<1> HIDE DEF e
<1> QED
  BY <1>3, <1>4, <1>6, <1>7, Zenon DEF EntryValues, e

\* A storage that is not shared with the cache becomes shared only with a new
\* entry of it.
LEMMA SharedKept ==
    ASSUME ExecutorInv, HeapSteps, CacheRefs(cache) \subseteq DOMAIN wrapper,
           \A k \in DOMAIN cache :
              EntryValues(wrapper, storage, latestVersion, k, cache[k]),
           NEW w \in DOMAIN wrapper, w \in DOMAIN wrapper', InCache(wrapper', cache', w),
           ~InCache(wrapper, cache, w)
    PROVE  \E k \in DOMAIN cache', y \in DOMAIN wrapper' :
              /\ ~(k \in DOMAIN cache /\ cache'[k] = cache[k])
              /\ wrapper'[y].tensor = wrapper[w].tensor
              /\ \/ y \in ToSet(cache'[k].tensors)
                 \/ wrapper'[y].version \in ToSet(cache'[k].inputVersions)
<1>1. PICK k \in DOMAIN cache', y \in DOMAIN wrapper' :
         /\ wrapper'[y].tensor = wrapper'[w].tensor
         /\ \/ y \in ToSet(cache'[k].tensors)
            \/ wrapper'[y].version \in ToSet(cache'[k].inputVersions)
  BY DEF InCache
<1>2. wrapper'[w].tensor = wrapper[w].tensor
  BY DEF HeapSteps
<1>3. CASE k \in DOMAIN cache /\ cache'[k] = cache[k]
  <2>1. latestVersion \in Nat
    BY DEF ExecutorInv, HeapInv, HeapTyped
  <2>2. \A n \in DOMAIN cache[k].inputVersions :
           cache[k].inputVersions[n] \in 0 .. latestVersion - 1
    BY <1>3, Zenon DEF EntryValues
  <2>3. y \in DOMAIN wrapper
    <3> SUFFICES ASSUME y \notin DOMAIN wrapper PROVE FALSE
      OBVIOUS
    <3>1. y \in latestVersion .. latestVersion' - 1 /\ wrapper'[y].version = y
      BY DEF HeapSteps
    <3>2. y \notin ToSet(cache[k].tensors)
      BY <1>3 DEF CacheRefs
    <3>3. y \in ToSet(cache[k].inputVersions)
      BY <1>1, <1>3, <3>1, <3>2
    <3>4. y \in 0 .. latestVersion - 1
      BY <2>2, <3>3 DEF ToSet
    <3> QED
      BY <2>1, <3>1, <3>4
  <2>4. wrapper'[y].tensor = wrapper[y].tensor /\ wrapper'[y].version = wrapper[y].version
    BY <2>3 DEF HeapSteps
  <2>5. InCache(wrapper, cache, w)
    BY <1>1, <1>2, <1>3, <2>3, <2>4 DEF InCache
  <2> QED
    BY <2>5
<1> QED
  BY <1>1, <1>2, <1>3

\* Executor fr is going to overwrite value x.
WrittenFrom(fr, x) ==
    \E k \in DOMAIN fr.fn.body :
        /\ fr.pc <= k
        /\ fr.fn.body[k].op = "inplace" /\ fr.fn.body[k].ins[1] = x

\* The values of a pool have the contents that env says.
PoolHolds(ws, ss, live, env) ==
    \A v \in DOMAIN live : v \in DOMAIN env /\ Content(ws, ss, live[v]) = env[v]

\* The pool of a program has what the program has computed so far without the
\* cache, on the arguments that its promise is about.
OuterValues(ws, ss, fr) ==
    \E args :
        /\ fr.promised = ProgramValue(Programs[fr.prog], args, fr.dev)
        /\ PoolHolds(ws, ss, fr.live, ProgramValues(fr.fn, args, fr.dev)[fr.pc - 1])

\* No other value of a program, and nothing in the cache, shares the storage of
\* a value that the program is going to overwrite.
Separate(ws, c, fr) ==
    \A x \in DOMAIN fr.live : WrittenFrom(fr, x) =>
        /\ \A v \in DOMAIN fr.live :
              v # x => ws[fr.live[v]].tensor # ws[fr.live[x]].tensor
        /\ ~InCache(ws, c, fr.live[x])

\* The operands of the load_cached that caller is at, and their contents.
LoadedFrom(caller) ==
    [n \in DOMAIN caller.fn.body[caller.pc].ins |->
        caller.live[caller.fn.body[caller.pc].ins[n]]]
LoadedContents(ws, ss, caller) ==
    [n \in DOMAIN caller.fn.body[caller.pc].ins |->
        Content(ws, ss, caller.live[caller.fn.body[caller.pc].ins[n]])]

\* The pool of a const-eval function has what it computes on the operands of
\* the load_cached that called it.
NestedValues(ws, ss, caller, fr) ==
    /\ fr.dev = caller.dev
    /\ fr.versions = LoadedFrom(caller)
    /\ PoolHolds(ws, ss, fr.live,
           ConstEvalValues(fr.fn, LoadedContents(ws, ss, caller), fr.dev)[fr.pc - 1])

\* Nothing in it shares the storage of a value that the caller is going to
\* overwrite.
NestedSeparate(ws, caller, fr) ==
    \A x \in DOMAIN caller.live : WrittenFrom(caller, x) =>
        \A v \in DOMAIN fr.live : ws[fr.live[v]].tensor # ws[caller.live[x]].tensor

\* What the pools and the cache hold is what the programs compute, and what a
\* program is going to overwrite is nobody else's.
ValuesInv ==
    /\ VersionInv(wrapper)
    /\ \A k \in DOMAIN cache : EntryValues(wrapper, storage, latestVersion, k, cache[k])
    /\ stack # <<>> =>
          OuterValues(wrapper, storage, stack[1]) /\ Separate(wrapper, cache, stack[1])
    /\ Len(stack) = 2 =>
          /\ NestedValues(wrapper, storage, stack[1], stack[2])
          /\ NestedSeparate(wrapper, stack[1], stack[2])
    /\ agreed

\* Entries that stay in the cache keep their values.
LEMMA EntriesKept ==
    ASSUME ExecutorInv, ExecutorInv', HeapSteps, ValuesInv,
           NEW k \in DOMAIN cache', k \in DOMAIN cache, cache'[k] = cache[k]
    PROVE  EntryValues(wrapper', storage', latestVersion', k, cache'[k])
<1>1. CacheRefs(cache) \subseteq DOMAIN wrapper /\ CacheRefs(cache') \subseteq DOMAIN wrapper'
  <2>1. CacheRefs(cache) \subseteq DOMAIN wrapper
    BY RefsInHeap
  <2>2. CacheRefs(cache') \subseteq DOMAIN wrapper'
    BY InReferenced DEF ExecutorInv, HeapInv
  <2> QED
    BY <2>1, <2>2
<1>2. ToSet(cache[k].tensors) \subseteq DOMAIN wrapper
  BY <1>1 DEF CacheRefs
<1>3. ToSet(cache[k].tensors) \subseteq DOMAIN wrapper'
  BY <1>1 DEF CacheRefs
<1>4. EntryValues(wrapper', storage', latestVersion', k, cache[k])
  BY <1>2, <1>3, EntryKept DEF ValuesInv
<1> QED
  BY <1>4

\* A step that adds nothing to the cache, with no executor about afterwards.
LEMMA IdleKeeps ==
    ASSUME ExecutorInv, ExecutorInv', HeapSteps, ValuesInv, stack' = <<>>, agreed',
           \A k \in DOMAIN cache' : k \in DOMAIN cache /\ cache'[k] = cache[k]
    PROVE  ValuesInv'
<1>1. VersionInv(wrapper')
  BY VersionKept DEF ValuesInv
<1>2. \A k \in DOMAIN cache' :
         EntryValues(wrapper', storage', latestVersion', k, cache'[k])
  BY EntriesKept
<1>3. stack' = <<>> /\ Len(stack') # 2
  OBVIOUS
<1> QED
  BY <1>1, <1>2, <1>3 DEF ValuesInv

-----------------------------------------------------------------------------
(* Steps on the heap                                                       *)

\* ws, ss has the wrappers of the heap with their contents, perhaps others
\* that are newer, less than v.
Grows(ws, ss, v) ==
    /\ v \in Nat /\ latestVersion <= v
    /\ \A w \in DOMAIN ws :
          IF w \in DOMAIN wrapper
             THEN /\ ws[w].tensor = wrapper[w].tensor
                  /\ ws[w].version = wrapper[w].version
                  /\ Content(ws, ss, w) = Content(wrapper, storage, w)
             ELSE w \in latestVersion .. v - 1 /\ ws[w].version = w

\* The heap after a step is what ws, ss has of what is still referred to.
Settled(ws, ss) ==
    \A w \in DOMAIN wrapper' :
        /\ w \in DOMAIN ws /\ wrapper'[w] = ws[w]
        /\ Content(wrapper', storage', w) = Content(ws, ss, w)

\* What was there and is still there has kept its contents.
KeepsContents ==
    \A w \in DOMAIN wrapper : w \in DOMAIN wrapper' =>
        Content(wrapper', storage', w) = Content(wrapper, storage, w)

\* A step that ends with what is still referred to of a heap that has grown
\* changes no contents (Settle).
LEMMA SettleSteps ==
    ASSUME NEW ws, NEW ss, NEW h, NEW c, NEW stk, Settle(ws, ss, h, c, stk),
           Referenced(h, c, stk) \subseteq DOMAIN ws, Grows(ws, ss, latestVersion')
    PROVE  HeapSteps /\ Settled(ws, ss) /\ KeepsContents
<1> DEFINE alive == Referenced(h, c, stk)
<1>1. wrapper' = Restrict(ws, alive) /\ storage' = Restrict(ss, {ws[w].tensor : w \in alive})
  BY DEF Settle
<1> HIDE DEF alive
<1>2. DOMAIN wrapper' = alive /\ \A w \in alive : wrapper'[w] = ws[w]
  BY <1>1 DEF Restrict
<1>3. \A w \in alive : storage'[ws[w].tensor] = ss[ws[w].tensor]
  BY <1>1 DEF Restrict
<1>4. Settled(ws, ss)
  BY <1>2, <1>3 DEF Settled, Content, alive
<1>5. HeapSteps
  BY <1>4, Zenon DEF Settled, Grows, HeapSteps
<1>6. KeepsContents
  BY <1>4, Zenon DEF Settled, Grows, KeepsContents
<1> QED
  BY <1>4, <1>5, <1>6

\* A fresh storage is a new one.
LEMMA FreshStorage == ASSUME ExecutorInv PROVE freshStorage \notin DOMAIN storage
<1> DEFINE S == DOMAIN storage
           n == Cardinality(S)
<1>1. IsFiniteSet(S)
  <2> DEFINE g == [w \in DOMAIN wrapper |-> wrapper[w].tensor]
  <2>1. S = {wrapper[w].tensor : w \in DOMAIN wrapper} /\ IsFiniteSet(DOMAIN wrapper)
    BY DEF ExecutorInv, HeapInv, HeapTyped
  <2>2. g \in Surjection(DOMAIN wrapper, S)
    BY <2>1 DEF Surjection
  <2> QED
    BY <2>1, <2>2, FS_Surjection
<1> HIDE DEF S
<1>2. n \in Nat
  BY <1>1, FS_CardinalityType
<1> HIDE DEF n
<1>3. \E s \in 1 .. n + 1 : s \notin S
  <2> SUFFICES ASSUME \A s \in 1 .. n + 1 : s \in S PROVE FALSE
    OBVIOUS
  <2> DEFINE T == 1 .. n + 1
  <2>1. T \in SUBSET S
    OBVIOUS
  <2>2. Cardinality(T) = n + 1
    <3>1. 1 \in Int /\ n + 1 \in Int /\ ~(1 > n + 1) /\ (n + 1) - 1 + 1 = n + 1
      BY <1>2
    <3> QED
      BY <3>1, FS_Interval
  <2> HIDE DEF T
  <2>3. Cardinality(T) <= n
    BY <1>1, <2>1, FS_Subset DEF n
  <2> QED
    BY <1>2, <2>2, <2>3
<1> QED
  BY <1>3 DEF freshStorage, S, n

\* A wrapper of a fresh storage with contents d, or of storage t as it is.
LEMMA NewTensorGrows ==
    ASSUME ExecutorInv, NEW t, NEW d, NEW r,
           t \notin DOMAIN storage \/ d = storage[t].data,
           NEW ws, ws = With(wrapper, latestVersion, TTNNTensorWrapper(t, r, latestVersion)),
           NEW ss, ss = With(storage, t, allocatedWith(d))
    PROVE  /\ Grows(ws, ss, latestVersion + 1)
           /\ DOMAIN ws = DOMAIN wrapper \cup {latestVersion}
           /\ ws[latestVersion].tensor = t
           /\ Content(ws, ss, latestVersion) = d
<1> DEFINE v == latestVersion
<1>1. /\ DOMAIN ws = DOMAIN wrapper \cup {v}
      /\ ws[v] = TTNNTensorWrapper(t, r, v)
      /\ \A w \in DOMAIN wrapper : w # v => ws[w] = wrapper[w]
  BY DEF With
<1>2. ss[t] = allocatedWith(d) /\ \A s \in DOMAIN storage : s # t => ss[s] = storage[s]
  BY DEF With
<1>3. v \in Nat /\ v \notin DOMAIN wrapper
      /\ \A w \in DOMAIN wrapper : wrapper[w].tensor \in DOMAIN storage
  BY DEF ExecutorInv, HeapInv, HeapTyped
<1>4. ws[v].tensor = t /\ ws[v].version = v
  BY <1>1, WrapperFields
<1>5. ss[t].data = d
  BY <1>2 DEF allocatedWith
<1>6. ASSUME NEW w \in DOMAIN wrapper
      PROVE  ws[w] = wrapper[w] /\ Content(ws, ss, w) = Content(wrapper, storage, w)
  <2>1. ws[w] = wrapper[w] /\ wrapper[w].tensor \in DOMAIN storage
    BY <1>1, <1>3
  <2>2. CASE wrapper[w].tensor = t
    BY <1>5, <2>1, <2>2 DEF Content
  <2>3. CASE wrapper[w].tensor # t
    BY <1>2, <2>1, <2>3 DEF Content
  <2> QED
    BY <2>1, <2>2, <2>3
<1>7. v + 1 \in Nat /\ v <= v + 1 /\ v \in v .. v + 1 - 1
  BY <1>3
<1>8. Grows(ws, ss, latestVersion + 1)
  BY <1>1, <1>3, <1>4, <1>6, <1>7 DEF Grows
<1> QED
  BY <1>1, <1>4, <1>5, <1>8 DEF Content

\* A wrapper of storage t, which stays as it is.
LEMMA NewViewGrows ==
    ASSUME ExecutorInv, NEW t, NEW r,
           NEW ws, ws = With(wrapper, latestVersion, TTNNTensorWrapper(t, r, latestVersion))
    PROVE  /\ Grows(ws, storage, latestVersion + 1)
           /\ DOMAIN ws = DOMAIN wrapper \cup {latestVersion}
           /\ ws[latestVersion].tensor = t
<1> DEFINE v == latestVersion
<1>1. /\ DOMAIN ws = DOMAIN wrapper \cup {v}
      /\ ws[v] = TTNNTensorWrapper(t, r, v)
      /\ \A w \in DOMAIN wrapper : w # v => ws[w] = wrapper[w]
  BY DEF With
<1>2. v \in Nat /\ v \notin DOMAIN wrapper
  BY DEF ExecutorInv, HeapInv, HeapTyped
<1>3. ws[v].tensor = t /\ ws[v].version = v
  BY <1>1, WrapperFields
<1>4. v + 1 \in Nat /\ v <= v + 1 /\ v \in v .. v + 1 - 1
  BY <1>2
<1>5. Grows(ws, storage, latestVersion + 1)
  BY <1>1, <1>2, <1>3, <1>4 DEF Grows, Content
<1> QED
  BY <1>1, <1>3, <1>5

\* A deallocate frees a storage and changes no contents.
LEMMA DeallocateContents ==
    ASSUME ExecutorInv, NEW ws, NEW ss,
           \A s \in DOMAIN ss : DOMAIN ss[s] = {"data", "allocated"},
           NEW w, NEW ss2, ss2 = deallocate(ss, w)
    PROVE  DOMAIN ss2 = DOMAIN ss /\ \A s \in DOMAIN ss : ss2[s].data = ss[s].data
<1>1. CASE ss2 = ss
  BY <1>1
<1>2. CASE ss2 = [ss EXCEPT ![wrapper[w].tensor].allocated = FALSE]
  <2> DEFINE t == wrapper[w].tensor
  <2>1. DOMAIN ss2 = DOMAIN ss /\ \A s \in DOMAIN ss : s # t => ss2[s] = ss[s]
    BY <1>2
  <2>2. t \in DOMAIN ss => ss2[t] = [ss[t] EXCEPT !.allocated = FALSE]
    BY <1>2
  <2>3. t \in DOMAIN ss => ss2[t].data = ss[t].data
    BY <2>2
  <2> QED
    BY <2>1, <2>3
<1> QED
  BY <1>1, <1>2 DEF deallocate

\* Freeing a storage leaves the rest of Grows as it is.
LEMMA DeallocateGrows ==
    ASSUME ExecutorInv, NEW ws, NEW ss, NEW v, HeapTyped(ws, ss, v), Grows(ws, ss, v),
           NEW w, NEW ss2, ss2 = deallocate(ss, w)
    PROVE  /\ Grows(ws, ss2, v)
           /\ \A x \in DOMAIN ws : Content(ws, ss2, x) = Content(ws, ss, x)
<1>1. \A s \in DOMAIN ss : DOMAIN ss[s] = {"data", "allocated"}
  BY DEF HeapTyped
<1>2. \A s \in DOMAIN ss : ss2[s].data = ss[s].data
  BY <1>1, DeallocateContents
<1>3. \A x \in DOMAIN ws : Content(ws, ss2, x) = Content(ws, ss, x)
  BY <1>2 DEF Content, HeapTyped
<1> QED
  BY <1>3 DEF Grows

\* The heap as it is.
LEMMA SameGrows == ASSUME ExecutorInv PROVE Grows(wrapper, storage, latestVersion)
<1>1. latestVersion \in Nat /\ latestVersion <= latestVersion
  BY DEF ExecutorInv, HeapInv, HeapTyped
<1> QED
  BY <1>1 DEF Grows

\* A step that keeps every wrapper's tensor, version and contents.
LEMMA SameSteps ==
    ASSUME ExecutorInv, latestVersion' = latestVersion, DOMAIN wrapper' = DOMAIN wrapper,
           \A w \in DOMAIN wrapper :
              /\ wrapper'[w].tensor = wrapper[w].tensor
              /\ wrapper'[w].version = wrapper[w].version
              /\ Content(wrapper', storage', w) = Content(wrapper, storage, w)
    PROVE  HeapSteps /\ KeepsContents
<1>1. latestVersion' \in Nat /\ latestVersion <= latestVersion'
  BY DEF ExecutorInv, HeapInv, HeapTyped
<1>2. HeapSteps
  BY <1>1 DEF HeapSteps
<1> QED
  BY <1>2 DEF KeepsContents

\* A step that writes the storage of wrapper x, which the cache does not share.
LEMMA WriteSteps ==
    ASSUME ExecutorInv, NEW x \in DOMAIN wrapper, NEW d, ~InCache(wrapper, cache, x),
           latestVersion' = latestVersion, wrapper' = wrapper,
           storage' = [storage EXCEPT ![wrapper[x].tensor].data = d]
    PROVE  /\ HeapSteps
           /\ \A w \in DOMAIN wrapper :
                 Content(wrapper', storage', w) =
                    IF wrapper[w].tensor = wrapper[x].tensor THEN d
                    ELSE Content(wrapper, storage, w)
<1> DEFINE t == wrapper[x].tensor
<1>1. /\ latestVersion \in Nat /\ latestVersion <= latestVersion
      /\ \A w \in DOMAIN wrapper : wrapper[w].tensor \in DOMAIN storage
      /\ DOMAIN storage[t] = {"data", "allocated"}
  BY DEF ExecutorInv, HeapInv, HeapTyped
<1>2. \A s \in DOMAIN storage : s # t => storage'[s] = storage[s]
  OBVIOUS
<1>3. storage'[t] = [storage[t] EXCEPT !.data = d]
  BY <1>1
<1>4. storage'[t].data = d
  BY <1>1, <1>3
<1>5. ASSUME NEW w \in DOMAIN wrapper
      PROVE  Content(wrapper', storage', w) =
                IF wrapper[w].tensor = t THEN d ELSE Content(wrapper, storage, w)
  BY <1>1, <1>2, <1>4 DEF Content
<1>6. ASSUME NEW w \in DOMAIN wrapper, wrapper[w].tensor = t
      PROVE  ~InCache(wrapper, cache, w)
  BY <1>6 DEF InCache
<1> HIDE DEF t
<1>7. HeapSteps
  BY <1>1, <1>5, <1>6 DEF HeapSteps
<1> QED
  BY <1>5, <1>7 DEF t

-----------------------------------------------------------------------------
(* Values and the client's calls                                           *)

\* A call of the client that ends with what it and the cache still refer to of
\* a heap that has grown.
LEMMA ClientSteps ==
    ASSUME ExecutorInv, stack = <<>>, NEW ws, NEW ss, NEW h, NEW c,
           Settle(ws, ss, h, c, stack), Grows(ws, ss, latestVersion'),
           h \subseteq DOMAIN ws, CacheRefs(c) \subseteq DOMAIN ws
    PROVE  HeapSteps /\ stack' = <<>> /\ cache' = c
<1>1. \A n \in DOMAIN stack : FrameRefs(stack[n]) \subseteq DOMAIN ws
  OBVIOUS
<1>2. Referenced(h, c, stack) \subseteq DOMAIN ws
  BY <1>1, RefsWithin
<1> QED
  BY <1>2, SettleSteps DEF Settle

\* A toLayout of the client adds a tensor that shares the storage of its argument
\* or has a copy of its contents, and takes nothing out of the cache (toLayout).
LEMMA toLayoutSteps ==
    ASSUME ExecutorInv, NEW w \in held, NEW same \in BOOLEAN,
           NEW retain \in {<<>>, <<TRUE>>, <<FALSE>>},
           toLayout(w, same, retain)
    PROVE  HeapSteps /\ stack' = <<>> /\ cache' = cache
<1> DEFINE r == IF retain = <<>> THEN wrapper[w].retain ELSE retain[1]
           t == IF same THEN wrapper[w].tensor ELSE freshStorage
           ws == With(wrapper, latestVersion, TTNNTensorWrapper(t, r, latestVersion))
           ss == With(storage, t, allocatedWith(contents(w)))
           ss2 == IF r \/ same THEN ss ELSE deallocate(ss, w)
           h == held \cup {latestVersion}
<1>1. /\ Settle(ws, ss2, h, cache, stack) /\ Idle
      /\ latestVersion' = latestVersion + 1
  BY DEF toLayout, Call
<1>2. /\ stack = <<>> /\ HeapTyped(wrapper, storage, latestVersion)
      /\ held \subseteq DOMAIN wrapper /\ CacheRefs(cache) \subseteq DOMAIN wrapper
  BY <1>1, IdleFacts
<1>3. r \in BOOLEAN
  <2>1. wrapper[w].retain \in BOOLEAN
    BY <1>2 DEF HeapTyped
  <2>2. CASE retain = <<>>
    BY <2>1, <2>2
  <2>3. CASE retain = <<TRUE>>
    <3>1. retain # <<>> /\ retain[1] = TRUE
      BY <2>3
    <3> QED
      BY <3>1
  <2>4. CASE retain = <<FALSE>>
    <3>1. retain # <<>> /\ retain[1] = FALSE
      BY <2>4
    <3> QED
      BY <3>1
  <2> QED
    BY <2>2, <2>3, <2>4
<1> HIDE DEF r
<1>4. t \notin DOMAIN storage \/ contents(w) = storage[t].data
  BY FreshStorage DEF contents
<1> HIDE DEF t
<1>5. HeapTyped(ws, ss, latestVersion')
  BY <1>1, <1>2, <1>3, NewTensor
<1>6. Grows(ws, ss, latestVersion') /\ DOMAIN ws = DOMAIN wrapper \cup {latestVersion}
  BY <1>1, <1>4, NewTensorGrows, ZenonT(40)
<1> HIDE DEF ws, ss
<1>7. Grows(ws, ss2, latestVersion')
  BY <1>5, <1>6, DeallocateGrows
<1> HIDE DEF ss2
<1>8. h \subseteq DOMAIN ws /\ CacheRefs(cache) \subseteq DOMAIN ws
  BY <1>2, <1>6
<1> HIDE DEF h
<1> QED
  BY <1>1, <1>2, <1>7, <1>8, ClientSteps

\* The calls of the client other than submit.
LEMMA ClientValues ==
    ASSUME ProgramsWellFormed, ExecutorInv, ValuesInv, OverwriteShared = FALSE, Client,
           ~\E p \in DOMAIN Programs, dev \in Devices :
               \E args \in [DOMAIN Programs[p].params -> held] : submit(p, dev, args)
    PROVE  ValuesInv'
<1>0. ExecutorInv'
  BY ClientKeeps
<1>a. agreed
  BY DEF ValuesInv
<1>1. ASSUME NEW d \in Data, createOwnedHostTensor(d)
      PROVE  ValuesInv'
  <2> DEFINE ws == With(wrapper, latestVersion,
                        TTNNTensorWrapper(freshStorage, FALSE, latestVersion))
             ss == With(storage, freshStorage, allocatedWith(Leaf(d)))
             h == held \cup {latestVersion}
  <2>1. /\ Settle(ws, ss, h, cache, stack) /\ Idle
        /\ latestVersion' = latestVersion + 1 /\ agreed' = agreed
    BY <1>1 DEF createOwnedHostTensor, Call
  <2>2. /\ stack = <<>> /\ held \subseteq DOMAIN wrapper
        /\ CacheRefs(cache) \subseteq DOMAIN wrapper
    BY <2>1, IdleFacts
  <2>3. Grows(ws, ss, latestVersion') /\ DOMAIN ws = DOMAIN wrapper \cup {latestVersion}
    <3> DEFINE r == FALSE
    <3>1. ws = With(wrapper, latestVersion,
                    TTNNTensorWrapper(freshStorage, r, latestVersion))
      OBVIOUS
    <3> HIDE DEF r, ws
    <3> QED
      BY <2>1, <3>1, FreshStorage, NewTensorGrows
  <2> HIDE DEF ws, ss
  <2>4. h \subseteq DOMAIN ws /\ CacheRefs(cache) \subseteq DOMAIN ws
    BY <2>2, <2>3
  <2> HIDE DEF h
  <2>5. HeapSteps /\ stack' = <<>> /\ cache' = cache
    BY <2>1, <2>2, <2>3, <2>4, ClientSteps
  <2> QED
    BY <1>0, <1>a, <2>1, <2>5, IdleKeeps
<1>2. ASSUME NEW w \in held, NEW r \in BOOLEAN, setTensorRetain(w, r)
      PROVE  ValuesInv'
  <2>1. /\ wrapper' = [wrapper EXCEPT ![w].retain = r] /\ Idle
        /\ UNCHANGED <<storage, latestVersion, cache, stack, agreed>>
    BY <1>2 DEF setTensorRetain, Call
  <2>2. \A x \in DOMAIN wrapper : DOMAIN wrapper[x] = {"tensor", "retain", "version"}
    BY DEF ExecutorInv, HeapInv, HeapTyped
  <2>3. DOMAIN wrapper' = DOMAIN wrapper
    BY <2>1
  <2>4. ASSUME NEW x \in DOMAIN wrapper
        PROVE  wrapper'[x].tensor = wrapper[x].tensor
               /\ wrapper'[x].version = wrapper[x].version
    <3>1. wrapper'[x] = wrapper[x] \/ wrapper'[x] = [wrapper[x] EXCEPT !.retain = r]
      BY <2>1
    <3> QED
      BY <2>2, <3>1
  <2>5. HeapSteps
    BY <2>1, <2>3, <2>4, SameSteps DEF Content
  <2> QED
    BY <1>0, <1>a, <2>1, <2>5, IdleKeeps DEF Idle
<1>3. ASSUME NEW w \in held, releaseHandle(w)
      PROVE  ValuesInv'
  <2> DEFINE h == held \ {w}
  <2>1. /\ Settle(wrapper, storage, h, cache, stack) /\ Idle
        /\ latestVersion' = latestVersion /\ agreed' = agreed
    BY <1>3 DEF releaseHandle, Call
  <2>2. /\ stack = <<>> /\ h \subseteq DOMAIN wrapper
        /\ CacheRefs(cache) \subseteq DOMAIN wrapper
    BY <2>1, IdleFacts
  <2> HIDE DEF h
  <2>3. HeapSteps /\ stack' = <<>> /\ cache' = cache
    BY <2>1, <2>2, SameGrows, ClientSteps
  <2> QED
    BY <1>0, <1>a, <2>1, <2>3, IdleKeeps
<1>4. ASSUME NEW w \in held, NEW same \in BOOLEAN,
             NEW retain \in {<<>>, <<TRUE>>, <<FALSE>>}, toLayout(w, same, retain)
      PROVE  ValuesInv'
  <2>1. agreed' = agreed
    BY <1>4 DEF toLayout
  <2> QED
    BY <1>0, <1>a, <1>4, <2>1, toLayoutSteps, IdleKeeps
<1>5. ASSUME NEW w \in held, deallocateTensor(w)
      PROVE  ValuesInv'
  <2>1. /\ storage' = deallocate(storage, w) /\ Idle
        /\ UNCHANGED <<wrapper, latestVersion, cache, stack, agreed>>
    BY <1>5 DEF deallocateTensor, Call
  <2>2. HeapTyped(wrapper, storage, latestVersion)
    BY DEF ExecutorInv, HeapInv
  <2>3. \A x \in DOMAIN wrapper :
           Content(wrapper, storage', x) = Content(wrapper, storage, x)
    BY <2>1, <2>2, SameGrows, DeallocateGrows
  <2>4. HeapSteps
    BY <2>1, <2>3, SameSteps
  <2> QED
    BY <1>0, <1>a, <2>1, <2>4, IdleKeeps DEF Idle
<1>6. ASSUME NEW dst \in held, NEW src \in held, memcpy(dst, src)
      PROVE  ValuesInv'
  <2>1. /\ storage' = [storage EXCEPT ![wrapper[dst].tensor].data = contents(src)] /\ Idle
        /\ UNCHANGED <<wrapper, latestVersion, cache, stack, agreed>>
        /\ ~SharedWithCache(dst)
    BY <1>6 DEF memcpy, Call
  <2>2. ~InCache(wrapper, cache, dst) /\ dst \in DOMAIN wrapper
    BY <2>1, IdleFacts DEF SharedWithCache, InCache
  <2>3. HeapSteps
    BY <2>1, <2>2, WriteSteps
  <2> QED
    BY <1>0, <1>a, <2>1, <2>3, IdleKeeps DEF Idle
<1>7. CASE clearCache
  <2> DEFINE c == <<>>
  <2>1. /\ Settle(wrapper, storage, held, c, stack) /\ Idle
        /\ latestVersion' = latestVersion /\ agreed' = agreed
    BY <1>7 DEF clearCache, Call
  <2>2. DOMAIN c = {} /\ CacheRefs(c) = {}
    BY DEF CacheRefs
  <2>3. /\ stack = <<>> /\ held \subseteq DOMAIN wrapper
        /\ CacheRefs(c) \subseteq DOMAIN wrapper
    BY <2>1, <2>2, IdleFacts
  <2> HIDE DEF c
  <2>4. HeapSteps /\ stack' = <<>> /\ cache' = c
    BY <2>1, <2>3, SameGrows, ClientSteps
  <2> QED
    BY <1>0, <1>a, <2>1, <2>2, <2>4, IdleKeeps
<1>8. ASSUME NEW dev \in Devices, NEW p \in DOMAIN Programs, removeFromCache(dev, p)
      PROVE  ValuesInv'
  <2> DEFINE outerKey == {k \in DOMAIN cache : k.dev = dev /\ k.prog = p}
             c == IF NDEBUG THEN Restrict(cache, DOMAIN cache \ outerKey) ELSE cache
  <2>1. /\ Settle(wrapper, storage, held, c, stack) /\ Idle
        /\ latestVersion' = latestVersion /\ agreed' = agreed
    BY <1>8 DEF removeFromCache, Call
  <2>2. \A k \in DOMAIN c : k \in DOMAIN cache /\ c[k] = cache[k]
    BY DEF Restrict
  <2> HIDE DEF c
  <2>3. CacheRefs(c) \subseteq CacheRefs(cache)
    BY <2>2 DEF CacheRefs
  <2>4. /\ stack = <<>> /\ held \subseteq DOMAIN wrapper
        /\ CacheRefs(c) \subseteq DOMAIN wrapper
    BY <2>1, <2>3, IdleFacts
  <2>5. HeapSteps /\ stack' = <<>> /\ cache' = c
    BY <2>1, <2>4, SameGrows, ClientSteps
  <2> QED
    BY <1>0, <1>a, <2>1, <2>2, <2>5, IdleKeeps
<1> QED
  BY <1>1, <1>2, <1>3, <1>4, <1>5, <1>6, <1>7, <1>8, Zenon DEF Client

-----------------------------------------------------------------------------
(* Writes                                                                  *)

\* TTNNDeallocate moves no operation before another.
LEMMA CompiledWrites ==
    ASSUME NEW f, InSSAForm(f), WritesSeparate(f), NEW g, g = TTNNDeallocate(f)
    PROVE  WritesSeparate(g)
<1>1. g.params = f.params /\ g.constEval = f.constEval
  BY CompiledFields
<1>2. PICK src : CompiledAs(f, g, src)
  BY CompiledSource
<1>3. isSequence(g.body)
  BY CompiledSource
<1>4. Len(g.body) \in Nat /\ DOMAIN g.body = 1 .. Len(g.body)
  BY <1>3, SequenceFacts
<1>5. ASSUME NEW k \in DOMAIN g.body, g.body[k].op # "deallocate"
      PROVE  src[k] \in DOMAIN f.body /\ g.body[k] = f.body[src[k]] /\ src[k] = src[k - 1] + 1
  <2>1. k \in 1 .. Len(g.body)
    BY <1>4
  <2>2. ~(src[k] = src[k - 1] /\ IsLastUse(f, src[k], g.body[k]))
    <3>1. IsLastUse(f, src[k], g.body[k]) => g.body[k].op = "deallocate"
      BY DEF IsLastUse, DeallocateOp
    <3> QED
      BY <1>5, <3>1
  <2>3. src[k] = src[k - 1] + 1 /\ g.body[k] = f.body[src[k]]
    BY <1>2, <2>1, <2>2 DEF CompiledAs
  <2>4. src[k] \in DOMAIN f.body
    BY <1>1, <1>2, <2>1, <2>3, CompiledOperation
  <2> QED
    BY <2>3, <2>4
<1>6. ASSUME NEW k \in DOMAIN g.body, NEW j \in DOMAIN g.body, src[k] < src[j]
      PROVE  k < j
  <2>1. k \in 0 .. Len(g.body) /\ j \in 0 .. Len(g.body)
    BY <1>4
  <2>2. src[k] \in Nat /\ src[j] \in Nat /\ (j <= k => src[j] <= src[k])
    <3>1. src[k] \in Nat /\ src[j] \in Nat
      BY <1>2, <2>1, SSAFacts DEF CompiledAs, Size
    <3>2. j <= k => src[j] <= src[k]
      BY <1>2, <2>1, SourceMonotonic
    <3> QED
      BY <3>1, <3>2
  <2> QED
    BY <1>6, <2>1, <2>2
<1>7. ASSUME NEW k \in DOMAIN g.body, g.body[k].op = "inplace"
      PROVE  /\ ~g.constEval
             /\ g.body[k].ins[1] \in ToSet(g.params)
             /\ \A j \in DOMAIN g.body :
                   /\ g.body[j].op = "view" /\ g.body[j].ins[1] = g.body[k].ins[1] => k < j
                   /\ g.body[j].op = "load_cached" =>
                         g.body[k].ins[1] \notin ToSet(g.body[j].ins)
  <2>1. src[k] \in DOMAIN f.body /\ g.body[k] = f.body[src[k]]
    BY <1>5, <1>7
  <2>2. /\ ~f.constEval
        /\ f.body[src[k]].ins[1] \in ToSet(f.params)
        /\ \A i \in DOMAIN f.body :
              /\ f.body[i].op = "view" /\ f.body[i].ins[1] = f.body[src[k]].ins[1] => src[k] < i
              /\ f.body[i].op = "load_cached" =>
                    f.body[src[k]].ins[1] \notin ToSet(f.body[i].ins)
    BY <1>7, <2>1 DEF WritesSeparate
  <2>3. ASSUME NEW j \in DOMAIN g.body, g.body[j].op \in {"view", "load_cached"}
        PROVE  src[j] \in DOMAIN f.body /\ g.body[j] = f.body[src[j]]
    <3>1. g.body[j].op # "deallocate"
      BY <2>3
    <3> QED
      BY <1>5, <3>1
  <2> QED
    BY <1>1, <1>6, <2>1, <2>2, <2>3
<1> QED
  BY <1>7 DEF WritesSeparate

\* The writes of what a program runs.
LEMMA OuterWrites ==
    ASSUME ProgramsInSSAForm, ProgramsWriteSeparate, NEW ws, NEW ss, NEW fr, Outer(ws, ss, fr)
    PROVE  WritesSeparate(fr.fn)
<1>1. fr.prog \in DOMAIN Programs /\ fr.fn = TTNNDeallocate(Programs[fr.prog])
  BY DEF Outer, Compiled
<1> QED
  BY <1>1, CompiledWrites DEF ProgramsInSSAForm, ProgramsWriteSeparate

\* A const-eval function writes nothing and calls no other.
LEMMA NestedOps ==
    ASSUME ProgramsInSSAForm, ProgramsWellFormed, ProgramsWriteSeparate, ExecutorInv, Running,
           Len(stack) = 2
    PROVE  \A k \in DOMAIN Top.fn.body :
              Top.fn.body[k].op # "inplace" /\ Top.fn.body[k].op # "load_cached"
<1> DEFINE o == stack[1].fn.body[stack[1].pc]
<1>1. Outer(wrapper, storage, stack[1]) /\ Nested(wrapper, storage, stack[1], Top)
  BY RunningStack
<1>2. o.op = "load_cached" /\ Top.fn = CompiledConstEval[o.name] /\ o.name \in DOMAIN ConstEval
  BY <1>1, LoadCachedFacts DEF Nested
<1>3. Top.fn = TTNNDeallocate(ConstEval[o.name])
  BY <1>2 DEF CompiledConstEval
<1>4. WritesSeparate(Top.fn)
  BY <1>2, <1>3, CompiledWrites DEF ProgramsInSSAForm, ProgramsWriteSeparate
<1>5. WellFormed(Top.fn) /\ Top.fn.constEval
  BY TopFacts
<1> QED
  BY <1>4, <1>5 DEF WritesSeparate, WellFormed

-----------------------------------------------------------------------------
(* Values and the operations                                               *)

\* Executor fr2 takes Top's place after an operation.
Continues(fr2) ==
    /\ stack' = [stack EXCEPT ![Len(stack)] = fr2]
    /\ fr2.fn = Top.fn /\ fr2.dev = Top.dev /\ fr2.prog = Top.prog
    /\ fr2.versions = Top.versions /\ fr2.promised = Top.promised
    /\ fr2.pc = Top.pc + 1
    /\ cache' = cache /\ agreed' = agreed

\* Where the tensor of a result comes from.
ResultOf(w) ==
    \/ wrapper'[w].tensor \notin DOMAIN storage
    \/ Op.op = "view" /\ wrapper'[w].tensor = wrapper[Arg(1)].tensor
    \/ \E x \in CacheRefs(cache) : wrapper'[w].tensor = wrapper[x].tensor

\* The pool live has values of the pool before and results of the operation.
Grown(live) ==
    \A v \in DOMAIN live :
        \/ v \in DOMAIN Top.live /\ live[v] = Top.live[v]
        \/ v \in ToSet(Op.outs) /\ ResultOf(live[v])

\* The pool live has what the operation makes of the environment.
Computes(live) ==
    \A env : PoolHolds(wrapper, storage, Top.live, env) =>
        PoolHolds(wrapper', storage', live, ApplyOperation(Op, env, Top.dev))

\* What each operation but a load_cached that misses does: executor fr2 goes on
\* with its results, and only an in-place operation changes contents.
TopSteps(fr2) ==
    /\ Continues(fr2)
    /\ Grown(fr2.live)
    /\ Computes(fr2.live)
    /\ HeapSteps
    /\ Op.op # "inplace" => KeepsContents

\* A value that a program is going to overwrite was a parameter all along.
LEMMA WrittenStays ==
    ASSUME ProgramsInSSAForm, ProgramsWellFormed, ProgramsWriteSeparate, ExecutorInv, Running,
           ~AtEnd(Top), Len(stack) = 1, NEW fr2, Continues(fr2), Grown(fr2.live),
           NEW x \in DOMAIN fr2.live, WrittenFrom(fr2, x)
    PROVE  /\ WrittenFrom(Top, x)
           /\ x \in DOMAIN Top.live /\ fr2.live[x] = Top.live[x]
           /\ Op.op = "view" => Op.ins[1] # x
<1>1. WritesSeparate(Top.fn)
  <2>1. Outer(wrapper, storage, Top)
    BY RunningStack
  <2> QED
    BY <2>1, OuterWrites
<1>2. /\ Top.pc \in DOMAIN Top.fn.body /\ Op = Top.fn.body[Top.pc] /\ WellFormed(Top.fn)
      /\ Len(Top.fn.body) \in Nat /\ DOMAIN Top.fn.body = 1 .. Len(Top.fn.body)
  BY OpFacts, TopFacts, SequenceFacts DEF WellFormed
<1>3. PICK k \in DOMAIN Top.fn.body :
         /\ Top.pc + 1 <= k
         /\ Top.fn.body[k].op = "inplace" /\ Top.fn.body[k].ins[1] = x
  BY DEF WrittenFrom, Continues
<1>4. Top.pc <= k /\ ~(k < Top.pc)
  BY <1>2, <1>3
<1>5. WrittenFrom(Top, x)
  BY <1>3, <1>4 DEF WrittenFrom
<1>6. x \in ToSet(Top.fn.params)
  BY <1>1, <1>3 DEF WritesSeparate
<1>7. x \notin ToSet(Op.outs)
  BY <1>2, <1>6 DEF WellFormed, definedBefore
<1>8. Op.op = "view" => Op.ins[1] # x
  BY <1>1, <1>2, <1>3, <1>4 DEF WritesSeparate
<1> QED
  BY <1>5, <1>7, <1>8 DEF Grown

\* Where the pools' wrappers are before and after a step.
LEMMA PoolsInHeap ==
    ASSUME ExecutorInv, NEW n \in DOMAIN stack
    PROVE  \A v \in DOMAIN stack[n].live : stack[n].live[v] \in DOMAIN wrapper
<1>1. FrameRefs(stack[n]) \subseteq DOMAIN wrapper
  BY RefsInHeap
<1> QED
  BY <1>1 DEF FrameRefs, Range

\* The pools' wrappers exist after a step.
LEMMA PoolsStayInHeap ==
    ASSUME ExecutorInv', NEW n \in DOMAIN stack'
    PROVE  \A v \in DOMAIN stack'[n].live : stack'[n].live[v] \in DOMAIN wrapper'
<1>1. \A x : x \in FrameRefs(stack'[n]) => x \in DOMAIN wrapper'
  BY InReferenced DEF ExecutorInv, HeapInv
<1> QED
  BY <1>1 DEF FrameRefs, Range

\* What a step does to the tensor of a wrapper that stays.
LEMMA TensorsStay ==
    ASSUME HeapSteps, NEW w \in DOMAIN wrapper, w \in DOMAIN wrapper'
    PROVE  wrapper'[w].tensor = wrapper[w].tensor
  BY DEF HeapSteps

\* A storage that the cache does not share stays apart from its results.
LEMMA ResultApart ==
    ASSUME ExecutorInv, NEW w, ResultOf(w), NEW x \in DOMAIN wrapper,
           ~InCache(wrapper, cache, x),
           Op.op = "view" => wrapper[Arg(1)].tensor # wrapper[x].tensor
    PROVE  wrapper'[w].tensor # wrapper[x].tensor
<1>1. wrapper[x].tensor \in DOMAIN storage
  BY DEF ExecutorInv, HeapInv, HeapTyped
<1>2. ASSUME NEW y \in CacheRefs(cache) PROVE wrapper[y].tensor # wrapper[x].tensor
  <2>1. PICK k \in DOMAIN cache : y \in ToSet(cache[k].tensors)
    BY <1>2 DEF CacheRefs
  <2>2. y \in DOMAIN wrapper
    BY <1>2, RefsInHeap
  <2> QED
    BY <2>1, <2>2 DEF InCache
<1> QED
  BY <1>1, <1>2 DEF ResultOf

\* An operation of a program itself keeps the values.
LEMMA OuterStepKeeps ==
    ASSUME ProgramsInSSAForm, ProgramsWellFormed, ProgramsWriteSeparate,
           ExecutorInv, ExecutorInv', ValuesInv, Running, ~AtEnd(Top), Len(stack) = 1,
           NEW fr2, TopSteps(fr2)
    PROVE  ValuesInv'
<1>1. /\ Continues(fr2) /\ Grown(fr2.live) /\ Computes(fr2.live) /\ HeapSteps
  BY DEF TopSteps
<1>2. VersionInv(wrapper')
  BY <1>1, VersionKept DEF ValuesInv
<1>3. cache' = cache
  BY <1>1 DEF Continues
<1>4. \A k \in DOMAIN cache' :
         EntryValues(wrapper', storage', latestVersion', k, cache'[k])
  BY <1>1, <1>3, EntriesKept
<1>5. stack = <<Top>> /\ stack[1] = Top
  BY RunningStack
<1>6. stack' = <<fr2>>
  BY <1>1, <1>5 DEF Continues
<1>7. /\ Top.pc \in 1 .. Len(Top.fn.body) /\ Op = Top.fn.body[Top.pc]
      /\ Len(Top.fn.body) \in Nat
  <2>1. Len(Top.fn.body) \in Nat /\ DOMAIN Top.fn.body = 1 .. Len(Top.fn.body)
    BY TopFacts, SequenceFacts DEF WellFormed
  <2> QED
    BY <2>1, OpFacts
<1>8. OuterValues(wrapper', storage', fr2)
  <2>1. OuterValues(wrapper, storage, Top)
    BY <1>5 DEF ValuesInv, Running
  <2>2. PICK args :
           /\ Top.promised = ProgramValue(Programs[Top.prog], args, Top.dev)
           /\ PoolHolds(wrapper, storage, Top.live,
                        ProgramValues(Top.fn, args, Top.dev)[Top.pc - 1])
    BY <2>1 DEF OuterValues
  <2>3. ProgramValues(Top.fn, args, Top.dev)[Top.pc] =
           ApplyOperation(Op, ProgramValues(Top.fn, args, Top.dev)[Top.pc - 1], Top.dev)
    BY <1>7, ProgramStep
  <2>4. PoolHolds(wrapper', storage', fr2.live, ProgramValues(Top.fn, args, Top.dev)[Top.pc])
    BY <1>1, <2>2, <2>3 DEF Computes
  <2>5. fr2.pc - 1 = Top.pc
    BY <1>1, <1>7 DEF Continues
  <2>6. /\ fr2.fn = Top.fn /\ fr2.dev = Top.dev /\ fr2.prog = Top.prog
        /\ fr2.promised = Top.promised
    BY <1>1 DEF Continues
  <2> QED
    BY <2>2, <2>4, <2>5, <2>6, Zenon DEF OuterValues
<1>9. Separate(wrapper', cache', fr2)
  <2> SUFFICES ASSUME NEW x \in DOMAIN fr2.live, WrittenFrom(fr2, x)
               PROVE  /\ \A v \in DOMAIN fr2.live : v # x =>
                            wrapper'[fr2.live[v]].tensor # wrapper'[fr2.live[x]].tensor
                      /\ ~InCache(wrapper', cache', fr2.live[x])
    BY DEF Separate
  <2> DEFINE w == Top.live[x]
  <2>1. /\ WrittenFrom(Top, x) /\ x \in DOMAIN Top.live /\ fr2.live[x] = w
        /\ Op.op = "view" => Op.ins[1] # x
    BY <1>1, WrittenStays
  <2>2. /\ \A v \in DOMAIN Top.live : v # x => wrapper[Top.live[v]].tensor # wrapper[w].tensor
        /\ ~InCache(wrapper, cache, w)
    BY <1>5, <2>1 DEF ValuesInv, Separate, Running
  <2>3. \A v \in DOMAIN Top.live : Top.live[v] \in DOMAIN wrapper
    BY <1>5, PoolsInHeap
  <2>4. \A v \in DOMAIN fr2.live : fr2.live[v] \in DOMAIN wrapper'
    <3>1. 1 \in DOMAIN stack' /\ stack'[1] = fr2
      BY <1>6
    <3> QED
      BY <3>1, PoolsStayInHeap
  <2>5. w \in DOMAIN wrapper /\ w \in DOMAIN wrapper'
    BY <2>1, <2>3, <2>4
  <2>6. wrapper'[w].tensor = wrapper[w].tensor
    BY <1>1, <2>5, TensorsStay
  <2>7. ASSUME NEW v \in DOMAIN fr2.live, v # x
        PROVE  wrapper'[fr2.live[v]].tensor # wrapper[w].tensor
    <3>1. CASE v \in DOMAIN Top.live /\ fr2.live[v] = Top.live[v]
      <4>1. wrapper'[fr2.live[v]].tensor = wrapper[Top.live[v]].tensor
        BY <1>1, <2>3, <2>4, <3>1, TensorsStay
      <4> QED
        BY <2>2, <2>7, <3>1, <4>1
    <3>2. CASE ResultOf(fr2.live[v])
      <4>1. Op.op = "view" => wrapper[Arg(1)].tensor # wrapper[w].tensor
        <5>1. Op.op = "view" => Op.ins[1] \in DOMAIN Top.live /\ Arg(1) = Top.live[Op.ins[1]]
          BY FirstOperand
        <5> QED
          BY <2>1, <2>2, <5>1
      <4> QED
        BY <2>2, <2>5, <3>2, <4>1, ResultApart
    <3> QED
      BY <1>1, <3>1, <3>2 DEF Grown
  <2>8. ~InCache(wrapper', cache', w)
    <3>1. CacheRefs(cache) \subseteq DOMAIN wrapper
      BY RefsInHeap
    <3> HIDE DEF w
    <3> QED
      BY <1>1, <1>3, <2>2, <2>5, <3>1, SharedKept DEF ValuesInv
  <2> QED
    BY <2>1, <2>6, <2>7, <2>8
<1>10. stack'[1] = fr2 /\ Len(stack') # 2
  BY <1>6
<1>11. agreed'
  BY <1>1 DEF Continues, ValuesInv
<1> QED
  BY <1>2, <1>4, <1>8, <1>9, <1>10, <1>11 DEF ValuesInv

\* So does an operation of a const-eval function.
LEMMA NestedStepKeeps ==
    ASSUME ProgramsInSSAForm, ProgramsWellFormed, ProgramsWriteSeparate,
           ExecutorInv, ExecutorInv', ValuesInv, Running, ~AtEnd(Top), Len(stack) = 2,
           NEW fr2, TopSteps(fr2)
    PROVE  ValuesInv'
<1> DEFINE caller == stack[1]
<1>1. /\ Continues(fr2) /\ Grown(fr2.live) /\ Computes(fr2.live) /\ HeapSteps
  BY DEF TopSteps
<1>2. VersionInv(wrapper')
  BY <1>1, VersionKept DEF ValuesInv
<1>3. cache' = cache
  BY <1>1 DEF Continues
<1>4. \A k \in DOMAIN cache' :
         EntryValues(wrapper', storage', latestVersion', k, cache'[k])
  BY <1>1, <1>3, EntriesKept
<1>5. /\ stack = <<caller, Top>> /\ stack[2] = Top
      /\ Outer(wrapper, storage, caller) /\ Nested(wrapper, storage, caller, Top)
  BY RunningStack
<1>6. stack' = <<caller, fr2>>
  BY <1>1, <1>5 DEF Continues
<1>7. /\ Top.pc \in 1 .. Len(Top.fn.body) /\ Op = Top.fn.body[Top.pc]
      /\ Len(Top.fn.body) \in Nat
  <2>1. Len(Top.fn.body) \in Nat /\ DOMAIN Top.fn.body = 1 .. Len(Top.fn.body)
    BY TopFacts, SequenceFacts DEF WellFormed
  <2> QED
    BY <2>1, OpFacts
<1>8. Op.op # "inplace" /\ Op.op # "load_cached"
  <2>1. Top.pc \in DOMAIN Top.fn.body
    BY OpFacts
  <2> QED
    BY <1>7, <2>1, NestedOps
<1>9. KeepsContents
  BY <1>8 DEF TopSteps
<1>10. \A v \in DOMAIN caller.live :
          /\ caller.live[v] \in DOMAIN wrapper /\ caller.live[v] \in DOMAIN wrapper'
          /\ wrapper'[caller.live[v]].tensor = wrapper[caller.live[v]].tensor
          /\ Content(wrapper', storage', caller.live[v]) =
                Content(wrapper, storage, caller.live[v])
  <2>1. \A v \in DOMAIN caller.live : caller.live[v] \in DOMAIN wrapper
    BY <1>5, PoolsInHeap
  <2>2. \A v \in DOMAIN caller.live : caller.live[v] \in DOMAIN wrapper'
    <3>1. 1 \in DOMAIN stack' /\ stack'[1] = caller
      BY <1>6
    <3> QED
      BY <3>1, PoolsStayInHeap
  <2> QED
    BY <1>1, <1>9, <2>1, <2>2, TensorsStay DEF KeepsContents
<1>11. /\ OuterValues(wrapper, storage, caller) /\ Separate(wrapper, cache, caller)
       /\ NestedValues(wrapper, storage, caller, Top) /\ NestedSeparate(wrapper, caller, Top)
  BY <1>5 DEF ValuesInv, Running
<1> HIDE DEF caller
<1>12. OuterValues(wrapper', storage', caller)
  BY <1>10, <1>11 DEF OuterValues, PoolHolds
<1>13. Separate(wrapper', cache', caller)
  <2> SUFFICES ASSUME NEW x \in DOMAIN caller.live, WrittenFrom(caller, x)
               PROVE  ~InCache(wrapper', cache', caller.live[x])
    BY <1>10, <1>11 DEF Separate
  <2> DEFINE w == caller.live[x]
  <2>1. ~InCache(wrapper, cache, w) /\ w \in DOMAIN wrapper /\ w \in DOMAIN wrapper'
    BY <1>10, <1>11 DEF Separate
  <2>2. CacheRefs(cache) \subseteq DOMAIN wrapper
    BY RefsInHeap
  <2> HIDE DEF w
  <2>3. ~InCache(wrapper', cache', w)
    BY <1>1, <1>3, <2>1, <2>2, SharedKept DEF ValuesInv
  <2> QED
    BY <2>3 DEF w
<1>14. NestedValues(wrapper', storage', caller, fr2)
  <2> DEFINE args == LoadedContents(wrapper, storage, caller)
  <2>1. LoadedContents(wrapper', storage', caller) = args
    <3>1. ToSet(caller.fn.body[caller.pc].ins) \subseteq DOMAIN caller.live
      BY <1>5, LoadCachedFacts DEF Nested
    <3>2. \A n \in DOMAIN caller.fn.body[caller.pc].ins :
             caller.fn.body[caller.pc].ins[n] \in DOMAIN caller.live
      BY <3>1 DEF ToSet
    <3> QED
      BY <1>10, <3>2 DEF LoadedContents
  <2>2. /\ Top.dev = caller.dev /\ Top.versions = LoadedFrom(caller)
        /\ PoolHolds(wrapper, storage, Top.live,
                     ConstEvalValues(Top.fn, args, Top.dev)[Top.pc - 1])
    BY <1>11 DEF NestedValues
  <2> HIDE DEF args
  <2>3. ConstEvalValues(Top.fn, args, Top.dev)[Top.pc] =
           Apply(Op, ConstEvalValues(Top.fn, args, Top.dev)[Top.pc - 1], Top.dev)
    BY <1>7, ConstEvalStep
  <2>4. PoolHolds(wrapper', storage', fr2.live, ConstEvalValues(Top.fn, args, Top.dev)[Top.pc])
    BY <1>1, <1>8, <2>2, <2>3 DEF Computes, ApplyOperation
  <2>5. fr2.pc - 1 = Top.pc
    BY <1>1, <1>7 DEF Continues
  <2>6. fr2.fn = Top.fn /\ fr2.dev = Top.dev /\ fr2.versions = Top.versions
    BY <1>1 DEF Continues
  <2> QED
    BY <2>1, <2>2, <2>4, <2>5, <2>6 DEF NestedValues
<1>15. NestedSeparate(wrapper', caller, fr2)
  <2> SUFFICES ASSUME NEW x \in DOMAIN caller.live, WrittenFrom(caller, x),
                      NEW v \in DOMAIN fr2.live
               PROVE  wrapper'[fr2.live[v]].tensor # wrapper[caller.live[x]].tensor
    BY <1>10 DEF NestedSeparate
  <2>1. \A u \in DOMAIN Top.live :
           wrapper[Top.live[u]].tensor # wrapper[caller.live[x]].tensor
    BY <1>11 DEF NestedSeparate
  <2>2. CASE v \in DOMAIN Top.live /\ fr2.live[v] = Top.live[v]
    <3>1. Top.live[v] \in DOMAIN wrapper
      BY <1>5, <2>2, PoolsInHeap
    <3>2. fr2.live[v] \in DOMAIN wrapper'
      <4>1. 2 \in DOMAIN stack' /\ stack'[2] = fr2
        BY <1>6
      <4> QED
        BY <4>1, PoolsStayInHeap
    <3>3. wrapper'[fr2.live[v]].tensor = wrapper[Top.live[v]].tensor
      BY <1>1, <2>2, <3>1, <3>2, TensorsStay
    <3> QED
      BY <2>1, <2>2, <3>3
  <2>3. CASE ResultOf(fr2.live[v])
    <3>1. Op.op = "view" => wrapper[Arg(1)].tensor # wrapper[caller.live[x]].tensor
      <4>1. Op.op = "view" => Op.ins[1] \in DOMAIN Top.live /\ Arg(1) = Top.live[Op.ins[1]]
        BY FirstOperand
      <4> QED
        BY <2>1, <4>1
    <3>2. caller.live[x] \in DOMAIN wrapper /\ ~InCache(wrapper, cache, caller.live[x])
      BY <1>10, <1>11 DEF Separate
    <3> QED
      BY <2>3, <3>1, <3>2, ResultApart
  <2> QED
    BY <1>1, <2>2, <2>3 DEF Grown
<1>16. stack'[1] = caller /\ stack'[2] = fr2
  BY <1>6
<1>17. agreed'
  BY <1>1 DEF Continues, ValuesInv
<1> QED
  BY <1>2, <1>4, <1>12, <1>13, <1>14, <1>15, <1>16, <1>17 DEF ValuesInv

\* Every operation of an executor.
LEMMA TopStepKeeps ==
    ASSUME ProgramsInSSAForm, ProgramsWellFormed, ProgramsWriteSeparate,
           ExecutorInv, ExecutorInv', ValuesInv, Running, ~AtEnd(Top),
           NEW fr2, TopSteps(fr2)
    PROVE  ValuesInv'
  BY RunningStack, OuterStepKeeps, NestedStepKeeps

\* The executor on top after an operation that leaves the pool live.
After(live) == [[Top EXCEPT !.live = live] EXCEPT !.pc = @ + 1]

\* An operation that ends with a settled heap and changes the pool to live.
LEMMA RunSteps ==
    ASSUME ExecutorInv, ExecutorInv', Running, agreed' = agreed,
           NEW ws, NEW ss, Grows(ws, ss, latestVersion'), DOMAIN wrapper \subseteq DOMAIN ws,
           NEW live, Range(live) \subseteq DOMAIN ws,
           NEW fr2, fr2 = After(live),
           Settle(ws, ss, held, cache, [stack EXCEPT ![Len(stack)] = fr2])
    PROVE  /\ Continues(fr2) /\ fr2.live = live
           /\ HeapSteps /\ KeepsContents /\ Settled(ws, ss)
           /\ \A v \in DOMAIN live : live[v] \in DOMAIN wrapper'
<1> DEFINE fr == [Top EXCEPT !.live = live]
           stk == [stack EXCEPT ![Len(stack)] = fr2]
<1>0. fr2 = [fr EXCEPT !.pc = @ + 1]
  BY DEF After
<1>1. DOMAIN Top = Fields
  BY RunningStack DEF Outer, Nested, FrameInv
<1>2. /\ DOMAIN fr = Fields /\ fr.live = live
      /\ \A c \in Fields : c # "live" => fr[c] = Top[c]
  BY <1>1 DEF Fields
<1>3. /\ DOMAIN fr2 = Fields /\ fr2.pc = fr.pc + 1
      /\ \A c \in Fields : c # "pc" => fr2[c] = fr[c]
  BY <1>0, <1>2 DEF Fields
<1>4. /\ fr2.fn = Top.fn /\ fr2.dev = Top.dev /\ fr2.prog = Top.prog
      /\ fr2.versions = Top.versions /\ fr2.promised = Top.promised
      /\ fr2.pc = Top.pc + 1 /\ fr2.inputs = Top.inputs /\ fr2.live = live
  BY <1>2, <1>3 DEF Fields
<1>5. stk = [stack EXCEPT ![Len(stack)] = fr2]
  OBVIOUS
<1>6. stack' = stk /\ cache' = cache
  BY DEF Settle
<1> HIDE DEF stk
<1>7. Continues(fr2)
  BY <1>4, <1>5, <1>6 DEF Continues
<1>8. FrameRefs(Top) \subseteq DOMAIN wrapper
  BY RunningStack, RefsInHeap
<1>9. FrameRefs(fr2) \subseteq DOMAIN ws
  BY <1>4, <1>8 DEF FrameRefs
<1>10. /\ Len(stack) \in DOMAIN stack
       /\ \A n \in DOMAIN stk : n \in DOMAIN stack /\ (n # Len(stack) => stk[n] = stack[n])
       /\ Len(stack) \in DOMAIN stk /\ stk[Len(stack)] = fr2
  BY <1>5, RunningStack
<1>11. \A n \in DOMAIN stk : FrameRefs(stk[n]) \subseteq DOMAIN ws
  BY <1>9, <1>10, RefsInHeap
<1>12. Referenced(held, cache, stk) \subseteq DOMAIN ws
  BY <1>11, RefsInHeap, RefsWithin
<1>13. HeapSteps /\ KeepsContents /\ Settled(ws, ss)
  BY <1>12, SettleSteps DEF stk
<1>14. \A v \in DOMAIN live : live[v] \in DOMAIN wrapper'
  BY <1>4, <1>6, <1>10, PoolsStayInHeap
<1> QED
  BY <1>4, <1>7, <1>13, <1>14

\* The pool gains result x with the contents e.
LEMMA HoldsWith ==
    ASSUME ExecutorInv, Running, KeepsContents, NEW x, NEW w, NEW e, NEW live,
           live = With(Top.live, x, w), Content(wrapper', storage', w) = e,
           \A v \in DOMAIN live : live[v] \in DOMAIN wrapper',
           NEW env, PoolHolds(wrapper, storage, Top.live, env)
    PROVE  PoolHolds(wrapper', storage', live, With(env, x, e))
<1>1. \A v \in DOMAIN Top.live : Top.live[v] \in DOMAIN wrapper
  <2>1. Len(stack) \in DOMAIN stack /\ Top = stack[Len(stack)]
    BY RunningStack DEF Top
  <2> QED
    BY <2>1, PoolsInHeap
<1>2. /\ DOMAIN live = DOMAIN Top.live \cup {x} /\ live[x] = w
      /\ \A v \in DOMAIN Top.live : v # x => live[v] = Top.live[v]
  BY DEF With
<1>3. /\ DOMAIN With(env, x, e) = DOMAIN env \cup {x} /\ With(env, x, e)[x] = e
      /\ \A v \in DOMAIN env : v # x => With(env, x, e)[v] = env[v]
  BY DEF With
<1>4. ASSUME NEW v \in DOMAIN live
      PROVE  v \in DOMAIN With(env, x, e)
             /\ Content(wrapper', storage', live[v]) = With(env, x, e)[v]
  <2>1. CASE v = x
    BY <1>2, <1>3, <2>1
  <2>2. CASE v # x
    <3>1. v \in DOMAIN Top.live /\ live[v] = Top.live[v] /\ live[v] \in DOMAIN wrapper'
      BY <1>2, <2>2
    <3>2. v \in DOMAIN env /\ Content(wrapper, storage, Top.live[v]) = env[v]
      BY <3>1 DEF PoolHolds
    <3>3. Content(wrapper', storage', live[v]) = Content(wrapper, storage, Top.live[v])
      BY <1>1, <3>1 DEF KeepsContents
    <3> QED
      BY <1>3, <2>2, <3>2, <3>3
  <2> QED
    BY <2>1, <2>2
<1> QED
  BY <1>4 DEF PoolHolds

\* The operands' contents.
LEMMA OperandContents ==
    ASSUME ProgramsWellFormed, ExecutorInv, Running, ~AtEnd(Top),
           NEW env, PoolHolds(wrapper, storage, Top.live, env)
    PROVE  \A n \in DOMAIN Op.ins :
              /\ Op.ins[n] \in DOMAIN Top.live
              /\ contents(Arg(n)) = env[Op.ins[n]]
<1>1. \A n \in DOMAIN Op.ins : Op.ins[n] \in DOMAIN Top.live
  BY OpFacts DEF ToSet
<1> QED
  BY <1>1 DEF PoolHolds, Content, contents, Arg

\* The single result of an operation.
LEMMA OneResult ==
    ASSUME ProgramsWellFormed, ExecutorInv, Running, ~AtEnd(Top), Op.op \in {"compute", "view"}
    PROVE  Op.outs[1] \in ToSet(Op.outs)
<1>1. Len(Op.outs) = 1
  BY OpFacts, TopFacts DEF WellFormed
<1>2. DOMAIN Op.outs = 1 .. Len(Op.outs)
  BY OpFacts, SequenceFacts
<1>3. 1 \in DOMAIN Op.outs
  BY <1>1, <1>2
<1> QED
  BY <1>3 DEF ToSet

\* An operation with a result of its own (runCompute).
LEMMA runComputeSteps ==
    ASSUME ProgramsWellFormed, ExecutorInv, ExecutorInv', runCompute
    PROVE  \E fr2 : TopSteps(fr2)
<1> DEFINE lv == latestVersion
           r == FALSE
           t == freshStorage
           d == Term(Op.name, Top.dev, [n \in DOMAIN Op.ins |-> contents(Arg(n))])
           ws == With(wrapper, lv, TTNNTensorWrapper(t, r, lv))
           ss == With(storage, t, allocatedWith(d))
           x == Op.outs[1]
           live == With(Top.live, x, lv)
           fr2 == After(live)
<1>1. /\ Running /\ ~AtEnd(Top) /\ Op.op = "compute"
      /\ latestVersion' = lv + 1 /\ agreed' = agreed
  BY DEF runCompute, runOperation
<1>2. Settle(ws, ss, held, cache, [stack EXCEPT ![Len(stack)] = fr2])
  BY DEF runCompute, Resume, After
<1>3. t \notin DOMAIN storage
  BY FreshStorage
<1>4. ws = With(wrapper, latestVersion, TTNNTensorWrapper(t, r, latestVersion))
      /\ ss = With(storage, t, allocatedWith(d))
  OBVIOUS
<1> HIDE DEF d, t, r, ws, ss
<1>5. /\ Grows(ws, ss, latestVersion') /\ DOMAIN ws = DOMAIN wrapper \cup {lv}
      /\ ws[lv].tensor = t /\ Content(ws, ss, lv) = d
  BY <1>1, <1>3, <1>4, NewTensorGrows
<1>6. Range(live) \subseteq DOMAIN ws
  <2>1. FrameRefs(Top) \subseteq DOMAIN wrapper
    BY <1>1, TopFacts
  <2> QED
    BY <1>5, <2>1 DEF With, Range, FrameRefs
<1>7. fr2 = After(live)
      /\ live = With(Top.live, x, latestVersion) /\ x = Op.outs[1]
  OBVIOUS
<1> HIDE DEF fr2, live, x
<1>8. /\ Continues(fr2) /\ fr2.live = live
      /\ HeapSteps /\ KeepsContents /\ Settled(ws, ss)
      /\ \A v \in DOMAIN live : live[v] \in DOMAIN wrapper'
  BY <1>1, <1>2, <1>5, <1>6, <1>7, RunSteps
<1>9. /\ DOMAIN live = DOMAIN Top.live \cup {x} /\ live[x] = lv
      /\ \A v \in DOMAIN Top.live : v # x => live[v] = Top.live[v]
  BY <1>7 DEF With
<1>10. wrapper'[lv].tensor = t /\ Content(wrapper', storage', lv) = d
  BY <1>5, <1>8, <1>9 DEF Settled
<1>11. Grown(live)
  <2>1. x \in ToSet(Op.outs)
    BY <1>1, <1>7, OneResult
  <2>2. ResultOf(lv)
    BY <1>3, <1>10 DEF ResultOf
  <2> QED
    BY <1>9, <2>1, <2>2 DEF Grown
<1>12. Computes(live)
  <2> SUFFICES ASSUME NEW env, PoolHolds(wrapper, storage, Top.live, env)
               PROVE  PoolHolds(wrapper', storage', live, ApplyOperation(Op, env, Top.dev))
    BY DEF Computes
  <2>1. d = Term(Op.name, Top.dev, [n \in DOMAIN Op.ins |-> env[Op.ins[n]]])
    BY <1>1, OperandContents DEF d
  <2>2. ApplyOperation(Op, env, Top.dev) = With(env, x, d)
    BY <1>1, <1>7, <2>1 DEF ApplyOperation, Apply
  <2> QED
    BY <1>1, <1>7, <1>8, <1>10, <2>2, HoldsWith
<1> QED
  BY <1>8, <1>11, <1>12 DEF TopSteps

\* An operation whose result shares its operand's storage (runView).
LEMMA runViewSteps ==
    ASSUME ProgramsWellFormed, ExecutorInv, ExecutorInv', runView
    PROVE  \E fr2 : TopSteps(fr2)
<1> DEFINE lv == latestVersion
           r == FALSE
           t == wrapper[Arg(1)].tensor
           ws == With(wrapper, lv, TTNNTensorWrapper(t, r, lv))
           x == Op.outs[1]
           live == With(Top.live, x, lv)
           fr2 == After(live)
<1>1. /\ Running /\ ~AtEnd(Top) /\ Op.op = "view"
      /\ latestVersion' = lv + 1 /\ agreed' = agreed
  BY DEF runView, runOperation
<1>2. Settle(ws, storage, held, cache, [stack EXCEPT ![Len(stack)] = fr2])
  BY DEF runView, Resume, After
<1>3. ws = With(wrapper, latestVersion, TTNNTensorWrapper(t, r, latestVersion))
  OBVIOUS
<1> HIDE DEF t, r, ws
<1>4. /\ Grows(ws, storage, latestVersion') /\ DOMAIN ws = DOMAIN wrapper \cup {lv}
      /\ ws[lv].tensor = t
  BY <1>1, <1>3, NewViewGrows
<1>5. Range(live) \subseteq DOMAIN ws
  <2>1. FrameRefs(Top) \subseteq DOMAIN wrapper
    BY <1>1, TopFacts
  <2> QED
    BY <1>4, <2>1 DEF With, Range, FrameRefs
<1>6. fr2 = After(live)
      /\ live = With(Top.live, x, latestVersion) /\ x = Op.outs[1]
  OBVIOUS
<1> HIDE DEF fr2, live, x
<1>7. /\ Continues(fr2) /\ fr2.live = live
      /\ HeapSteps /\ KeepsContents /\ Settled(ws, storage)
      /\ \A v \in DOMAIN live : live[v] \in DOMAIN wrapper'
  BY <1>1, <1>2, <1>4, <1>5, <1>6, RunSteps
<1>8. /\ DOMAIN live = DOMAIN Top.live \cup {x} /\ live[x] = lv
      /\ \A v \in DOMAIN Top.live : v # x => live[v] = Top.live[v]
  BY <1>6 DEF With
<1>9. wrapper'[lv].tensor = t /\ Content(wrapper', storage', lv) = contents(Arg(1))
  BY <1>4, <1>7, <1>8 DEF Settled, Content, contents, t
<1>10. Grown(live)
  <2>1. x \in ToSet(Op.outs)
    BY <1>1, <1>6, OneResult
  <2>2. ResultOf(lv)
    BY <1>1, <1>9 DEF ResultOf, t
  <2> QED
    BY <1>8, <2>1, <2>2 DEF Grown
<1>11. Computes(live)
  <2> SUFFICES ASSUME NEW env, PoolHolds(wrapper, storage, Top.live, env)
               PROVE  PoolHolds(wrapper', storage', live, ApplyOperation(Op, env, Top.dev))
    BY DEF Computes
  <2>1. 1 \in DOMAIN Op.ins
    <3>1. isSequence(Op.ins) /\ Op.ins # <<>>
      BY <1>1, OpFacts, TopFacts DEF WellFormed
    <3> QED
      BY <3>1 DEF isSequence
  <2>2. contents(Arg(1)) = env[Op.ins[1]]
    BY <1>1, <2>1, OperandContents
  <2>3. Apply(Op, env, Top.dev) = With(env, x, env[Op.ins[1]])
    BY <1>1, <1>6, <2>1 DEF Apply
  <2>4. ApplyOperation(Op, env, Top.dev) = With(env, x, contents(Arg(1)))
    BY <1>1, <2>2, <2>3 DEF ApplyOperation
  <2> QED
    BY <1>1, <1>6, <1>7, <1>9, <2>4, HoldsWith
<1> QED
  BY <1>7, <1>10, <1>11 DEF TopSteps

\* A write changes no value but the one that it is to change.
LEMMA runInplaceSteps ==
    ASSUME ProgramsInSSAForm, ProgramsWellFormed, ProgramsWriteSeparate,
           ExecutorInv, ExecutorInv', ValuesInv, runInplace
    PROVE  \E fr2 : TopSteps(fr2)
<1> DEFINE d == Term(Op.name, Top.dev, [n \in DOMAIN Op.ins |-> contents(Arg(n))])
           x == Op.ins[1]
           a == Arg(1)
           fr2 == [Top EXCEPT !.pc = @ + 1]
<1>1. /\ Running /\ ~AtEnd(Top) /\ Op.op = "inplace"
      /\ storage' = [storage EXCEPT ![wrapper[a].tensor].data = d]
      /\ stack' = Resume(Top)
      /\ wrapper' = wrapper /\ latestVersion' = latestVersion
      /\ cache' = cache /\ agreed' = agreed
  BY DEF runInplace, runOperation
<1>2. Top.pc \in DOMAIN Top.fn.body /\ Op = Top.fn.body[Top.pc] /\ Top.pc \in Nat
  BY <1>1, OpFacts, TopFacts, SequenceFacts DEF WellFormed
<1>3. Len(stack) = 1 /\ stack = <<Top>>
  <2>1. Len(stack) # 2
    BY <1>1, <1>2, NestedOps
  <2> QED
    BY <1>1, <2>1, RunningStack
<1>4. x \in DOMAIN Top.live /\ a = Top.live[x] /\ a \in DOMAIN wrapper
  BY <1>1, FirstOperand
<1>5. WrittenFrom(Top, x)
  BY <1>1, <1>2 DEF WrittenFrom
<1>6. /\ \A v \in DOMAIN Top.live : v # x => wrapper[Top.live[v]].tensor # wrapper[a].tensor
      /\ ~InCache(wrapper, cache, a)
  <2>1. Separate(wrapper, cache, Top)
    BY <1>1, <1>3 DEF ValuesInv, Running
  <2> QED
    BY <1>4, <1>5, <2>1 DEF Separate
<1>7. Continues(fr2) /\ fr2.live = Top.live
  <2>1. DOMAIN Top = Fields
    BY <1>1, RunningStack DEF Outer, Nested, FrameInv
  <2> QED
    BY <1>1, <2>1 DEF Continues, Resume, Fields
<1> HIDE DEF d, a, fr2
<1>8. /\ HeapSteps
      /\ \A w \in DOMAIN wrapper :
            Content(wrapper', storage', w) =
               IF wrapper[w].tensor = wrapper[a].tensor THEN d
               ELSE Content(wrapper, storage, w)
  BY <1>1, <1>4, <1>6, WriteSteps
<1>9. Grown(Top.live)
  BY DEF Grown
<1>10. Computes(Top.live)
  <2> SUFFICES ASSUME NEW env, PoolHolds(wrapper, storage, Top.live, env)
               PROVE  PoolHolds(wrapper', storage', Top.live, ApplyOperation(Op, env, Top.dev))
    BY DEF Computes
  <2>1. d = Term(Op.name, Top.dev, [n \in DOMAIN Op.ins |-> env[Op.ins[n]]])
    BY <1>1, OperandContents DEF d
  <2>2. ApplyOperation(Op, env, Top.dev) = [env EXCEPT ![x] = d]
    BY <1>1, <2>1 DEF ApplyOperation, Apply
  <2>3. \A v \in DOMAIN Top.live : Top.live[v] \in DOMAIN wrapper
    BY <1>1, TopFacts DEF FrameRefs, Range
  <2>4. \A v \in DOMAIN Top.live :
           v \in DOMAIN env /\ Content(wrapper, storage, Top.live[v]) = env[v]
    BY DEF PoolHolds
  <2> HIDE DEF x
  <2>5. \A v \in DOMAIN Top.live :
           v \in DOMAIN [env EXCEPT ![x] = d]
           /\ Content(wrapper', storage', Top.live[v]) = [env EXCEPT ![x] = d][v]
    BY <1>4, <1>6, <1>8, <2>3, <2>4
  <2> QED
    BY <2>2, <2>5 DEF PoolHolds
<1> QED
  BY <1>1, <1>7, <1>8, <1>9, <1>10 DEF TopSteps

\* A deallocation takes its operand out of the pool (runDeallocate).
LEMMA runDeallocateSteps ==
    ASSUME ProgramsWellFormed, ExecutorInv, ExecutorInv', runDeallocate
    PROVE  \E fr2 : TopSteps(fr2)
<1> DEFINE ss == freed(Arg(1))
           live == Restrict(Top.live, DOMAIN Top.live \ ToSet(Op.ins))
           fr2 == After(live)
<1>1. /\ Running /\ ~AtEnd(Top) /\ Op.op = "deallocate"
      /\ latestVersion' = latestVersion /\ agreed' = agreed
  BY DEF runDeallocate, runOperation
<1>2. Settle(wrapper, ss, held, cache, [stack EXCEPT ![Len(stack)] = fr2])
  BY DEF runDeallocate, Resume, After
<1>3. HeapTyped(wrapper, storage, latestVersion)
  BY DEF ExecutorInv, HeapInv
<1>4. Grows(wrapper, ss, latestVersion')
  BY <1>1, <1>3, SameGrows, DeallocateGrows DEF freed
<1>5. /\ DOMAIN live \subseteq DOMAIN Top.live
      /\ \A v \in DOMAIN live : live[v] = Top.live[v]
  BY DEF Restrict
<1>6. fr2 = After(live)
  OBVIOUS
<1> HIDE DEF ss, fr2, live
<1>7. \A v \in DOMAIN Top.live : Top.live[v] \in DOMAIN wrapper
  BY <1>1, TopFacts DEF FrameRefs, Range
<1>8. Range(live) \subseteq DOMAIN wrapper
  BY <1>5, <1>7 DEF Range
<1>9. /\ Continues(fr2) /\ fr2.live = live /\ HeapSteps /\ KeepsContents
      /\ \A v \in DOMAIN live : live[v] \in DOMAIN wrapper'
  BY <1>1, <1>2, <1>4, <1>6, <1>8, RunSteps
<1>10. Grown(live)
  BY <1>5 DEF Grown
<1>11. Computes(live)
  <2> SUFFICES ASSUME NEW env, PoolHolds(wrapper, storage, Top.live, env)
               PROVE  PoolHolds(wrapper', storage', live, ApplyOperation(Op, env, Top.dev))
    BY DEF Computes
  <2>1. ApplyOperation(Op, env, Top.dev) = env
    BY <1>1, ApplyDeallocate
  <2>2. \A v \in DOMAIN live : v \in DOMAIN env /\ Content(wrapper', storage', live[v]) = env[v]
    BY <1>5, <1>7, <1>9 DEF PoolHolds, KeepsContents
  <2> QED
    BY <2>1, <2>2 DEF PoolHolds
<1> QED
  BY <1>9, <1>10, <1>11 DEF TopSteps

-----------------------------------------------------------------------------
(* Values and load_cached                                                  *)

\* The pool live with the results res, in wrappers from lv on, and the
\* environment env with their values r.
WithResults(res, lv, live) ==
    Overlay([v \in ToSet(res) |-> lv + (CHOOSE n \in DOMAIN res : res[n] = v) - 1], live)

WithValues(res, r, env) ==
    Overlay([v \in ToSet(res) |-> r[CHOOSE n \in DOMAIN res : res[n] = v]], env)

\* The wrappers ws2 are ws and new ones for the tensors of outs.
HasInserted(ws, ss, outs, ws2) ==
    /\ Grows(ws2, ss, latestVersion + Len(outs))
    /\ DOMAIN ws2 = DOMAIN wrapper \cup (latestVersion .. latestVersion + Len(outs) - 1)
    /\ \A w \in DOMAIN wrapper : ws2[w] = ws[w]
    /\ \A n \in DOMAIN outs :
          /\ latestVersion + n - 1 \in DOMAIN ws2
          /\ ws2[latestVersion + n - 1].tensor = ws[outs[n]].tensor
          /\ Content(ws2, ss, latestVersion + n - 1) = Content(ws, ss, outs[n])

\* The tensors of outs as the results of a load_cached.
LEMMA InsertedGrows ==
    ASSUME ExecutorInv, NEW ws, NEW ss, Grows(ws, ss, latestVersion),
           DOMAIN ws = DOMAIN wrapper,
           NEW outs, isSequence(outs),
           NEW ws2, ws2 = insertedWrappers(ws, outs)
    PROVE  HasInserted(ws, ss, outs, ws2)
<1> DEFINE v == latestVersion
           r == FALSE
           new == [w \in v .. v + Len(outs) - 1 |->
                      TTNNTensorWrapper(ws[outs[w - v + 1]].tensor, r, w)]
<1>1. Len(outs) \in Nat /\ DOMAIN outs = 1 .. Len(outs)
  BY SequenceFacts
<1>2. v \in Nat /\ \A w \in DOMAIN wrapper : w \in 0 .. v - 1
  BY DEF ExecutorInv, HeapInv, HeapTyped
<1>3. ws2 = Overlay(new, ws)
  BY DEF insertedWrappers
<1> HIDE DEF r
<1>4. DOMAIN new = v .. v + Len(outs) - 1
  OBVIOUS
<1>5. \A w \in DOMAIN new :
         new[w].tensor = ws[outs[w - v + 1]].tensor /\ new[w].version = w
  BY WrapperFields
<1> HIDE DEF new
<1>6. DOMAIN ws2 = DOMAIN wrapper \cup (v .. v + Len(outs) - 1)
  BY <1>3, <1>4 DEF Overlay
<1>7. \A w \in DOMAIN wrapper : ws2[w] = ws[w]
  <2>1. \A w \in DOMAIN wrapper : w \notin DOMAIN new
    BY <1>1, <1>2, <1>4
  <2> QED
    BY <1>3, <2>1 DEF Overlay
<1>8. \A w \in v .. v + Len(outs) - 1 :
         /\ ws2[w].tensor = ws[outs[w - v + 1]].tensor /\ ws2[w].version = w
         /\ w \notin DOMAIN wrapper
  <2>1. \A w \in v .. v + Len(outs) - 1 : w \notin DOMAIN wrapper
    BY <1>1, <1>2
  <2>2. \A w \in v .. v + Len(outs) - 1 : ws2[w] = new[w]
    BY <1>3, <1>4 DEF Overlay
  <2> QED
    BY <1>4, <1>5, <2>1, <2>2
<1>9. v + Len(outs) \in Nat /\ v <= v + Len(outs)
  BY <1>1, <1>2
<1>10. Grows(ws2, ss, v + Len(outs))
  <2>1. ASSUME NEW w \in DOMAIN ws2, w \in DOMAIN wrapper
        PROVE  /\ ws2[w].tensor = wrapper[w].tensor
               /\ ws2[w].version = wrapper[w].version
               /\ Content(ws2, ss, w) = Content(wrapper, storage, w)
    <3>1. ws2[w] = ws[w] /\ w \in DOMAIN ws
      BY <1>7, <2>1
    <3>2. Content(ws2, ss, w) = Content(ws, ss, w)
      BY <3>1 DEF Content
    <3> QED
      BY <2>1, <3>1, <3>2, Zenon DEF Grows
  <2> QED
    BY <1>6, <1>8, <1>9, <2>1 DEF Grows
<1>11. ASSUME NEW n \in DOMAIN outs
       PROVE  /\ v + n - 1 \in DOMAIN ws2
              /\ ws2[v + n - 1].tensor = ws[outs[n]].tensor
  <2>1. v + n - 1 \in v .. v + Len(outs) - 1 /\ (v + n - 1) - v + 1 = n
    BY <1>1, <1>2
  <2> QED
    BY <1>6, <1>8, <2>1
<1> QED
  BY <1>6, <1>7, <1>10, <1>11 DEF Content, HasInserted

\* The pool after the results res are in it, with the contents that r says.
LEMMA HoldsResults ==
    ASSUME NEW res, NEW lv, NEW live, NEW live2,
           live2 = WithResults(res, lv, live),
           NEW r, NEW ws, NEW ss, NEW ws2, NEW ss2,
           \A n \in DOMAIN res : Content(ws2, ss2, lv + n - 1) = r[n],
           \A v \in DOMAIN live : v \in ToSet(res)
               \/ Content(ws2, ss2, live[v]) = Content(ws, ss, live[v]),
           NEW env, PoolHolds(ws, ss, live, env)
    PROVE  PoolHolds(ws2, ss2, live2, WithValues(res, r, env))
<1> DEFINE a == [v \in ToSet(res) |-> lv + (CHOOSE n \in DOMAIN res : res[n] = v) - 1]
           b == [v \in ToSet(res) |-> r[CHOOSE n \in DOMAIN res : res[n] = v]]
<1>1. ASSUME NEW v \in ToSet(res)
      PROVE  Content(ws2, ss2, a[v]) = b[v]
  <2> DEFINE i == CHOOSE n \in DOMAIN res : res[n] = v
  <2>1. i \in DOMAIN res
    BY DEF ToSet
  <2>2. a[v] = lv + i - 1 /\ b[v] = r[i]
    OBVIOUS
  <2> HIDE DEF i, a, b
  <2> QED
    BY <2>1, <2>2
<1>2. DOMAIN a = ToSet(res) /\ DOMAIN b = ToSet(res)
  OBVIOUS
<1>3. live2 = Overlay(a, live)
  BY DEF WithResults
<1> HIDE DEF a, b
<1>4. /\ DOMAIN live2 = ToSet(res) \cup DOMAIN live
      /\ \A v \in DOMAIN live2 : live2[v] = IF v \in ToSet(res) THEN a[v] ELSE live[v]
  BY <1>2, <1>3 DEF Overlay
<1>5. /\ DOMAIN Overlay(b, env) = ToSet(res) \cup DOMAIN env
      /\ \A v \in ToSet(res) \cup DOMAIN env :
            Overlay(b, env)[v] = IF v \in ToSet(res) THEN b[v] ELSE env[v]
  BY <1>2 DEF Overlay
<1>6. ASSUME NEW v \in DOMAIN live2
      PROVE  v \in DOMAIN Overlay(b, env) /\ Content(ws2, ss2, live2[v]) = Overlay(b, env)[v]
  <2>1. CASE v \in ToSet(res)
    BY <1>1, <1>4, <1>5, <2>1
  <2>2. CASE v \notin ToSet(res)
    <3>1. v \in DOMAIN live /\ live2[v] = live[v]
      BY <1>4, <2>2
    <3>2. v \in DOMAIN env /\ Content(ws, ss, live[v]) = env[v]
      BY <3>1 DEF PoolHolds
    <3> QED
      BY <1>5, <2>2, <3>1, <3>2
  <2> QED
    BY <2>1, <2>2
<1>7. PoolHolds(ws2, ss2, live2, Overlay(b, env))
  BY <1>6 DEF PoolHolds
<1> QED
  BY <1>7 DEF b, WithValues

\* What a hit finds is what the const-eval function computes on the operands.
LEMMA HitValues ==
    ASSUME ProgramsWellFormed, ExecutorInv, ValuesInv, Running, ~AtEnd(Top),
           isHit(Top, Op), NEW env, PoolHolds(wrapper, storage, Top.live, env)
    PROVE  LET outs == cache[cacheKey(Top, Op.name)].tensors
               args == [n \in DOMAIN Op.ins |-> env[Op.ins[n]]]
           IN  \A n \in DOMAIN outs :
                  Content(wrapper, storage, outs[n]) =
                     ConstEvalValue(ConstEval[Op.name], args, Top.dev)[n]
<1> DEFINE k == cacheKey(Top, Op.name)
           e == cache[k]
           iv == e.inputVersions
<1>1. k \in DOMAIN cache /\ iv = inputVersions(Top, Op)
  BY DEF isHit
<1>2. k.callee = Op.name /\ k.dev = Top.dev
  BY DEF cacheKey
<1>3. EntryValues(wrapper, storage, latestVersion, k, e)
  BY <1>1 DEF ValuesInv
<1> HIDE DEF k, e
<1>4. PICK args :
         /\ args = [n \in DOMAIN iv |-> args[n]]
         /\ \A n \in DOMAIN iv : iv[n] \in DOMAIN wrapper =>
               Content(wrapper, storage, iv[n]) = args[n]
         /\ \A n \in DOMAIN e.tensors :
               Content(wrapper, storage, e.tensors[n]) =
                   ConstEvalValue(ConstEval[k.callee], args, k.dev)[n]
  BY <1>3, Zenon DEF EntryValues
<1>5. ASSUME NEW n \in DOMAIN Op.ins
      PROVE  iv[n] = Top.live[Op.ins[n]] /\ Top.live[Op.ins[n]] \in DOMAIN wrapper
             /\ Content(wrapper, storage, Top.live[Op.ins[n]]) = env[Op.ins[n]]
  <2>1. Op.ins[n] \in DOMAIN Top.live
    BY OpFacts DEF ToSet
  <2>2. Top.live[Op.ins[n]] \in DOMAIN wrapper
    BY <2>1, TopFacts DEF FrameRefs, Range
  <2>3. iv[n] = wrapper[Top.live[Op.ins[n]]].version
    BY <1>1 DEF inputVersions
  <2>4. iv[n] = Top.live[Op.ins[n]]
    BY <2>2, <2>3 DEF ValuesInv, VersionInv
  <2> QED
    BY <2>1, <2>2, <2>4 DEF PoolHolds
<1>6. DOMAIN iv = DOMAIN Op.ins
  BY <1>1 DEF inputVersions
<1>7. \A n \in DOMAIN Op.ins : args[n] = env[Op.ins[n]]
  BY <1>4, <1>5, <1>6
<1>8. args = [n \in DOMAIN Op.ins |-> env[Op.ins[n]]]
  <2>1. args = [n \in DOMAIN Op.ins |-> args[n]]
    BY <1>4, <1>6, Zenon
  <2> QED
    BY <1>7, <2>1
<1> QED
  BY <1>2, <1>4, <1>8, Zenon DEF e, k

\* A load_cached that hits has in its results what the const-eval function
\* computes on its operands (runLoadCachedHit).
LEMMA runLoadCachedHitSteps ==
    ASSUME ProgramsWellFormed, ExecutorInv, ExecutorInv', ValuesInv, runLoadCachedHit
    PROVE  \E fr2 : TopSteps(fr2)
<1> DEFINE lv == latestVersion
           key == cacheKey(Top, Op.name)
           outs == cache[key].tensors
           ws == insertedWrappers(wrapper, outs)
           res == Op.outs
           live == WithResults(res, lv, Top.live)
           fr2 == After(live)
<1>1. /\ runOperation("load_cached") /\ isHit(Top, Op)
      /\ latestVersion' = lv + Len(outs) /\ agreed' = agreed
  BY DEF runLoadCachedHit
<1>2. Settle(ws, storage, held, cache, [stack EXCEPT ![Len(stack)] = fr2])
  BY DEF runLoadCachedHit, insertedLive, WithResults, Resume, After
<1>3. /\ Running /\ ~AtEnd(Top) /\ Outer(wrapper, storage, Top)
      /\ Top.pc <= Len(Top.fn.body)
      /\ Op = Top.fn.body[Top.pc] /\ Op.op = "load_cached"
  BY <1>1, LoadCachedOuter
<1>4. /\ isSequence(res) /\ ToSet(res) \cap DOMAIN Top.live = {}
      /\ Len(res) = Len(CompiledConstEval[Op.name].ret)
  BY <1>3, LoadCachedFacts
<1>5. key.callee = Op.name /\ key \in DOMAIN cache
  BY <1>1 DEF cacheKey, isHit
<1>6. isSequence(outs) /\ Len(outs) = Len(res)
  BY <1>4, <1>5 DEF ExecutorInv, CacheInv
<1>7. ToSet(outs) \subseteq CacheRefs(cache) /\ CacheRefs(cache) \subseteq DOMAIN wrapper
  <2>1. ToSet(outs) \subseteq CacheRefs(cache)
    BY <1>5 DEF CacheRefs
  <2> QED
    BY <2>1, RefsInHeap
<1>8. DOMAIN outs = DOMAIN res /\ Len(res) \in Nat
  BY <1>4, <1>6, SequenceFacts
<1>9. /\ ws = insertedWrappers(wrapper, outs) /\ fr2 = After(live)
      /\ live = WithResults(res, lv, Top.live)
  OBVIOUS
<1> HIDE DEF ws, live, fr2
<1>10. /\ Grows(ws, storage, latestVersion')
       /\ DOMAIN wrapper \subseteq DOMAIN ws
       /\ \A n \in DOMAIN outs :
             /\ lv + n - 1 \in DOMAIN ws
             /\ ws[lv + n - 1].tensor = wrapper[outs[n]].tensor
             /\ Content(ws, storage, lv + n - 1) = Content(wrapper, storage, outs[n])
  <2> HIDE DEF outs
  <2>1. isSequence(outs) /\ ws = insertedWrappers(wrapper, outs)
        /\ Grows(wrapper, storage, latestVersion)
    BY <1>6, <1>9, SameGrows
  <2>2. HasInserted(wrapper, storage, outs, ws)
    BY <2>1, InsertedGrows
  <2> QED
    BY <1>1, <2>2 DEF HasInserted
<1>11. /\ DOMAIN live = ToSet(res) \cup DOMAIN Top.live
       /\ \A v \in DOMAIN Top.live : v \notin ToSet(res) => live[v] = Top.live[v]
       /\ \A v \in ToSet(res) : \E n \in DOMAIN res : live[v] = lv + n - 1
  <2>1. \A v \in ToSet(res) : (CHOOSE n \in DOMAIN res : res[n] = v) \in DOMAIN res
    BY DEF ToSet
  <2> HIDE DEF res
  <2> QED
    BY <1>9, <2>1 DEF Overlay, WithResults
<1>12. \A v \in DOMAIN Top.live : v \notin ToSet(res) /\ Top.live[v] \in DOMAIN wrapper
  BY <1>3, <1>4, TopFacts DEF FrameRefs, Range
<1> HIDE DEF key, outs, res
<1>13. Range(live) \subseteq DOMAIN ws
  <2>1. \A v \in DOMAIN live : live[v] \in DOMAIN ws
    BY <1>8, <1>10, <1>11, <1>12
  <2> QED
    BY <2>1 DEF Range
<1>14. /\ Continues(fr2) /\ fr2.live = live
       /\ HeapSteps /\ KeepsContents /\ Settled(ws, storage)
       /\ \A v \in DOMAIN live : live[v] \in DOMAIN wrapper'
  BY <1>1, <1>2, <1>3, <1>9, <1>10, <1>13, RunSteps
<1>15. Grown(live)
  <2>1. ASSUME NEW v \in ToSet(res) PROVE ResultOf(live[v])
    <3>1. PICK n \in DOMAIN outs : live[v] = lv + n - 1
      BY <1>8, <1>11
    <3>2. live[v] \in DOMAIN wrapper'
      BY <1>11, <1>14
    <3>3. wrapper'[live[v]].tensor = wrapper[outs[n]].tensor
      BY <1>10, <1>14, <3>1, <3>2 DEF Settled
    <3>4. outs[n] \in CacheRefs(cache)
      BY <1>7 DEF ToSet
    <3> QED
      BY <3>3, <3>4 DEF ResultOf
  <2> QED
    BY <1>11, <2>1 DEF Grown, res
<1>16. Computes(live)
  <2> SUFFICES ASSUME NEW env, PoolHolds(wrapper, storage, Top.live, env)
               PROVE  PoolHolds(wrapper', storage', live, ApplyOperation(Op, env, Top.dev))
    BY DEF Computes
  <2> DEFINE r == ConstEvalValue(ConstEval[Op.name],
                      [n \in DOMAIN Op.ins |-> env[Op.ins[n]]], Top.dev)
  <2>1. \A n \in DOMAIN outs : Content(wrapper, storage, outs[n]) = r[n]
    BY <1>1, <1>3, HitValues DEF outs, key
  <2>2. ApplyOperation(Op, env, Top.dev) = WithValues(res, r, env)
    BY <1>3 DEF ApplyOperation, ApplyLoadCached, WithValues, res
  <2> HIDE DEF r
  <2>3. ASSUME NEW n \in DOMAIN res
        PROVE  Content(ws, storage, lv + n - 1) = r[n]
    BY <1>8, <1>10, <2>1
  <2>4. PoolHolds(ws, storage, live, WithValues(res, r, env))
    <3>1. \A v \in DOMAIN Top.live : v \in ToSet(res)
             \/ Content(ws, storage, Top.live[v]) = Content(wrapper, storage, Top.live[v])
      BY <1>10, <1>12 DEF Grows
    <3> QED
      BY <1>9, <2>3, <3>1, HoldsResults
  <2>5. \A v \in DOMAIN live :
           Content(wrapper', storage', live[v]) = Content(ws, storage, live[v])
    BY <1>14 DEF Settled
  <2> QED
    BY <2>2, <2>4, <2>5 DEF PoolHolds
<1> QED
  BY <1>14, <1>15, <1>16 DEF TopSteps

\* The pool of a fresh executor has the contents of its arguments.
LEMMA BindHolds ==
    ASSUME NEW f, NEW args, NEW vals, NEW ws, NEW ss,
           \A n \in DOMAIN f.params : Content(ws, ss, args[n]) = vals[n]
    PROVE  PoolHolds(ws, ss, Bind(f, args), Bind(f, vals))
<1> DEFINE idx(v) == CHOOSE n \in DOMAIN f.params : f.params[n] = v
<1>1. /\ Bind(f, args) = [v \in ToSet(f.params) |-> args[idx(v)]]
      /\ Bind(f, vals) = [v \in ToSet(f.params) |-> vals[idx(v)]]
  BY DEF Bind
<1>2. \A v \in ToSet(f.params) : idx(v) \in DOMAIN f.params
  BY DEF ToSet
<1> HIDE DEF idx
<1> QED
  BY <1>1, <1>2 DEF PoolHolds

\* The operations of a function other than deallocations are those that it had
\* before TTNNDeallocate.
LEMMA CompiledFrom ==
    ASSUME NEW f, InSSAForm(f), NEW g, g = TTNNDeallocate(f),
           NEW k \in DOMAIN g.body, g.body[k].op # "deallocate"
    PROVE  \E j \in DOMAIN f.body : g.body[k] = f.body[j]
<1>1. g.params = f.params
  BY CompiledFields
<1>2. PICK src : CompiledAs(f, g, src)
  BY CompiledSource
<1>3. isSequence(g.body)
  BY CompiledSource
<1>4. k \in 1 .. Len(g.body)
  BY <1>3, SequenceFacts
<1>5. ~(src[k] = src[k - 1] /\ IsLastUse(f, src[k], g.body[k]))
  <2>1. IsLastUse(f, src[k], g.body[k]) => g.body[k].op = "deallocate"
    BY DEF IsLastUse, DeallocateOp
  <2> QED
    BY <2>1
<1>6. src[k] = src[k - 1] + 1 /\ g.body[k] = f.body[src[k]]
  BY <1>2, <1>4, <1>5 DEF CompiledAs
<1>7. src[k] \in DOMAIN f.body
  BY <1>1, <1>2, <1>4, <1>6, CompiledOperation
<1> QED
  BY <1>6, <1>7

\* A function returns the same before and after TTNNDeallocate.
LEMMA CompiledEndValues ==
    ASSUME NEW f, InSSAForm(f), NEW g, g = TTNNDeallocate(f), NEW args, NEW dev
    PROVE  /\ Returned(g, ProgramValues(g, args, dev)[Len(g.body)]) =
                 ProgramValue(f, args, dev)
           /\ Returned(g, ConstEvalValues(g, args, dev)[Len(g.body)]) =
                 ConstEvalValue(f, args, dev)
<1>1. g.params = f.params /\ g.ret = f.ret
  BY CompiledFields
<1>2. PICK src : CompiledAs(f, g, src)
  BY CompiledSource
<1>3. Len(g.body) \in Nat /\ src[Len(g.body)] = Len(f.body)
  BY <1>2 DEF CompiledAs, Size
<1>4. Len(g.body) \in 0 .. Len(g.body)
  BY <1>3
<1>5. ProgramValues(g, args, dev)[Len(g.body)] = ProgramValues(f, args, dev)[Len(f.body)]
  <2>1. \A i \in 0 .. Len(g.body) :
           ProgramValues(g, args, dev)[i] = ProgramValues(f, args, dev)[src[i]]
    BY <1>1, <1>2, CompiledProgramValues
  <2> QED
    BY <1>3, <1>4, <2>1
<1>6. ConstEvalValues(g, args, dev)[Len(g.body)] = ConstEvalValues(f, args, dev)[Len(f.body)]
  <2>1. \A i \in 0 .. Len(g.body) :
           ConstEvalValues(g, args, dev)[i] = ConstEvalValues(f, args, dev)[src[i]]
    BY <1>1, <1>2, CompiledConstEvalValues
  <2> QED
    BY <1>3, <1>4, <2>1
<1> QED
  BY <1>1, <1>5, <1>6 DEF Returned, ProgramValue, ConstEvalValue

\* The outputs of an executor at its end have the values that its function
\* returns.
LEMMA OutputValues ==
    ASSUME AtEndWithOutputs, NEW env, PoolHolds(wrapper, storage, Top.live, env)
    PROVE  [n \in DOMAIN outputs(Top) |-> contents(outputs(Top)[n])] = Returned(Top.fn, env)
<1>1. \A n \in DOMAIN Top.fn.ret : Top.fn.ret[n] \in DOMAIN Top.live
  BY DEF AtEndWithOutputs, ToSet
<1>2. \A n \in DOMAIN Top.fn.ret : contents(Top.live[Top.fn.ret[n]]) = env[Top.fn.ret[n]]
  BY <1>1 DEF PoolHolds, Content, contents
<1>3. /\ DOMAIN outputs(Top) = DOMAIN Top.fn.ret
      /\ \A n \in DOMAIN Top.fn.ret : outputs(Top)[n] = Top.live[Top.fn.ret[n]]
  BY DEF outputs
<1> QED
  BY <1>2, <1>3 DEF Returned

-----------------------------------------------------------------------------
(* Values and calls of programs and const-eval functions                   *)

\* A step that leaves the heap and the cache alone keeps what is cached.
LEMMA UnchangedHeap ==
    ASSUME ValuesInv, UNCHANGED <<wrapper, storage, latestVersion, cache, agreed>>
    PROVE  /\ VersionInv(wrapper') /\ agreed'
           /\ \A k \in DOMAIN cache' :
                 EntryValues(wrapper', storage', latestVersion', k, cache'[k])
  BY DEF ValuesInv

\* A const-eval function starts on the contents that its caller has.
LEMMA runLoadCachedMissValues ==
    ASSUME ProgramsInSSAForm, ProgramsWellFormed, ProgramsWriteSeparate, ExecutorInv, ValuesInv,
           runLoadCachedMiss
    PROVE  ValuesInv'
<1> DEFINE f == CompiledConstEval[Op.name]
           args == [n \in DOMAIN Op.ins |-> Arg(n)]
           caller == Top
           vals == LoadedContents(wrapper, storage, caller)
           fr == [Executor(f, caller.dev, caller.prog, args)
                     EXCEPT !.versions = inputVersions(Top, Op)]
<1>1. /\ runOperation("load_cached")
      /\ UNCHANGED <<wrapper, storage, latestVersion, held, cache, agreed>>
      /\ stack' = Append(stack, fr)
  BY DEF runLoadCachedMiss
<1>2. /\ Running /\ ~AtEnd(caller) /\ stack = <<caller>>
      /\ Outer(wrapper, storage, caller)
      /\ caller.pc <= Len(caller.fn.body)
      /\ Op = caller.fn.body[caller.pc] /\ Op.op = "load_cached"
  BY <1>1, LoadCachedOuter
<1>3. /\ Op.name \in DOMAIN ConstEval /\ isSequence(Op.ins)
      /\ Len(Op.ins) = Len(f.params)
      /\ ToSet(Op.ins) \subseteq DOMAIN caller.live
      /\ caller.pc \in DOMAIN caller.fn.body
  BY <1>2, LoadCachedFacts
<1>4. WellFormed(f)
  BY <1>3 DEF ProgramsWellFormed
<1>5. DOMAIN f.params = DOMAIN Op.ins /\ Len(f.body) \in Nat
  <2>1. DOMAIN Op.ins = 1 .. Len(Op.ins) /\ DOMAIN f.params = 1 .. Len(f.params)
    BY <1>3, <1>4, SequenceFacts DEF WellFormed
  <2> QED
    BY <1>3, <1>4, <2>1, SequenceFacts DEF WellFormed
<1>6. \A n \in DOMAIN Op.ins :
         /\ Op.ins[n] \in DOMAIN caller.live /\ args[n] = caller.live[Op.ins[n]]
         /\ args[n] \in DOMAIN wrapper
         /\ Content(wrapper, storage, args[n]) = vals[n]
  <2>1. \A n \in DOMAIN Op.ins : Op.ins[n] \in DOMAIN caller.live
    BY <1>3 DEF ToSet
  <2>2. \A v \in DOMAIN caller.live : caller.live[v] \in DOMAIN wrapper
    BY <1>2 DEF Outer, FrameAlive
  <2> QED
    BY <1>2, <2>1, <2>2 DEF Arg, LoadedContents
<1>7. /\ fr.fn = f /\ fr.dev = caller.dev /\ fr.pc = 1 /\ fr.live = Bind(f, args)
      /\ fr.versions = inputVersions(Top, Op)
  BY DEF Executor
<1>8. Starts(f, caller.prog, args, fr) /\ DOMAIN args = DOMAIN Op.ins
  BY DEF Starts, Executor, Fields
<1>9. inputVersions(Top, Op) = LoadedFrom(caller)
  <2>1. \A n \in DOMAIN Op.ins :
           wrapper[caller.live[Op.ins[n]]].version = caller.live[Op.ins[n]]
    BY <1>6 DEF ValuesInv, VersionInv
  <2> QED
    BY <1>2, <2>1 DEF inputVersions, LoadedFrom
<1> HIDE DEF f, args, caller, vals, fr
<1>10. NestedValues(wrapper, storage, caller, fr)
  <2>1. PoolHolds(wrapper, storage, Bind(f, args), Bind(f, vals))
    BY <1>5, <1>6, BindHolds
  <2>2. ConstEvalValues(f, vals, caller.dev)[0] = Bind(f, vals)
    BY <1>5, ConstEvalStep
  <2>3. fr.pc - 1 = 0
    BY <1>7
  <2> QED
    BY <1>7, <1>9, <2>1, <2>2, <2>3 DEF NestedValues, vals
<1>11. OuterValues(wrapper, storage, caller) /\ Separate(wrapper, cache, caller)
  BY <1>2 DEF ValuesInv
<1>12. NestedSeparate(wrapper, caller, fr)
  <2> SUFFICES ASSUME NEW x \in DOMAIN caller.live, WrittenFrom(caller, x),
                      NEW v \in DOMAIN fr.live
               PROVE  wrapper[fr.live[v]].tensor # wrapper[caller.live[x]].tensor
    BY DEF NestedSeparate
  <2>1. WritesSeparate(caller.fn)
    BY <1>2, OuterWrites
  <2>2. x \notin ToSet(Op.ins)
    BY <1>2, <1>3, <2>1 DEF WrittenFrom, WritesSeparate
  <2>3. PICK n \in DOMAIN args : fr.live[v] = args[n]
    BY <1>4, <1>5, <1>8, NewExecutor
  <2>4. Op.ins[n] \in DOMAIN caller.live /\ fr.live[v] = caller.live[Op.ins[n]]
    BY <1>6, <1>8, <2>3
  <2>5. Op.ins[n] # x
    BY <1>8, <2>2 DEF ToSet
  <2> QED
    BY <1>11, <2>4, <2>5 DEF Separate
<1>13. stack' = <<caller, fr>>
  <2>1. Append(<<caller>>, fr) = <<caller, fr>>
    BY AppendOne, Zenon
  <2> QED
    BY <1>1, <1>2, <2>1, Zenon
<1>14. stack'[1] = caller /\ stack'[2] = fr /\ Len(stack') = 2
  BY <1>13
<1>15. UNCHANGED <<wrapper, storage, latestVersion, cache, agreed>>
  BY <1>1
<1> QED
  BY <1>10, <1>11, <1>12, <1>14, <1>15, UnchangedHeap DEF ValuesInv

\* A program starts with the contents of its arguments, and those that it is
\* going to overwrite are nobody else's.
LEMMA submitValues ==
    ASSUME ProgramsInSSAForm, ProgramsWellFormed, ExecutorInv, ValuesInv,
           OverwriteShared = FALSE, NEW p \in DOMAIN Programs, NEW dev,
           NEW args \in [DOMAIN Programs[p].params -> held], submit(p, dev, args)
    PROVE  ValuesInv'
<1> DEFINE g == Compiled[p]
           vals == [n \in DOMAIN args |-> contents(args[n])]
           fr == [Executor(g, dev, p, args) EXCEPT
                     !.promised = ProgramValue(Programs[p], vals, dev)]
<1>1. /\ Idle /\ stack' = <<fr>>
      /\ UNCHANGED <<wrapper, storage, latestVersion, cache, agreed>>
  BY DEF submit
<1>2. \A n \in DOMAIN args :
         Writes(Programs[p], n) => PassedOnce(args, n) /\ ~SharedWithCache(args[n])
  BY DEF submit
<1>3. /\ g = TTNNDeallocate(Programs[p]) /\ InSSAForm(Programs[p]) /\ WellFormed(g)
      /\ g.params = Programs[p].params
  BY CompiledParams DEF Compiled, ProgramsInSSAForm, ProgramsWellFormed
<1>4. /\ fr.fn = g /\ fr.dev = dev /\ fr.prog = p /\ fr.pc = 1 /\ fr.live = Bind(g, args)
      /\ fr.promised = ProgramValue(Programs[p], vals, dev)
  BY DEF Executor
<1>5. Starts(g, p, args, fr)
  BY DEF Starts, Executor, Fields
<1>6. \A n \in DOMAIN g.params : n \in DOMAIN args
         /\ Content(wrapper, storage, args[n]) = vals[n]
  BY <1>3 DEF Content, contents
<1>7. DOMAIN args = DOMAIN g.params /\ Len(g.body) \in Nat
  BY <1>3, SequenceFacts DEF WellFormed
<1> HIDE DEF g, vals, fr
<1>8. OuterValues(wrapper, storage, fr)
  <2>1. PoolHolds(wrapper, storage, Bind(g, args), Bind(g, vals))
    BY <1>6, BindHolds
  <2>2. ProgramValues(g, vals, dev)[0] = Bind(g, vals)
    BY <1>7, ProgramStep
  <2>3. fr.pc - 1 = 0
    BY <1>4
  <2>4. PoolHolds(wrapper, storage, fr.live, ProgramValues(fr.fn, vals, fr.dev)[fr.pc - 1])
    BY <1>4, <2>1, <2>2, <2>3
  <2>5. fr.promised = ProgramValue(Programs[fr.prog], vals, fr.dev)
    BY <1>4
  <2> QED
    BY <2>4, <2>5 DEF OuterValues
<1>9. \A v \in DOMAIN fr.live :
         \E n \in DOMAIN args : g.params[n] = v /\ fr.live[v] = args[n]
  BY <1>3, <1>5, <1>7, NewExecutor
<1>10. Separate(wrapper, cache, fr)
  <2> SUFFICES ASSUME NEW x \in DOMAIN fr.live, WrittenFrom(fr, x)
               PROVE  /\ \A v \in DOMAIN fr.live :
                            v # x => wrapper[fr.live[v]].tensor # wrapper[fr.live[x]].tensor
                      /\ ~InCache(wrapper, cache, fr.live[x])
    BY DEF Separate
  <2>1. PICK n \in DOMAIN args : g.params[n] = x /\ fr.live[x] = args[n]
    BY <1>9
  <2>2. Writes(Programs[p], n)
    <3>1. PICK k \in DOMAIN g.body : g.body[k].op = "inplace" /\ g.body[k].ins[1] = x
      BY <1>4 DEF WrittenFrom
    <3>2. PICK j \in DOMAIN Programs[p].body : g.body[k] = Programs[p].body[j]
      BY <1>3, <3>1, CompiledFrom
    <3> QED
      BY <1>3, <2>1, <3>1, <3>2 DEF Writes
  <2>3. PassedOnce(args, n) /\ ~SharedWithCache(args[n])
    BY <1>2, <2>2
  <2>4. ASSUME NEW v \in DOMAIN fr.live, v # x
        PROVE  wrapper[fr.live[v]].tensor # wrapper[fr.live[x]].tensor
    <3>1. PICK m \in DOMAIN args : g.params[m] = v /\ fr.live[v] = args[m]
      BY <1>9
    <3>2. m # n
      BY <2>1, <2>4, <3>1
    <3> QED
      BY <2>1, <2>3, <3>1, <3>2 DEF PassedOnce
  <2>5. ~InCache(wrapper, cache, args[n])
    BY <2>3 DEF SharedWithCache, InCache
  <2> QED
    BY <2>1, <2>4, <2>5
<1>11. stack'[1] = fr /\ Len(stack') # 2
  BY <1>1
<1> QED
  BY <1>1, <1>8, <1>10, <1>11, UnchangedHeap DEF ValuesInv

\* Clearing the retain flags of the outputs changes no contents.
LEMMA GatheredGrows ==
    ASSUME ExecutorInv, NEW fr, NEW ws, ws = gathered(fr)
    PROVE  Grows(ws, storage, latestVersion) /\ DOMAIN ws = DOMAIN wrapper
<1>1. DOMAIN ws = DOMAIN wrapper
  BY DEF gathered
<1>2. ASSUME NEW w \in DOMAIN wrapper
      PROVE  ws[w].tensor = wrapper[w].tensor /\ ws[w].version = wrapper[w].version
  <2>1. DOMAIN wrapper[w] = {"tensor", "retain", "version"}
    BY DEF ExecutorInv, HeapInv, HeapTyped
  <2>2. CASE w \in ToSet(outputs(fr))
    <3>1. ws[w] = [wrapper[w] EXCEPT !.retain = FALSE]
      BY <2>2 DEF gathered
    <3> QED
      BY <2>1, <3>1
  <2>3. CASE w \notin ToSet(outputs(fr))
    BY <2>3 DEF gathered
  <2> QED
    BY <2>2, <2>3
<1>3. latestVersion \in Nat
  BY DEF ExecutorInv, HeapInv, HeapTyped
<1> QED
  BY <1>1, <1>2, <1>3 DEF Grows, Content

\* A program that ends has computed what it promised.
LEMMA finishProgramValues ==
    ASSUME ProgramsInSSAForm, ProgramsWellFormed, ExecutorInv, ExecutorInv', ValuesInv,
           finishProgram
    PROVE  ValuesInv'
<1> DEFINE ws == gathered(Top)
           outs == outputs(Top)
           h == held \cup ToSet(outs)
           none == <<>>
<1>1. AtEndWithOutputs /\ Running /\ Len(stack) = 1 /\ latestVersion' = latestVersion
  BY DEF finishProgram, AtEndWithOutputs
<1>2. Settle(ws, storage, h, cache, none)
  BY DEF finishProgram
<1>3. Grows(ws, storage, latestVersion') /\ DOMAIN ws = DOMAIN wrapper
  <2>1. ws = gathered(Top)
    OBVIOUS
  <2> HIDE DEF ws
  <2> QED
    BY <1>1, <2>1, GatheredGrows
<1>4. ToSet(outs) \subseteq DOMAIN wrapper
  BY <1>1, OutputsInPool
<1>5. DOMAIN none = {} /\ none = <<>>
  OBVIOUS
<1> HIDE DEF ws, none
<1>6. Referenced(h, cache, none) \subseteq DOMAIN ws
  <2>1. h \subseteq DOMAIN ws /\ CacheRefs(cache) \subseteq DOMAIN ws
    BY <1>3, <1>4, RefsInHeap
  <2> QED
    BY <1>5, <2>1, RefsWithin
<1> HIDE DEF h
<1>7. HeapSteps
  BY <1>2, <1>3, <1>6, SettleSteps
<1>8. stack' = <<>> /\ cache' = cache
  BY <1>2, <1>5 DEF Settle
<1>9. Outer(wrapper, storage, Top) /\ stack = <<Top>> /\ stack[1] = Top
  BY <1>1, RunningStack
<1>10. OuterValues(wrapper, storage, Top)
  BY <1>9, <1>1 DEF ValuesInv, Running
<1>11. PICK args :
         /\ Top.promised = ProgramValue(Programs[Top.prog], args, Top.dev)
         /\ PoolHolds(wrapper, storage, Top.live,
                      ProgramValues(Top.fn, args, Top.dev)[Top.pc - 1])
  BY <1>10 DEF OuterValues
<1>12. Top.pc - 1 = Len(Top.fn.body)
  <2>1. Len(Top.fn.body) \in Nat /\ FrameInv(Top)
    BY <1>1, TopFacts, SequenceFacts DEF WellFormed
  <2>2. Top.pc > Len(Top.fn.body)
    BY <1>1 DEF AtEndWithOutputs, AtEnd
  <2> QED
    BY <2>1, <2>2 DEF FrameInv
<1>13. /\ Top.fn = TTNNDeallocate(Programs[Top.prog]) /\ InSSAForm(Programs[Top.prog])
  BY <1>9 DEF Outer, Compiled, ProgramsInSSAForm
<1>14. Top.promised = [n \in DOMAIN outs |-> contents(outs[n])]
  <2>1. [n \in DOMAIN outs |-> contents(outs[n])] =
           Returned(Top.fn, ProgramValues(Top.fn, args, Top.dev)[Len(Top.fn.body)])
    BY <1>1, <1>11, <1>12, OutputValues
  <2>2. Returned(Top.fn, ProgramValues(Top.fn, args, Top.dev)[Len(Top.fn.body)]) =
           ProgramValue(Programs[Top.prog], args, Top.dev)
    BY <1>13, CompiledEndValues
  <2> QED
    BY <1>11, <2>1, <2>2
<1>15. agreed'
  BY <1>14 DEF finishProgram, ValuesInv
<1> QED
  BY <1>7, <1>8, <1>15, IdleKeeps

\* A const-eval function that ends has computed its value on the contents that
\* its caller has.
LEMMA NestedOutputs ==
    ASSUME ProgramsInSSAForm, ProgramsWellFormed, ExecutorInv, ValuesInv, AtEndWithOutputs,
           Len(stack) = 2,
           NEW o, o = stack[1].fn.body[stack[1].pc],
           NEW r, r = ConstEvalValue(ConstEval[o.name],
                          LoadedContents(wrapper, storage, stack[1]), stack[1].dev)
    PROVE  \A n \in DOMAIN outputs(Top) : Content(wrapper, storage, outputs(Top)[n]) = r[n]
<1> DEFINE caller == stack[1]
           vals == LoadedContents(wrapper, storage, caller)
           outs == outputs(Top)
<1>1. /\ Running /\ stack[2] = Top
      /\ Outer(wrapper, storage, caller) /\ Nested(wrapper, storage, caller, Top)
  BY RunningStack DEF AtEndWithOutputs
<1>2. o.op = "load_cached" /\ Top.fn = CompiledConstEval[o.name] /\ o.name \in DOMAIN ConstEval
  BY <1>1, LoadCachedFacts DEF Nested
<1>3. Top.fn = TTNNDeallocate(ConstEval[o.name]) /\ InSSAForm(ConstEval[o.name])
  BY <1>2 DEF CompiledConstEval, ProgramsInSSAForm
<1>4. NestedValues(wrapper, storage, caller, Top)
  BY <1>1 DEF ValuesInv
<1> HIDE DEF caller, outs
<1>5. /\ Top.dev = caller.dev
      /\ PoolHolds(wrapper, storage, Top.live,
                   ConstEvalValues(Top.fn, vals, Top.dev)[Top.pc - 1])
  BY <1>4 DEF NestedValues
<1> HIDE DEF vals
<1>6. Top.pc - 1 = Len(Top.fn.body)
  <2>1. Len(Top.fn.body) \in Nat /\ FrameInv(Top)
    BY <1>1, TopFacts, SequenceFacts DEF WellFormed
  <2>2. Top.pc > Len(Top.fn.body)
    BY DEF AtEndWithOutputs, AtEnd
  <2> QED
    BY <2>1, <2>2 DEF FrameInv
<1>7. [n \in DOMAIN outs |-> contents(outs[n])] = r
  <2>1. [n \in DOMAIN outs |-> contents(outs[n])] =
           Returned(Top.fn, ConstEvalValues(Top.fn, vals, Top.dev)[Len(Top.fn.body)])
    BY <1>5, <1>6, OutputValues DEF outs
  <2>2. Returned(Top.fn, ConstEvalValues(Top.fn, vals, Top.dev)[Len(Top.fn.body)]) =
           ConstEvalValue(ConstEval[o.name], vals, Top.dev)
    <3> DEFINE f == ConstEval[o.name]
    <3>1. Top.fn = TTNNDeallocate(f) /\ InSSAForm(f)
      BY <1>3
    <3> HIDE DEF f
    <3>2. Returned(Top.fn, ConstEvalValues(Top.fn, vals, Top.dev)[Len(Top.fn.body)]) =
             ConstEvalValue(f, vals, Top.dev)
      BY <3>1, CompiledEndValues
    <3> QED
      BY <3>2 DEF f
  <2> QED
    BY <1>5, <2>1, <2>2 DEF vals, caller
<1>8. \A n \in DOMAIN outs : contents(outs[n]) = r[n]
  BY <1>7
<1> QED
  BY <1>8 DEF contents, Content, outs

\* The caller fr2 of a const-eval function after the results res of its
\* load_cached are in its pool.
Resumed(caller, res, fr2) ==
    /\ fr2.fn = caller.fn /\ fr2.dev = caller.dev /\ fr2.prog = caller.prog
    /\ fr2.promised = caller.promised /\ fr2.inputs = caller.inputs
    /\ fr2.pc = caller.pc + 1
    /\ fr2.live = WithResults(res, latestVersion, caller.live)

\* The values after the results of a load_cached, in new wrappers for outs,
\* are in its caller's pool.
LEMMA ResumedValues ==
    ASSUME ProgramsWellFormed, ExecutorInv, Running,
           NEW caller, Outer(wrapper, storage, caller), OuterValues(wrapper, storage, caller),
           NEW o, o = caller.fn.body[caller.pc], caller.pc <= Len(caller.fn.body),
           o.op = "load_cached",
           NEW outs, DOMAIN outs = DOMAIN o.outs,
           \A n \in DOMAIN outs : Content(wrapper, storage, outs[n]) =
              ConstEvalValue(ConstEval[o.name],
                             LoadedContents(wrapper, storage, caller), caller.dev)[n],
           NEW ws, \A n \in DOMAIN outs :
              Content(ws, storage, outs[n]) = Content(wrapper, storage, outs[n]),
           NEW ws2, HasInserted(ws, storage, outs, ws2), Settled(ws2, storage),
           NEW fr2, Resumed(caller, o.outs, fr2),
           \A v \in DOMAIN fr2.live : fr2.live[v] \in DOMAIN wrapper'
    PROVE  OuterValues(wrapper', storage', fr2)
<1> DEFINE vals == LoadedContents(wrapper, storage, caller)
           r == ConstEvalValue(ConstEval[o.name], vals, caller.dev)
           res == o.outs
<1>1. PICK args :
         /\ caller.promised = ProgramValue(Programs[caller.prog], args, caller.dev)
         /\ PoolHolds(wrapper, storage, caller.live,
                      ProgramValues(caller.fn, args, caller.dev)[caller.pc - 1])
  BY DEF OuterValues
<1> DEFINE env == ProgramValues(caller.fn, args, caller.dev)[caller.pc - 1]
<1>2. /\ caller.pc \in 1 .. Len(caller.fn.body) /\ Len(caller.fn.body) \in Nat
      /\ ToSet(o.ins) \subseteq DOMAIN caller.live
      /\ ToSet(o.outs) \cap DOMAIN caller.live = {}
  <2>1. /\ WellFormed(caller.fn) /\ caller.pc \in DOMAIN caller.fn.body
        /\ ToSet(o.ins) \subseteq DOMAIN caller.live
        /\ ToSet(o.outs) \cap DOMAIN caller.live = {}
    BY LoadCachedFacts
  <2> QED
    BY <2>1, SequenceFacts DEF WellFormed
<1>3. ProgramValues(caller.fn, args, caller.dev)[caller.pc] = ApplyOperation(o, env, caller.dev)
  BY <1>2, ProgramStep
<1>4. [n \in DOMAIN o.ins |-> env[o.ins[n]]] = vals
  <2>1. \A n \in DOMAIN o.ins : o.ins[n] \in DOMAIN caller.live
    BY <1>2 DEF ToSet
  <2> HIDE DEF env
  <2>2. \A n \in DOMAIN o.ins : Content(wrapper, storage, caller.live[o.ins[n]]) = env[o.ins[n]]
    BY <1>1, <2>1 DEF PoolHolds, env
  <2>3. vals = [n \in DOMAIN o.ins |-> Content(wrapper, storage, caller.live[o.ins[n]])]
    BY Zenon DEF LoadedContents
  <2> HIDE DEF vals
  <2> QED
    BY <2>2, <2>3
<1> HIDE DEF env, vals
<1>5. ApplyOperation(o, env, caller.dev) = WithValues(res, r, env)
  <2> DEFINE operands == [n \in DOMAIN o.ins |-> env[o.ins[n]]]
             r1 == ConstEvalValue(ConstEval[o.name], operands, caller.dev)
  <2>1. ApplyOperation(o, env, caller.dev) = WithValues(res, r1, env)
    BY DEF ApplyOperation, ApplyLoadCached, WithValues
  <2>2. operands = vals
    BY <1>4
  <2> HIDE DEF operands
  <2>3. r1 = r
    BY <2>2
  <2> QED
    BY <2>1, <2>3, Zenon
<1>6. \A n \in DOMAIN outs : Content(wrapper, storage, outs[n]) = r[n]
  BY DEF vals
<1> HIDE DEF r, res
<1>7. PoolHolds(ws2, storage, fr2.live, WithValues(res, r, env))
  <2>1. \A n \in DOMAIN res : Content(ws2, storage, latestVersion + n - 1) = r[n]
    BY <1>6 DEF HasInserted, res
  <2>2. \A v \in DOMAIN caller.live : v \in ToSet(res)
           \/ Content(ws2, storage, caller.live[v]) = Content(wrapper, storage, caller.live[v])
    <3>1. \A v \in DOMAIN caller.live : caller.live[v] \in DOMAIN wrapper
      BY DEF Outer, FrameAlive
    <3>2. \A v \in DOMAIN caller.live : caller.live[v] \in DOMAIN ws2
      BY <3>1 DEF HasInserted
    <3> QED
      BY <3>1, <3>2 DEF HasInserted, Grows
  <2>3. fr2.live = WithResults(res, latestVersion, caller.live)
    BY DEF Resumed, res
  <2>4. PoolHolds(wrapper, storage, caller.live, env)
    BY <1>1 DEF env
  <2> QED
    BY <2>1, <2>2, <2>3, <2>4, HoldsResults
<1>8. PoolHolds(wrapper', storage', fr2.live, WithValues(res, r, env))
  BY <1>7 DEF Settled, PoolHolds
<1>9. /\ fr2.pc - 1 = caller.pc
      /\ fr2.fn = caller.fn /\ fr2.dev = caller.dev /\ fr2.prog = caller.prog
      /\ fr2.promised = caller.promised
  BY <1>2 DEF Resumed
<1> QED
  BY <1>1, <1>3, <1>5, <1>8, <1>9, Zenon DEF OuterValues

\* The caller's executor has the results of a load_cached in its pool.
LEMMA ResumedFields ==
    ASSUME NEW fr, DOMAIN fr = Fields, NEW res, NEW live,
           live = WithResults(res, latestVersion, fr.live),
           NEW fr1, fr1 = [fr EXCEPT !.live = live],
           NEW fr2, fr2 = [fr1 EXCEPT !.pc = @ + 1]
    PROVE  Resumed(fr, res, fr2)
<1>1. /\ DOMAIN fr1 = Fields /\ fr1.live = live
      /\ \A c \in Fields : c # "live" => fr1[c] = fr[c]
  BY DEF Fields
<1>2. /\ DOMAIN fr2 = Fields /\ fr2.pc = fr1.pc + 1
      /\ \A c \in Fields : c # "pc" => fr2[c] = fr1[c]
  BY <1>1 DEF Fields
<1> QED
  BY <1>1, <1>2 DEF Resumed, Fields

\* The cache entry c[key] of a const-eval function that has ended.
NewEntry(c, key, outs) ==
    /\ c = With(cache, key, [inputVersions |-> LoadedFrom(stack[1]), tensors |-> outs])
    /\ key.dev = stack[1].dev
    /\ key.callee = stack[1].fn.body[stack[1].pc].name

\* What finishConstEval does: it puts outs in the cache c, and fr2, with the
\* results in its pool, is the only executor left.
LEMMA finishConstEvalSteps ==
    ASSUME ProgramsWellFormed, ExecutorInv, ExecutorInv', ValuesInv, finishConstEval,
           NEW outs, outs = outputs(Top), NEW ws, ws = gathered(Top)
    PROVE  /\ AtEndWithOutputs /\ Running /\ Len(stack) = 2 /\ agreed' = agreed
           /\ HeapSteps /\ KeepsContents
           /\ \E ws2 : HasInserted(ws, storage, outs, ws2) /\ Settled(ws2, storage)
           /\ \E key : NewEntry(cache', key, outs)
           /\ \E fr2 : /\ stack' = <<fr2>>
                       /\ Resumed(stack[1], stack[1].fn.body[stack[1].pc].outs, fr2)
<1> DEFINE parent == stack[Len(stack) - 1]
           o == parent.fn.body[parent.pc]
           ws2 == insertedWrappers(ws, outs)
           key == cacheKey(parent, o.name)
           entry == [inputVersions |-> Top.versions, tensors |-> outs]
           c == With(cache, key, entry)
           res == o.outs
           live == WithResults(res, latestVersion, parent.live)
           fr == [parent EXCEPT !.live = live]
           fr2 == [fr EXCEPT !.pc = @ + 1]
           stk == [SubSeq(stack, 1, Len(stack) - 1) EXCEPT ![Len(stack) - 1] = fr2]
<1>1. /\ AtEndWithOutputs /\ Running /\ Len(stack) > 1 /\ agreed' = agreed
      /\ latestVersion' = latestVersion + Len(outs)
  BY DEF finishConstEval, AtEndWithOutputs
<1>2. Settle(ws2, storage, held, c, stk)
  BY DEF finishConstEval, insertedLive, WithResults
<1>3. /\ Len(stack) = 2 /\ stack = <<stack[1], Top>>
      /\ Outer(wrapper, storage, stack[1]) /\ Nested(wrapper, storage, stack[1], Top)
  BY <1>1, NestedStack
<1>4. parent = stack[1]
  BY <1>3
<1>5. isSequence(outs) /\ ToSet(outs) \subseteq DOMAIN wrapper
  BY <1>1, OutputsInPool
<1>6. Grows(ws, storage, latestVersion) /\ DOMAIN ws = DOMAIN wrapper
  BY GatheredGrows
<1> HIDE DEF parent
<1>7. HasInserted(ws, storage, outs, ws2)
  BY <1>5, <1>6, InsertedGrows
<1>8. DOMAIN parent = Fields
  BY <1>3, <1>4 DEF Outer, FrameInv
<1> HIDE DEF o, c, ws2, live
<1>9. Resumed(parent, res, fr2)
  BY <1>8, ResumedFields DEF live
<1>10. stk = [SubSeq(stack, 1, Len(stack) - 1) EXCEPT ![Len(stack) - 1] = fr2]
  OBVIOUS
<1> HIDE DEF fr, fr2, stk
<1>11. stk = <<fr2>>
  BY <1>3, <1>10, CallerOnly
<1>12. stack' = stk /\ cache' = c /\ held' = held
  BY <1>2 DEF Settle
<1>13. NewEntry(c, key, outs)
  <2>1. Top.versions = LoadedFrom(stack[1])
    BY <1>3 DEF ValuesInv, NestedValues
  <2> QED
    BY <1>4, <2>1 DEF NewEntry, cacheKey, c, o
<1>14. Grows(ws2, storage, latestVersion') /\ DOMAIN wrapper \subseteq DOMAIN ws2
  BY <1>1, <1>7 DEF HasInserted
<1>15. Referenced(held, c, stk) \subseteq DOMAIN ws2
  <2>1. /\ DOMAIN c = DOMAIN cache \cup {key} /\ c[key].tensors = outs
        /\ \A k \in DOMAIN cache : k # key => c[k] = cache[k]
    BY DEF With, c
  <2>2. CacheRefs(c) \subseteq DOMAIN wrapper
    <3>1. \A k \in DOMAIN cache : ToSet(cache[k].tensors) \subseteq DOMAIN wrapper
      BY RefsInHeap DEF CacheRefs
    <3>2. \A k \in DOMAIN c : ToSet(c[k].tensors) \subseteq DOMAIN wrapper
      BY <1>5, <2>1, <3>1
    <3> QED
      BY <3>2 DEF CacheRefs
  <2>3. held \subseteq DOMAIN wrapper
    BY RefsInHeap
  <2>4. FrameRefs(parent) \subseteq DOMAIN wrapper
    <3>1. 1 \in DOMAIN stack
      BY <1>3
    <3> QED
      BY <1>4, <3>1, RefsInHeap
  <2>5. FrameRefs(fr2) \subseteq DOMAIN ws2
    <3>1. fr2.inputs = parent.inputs /\ fr2.live = live
      BY <1>9 DEF Resumed, live
    <3>2. DOMAIN outs = DOMAIN res /\ isSequence(res)
      <4>1. isSequence(res) /\ Len(res) = Len(Top.fn.ret)
        BY <1>3, <1>4, LoadCachedFacts, ZenonT(40) DEF Nested, o
      <4>2. Len(outs) = Len(Top.fn.ret)
        BY <1>1, OutputsInPool
      <4> QED
        BY <1>5, <4>1, <4>2, SequenceFacts
    <3>3. ASSUME NEW v \in DOMAIN live PROVE live[v] \in DOMAIN ws2
      <4> DEFINE a == [x \in ToSet(res) |->
                          latestVersion + (CHOOSE n \in DOMAIN res : res[n] = x) - 1]
      <4>1. \A x \in ToSet(res) : \E n \in DOMAIN res : a[x] = latestVersion + n - 1
        BY DEF ToSet
      <4>3. live = Overlay(a, parent.live) /\ DOMAIN a = ToSet(res)
        BY DEF live, WithResults
      <4> HIDE DEF a, res
      <4>2. \A x \in ToSet(res) : a[x] \in DOMAIN ws2
        <5>1. \A n \in DOMAIN res : latestVersion + n - 1 \in DOMAIN ws2
          BY <1>7, <3>2, Zenon DEF HasInserted
        <5> QED
          BY <4>1, <5>1, Zenon
      <4>4. \/ v \in ToSet(res) /\ live[v] = a[v]
            \/ v \in DOMAIN parent.live /\ live[v] = parent.live[v]
        BY <4>3 DEF Overlay
      <4> QED
        BY <1>14, <2>4, <4>2, <4>4 DEF FrameRefs, Range
    <3> QED
      BY <1>14, <2>4, <3>1, <3>3 DEF FrameRefs, Range
  <2>6. \A n \in DOMAIN stk : FrameRefs(stk[n]) \subseteq DOMAIN ws2
    BY <1>11, <2>5
  <2>7. held \subseteq DOMAIN ws2 /\ CacheRefs(c) \subseteq DOMAIN ws2
    BY <1>14, <2>2, <2>3
  <2> QED
    BY <2>6, <2>7, RefsWithin
<1>16. HeapSteps /\ KeepsContents /\ Settled(ws2, storage)
  BY <1>2, <1>14, <1>15, SettleSteps
<1>17. Resumed(stack[1], stack[1].fn.body[stack[1].pc].outs, fr2)
  BY <1>4, <1>9 DEF o
<1> QED
  BY <1>1, <1>3, <1>7, <1>11, <1>12, <1>13, <1>16, <1>17

\* The caller's results are apart from the values that it is going to
\* overwrite, which stay out of the cache.
LEMMA ResumedSeparate ==
    ASSUME ProgramsInSSAForm, ProgramsWellFormed, ProgramsWriteSeparate,
           ExecutorInv, ExecutorInv', ValuesInv, HeapSteps, AtEndWithOutputs, Len(stack) = 2,
           NEW outs, outs = outputs(Top),
           NEW ws, ws = gathered(Top),
           NEW ws2, HasInserted(ws, storage, outs, ws2), Settled(ws2, storage),
           NEW key, NewEntry(cache', key, outs),
           NEW fr2, stack' = <<fr2>>,
           Resumed(stack[1], stack[1].fn.body[stack[1].pc].outs, fr2)
    PROVE  Separate(wrapper', cache', fr2)
<1> DEFINE caller == stack[1]
           o == caller.fn.body[caller.pc]
           res == o.outs
<1>1. /\ Running /\ stack[2] = Top
      /\ Outer(wrapper, storage, caller) /\ Nested(wrapper, storage, caller, Top)
  BY RunningStack DEF AtEndWithOutputs
<1>2. /\ o.op = "load_cached" /\ WellFormed(caller.fn) /\ caller.pc \in DOMAIN caller.fn.body
      /\ ToSet(o.ins) \subseteq DOMAIN caller.live
      /\ isSequence(res) /\ Len(res) = Len(Top.fn.ret)
  BY <1>1, LoadCachedFacts, ZenonT(40) DEF Nested
<1>3. /\ Separate(wrapper, cache, caller) /\ NestedSeparate(wrapper, caller, Top)
  BY <1>1 DEF ValuesInv, Running
<1>4. WritesSeparate(caller.fn)
  BY <1>1, OuterWrites
<1>5. VersionInv(wrapper) /\ VersionInv(wrapper')
  BY VersionKept DEF ValuesInv
<1>6. /\ isSequence(outs) /\ Len(outs) = Len(Top.fn.ret) /\ ToSet(outs) \subseteq DOMAIN wrapper
      /\ \A w \in ToSet(outs) : \E v \in ToSet(Top.fn.ret) : v \in DOMAIN Top.live /\ w = Top.live[v]
  BY OutputsInPool
<1>7. DOMAIN outs = DOMAIN res
  BY <1>2, <1>6, SequenceFacts
<1>8. /\ fr2.fn = caller.fn /\ fr2.pc = caller.pc + 1
      /\ fr2.live = WithResults(res, latestVersion, caller.live)
  BY DEF Resumed
<1>9. \A v \in DOMAIN caller.live : caller.live[v] \in DOMAIN wrapper
  BY <1>1 DEF Outer, FrameAlive
<1>10. \A v \in DOMAIN fr2.live : fr2.live[v] \in DOMAIN wrapper'
  <2>1. 1 \in DOMAIN stack' /\ stack'[1] = fr2
    OBVIOUS
  <2> QED
    BY <2>1, PoolsStayInHeap
<1>11. /\ cache' = With(cache, key, [inputVersions |-> LoadedFrom(caller), tensors |-> outs])
  BY DEF NewEntry
<1>12. LoadedFrom(caller) = [n \in DOMAIN o.ins |-> caller.live[o.ins[n]]]
  BY DEF LoadedFrom
<1>13. \A w \in DOMAIN wrapper : ws[w].tensor = wrapper[w].tensor
  BY Gathered DEF ExecutorInv, HeapInv
<1>14. Len(caller.fn.body) \in Nat /\ caller.pc \in Nat /\ DOMAIN caller.fn.body \subseteq Nat
  <2>1. Len(caller.fn.body) \in Nat /\ DOMAIN caller.fn.body = 1 .. Len(caller.fn.body)
    BY <1>2, SequenceFacts DEF WellFormed
  <2> QED
    BY <1>2, <2>1
<1> HIDE DEF caller, o, res
<1>15. \A v \in DOMAIN fr2.live :
          \/ v \in ToSet(res) /\ \E n \in DOMAIN res : fr2.live[v] = latestVersion + n - 1
          \/ v \in DOMAIN caller.live /\ fr2.live[v] = caller.live[v] /\ v \notin ToSet(res)
  <2> DEFINE a == [x \in ToSet(res) |->
                      latestVersion + (CHOOSE n \in DOMAIN res : res[n] = x) - 1]
  <2>1. \A x \in ToSet(res) : \E n \in DOMAIN res : a[x] = latestVersion + n - 1
    BY DEF ToSet
  <2>2. fr2.live = Overlay(a, caller.live) /\ DOMAIN a = ToSet(res)
    BY <1>8 DEF WithResults
  <2> HIDE DEF a
  <2> QED
    BY <2>1, <2>2 DEF Overlay
<1> SUFFICES ASSUME NEW x \in DOMAIN fr2.live, WrittenFrom(fr2, x)
             PROVE  /\ \A v \in DOMAIN fr2.live :
                          v # x => wrapper'[fr2.live[v]].tensor # wrapper'[fr2.live[x]].tensor
                    /\ ~InCache(wrapper', cache', fr2.live[x])
  BY DEF Separate
<1>16. PICK k \in DOMAIN caller.fn.body :
          /\ caller.pc + 1 <= k
          /\ caller.fn.body[k].op = "inplace" /\ caller.fn.body[k].ins[1] = x
  BY <1>8 DEF WrittenFrom
<1>17. WrittenFrom(caller, x)
  <2>1. caller.pc <= k
    BY <1>14, <1>16
  <2> QED
    BY <1>16, <2>1 DEF WrittenFrom
<1>18. x \in ToSet(caller.fn.params) /\ x \notin ToSet(o.ins)
  <2>1. x \in ToSet(caller.fn.params)
    BY <1>4, <1>16 DEF WritesSeparate
  <2>2. x \notin ToSet(o.ins)
    BY <1>2, <1>4, <1>16 DEF WritesSeparate, o
  <2> QED
    BY <2>1, <2>2
<1>19. x \notin ToSet(res)
  <2>1. ToSet(res) \cap definedBefore(caller.fn, caller.pc) = {}
    BY <1>2 DEF WellFormed, res, o
  <2>2. x \in definedBefore(caller.fn, caller.pc)
    BY <1>18 DEF definedBefore
  <2> QED
    BY <2>1, <2>2
<1> DEFINE w == caller.live[x]
<1>20. x \in DOMAIN caller.live /\ fr2.live[x] = w
  BY <1>15, <1>19
<1>21. w \in DOMAIN wrapper /\ w \in DOMAIN wrapper' /\ wrapper'[w].tensor = wrapper[w].tensor
  BY <1>9, <1>10, <1>20, TensorsStay
<1>22. /\ \A v \in DOMAIN caller.live : v # x => wrapper[caller.live[v]].tensor # wrapper[w].tensor
       /\ ~InCache(wrapper, cache, w)
  BY <1>3, <1>17, <1>20 DEF Separate
<1>23. \A y \in ToSet(outs) : y \in DOMAIN wrapper /\ wrapper[y].tensor # wrapper[w].tensor
  BY <1>3, <1>6, <1>17, <1>20 DEF NestedSeparate
<1> HIDE DEF w
<1>24. ASSUME NEW v \in DOMAIN fr2.live, v # x
       PROVE  wrapper'[fr2.live[v]].tensor # wrapper[w].tensor
  <2>1. CASE v \in DOMAIN caller.live /\ fr2.live[v] = caller.live[v]
    <3>1. wrapper'[caller.live[v]].tensor = wrapper[caller.live[v]].tensor
      BY <1>9, <1>10, <2>1, TensorsStay
    <3> QED
      BY <1>22, <1>24, <2>1, <3>1
  <2>2. ASSUME NEW n \in DOMAIN res, fr2.live[v] = latestVersion + n - 1
        PROVE  wrapper'[fr2.live[v]].tensor # wrapper[w].tensor
    <3>1. ws2[latestVersion + n - 1].tensor = ws[outs[n]].tensor
      BY <1>7, Zenon DEF HasInserted
    <3>2. wrapper'[fr2.live[v]] = ws2[fr2.live[v]]
      BY <1>10 DEF Settled
    <3>3. outs[n] \in ToSet(outs)
      BY <1>7 DEF ToSet
    <3> QED
      BY <1>13, <1>23, <2>2, <3>1, <3>2, <3>3
  <2> QED
    BY <1>15, <2>1, <2>2
<1>25. ~InCache(wrapper', cache', w)
  <2> SUFFICES ASSUME InCache(wrapper', cache', w) PROVE FALSE
    OBVIOUS
  <2>1. CacheRefs(cache) \subseteq DOMAIN wrapper
    BY RefsInHeap
  <2>2. \A i \in DOMAIN cache : EntryValues(wrapper, storage, latestVersion, i, cache[i])
    BY DEF ValuesInv
  <2>3. \E i \in DOMAIN cache', y \in DOMAIN wrapper' :
           /\ ~(i \in DOMAIN cache /\ cache'[i] = cache[i])
           /\ wrapper'[y].tensor = wrapper[w].tensor
           /\ \/ y \in ToSet(cache'[i].tensors)
              \/ wrapper'[y].version \in ToSet(cache'[i].inputVersions)
    BY <1>21, <1>22, <2>1, <2>2, SharedKept
  <2>4. PICK i \in DOMAIN cache' : \E y \in DOMAIN wrapper' :
           /\ ~(i \in DOMAIN cache /\ cache'[i] = cache[i])
           /\ wrapper'[y].tensor = wrapper[w].tensor
           /\ \/ y \in ToSet(cache'[i].tensors)
              \/ wrapper'[y].version \in ToSet(cache'[i].inputVersions)
    BY <2>3
  <2>5. PICK y \in DOMAIN wrapper' :
           /\ ~(i \in DOMAIN cache /\ cache'[i] = cache[i])
           /\ wrapper'[y].tensor = wrapper[w].tensor
           /\ \/ y \in ToSet(cache'[i].tensors)
              \/ wrapper'[y].version \in ToSet(cache'[i].inputVersions)
    BY <2>4
  <2>6. i = key /\ cache'[i].tensors = outs /\ cache'[i].inputVersions = LoadedFrom(caller)
    <3>1. /\ DOMAIN cache' = DOMAIN cache \cup {key}
          /\ cache'[key].tensors = outs /\ cache'[key].inputVersions = LoadedFrom(caller)
          /\ \A j \in DOMAIN cache : j # key => cache'[j] = cache[j]
      BY <1>11 DEF With
    <3> QED
      BY <2>5, <3>1
  <2>7. CASE y \in ToSet(outs)
    BY <1>23, <2>5, <2>7, TensorsStay
  <2>8. CASE wrapper'[y].version \in ToSet(LoadedFrom(caller))
    <3>1. y \in ToSet(LoadedFrom(caller))
      BY <1>5, <2>8 DEF VersionInv
    <3>2. PICK n \in DOMAIN o.ins : y = caller.live[o.ins[n]]
      BY <1>12, <3>1 DEF ToSet
    <3>3. o.ins[n] \in DOMAIN caller.live /\ o.ins[n] # x
      BY <1>2, <1>18 DEF ToSet
    <3>4. y \in DOMAIN wrapper /\ wrapper[y].tensor # wrapper[w].tensor
      BY <1>9, <1>22, <3>2, <3>3
    <3> QED
      BY <2>5, <3>4, TensorsStay
  <2> QED
    BY <2>5, <2>6, <2>7, <2>8
<1> QED
  BY <1>20, <1>21, <1>24, <1>25

\* The outputs of a const-eval function are what the entry that they make
\* promises.
LEMMA finishConstEvalValues ==
    ASSUME ProgramsInSSAForm, ProgramsWellFormed, ProgramsWriteSeparate,
           ExecutorInv, ExecutorInv', ValuesInv, finishConstEval
    PROVE  ValuesInv'
<1> DEFINE caller == stack[1]
           o == caller.fn.body[caller.pc]
           outs == outputs(Top)
           ws == gathered(Top)
           vals == LoadedContents(wrapper, storage, caller)
           r == ConstEvalValue(ConstEval[o.name], vals, caller.dev)
<1>1. outs = outputs(Top) /\ ws = gathered(Top) /\ o = stack[1].fn.body[stack[1].pc]
      /\ r = ConstEvalValue(ConstEval[o.name],
                            LoadedContents(wrapper, storage, stack[1]), stack[1].dev)
  OBVIOUS
<1> HIDE DEF outs, ws
<1>2. /\ AtEndWithOutputs /\ Running /\ Len(stack) = 2 /\ agreed' = agreed
      /\ HeapSteps /\ KeepsContents
      /\ \E ws2 : HasInserted(ws, storage, outs, ws2) /\ Settled(ws2, storage)
      /\ \E key : NewEntry(cache', key, outs)
      /\ \E fr2 : stack' = <<fr2>> /\ Resumed(caller, o.outs, fr2)
  BY <1>1, finishConstEvalSteps
<1>3. PICK ws2 : HasInserted(ws, storage, outs, ws2) /\ Settled(ws2, storage)
  BY <1>2
<1>4. PICK key : NewEntry(cache', key, outs)
  BY <1>2
<1>5. PICK fr2 : stack' = <<fr2>> /\ Resumed(caller, o.outs, fr2)
  BY <1>2
<1>6. /\ Outer(wrapper, storage, caller) /\ Nested(wrapper, storage, caller, Top)
      /\ OuterValues(wrapper, storage, caller)
  BY <1>2, RunningStack DEF ValuesInv, Running
<1>7. /\ o.op = "load_cached" /\ caller.pc <= Len(caller.fn.body)
      /\ isSequence(o.outs) /\ Len(o.outs) = Len(Top.fn.ret)
      /\ ToSet(o.ins) \subseteq DOMAIN caller.live
  BY <1>6, LoadCachedFacts DEF Nested
<1>8. isSequence(outs) /\ Len(outs) = Len(Top.fn.ret) /\ ToSet(outs) \subseteq DOMAIN wrapper
  BY <1>1, <1>2, OutputsInPool
<1>9. DOMAIN outs = DOMAIN o.outs
  BY <1>7, <1>8, SequenceFacts
<1>10. \A n \in DOMAIN outs : Content(wrapper, storage, outs[n]) = r[n]
  <2> HIDE DEF o, r
  <2> QED
    BY <1>1, <1>2, NestedOutputs
<1>11. Separate(wrapper', cache', fr2)
  BY <1>1, <1>2, <1>3, <1>4, <1>5, ResumedSeparate
<1>12. OuterValues(wrapper', storage', fr2)
  <2>1. \A n \in DOMAIN outs : Content(ws, storage, outs[n]) = Content(wrapper, storage, outs[n])
    <3>1. \A w \in DOMAIN wrapper : ws[w].tensor = wrapper[w].tensor
      BY <1>1, Gathered DEF ExecutorInv, HeapInv
    <3>2. \A n \in DOMAIN outs : outs[n] \in DOMAIN wrapper
      BY <1>8 DEF ToSet
    <3> QED
      BY <3>1, <3>2 DEF Content
  <2>2. \A v \in DOMAIN fr2.live : fr2.live[v] \in DOMAIN wrapper'
    <3>1. 1 \in DOMAIN stack' /\ stack'[1] = fr2
      BY <1>5
    <3> QED
      BY <3>1, PoolsStayInHeap
  <2>3. o = caller.fn.body[caller.pc]
    OBVIOUS
  <2> HIDE DEF o, caller
  <2> QED
    BY <1>2, <1>3, <1>5, <1>6, <1>7, <1>9, <1>10, <2>1, <2>2, <2>3, ResumedValues DEF r, vals
<1>13. /\ DOMAIN cache' = DOMAIN cache \cup {key}
       /\ cache'[key] = [inputVersions |-> LoadedFrom(caller), tensors |-> outs]
       /\ \A k \in DOMAIN cache : k # key => cache'[k] = cache[k]
       /\ key.dev = caller.dev /\ key.callee = o.name
  BY <1>4 DEF NewEntry, With
<1>14. EntryValues(wrapper', storage', latestVersion', key, cache'[key])
  <2>1. \A n \in DOMAIN o.ins :
           /\ caller.live[o.ins[n]] \in DOMAIN wrapper
           /\ Content(wrapper, storage, caller.live[o.ins[n]]) = vals[n]
    <3>1. \A n \in DOMAIN o.ins : o.ins[n] \in DOMAIN caller.live
      BY <1>7 DEF ToSet
    <3>2. \A v \in DOMAIN caller.live : caller.live[v] \in DOMAIN wrapper
      BY <1>6 DEF Outer, FrameAlive
    <3> QED
      BY <3>1, <3>2 DEF LoadedContents
  <2> DEFINE e == cache'[key]
             iv == e.inputVersions
  <2>2. iv = LoadedFrom(caller) /\ e.tensors = outs
    BY <1>13
  <2>3. /\ DOMAIN iv = DOMAIN o.ins
        /\ \A n \in DOMAIN o.ins : iv[n] = caller.live[o.ins[n]]
    BY <2>2 DEF LoadedFrom
  <2>4. vals = [n \in DOMAIN o.ins |-> vals[n]]
    BY DEF LoadedContents
  <2> HIDE DEF e, caller, o, vals
  <2>5. \A n \in DOMAIN iv : iv[n] \in 0 .. latestVersion' - 1
    <3>1. \A w \in DOMAIN wrapper : w \in 0 .. latestVersion - 1
      BY DEF ExecutorInv, HeapInv, HeapTyped
    <3>2. latestVersion \in Nat /\ latestVersion' \in Nat /\ latestVersion <= latestVersion'
      BY <1>2 DEF HeapSteps, ExecutorInv, HeapInv, HeapTyped
    <3>3. \A w \in DOMAIN wrapper : w \in 0 .. latestVersion' - 1
      BY <3>1, <3>2
    <3> QED
      BY <2>1, <2>3, <3>3
  <2>6. \A n \in DOMAIN iv : iv[n] \in DOMAIN wrapper' =>
           Content(wrapper', storage', iv[n]) = vals[n]
    BY <1>2, <2>1, <2>3 DEF KeepsContents
  <2>7. \A n \in DOMAIN outs : Content(wrapper', storage', outs[n]) = r[n]
    <3>1. \A w \in ToSet(outs) : w \in DOMAIN wrapper'
      <4>1. \A w \in ToSet(outs) : w \in CacheRefs(cache')
        BY <1>13, <2>2 DEF CacheRefs, e
      <4>2. \A w \in CacheRefs(cache') : w \in DOMAIN wrapper'
        BY InReferenced DEF ExecutorInv, HeapInv
      <4> QED
        BY <4>1, <4>2
    <3>2. \A n \in DOMAIN outs : outs[n] \in DOMAIN wrapper /\ outs[n] \in DOMAIN wrapper'
      BY <1>8, <3>1 DEF ToSet
    <3> QED
      BY <1>2, <1>10, <3>2 DEF KeepsContents
  <2>8. r = ConstEvalValue(ConstEval[key.callee], vals, key.dev)
    BY <1>13
  <2>9. vals = [n \in DOMAIN iv |-> vals[n]]
    BY <2>3, <2>4
  <2> HIDE DEF r
  <2>10. EntryValues(wrapper', storage', latestVersion', key, e)
    BY <2>2, <2>5, <2>6, <2>7, <2>8, <2>9, Zenon DEF EntryValues
  <2> QED
    BY <2>10 DEF e
<1>15. \A k \in DOMAIN cache' :
          EntryValues(wrapper', storage', latestVersion', k, cache'[k])
  BY <1>2, <1>13, <1>14, EntriesKept
<1>16. VersionInv(wrapper')
  BY <1>2, VersionKept DEF ValuesInv
<1>17. stack'[1] = fr2 /\ Len(stack') # 2
  BY <1>5
<1>18. agreed'
  BY <1>2 DEF ValuesInv
<1> QED
  BY <1>11, <1>12, <1>15, <1>16, <1>17, <1>18 DEF ValuesInv

\* Every step keeps the values.
LEMMA NextValues ==
    ASSUME ProgramsInSSAForm, ProgramsWellFormed, ProgramsWriteSeparate,
           OverwriteShared = FALSE, ExecutorInv, ExecutorInv', ValuesInv, [Next]_vars
    PROVE  ValuesInv'
<1>1. CASE Client
  <2>1. CASE \E p \in DOMAIN Programs, dev \in Devices :
                \E args \in [DOMAIN Programs[p].params -> held] : submit(p, dev, args)
    BY <2>1, submitValues
  <2> QED
    BY <1>1, <2>1, ClientValues
<1>2. CASE \E fr2 : Running /\ ~AtEnd(Top) /\ TopSteps(fr2)
  BY <1>2, TopStepKeeps
<1>3. CASE runCompute \/ runView \/ runInplace \/ runDeallocate \/ runLoadCachedHit
  <2>1. Running /\ ~AtEnd(Top)
    BY <1>3 DEF runCompute, runView, runInplace, runDeallocate, runLoadCachedHit, runOperation
  <2>2. \E fr2 : TopSteps(fr2)
    BY <1>3, runComputeSteps, runViewSteps, runInplaceSteps, runDeallocateSteps,
       runLoadCachedHitSteps
  <2> QED
    BY <1>2, <2>1, <2>2
<1>4. CASE runLoadCachedMiss
  BY <1>4, runLoadCachedMissValues
<1>5. CASE finishConstEval
  BY <1>5, finishConstEvalValues
<1>6. CASE finishProgram
  BY <1>6, finishProgramValues
<1>7. CASE UNCHANGED vars
  BY <1>7 DEF ValuesInv, vars
<1> QED
  BY <1>1, <1>3, <1>4, <1>5, <1>6, <1>7 DEF Next, Execute

\* A program computes what it would compute without the cache
\* (CacheTransparent): an entry is the value of its const-eval function on
\* contents that the tensors whose versions it compares still have.
THEOREM CacheIsTransparent ==
    ProgramsInSSAForm /\ ProgramsWriteSeparate /\ OverwriteShared = FALSE =>
        (Spec => []CacheTransparent)
<1>1. ASSUME ProgramsInSSAForm, ProgramsWellFormed, ProgramsWriteSeparate,
             OverwriteShared = FALSE
      PROVE  Spec => []CacheTransparent
  <2>1. Init => ValuesInv
    BY DEF Init, ValuesInv, VersionInv
  <2>2. ExecutorInv /\ ExecutorInv' /\ ValuesInv /\ [Next]_vars => ValuesInv'
    BY <1>1, NextValues
  <2>3. ValuesInv => CacheTransparent
    BY DEF ValuesInv, CacheTransparent
  <2>4. Spec => []ExecutorInv
    BY <1>1, ExecutorSafe
  <2> QED
    BY <2>1, <2>2, <2>3, <2>4, PTL DEF Spec
<1> QED
  BY <1>1, DeallocationSafe
=============================================================================
