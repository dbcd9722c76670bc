--------------------------- MODULE OptimizerProofs ---------------------------
(***************************************************************************)
(* The TTNN optimizer, for every module and whatever order the hash set    *)
(* of unscheduled ops has: the chains of the depth first sharding policy,  *)
(* the L1 usage of the breadth first policy, and the result types of the   *)
(* functions after the rewrite.                                            *)
(***************************************************************************)
EXTENDS Optimizer, FiniteSetTheorems, SequenceTheorems, WellFoundedInduction,
        TLAPS

-----------------------------------------------------------------------------
(* The invariant of the depth first policy                                 *)

\* The ops of a function are its own.
BlockInv ==
    /\ ops \in Graphs
    /\ block \in [Funcs -> Seq(Nat)]
    /\ \A f \in Funcs : \A o \in ToSet(block[f]) : o \in DOMAIN ops /\ ops[o].func = f

\* A schedule has an op at most once, and those of later functions are empty.
ScheduleInv ==
    /\ func \in Funcs
    /\ schedule \in [Funcs -> Seq(Nat)]
    /\ \A f \in Funcs : \A i \in DOMAIN schedule[f] :
         /\ schedule[f][i] \in ToSet(block[f])
         /\ \A j \in DOMAIN schedule[f] : schedule[f][i] = schedule[f][j] => i = j
    /\ \A f \in Funcs : f > func => schedule[f] = <<>>

isChain(c) ==
    /\ c = [ops |-> c.ops, state |-> c.state, config |-> c.config,
            memReconfigEntryMap |-> c.memReconfigEntryMap,
            spillEndToDRAM |-> c.spillEndToDRAM]
    /\ c.ops \in Seq(Nat)

ChainsInv ==
    /\ l1ChainConfigs \in Seq(ToSet(l1ChainConfigs))
    /\ \A k \in DOMAIN l1ChainConfigs : isChain(l1ChainConfigs[k])
    /\ phase = "schedule" => Len(l1ChainConfigs) > 0

isChainOp(o) == \E k \in DOMAIN l1ChainConfigs : o \in ToSet(l1ChainConfigs[k].ops)

onlyUserIs(o, user) == {u[1] : u \in uses(o)} = {user} /\ hasOneUse(o)

\* An op of a chain is scheduled and followed by its only user.
FollowedInv ==
    \A o : isChainOp(o) =>
      /\ o \in DOMAIN ops
      /\ \E i \in DOMAIN schedule[ops[o].func] :
           /\ schedule[ops[o].func][i] = o
           /\ i + 1 \in DOMAIN schedule[ops[o].func] =>
                onlyUserIs(o, schedule[ops[o].func][i + 1])

\* While the last op of the schedule is in a chain its user is the current op,
\* which is then the only candidate: the open chain is not empty.
CurrentInv ==
    phase = "schedule" =>
      /\ \A o : isChainOp(o) /\ schedule[func] # <<>>
                  /\ schedule[func][Len(schedule[func])] = o =>
           currentOp # 0 /\ onlyUserIs(o, currentOp)
      /\ currentOp # 0 => /\ ~isEmpty(lastChain)
                          /\ currentOp \in unscheduledOps(schedule[func])

\* The depth first policy.
DFInv ==
    policy = "DFSharding" /\ phase \in {"schedule", "resolve"} =>
      BlockInv /\ ScheduleInv /\ ChainsInv /\ FollowedInv /\ CurrentInv

-----------------------------------------------------------------------------
(* The invariant of the breadth first policy                               *)

\* The uses of a result that are still to come in the function.
usesOutside(d, D) == {u \in uses(d) : u[1] \notin D}
usesLeft(d) == usesOutside(d, ToSet(schedule[func]))

total(w, S) == FoldSet(LAMBDA o, n : w[o] + n, 0, S)

\* The entries are the chain's ops with uses left, which are counted; their
\* sizes add up to the usage.
UsageInv ==
    /\ ToSet(lastChain.ops) \subseteq ToSet(schedule[func])
    /\ DOMAIN currentL1UsagePerOp = {d \in ToSet(lastChain.ops) : usesLeft(d) # {}}
    /\ \A d \in DOMAIN currentL1UsagePerOp :
         /\ hasL1BufferType(d)
         /\ currentL1UsagePerOp[d] = [l1MemUsagePerUser |-> OutputL1Usage[d],
                                      numOfUnscheduledUsers |-> Cardinality(usesLeft(d))]
    /\ currentL1Usage = total(OutputL1Usage, DOMAIN currentL1UsagePerOp)
    /\ currentL1Usage <= AvailableL1CacheSize

\* What an op depends on is scheduled before it.
DependenciesInv ==
    \A o \in ToSet(schedule[func]) : dependencies(o) \subseteq ToSet(schedule[func])

BFInv ==
    policy = "BFInterleaved" /\ phase = "schedule" =>
      BlockInv /\ ScheduleInv /\ ChainsInv /\ DependenciesInv /\ UsageInv

-----------------------------------------------------------------------------
(* Numbers and sets                                                        *)

\* A set of natural numbers has a least element.
LEMMA LeastNumber ==
    ASSUME NEW T, T \subseteq Nat, T # {}
    PROVE  \E m \in T : \A n \in T : m <= n
<1> DEFINE R == OpToRel(<, Nat)
<1>1. IsWellFoundedOn(R, Nat)
  BY NatLessThanWellFounded
<1>2. \A x, y \in Nat : <<y, x>> \in R <=> y < x
  BY DEF OpToRel
<1> HIDE DEF R
<1>3. PICK x \in T : \A y \in T : ~(<<y, x>> \in R)
  BY <1>1, WFMin
<1>4. x \in Nat /\ \A y \in T : y \in Nat /\ ~(y < x)
  BY <1>2, <1>3
<1> QED
  BY <1>3, <1>4

\* Min is that element.
LEMMA MinIsLeast ==
    ASSUME NEW T, T \subseteq Nat, T # {}
    PROVE  Min(T) \in T /\ \A n \in T : Min(T) <= n
BY LeastNumber DEF Min

\* A set of numbers up to n has a greatest element.
LEMMA MaxIsGreatest ==
    ASSUME NEW n \in Nat, NEW T, T \subseteq 1 .. n, T # {}
    PROVE  Max(T) \in T /\ \A m \in T : m <= Max(T)
<1> DEFINE D == {n - m : m \in T}
<1>1. D \subseteq Nat /\ D # {}
  <2>1. \A m \in T : n - m \in Nat
    OBVIOUS
  <2> QED
    BY <2>1
<1>2. PICK d \in D : \A e \in D : d <= e
  BY <1>1, LeastNumber
<1>3. PICK x \in T : d = n - x
  BY <1>2
<1>4. ASSUME NEW m \in T PROVE m <= x
  <2>1. n - m \in D
    OBVIOUS
  <2> QED
    BY <2>1, <1>2, <1>3
<1> QED
  BY <1>3, <1>4 DEF Max

\* What GraphsAssumption says of the ops.
LEMMA GraphFacts ==
    ASSUME ops \in Graphs
    PROVE  /\ ops \in Seq([func : Nat, kind : Kinds, ins : Seq(Nat), layout : {DRAM, Host}])
           /\ Len(ops) \in Nat /\ DOMAIN ops = 1 .. Len(ops)
           /\ \A o \in DOMAIN ops : ops[o].func \in Nat /\ ops[o].ins \in Seq(Nat)
           /\ \A o \in DOMAIN ops : ops[o].layout \in {DRAM, Host}
           /\ 1 \in DOMAIN ops /\ ops[1].func = 1
           /\ \A o, p \in DOMAIN ops : o < p => ops[o].func <= ops[p].func
           /\ Funcs \subseteq Nat /\ 1 \in Funcs
<1>1. /\ ops \in Seq([func : Nat, kind : Kinds, ins : Seq(Nat), layout : {DRAM, Host}])
      /\ ops # <<>> /\ ops[1].func = 1
      /\ \A o, p \in DOMAIN ops : o < p => ops[o].func <= ops[p].func
  BY GraphsAssumption
<1> DEFINE R == [func : Nat, kind : Kinds, ins : Seq(Nat), layout : {DRAM, Host}]
<1> HIDE DEF R
<1>2. \A o \in DOMAIN ops : ops[o] \in R
  <2>1. ops \in Seq(R)
    BY <1>1 DEF R
  <2> QED
    BY <2>1
<1>3. \A o \in DOMAIN ops : /\ ops[o].func \in Nat /\ ops[o].ins \in Seq(Nat)
                            /\ ops[o].layout \in {DRAM, Host}
  BY <1>2 DEF R
<1>4. Len(ops) \in Nat /\ DOMAIN ops = 1 .. Len(ops) /\ 1 \in DOMAIN ops
  BY <1>1
<1> QED
  BY <1>1, <1>3, <1>4 DEF Funcs

-----------------------------------------------------------------------------
(* Sums                                                                    *)

pick(s) == CHOOSE x \in s : TRUE

\* f has the sum of every subset of S.
Sums(f, w, S) ==
    f = [s \in SUBSET S |-> IF s = {} THEN 0 ELSE w[pick(s)] + f[s \ {pick(s)}]]

\* The fold of the community modules is such a function, if there is one.
LEMMA TotalIsChosen == \A w, S : total(w, S) = (CHOOSE f : Sums(f, w, S))[S]
BY DEF total, FoldSet, MapThenFoldSet, Sums, pick

\* A set that has 0, and with n also n + 1, has every natural number.
LEMMA Induct ==
    ASSUME NEW T, 0 \in T, \A n \in Nat : n \in T => n + 1 \in T
    PROVE  \A n \in Nat : n \in T
<1> SUFFICES ASSUME Nat \ T # {} PROVE FALSE
  OBVIOUS
<1>1. PICK m \in Nat \ T : \A n \in Nat \ T : m <= n
  BY LeastNumber
<1>2. m # 0 /\ m - 1 \in Nat
  BY <1>1
<1>3. m - 1 \in T
  BY <1>1, <1>2
<1>4. (m - 1) + 1 = m
  BY <1>2
<1> QED
  BY <1>1, <1>2, <1>3, <1>4

\* A nonempty set has the element picked from it.
LEMMA PickFacts ==
    ASSUME NEW s, s # {}
    PROVE  pick(s) \in s
BY DEF pick

\* Without one of its elements a finite set has one element less.
LEMMA OneLess ==
    ASSUME NEW s, IsFiniteSet(s), NEW y \in s
    PROVE  /\ IsFiniteSet(s \ {y}) /\ Cardinality(s) \in Nat
           /\ Cardinality(s \ {y}) = Cardinality(s) - 1 /\ Cardinality(s \ {y}) \in Nat
<1>1. IsFiniteSet(s \ {y}) /\ Cardinality(s \ {y}) = Cardinality(s) - 1
  BY FS_RemoveElement
<1> QED
  BY <1>1, FS_CardinalityType

\* The sums of the subsets of a finite set exist.
LEMMA SumsExist ==
    ASSUME NEW S, IsFiniteSet(S), NEW w
    PROVE  \E f : Sums(f, w, S)
<1> DEFINE D(n) == {s \in SUBSET S : Cardinality(s) <= n}
           P(f, n) == f = [s \in D(n) |-> IF s = {} THEN 0 ELSE w[pick(s)] + f[s \ {pick(s)}]]
           T == {n \in Nat : \E f : P(f, n)}
<1>1. \A s \in SUBSET S : IsFiniteSet(s) /\ Cardinality(s) \in Nat
                          /\ Cardinality(s) <= Cardinality(S)
  BY FS_Subset, FS_CardinalityType
<1>2. \A n \in Nat : \A s \in D(n + 1) :
        s # {} => s \ {pick(s)} \in D(n) /\ s \ {pick(s)} \in D(n + 1)
  <2> SUFFICES ASSUME NEW n \in Nat, NEW s \in D(n + 1), s # {}
               PROVE  s \ {pick(s)} \in D(n) /\ s \ {pick(s)} \in D(n + 1)
    OBVIOUS
  <2>1. Cardinality(s \ {pick(s)}) = Cardinality(s) - 1 /\ Cardinality(s) \in Nat
    BY <1>1, PickFacts, OneLess
  <2>2. Cardinality(s) <= n + 1
    OBVIOUS
  <2>3. Cardinality(s) - 1 <= n /\ Cardinality(s) - 1 <= n + 1
    BY <2>1, <2>2
  <2> QED
    BY <2>1, <2>3
<1>3. 0 \in T
  <2> DEFINE f == [s \in D(0) |-> 0]
  <2>1. \A s \in D(0) : s = {}
    <3> TAKE s \in D(0)
    <3>1. Cardinality(s) = 0
      BY <1>1
    <3> QED
      BY <1>1, <3>1, FS_EmptySet
  <2>2. P(f, 0)
    BY <2>1
  <2> QED
    BY <2>2
<1>4. ASSUME NEW n \in Nat, n \in T PROVE n + 1 \in T
  <2>1. PICK f : P(f, n)
    BY <1>4
  <2> DEFINE g == [s \in D(n + 1) |-> IF s = {} THEN 0 ELSE w[pick(s)] + f[s \ {pick(s)}]]
  <2>2. \A s \in D(n) : s \in D(n + 1)
    BY <1>1
  <2>3. \A s \in D(n) : g[s] = f[s]
    <3> TAKE s \in D(n)
    <3>1. f[s] = IF s = {} THEN 0 ELSE w[pick(s)] + f[s \ {pick(s)}]
      BY <2>1
    <3>2. g[s] = IF s = {} THEN 0 ELSE w[pick(s)] + f[s \ {pick(s)}]
      BY <2>2
    <3> QED
      BY <3>1, <3>2
  <2>4. \A s \in D(n + 1) : s # {} => f[s \ {pick(s)}] = g[s \ {pick(s)}]
    BY <1>2, <2>3
  <2>5. P(g, n + 1)
    <3> HIDE DEF D
    <3>1. g = [s \in D(n + 1) |-> IF s = {} THEN 0 ELSE w[pick(s)] + f[s \ {pick(s)}]]
      OBVIOUS
    <3> HIDE DEF g
    <3> QED
      BY <2>4, <3>1
  <2> HIDE DEF g, P
  <2> QED
    BY <2>5
<1>5. \A n \in Nat : n \in T
  <2> HIDE DEF T
  <2> QED
    BY <1>3, <1>4, Induct
<1>6. PICK f : P(f, Cardinality(S))
  BY <1>5, FS_CardinalityType
<1>7. D(Cardinality(S)) = SUBSET S
  BY <1>1
<1> HIDE DEF D
<1> QED
  BY <1>6, <1>7 DEF Sums

\* So the total of a finite set is a sum.
LEMMA TotalSums ==
    ASSUME NEW S, IsFiniteSet(S), NEW w
    PROVE  \E f : Sums(f, w, S) /\ total(w, S) = f[S]
BY SumsExist, TotalIsChosen

\* The numbers w of the elements of S are natural numbers.
Weights(w, S) == \A x \in S : w[x] \in Nat

\* The equation of the sums, for one subset.
LEMMA SumsRecursive ==
    ASSUME NEW S, NEW w, NEW f, Sums(f, w, S), NEW s \in SUBSET S
    PROVE  f[s] = IF s = {} THEN 0 ELSE w[pick(s)] + f[s \ {pick(s)}]
BY DEF Sums

\* A sum depends on the set and its weights alone.
LEMMA SumsUnique ==
    ASSUME NEW S, IsFiniteSet(S), NEW U, NEW v, NEW w, NEW f, NEW g,
           S \subseteq U, Sums(f, v, S), Sums(g, w, U), \A x \in S : v[x] = w[x]
    PROVE  f[S] = g[S]
<1> DEFINE T == {n \in Nat : \A s \in SUBSET S : Cardinality(s) = n => f[s] = g[s]}
<1>1. \A s \in SUBSET S : IsFiniteSet(s) /\ Cardinality(s) \in Nat
  BY FS_Subset, FS_CardinalityType
<1>2. 0 \in T
  <2> SUFFICES ASSUME NEW s \in SUBSET S, Cardinality(s) = 0 PROVE f[s] = g[s]
    OBVIOUS
  <2>1. s = {}
    BY <1>1, FS_EmptySet
  <2> QED
    BY <2>1, SumsRecursive
<1>3. ASSUME NEW n \in Nat, n \in T PROVE n + 1 \in T
  <2> SUFFICES ASSUME NEW s \in SUBSET S, Cardinality(s) = n + 1 PROVE f[s] = g[s]
    OBVIOUS
  <2>1. s # {}
    BY FS_EmptySet
  <2>2. pick(s) \in s /\ pick(s) \in S
    BY <2>1, PickFacts
  <2>3. Cardinality(s \ {pick(s)}) = n
    <3>1. Cardinality(s \ {pick(s)}) = (n + 1) - 1
      BY <1>1, <2>2, OneLess
    <3> QED
      BY <3>1
  <2>4. s \ {pick(s)} \in SUBSET S
    OBVIOUS
  <2>5. f[s \ {pick(s)}] = g[s \ {pick(s)}]
    BY <1>3, <2>3, <2>4
  <2>6. f[s] = v[pick(s)] + f[s \ {pick(s)}]
    BY <2>1, SumsRecursive
  <2>7. s \in SUBSET U
    OBVIOUS
  <2>8. g[s] = w[pick(s)] + g[s \ {pick(s)}]
    BY <2>1, <2>7, SumsRecursive
  <2>9. v[pick(s)] = w[pick(s)]
    BY <2>2
  <2> QED
    BY <2>5, <2>6, <2>8, <2>9
<1>4. \A n \in Nat : n \in T
  <2> HIDE DEF T
  <2> QED
    BY <1>2, <1>3, Induct
<1>5. Cardinality(S) \in T
  BY <1>4, FS_CardinalityType
<1> QED
  BY <1>5

\* Sums of natural numbers are natural numbers.
LEMMA SumsNat ==
    ASSUME NEW S, IsFiniteSet(S), NEW w, Weights(w, S), NEW f, Sums(f, w, S)
    PROVE  \A s \in SUBSET S : f[s] \in Nat
<1> DEFINE T == {n \in Nat : \A s \in SUBSET S : Cardinality(s) = n => f[s] \in Nat}
<1>1. \A s \in SUBSET S : IsFiniteSet(s) /\ Cardinality(s) \in Nat
  BY FS_Subset, FS_CardinalityType
<1>2. 0 \in T
  <2> SUFFICES ASSUME NEW s \in SUBSET S, Cardinality(s) = 0 PROVE f[s] \in Nat
    OBVIOUS
  <2>1. s = {}
    BY <1>1, FS_EmptySet
  <2> QED
    BY <2>1, SumsRecursive
<1>3. ASSUME NEW n \in Nat, n \in T PROVE n + 1 \in T
  <2> SUFFICES ASSUME NEW s \in SUBSET S, Cardinality(s) = n + 1 PROVE f[s] \in Nat
    OBVIOUS
  <2> DEFINE x == pick(s)
  <2>1. s # {}
    BY FS_EmptySet
  <2>2. x \in s /\ f[s] = w[x] + f[s \ {x}]
    BY <2>1, PickFacts, SumsRecursive
  <2> HIDE DEF x
  <2>3. Cardinality(s \ {x}) = (n + 1) - 1
    BY <1>1, <2>2, OneLess
  <2>4. Cardinality(s \ {x}) = n /\ s \ {x} \in SUBSET S
    BY <2>3
  <2>5. f[s \ {x}] \in Nat /\ w[x] \in Nat
    BY <1>3, <2>2, <2>4 DEF Weights
  <2> QED
    BY <2>2, <2>5
<1>4. \A n \in Nat : n \in T
  <2> HIDE DEF T
  <2> QED
    BY <1>2, <1>3, Induct
<1> QED
  BY <1>1, <1>4

\* The order in which elements are picked does not matter.
LEMMA SumsAnyOrder ==
    ASSUME NEW S, IsFiniteSet(S), NEW w, Weights(w, S), NEW f, Sums(f, w, S)
    PROVE  \A s \in SUBSET S :
             f[s] \in Nat /\ \A y \in s : f[s] = w[y] + f[s \ {y}]
<1> DEFINE Q(s) == f[s] \in Nat /\ \A y \in s : f[s] = w[y] + f[s \ {y}]
           T == {n \in Nat : \A s \in SUBSET S : Cardinality(s) = n => Q(s)}
<1>1. \A s \in SUBSET S : IsFiniteSet(s) /\ Cardinality(s) \in Nat
  BY FS_Subset, FS_CardinalityType
<1>2. 0 \in T
  <2> SUFFICES ASSUME NEW s \in SUBSET S, Cardinality(s) = 0 PROVE Q(s)
    OBVIOUS
  <2>1. s = {}
    BY <1>1, FS_EmptySet
  <2>2. f[s] = 0
    BY <2>1, SumsRecursive
  <2> QED
    BY <2>1, <2>2
<1>3. ASSUME NEW n \in Nat, n \in T PROVE n + 1 \in T
  <2> SUFFICES ASSUME NEW s \in SUBSET S, Cardinality(s) = n + 1 PROVE Q(s)
    OBVIOUS
  <2> DEFINE x == pick(s)
  <2>1. s # {}
    BY FS_EmptySet
  <2>2. x \in s /\ f[s] = w[x] + f[s \ {x}]
    BY <2>1, PickFacts, SumsRecursive
  <2> HIDE DEF x
  <2>3. ASSUME NEW y \in s PROVE Q(s \ {y}) /\ w[y] \in Nat
    <3>1. Cardinality(s \ {y}) = (n + 1) - 1
      BY <1>1, OneLess
    <3>2. Cardinality(s \ {y}) = n /\ s \ {y} \in SUBSET S
      BY <3>1
    <3> QED
      BY <1>3, <3>2 DEF Weights
  <2>4. f[s] \in Nat
    BY <2>2, <2>3
  <2>5. ASSUME NEW y \in s PROVE f[s] = w[y] + f[s \ {y}]
    <3>1. CASE y = x
      BY <2>2, <3>1
    <3>2. CASE y # x
      <4> DEFINE r == f[(s \ {x}) \ {y}]
      <4>1. y \in s \ {x} /\ x \in s \ {y} /\ (s \ {y}) \ {x} = (s \ {x}) \ {y}
        BY <2>2, <3>2
      <4>2. f[s \ {x}] = w[y] + r /\ f[s \ {x}] \in Nat
        BY <2>2, <2>3, <4>1
      <4>3. f[s \ {y}] = w[x] + f[(s \ {y}) \ {x}]
        BY <2>3, <4>1
      <4>4. f[s \ {y}] = w[x] + r
        BY <4>1, <4>3
      <4>5. r \in Nat
        <5>1. (s \ {x}) \ {y} \in SUBSET S
          OBVIOUS
        <5> QED
          BY <5>1, SumsNat
      <4> HIDE DEF r
      <4>6. w[x] \in Nat /\ w[y] \in Nat
        BY <2>2, <2>3
      <4> QED
        BY <2>2, <4>2, <4>4, <4>5, <4>6
    <3> QED
      BY <3>1, <3>2
  <2> QED
    BY <2>4, <2>5
<1>4. \A n \in Nat : n \in T
  <2> HIDE DEF T
  <2> QED
    BY <1>2, <1>3, Induct
<1> QED
  BY <1>1, <1>4

\* Nothing weighs nothing.
LEMMA TotalEmpty == \A w : total(w, {}) = 0
<1> TAKE w
<1>1. IsFiniteSet({})
  BY FS_EmptySet
<1>2. PICK f : Sums(f, w, {}) /\ total(w, {}) = f[{}]
  BY <1>1, TotalSums
<1> QED
  BY <1>2, SumsRecursive

\* Any element may be taken off a total.
LEMMA TotalRemove ==
    ASSUME NEW S, IsFiniteSet(S), NEW w, Weights(w, S)
    PROVE  total(w, S) \in Nat /\ \A y \in S : total(w, S) = w[y] + total(w, S \ {y})
<1>1. PICK f : Sums(f, w, S) /\ total(w, S) = f[S]
  BY TotalSums
<1>2. f[S] \in Nat /\ \A y \in S : f[S] = w[y] + f[S \ {y}]
  BY <1>1, SumsAnyOrder
<1>3. ASSUME NEW y \in S PROVE total(w, S \ {y}) = f[S \ {y}]
  <2>1. IsFiniteSet(S \ {y}) /\ S \ {y} \subseteq S
    BY OneLess
  <2>2. PICK g : Sums(g, w, S \ {y}) /\ total(w, S \ {y}) = g[S \ {y}]
    BY <2>1, TotalSums
  <2> QED
    BY <1>1, <2>1, <2>2, SumsUnique
<1> QED
  BY <1>1, <1>2, <1>3

\* A set weighs as much as a part of it and the rest.
LEMMA TotalSplit ==
    ASSUME NEW S, IsFiniteSet(S), NEW w, Weights(w, S), NEW R \in SUBSET S
    PROVE  /\ total(w, R) \in Nat /\ total(w, S \ R) \in Nat /\ total(w, S) \in Nat
           /\ total(w, S) = total(w, R) + total(w, S \ R)
<1> DEFINE T == {n \in Nat : \A r \in SUBSET S : Cardinality(r) = n =>
                               total(w, S) = total(w, r) + total(w, S \ r)}
<1>1. \A s \in SUBSET S : IsFiniteSet(s) /\ Cardinality(s) \in Nat /\ Weights(w, s)
  BY FS_Subset, FS_CardinalityType DEF Weights
<1>2. \A s \in SUBSET S : total(w, s) \in Nat
  BY <1>1, TotalRemove
<1>3. 0 \in T
  <2> SUFFICES ASSUME NEW r \in SUBSET S, Cardinality(r) = 0
               PROVE  total(w, S) = total(w, r) + total(w, S \ r)
    OBVIOUS
  <2>1. r = {} /\ S \ r = S
    BY <1>1, FS_EmptySet
  <2>2. total(w, S) \in Nat
    BY <1>2
  <2> QED
    BY <2>1, <2>2, TotalEmpty
<1>4. ASSUME NEW n \in Nat, n \in T PROVE n + 1 \in T
  <2> SUFFICES ASSUME NEW r \in SUBSET S, Cardinality(r) = n + 1
               PROVE  total(w, S) = total(w, r) + total(w, S \ r)
    OBVIOUS
  <2>1. PICK x : x \in r
    BY FS_EmptySet
  <2>2. Cardinality(r \ {x}) = (n + 1) - 1
    BY <1>1, <2>1, OneLess
  <2>3. Cardinality(r \ {x}) = n /\ r \ {x} \in SUBSET S
    BY <2>2
  <2>4. total(w, S) = total(w, r \ {x}) + total(w, S \ (r \ {x}))
    BY <1>4, <2>3
  <2>5. total(w, r) = w[x] + total(w, r \ {x})
    BY <1>1, <2>1, TotalRemove
  <2>6. /\ S \ (r \ {x}) \in SUBSET S /\ x \in S \ (r \ {x})
        /\ (S \ (r \ {x})) \ {x} = S \ r /\ S \ r \in SUBSET S
    BY <2>1
  <2>7. total(w, S \ (r \ {x})) = w[x] + total(w, S \ r)
    <3>1. total(w, S \ (r \ {x})) = w[x] + total(w, (S \ (r \ {x})) \ {x})
      BY <1>1, <2>6, TotalRemove
    <3> QED
      BY <2>6, <3>1
  <2>8. w[x] \in Nat /\ total(w, r \ {x}) \in Nat /\ total(w, S \ r) \in Nat
    BY <1>2, <2>1, <2>3, <2>6 DEF Weights
  <2> QED
    BY <2>4, <2>5, <2>7, <2>8
<1>5. \A n \in Nat : n \in T
  <2> HIDE DEF T
  <2> QED
    BY <1>3, <1>4, Induct
<1>6. total(w, S) = total(w, R) + total(w, S \ R)
  BY <1>1, <1>5
<1>7. R \in SUBSET S /\ S \ R \in SUBSET S /\ S \in SUBSET S
  OBVIOUS
<1> QED
  BY <1>2, <1>6, <1>7

-----------------------------------------------------------------------------
(* Uses                                                                    *)

\* The image of a finite set is finite.
LEMMA ImageFinite ==
    ASSUME NEW S, IsFiniteSet(S), NEW f
    PROVE  IsFiniteSet({f[x] : x \in S})
<1> DEFINE T == {f[x] : x \in S}
           g == [x \in S |-> f[x]]
<1>1. g \in [S -> T]
  OBVIOUS
<1>2. \A t \in T : \E x \in S : g[x] = t
  OBVIOUS
<1>3. g \in Surjection(S, T)
  BY <1>1, <1>2 DEF Surjection
<1> QED
  BY <1>3, FS_Surjection

\* A value has finitely many uses.
LEMMA UsesFinite ==
    ASSUME ops \in Graphs, NEW o
    PROVE  IsFiniteSet(uses(o))
<1> DEFINE usesBy(c) == {<<c, i>> : i \in {j \in DOMAIN ops[c].ins : ops[c].ins[j] = o}}
           by == [c \in DOMAIN ops |-> usesBy(c)]
           F == {by[c] : c \in DOMAIN ops}
<1>1. ASSUME NEW c \in DOMAIN ops PROVE IsFiniteSet(usesBy(c))
  <2> DEFINE J == {j \in DOMAIN ops[c].ins : ops[c].ins[j] = o}
             pair == [i \in J |-> <<c, i>>]
  <2>1. DOMAIN ops[c].ins = 1 .. Len(ops[c].ins) /\ Len(ops[c].ins) \in Nat
    BY GraphFacts
  <2>2. IsFiniteSet(DOMAIN ops[c].ins)
    BY <2>1, FS_Interval
  <2>3. IsFiniteSet(J)
    BY <2>2, FS_Subset
  <2> HIDE DEF J
  <2>4. {pair[i] : i \in J} = {<<c, i>> : i \in J}
    OBVIOUS
  <2> HIDE DEF pair
  <2>5. IsFiniteSet({pair[i] : i \in J})
    BY <2>3, ImageFinite
  <2> QED
    BY <2>4, <2>5 DEF J
<1>2. IsFiniteSet(DOMAIN ops)
  BY GraphFacts, FS_Interval
<1> HIDE DEF usesBy
<1>3. \A S \in F : IsFiniteSet(S)
  BY <1>1
<1>4. UNION F = UNION {usesBy(c) : c \in DOMAIN ops}
  OBVIOUS
<1> HIDE DEF by
<1>5. IsFiniteSet(F)
  BY <1>2, ImageFinite
<1> HIDE DEF F
<1>6. IsFiniteSet(UNION F)
  BY <1>3, <1>5, FS_UNION
<1> QED
  BY <1>4, <1>6 DEF uses, usesBy

\* An op with one use has no other user than the one it is an operand of.
LEMMA OnlyUser ==
    ASSUME ops \in Graphs, NEW o, hasOneUse(o),
           NEW c \in DOMAIN ops, o \in operands(c)
    PROVE  onlyUserIs(o, c)
<1>1. PICK u : uses(o) = {u}
  BY UsesFinite, FS_Singleton DEF hasOneUse
<1>2. PICK i \in DOMAIN ops[c].ins : ops[c].ins[i] = o
  BY DEF operands, ToSet
<1>3. <<c, i>> \in uses(o)
  BY <1>2 DEF uses
<1>4. u = <<c, i>>
  BY <1>1, <1>3
<1>5. {v[1] : v \in uses(o)} = {c}
  BY <1>1, <1>4
<1> QED
  BY <1>5 DEF onlyUserIs

-----------------------------------------------------------------------------
(* The initial state                                                       *)

\* Each block starts with the ops of its function.
LEMMA BlockInit == InitGraph => BlockInv
<1> SUFFICES ASSUME InitGraph PROVE BlockInv
  OBVIOUS
<1>1. ops \in Graphs
  BY DEF InitGraph
<1>2. ASSUME NEW f \in Funcs
      PROVE  /\ firstOp(f) \in DOMAIN ops /\ ops[firstOp(f)].func = f
             /\ lastOp(f) \in DOMAIN ops /\ ops[lastOp(f)].func = f
  <2> DEFINE T == {o \in DOMAIN ops : ops[o].func = f}
  <2>1. T \subseteq 1 .. Len(ops) /\ Len(ops) \in Nat
    BY <1>1, GraphFacts
  <2>2. T # {}
    BY DEF Funcs
  <2>3. T \subseteq Nat
    BY <2>1
  <2>4. Min(T) \in T
    BY <2>2, <2>3, MinIsLeast
  <2>5. Max(T) \in T
    BY <2>1, <2>2, MaxIsGreatest
  <2> QED
    BY <2>4, <2>5 DEF firstOp, lastOp
<1>3. ASSUME NEW f \in Funcs, NEW i \in 1 .. lastOp(f) - firstOp(f) + 1
      PROVE  firstOp(f) + i - 1 \in DOMAIN ops /\ ops[firstOp(f) + i - 1].func = f
  <2> DEFINE a == firstOp(f)
             b == lastOp(f)
             o == firstOp(f) + i - 1
  <2>1. a \in DOMAIN ops /\ ops[a].func = f /\ b \in DOMAIN ops /\ ops[b].func = f
    BY <1>2
  <2>2. Len(ops) \in Nat /\ DOMAIN ops = 1 .. Len(ops)
    BY <1>1, GraphFacts
  <2> HIDE DEF a, b
  <2>3. a \in 1 .. Len(ops) /\ b \in 1 .. Len(ops) /\ i \in 1 .. b - a + 1
    BY <2>1, <2>2 DEF a, b
  <2>4. o = a + i - 1
    BY DEF a
  <2> HIDE DEF o
  <2>5. o \in 1 .. Len(ops) /\ a <= o /\ o <= b
    BY <2>2, <2>3, <2>4
  <2>6. a < o => ops[a].func <= ops[o].func
    BY <2>1, <2>2, <2>5, <1>1, GraphFacts
  <2>7. o < b => ops[o].func <= ops[b].func
    BY <2>1, <2>2, <2>5, <1>1, GraphFacts
  <2>8. o = a \/ a < o
    BY <2>3, <2>5
  <2>9. o = b \/ o < b
    BY <2>3, <2>5
  <2>10. ops[o].func \in Nat /\ f \in Nat
    BY <2>1, <2>2, <2>5, <1>1, GraphFacts
  <2>11. ops[o].func = f
    BY <2>1, <2>6, <2>7, <2>8, <2>9, <2>10
  <2> QED
    BY <2>2, <2>5, <2>11 DEF o
<1>4. ASSUME NEW f \in Funcs
      PROVE  /\ block[f] \in Seq(Nat)
             /\ \A o \in ToSet(block[f]) : o \in DOMAIN ops /\ ops[o].func = f
  <2>1. block[f] = [i \in 1 .. lastOp(f) - firstOp(f) + 1 |-> firstOp(f) + i - 1]
    BY DEF InitGraph
  <2>2. \A o \in ToSet(block[f]) : o \in DOMAIN ops /\ ops[o].func = f
    BY <1>3, <2>1 DEF ToSet
  <2> DEFINE n == lastOp(f) - firstOp(f) + 1
  <2>3. DOMAIN ops \subseteq Nat /\ DOMAIN ops \subseteq Int
    BY <1>1, GraphFacts
  <2>4. n \in Int
    BY <1>2, <2>3
  <2>5. \A i \in 1 .. n : firstOp(f) + i - 1 \in Nat
    BY <1>3, <2>3
  <2>6. block[f] \in [1 .. n -> Nat]
    BY <2>1, <2>5
  <2> HIDE DEF n
  <2>7. PICK m \in Nat : 1 .. n = 1 .. m
    <3>1. CASE n \in Nat
      BY <3>1
    <3>2. CASE n \notin Nat
      BY <2>4, <3>2
    <3> QED
      BY <3>1, <3>2
  <2>8. block[f] \in Seq(Nat)
    BY <2>6, <2>7, SeqDef
  <2> QED
    BY <2>2, <2>8
<1>5. block \in [Funcs -> Seq(Nat)]
  BY <1>4 DEF InitGraph
<1> QED
  BY <1>1, <1>4, <1>5 DEF BlockInv

\* No op is scheduled and no chain has ops at first.
LEMMA InitDF == Init => DFInv
<1> SUFFICES ASSUME Init PROVE DFInv
  OBVIOUS
<1>1. BlockInv
  BY BlockInit DEF Init
<1>2. ops \in Graphs /\ 1 \in Funcs /\ Funcs \subseteq Nat
  BY <1>1, GraphFacts DEF BlockInv
<1>3. func = 1 /\ schedule = [f \in Funcs |-> <<>>]
  BY DEF Init, InitScheduler
<1>4. ScheduleInv
  BY <1>2, <1>3 DEF ScheduleInv
<1>5. l1ChainConfigs = <<NewChain>> /\ currentOp = 0
  BY DEF Init, InitChains
<1>6. NewChain.ops = <<>> /\ isChain(NewChain)
  BY DEF NewChain, isChain
<1>7. /\ l1ChainConfigs \in Seq(ToSet(l1ChainConfigs)) /\ DOMAIN l1ChainConfigs = {1}
      /\ l1ChainConfigs[1] = NewChain /\ Len(l1ChainConfigs) = 1
  BY <1>5 DEF ToSet
<1>8. ChainsInv
  BY <1>6, <1>7 DEF ChainsInv
<1>9. \A o : ~isChainOp(o)
  BY <1>6, <1>7 DEF isChainOp, ToSet
<1> QED
  BY <1>1, <1>4, <1>5, <1>8, <1>9 DEF DFInv, FollowedInv, CurrentInv

-----------------------------------------------------------------------------
(* A round of the scheduling loop                                          *)

Scheduling ==
    /\ phase = "schedule"
    /\ BlockInv /\ ScheduleInv /\ ChainsInv /\ FollowedInv /\ CurrentInv

\* The candidate is an op of the function that has not been scheduled, so it is
\* in no chain; if the op before it is in a chain, it is the current op.
LEMMA Candidate ==
    ASSUME Scheduling, NEW o \in candidates
    PROVE  /\ o \in ToSet(block[func]) /\ o \in DOMAIN ops /\ ops[o].func = func
           /\ \A i \in DOMAIN schedule[func] : schedule[func][i] # o
           /\ ~isChainOp(o)
           /\ currentOp # 0 => o = currentOp
<1>1. o \in unscheduledOps(schedule[func])
  BY DEF candidates, getScheduleableOps, Scheduling, CurrentInv
<1>2. o \in ToSet(block[func]) /\ \A i \in DOMAIN schedule[func] : schedule[func][i] # o
  BY <1>1 DEF unscheduledOps, ToSet
<1>3. o \in DOMAIN ops /\ ops[o].func = func
  BY <1>2 DEF Scheduling, BlockInv, ScheduleInv
<1>4. ~isChainOp(o)
  BY <1>2, <1>3 DEF Scheduling, FollowedInv
<1>5. currentOp # 0 => o = currentOp
  BY DEF candidates, Scheduling, CurrentInv
<1> QED
  BY <1>2, <1>3, <1>4, <1>5

\* Scheduling an op keeps what is known of the schedules.
LEMMA ScheduleKeeps ==
    ASSUME BlockInv, ScheduleInv, NEW o \in unscheduledOps(schedule[func]),
           scheduleOp(o), UNCHANGED <<graphvars, func>>
    PROVE  /\ BlockInv' /\ ScheduleInv'
           /\ o \in Nat /\ o \in DOMAIN ops /\ schedule[func] \in Seq(Nat)
           /\ schedule'[func] = Append(schedule[func], o)
           /\ \A f \in Funcs : f # func => schedule'[f] = schedule[f]
<1> DEFINE s == schedule[func]
           t == schedule'[func]
<1>1. ops' = ops /\ block' = block /\ func' = func /\ Funcs' = Funcs
  BY DEF graphvars, Funcs
<1>2. BlockInv'
  BY <1>1 DEF BlockInv
<1>3. func \in Funcs /\ schedule \in [Funcs -> Seq(Nat)] /\ s \in Seq(Nat)
  BY DEF ScheduleInv
<1>4. /\ schedule' = [schedule EXCEPT ![func] = Append(s, o)]
  BY DEF scheduleOp
<1>5. o \in Nat /\ o \in DOMAIN ops /\ \A i \in DOMAIN s : s[i] # o
  <2>1. o \in ToSet(block[func]) /\ o \notin ToSet(s)
    BY DEF unscheduledOps
  <2>2. o \in DOMAIN ops
    BY <2>1, <1>3 DEF BlockInv
  <2> QED
    BY <2>1, <2>2, GraphFacts DEF BlockInv, ToSet
<1>6. t = Append(s, o) /\ \A f \in Funcs : f # func => schedule'[f] = schedule[f]
  BY <1>3, <1>4
<1>7. t \in Seq(Nat) /\ schedule' \in [Funcs -> Seq(Nat)]
  BY <1>3, <1>4, <1>5
<1>8. /\ Len(s) \in Nat /\ DOMAIN s = 1 .. Len(s)
      /\ DOMAIN t = 1 .. Len(s) + 1 /\ t[Len(s) + 1] = o
      /\ \A i \in DOMAIN s : t[i] = s[i]
  BY <1>3, <1>5, <1>6
<1> HIDE DEF s, t
<1>9. \A i \in DOMAIN t : t[i] \in ToSet(block[func])
  BY <1>3, <1>8 DEF ScheduleInv, s, unscheduledOps
<1>10. \A i, j \in DOMAIN s : s[i] = s[j] => i = j
  BY <1>3 DEF ScheduleInv, s
<1>11. \A i \in DOMAIN s : s[i] # o
  BY <1>5
<1>12. \A i, j \in DOMAIN t : t[i] = t[j] => i = j
  BY <1>8, <1>10, <1>11
<1>13. ScheduleInv'
  <2>1. func' \in Funcs' /\ schedule' \in [Funcs' -> Seq(Nat)]
    BY <1>1, <1>3, <1>7
  <2>2. \A f \in Funcs : \A i \in DOMAIN schedule'[f] :
           /\ schedule'[f][i] \in ToSet(block[f])
           /\ \A j \in DOMAIN schedule'[f] : schedule'[f][i] = schedule'[f][j] => i = j
    <3> TAKE f \in Funcs
    <3>1. CASE f = func
      BY <3>1, <1>9, <1>12 DEF t
    <3>2. CASE f # func
      BY <3>2, <1>6 DEF ScheduleInv
    <3> QED
      BY <3>1, <3>2
  <2>3. ASSUME NEW f \in Funcs, f > func PROVE schedule'[f] = <<>>
    <3>1. f \in Nat /\ func \in Nat
      BY <1>3, GraphFacts DEF BlockInv
    <3>2. f # func
      BY <2>3, <3>1
    <3>3. schedule[f] = <<>>
      BY <2>3 DEF ScheduleInv
    <3> QED
      BY <3>2, <3>3, <1>6
  <2> QED
    BY <1>1, <2>1, <2>2, <2>3 DEF ScheduleInv
<1> QED
  BY <1>2, <1>3, <1>5, <1>6, <1>13 DEF s, t

\* Appending the candidate keeps what is known of the schedule, and every op
\* that was in a chain before is still followed by its only user.
LEMMA RoundSchedules ==
    ASSUME Scheduling, NEW o \in candidates, scheduleOp(o),
           UNCHANGED <<graphvars, func>>
    PROVE  /\ BlockInv' /\ ScheduleInv'
           /\ schedule'[func] = Append(schedule[func], o)
           /\ \A x : isChainOp(x) =>
                /\ x \in DOMAIN ops
                /\ \E i \in DOMAIN schedule'[ops[x].func] :
                     /\ schedule'[ops[x].func][i] = x
                     /\ i + 1 \in DOMAIN schedule'[ops[x].func] =>
                          onlyUserIs(x, schedule'[ops[x].func][i + 1])
<1> DEFINE s == schedule[func]
           t == schedule'[func]
<1>1. o \in unscheduledOps(s) /\ BlockInv /\ ScheduleInv
  BY DEF candidates, getScheduleableOps, Scheduling, CurrentInv
<1>2. BlockInv' /\ ScheduleInv' /\ o \in Nat /\ s \in Seq(Nat)
  BY <1>1, ScheduleKeeps
<1>6. t = Append(s, o) /\ \A f \in Funcs : f # func => schedule'[f] = schedule[f]
  BY <1>1, ScheduleKeeps
<1>8. /\ Len(s) \in Nat /\ DOMAIN s = 1 .. Len(s)
      /\ DOMAIN t = 1 .. Len(s) + 1 /\ t[Len(s) + 1] = o
      /\ \A i \in DOMAIN s : t[i] = s[i]
  BY <1>2, <1>6
<1> HIDE DEF s, t
<1>14. ASSUME NEW x, isChainOp(x)
       PROVE  /\ x \in DOMAIN ops
              /\ \E i \in DOMAIN schedule'[ops[x].func] :
                   /\ schedule'[ops[x].func][i] = x
                   /\ i + 1 \in DOMAIN schedule'[ops[x].func] =>
                        onlyUserIs(x, schedule'[ops[x].func][i + 1])
  <2>1. x \in DOMAIN ops
    BY <1>14 DEF Scheduling, FollowedInv
  <2>2. PICK i \in DOMAIN schedule[ops[x].func] :
          /\ schedule[ops[x].func][i] = x
          /\ i + 1 \in DOMAIN schedule[ops[x].func] =>
               onlyUserIs(x, schedule[ops[x].func][i + 1])
    BY <1>14 DEF Scheduling, FollowedInv
  <2>3. CASE ops[x].func # func
    <3>1. ops[x].func \in Funcs
      BY <2>1 DEF Funcs
    <3> QED
      BY <2>1, <2>2, <2>3, <3>1, <1>6
  <2>4. CASE ops[x].func = func
    <3>1. i \in DOMAIN s /\ s[i] = x /\ (i + 1 \in DOMAIN s => onlyUserIs(x, s[i + 1]))
      BY <2>2, <2>4 DEF s
    <3>2. i \in DOMAIN t /\ t[i] = x
      BY <3>1, <1>8
    <3>3. ASSUME i + 1 \in DOMAIN t PROVE onlyUserIs(x, t[i + 1])
      <4>1. CASE i + 1 \in DOMAIN s
        BY <4>1, <3>1, <1>8
      <4>2. CASE i + 1 \notin DOMAIN s
        <5>1. i = Len(s)
          BY <4>2, <3>1, <1>8
        <5>2. s # <<>> /\ s[Len(s)] = x
          BY <5>1, <3>1, <1>8
        <5>3. currentOp # 0 /\ onlyUserIs(x, currentOp)
          BY <5>2, <1>14 DEF Scheduling, CurrentInv, s
        <5>4. o = currentOp
          BY <5>3, Candidate
        <5> QED
          BY <5>1, <5>3, <5>4, <1>8
      <4> QED
        BY <4>1, <4>2
    <3> QED
      BY <2>1, <2>4, <3>2, <3>3 DEF t
  <2> QED
    BY <2>3, <2>4
<1> QED
  BY <1>2, <1>6, <1>14 DEF s, t

\* onlyUserIs depends on the ops alone.
LEMMA UserUnchanged ==
    ASSUME UNCHANGED ops
    PROVE  \A x, y : onlyUserIs(x, y)' <=> onlyUserIs(x, y)
BY DEF onlyUserIs, uses, hasOneUse

\* A round in which no op joins a chain.
LEMMA RoundWithoutOp ==
    ASSUME Scheduling, NEW o \in candidates, scheduleOp(o),
           UNCHANGED <<graphvars, func, phase>>, currentOp' = 0,
           ChainsInv', \A x : isChainOp(x)' => isChainOp(x)
    PROVE  Scheduling'
<1>1. ops' = ops /\ func' = func /\ phase' = "schedule"
  BY DEF graphvars, Scheduling
<1>2. \A x, y : onlyUserIs(x, y)' <=> onlyUserIs(x, y)
  BY <1>1, UserUnchanged
<1>3. BlockInv' /\ ScheduleInv' /\ schedule'[func] = Append(schedule[func], o)
  BY RoundSchedules
<1>4. FollowedInv'
  BY <1>1, <1>2, RoundSchedules DEF FollowedInv
<1>5. schedule[func] \in Seq(Nat) /\ o \in Nat
  BY Candidate, GraphFacts DEF Scheduling, BlockInv, ScheduleInv
<1>6. schedule'[func][Len(schedule'[func])] = o
  BY <1>3, <1>5
<1>7. ~isChainOp(o)'
  BY Candidate
<1>8. CurrentInv'
  BY <1>1, <1>6, <1>7 DEF CurrentInv
<1> QED
  BY <1>1, <1>3, <1>4, <1>8 DEF Scheduling

\* Chains are changed one at a time, appended and dropped at the end.  What a
\* new list has to satisfy:
ChainList(l) == l \in Seq(ToSet(l)) /\ \A k \in DOMAIN l : isChain(l[k])

\* A new chain is a chain without ops.
LEMMA NewChainFacts == isChain(NewChain) /\ NewChain.ops = <<>>
BY DEF NewChain, isChain

\* A chain is appended.
LEMMA AppendChain ==
    ASSUME NEW l, ChainList(l), NEW c, isChain(c)
    PROVE  /\ ChainList(Append(l, c))
           /\ Len(Append(l, c)) = Len(l) + 1 /\ Len(l) \in Nat
           /\ DOMAIN Append(l, c) = 1 .. Len(l) + 1 /\ DOMAIN l = 1 .. Len(l)
           /\ Append(l, c)[Len(l) + 1] = c
           /\ \A k \in DOMAIN l : Append(l, c)[k] = l[k]
<1> DEFINE T == ToSet(l) \cup {c}
           a == Append(l, c)
<1>1. l \in Seq(T)
  BY DEF ChainList, ToSet
<1>2. c \in T
  OBVIOUS
<1> HIDE DEF T
<1>3. /\ a \in Seq(T) /\ Len(a) = Len(l) + 1 /\ Len(l) \in Nat
      /\ DOMAIN a = 1 .. Len(l) + 1 /\ DOMAIN l = 1 .. Len(l)
      /\ a[Len(l) + 1] = c
      /\ \A k \in DOMAIN l : a[k] = l[k]
  BY <1>1, <1>2
<1> HIDE DEF a
<1>4. a \in [1 .. Len(l) + 1 -> ToSet(a)]
  <2>1. a \in [1 .. Len(l) + 1 -> T]
    BY <1>3
  <2> QED
    BY <1>3, <2>1 DEF ToSet
<1>5. Len(l) + 1 \in Nat
  BY <1>3
<1>6. a \in Seq(ToSet(a))
  BY <1>4, <1>5, SeqDef
<1>7. \A k \in DOMAIN a : isChain(a[k])
  <2> TAKE k \in DOMAIN a
  <2>1. k \in DOMAIN l \/ k = Len(l) + 1
    BY <1>3
  <2> QED
    BY <2>1, <1>3 DEF ChainList
<1> QED
  BY <1>3, <1>6, <1>7 DEF ChainList, a

\* A chain is replaced.
LEMMA SetChain ==
    ASSUME NEW l, ChainList(l), NEW n \in DOMAIN l, NEW c, isChain(c)
    PROVE  /\ ChainList([l EXCEPT ![n] = c])
           /\ DOMAIN [l EXCEPT ![n] = c] = DOMAIN l
           /\ Len([l EXCEPT ![n] = c]) = Len(l)
           /\ [l EXCEPT ![n] = c][n] = c
           /\ \A k \in DOMAIN l : k # n => [l EXCEPT ![n] = c][k] = l[k]
<1> DEFINE e == [l EXCEPT ![n] = c]
           T == ToSet(l) \cup {c}
<1>1. /\ Len(l) \in Nat /\ DOMAIN l = 1 .. Len(l)
      /\ l \in [1 .. Len(l) -> ToSet(l)]
  BY DEF ChainList
<1>2. /\ DOMAIN e = DOMAIN l /\ e[n] = c
      /\ \A k \in DOMAIN l : k # n => e[k] = l[k]
      /\ e = [k \in 1 .. Len(l) |-> IF k = n THEN c ELSE l[k]]
  BY <1>1
<1> HIDE DEF e
<1>3. e \in [1 .. Len(l) -> ToSet(e)]
  BY <1>1, <1>2 DEF ToSet
<1>4. e \in Seq(ToSet(e))
  BY <1>1, <1>3, SeqDef
<1>5. Len(e) = Len(l)
  BY <1>1, <1>2, <1>4
<1>6. \A k \in DOMAIN e : isChain(e[k])
  BY <1>2 DEF ChainList
<1> QED
  BY <1>2, <1>4, <1>5, <1>6 DEF ChainList, e

\* The last chain is dropped.
LEMMA FrontChain ==
    ASSUME NEW l, ChainList(l), Len(l) > 0
    PROVE  /\ ChainList(Front(l))
           /\ Len(Front(l)) = Len(l) - 1
           /\ DOMAIN Front(l) = 1 .. Len(l) - 1 /\ DOMAIN l = 1 .. Len(l)
           /\ Len(l) \in Nat
           /\ \A k \in DOMAIN Front(l) : Front(l)[k] = l[k]
<1> DEFINE e == Front(l)
           n == Len(l) - 1
<1>1. l \in Seq(ToSet(l)) /\ Len(l) \in Nat /\ DOMAIN l = 1 .. Len(l) /\ n \in Nat
  BY DEF ChainList
<1>2. /\ Len(e) = n /\ DOMAIN e = 1 .. n /\ e = [k \in 1 .. n |-> l[k]]
  BY <1>1 DEF Front
<1> HIDE DEF e, n
<1>3. \A k \in 1 .. n : k \in DOMAIN l /\ e[k] = l[k]
  BY <1>1, <1>2 DEF n
<1>4. e \in [1 .. n -> ToSet(e)]
  BY <1>2 DEF ToSet
<1>5. e \in Seq(ToSet(e))
  BY <1>1, <1>4, SeqDef
<1>6. \A k \in DOMAIN e : isChain(e[k])
  BY <1>2, <1>3 DEF ChainList
<1> QED
  BY <1>1, <1>2, <1>3, <1>5, <1>6 DEF ChainList, e, n

\* skipLayoutOp leaves the chains alone.
LEMMA RoundSkips ==
    ASSUME Scheduling, NEW o \in candidates, scheduleOp(o),
           UNCHANGED <<graphvars, func>>, skipLayoutOp(o)
    PROVE  Scheduling'
<1>1. l1ChainConfigs' = l1ChainConfigs /\ phase' = phase /\ currentOp' = 0
  BY DEF skipLayoutOp, chainvars
<1>2. ChainsInv'
  BY <1>1 DEF Scheduling, ChainsInv
<1>3. \A x : isChainOp(x)' => isChainOp(x)
  BY <1>1 DEF isChainOp
<1> QED
  BY <1>1, <1>2, <1>3, RoundWithoutOp

\* The invariant says that the chains are such a list.
LEMMA ListInv == ChainsInv => ChainList(l1ChainConfigs)
BY DEF ChainsInv, ChainList

\* A number up to m.
LEMMA LastOrBefore == \A m \in Nat : \A i \in 1 .. m : i = m \/ i \in 1 .. m - 1
OBVIOUS

\* endChain builds the open chain and starts another.
LEMMA RoundEnds ==
    ASSUME Scheduling, NEW o \in candidates, scheduleOp(o),
           UNCHANGED <<graphvars, func>>, endChain(o)
    PROVE  Scheduling'
<1> DEFINE l == l1ChainConfigs
           b == build(lastChain)
           n == Front(l) \o <<b>>
<1>1. phase' = phase /\ currentOp' = 0
  BY DEF endChain
<1>2. ChainList(l) /\ Len(l) > 0 /\ Len(l) \in Nat /\ DOMAIN l = 1 .. Len(l)
  BY ListInv, FrontChain DEF Scheduling, ChainsInv
<1>3. CASE l' = l
  <2>1. ChainsInv'
    BY <1>1, <1>3 DEF Scheduling, ChainsInv
  <2>2. \A x : isChainOp(x)' => isChainOp(x)
    BY <1>3 DEF isChainOp
  <2> QED
    BY <1>1, <2>1, <2>2, RoundWithoutOp
<1>4. CASE l' = Append(n, NewChain)
  <2>1. isChain(l[Len(l)])
    BY <1>2 DEF ChainList
  <2>2. isChain(b) /\ b.ops = l[Len(l)].ops
    BY <2>1 DEF isChain, build, lastChain
  <2> HIDE DEF b
  <2>3. /\ ChainList(Front(l)) /\ Len(Front(l)) = Len(l) - 1
        /\ \A k \in 1 .. Len(l) - 1 : Front(l)[k] = l[k]
    BY <1>2, FrontChain
  <2>4. n = Append(Front(l), b)
    <3>1. Front(l) \in Seq(ToSet(Front(l)))
      BY <2>3 DEF ChainList
    <3> DEFINE T == ToSet(Front(l)) \cup {b}
    <3>2. Front(l) \in Seq(T) /\ b \in T
      BY <3>1 DEF ToSet
    <3> HIDE DEF T
    <3> QED
      BY <3>2, AppendIsConcat
  <2> HIDE DEF n
  <2>5. ChainList(n) /\ Len(n) = Len(l) /\ n[Len(l)] = b
        /\ \A k \in 1 .. Len(l) - 1 : n[k] = l[k]
    <3>1. /\ ChainList(n) /\ Len(n) = (Len(l) - 1) + 1
          /\ DOMAIN Front(l) = 1 .. (Len(l) - 1)
          /\ n[(Len(l) - 1) + 1] = b
          /\ \A k \in DOMAIN Front(l) : n[k] = Front(l)[k]
      BY <2>2, <2>3, <2>4, AppendChain
    <3>2. (Len(l) - 1) + 1 = Len(l)
      BY <1>2
    <3> QED
      BY <2>3, <3>1, <3>2
  <2>6. /\ ChainList(l') /\ Len(l') = Len(l) + 1 /\ DOMAIN l' = 1 .. Len(l) + 1
        /\ l'[Len(l) + 1] = NewChain
        /\ \A k \in 1 .. Len(l) : l'[k] = n[k]
    BY <1>4, <2>5, NewChainFacts, AppendChain
  <2>7. ChainsInv'
    <3>1. Len(l') > 0
      BY <1>2, <2>6
    <3> QED
      BY <2>6, <3>1 DEF ChainsInv, ChainList
  <2>8. \A k \in 1 .. Len(l) : l'[k].ops = l[k].ops
    <3> TAKE k \in 1 .. Len(l)
    <3>2. k = Len(l) \/ k \in 1 .. Len(l) - 1
      BY <1>2, LastOrBefore
    <3> QED
      BY <3>2, <2>2, <2>5, <2>6
  <2>9. ASSUME NEW x, isChainOp(x)' PROVE isChainOp(x)
    <3>1. PICK k \in DOMAIN l' : x \in ToSet(l'[k].ops)
      BY <2>9 DEF isChainOp
    <3>2. k # Len(l) + 1
      BY <3>1, <2>6, NewChainFacts DEF ToSet
    <3>3. k \in 1 .. Len(l)
      BY <3>1, <3>2, <2>6, <1>2
    <3> QED
      BY <3>1, <3>3, <2>8, <1>2 DEF isChainOp
  <2> QED
    BY <1>1, <2>7, <2>9, RoundWithoutOp
<1> QED
  BY <1>3, <1>4 DEF endChain

\* The elements of a sequence with one more.
LEMMA AppendedSet ==
    ASSUME NEW s \in Seq(Nat), NEW o \in Nat
    PROVE  /\ Append(s, o) \in Seq(Nat) /\ Append(s, o) # <<>>
           /\ \A x : x \in ToSet(Append(s, o)) <=> x \in ToSet(s) \/ x = o
<1> DEFINE a == Append(s, o)
<1>1. /\ a \in Seq(Nat) /\ a # <<>> /\ Len(s) \in Nat /\ DOMAIN s = 1 .. Len(s)
      /\ DOMAIN a = 1 .. Len(s) + 1
      /\ a[Len(s) + 1] = o /\ \A i \in 1 .. Len(s) : a[i] = s[i]
  OBVIOUS
<1> HIDE DEF a
<1>2. \A x : x \in ToSet(a) <=> x \in ToSet(s) \/ x = o
  <2>1. \A i \in DOMAIN a : i \in DOMAIN s \/ i = Len(s) + 1
    BY <1>1
  <2>2. DOMAIN s \subseteq DOMAIN a /\ Len(s) + 1 \in DOMAIN a
    BY <1>1
  <2> QED
    BY <1>1, <2>1, <2>2 DEF ToSet
<1> QED
  BY <1>1, <1>2 DEF a

\* A chain with one more op.
LEMMA ChainWithOp ==
    ASSUME NEW c, isChain(c), NEW o \in Nat
    PROVE  /\ isChain([c EXCEPT !.ops = Append(@, o)])
           /\ [c EXCEPT !.ops = Append(@, o)].ops = Append(c.ops, o)
<1> DEFINE q == Append(c.ops, o)
<1>1. q \in Seq(Nat)
  BY AppendedSet DEF isChain
<1> HIDE DEF q
<1> DEFINE r == [ops |-> q, state |-> c.state, config |-> c.config,
                 memReconfigEntryMap |-> c.memReconfigEntryMap,
                 spillEndToDRAM |-> c.spillEndToDRAM]
<1>2. [c EXCEPT !.ops = q] = r
  BY DEF isChain
<1>3. r.ops = q
  OBVIOUS
<1>4. isChain(r)
  BY <1>1 DEF isChain
<1> QED
  BY <1>2, <1>3, <1>4 DEF q

\* extendChain puts the op into the open chain: it has one use, and that user is
\* the next candidate.
LEMMA RoundExtends ==
    ASSUME Scheduling, NEW o \in candidates, scheduleOp(o),
           UNCHANGED <<graphvars, func>>,
           NEW nextOp \in DOMAIN ops, extendChain(o, nextOp)
    PROVE  Scheduling'
<1> DEFINE l == l1ChainConfigs
           c == l[Len(l)]
           d == [c EXCEPT !.ops = Append(@, o)]
<1>1. /\ phase' = phase /\ currentOp' = nextOp /\ phase' = "schedule"
      /\ l' = [l EXCEPT ![Len(l)].ops = Append(@, o)]
  BY DEF extendChain, addOpL1MemSpec, Scheduling
<1>2. ChainList(l) /\ Len(l) > 0 /\ Len(l) \in Nat /\ DOMAIN l = 1 .. Len(l)
  BY ListInv, FrontChain DEF Scheduling, ChainsInv
<1>3. Len(l) \in DOMAIN l /\ isChain(c)
  BY <1>2 DEF ChainList
<1>4. ops' = ops /\ block' = block /\ func' = func
  BY DEF graphvars
<1>5. o \in Nat /\ nextOp \in Nat /\ nextOp # 0
  BY Candidate, GraphFacts DEF Scheduling, BlockInv
<1>6. isChain(d) /\ d.ops = Append(c.ops, o)
  BY <1>3, <1>5, ChainWithOp
<1>7. l' = [l EXCEPT ![Len(l)] = d]
  BY <1>1
<1> HIDE DEF d
<1>8. /\ ChainList(l') /\ DOMAIN l' = DOMAIN l /\ Len(l') = Len(l) /\ l'[Len(l)] = d
      /\ \A k \in DOMAIN l : k # Len(l) => l'[k] = l[k]
  BY <1>2, <1>3, <1>6, <1>7, SetChain
<1>9. ChainsInv'
  BY <1>2, <1>8 DEF ChainsInv, ChainList
<1>10. \A x : x \in ToSet(d.ops) <=> x \in ToSet(c.ops) \/ x = o
  <2>1. c.ops \in Seq(Nat)
    BY <1>3 DEF isChain
  <2> QED
    BY <2>1, <1>5, <1>6, AppendedSet
<1>11. \A x : isChainOp(x)' => isChainOp(x) \/ x = o
  BY <1>3, <1>8, <1>10 DEF isChainOp
<1>12. onlyUserIs(o, nextOp)
  BY OnlyUser DEF extendChain, validForSharding, Scheduling, BlockInv
<1>13. \A x, y : onlyUserIs(x, y)' <=> onlyUserIs(x, y)
  BY <1>4, UserUnchanged
<1>14. BlockInv' /\ ScheduleInv' /\ schedule'[func] = Append(schedule[func], o)
  BY RoundSchedules
<1> DEFINE s == schedule[func]
           t == schedule'[func]
<1>15. /\ Len(s) \in Nat /\ t # <<>> /\ Len(t) = Len(s) + 1 /\ DOMAIN t = 1 .. Len(s) + 1
       /\ t[Len(s) + 1] = o
  <2>1. s \in Seq(Nat)
    BY DEF Scheduling, ScheduleInv
  <2> QED
    BY <1>5, <1>14, <2>1
<1> HIDE DEF s, t
<1>16. FollowedInv'
  <2> SUFFICES ASSUME NEW x, isChainOp(x)'
               PROVE  /\ x \in DOMAIN ops
                      /\ \E i \in DOMAIN schedule'[ops[x].func] :
                           /\ schedule'[ops[x].func][i] = x
                           /\ i + 1 \in DOMAIN schedule'[ops[x].func] =>
                                onlyUserIs(x, schedule'[ops[x].func][i + 1])
    BY <1>4, <1>13 DEF FollowedInv
  <2>1. CASE isChainOp(x)
    BY <2>1, RoundSchedules
  <2>2. CASE x = o
    <3>1. x \in DOMAIN ops /\ ops[x].func = func
      BY <2>2, Candidate
    <3>2. Len(s) + 1 \in DOMAIN t /\ (Len(s) + 1) + 1 \notin DOMAIN t
      BY <1>15
    <3> QED
      BY <2>2, <3>1, <3>2, <1>15 DEF t
  <2> QED
    BY <2>1, <2>2, <1>11
<1>17. CurrentInv'
  <2>1. \A x : schedule'[func'][Len(schedule'[func'])] = x => x = o
    BY <1>4, <1>15 DEF t
  <2>2. ~isEmpty(lastChain)'
    <3>1. c.ops \in Seq(Nat)
      BY <1>3 DEF isChain
    <3>2. d.ops # <<>>
      BY <3>1, <1>5, <1>6, AppendedSet
    <3> QED
      BY <3>2, <1>8 DEF isEmpty, lastChain
  <2>3. nextOp \in unscheduledOps(Append(schedule[func], o))
    BY DEF extendChain, getScheduleableOps
  <2>4. currentOp' \in unscheduledOps(schedule[func])'
    BY <2>3, <1>1, <1>4, <1>14 DEF unscheduledOps, isTTSchedulableOp, Kind
  <2> QED
    BY <2>1, <2>2, <2>4, <1>1, <1>5, <1>12, <1>13 DEF CurrentInv
<1> QED
  BY <1>1, <1>9, <1>14, <1>16, <1>17 DEF Scheduling

\* A round in all its forms.
LEMMA RoundKeeps ==
    ASSUME Scheduling, scheduleRound
    PROVE  Scheduling'
<1>1. PICK o \in candidates :
        /\ scheduleOp(o)
        /\ \/ skipLayoutOp(o)
           \/ \E nextOp \in DOMAIN ops : extendChain(o, nextOp)
           \/ endChain(o)
  BY DEF scheduleRound
<1>2. UNCHANGED <<graphvars, func>>
  BY DEF scheduleRound
<1>3. CASE skipLayoutOp(o)
  BY <1>1, <1>2, <1>3, RoundSkips
<1>4. CASE \E nextOp \in DOMAIN ops : extendChain(o, nextOp)
  BY <1>1, <1>2, <1>4, RoundExtends
<1>5. CASE endChain(o)
  BY <1>1, <1>2, <1>5, RoundEnds
<1> QED
  BY <1>1, <1>3, <1>4, <1>5

-----------------------------------------------------------------------------
(* The other steps                                                         *)

\* The next function starts with an empty schedule, and the last one is over.
LEMMA NextFuncKeeps ==
    ASSUME Scheduling, nextFunc, policy' = policy
    PROVE  DFInv'
<1> DEFINE l == l1ChainConfigs
<1>1. ops' = ops /\ block' = block /\ schedule' = schedule /\ currentOp' = 0
  BY DEF nextFunc, graphvars
<1>2. ChainList(l) /\ Len(l) > 0 /\ Len(l) \in Nat /\ DOMAIN l = 1 .. Len(l)
  BY ListInv, FrontChain DEF Scheduling, ChainsInv
<1>3. Funcs' = Funcs /\ BlockInv'
  BY <1>1 DEF Scheduling, BlockInv, Funcs
<1>4. \A x, y : onlyUserIs(x, y)' <=> onlyUserIs(x, y)
  BY <1>1, UserUnchanged
<1>5. func \in Funcs /\ Funcs \subseteq Nat
  BY GraphFacts DEF Scheduling, BlockInv, ScheduleInv
<1>6. CASE func + 1 \in Funcs
  <2>1. func' = func + 1 /\ l' = Append(l, NewChain) /\ phase' = "schedule"
    BY <1>6 DEF nextFunc
  <2>2. /\ ChainList(l') /\ Len(l') = Len(l) + 1 /\ DOMAIN l' = 1 .. Len(l) + 1
        /\ l'[Len(l) + 1] = NewChain
        /\ \A k \in 1 .. Len(l) : l'[k] = l[k]
    BY <1>2, <2>1, NewChainFacts, AppendChain
  <2>3. Len(l') > 0
    BY <1>2, <2>2
  <2>4. ChainsInv'
    BY <2>2, <2>3 DEF ChainsInv, ChainList
  <2>5. ASSUME NEW x, isChainOp(x)' PROVE isChainOp(x)
    <3>1. PICK k \in DOMAIN l' : x \in ToSet(l'[k].ops)
      BY <2>5 DEF isChainOp
    <3>2. k # Len(l) + 1
      BY <3>1, <2>2, NewChainFacts DEF ToSet
    <3>3. k \in 1 .. Len(l)
      BY <3>1, <3>2, <2>2, <1>2
    <3> QED
      BY <3>1, <3>3, <2>2, <1>2 DEF isChainOp
  <2>6. \A f \in Funcs : f > func + 1 => f > func
    BY <1>5
  <2>7. ScheduleInv'
    BY <1>1, <1>3, <1>6, <2>1, <2>6 DEF Scheduling, ScheduleInv
  <2>8. FollowedInv'
    BY <1>1, <1>4, <2>5 DEF Scheduling, FollowedInv
  <2>9. schedule[func + 1] = <<>>
    BY <1>5, <1>6 DEF Scheduling, ScheduleInv
  <2>10. CurrentInv'
    BY <1>1, <2>1, <2>9 DEF CurrentInv
  <2> QED
    BY <1>3, <2>4, <2>7, <2>8, <2>10 DEF DFInv
<1>7. CASE func + 1 \notin Funcs
  <2>1. func' = func /\ phase' = "resolve" /\ (l' = l \/ l' = Front(l))
    BY <1>7 DEF nextFunc
  <2>2. ChainList(l') /\ \A k \in DOMAIN l' : k \in DOMAIN l /\ l'[k] = l[k]
    <3>1. CASE l' = l
      BY <3>1, <1>2
    <3>2. CASE l' = Front(l)
      <4>1. /\ ChainList(Front(l)) /\ DOMAIN Front(l) = 1 .. Len(l) - 1
            /\ \A k \in DOMAIN Front(l) : Front(l)[k] = l[k]
        BY <1>2, FrontChain
      <4>2. 1 .. Len(l) - 1 \subseteq 1 .. Len(l)
        BY <1>2
      <4> QED
        BY <3>2, <4>1, <4>2, <1>2
    <3> QED
      BY <2>1, <3>1, <3>2
  <2>3. ChainsInv'
    BY <2>1, <2>2 DEF ChainsInv, ChainList
  <2>4. \A x : isChainOp(x)' => isChainOp(x)
    BY <2>2 DEF isChainOp
  <2>5. ScheduleInv'
    BY <1>1, <1>3, <2>1 DEF Scheduling, ScheduleInv
  <2>6. FollowedInv'
    BY <1>1, <1>4, <2>4 DEF Scheduling, FollowedInv
  <2>7. CurrentInv'
    BY <2>1 DEF CurrentInv
  <2> QED
    BY <1>3, <2>3, <2>5, <2>6, <2>7 DEF DFInv
<1> QED
  BY <1>6, <1>7

\* The solver changes the state and the configs of the chain it is at, never its
\* ops.
SameOps(l) ==
    /\ ChainList(l)
    /\ DOMAIN l = DOMAIN l1ChainConfigs
    /\ \A k \in DOMAIN l : l[k].ops = l1ChainConfigs[k].ops

\* A change of state leaves the ops.
LEMMA ChainInState ==
    ASSUME NEW c, isChain(c), NEW v
    PROVE  isChain([c EXCEPT !.state = v]) /\ [c EXCEPT !.state = v].ops = c.ops
<1> DEFINE r == [ops |-> c.ops, state |-> v, config |-> c.config,
                 memReconfigEntryMap |-> c.memReconfigEntryMap,
                 spillEndToDRAM |-> c.spillEndToDRAM]
<1>1. [c EXCEPT !.state = v] = r
  BY DEF isChain
<1>2. isChain(r) /\ r.ops = c.ops
  BY DEF isChain
<1> QED
  BY <1>1, <1>2

completedChain(c, config, entries) ==
    [complete(c, config, entries) EXCEPT !.spillEndToDRAM = TRUE]

\* So does complete.
LEMMA ChainComplete ==
    ASSUME NEW c, isChain(c), NEW config, NEW entries
    PROVE  /\ isChain(completedChain(c, config, entries))
           /\ completedChain(c, config, entries).ops = c.ops
<1> DEFINE new == [i \in DOMAIN c.ops |-> config[c.ops[i]]]
           v == "Completed"
           spill == TRUE
           e1 == [c EXCEPT !.config = new]
           e2 == [e1 EXCEPT !.memReconfigEntryMap = entries]
           e3 == [e2 EXCEPT !.state = v]
           d == [ops |-> c.ops, state |-> v, config |-> new,
                 memReconfigEntryMap |-> entries, spillEndToDRAM |-> spill]
<1>1. completedChain(c, config, entries) = [e3 EXCEPT !.spillEndToDRAM = spill]
  BY DEF completedChain, complete
<1> HIDE DEF new, v, spill
<1>2. e1 = [ops |-> c.ops, state |-> c.state, config |-> new,
            memReconfigEntryMap |-> c.memReconfigEntryMap,
            spillEndToDRAM |-> c.spillEndToDRAM]
  BY DEF isChain
<1> HIDE DEF e1
<1>3. e2 = [ops |-> c.ops, state |-> c.state, config |-> new,
            memReconfigEntryMap |-> entries, spillEndToDRAM |-> c.spillEndToDRAM]
  BY <1>2
<1> HIDE DEF e2
<1>4. e3 = [ops |-> c.ops, state |-> v, config |-> new,
            memReconfigEntryMap |-> entries, spillEndToDRAM |-> c.spillEndToDRAM]
  BY <1>3
<1> HIDE DEF e3
<1>5. [e3 EXCEPT !.spillEndToDRAM = spill] = d
  BY <1>4
<1>6. isChain(d) /\ d.ops = c.ops
  BY DEF isChain
<1> HIDE DEF d
<1> QED
  BY <1>1, <1>5, <1>6

\* Replacing a chain by one with the same ops.
LEMMA SetSameOps ==
    ASSUME ChainList(l1ChainConfigs), NEW n, NEW c,
           n \in DOMAIN l1ChainConfigs => isChain(c) /\ c.ops = l1ChainConfigs[n].ops
    PROVE  SameOps([l1ChainConfigs EXCEPT ![n] = c])
<1>1. CASE n \in DOMAIN l1ChainConfigs
  BY <1>1, SetChain DEF SameOps
<1>2. CASE n \notin DOMAIN l1ChainConfigs
  <2>1. l1ChainConfigs = [k \in DOMAIN l1ChainConfigs |-> l1ChainConfigs[k]]
    BY DEF ChainList
  <2>2. [l1ChainConfigs EXCEPT ![n] = c] = l1ChainConfigs
    BY <1>2, <2>1
  <2> QED
    BY <2>2 DEF SameOps
<1> QED
  BY <1>1, <1>2

\* All steps of resolveChain leave the ops of the chains, and may only abort.
LEMMA ResolveSameOps ==
    ASSUME ChainList(l1ChainConfigs), resolveChain
    PROVE  SameOps(l1ChainConfigs') /\ (phase' = phase \/ phase' = "abort")
<1> DEFINE l == l1ChainConfigs
<1>1. SameOps(l)
  BY DEF SameOps
<1>2. ASSUME NEW v, l' = [l EXCEPT ![chain].state = v] PROVE SameOps(l')
  <2> DEFINE c == [l[chain] EXCEPT !.state = v]
  <2>1. l' = [l EXCEPT ![chain] = c]
    BY <1>2
  <2>2. chain \in DOMAIN l => isChain(c) /\ c.ops = l[chain].ops
    BY ChainInState DEF ChainList
  <2> HIDE DEF c
  <2> QED
    BY <2>1, <2>2, SetSameOps
<1>3. CASE resolveWithSolver
  BY <1>1, <1>3 DEF resolveWithSolver
<1>4. CASE resolveEdge /\ UNCHANGED <<l1ChainConfigs, chain>>
  BY <1>1, <1>4 DEF resolveEdge
<1>5. CASE UNCHANGED <<chainvars, chain>>
  BY <1>1, <1>5 DEF chainvars
<1>6. CASE updateRound /\ UNCHANGED <<l1ChainConfigs, chain>>
  BY <1>1, <1>6 DEF updateRound
<1>7. CASE chainFailed
  <2> DEFINE v == "Failed"
  <2>1. l' = [l EXCEPT ![chain].state = v]
    BY <1>7 DEF chainFailed
  <2> HIDE DEF v
  <2>2. SameOps(l')
    BY <1>2, <2>1
  <2> QED
    BY <1>7, <2>2 DEF chainFailed
<1>8. CASE chainResolved
  <2> DEFINE v == "Resolved"
  <2>1. l' = [l EXCEPT ![chain].state = v]
    BY <1>8 DEF chainResolved
  <2> HIDE DEF v
  <2>2. SameOps(l')
    BY <1>2, <2>1
  <2> QED
    BY <1>8, <2>2 DEF chainResolved
<1>9. CASE pickOpShardConfig
  BY <1>1, <1>9 DEF pickOpShardConfig, set
<1>10. CASE nextPick
  BY <1>1, <1>10 DEF nextPick
<1>11. CASE chainCompleted
  <2> DEFINE c == completedChain(l[chain], selectedOpConfig, memReconfigMap)
  <2>1. l' = [l EXCEPT ![chain] = c] /\ phase' = phase
    BY <1>11 DEF chainCompleted, completedChain
  <2>2. chain \in DOMAIN l => isChain(c) /\ c.ops = l[chain].ops
    BY ChainComplete DEF ChainList
  <2> HIDE DEF c
  <2> QED
    BY <2>1, <2>2, SetSameOps
<1> QED
  BY <1>3, <1>4, <1>5, <1>6, <1>7, <1>8, <1>9, <1>10, <1>11 DEF resolveChain

\* So what is known of the chains stays.
LEMMA ResolveKeeps ==
    ASSUME DFInv, policy = "DFSharding", policy' = policy, phase = "resolve",
           UNCHANGED <<graphvars, schedvars>>,
           SameOps(l1ChainConfigs'), phase' # "schedule"
    PROVE  DFInv'
<1>1. ops' = ops /\ block' = block /\ schedule' = schedule /\ func' = func /\ Funcs' = Funcs
  BY DEF graphvars, schedvars, Funcs
<1>2. BlockInv /\ ScheduleInv /\ FollowedInv
  BY DEF DFInv
<1>3. BlockInv' /\ ScheduleInv'
  BY <1>1, <1>2 DEF BlockInv, ScheduleInv
<1>4. ChainsInv'
  BY DEF SameOps, ChainList, ChainsInv
<1>5. \A x : isChainOp(x)' => isChainOp(x)
  BY DEF SameOps, isChainOp
<1>6. \A x, y : onlyUserIs(x, y)' <=> onlyUserIs(x, y)
  BY <1>1, UserUnchanged
<1>7. FollowedInv'
  BY <1>1, <1>2, <1>5, <1>6 DEF FollowedInv
<1>8. CurrentInv'
  BY DEF CurrentInv
<1> QED
  BY <1>3, <1>4, <1>7, <1>8 DEF DFInv

\* Every step keeps the invariant; other policies and the rewrite are elsewhere.
LEMMA StepDF == DFInv /\ [Next]_vars => DFInv'
<1> SUFFICES ASSUME DFInv, [Next]_vars PROVE DFInv'
  OBVIOUS
<1>1. CASE UNCHANGED vars
  <2>1. /\ ops' = ops /\ block' = block /\ func' = func /\ schedule' = schedule
        /\ l1ChainConfigs' = l1ChainConfigs /\ phase' = phase /\ policy' = policy
        /\ currentOp' = currentOp
    BY <1>1 DEF vars, dfvars, graphvars, schedvars, chainvars, optvars
  <2>2. Funcs' = Funcs /\ lastChain' = lastChain
        /\ (\A x : isChainOp(x)' <=> isChainOp(x))
        /\ (\A x, y : onlyUserIs(x, y)' <=> onlyUserIs(x, y))
    BY <2>1, UserUnchanged DEF Funcs, lastChain, isChainOp
  <2>3. BlockInv /\ ScheduleInv => BlockInv' /\ ScheduleInv'
    BY <2>1, <2>2 DEF BlockInv, ScheduleInv
  <2>4. ChainsInv => ChainsInv'
    BY <2>1 DEF ChainsInv
  <2>5. FollowedInv => FollowedInv'
    BY <2>1, <2>2 DEF FollowedInv
  <2>6. unscheduledOps(schedule[func])' = unscheduledOps(schedule[func])
    BY <2>1 DEF unscheduledOps, isTTSchedulableOp, Kind
  <2>7. CurrentInv => CurrentInv'
    BY <2>1, <2>2, <2>6 DEF CurrentInv, isEmpty
  <2> QED
    BY <2>1, <2>3, <2>4, <2>5, <2>7 DEF DFInv
<1>2. CASE DFSharding
  <2>1. policy = "DFSharding" /\ policy' = policy /\ DFNext
    BY <1>2 DEF DFSharding, optvars
  <2>2. phase = "schedule" => Scheduling
    BY <2>1 DEF DFInv, Scheduling
  <2>3. CASE scheduleRound
    <3>1. Scheduling'
      BY <2>2, <2>3, RoundKeeps DEF scheduleRound
    <3> QED
      BY <3>1 DEF Scheduling, DFInv
  <2>4. CASE nextFunc
    BY <2>1, <2>2, <2>4, NextFuncKeeps DEF nextFunc
  <2>5. CASE resolveChain
    <3>1. phase = "resolve" /\ UNCHANGED <<graphvars, schedvars>>
      BY <2>5 DEF resolveChain
    <3>2. ChainList(l1ChainConfigs)
      BY <2>1, <3>1, ListInv DEF DFInv
    <3>3. SameOps(l1ChainConfigs') /\ phase' # "schedule"
      BY <2>5, <3>1, <3>2, ResolveSameOps
    <3> QED
      BY <2>1, <3>1, <3>3, ResolveKeeps
  <2>6. CASE chainsDone
    BY <2>6 DEF chainsDone, DFInv
  <2> QED
    BY <2>1, <2>3, <2>4, <2>5, <2>6 DEF DFNext
<1>3. CASE BFInterleaved
  BY <1>3 DEF BFInterleaved, optvars, DFInv
<1>4. CASE GreedyL1Interleaved
  BY <1>4 DEF GreedyL1Interleaved, optvars, DFInv
<1>5. CASE applyAnalysis
  BY <1>5 DEF applyAnalysis, DFInv
<1>6. CASE processMemReconfigEdges
  BY <1>6 DEF processMemReconfigEdges, DFInv
<1>7. CASE processSpillOp
  BY <1>7 DEF processSpillOp, chainvars, DFInv
<1>8. CASE setFuncType
  BY <1>8 DEF setFuncType, DFInv
<1>9. CASE Finished
  BY <1>1, <1>9 DEF Finished
<1> QED
  BY <1>1, <1>2, <1>3, <1>4, <1>5, <1>6, <1>7, <1>8, <1>9 DEF Next, apply

\* The invariant of the scheduling loop holds throughout the policy's run.
THEOREM PolicyInvariant == Spec => []DFInv
BY InitDF, StepDF, PTL DEF Spec

\* DFShardingPolicy counts the results of an op and of its user only when it
\* checks L1: in every module, and whatever order the hash set of ready ops has,
\* a chain's op has one use and its user is the next op of the schedule.
THEOREM ChainsStayConsecutive == Spec => []ChainsConsecutive
<1>1. DFInv => ChainsConsecutive
  <2> SUFFICES ASSUME DFInv, policy = "DFSharding", phase \in {"schedule", "resolve"},
                      NEW c \in ToSet(l1ChainConfigs), NEW o \in ToSet(c.ops),
                      positionIn(schedule[ops[o].func], o) < Len(schedule[ops[o].func])
               PROVE  onlyUserIs(o, schedule[ops[o].func][positionIn(schedule[ops[o].func], o) + 1])
    BY DEF ChainsConsecutive, onlyUserIs
  <2> DEFINE s == schedule[ops[o].func]
  <2>1. BlockInv /\ ScheduleInv /\ FollowedInv
    BY DEF DFInv
  <2>2. isChainOp(o)
    BY DEF isChainOp, ToSet
  <2>3. o \in DOMAIN ops
    BY <2>1, <2>2 DEF FollowedInv
  <2>4. PICK i \in DOMAIN s : s[i] = o /\ (i + 1 \in DOMAIN s => onlyUserIs(o, s[i + 1]))
    BY <2>1, <2>2 DEF FollowedInv
  <2>5. ops[o].func \in Funcs
    BY <2>3 DEF Funcs
  <2>6. s \in Seq(Nat) /\ \A j \in DOMAIN s : s[j] = o => j = i
    BY <2>1, <2>4, <2>5 DEF ScheduleInv
  <2>7. positionIn(s, o) = i
    BY <2>4, <2>6 DEF positionIn
  <2>8. i + 1 \in DOMAIN s
    BY <2>4, <2>6, <2>7
  <2> QED
    BY <2>4, <2>7, <2>8
<1> QED
  BY <1>1, PolicyInvariant, PTL

-----------------------------------------------------------------------------
(* The breadth first policy                                                *)

\* Every result is used: an op without a use is dead code, and the policy's
\* bookkeeping would never release it.
ResultsAreUsed ==
    \A g \in Graphs : \A o \in DOMAIN g :
      g[o].kind \in {"compute", "excluded"} =>
        \E c \in DOMAIN g : \E i \in DOMAIN g[c].ins : g[c].ins[i] = o

BFScheduling ==
    /\ phase = "schedule"
    /\ BlockInv /\ ScheduleInv /\ ChainsInv /\ DependenciesInv /\ UsageInv

\* Sizes within L1 are words, on which the unsigned operations are exact.
LEMMA WordFacts ==
    /\ AvailableL1CacheSize \in Nat
    /\ \A a, b \in Nat : b <= a /\ a - b <= AvailableL1CacheSize => sub(a, b) = a - b
<1> DEFINE M == 2 ^ WordBits
<1>1. M \in Int
  BY WordAssumption
<1>2. AvailableL1CacheSize \in 0 .. M - 1
  BY WordAssumption
<1>3. \A a, b : sub(a, b) = (a - b) % M
  BY DEF sub
<1> HIDE DEF M
<1>4. M \in Nat /\ M > 0 /\ AvailableL1CacheSize \in Nat /\ AvailableL1CacheSize < M
  BY <1>1, <1>2
<1>5. \A n \in Nat : n < M => n % M = n
  BY <1>4
<1>6. ASSUME NEW a \in Nat, NEW b \in Nat, b <= a, a - b <= AvailableL1CacheSize
      PROVE  sub(a, b) = a - b
  <2>1. a - b \in Nat /\ a - b < M
    BY <1>4, <1>6
  <2> QED
    BY <1>3, <1>5, <2>1
<1> QED
  BY <1>4, <1>6

\* A to_layout is in DRAM or goes to the host, so an op with an L1 config is none.
LEMMA HasL1Kind ==
    ASSUME ops \in Graphs, NEW o \in DOMAIN ops, hasL1BufferType(o)
    PROVE  ops[o].kind \in {"compute", "excluded"}
<1>1. ops[o].layout \in {DRAM, Host}
  BY GraphFacts
<1>2. ops[o].layout # L1Interleaved
  BY <1>1, LayoutsAssumption DEF DRAM, Host, L1Interleaved
<1> QED
  BY <1>2 DEF hasL1BufferType, interleavedConfigs, Kind

\* An op with an L1 config is analyzable.
LEMMA HasL1IsAnalyzable == \A o : hasL1BufferType(o) => isAnalyzable(o)
BY DEF hasL1BufferType, isAnalyzable

\* The result of an op with an L1 config has a size.
LEMMA SizeIsNat ==
    ASSUME ops \in Graphs, NEW o \in DOMAIN ops, hasL1BufferType(o)
    PROVE  OutputL1Usage[o] \in Nat
<1>1. o \in DOMAIN OutputL1Usage
  BY HasL1Kind, WordAssumption
<1>2. OutputL1Usage[o] \in 0 .. 2 ^ WordBits - 1
  BY <1>1, WordAssumption
<1>3. 2 ^ WordBits \in Int
  BY WordAssumption
<1> QED
  BY <1>2, <1>3

\* sumUsage adds up the sizes in the entries.
LEMMA SumUsageIsTotal ==
    ASSUME NEW S, IsFiniteSet(S), NEW w, \A d \in S : usageOf(d) = w[d]
    PROVE  sumUsage(S) = total(w, S)
<1> DEFINE v == [d \in S |-> usageOf(d)]
           P(f) == f = [s \in SUBSET S |-> IF s = {} THEN 0
                                           ELSE usageOf(pick(s)) + f[s \ {pick(s)}]]
<1>1. sumUsage(S) = (CHOOSE f : P(f))[S]
  BY DEF sumUsage, FoldSet, MapThenFoldSet, pick
<1>2. \A s \in SUBSET S : s # {} => usageOf(pick(s)) = v[pick(s)]
  BY PickFacts
<1> HIDE DEF v
<1>3. \A f : P(f) <=> Sums(f, v, S)
  BY <1>2 DEF Sums
<1>4. PICK f : Sums(f, v, S)
  BY SumsExist
<1>5. P(CHOOSE f1 : P(f1))
  <2>1. P(f)
    BY <1>3, <1>4
  <2> HIDE DEF P
  <2> QED
    BY <2>1
<1> DEFINE g == CHOOSE f1 : P(f1)
<1>6. Sums(g, v, S)
  BY <1>3, <1>5
<1> HIDE DEF g, P
<1>7. PICK h : Sums(h, w, S) /\ total(w, S) = h[S]
  BY TotalSums
<1>8. \A x \in S : v[x] = w[x]
  BY DEF v
<1>9. g[S] = h[S]
  BY <1>6, <1>7, <1>8, SumsUnique
<1> QED
  BY <1>1, <1>7, <1>9 DEF g

\* Scheduling o takes the uses by o off those that are left.
LEMMA UsesTakenOff ==
    ASSUME ops \in Graphs, NEW D, NEW o, o \notin D, NEW d
    PROVE  /\ Cardinality(usesOutside(d, D)) \in Nat /\ timesUsedBy(o, d) \in Nat
           /\ Cardinality(usesOutside(d, D \cup {o})) =
                Cardinality(usesOutside(d, D)) - timesUsedBy(o, d)
           /\ usesOutside(d, D \cup {o}) = {} <=>
                Cardinality(usesOutside(d, D)) = timesUsedBy(o, d)
<1> DEFINE before == usesOutside(d, D)
           after == usesOutside(d, D \cup {o})
           by == {u \in uses(d) : u[1] = o}
<1>1. IsFiniteSet(uses(d))
  BY UsesFinite
<1>2. IsFiniteSet(before) /\ IsFiniteSet(after) /\ IsFiniteSet(by)
  BY <1>1, FS_Subset DEF usesOutside
<1>3. after = before \ by /\ before \cap by = by
  BY DEF usesOutside
<1>4. timesUsedBy(o, d) = Cardinality(by)
  BY DEF timesUsedBy
<1> HIDE DEF before, after, by
<1>5. Cardinality(before) \in Nat /\ Cardinality(after) \in Nat /\ Cardinality(by) \in Nat
  BY <1>2, FS_CardinalityType
<1>6. Cardinality(before \ by) = Cardinality(before) - Cardinality(before \cap by)
  BY <1>2, FS_Difference
<1>7. Cardinality(after) = Cardinality(before) - Cardinality(by)
  BY <1>3, <1>6
<1>8. after = {} <=> Cardinality(after) = 0
  BY <1>2, FS_EmptySet
<1>9. after = {} <=> Cardinality(before) = Cardinality(by)
  BY <1>5, <1>7, <1>8
<1> QED
  BY <1>4, <1>5, <1>7, <1>9 DEF before, after

\* The chain with another op in L1.
LEMMA ChainWithL1Op ==
    ASSUME NEW l, ChainList(l), Len(l) > 0, NEW o \in Nat, NEW v
    PROVE  LET m == [[l EXCEPT ![Len(l)].ops = Append(@, o)]
                       EXCEPT ![Len(l)].config = Append(@, v)]
           IN  ChainList(m) /\ Len(m) = Len(l) /\ m[Len(l)].ops = Append(l[Len(l)].ops, o)
<1> DEFINE c == l[Len(l)]
           q == Append(c.ops, o)
           r == Append(c.config, v)
           c1 == [c EXCEPT !.ops = q]
           c2 == [c1 EXCEPT !.config = r]
           m == [[l EXCEPT ![Len(l)].ops = Append(@, o)]
                   EXCEPT ![Len(l)].config = Append(@, v)]
           n == Len(l)
<1>1. n \in DOMAIN l /\ isChain(c) /\ n \in Nat
  BY FrontChain DEF ChainList
<1>2. q \in Seq(Nat)
  BY <1>1, AppendedSet DEF isChain
<1>3. c1 = [ops |-> q, state |-> c.state, config |-> c.config,
            memReconfigEntryMap |-> c.memReconfigEntryMap,
            spillEndToDRAM |-> c.spillEndToDRAM]
  <2> HIDE DEF q, c
  <2> QED
    BY <1>1 DEF isChain
<1>4. c1.config = c.config
  BY <1>3
<1>5. m = [l EXCEPT ![n] = c2]
  <2>1. [l EXCEPT ![n].ops = Append(@, o)] = [l EXCEPT ![n] = c1]
    OBVIOUS
  <2>2. [l EXCEPT ![n] = c1][n] = c1
    BY <1>1
  <2> HIDE DEF c1
  <2>3. [[l EXCEPT ![n] = c1] EXCEPT ![n].config = Append(@, v)]
          = [[l EXCEPT ![n] = c1] EXCEPT ![n] = [c1 EXCEPT !.config = Append(c1.config, v)]]
    BY <2>2
  <2>4. [c1 EXCEPT !.config = Append(c1.config, v)] = c2
    BY <1>4
  <2> HIDE DEF c2
  <2>5. [[l EXCEPT ![n] = c1] EXCEPT ![n] = c2] = [l EXCEPT ![n] = c2]
    OBVIOUS
  <2> QED
    BY <2>1, <2>3, <2>4, <2>5
<1> HIDE DEF q, r, c, c1, m
<1>6. c2 = [ops |-> q, state |-> c.state, config |-> r,
            memReconfigEntryMap |-> c.memReconfigEntryMap,
            spillEndToDRAM |-> c.spillEndToDRAM]
  BY <1>3
<1> HIDE DEF c2
<1>7. isChain(c2) /\ c2.ops = q
  BY <1>2, <1>6 DEF isChain
<1>8. ChainList(m) /\ Len(m) = Len(l) /\ m[n] = c2
  BY <1>1, <1>5, <1>7, SetChain
<1> QED
  BY <1>7, <1>8 DEF m, q, c

\* The ops with an entry can be counted and have sizes.
LEMMA EntriesFacts ==
    ASSUME BFScheduling
    PROVE  /\ DOMAIN currentL1UsagePerOp \subseteq ToSet(schedule[func])
           /\ ToSet(schedule[func]) \subseteq DOMAIN ops
           /\ IsFiniteSet(DOMAIN currentL1UsagePerOp)
           /\ Weights(OutputL1Usage, DOMAIN currentL1UsagePerOp)
<1>1. DOMAIN currentL1UsagePerOp \subseteq ToSet(schedule[func])
  BY DEF BFScheduling, UsageInv
<1>2. ToSet(schedule[func]) \subseteq DOMAIN ops
  BY DEF BFScheduling, ScheduleInv, BlockInv, ToSet
<1>3. ops \in Graphs
  BY DEF BFScheduling, BlockInv
<1>4. IsFiniteSet(DOMAIN ops)
  BY <1>3, GraphFacts, FS_Interval
<1>5. IsFiniteSet(DOMAIN currentL1UsagePerOp)
  BY <1>1, <1>2, <1>4, FS_Subset
<1>6. Weights(OutputL1Usage, DOMAIN currentL1UsagePerOp)
  <2> SUFFICES ASSUME NEW d \in DOMAIN currentL1UsagePerOp PROVE OutputL1Usage[d] \in Nat
    BY DEF Weights
  <2>1. d \in DOMAIN ops /\ hasL1BufferType(d)
    BY <1>1, <1>2 DEF BFScheduling, UsageInv
  <2> QED
    BY <1>3, <2>1, SizeIsNat
<1> QED
  BY <1>1, <1>2, <1>5, <1>6

\* A ready op has all its uses to come.
LEMMA UsesToCome ==
    ASSUME BFScheduling, NEW o \in getScheduleableOps(schedule[func])
    PROVE  \A u \in uses(o) : u[1] \notin ToSet(schedule[func]) \cup {o}
<1> DEFINE D == ToSet(schedule[func])
<1>1. /\ o \notin D /\ isTTSchedulableOp(o) /\ dependencies(o) \subseteq D
      /\ o \in ToSet(block[func])
  BY DEF getScheduleableOps, unscheduledOps, canSchedule
<1>2. o # 0
  BY <1>1, GraphFacts DEF BFScheduling, BlockInv, ScheduleInv
<1> SUFFICES ASSUME NEW u \in uses(o) PROVE u[1] \notin D \cup {o}
  OBVIOUS
<1>3. o \in operands(u[1])
  BY DEF uses, operands, ToSet
<1>4. o \in dependencies(u[1])
  BY <1>1, <1>2, <1>3 DEF dependencies
<1> QED
  BY <1>1, <1>4 DEF BFScheduling, DependenciesInv

\* One round: the uses by the op are taken off, results without further uses are
\* freed, and the op itself goes to L1 if it fits.
LEMMA LeastChangeKeeps ==
    ASSUME ResultsAreUsed, BFScheduling, scheduleLeastChange
    PROVE  BFScheduling'
<1> DEFINE l == l1ChainConfigs
           s == schedule[func]
           D == ToSet(s)
           E == DOMAIN currentL1UsagePerOp
           C == ToSet(lastChain.ops)
<1>1. PICK o \in leastChange(getScheduleableOps(s)) :
        LET freed == {d \in analyzableOperands(o) : usersLeft(d) = timesUsedBy(o, d)}
        IN  /\ currentL1UsagePerOp' =
                 [d \in (E \ freed) \cup allocated(o) |->
                    IF d = o THEN opL1MemUsage(o)
                    ELSE [currentL1UsagePerOp[d] EXCEPT
                            !.numOfUnscheduledUsers = @ - timesUsedBy(o, d)]]
            /\ currentL1Usage' =
                 sub(currentL1Usage + (IF fitsL1(o) THEN OutputL1Usage[o] ELSE 0),
                     sumUsage(freed))
            /\ l' = IF fitsL1(o)
                    THEN [addOpL1MemSpec(o) EXCEPT ![Len(l)].config =
                            Append(@, L1Interleaved)]
                    ELSE l
            /\ scheduleOp(o)
  BY DEF scheduleLeastChange
<1> DEFINE freed == {d \in analyzableOperands(o) : usersLeft(d) = timesUsedBy(o, d)}
           A == allocated(o)
<1>2. UNCHANGED <<graphvars, func>> /\ phase' = "schedule"
  BY DEF scheduleLeastChange
<1>3. o \in getScheduleableOps(s) /\ o \in unscheduledOps(s) /\ o \notin D
  BY <1>1 DEF leastChange, getScheduleableOps, unscheduledOps
<1>4. BlockInv /\ ScheduleInv /\ ChainsInv /\ UsageInv /\ ops \in Graphs
  BY DEF BFScheduling, BlockInv
<1>5. /\ BlockInv' /\ ScheduleInv' /\ o \in Nat /\ o \in DOMAIN ops /\ s \in Seq(Nat)
      /\ schedule'[func] = Append(s, o)
  BY <1>1, <1>2, <1>3, <1>4, ScheduleKeeps
<1>6. \A x : x \in ToSet(schedule[func])' <=> x \in D \/ x = o
  BY <1>2, <1>5, AppendedSet
<1>7. ToSet(schedule[func])' = D \cup {o}
  BY <1>6
<1>8. ops' = ops /\ func' = func
  BY <1>2 DEF graphvars
<1>9. \A d : usesLeft(d)' = usesOutside(d, D \cup {o})
  BY <1>7, <1>8 DEF usesLeft, usesOutside, uses
<1>10. \A d : usesLeft(d) = usesOutside(d, D)
  BY DEF usesLeft
<1>11. E \subseteq D /\ D \subseteq DOMAIN ops /\ IsFiniteSet(E) /\ Weights(OutputL1Usage, E)
  BY EntriesFacts
<1>12. \A d : /\ Cardinality(usesLeft(d)) \in Nat /\ timesUsedBy(o, d) \in Nat
              /\ Cardinality(usesLeft(d)') = Cardinality(usesLeft(d)) - timesUsedBy(o, d)
              /\ usesLeft(d)' = {} <=> Cardinality(usesLeft(d)) = timesUsedBy(o, d)
  <2> TAKE d
  <2>1. ops \in Graphs /\ o \notin D
    BY <1>3, <1>4
  <2> HIDE DEF D
  <2>2. /\ Cardinality(usesOutside(d, D)) \in Nat /\ timesUsedBy(o, d) \in Nat
        /\ Cardinality(usesOutside(d, D \cup {o})) =
             Cardinality(usesOutside(d, D)) - timesUsedBy(o, d)
        /\ usesOutside(d, D \cup {o}) = {} <=>
             Cardinality(usesOutside(d, D)) = timesUsedBy(o, d)
    BY <2>1, UsesTakenOff
  <2>3. usesLeft(d)' = usesOutside(d, D \cup {o})
    BY <1>9
  <2>4. usesLeft(d) = usesOutside(d, D)
    BY <1>10
  <2> DEFINE p == usesLeft(d)'
             q == usesLeft(d)
  <2>5. /\ Cardinality(q) \in Nat /\ timesUsedBy(o, d) \in Nat
        /\ Cardinality(p) = Cardinality(q) - timesUsedBy(o, d)
        /\ p = {} <=> Cardinality(q) = timesUsedBy(o, d)
    <3> HIDE DEF p, q
    <3>1. p = usesOutside(d, D \cup {o}) /\ q = usesOutside(d, D)
      BY <2>3, <2>4 DEF p, q
    <3> QED
      BY <2>2, <3>1
  <2> QED
    BY <2>5
<1>13. \A d \in E : /\ hasL1BufferType(d) /\ usesLeft(d) # {}
                    /\ usersLeft(d) = Cardinality(usesLeft(d))
                    /\ usageOf(d) = OutputL1Usage[d]
  <2> TAKE d \in E
  <2> DEFINE n == Cardinality(usesLeft(d))
  <2>1. hasL1BufferType(d) /\ usesLeft(d) # {}
    BY <1>4 DEF UsageInv
  <2>2. currentL1UsagePerOp[d] = [l1MemUsagePerUser |-> OutputL1Usage[d],
                                  numOfUnscheduledUsers |-> n]
    BY <1>4 DEF UsageInv
  <2> HIDE DEF n
  <2>3. usersLeft(d) = n /\ usageOf(d) = OutputL1Usage[d]
    BY <2>2 DEF usersLeft, usageOf
  <2> QED
    BY <2>1, <2>3 DEF n
<1>14. freed = {d \in E : usesLeft(d)' = {}}
  <2>1. \A d \in freed : d \in E /\ usesLeft(d)' = {}
    BY <1>12, <1>13, HasL1IsAnalyzable DEF analyzableOperands
  <2>2. ASSUME NEW d \in E, usesLeft(d)' = {} PROVE d \in freed
    <3>1. PICK u \in uses(d) : u[1] = o
      BY <2>2, <1>9, <1>10, <1>13 DEF usesOutside
    <3>2. d \in operands(o)
      BY <3>1 DEF uses, operands, ToSet
    <3> QED
      BY <2>2, <3>2, <1>12, <1>13, HasL1IsAnalyzable DEF analyzableOperands
  <2> QED
    BY <2>1, <2>2
<1>15. freed \subseteq E
  BY <1>14
<1> HIDE DEF freed
<1>16. \A x : x \in A <=> x = o /\ fitsL1(o)
  BY DEF allocated
<1>17. fitsL1(o) => /\ hasL1BufferType(o) /\ usesLeft(o)' # {} /\ usesLeft(o)' = uses(o)
                    /\ currentL1Usage + OutputL1Usage[o] <= AvailableL1CacheSize
  <2> SUFFICES ASSUME fitsL1(o)
               PROVE  /\ hasL1BufferType(o) /\ usesLeft(o)' # {} /\ usesLeft(o)' = uses(o)
                      /\ currentL1Usage + OutputL1Usage[o] <= AvailableL1CacheSize
    OBVIOUS
  <2>1. hasL1BufferType(o) /\ currentL1Usage + OutputL1Usage[o] <= AvailableL1CacheSize
    BY DEF fitsL1
  <2>2. PICK c \in DOMAIN ops : \E i \in DOMAIN ops[c].ins : ops[c].ins[i] = o
    BY <2>1, <1>4, <1>5, HasL1Kind DEF ResultsAreUsed
  <2>3. uses(o) # {}
    <3>1. PICK i \in DOMAIN ops[c].ins : ops[c].ins[i] = o
      BY <2>2
    <3>2. <<c, i>> \in uses(o)
      BY <2>2, <3>1 DEF uses
    <3> QED
      BY <3>2
  <2>4. usesLeft(o)' = uses(o)
    BY <1>3, <1>9, UsesToCome DEF usesOutside
  <2> QED
    BY <2>1, <2>3, <2>4
<1>18. ChainsInv' /\ \A x : x \in ToSet(lastChain.ops)' <=> x \in C \/ x \in A
  <2>1. ChainList(l) /\ Len(l) > 0
    BY <1>4, ListInv DEF BFScheduling, ChainsInv
  <2>2. CASE fitsL1(o)
    <3> DEFINE v == L1Interleaved
    <3>1. l' = [[l EXCEPT ![Len(l)].ops = Append(@, o)] EXCEPT ![Len(l)].config = Append(@, v)]
      BY <1>1, <2>2 DEF addOpL1MemSpec
    <3> HIDE DEF v
    <3>2. ChainList(l') /\ Len(l') = Len(l) /\ l'[Len(l)].ops = Append(l[Len(l)].ops, o)
      BY <1>5, <2>1, <3>1, ChainWithL1Op
    <3>3. ChainsInv'
      BY <2>1, <3>2 DEF ChainList, ChainsInv
    <3>4. l[Len(l)].ops \in Seq(Nat)
      BY <2>1, FrontChain DEF ChainList, isChain
    <3>5. \A x : x \in ToSet(Append(l[Len(l)].ops, o)) <=> x \in C \/ x = o
      BY <1>5, <3>4, AppendedSet DEF lastChain
    <3>6. lastChain'.ops = Append(l[Len(l)].ops, o)
      BY <3>2 DEF lastChain
    <3> QED
      BY <2>2, <3>3, <3>5, <3>6, <1>16
  <2>3. CASE ~fitsL1(o)
    <3>1. l' = l
      BY <1>1, <2>3
    <3>2. ChainsInv'
      BY <3>1, <1>2, <1>4 DEF ChainsInv, BFScheduling
    <3> QED
      BY <2>3, <3>1, <3>2, <1>16 DEF lastChain
  <2> QED
    BY <2>2, <2>3
<1>19. DependenciesInv'
  <2>1. \A x : dependencies(x)' = dependencies(x)
    BY <1>8 DEF dependencies, operands, isTTSchedulableOp, Kind
  <2>2. dependencies(o) \subseteq D
    BY <1>3 DEF getScheduleableOps, canSchedule
  <2>3. \A x \in D : dependencies(x) \subseteq D
    BY DEF BFScheduling, DependenciesInv
  <2> QED
    BY <1>7, <2>1, <2>2, <2>3 DEF DependenciesInv
<1>20. UsageInv'
  <2> DEFINE E2 == (E \ freed) \cup A
  <2>1. C \subseteq D /\ E = {d \in C : usesLeft(d) # {}}
    BY <1>4 DEF UsageInv
  <2>2. DOMAIN currentL1UsagePerOp' = E2
    BY <1>1 DEF freed
  <2>3. ToSet(lastChain.ops)' \subseteq ToSet(schedule[func])'
    BY <1>7, <1>16, <1>18, <2>1
  <2>4. \A d : usesLeft(d) = {} => usesLeft(d)' = {}
    BY <1>9, <1>10 DEF usesOutside
  <2>5. E2 = {d \in ToSet(lastChain.ops)' : usesLeft(d)' # {}}
    <3>1. ASSUME NEW d \in E2 PROVE d \in ToSet(lastChain.ops)' /\ usesLeft(d)' # {}
      BY <1>14, <1>16, <1>17, <1>18, <2>1
    <3>2. ASSUME NEW d \in ToSet(lastChain.ops)', usesLeft(d)' # {} PROVE d \in E2
      BY <3>2, <1>14, <1>18, <2>1, <2>4
    <3> QED
      BY <3>1, <3>2
  <2>6. \A d \in E : d # o
    BY <1>3, <1>11
  <2>7. \A d : hasL1BufferType(d)' <=> hasL1BufferType(d)
    BY <1>8 DEF hasL1BufferType, interleavedConfigs, Kind
  <2>8. ASSUME NEW d \in E2
        PROVE  /\ hasL1BufferType(d)
               /\ currentL1UsagePerOp'[d] =
                    [l1MemUsagePerUser |-> OutputL1Usage[d],
                     numOfUnscheduledUsers |-> Cardinality(usesLeft(d)')]
    <3>1. CASE d \in E
      <4>1. d # o
        BY <2>6, <3>1
      <4>2. currentL1UsagePerOp'[d] = [currentL1UsagePerOp[d] EXCEPT
                 !.numOfUnscheduledUsers = @ - timesUsedBy(o, d)]
        BY <1>1, <4>1 DEF freed
      <4> DEFINE n == Cardinality(usesLeft(d))
                 t == timesUsedBy(o, d)
      <4>3. currentL1UsagePerOp[d] = [l1MemUsagePerUser |-> OutputL1Usage[d],
                                      numOfUnscheduledUsers |-> n]
        BY <3>1, <1>4 DEF UsageInv
      <4>4. Cardinality(usesLeft(d)') = n - t
        BY <1>12
      <4> HIDE DEF n, t
      <4>5. currentL1UsagePerOp'[d] = [l1MemUsagePerUser |-> OutputL1Usage[d],
                                       numOfUnscheduledUsers |-> n - t]
        BY <4>2, <4>3 DEF t
      <4> QED
        BY <3>1, <4>4, <4>5, <1>13
    <3>2. CASE d \notin E
      <4>1. d = o /\ fitsL1(o)
        BY <3>2, <1>16
      <4>2. currentL1UsagePerOp'[d] = opL1MemUsage(o)
        BY <1>1, <4>1 DEF freed
      <4> QED
        BY <4>1, <4>2, <1>17 DEF opL1MemUsage, numOfUsers
    <3> QED
      BY <3>1, <3>2
  <2>9. currentL1Usage' = total(OutputL1Usage, E2) /\ currentL1Usage' <= AvailableL1CacheSize
    <3> DEFINE w == OutputL1Usage
               a == IF fitsL1(o) THEN OutputL1Usage[o] ELSE 0
               tf == total(w, freed)
               tr == total(w, E \ freed)
    <3>1. IsFiniteSet(freed)
      BY <1>11, <1>15, FS_Subset
    <3>2. sumUsage(freed) = tf
      <4>1. \A d \in freed : usageOf(d) = w[d]
        BY <1>13, <1>15
      <4> QED
        BY <3>1, <4>1, SumUsageIsTotal
    <3>3. /\ tf \in Nat /\ tr \in Nat /\ currentL1Usage = tf + tr
          /\ currentL1Usage <= AvailableL1CacheSize
      BY <1>4, <1>11, <1>15, TotalSplit DEF UsageInv
    <3>4. a \in Nat /\ currentL1Usage + a <= AvailableL1CacheSize
      <4>1. CASE fitsL1(o)
        BY <4>1, <1>4, <1>5, <1>17, SizeIsNat
      <4>2. CASE ~fitsL1(o)
        BY <4>2, <3>3
      <4> QED
        BY <4>1, <4>2
    <3>5. total(w, E2) = a + tr
      <4>1. CASE fitsL1(o)
        <5>1. o \in E2 /\ E2 \ {o} = E \ freed
          BY <4>1, <1>16, <2>6
        <5>2. E2 \subseteq DOMAIN ops
          BY <1>5, <1>11, <1>16
        <5>3. IsFiniteSet(DOMAIN ops)
          BY <1>4, GraphFacts, FS_Interval
        <5>4. IsFiniteSet(E2)
          BY <5>2, <5>3, FS_Subset
        <5>5. Weights(w, E2)
          BY <1>4, <2>8, <5>2, SizeIsNat DEF Weights
        <5> HIDE DEF E2
        <5>6. total(w, E2) = w[o] + total(w, E2 \ {o})
          BY <5>1, <5>4, <5>5, TotalRemove
        <5> QED
          BY <4>1, <5>1, <5>6
      <4>2. CASE ~fitsL1(o)
        <5>1. E2 = E \ freed
          BY <4>2, <1>16
        <5>2. a = 0
          BY <4>2
        <5> HIDE DEF E2, a
        <5> QED
          BY <5>1, <5>2, <3>3
      <4> QED
        BY <4>1, <4>2
    <3>6. currentL1Usage' = sub(currentL1Usage + a, tf)
      BY <1>1, <3>2 DEF freed
    <3> HIDE DEF a, tf, tr
    <3> DEFINE b == currentL1Usage + a
    <3>7. /\ b \in Nat /\ tf <= b /\ b - tf = a + tr /\ AvailableL1CacheSize \in Nat
          /\ b - tf <= AvailableL1CacheSize
      BY <3>3, <3>4, WordFacts
    <3> HIDE DEF b
    <3>8. sub(b, tf) = b - tf
      BY <3>3, <3>7, WordFacts
    <3> QED
      BY <3>5, <3>6, <3>7, <3>8 DEF b
  <2> HIDE DEF E2
  <2>10. /\ DOMAIN currentL1UsagePerOp' =
               {d \in ToSet(lastChain.ops)' : usesLeft(d)' # {}}
         /\ currentL1Usage' = total(OutputL1Usage, DOMAIN currentL1UsagePerOp')
    BY <2>2, <2>5, <2>9
  <2> QED
    BY <2>2, <2>3, <2>7, <2>8, <2>9, <2>10 DEF UsageInv
<1> QED
  BY <1>2, <1>5, <1>18, <1>19, <1>20 DEF BFScheduling

\* Closing the chains of a function keeps them chains.
LEMMA CompletedList ==
    ASSUME NEW l, ChainList(l)
    PROVE  ChainList([i \in DOMAIN l |-> [resolve(build(l[i])) EXCEPT !.state = "Completed"]])
<1> DEFINE v == "Completed"
           v1 == "Built"
           v2 == "Resolved"
           c(i) == [resolve(build(l[i])) EXCEPT !.state = v]
           m == [i \in DOMAIN l |-> c(i)]
<1>1. ASSUME NEW i \in DOMAIN l PROVE isChain(c(i))
  <2>1. isChain(l[i])
    BY DEF ChainList
  <2>2. build(l[i]) = [l[i] EXCEPT !.state = v1]
    BY DEF build
  <2>3. resolve(build(l[i])) = [build(l[i]) EXCEPT !.state = v2]
    BY DEF resolve
  <2> HIDE DEF v, v1, v2
  <2>4. isChain(build(l[i]))
    BY <2>1, <2>2, ChainInState
  <2>5. isChain(resolve(build(l[i])))
    BY <2>3, <2>4, ChainInState
  <2> QED
    BY <2>5, ChainInState
<1> HIDE DEF c
<1>2. Len(l) \in Nat /\ DOMAIN l = 1 .. Len(l)
  BY DEF ChainList
<1>3. m \in [1 .. Len(l) -> ToSet(m)]
  BY <1>2 DEF ToSet
<1>4. m \in Seq(ToSet(m))
  BY <1>2, <1>3, SeqDef
<1>5. ChainList(m)
  BY <1>1, <1>4 DEF ChainList
<1> QED
  BY <1>5 DEF c

\* The next function starts with no entry and no usage.
LEMMA FinishFuncKeeps ==
    ASSUME BFScheduling, finishFunc, phase' = "schedule"
    PROVE  BFScheduling'
<1> DEFINE l == l1ChainConfigs
           m == [i \in DOMAIN l |-> [resolve(build(l[i])) EXCEPT !.state = "Completed"]]
           left == {o \in DOMAIN currentL1UsagePerOp : usersLeft(o) # returnUsers(o)}
<1>1. ops' = ops /\ block' = block /\ schedule' = schedule
  BY DEF finishFunc, graphvars
<1>2. /\ left = {} /\ currentL1UsagePerOp' = [o \in left |-> currentL1UsagePerOp[o]]
      /\ currentL1Usage' = 0 /\ func + 1 \in Funcs /\ func' = func + 1
      /\ l' = m \o <<NewChain>>
  <2>1. /\ phase = "schedule"
        /\ \/ phase' = "abort"
           \/ /\ left = {} /\ currentL1Usage' = 0
              /\ phase' = IF func + 1 \in Funcs THEN "schedule" ELSE "apply"
    BY DEF finishFunc
  <2>2. left = {} /\ currentL1Usage' = 0 /\ func + 1 \in Funcs
    BY <2>1
  <2> QED
    BY <2>2 DEF finishFunc
<1>3. DOMAIN currentL1UsagePerOp' = {}
  BY <1>2
<1>4. Funcs' = Funcs /\ BlockInv'
  BY <1>1 DEF BFScheduling, BlockInv, Funcs
<1>5. func \in Funcs /\ Funcs \subseteq Nat
  BY GraphFacts DEF BFScheduling, BlockInv, ScheduleInv
<1>6. schedule[func + 1] = <<>>
  BY <1>2, <1>5 DEF BFScheduling, ScheduleInv
<1>7. ScheduleInv'
  <2>1. \A f \in Funcs : f > func + 1 => f > func
    BY <1>5
  <2> QED
    BY <1>1, <1>2, <1>4, <2>1 DEF BFScheduling, ScheduleInv
<1>8. ChainList(m)
  BY ListInv, CompletedList DEF BFScheduling
<1> HIDE DEF m
<1>9. l' = Append(m, NewChain)
  <2> DEFINE T == ToSet(m) \cup {NewChain}
  <2>1. m \in Seq(T) /\ NewChain \in T
    BY <1>8 DEF ChainList, ToSet
  <2> HIDE DEF T
  <2> QED
    BY <1>2, <2>1, AppendIsConcat
<1>10. /\ ChainList(l') /\ Len(l') = Len(m) + 1 /\ Len(m) \in Nat
       /\ l'[Len(m) + 1] = NewChain
  BY <1>8, <1>9, NewChainFacts, AppendChain
<1>11. Len(l') > 0 /\ lastChain' = NewChain
  BY <1>10 DEF lastChain
<1>12. ChainsInv'
  BY <1>10, <1>11 DEF ChainList, ChainsInv
<1>13. ToSet(lastChain.ops)' = {} /\ ToSet(schedule[func])' = {}
  BY <1>1, <1>2, <1>6, <1>11, NewChainFacts DEF ToSet
<1>14. DependenciesInv'
  BY <1>13 DEF DependenciesInv
<1>15. UsageInv'
  <2>1. total(OutputL1Usage, {}) = 0
    BY TotalEmpty
  <2>2. currentL1Usage' <= AvailableL1CacheSize
    BY <1>2, WordFacts
  <2> QED
    BY <1>2, <1>3, <1>13, <2>1, <2>2 DEF UsageInv
<1> QED
  BY <1>4, <1>7, <1>12, <1>14, <1>15 DEF BFScheduling

\* Nothing is in L1 at first.
LEMMA InitBFInv == Init => BFInv
<1> SUFFICES ASSUME Init PROVE BFInv
  OBVIOUS
<1>1. BlockInv
  BY BlockInit DEF Init
<1>2. ops \in Graphs /\ 1 \in Funcs /\ Funcs \subseteq Nat
  BY <1>1, GraphFacts DEF BlockInv
<1>3. func = 1 /\ schedule = [f \in Funcs |-> <<>>]
  BY DEF Init, InitScheduler
<1>4. ScheduleInv
  BY <1>2, <1>3 DEF ScheduleInv
<1>5. l1ChainConfigs = <<NewChain>> /\ currentL1UsagePerOp = NoEntries /\ currentL1Usage = 0
  BY DEF Init, InitChains, InitBF
<1>6. /\ l1ChainConfigs \in Seq(ToSet(l1ChainConfigs)) /\ DOMAIN l1ChainConfigs = {1}
      /\ l1ChainConfigs[1] = NewChain /\ Len(l1ChainConfigs) = 1
  BY <1>5 DEF ToSet
<1>7. ChainsInv
  BY <1>6, NewChainFacts DEF ChainsInv
<1>8. ToSet(lastChain.ops) = {} /\ ToSet(schedule[func]) = {}
  BY <1>2, <1>3, <1>6, NewChainFacts DEF lastChain, ToSet
<1>9. DependenciesInv
  BY <1>8 DEF DependenciesInv
<1>10. DOMAIN currentL1UsagePerOp = {}
  BY <1>5 DEF NoEntries
<1>11. UsageInv
  BY <1>5, <1>8, <1>10, TotalEmpty, WordFacts DEF UsageInv
<1> QED
  BY <1>1, <1>4, <1>7, <1>9, <1>11 DEF BFInv

\* Every step keeps the invariant of the breadth first policy.
LEMMA StepBF == ResultsAreUsed /\ BFInv /\ [Next]_vars => BFInv'
<1> SUFFICES ASSUME ResultsAreUsed, BFInv, [Next]_vars,
                    policy' = "BFInterleaved", phase' = "schedule"
             PROVE  BFScheduling'
  BY DEF BFInv, BFScheduling
<1>1. CASE UNCHANGED vars
  <2>1. /\ ops' = ops /\ block' = block /\ func' = func /\ schedule' = schedule
        /\ l1ChainConfigs' = l1ChainConfigs /\ phase' = phase /\ policy' = policy
        /\ currentL1UsagePerOp' = currentL1UsagePerOp /\ currentL1Usage' = currentL1Usage
    BY <1>1 DEF vars, dfvars, bfvars, graphvars, schedvars, chainvars, optvars
  <2>2. BFScheduling
    BY <2>1 DEF BFInv, BFScheduling
  <2>3. Funcs' = Funcs /\ lastChain' = lastChain
        /\ (\A x : usesLeft(x)' = usesLeft(x) /\ dependencies(x)' = dependencies(x))
        /\ (\A x : hasL1BufferType(x)' <=> hasL1BufferType(x))
    BY <2>1 DEF Funcs, lastChain, usesLeft, usesOutside, uses, dependencies, operands,
                isTTSchedulableOp, hasL1BufferType, interleavedConfigs, Kind
  <2>4. BlockInv' /\ ScheduleInv' /\ ChainsInv'
    BY <2>1, <2>2, <2>3 DEF BFScheduling, BlockInv, ScheduleInv, ChainsInv
  <2>5. DependenciesInv'
    BY <2>1, <2>2, <2>3 DEF BFScheduling, DependenciesInv
  <2>6. UsageInv'
    BY <2>1, <2>2, <2>3 DEF BFScheduling, UsageInv
  <2> QED
    BY <2>1, <2>2, <2>4, <2>5, <2>6 DEF BFScheduling
<1>2. CASE DFSharding
  BY <1>2 DEF DFSharding, optvars
<1>3. CASE BFInterleaved
  <2>1. policy = "BFInterleaved" /\ BFNext /\ phase = "schedule"
    BY <1>3 DEF BFInterleaved, BFNext, scheduleLeastChange, finishFunc
  <2>2. BFScheduling
    BY <2>1 DEF BFInv, BFScheduling
  <2> QED
    BY <2>1, <2>2, LeastChangeKeeps, FinishFuncKeeps DEF BFNext
<1>4. CASE GreedyL1Interleaved
  BY <1>4 DEF GreedyL1Interleaved, optvars
<1>5. CASE applyAnalysis
  BY <1>5 DEF applyAnalysis
<1>6. CASE processMemReconfigEdges
  BY <1>6 DEF processMemReconfigEdges
<1>7. CASE processSpillOp
  BY <1>7 DEF processSpillOp, chainvars
<1>8. CASE setFuncType
  BY <1>8 DEF setFuncType
<1>9. CASE Finished
  BY <1>1, <1>9 DEF Finished
<1> QED
  BY <1>1, <1>2, <1>3, <1>4, <1>5, <1>6, <1>7, <1>8, <1>9 DEF Next, apply

\* BFInterleavedPolicy frees a result by counting down its uses, an op that uses
\* it twice included, in unsigned arithmetic: its running usage is the size of
\* the results in L1 with a use to come, and never above the budget, in every
\* module whose results are used and whatever order the ready ops have.
THEOREM UsageStaysExact == ResultsAreUsed => (Spec => []L1UsageExact)
<1> SUFFICES ASSUME ResultsAreUsed PROVE Spec => []L1UsageExact
  OBVIOUS
<1>1. BFInv /\ [Next]_vars => BFInv'
  BY StepBF
<1>2. BFInv => L1UsageExact
  <2> SUFFICES ASSUME BFInv, policy = "BFInterleaved", phase = "schedule"
               PROVE  L1UsageExact
    BY DEF L1UsageExact
  <2> DEFINE D == ToSet(schedule[func])
             live == {o \in ToSet(lastChain.ops) : \E u \in uses(o) : u[1] \notin D}
  <2>1. UsageInv
    BY DEF BFInv
  <2>2. DOMAIN currentL1UsagePerOp = live
    BY <2>1 DEF UsageInv, usesLeft, usesOutside
  <2>3. currentL1Usage = total(OutputL1Usage, live) /\ currentL1Usage <= AvailableL1CacheSize
    BY <2>1, <2>2 DEF UsageInv
  <2> HIDE DEF live
  <2>4. currentL1Usage = FoldSet(LAMBDA o, n : OutputL1Usage[o] + n, 0, live)
    BY <2>3 DEF total
  <2> QED
    BY <2>3, <2>4 DEF L1UsageExact, live
<1> QED
  BY <1>1, <1>2, InitBFInv, PTL DEF Spec

-----------------------------------------------------------------------------
(* The types of the functions: what a rewrite leaves                       *)

\* An op is a record.
isOp(r) == r = [func |-> r.func, kind |-> r.kind, ins |-> r.ins, layout |-> r.layout]

\* A return of the function.
isReturnOf(f, o) == ops[o].func = f /\ Kind(o) = "return"

\* A return reads the value.
returned(o) == \E r \in DOMAIN ops : Kind(r) = "return" /\ o \in operands(r)

\* Functions have one return each, of values of their own.
ModuleInv ==
    /\ ops \in Seq(ToSet(ops))
    /\ \A o \in DOMAIN ops : isOp(ops[o])
    /\ \E m \in Nat : Funcs = 1 .. m
    /\ \A f \in Funcs : \E t \in DOMAIN ops :
         \A o \in DOMAIN ops : isReturnOf(f, o) <=> o = t
    /\ \A r \in DOMAIN ops : Kind(r) = "return" =>
         \A d \in operands(r) : d = 0 \/ (d \in DOMAIN ops /\ ops[d].func = ops[r].func)

\* The new ops are the old ones with other layouts and operands, and more
\* to_layout ops; the returns stay.
KeepsReturns(new) ==
    /\ new \in Seq(ToSet(new))
    /\ \A o \in DOMAIN new : isOp(new[o])
    /\ DOMAIN ops \subseteq DOMAIN new
    /\ \A o \in DOMAIN ops :
         /\ new[o].func = ops[o].func
         /\ new[o].kind = ops[o].kind
         /\ Kind(o) = "return" => new[o].ins = ops[o].ins
    /\ \A o \in DOMAIN new \ DOMAIN ops : new[o].kind = "to_layout" /\ new[o].func \in Funcs

\* A reshard on the edge does not touch what is returned.
edgeFine(e) ==
    /\ e[2] \in DOMAIN ops
    /\ Kind(e[2]) # "return"
    /\ e[1] # 0 /\ Kind(e[1]) = "to_layout" => ~returned(e[1])

\* A spill behind the op does not touch it either.
opFine(o) == o \in DOMAIN ops /\ ~returned(o)

\* The layouts of the values the function returns.
returnedNow(f) ==
    [i \in DOMAIN ops[terminator(f)].ins |-> operandLayout(terminator(f), i)]

\* The terminator is the return.
LEMMA TerminatorFacts ==
    ASSUME ModuleInv, NEW f \in Funcs
    PROVE  /\ terminator(f) \in DOMAIN ops /\ isReturnOf(f, terminator(f))
           /\ \A o \in DOMAIN ops : isReturnOf(f, o) => o = terminator(f)
<1>1. PICK t \in DOMAIN ops : \A o \in DOMAIN ops : isReturnOf(f, o) <=> o = t
  BY DEF ModuleInv
<1>2. terminator(f) = CHOOSE o \in DOMAIN ops : isReturnOf(f, o)
  BY DEF terminator, isReturnOf
<1>3. terminator(f) = t
  BY <1>1, <1>2
<1> QED
  BY <1>1, <1>3

\* DOMAIN ops is an interval.
LEMMA OpsDomain ==
    ASSUME ModuleInv
    PROVE  DOMAIN ops = 1 .. Len(ops) /\ Len(ops) \in Nat /\ 0 \notin DOMAIN ops
<1>1. DOMAIN ops = 1 .. Len(ops) /\ Len(ops) \in Nat
  BY DEF ModuleInv
<1> QED
  BY <1>1

\* A returned value is an argument or an op.
LEMMA ReturnedIsOp ==
    ASSUME ModuleInv, NEW o, returned(o), o # 0
    PROVE  o \in DOMAIN ops
BY DEF ModuleInv, returned

\* So the functions, their terminators and the returned values stay.
LEMMA ReturnsStay ==
    ASSUME ModuleInv, KeepsReturns(ops')
    PROVE  /\ ModuleInv' /\ Funcs' = Funcs
           /\ \A f \in Funcs : /\ terminator(f)' = terminator(f)
                               /\ ops'[terminator(f)].ins = ops[terminator(f)].ins
           /\ \A o : returned(o)' <=> returned(o)
           /\ \A e : edgeFine(e) => edgeFine(e)'
           /\ \A o : opFine(o) => opFine(o)'
<1>1. Funcs' = Funcs
  BY DEF KeepsReturns, Funcs
<1>2. ASSUME NEW o \in DOMAIN ops' PROVE Kind(o)' = "return" <=> o \in DOMAIN ops /\ Kind(o) = "return"
  BY DEF KeepsReturns, Kind
<1>3. ASSUME NEW f, NEW o \in DOMAIN ops'
      PROVE  isReturnOf(f, o)' <=> o \in DOMAIN ops /\ isReturnOf(f, o)
  BY <1>2 DEF KeepsReturns, isReturnOf
<1>4. \A o \in DOMAIN ops : o \in DOMAIN ops' /\ Kind(o)' = Kind(o) /\ ops'[o].func = ops[o].func
  BY DEF KeepsReturns, Kind
<1>5. \A r \in DOMAIN ops : Kind(r) = "return" => operands(r)' = operands(r) /\ ops'[r].ins = ops[r].ins
  BY DEF KeepsReturns, operands
<1>6. ASSUME NEW f \in Funcs
      PROVE  \E t \in DOMAIN ops' : \A o \in DOMAIN ops' : isReturnOf(f, o)' <=> o = t
  <2>1. PICK t \in DOMAIN ops : \A o \in DOMAIN ops : isReturnOf(f, o) <=> o = t
    BY DEF ModuleInv
  <2> QED
    BY <1>3, <1>4, <2>1
<1>7. ASSUME NEW r \in DOMAIN ops', Kind(r)' = "return", NEW d \in operands(r)'
      PROVE  d = 0 \/ (d \in DOMAIN ops' /\ ops'[d].func = ops'[r].func)
  <2>1. r \in DOMAIN ops /\ Kind(r) = "return" /\ d \in operands(r)
    BY <1>2, <1>5, <1>7
  <2> QED
    BY <2>1, <1>4 DEF ModuleInv
<1>8. ModuleInv'
  BY <1>1, <1>6, <1>7 DEF ModuleInv, KeepsReturns
<1>9. ASSUME NEW o PROVE returned(o)' <=> returned(o)
  BY <1>2, <1>4, <1>5 DEF returned
<1>10. ASSUME NEW f \in Funcs
       PROVE  /\ terminator(f)' = terminator(f)
              /\ ops'[terminator(f)].ins = ops[terminator(f)].ins
  <2>1. PICK t \in DOMAIN ops : t = terminator(f) /\ isReturnOf(f, t)
    BY TerminatorFacts
  <2>2. t \in DOMAIN ops' /\ isReturnOf(f, t)'
    BY <1>3, <1>4, <2>1
  <2>3. \A o \in DOMAIN ops' : isReturnOf(f, o)' => o = t
    BY <1>3, <2>1, TerminatorFacts
  <2>4. terminator(f)' = CHOOSE o \in DOMAIN ops' : isReturnOf(f, o)'
    BY DEF terminator, isReturnOf
  <2>5. terminator(f)' = t
    BY <2>2, <2>3, <2>4
  <2> QED
    BY <2>1, <2>5, <1>5 DEF isReturnOf
<1>11. ASSUME NEW e, edgeFine(e) PROVE edgeFine(e)'
  <2>1. e[2] \in DOMAIN ops' /\ Kind(e[2])' # "return"
    BY <1>4, <1>11 DEF edgeFine
  <2>2. ASSUME e[1] # 0, Kind(e[1])' = "to_layout", returned(e[1])' PROVE FALSE
    <3>1. returned(e[1]) /\ e[1] \in DOMAIN ops
      BY <1>9, <2>2, ReturnedIsOp
    <3> QED
      BY <3>1, <1>4, <2>2, <1>11 DEF edgeFine
  <2> QED
    BY <2>1, <2>2 DEF edgeFine
<1>12. ASSUME NEW o, opFine(o) PROVE opFine(o)'
  BY <1>4, <1>9, <1>12 DEF opFine
<1> QED
  BY <1>1, <1>8, <1>9, <1>10, <1>11, <1>12

\* What a function returns keeps its layouts.
LEMMA TypesStay ==
    ASSUME ModuleInv, KeepsReturns(ops'), NEW f \in Funcs,
           \A o \in DOMAIN ops : ops[o].func = f /\ returned(o) =>
             ops'[o].layout = ops[o].layout
    PROVE  returnedNow(f)' = returnedNow(f)
<1> DEFINE t == terminator(f)
<1>1. t' = t /\ ops'[t].ins = ops[t].ins
  BY ReturnsStay
<1>2. t \in DOMAIN ops /\ ops[t].func = f /\ Kind(t) = "return"
  BY TerminatorFacts DEF isReturnOf
<1> HIDE DEF t
<1>3. ASSUME NEW i \in DOMAIN ops[t].ins
      PROVE  operandLayout(t, i)' = operandLayout(t, i)
  <2> DEFINE d == ops[t].ins[i]
  <2>1. d \in operands(t)
    BY DEF operands, ToSet
  <2>2. returned(d)
    BY <1>2, <2>1 DEF returned
  <2>3. d = 0 \/ (d \in DOMAIN ops /\ ops[d].func = f)
    BY <1>2, <2>1 DEF ModuleInv
  <2>4. d = 0 \/ ops'[d].layout = ops[d].layout
    BY <2>2, <2>3
  <2> QED
    BY <1>1, <2>4 DEF operandLayout
<1>4. returnedNow(f) = [i \in DOMAIN ops[t].ins |-> operandLayout(t, i)]
  BY DEF returnedNow, t
<1>5. returnedNow(f)' = [i \in DOMAIN ops'[t].ins |-> operandLayout(t, i)']
  BY <1>1 DEF returnedNow, t
<1> QED
  BY <1>1, <1>3, <1>4, <1>5

\* A sequence of ops.
OpList(l) == l \in Seq(ToSet(l)) /\ \A o \in DOMAIN l : isOp(l[o])

\* A sequence is one of its own elements.
LEMMA OwnElements ==
    ASSUME NEW S, NEW l \in Seq(S)
    PROVE  l \in Seq(ToSet(l)) /\ ToSet(l) \subseteq S
<1>1. Len(l) \in Nat /\ DOMAIN l = 1 .. Len(l) /\ l \in [1 .. Len(l) -> S]
  OBVIOUS
<1>2. l \in [1 .. Len(l) -> ToSet(l)]
  BY <1>1 DEF ToSet
<1>3. l \in Seq(ToSet(l))
  BY <1>1, <1>2, SeqDef
<1> QED
  BY <1>1, <1>3 DEF ToSet

\* An op is appended.
LEMMA AppendOp ==
    ASSUME NEW l, OpList(l), NEW r, isOp(r)
    PROVE  /\ OpList(Append(l, r))
           /\ DOMAIN l \subseteq DOMAIN Append(l, r)
           /\ \A o \in DOMAIN l : Append(l, r)[o] = l[o]
           /\ \A o \in DOMAIN Append(l, r) \ DOMAIN l : Append(l, r)[o] = r
<1> DEFINE T == ToSet(l) \cup {r}
           a == Append(l, r)
<1>1. l \in Seq(T) /\ r \in T
  BY DEF OpList, ToSet
<1> HIDE DEF T
<1>2. /\ a \in Seq(T) /\ Len(l) \in Nat
      /\ DOMAIN a = 1 .. Len(l) + 1 /\ DOMAIN l = 1 .. Len(l)
      /\ a[Len(l) + 1] = r
      /\ \A k \in DOMAIN l : a[k] = l[k]
  BY <1>1
<1> HIDE DEF a
<1>3. a \in Seq(ToSet(a))
  BY <1>2, OwnElements
<1>4. \A k \in DOMAIN a : k \in DOMAIN l \/ k = Len(l) + 1
  BY <1>2
<1>5. \A k \in DOMAIN l : k \in DOMAIN a
  BY <1>2
<1>6. \A k \in DOMAIN a : isOp(a[k])
  BY <1>2, <1>4 DEF OpList
<1> QED
  BY <1>2, <1>3, <1>4, <1>5, <1>6 DEF OpList, a

\* An op is replaced.
LEMMA SetOp ==
    ASSUME NEW l, OpList(l), NEW n, NEW r, isOp(r)
    PROVE  /\ OpList([l EXCEPT ![n] = r])
           /\ DOMAIN [l EXCEPT ![n] = r] = DOMAIN l
           /\ \A o \in DOMAIN l : [l EXCEPT ![n] = r][o] = IF o = n THEN r ELSE l[o]
<1> DEFINE T == ToSet(l) \cup {r}
           a == [l EXCEPT ![n] = r]
<1>1. Len(l) \in Nat /\ DOMAIN l = 1 .. Len(l) /\ \A o \in DOMAIN l : l[o] \in T
  BY DEF OpList, ToSet
<1>2. r \in T
  OBVIOUS
<1>3. /\ DOMAIN a = DOMAIN l
      /\ \A o \in DOMAIN l : a[o] = IF o = n THEN r ELSE l[o]
      /\ a = [o \in DOMAIN l |-> a[o]]
  BY <1>1
<1> HIDE DEF T, a
<1>4. a \in [1 .. Len(l) -> T]
  BY <1>1, <1>2, <1>3
<1>5. a \in Seq(ToSet(a))
  <2>1. a \in Seq(T)
    BY <1>1, <1>4, SeqDef
  <2> QED
    BY <2>1, OwnElements
<1>6. \A o \in DOMAIN a : isOp(a[o])
  BY <1>3 DEF OpList
<1> QED
  BY <1>3, <1>5, <1>6 DEF OpList, a

\* An op with another layout, and one with other operands.
LEMMA OpChanged ==
    ASSUME NEW r, isOp(r), NEW v
    PROVE  /\ isOp([r EXCEPT !.layout = v])
           /\ [r EXCEPT !.layout = v].func = r.func
           /\ [r EXCEPT !.layout = v].kind = r.kind
           /\ [r EXCEPT !.layout = v].ins = r.ins
           /\ isOp([r EXCEPT !.ins = v])
           /\ [r EXCEPT !.ins = v].func = r.func
           /\ [r EXCEPT !.ins = v].kind = r.kind
           /\ [r EXCEPT !.ins = v].layout = r.layout
<1>1. [r EXCEPT !.layout = v] = [func |-> r.func, kind |-> r.kind, ins |-> r.ins, layout |-> v]
  BY DEF isOp
<1>2. [r EXCEPT !.ins = v] = [func |-> r.func, kind |-> r.kind, ins |-> v, layout |-> r.layout]
  BY DEF isOp
<1> QED
  BY <1>1, <1>2 DEF isOp

\* The ops with other operands of c and one more op.
inserted(c, v, r) == Append([ops EXCEPT ![c].ins = v], r)

\* A to_layout is appended and one op, which is no return, reads it.
LEMMA InsertKeeps ==
    ASSUME ModuleInv, NEW c \in DOMAIN ops, Kind(c) # "return", NEW v,
           NEW f \in Funcs, NEW input, NEW layout
    PROVE  /\ KeepsReturns(inserted(c, v, newToLayout(f, input, layout)))
           /\ \A o \in DOMAIN ops :
                inserted(c, v, newToLayout(f, input, layout))[o].layout = ops[o].layout
<1> DEFINE r == [ops[c] EXCEPT !.ins = v]
           l == [ops EXCEPT ![c] = r]
           t == newToLayout(f, input, layout)
<1>1. [ops EXCEPT ![c].ins = v] = l
  OBVIOUS
<1>2. OpList(ops) /\ isOp(ops[c])
  BY DEF ModuleInv, OpList
<1>3. isOp(r) /\ r.func = ops[c].func /\ r.kind = ops[c].kind /\ r.layout = ops[c].layout
  BY <1>2, OpChanged
<1> HIDE DEF r
<1>4. /\ OpList(l) /\ DOMAIN l = DOMAIN ops
      /\ \A o \in DOMAIN ops : l[o] = IF o = c THEN r ELSE ops[o]
  BY <1>2, <1>3, SetOp
<1>5. isOp(t) /\ t.kind = "to_layout" /\ t.func = f
  BY DEF newToLayout, isOp
<1> HIDE DEF l, t
<1> DEFINE more == Append(l, t)
<1>6. /\ OpList(more) /\ DOMAIN ops \subseteq DOMAIN more
      /\ \A o \in DOMAIN ops : more[o] = l[o]
      /\ \A o \in DOMAIN more \ DOMAIN ops : more[o] = t
  BY <1>4, <1>5, AppendOp
<1>7. /\ more \in Seq(ToSet(more)) /\ \A o \in DOMAIN more : isOp(more[o])
      /\ DOMAIN ops \subseteq DOMAIN more
  BY <1>6 DEF OpList
<1> HIDE DEF more
<1>8. \A o \in DOMAIN ops :
        /\ more[o].func = ops[o].func
        /\ more[o].kind = ops[o].kind
        /\ more[o].layout = ops[o].layout
        /\ Kind(o) = "return" => more[o].ins = ops[o].ins
  <2> TAKE o \in DOMAIN ops
  <2>1. CASE o = c
    <3>1. more[c] = r /\ Kind(c) # "return"
      BY <1>4, <1>6
    <3> QED
      BY <1>3, <2>1, <3>1
  <2>2. CASE o # c
    BY <1>4, <1>6, <2>2
  <2> QED
    BY <2>1, <2>2
<1>9. \A o \in DOMAIN more \ DOMAIN ops : more[o].kind = "to_layout" /\ more[o].func \in Funcs
  BY <1>5, <1>6
<1>10. KeepsReturns(more)
  BY <1>7, <1>8, <1>9 DEF KeepsReturns
<1>11. inserted(c, v, newToLayout(f, input, layout)) = more
  BY <1>1 DEF more, t, inserted
<1> QED
  BY <1>8, <1>10, <1>11

\* The layout of a to_layout that is not returned is changed.
LEMMA UpdateKeeps ==
    ASSUME ModuleInv, NEW c, ~returned(c), NEW v, ops' = [ops EXCEPT ![c].layout = v]
    PROVE  /\ KeepsReturns(ops')
           /\ \A o \in DOMAIN ops : returned(o) => ops'[o].layout = ops[o].layout
<1>1. OpList(ops)
  BY DEF ModuleInv, OpList
<1>2. CASE c \in DOMAIN ops
  <2> DEFINE r == [ops[c] EXCEPT !.layout = v]
  <2>1. ops' = [ops EXCEPT ![c] = r]
    OBVIOUS
  <2>2. isOp(r) /\ r.func = ops[c].func /\ r.kind = ops[c].kind /\ r.ins = ops[c].ins
    BY <1>2, OpChanged DEF ModuleInv
  <2> HIDE DEF r
  <2>3. /\ OpList(ops') /\ DOMAIN ops' = DOMAIN ops
        /\ \A o \in DOMAIN ops : ops'[o] = IF o = c THEN r ELSE ops[o]
    <3> DEFINE a == [ops EXCEPT ![c] = r]
    <3>1. /\ OpList(a) /\ DOMAIN a = DOMAIN ops
          /\ \A o \in DOMAIN ops : a[o] = IF o = c THEN r ELSE ops[o]
      BY <1>1, <2>2, SetOp
    <3>2. ops' = a
      BY <2>1
    <3> HIDE DEF a
    <3> QED
      BY <3>1, <3>2
  <2> QED
    BY <2>2, <2>3 DEF KeepsReturns, OpList
<1>3. CASE c \notin DOMAIN ops
  <2>1. ops' = ops
    BY <1>1, <1>3 DEF OpList
  <2> QED
    BY <1>1, <2>1 DEF KeepsReturns, OpList
<1> QED
  BY <1>2, <1>3

\* processMemReconfigEdge for an edge of the analysis or the user.
LEMMA EdgeKeeps ==
    ASSUME ModuleInv, NEW e, edgeFine(e), processMemReconfigEdge(e)
    PROVE  /\ KeepsReturns(ops')
           /\ \A o \in DOMAIN ops : returned(o) => ops'[o].layout = ops[o].layout
<1>1. CASE e[1] # 0 /\ Kind(e[1]) = "to_layout"
  <2>1. ops' = [ops EXCEPT ![e[1]].layout = reshardLayout(e)]
    BY <1>1 DEF processMemReconfigEdge
  <2>2. ~returned(e[1])
    BY <1>1 DEF edgeFine
  <2> QED
    BY <2>1, <2>2, UpdateKeeps
<1>2. CASE ~(e[1] # 0 /\ Kind(e[1]) = "to_layout")
  <2> DEFINE c == e[2]
             v == [ops[c].ins EXCEPT ![e[3]] = Len(ops) + 1]
             layout == reshardLayout(e)
             input == ops[e[2]].ins[e[3]]
             f == ops[e[2]].func
  <2>1. ops' = Append([ops EXCEPT ![c].ins[e[3]] = Len(ops) + 1], newToLayout(f, input, layout))
    BY <1>2 DEF processMemReconfigEdge
  <2>2. [ops EXCEPT ![c].ins[e[3]] = Len(ops) + 1] = [ops EXCEPT ![c].ins = v]
    OBVIOUS
  <2>3. c \in DOMAIN ops /\ Kind(c) # "return" /\ f \in Funcs
    BY DEF edgeFine, Funcs
  <2> HIDE DEF c, v, layout, input, f
  <2>4. ops' = inserted(c, v, newToLayout(f, input, layout))
    BY <2>1, <2>2 DEF inserted
  <2>5. KeepsReturns(ops') /\ \A o \in DOMAIN ops : ops'[o].layout = ops[o].layout
    BY <2>3, <2>4, InsertKeeps
  <2> QED
    BY <2>5
<1> QED
  BY <1>1, <1>2

\* A spill goes behind an op that is not returned.
LEMMA SpillKeeps ==
    ASSUME ModuleInv, NEW o, opFine(o), NEW u \in uses(o), NEW n,
           ops' = Append([ops EXCEPT ![u[1]].ins[u[2]] = n], newToLayout(ops[o].func, o, DRAM))
    PROVE  /\ KeepsReturns(ops')
           /\ \A p \in DOMAIN ops : ops'[p].layout = ops[p].layout
<1> DEFINE c == u[1]
           v == [ops[c].ins EXCEPT ![u[2]] = n]
           f == ops[o].func
<1>1. PICK b \in DOMAIN ops : \E i \in DOMAIN ops[b].ins : u = <<b, i>> /\ ops[b].ins[i] = o
  BY DEF uses
<1>2. c \in DOMAIN ops /\ o \in operands(c)
  BY <1>1 DEF operands, ToSet
<1>3. Kind(c) # "return"
  BY <1>2 DEF opFine, returned
<1>4. f \in Funcs
  BY DEF opFine, Funcs
<1>5. [ops EXCEPT ![c].ins[u[2]] = n] = [ops EXCEPT ![c].ins = v]
  OBVIOUS
<1> HIDE DEF c, v, f
<1>6. ops' = inserted(c, v, newToLayout(f, o, DRAM))
  BY <1>5 DEF c, f, inserted
<1> DEFINE new == inserted(c, v, newToLayout(f, o, DRAM))
<1>7. KeepsReturns(new) /\ \A p \in DOMAIN ops : new[p].layout = ops[p].layout
  BY <1>2, <1>3, <1>4, InsertKeeps
<1>8. ops' = new
  BY <1>6
<1> HIDE DEF new
<1> QED
  BY <1>7, <1>8, Zenon

\* applyAnalysis gives layouts to the ops of one function and collects its types.
LEMMA ApplyKeeps ==
    ASSUME ModuleInv, applied \in Funcs, applyAnalysis
    PROVE  /\ KeepsReturns(ops')
           /\ \A o \in DOMAIN ops : ops[o].func # applied => ops'[o].layout = ops[o].layout
           /\ resultTypes' = returnedNow(applied)'
<1> DEFINE typed == [o \in DOMAIN ops |->
                       IF ops[o].func = applied /\ Kind(o) \in {"compute", "excluded"}
                       THEN [ops[o] EXCEPT !.layout = layoutOf(o)] ELSE ops[o]]
<1>1. ops' = typed /\ resultTypes' = returnedTypes(typed) /\ applied' = applied
  BY DEF applyAnalysis
<1>2. ASSUME NEW o \in DOMAIN ops
      PROVE  /\ isOp(typed[o]) /\ typed[o].func = ops[o].func /\ typed[o].kind = ops[o].kind
             /\ typed[o].ins = ops[o].ins
             /\ ops[o].func # applied => typed[o].layout = ops[o].layout
  <2>1. isOp(ops[o])
    BY DEF ModuleInv
  <2> DEFINE r == [ops[o] EXCEPT !.layout = layoutOf(o)]
  <2>2. typed[o] = ops[o] \/ (ops[o].func = applied /\ typed[o] = r)
    OBVIOUS
  <2>3. isOp(r) /\ r.func = ops[o].func /\ r.kind = ops[o].kind /\ r.ins = ops[o].ins
    BY <2>1, OpChanged
  <2> HIDE DEF typed, r
  <2> QED
    BY <2>1, <2>2, <2>3
<1>3. DOMAIN typed = DOMAIN ops /\ typed = [o \in DOMAIN ops |-> typed[o]]
  OBVIOUS
<1> HIDE DEF typed
<1>4. typed \in Seq(ToSet(typed))
  <2>1. Len(ops) \in Nat /\ DOMAIN ops = 1 .. Len(ops)
    BY OpsDomain
  <2>2. typed \in [1 .. Len(ops) -> ToSet(typed)]
    BY <1>3, <2>1 DEF ToSet
  <2> QED
    BY <2>1, <2>2, SeqDef
<1>5. KeepsReturns(ops')
  BY <1>1, <1>2, <1>3, <1>4 DEF KeepsReturns
<1>6. resultTypes' = returnedNow(applied)'
  <2> DEFINE t == terminator(applied)
             r == ops[t].ins
  <2>1. t' = t /\ ops'[t].ins = r
    BY <1>1, <1>5, ReturnsStay
  <2>2. returnedTypes(typed) = [i \in DOMAIN r |-> IF r[i] = 0 THEN DRAM ELSE typed[r[i]].layout]
    BY DEF returnedTypes
  <2> HIDE DEF t
  <2>3. returnedNow(applied)' = [i \in DOMAIN ops'[t].ins |-> operandLayout(t, i)']
    BY <1>1, <2>1 DEF returnedNow, t
  <2>4. \A i : operandLayout(t, i)' = IF ops'[t].ins[i] = 0 THEN DRAM ELSE ops'[ops'[t].ins[i]].layout
    BY <2>1 DEF operandLayout, DRAM
  <2> QED
    BY <1>1, <2>1, <2>2, <2>3, <2>4
<1> QED
  BY <1>1, <1>2, <1>5, <1>6

-----------------------------------------------------------------------------
(* The types of the functions: what the policies ask for                   *)

\* A chain is a record.
isRecord(c) ==
    c = [ops |-> c.ops, state |-> c.state, config |-> c.config,
         memReconfigEntryMap |-> c.memReconfigEntryMap,
         spillEndToDRAM |-> c.spillEndToDRAM]

\* What a chain asks for does not touch what is returned.
chainFine(c) ==
    /\ isRecord(c)
    /\ \A e \in DOMAIN c.memReconfigEntryMap : edgeFine(e)
    /\ c.spillEndToDRAM => opFine(Last(c.ops))

\* The end of the chain is not spilled.
noSpill(c) == c.spillEndToDRAM = FALSE

\* The chains have no spill before they are resolved.
ChainsFine ==
    /\ l1ChainConfigs \in Seq(ToSet(l1ChainConfigs))
    /\ \A c \in ToSet(l1ChainConfigs) :
         chainFine(c) /\ (phase = "schedule" => noSpill(c))

\* A chain of the sharding policy has ops whose user is no return.
shardingChain(c) ==
    /\ c.ops \in Seq(Nat)
    /\ \A o \in ToSet(c.ops) : opFine(o) /\ Kind(o) \in {"compute", "excluded"}
    /\ c.state # "InBuild" => c.ops # <<>>

\* The solver is at an op of a chain, and reshards edges that are not returned.
SolverInv ==
    /\ \A c \in ToSet(l1ChainConfigs) : shardingChain(c)
    /\ phase = "schedule" => stage = "idle"
    /\ stage # "idle" => chain \in DOMAIN l1ChainConfigs /\ at \in DOMAIN shardSpecs
    /\ \A e \in DOMAIN memReconfigMap : edgeFine(e)

\* The functions that are done have their types.
TypesInv ==
    /\ applied \in Funcs
    /\ DOMAIN funcType = Funcs
    /\ \A f \in Funcs : f < applied \/ phase = "done" => funcType[f] = returnedNow(f)
    /\ phase = "reconfig" =>
         /\ \A e \in pendingEdges : edgeFine(e)
         /\ \A i \in spills : i \in DOMAIN l1ChainConfigs /\ l1ChainConfigs[i].spillEndToDRAM
         /\ resultTypes = returnedNow(applied)

\* The inductive invariant: as long as no assertion has failed, nothing that a chain,
\* the solver or the user asks for touches what is returned.
ResultsInv ==
    phase # "abort" =>
      /\ ModuleInv
      /\ \A e \in overrideReshardEdges : edgeFine(e)
      /\ ChainsFine
      /\ policy = "DFSharding" /\ phase \in {"schedule", "resolve"} => SolverInv
      /\ TypesInv

\* All this is about the ops alone.
LEMMA FineUnchanged ==
    ASSUME ModuleInv, ops' = ops
    PROVE  /\ ModuleInv' /\ Funcs' = Funcs
           /\ \A f \in Funcs : returnedNow(f)' = returnedNow(f)
           /\ \A e : edgeFine(e)' <=> edgeFine(e)
           /\ \A o : opFine(o)' <=> opFine(o)
           /\ \A c : chainFine(c)' <=> chainFine(c)
           /\ \A c : shardingChain(c)' <=> shardingChain(c)
<1>1. KeepsReturns(ops')
  BY DEF KeepsReturns, ModuleInv
<1>2. /\ ModuleInv' /\ Funcs' = Funcs
      /\ \A f \in Funcs : returnedNow(f)' = returnedNow(f)
  BY <1>1, ReturnsStay, TypesStay
<1>3. \A o : (Kind(o)' = Kind(o)) /\ (returned(o)' <=> returned(o))
  BY <1>1, ReturnsStay DEF Kind
<1>4. /\ \A e : edgeFine(e)' <=> edgeFine(e)
      /\ \A o : opFine(o)' <=> opFine(o)
  BY <1>3 DEF edgeFine, opFine
<1>5. \A c : chainFine(c)' <=> chainFine(c)
  BY <1>4 DEF chainFine
<1>6. \A c : shardingChain(c)' <=> shardingChain(c)
  BY <1>3, <1>4 DEF shardingChain
<1> QED
  BY <1>2, <1>4, <1>5, <1>6

\* A policy leaves the module and the types alone.
LEMMA PolicyKeeps ==
    ASSUME ResultsInv, phase # "abort", phase' \notin {"reconfig", "done"}, ops' = ops,
           UNCHANGED <<overrideReshardEdges, applied, funcType>>,
           phase' # "abort" => ChainsFine',
           phase' # "abort" /\ policy' = "DFSharding" /\ phase' \in {"schedule", "resolve"} => SolverInv'
    PROVE  ResultsInv'
<1>1. ModuleInv /\ TypesInv /\ \A e \in overrideReshardEdges : edgeFine(e)
  BY DEF ResultsInv
<1>2. ModuleInv' /\ \A e \in overrideReshardEdges' : edgeFine(e)'
  BY <1>1, FineUnchanged
<1>3. TypesInv'
  BY <1>1, FineUnchanged DEF TypesInv
<1> QED
  BY <1>2, <1>3 DEF ResultsInv

\* A chain with another field.
withOps(c, v) == [c EXCEPT !.ops = v]
withState(c, v) == [c EXCEPT !.state = v]
withConfig(c, v) == [c EXCEPT !.config = v]

\* A chain with another state, other configs or, without a spill, other ops is as
\* fine as before.
LEMMA FineChanged ==
    ASSUME NEW c, chainFine(c), NEW v
    PROVE  /\ chainFine(withState(c, v))
           /\ withState(c, v).ops = c.ops
           /\ withState(c, v).state = v
           /\ noSpill(c) => noSpill(withState(c, v))
           /\ chainFine(withConfig(c, v))
           /\ noSpill(c) => noSpill(withConfig(c, v))
           /\ noSpill(c) => chainFine(withOps(c, v))
           /\ withOps(c, v).ops = v
           /\ withOps(c, v).state = c.state
           /\ withOps(c, v).config = c.config
           /\ noSpill(c) => noSpill(withOps(c, v))
<1>1. c = [ops |-> c.ops, state |-> c.state, config |-> c.config,
           memReconfigEntryMap |-> c.memReconfigEntryMap,
           spillEndToDRAM |-> c.spillEndToDRAM]
  BY DEF chainFine, isRecord
<1> DEFINE a == withState(c, v)
           b == withConfig(c, v)
           d == withOps(c, v)
<1>2. a = [ops |-> c.ops, state |-> v, config |-> c.config,
           memReconfigEntryMap |-> c.memReconfigEntryMap,
           spillEndToDRAM |-> c.spillEndToDRAM]
  BY <1>1 DEF withState
<1>3. b = [ops |-> c.ops, state |-> c.state, config |-> v,
           memReconfigEntryMap |-> c.memReconfigEntryMap,
           spillEndToDRAM |-> c.spillEndToDRAM]
  BY <1>1 DEF withConfig
<1>4. d = [ops |-> v, state |-> c.state, config |-> c.config,
           memReconfigEntryMap |-> c.memReconfigEntryMap,
           spillEndToDRAM |-> c.spillEndToDRAM]
  BY <1>1 DEF withOps
<1> HIDE DEF a, b, d
<1>5. isRecord(a) /\ a.ops = c.ops /\ a.state = v /\ a.spillEndToDRAM = c.spillEndToDRAM
      /\ a.memReconfigEntryMap = c.memReconfigEntryMap
  BY <1>2 DEF isRecord
<1>6. isRecord(b) /\ b.ops = c.ops /\ b.spillEndToDRAM = c.spillEndToDRAM
      /\ b.memReconfigEntryMap = c.memReconfigEntryMap
  BY <1>3 DEF isRecord
<1>7. isRecord(d) /\ d.ops = v /\ d.state = c.state /\ d.config = c.config
      /\ d.spillEndToDRAM = c.spillEndToDRAM
      /\ d.memReconfigEntryMap = c.memReconfigEntryMap
  BY <1>4 DEF isRecord
<1>8. chainFine(a) /\ chainFine(b) /\ (noSpill(c) => chainFine(d))
  BY <1>5, <1>6, <1>7 DEF chainFine, noSpill
<1>9. noSpill(c) => noSpill(a) /\ noSpill(b) /\ noSpill(d)
  BY <1>5, <1>6, <1>7 DEF noSpill
<1> QED
  BY <1>5, <1>6, <1>7, <1>8, <1>9 DEF a, b, d

\* A new chain asks for nothing.
LEMMA NewChainFine ==
    chainFine(NewChain) /\ noSpill(NewChain) /\ shardingChain(NewChain)
<1>1. /\ isRecord(NewChain) /\ NewChain.ops = <<>> /\ NewChain.state = "InBuild"
      /\ NewChain.memReconfigEntryMap = NoEntries /\ noSpill(NewChain)
  BY DEF NewChain, isRecord, noSpill
<1>2. DOMAIN NewChain.memReconfigEntryMap = {}
  BY <1>1 DEF NoEntries
<1>3. ToSet(NewChain.ops) = {}
  BY <1>1 DEF ToSet
<1> QED
  BY <1>1, <1>2, <1>3 DEF chainFine, shardingChain, noSpill

\* A list with another chain.
replaced(l, n, c) == [l EXCEPT ![n] = c]

\* Replacing an element.
LEMMA ReplacedSeq ==
    ASSUME NEW S, NEW l \in Seq(S), NEW n, NEW c \in S
    PROVE  replaced(l, n, c) \in Seq(S)
<1>1. Len(l) \in Nat /\ DOMAIN l = 1 .. Len(l) /\ l \in [1 .. Len(l) -> S]
  OBVIOUS
<1>2. replaced(l, n, c) \in [1 .. Len(l) -> S]
  BY <1>1 DEF replaced
<1> QED
  BY <1>1, <1>2, SeqDef

\* Dropping the last.
LEMMA FrontSeq ==
    ASSUME NEW S, NEW l \in Seq(S)
    PROVE  Front(l) \in Seq(S)
BY DEF Front

\* A list of fine chains that the policies build.
LEMMA ListFine ==
    ASSUME ModuleInv, ops' = ops, NEW S, l1ChainConfigs' \in Seq(S),
           \A c \in S : chainFine(c) /\ (phase' = "schedule" => noSpill(c))
    PROVE  ChainsFine'
<1>1. l1ChainConfigs' \in Seq(ToSet(l1ChainConfigs')) /\ ToSet(l1ChainConfigs') \subseteq S
  BY OwnElements
<1>2. \A c : chainFine(c)' <=> chainFine(c)
  BY FineUnchanged
<1> QED
  BY <1>1, <1>2 DEF ChainsFine

\* A list of chains that the sharding policy builds; the solver waits.
LEMMA ListSharding ==
    ASSUME ModuleInv, ops' = ops, NEW S, l1ChainConfigs' \in Seq(S),
           \A c \in S : shardingChain(c), SolverInv, phase = "schedule",
           stage' = stage, memReconfigMap' = memReconfigMap
    PROVE  SolverInv'
<1>1. ToSet(l1ChainConfigs') \subseteq S
  BY OwnElements
<1>2. \A c : shardingChain(c)' <=> shardingChain(c)
  BY FineUnchanged
<1>3. \A e : edgeFine(e)' <=> edgeFine(e)
  BY FineUnchanged
<1>4. stage' = "idle"
  BY DEF SolverInv
<1>5. \A e \in DOMAIN memReconfigMap' : edgeFine(e)'
  BY <1>3 DEF SolverInv
<1>6. \A c \in ToSet(l1ChainConfigs') : shardingChain(c)'
  BY <1>1, <1>2
<1> QED
  BY <1>4, <1>5, <1>6 DEF SolverInv

\* An op joins a chain only if its one user is no return.
LEMMA JoinsFine ==
    ASSUME Scheduling, NEW o \in candidates, NEW nextOp \in DOMAIN ops,
           extendChain(o, nextOp)
    PROVE  opFine(o) /\ Kind(o) \in {"compute", "excluded"} /\ o \in Nat
<1>1. o \in DOMAIN ops /\ ops \in Graphs
  BY Candidate DEF Scheduling, BlockInv
<1>2. o \in Nat
  BY <1>1, GraphFacts
<1>3. /\ hasOneUse(o) /\ o \in operands(nextOp)
      /\ Kind(o) \in {"compute", "excluded"} /\ Kind(nextOp) \in {"compute", "excluded"}
  BY DEF extendChain, validForSharding, shardedConfigs
<1>4. {u[1] : u \in uses(o)} = {nextOp}
  BY <1>1, <1>3, OnlyUser DEF onlyUserIs
<1>5. ASSUME NEW r \in DOMAIN ops, Kind(r) = "return", o \in operands(r) PROVE FALSE
  <2>1. PICK i \in DOMAIN ops[r].ins : ops[r].ins[i] = o
    BY <1>5 DEF operands, ToSet
  <2>2. <<r, i>> \in uses(o)
    BY <2>1 DEF uses
  <2>3. <<r, i>>[1] \in {u[1] : u \in uses(o)}
    BY <2>2
  <2>4. r = nextOp
    BY <2>3, <1>4
  <2> QED
    BY <2>4, <1>3, <1>5
<1> QED
  BY <1>1, <1>2, <1>3, <1>5 DEF opFine, returned

\* A round of the sharding policy's loop.
LEMMA RoundFine ==
    ASSUME Scheduling, ModuleInv, ChainsFine, SolverInv, scheduleRound
    PROVE  ChainsFine' /\ SolverInv'
<1> DEFINE l == l1ChainConfigs
           c == lastChain
<1>1. /\ ops' = ops /\ stage' = stage /\ memReconfigMap' = memReconfigMap
      /\ phase = "schedule"
  BY DEF scheduleRound, graphvars, solvervars
<1>2. PICK o \in candidates :
        \/ skipLayoutOp(o)
        \/ \E nextOp \in DOMAIN ops : extendChain(o, nextOp)
        \/ endChain(o)
  BY DEF scheduleRound
<1>3. /\ l \in Seq(ToSet(l)) /\ Len(l) > 0 /\ Len(l) \in Nat /\ DOMAIN l = 1 .. Len(l)
      /\ Len(l) \in DOMAIN l /\ c = l[Len(l)] /\ c \in ToSet(l)
  BY DEF Scheduling, ChainsInv, lastChain, ToSet
<1>4. \A d \in ToSet(l) : chainFine(d) /\ noSpill(d) /\ shardingChain(d)
  BY <1>1 DEF ChainsFine, SolverInv
<1> HIDE DEF c
<1>10. chainFine(c) /\ noSpill(c) /\ shardingChain(c)
  BY <1>3, <1>4
<1>5. CASE l' = l
  BY <1>1, <1>3, <1>4, <1>5, ListFine, ListSharding
<1>6. CASE \E nextOp \in DOMAIN ops : extendChain(o, nextOp)
  <2>1. opFine(o) /\ Kind(o) \in {"compute", "excluded"} /\ o \in Nat
    BY <1>6, JoinsFine
  <2> DEFINE q == Append(c.ops, o)
             d == withOps(c, q)
             S == ToSet(l) \cup {d}
  <2>2. l' = replaced(l, Len(l), d)
    BY <1>3, <1>6 DEF extendChain, addOpL1MemSpec, replaced, withOps
  <2>3. c.ops \in Seq(Nat)
    BY <1>3, <1>4 DEF shardingChain
  <2>4. q \in Seq(Nat) /\ q # <<>> /\ \A x : x \in ToSet(q) <=> x \in ToSet(c.ops) \/ x = o
    BY <2>1, <2>3, AppendedSet
  <2> HIDE DEF q
  <2>5. chainFine(d) /\ noSpill(d) /\ d.ops = q
    BY <1>10, FineChanged
  <2> HIDE DEF d
  <2>6. shardingChain(d)
    BY <2>1, <2>4, <2>5, <1>3, <1>4 DEF shardingChain
  <2>7. l \in Seq(S) /\ d \in S
    BY <1>3
  <2>8. \A x \in S : chainFine(x) /\ noSpill(x) /\ shardingChain(x)
    BY <1>4, <2>5, <2>6
  <2> HIDE DEF S
  <2>9. l' \in Seq(S)
    BY <2>2, <2>7, ReplacedSeq
  <2> QED
    BY <1>1, <2>8, <2>9, ListFine, ListSharding
<1>7. CASE l' = Append(Front(l) \o <<build(c)>>, NewChain) /\ ~isEmpty(c)
  <2> DEFINE v == "Built"
             b == withState(c, v)
             S == ToSet(l) \cup {b, NewChain}
  <2>1. build(c) = b
    BY DEF build, withState
  <2>2. chainFine(b) /\ noSpill(b) /\ b.ops = c.ops
    <3> HIDE DEF v
    <3> QED
      BY <1>10, FineChanged
  <2> HIDE DEF b
  <2>3. shardingChain(b)
    BY <1>3, <1>4, <1>7, <2>2 DEF shardingChain, isEmpty
  <2>4. l \in Seq(S) /\ b \in S /\ NewChain \in S
    BY <1>3
  <2>5. \A x \in S : chainFine(x) /\ noSpill(x) /\ shardingChain(x)
    BY <1>4, <2>2, <2>3, NewChainFine
  <2> HIDE DEF S
  <2>6. Front(l) \in Seq(S)
    BY <2>4, FrontSeq
  <2>7. Front(l) \o <<b>> \in Seq(S)
    BY <2>4, <2>6
  <2>8. l' \in Seq(S)
    BY <1>7, <2>1, <2>4, <2>7
  <2> QED
    BY <1>1, <2>5, <2>8, ListFine, ListSharding
<1>8. skipLayoutOp(o) => l' = l
  BY DEF skipLayoutOp, chainvars
<1>9. endChain(o) => l' = l \/ (l' = Append(Front(l) \o <<build(c)>>, NewChain) /\ ~isEmpty(c))
  BY DEF endChain, c
<1> QED
  BY <1>2, <1>5, <1>6, <1>7, <1>8, <1>9

\* The next function, or the end of the loop.
LEMMA NextFuncFine ==
    ASSUME Scheduling, ModuleInv, ChainsFine, SolverInv, nextFunc
    PROVE  ChainsFine' /\ SolverInv'
<1> DEFINE l == l1ChainConfigs
           S == ToSet(l) \cup {NewChain}
<1>1. /\ ops' = ops /\ stage' = stage /\ memReconfigMap' = memReconfigMap
      /\ phase = "schedule"
  BY DEF nextFunc, graphvars, solvervars
<1>2. l \in Seq(S) /\ NewChain \in S
  BY DEF ChainsFine
<1>3. \A x \in S : chainFine(x) /\ noSpill(x) /\ shardingChain(x)
  BY <1>1, NewChainFine DEF ChainsFine, SolverInv
<1> HIDE DEF S
<1>4. Append(l, NewChain) \in Seq(S) /\ Front(l) \in Seq(S)
  BY <1>2, FrontSeq
<1>5. l' \in Seq(S)
  BY <1>2, <1>4 DEF nextFunc
<1> QED
  BY <1>1, <1>3, <1>5, ListFine, ListSharding

\* The breadth first policy puts an op into the last chain.
LEMMA LeastChangeFine ==
    ASSUME ModuleInv, ChainsFine, scheduleLeastChange
    PROVE  ChainsFine' /\ phase' = "schedule" /\ ops' = ops
<1> DEFINE l == l1ChainConfigs
           n == Len(l)
           c == l[n]
<1>1. ops' = ops /\ phase = "schedule" /\ phase' = "schedule"
  BY DEF scheduleLeastChange, graphvars
<1>2. PICK o : l' = l \/ l' = [addOpL1MemSpec(o) EXCEPT ![n].config = Append(@, L1Interleaved)]
  BY DEF scheduleLeastChange
<1>3. l \in Seq(ToSet(l)) /\ n \in Nat /\ DOMAIN l = 1 .. n
  BY DEF ChainsFine
<1>4. \A d \in ToSet(l) : chainFine(d) /\ noSpill(d)
  BY <1>1 DEF ChainsFine
<1>5. CASE l' = l
  BY <1>1, <1>3, <1>4, <1>5, ListFine
<1>6. CASE l' # l
  <2> DEFINE q == Append(c.ops, o)
             d == withOps(c, q)
             r == Append(d.config, L1Interleaved)
             e == withConfig(d, r)
             S == ToSet(l) \cup {e}
  <2>1. l' = [[l EXCEPT ![n].ops = q] EXCEPT ![n].config = Append(@, L1Interleaved)]
    BY <1>2, <1>6 DEF addOpL1MemSpec
  <2>2. n \in DOMAIN l
    <3>1. CASE n \notin DOMAIN l
      <4>1. l = [k \in DOMAIN l |-> l[k]]
        BY <1>3
      <4>2. [l EXCEPT ![n].ops = q] = l
        BY <3>1, <4>1
      <4>3. [l EXCEPT ![n].config = Append(@, L1Interleaved)] = l
        BY <3>1, <4>1
      <4> QED
        BY <2>1, <4>2, <4>3, <1>6
    <3> QED
      BY <3>1
  <2>3. l' = replaced(l, n, e)
    <3>1. [l EXCEPT ![n].ops = q] = [l EXCEPT ![n] = d]
      BY DEF withOps
    <3>2. [l EXCEPT ![n] = d][n] = d
      BY <1>3, <2>2
    <3> HIDE DEF d
    <3>3. [[l EXCEPT ![n] = d] EXCEPT ![n].config = Append(@, L1Interleaved)]
            = [[l EXCEPT ![n] = d] EXCEPT ![n] = e]
      BY <3>2 DEF withConfig
    <3> HIDE DEF e
    <3>4. [[l EXCEPT ![n] = d] EXCEPT ![n] = e] = [l EXCEPT ![n] = e]
      OBVIOUS
    <3> QED
      BY <2>1, <3>1, <3>3, <3>4 DEF replaced
  <2>4. chainFine(c) /\ noSpill(c)
    BY <1>3, <1>4, <2>2 DEF ToSet
  <2> HIDE DEF q, c
  <2>5. chainFine(d) /\ noSpill(d)
    BY <2>4, FineChanged
  <2> HIDE DEF d, r
  <2>6. chainFine(e) /\ noSpill(e)
    BY <2>5, FineChanged
  <2> HIDE DEF e
  <2>7. l \in Seq(S) /\ e \in S /\ \A x \in S : chainFine(x) /\ noSpill(x)
    BY <1>3, <1>4, <2>6
  <2> HIDE DEF S, n
  <2>8. l' \in Seq(S)
    BY <2>3, <2>7, ReplacedSeq
  <2> QED
    BY <1>1, <2>7, <2>8, ListFine
<1> QED
  BY <1>1, <1>5, <1>6

\* It completes all chains at the end of a function.
LEMMA FinishFuncFine ==
    ASSUME ModuleInv, ChainsFine, finishFunc
    PROVE  /\ phase' # "abort" => ChainsFine'
           /\ phase' \in {"schedule", "apply", "abort"} /\ ops' = ops
<1> DEFINE l == l1ChainConfigs
           m == [i \in DOMAIN l |-> [resolve(build(l[i])) EXCEPT !.state = "Completed"]]
<1>1. ops' = ops /\ phase = "schedule"
  BY DEF finishFunc, graphvars
<1>2. \/ phase' = "abort"
      \/ /\ phase' \in {"schedule", "apply"}
         /\ l' = m \o <<NewChain>> \/ l' = m \o <<>>
  BY DEF finishFunc
<1>3. l \in Seq(ToSet(l)) /\ Len(l) \in Nat /\ DOMAIN l = 1 .. Len(l)
  BY DEF ChainsFine
<1>4. \A d \in ToSet(l) : chainFine(d) /\ noSpill(d)
  BY <1>1 DEF ChainsFine
<1>5. ASSUME NEW i \in DOMAIN l PROVE chainFine(m[i]) /\ noSpill(m[i])
  <2> DEFINE v == "Completed"
             v1 == "Built"
             v2 == "Resolved"
             b == withState(l[i], v1)
             r == withState(b, v2)
  <2>1. m[i] = withState(r, v)
    BY DEF withState, build, resolve
  <2>2. chainFine(l[i]) /\ noSpill(l[i])
    BY <1>4 DEF ToSet
  <2> HIDE DEF v, v1, v2, m
  <2>3. chainFine(b) /\ noSpill(b)
    BY <2>2, FineChanged
  <2> HIDE DEF b
  <2>4. chainFine(r) /\ noSpill(r)
    BY <2>3, FineChanged
  <2> HIDE DEF r
  <2> QED
    BY <2>1, <2>4, FineChanged
<1> DEFINE S == ToSet(m) \cup {NewChain}
<1>6. m \in Seq(ToSet(m)) /\ DOMAIN m = DOMAIN l
  <2>1. DOMAIN m = DOMAIN l /\ m = [i \in DOMAIN l |-> m[i]]
    OBVIOUS
  <2> HIDE DEF m
  <2>2. m \in [1 .. Len(l) -> ToSet(m)]
    BY <1>3, <2>1 DEF ToSet
  <2> QED
    BY <1>3, <2>1, <2>2, SeqDef
<1> HIDE DEF m
<1>7. \A c \in S : chainFine(c) /\ noSpill(c)
  BY <1>5, <1>6, NewChainFine DEF ToSet
<1>8. m \in Seq(S) /\ NewChain \in S
  BY <1>6
<1> HIDE DEF S
<1>9. m \o <<NewChain>> \in Seq(S) /\ m \o <<>> \in Seq(S)
  BY <1>8
<1>10. phase' # "abort" => l' \in Seq(S)
  BY <1>2, <1>9
<1> QED
  BY <1>1, <1>2, <1>7, <1>10, ListFine

\* A chain with other entries.
withEntries(c, v) == [c EXCEPT !.memReconfigEntryMap = v]

\* complete(): the configs and the entries of the solver.
LEMMA CompleteFine ==
    ASSUME NEW c, chainFine(c), NEW config, NEW entries,
           \A e \in DOMAIN entries : edgeFine(e)
    PROVE  /\ chainFine(complete(c, config, entries))
           /\ complete(c, config, entries).ops = c.ops
           /\ noSpill(c) => noSpill(complete(c, config, entries))
<1> DEFINE v == [i \in DOMAIN c.ops |-> config[c.ops[i]]]
           w == "Completed"
           a == withConfig(c, v)
           b == withEntries(a, entries)
<1>1. complete(c, config, entries) = withState(b, w)
  BY DEF complete, withState, withConfig, withEntries
<1> HIDE DEF v, w
<1>2. c = [ops |-> c.ops, state |-> c.state, config |-> c.config,
           memReconfigEntryMap |-> c.memReconfigEntryMap,
           spillEndToDRAM |-> c.spillEndToDRAM]
  BY DEF chainFine, isRecord
<1>3. a = [ops |-> c.ops, state |-> c.state, config |-> v,
           memReconfigEntryMap |-> c.memReconfigEntryMap,
           spillEndToDRAM |-> c.spillEndToDRAM]
  BY <1>2 DEF withConfig
<1> HIDE DEF a
<1>4. b = [ops |-> c.ops, state |-> c.state, config |-> v,
           memReconfigEntryMap |-> entries,
           spillEndToDRAM |-> c.spillEndToDRAM]
  BY <1>3 DEF withEntries
<1> HIDE DEF b
<1>5. isRecord(b) /\ b.ops = c.ops /\ b.memReconfigEntryMap = entries
      /\ b.spillEndToDRAM = c.spillEndToDRAM
  BY <1>4 DEF isRecord
<1>6. chainFine(b)
  BY <1>5 DEF chainFine
<1>7. noSpill(c) => noSpill(b)
  BY <1>5 DEF noSpill
<1> QED
  BY <1>1, <1>5, <1>6, <1>7, FineChanged

\* The greedy policy replaces the last chain by one with all ops of the function.
LEMMA CompleteFuncFine ==
    ASSUME ModuleInv, ChainsFine, completeFunc
    PROVE  ChainsFine' /\ phase' \in {"schedule", "apply"} /\ ops' = ops
<1> DEFINE l == l1ChainConfigs
           o == SetToSeq(DOMAIN OpMemSpecMap)
           specs == [NewChain EXCEPT !.ops = o]
           configs == [d \in DOMAIN OpMemSpecMap |-> OpMemSpecMap[d].layout]
           g == complete(resolve(build(specs)), configs, NoEntries)
           S == ToSet(l) \cup {g, NewChain}
<1>1. ops' = ops /\ phase = "schedule" /\ phase' \in {"schedule", "apply"}
  BY DEF completeFunc, graphvars
<1>2. \/ l' = Front(l) \o <<g>> \o <<NewChain>>
      \/ l' = Front(l) \o <<g>> \o <<>>
  BY DEF completeFunc
<1>3. l \in Seq(ToSet(l)) /\ \A d \in ToSet(l) : chainFine(d) /\ noSpill(d)
  BY <1>1 DEF ChainsFine
<1>4. chainFine(g) /\ noSpill(g)
  <2> DEFINE v == "Built"
             w == "Resolved"
             s == withOps(NewChain, o)
             b == withState(s, v)
             r == withState(b, w)
  <2>1. resolve(build(specs)) = r
    BY DEF resolve, build, withState, withOps
  <2>2. DOMAIN NoEntries = {}
    BY DEF NoEntries
  <2> HIDE DEF o, v, w, configs
  <2>3. chainFine(s) /\ noSpill(s)
    BY NewChainFine, FineChanged
  <2> HIDE DEF s
  <2>4. chainFine(b) /\ noSpill(b)
    BY <2>3, FineChanged
  <2> HIDE DEF b
  <2>5. chainFine(r) /\ noSpill(r)
    BY <2>4, FineChanged
  <2>6. g = complete(r, configs, NoEntries)
    BY <2>1
  <2> HIDE DEF r, g
  <2> DEFINE h == NoEntries
  <2>7. DOMAIN h = {} /\ g = complete(r, configs, h)
    BY <2>2, <2>6
  <2> HIDE DEF h
  <2> QED
    BY <2>5, <2>7, CompleteFine
<1> HIDE DEF g
<1>5. \A c \in S : chainFine(c) /\ noSpill(c)
  BY <1>3, <1>4, NewChainFine
<1>6. l \in Seq(S) /\ g \in S /\ NewChain \in S
  BY <1>3
<1> HIDE DEF S
<1>7. Front(l) \in Seq(S)
  BY <1>6, FrontSeq
<1> DEFINE m == Front(l) \o <<g>>
<1>8. m \in Seq(S)
  BY <1>6, <1>7
<1> HIDE DEF m
<1>9. m \o <<NewChain>> \in Seq(S) /\ m \o <<>> \in Seq(S)
  BY <1>6, <1>8
<1>10. l' = m \o <<NewChain>> \/ l' = m \o <<>>
  BY <1>2 DEF m
<1>11. l' \in Seq(S)
  BY <1>9, <1>10
<1> QED
  BY <1>1, <1>5, <1>11, ListFine

-----------------------------------------------------------------------------
(* The types of the functions: the solver                                  *)

\* An operand of a compute op is no to_layout that is returned.
LEMMA EdgeOfOp ==
    ASSUME ModulesWellFormed, ops \in Graphs, NEW o \in DOMAIN ops,
           Kind(o) \in {"compute", "excluded"}, NEW i \in DOMAIN ops[o].ins
    PROVE  edgeFine(<<ops[o].ins[i], o, i>>)
<1> DEFINE d == ops[o].ins[i]
<1>1. ASSUME d # 0, Kind(d) = "to_layout", returned(d) PROVE FALSE
  <2>1. PICK r \in DOMAIN ops : Kind(r) = "return" /\ d \in operands(r)
    BY <1>1 DEF returned
  <2>2. PICK j \in DOMAIN ops[r].ins : ops[r].ins[j] = d
    BY <2>1 DEF operands, ToSet
  <2>3. \A c \in DOMAIN ops : d \in ToSet(ops[c].ins) => Kind(c) = "return"
    BY <1>1, <2>1, <2>2 DEF ModulesWellFormed, Kind
  <2>4. d \in ToSet(ops[o].ins)
    BY DEF ToSet
  <2> QED
    BY <2>3, <2>4
<1>2. <<d, o, i>>[1] = d /\ <<d, o, i>>[2] = o
  OBVIOUS
<1> HIDE DEF d
<1>3. edgeFine(<<d, o, i>>)
  BY <1>1, <1>2 DEF edgeFine
<1> QED
  BY <1>3 DEF d

\* What holds of the solver between two of its steps.
Solving ==
    /\ ops \in Graphs /\ ModuleInv /\ ChainsFine /\ SolverInv
    /\ phase = "resolve"

\* The chain the solver is at, and its op.
LEMMA AtChain ==
    ASSUME Solving, chain \in DOMAIN l1ChainConfigs
    PROVE  /\ chainFine(l1ChainConfigs[chain]) /\ shardingChain(l1ChainConfigs[chain])
           /\ shardSpecs \in Seq(Nat) /\ Len(shardSpecs) \in Nat
           /\ DOMAIN shardSpecs = 1 .. Len(shardSpecs)
           /\ \A n \in DOMAIN shardSpecs :
                /\ opFine(shardSpecs[n]) /\ shardSpecs[n] \in DOMAIN ops
                /\ Kind(shardSpecs[n]) \in {"compute", "excluded"}
<1>1. l1ChainConfigs[chain] \in ToSet(l1ChainConfigs)
  BY DEF ToSet
<1>2. chainFine(l1ChainConfigs[chain]) /\ shardingChain(l1ChainConfigs[chain])
  BY <1>1 DEF Solving, ChainsFine, SolverInv
<1>3. shardSpecs \in Seq(Nat) /\ Len(shardSpecs) \in Nat /\ DOMAIN shardSpecs = 1 .. Len(shardSpecs)
  BY <1>2 DEF shardingChain, shardSpecs
<1>4. \A n \in DOMAIN shardSpecs :
        /\ opFine(shardSpecs[n]) /\ Kind(shardSpecs[n]) \in {"compute", "excluded"}
  BY <1>2 DEF shardingChain, shardSpecs, ToSet
<1> QED
  BY <1>2, <1>3, <1>4 DEF opFine

\* A step of the solver leaves the chains.
LEMMA SolverSteps ==
    ASSUME Solving, UNCHANGED <<ops, l1ChainConfigs, chain>>, phase' = "resolve",
           stage' # "idle" => chain \in DOMAIN l1ChainConfigs /\ at' \in DOMAIN shardSpecs,
           \A e \in DOMAIN memReconfigMap' : edgeFine(e)
    PROVE  ChainsFine' /\ SolverInv'
<1>1. ModuleInv /\ ChainsFine /\ SolverInv
  BY DEF Solving
<1>2. /\ \A e : edgeFine(e)' <=> edgeFine(e)
      /\ \A c : chainFine(c)' <=> chainFine(c)
      /\ \A c : shardingChain(c)' <=> shardingChain(c)
  BY <1>1, FineUnchanged
<1>3. ChainsFine'
  BY <1>1, <1>2 DEF ChainsFine
<1>4. shardSpecs' = shardSpecs
  BY DEF shardSpecs
<1>5. SolverInv'
  BY <1>1, <1>2, <1>4 DEF SolverInv
<1> QED
  BY <1>3, <1>5

\* A step of the solver changes the chain, not its ops.
LEMMA ChainSteps ==
    ASSUME Solving, ops' = ops, phase' = "resolve", chain \in DOMAIN l1ChainConfigs,
           NEW c, l1ChainConfigs' = replaced(l1ChainConfigs, chain, c),
           chainFine(c), c.ops = shardSpecs, shardSpecs # <<>>,
           stage' # "idle" => chain' = chain /\ at' \in DOMAIN shardSpecs,
           \A e \in DOMAIN memReconfigMap' : edgeFine(e)
    PROVE  ChainsFine' /\ SolverInv'
<1> DEFINE l == l1ChainConfigs
           S == ToSet(l) \cup {c}
<1>1. ModuleInv /\ ChainsFine /\ SolverInv
  BY DEF Solving
<1>2. /\ \A e : edgeFine(e)' <=> edgeFine(e)
      /\ \A d : shardingChain(d)' <=> shardingChain(d)
  BY <1>1, FineUnchanged
<1>3. shardingChain(c)
  BY AtChain DEF shardingChain, shardSpecs
<1>4. l \in Seq(S) /\ c \in S
  BY <1>1 DEF ChainsFine
<1>5. \A d \in S : chainFine(d) /\ shardingChain(d)
  BY <1>1, <1>3 DEF ChainsFine, SolverInv
<1> HIDE DEF S
<1>6. l' \in Seq(S)
  BY <1>4, ReplacedSeq
<1>7. ChainsFine'
  BY <1>1, <1>5, <1>6, ListFine
<1>8. ToSet(l') \subseteq S
  BY <1>6, OwnElements
<1>9. \A d \in ToSet(l') : shardingChain(d)'
  BY <1>2, <1>5, <1>8
<1>10. l'[chain] = c /\ DOMAIN l' = DOMAIN l
  BY DEF replaced
<1>11. stage' # "idle" => chain' \in DOMAIN l' /\ at' \in DOMAIN shardSpecs'
  BY <1>10 DEF shardSpecs
<1> QED
  BY <1>2, <1>7, <1>9, <1>11 DEF SolverInv

\* resolveWithSolver: a Built chain has a first op.
LEMMA StartFine ==
    ASSUME Solving, resolveWithSolver, ops' = ops, phase' # "abort"
    PROVE  phase' = "resolve" /\ ChainsFine' /\ SolverInv'
<1>1. /\ chain \in DOMAIN l1ChainConfigs /\ l1ChainConfigs[chain].state = "Built"
      /\ at' = 1 /\ phase' = phase
      /\ UNCHANGED <<l1ChainConfigs, chain, memReconfigMap>>
  BY DEF resolveWithSolver
<1>2. shardSpecs # <<>>
  BY <1>1, AtChain DEF shardingChain, shardSpecs
<1>3. 1 \in DOMAIN shardSpecs
  BY <1>1, <1>2, AtChain
<1>4. \A e \in DOMAIN memReconfigMap' : edgeFine(e)
  BY <1>1 DEF Solving, SolverInv
<1>5. phase' = "resolve"
  BY <1>1 DEF Solving
<1> QED
  BY <1>1, <1>3, <1>4, <1>5, SolverSteps

\* insertReshard adds an entry for the edge at most.
LEMMA ReshardFine ==
    ASSUME Solving, NEW e, edgeFine(e), NEW found, insertReshard(e, found)
    PROVE  \A d \in DOMAIN memReconfigMap' : edgeFine(d)
<1>1. \A d \in DOMAIN memReconfigMap : edgeFine(d)
  BY DEF Solving, SolverInv
<1>2. CASE found = NoReshard
  BY <1>1, <1>2 DEF insertReshard
<1>3. CASE found # NoReshard
  <2>4. DOMAIN memReconfigMap' = DOMAIN memReconfigMap \cup {e}
    BY <1>3 DEF insertReshard
  <2> QED
    BY <1>1, <2>4
<1> QED
  BY <1>2, <1>3

\* preprocessFirstOp: the first op has an operand.
LEMMA FirstFine ==
    ASSUME ModulesWellFormed, Solving, preprocessFirstOp, UNCHANGED <<ops, chainvars, chain>>
    PROVE  ChainsFine' /\ SolverInv'
<1> DEFINE first == shardSpecs[1]
           e == <<ops[first].ins[1], first, 1>>
<1>1. stage = "first" /\ at' = at /\ phase' = "resolve"
      /\ UNCHANGED <<ops, l1ChainConfigs, chain>>
  BY DEF preprocessFirstOp, Solving, chainvars
<1>2. chain \in DOMAIN l1ChainConfigs /\ at \in DOMAIN shardSpecs
  BY <1>1 DEF Solving, SolverInv
<1>3. 1 \in DOMAIN shardSpecs
  BY <1>2, AtChain
<1>4. first \in DOMAIN ops /\ Kind(first) \in {"compute", "excluded"}
  BY <1>2, <1>3, AtChain
<1>5. ops \in Graphs
  BY DEF Solving
<1>6. 1 \in DOMAIN ops[first].ins
  <2>1. ops[first].ins # <<>>
    BY <1>4, <1>5 DEF ModulesWellFormed, Kind
  <2>2. ops[first].ins \in Seq(Nat)
    BY <1>4, <1>5, GraphFacts
  <2> QED
    BY <2>1, <2>2
<1>7. edgeFine(e)
  BY <1>4, <1>5, <1>6, EdgeOfOp
<1>8. \/ memReconfigMap' = memReconfigMap
      \/ \E found : insertReshard(e, found)
  <2> HIDE DEF e
  <2>1. \/ memReconfigMap' = memReconfigMap
        \/ \E found \in Reshards({}) : insertReshard(<<ops[first].ins[1], first, 1>>, found)
    BY DEF preprocessFirstOp
  <2> QED
    BY <2>1 DEF e
<1> HIDE DEF e
<1>9. \A d \in DOMAIN memReconfigMap' : edgeFine(d)
  <2>1. CASE memReconfigMap' = memReconfigMap
    BY <2>1 DEF Solving, SolverInv
  <2> QED
    BY <2>1, <1>7, <1>8, ReshardFine
<1> QED
  BY <1>1, <1>2, <1>9, SolverSteps

\* The next edge is one into the op.
LEMMA NextEdge ==
    ASSUME ops \in Graphs, NEW o \in DOMAIN ops, edgesLeft(o) # {}
    PROVE  \E i \in DOMAIN ops[o].ins : nextEdge(o) = <<ops[o].ins[i], o, i>>
<1> DEFINE T == {e[3] : e \in edgesLeft(o)}
<1>1. ASSUME NEW e \in edgesLeft(o)
      PROVE  \E i \in DOMAIN ops[o].ins : e = <<ops[o].ins[i], o, i>>
  BY DEF edgesLeft
<1>2. DOMAIN ops[o].ins \subseteq Nat
  <2>1. ops[o].ins \in Seq(Nat)
    BY GraphFacts
  <2> QED
    BY <2>1
<1>3. T \subseteq Nat /\ T # {}
  <2>1. ASSUME NEW e \in edgesLeft(o) PROVE e[3] \in Nat
    BY <1>1, <1>2
  <2> QED
    BY <2>1
<1>4. PICK m \in T : \A n \in T : m <= n
  BY <1>3, LeastNumber
<1>5. PICK e \in edgesLeft(o) : \A d \in edgesLeft(o) : e[3] <= d[3]
  BY <1>4
<1>6. nextEdge(o) \in edgesLeft(o)
  BY <1>5 DEF nextEdge
<1> QED
  BY <1>1, <1>6

\* resolveEdge: so a reshard is put on an edge into an op of the chain.
LEMMA EdgeStepFine ==
    ASSUME ModulesWellFormed, Solving, resolveEdge, UNCHANGED <<ops, l1ChainConfigs, chain>>,
           phase' # "abort"
    PROVE  phase' = "resolve" /\ ChainsFine' /\ SolverInv'
<1> DEFINE o == shardSpecs[at]
           e == nextEdge(o)
<1>1. stage = "edges" /\ at' = at /\ phase' = "resolve" /\ edgesLeft(o) # {}
  BY DEF resolveEdge, Solving
<1>2. chain \in DOMAIN l1ChainConfigs /\ at \in DOMAIN shardSpecs
  BY <1>1 DEF Solving, SolverInv
<1>3. o \in DOMAIN ops /\ Kind(o) \in {"compute", "excluded"} /\ ops \in Graphs
  BY <1>2, AtChain DEF Solving
<1>4. \/ memReconfigMap' = memReconfigMap
      \/ \E found : insertReshard(e, found)
  <2> HIDE DEF o
  <2>1. \/ memReconfigMap' = memReconfigMap
        \/ \E found : insertReshard(nextEdge(shardSpecs[at]), found)
    BY Zenon DEF resolveEdge
  <2> QED
    BY <2>1 DEF o
<1>5. edgeFine(e)
  <2> HIDE DEF o
  <2>1. PICK i \in DOMAIN ops[o].ins : e = <<ops[o].ins[i], o, i>>
    BY <1>1, <1>3, NextEdge
  <2>2. edgeFine(<<ops[o].ins[i], o, i>>)
    BY <1>3, EdgeOfOp
  <2> QED
    BY <2>1, <2>2
<1> HIDE DEF e
<1>6. \A d \in DOMAIN memReconfigMap' : edgeFine(d)
  <2>1. CASE memReconfigMap' = memReconfigMap
    BY <2>1 DEF Solving, SolverInv
  <2> QED
    BY <2>1, <1>4, <1>5, ReshardFine
<1> QED
  BY <1>1, <1>2, <1>6, SolverSteps

\* The other steps leave the entries' edges and stay at an op of the chain.
LEMMA OtherStepsFine ==
    ASSUME Solving, UNCHANGED <<ops, l1ChainConfigs, chain>>, phase' # "abort",
           \/ (process \/ nextConsumer \/ nextUpdate) /\ UNCHANGED phase
           \/ updateRound \/ pickOpShardConfig \/ nextPick
    PROVE  phase' = "resolve" /\ ChainsFine' /\ SolverInv'
<1>1. phase' = "resolve"
  <2>1. phase' = phase \/ phase' = "abort"
    BY DEF updateRound, pickOpShardConfig, set, nextPick
  <2> QED
    BY <2>1 DEF Solving
<1>2. DOMAIN memReconfigMap' = DOMAIN memReconfigMap
  <2>1. CASE pickOpShardConfig
    <3>1. set(shardSpecs[at], bestConfig(shardSpecs[at]))
      BY <2>1 DEF pickOpShardConfig
    <3> DEFINE o == shardSpecs[at]
               b == bestConfig(shardSpecs[at])
    <3>2. set(o, b)
      BY <3>1
    <3> HIDE DEF o, b
    <3> QED
      BY <3>2 DEF set
  <2>2. CASE ~pickOpShardConfig
    <3>1. UNCHANGED memReconfigMap
      BY <2>2 DEF process, nextConsumer, nextUpdate, updateRound, nextPick
    <3> QED
      BY <3>1
  <2> QED
    BY <2>1, <2>2
<1>3. \A e \in DOMAIN memReconfigMap' : edgeFine(e)
  BY <1>2 DEF Solving, SolverInv
<1>4. stage = "idle" => stage' = "idle" /\ updateRound
  BY DEF process, nextConsumer, nextUpdate, updateRound, pickOpShardConfig, set, nextPick
<1>5. CASE stage = "idle"
  BY <1>1, <1>3, <1>4, <1>5, SolverSteps
<1>6. CASE stage # "idle"
  <2>1. chain \in DOMAIN l1ChainConfigs /\ at \in DOMAIN shardSpecs
    BY <1>6 DEF Solving, SolverInv
  <2>2. DOMAIN shardSpecs = 1 .. Len(shardSpecs) /\ Len(shardSpecs) \in Nat
    BY <2>1, AtChain
  <2>3. at' \in DOMAIN shardSpecs
    <3>1. \/ at' = at
          \/ at' = 1
          \/ at < Len(shardSpecs) /\ at' = at + 1
      <4>1. CASE nextConsumer
        BY <4>1 DEF nextConsumer
      <4>2. CASE nextUpdate \/ nextPick
        BY <4>2 DEF nextUpdate, nextPick
      <4>3. CASE process \/ updateRound
        BY <4>3 DEF process, updateRound
      <4>4. CASE pickOpShardConfig
        <5>1. set(shardSpecs[at], bestConfig(shardSpecs[at]))
          BY <4>4 DEF pickOpShardConfig
        <5> DEFINE o == shardSpecs[at]
                   b == bestConfig(shardSpecs[at])
        <5>2. set(o, b)
          BY <5>1
        <5> HIDE DEF o, b
        <5> QED
          BY <5>2 DEF set
      <4> QED
        BY <4>1, <4>2, <4>3, <4>4
    <3> QED
      BY <2>1, <2>2, <3>1
  <2> QED
    BY <1>1, <1>3, <2>1, <2>3, SolverSteps
<1> QED
  BY <1>5, <1>6

\* resetSolver forgets the entries.
LEMMA ResetFine ==
    ASSUME resetSolver
    PROVE  stage' = "idle" /\ \A e \in DOMAIN memReconfigMap' : edgeFine(e)
<1>1. memReconfigMap' = NoEntries /\ stage' = "idle"
  BY DEF resetSolver
<1>2. DOMAIN NoEntries = {}
  BY DEF NoEntries
<1> QED
  BY <1>1, <1>2

\* The solver gives up on the chain, or finds its configs.
LEMMA StateStepsFine ==
    ASSUME Solving, ops' = ops, chainFailed \/ chainResolved
    PROVE  phase' = "resolve" /\ ChainsFine' /\ SolverInv'
<1> DEFINE l == l1ChainConfigs
           v == IF chainFailed THEN "Failed" ELSE "Resolved"
           c == withState(l[chain], v)
<1>1. stage # "idle" /\ phase' = "resolve"
  BY DEF chainFailed, chainResolved, Solving
<1>2. chain \in DOMAIN l /\ at \in DOMAIN shardSpecs
  BY <1>1 DEF Solving, SolverInv
<1>3. chainFine(l[chain]) /\ shardSpecs = l[chain].ops /\ DOMAIN shardSpecs = 1 .. Len(shardSpecs)
      /\ Len(shardSpecs) \in Nat
  BY <1>2, AtChain DEF shardSpecs
<1>4. l' = replaced(l, chain, c)
  <2>1. l' = [l EXCEPT ![chain].state = v]
    BY DEF chainFailed, chainResolved
  <2> HIDE DEF v
  <2> QED
    BY <2>1 DEF replaced, withState
<1> HIDE DEF v
<1>5. chainFine(c) /\ c.ops = shardSpecs
  BY <1>3, FineChanged
<1> HIDE DEF c
<1>6. shardSpecs # <<>> /\ 1 \in DOMAIN shardSpecs
  BY <1>2, <1>3
<1>7. \A e \in DOMAIN memReconfigMap' : edgeFine(e)
  <2>1. CASE chainFailed
    BY <2>1, ResetFine DEF chainFailed
  <2>2. CASE chainResolved
    BY <2>2 DEF chainResolved, Solving, SolverInv
  <2> QED
    BY <2>1, <2>2
<1>8. stage' # "idle" => chain' = chain /\ at' \in DOMAIN shardSpecs
  <2>1. CASE chainFailed
    BY <2>1, ResetFine DEF chainFailed
  <2>2. CASE chainResolved
    BY <2>2, <1>6 DEF chainResolved
  <2> QED
    BY <2>1, <2>2
<1> QED
  BY <1>1, <1>2, <1>4, <1>5, <1>6, <1>7, <1>8, ChainSteps

\* A chain that spills at an op that is not returned.
LEMMA SpilledFine ==
    ASSUME NEW c, chainFine(c), NEW v, opFine(Last(c.ops))
    PROVE  /\ chainFine([c EXCEPT !.spillEndToDRAM = v])
           /\ [c EXCEPT !.spillEndToDRAM = v].ops = c.ops
<1> DEFINE d == [c EXCEPT !.spillEndToDRAM = v]
<1>1. c = [ops |-> c.ops, state |-> c.state, config |-> c.config,
           memReconfigEntryMap |-> c.memReconfigEntryMap,
           spillEndToDRAM |-> c.spillEndToDRAM]
  BY DEF chainFine, isRecord
<1>2. d = [ops |-> c.ops, state |-> c.state, config |-> c.config,
           memReconfigEntryMap |-> c.memReconfigEntryMap,
           spillEndToDRAM |-> v]
  BY <1>1
<1> HIDE DEF d
<1>3. isRecord(d) /\ d.ops = c.ops /\ d.memReconfigEntryMap = c.memReconfigEntryMap
  BY <1>2 DEF isRecord
<1>4. chainFine(d)
  BY <1>3 DEF chainFine
<1> QED
  BY <1>3, <1>4 DEF d

\* The chain takes the solver's entries, and is spilled at its last op.
LEMMA CompletedFine ==
    ASSUME Solving, ops' = ops, chainCompleted
    PROVE  phase' = "resolve" /\ ChainsFine' /\ SolverInv'
<1> DEFINE l == l1ChainConfigs
           v == TRUE
           a == complete(l[chain], selectedOpConfig, memReconfigMap)
           c == [a EXCEPT !.spillEndToDRAM = v]
<1>1. stage = "settle" /\ phase' = "resolve" /\ at = Len(shardSpecs) /\ resetSolver
  BY DEF chainCompleted, Solving
<1>2. chain \in DOMAIN l /\ at \in DOMAIN shardSpecs
  BY <1>1 DEF Solving, SolverInv
<1>3. l' = replaced(l, chain, c)
  BY DEF chainCompleted, replaced
<1> HIDE DEF v
<1>4. chainFine(l[chain]) /\ shardSpecs = l[chain].ops
  BY <1>2, AtChain DEF shardSpecs
<1>5. \A e \in DOMAIN memReconfigMap : edgeFine(e)
  BY DEF Solving, SolverInv
<1>6. chainFine(a) /\ a.ops = shardSpecs
  BY <1>4, <1>5, CompleteFine
<1> HIDE DEF a
<1>7. opFine(Last(a.ops))
  BY <1>1, <1>2, <1>6, AtChain DEF Last
<1>8. chainFine(c) /\ c.ops = shardSpecs
  BY <1>6, <1>7, SpilledFine
<1> HIDE DEF c
<1>9. shardSpecs # <<>>
  BY <1>2
<1>10. stage' = "idle" /\ \A e \in DOMAIN memReconfigMap' : edgeFine(e)
  BY <1>1, ResetFine
<1> QED
  BY <1>1, <1>2, <1>3, <1>8, <1>9, <1>10, ChainSteps

\* The chains are resolved one after another.
LEMMA ResolveFine ==
    ASSUME ModulesWellFormed, Solving, resolveChain, phase' # "abort"
    PROVE  phase' = "resolve" /\ ChainsFine' /\ SolverInv'
<1>1. ops' = ops
  BY DEF resolveChain, graphvars
<1>2. CASE resolveWithSolver
  BY <1>1, <1>2, StartFine
<1>3. CASE resolveEdge /\ UNCHANGED <<l1ChainConfigs, chain>>
  BY <1>1, <1>3, EdgeStepFine
<1>4. CASE preprocessFirstOp /\ UNCHANGED <<chainvars, chain>>
  <2>1. ChainsFine' /\ SolverInv'
    BY <1>1, <1>4, FirstFine
  <2> QED
    BY <1>4, <2>1 DEF chainvars, Solving
<1>5. CASE (process \/ nextConsumer \/ nextUpdate) /\ UNCHANGED <<chainvars, chain>>
  <2>1. UNCHANGED <<ops, l1ChainConfigs, chain>> /\ UNCHANGED phase
    BY <1>1, <1>5 DEF chainvars
  <2> QED
    BY <1>5, <2>1, OtherStepsFine
<1>6. CASE updateRound /\ UNCHANGED <<l1ChainConfigs, chain>>
  BY <1>1, <1>6, OtherStepsFine
<1>7. CASE chainFailed \/ chainResolved
  BY <1>1, <1>7, StateStepsFine
<1>8. CASE pickOpShardConfig
  <2>1. UNCHANGED <<l1ChainConfigs, chain>>
    BY <1>8 DEF pickOpShardConfig
  <2> QED
    BY <1>1, <1>8, <2>1, OtherStepsFine
<1>9. CASE nextPick
  <2>1. UNCHANGED <<l1ChainConfigs, chain>>
    BY <1>9 DEF nextPick
  <2> QED
    BY <1>1, <1>9, <2>1, OtherStepsFine
<1>10. CASE chainCompleted
  BY <1>1, <1>10, CompletedFine
<1> QED
  BY <1>2, <1>3, <1>4, <1>5, <1>6, <1>7, <1>8, <1>9, <1>10 DEF resolveChain

-----------------------------------------------------------------------------
(* The types of the functions: the steps of the pass                       *)

\* A step of the depth first policy.
LEMMA ShardingKeepsTypes ==
    ASSUME ModulesWellFormed, DFInv, ResultsInv, DFSharding
    PROVE  ResultsInv'
<1>1. /\ policy = "DFSharding" /\ DFNext
      /\ UNCHANGED <<applied, funcType, policy>>
  BY DEF DFSharding, optvars
<1>2. /\ ops' = ops /\ overrideReshardEdges' = overrideReshardEdges
      /\ phase \in {"schedule", "resolve"}
  BY <1>1 DEF DFNext, scheduleRound, nextFunc, resolveChain, chainsDone, graphvars
<1>3. ModuleInv /\ ChainsFine /\ SolverInv
  BY <1>1, <1>2 DEF ResultsInv
<1>4. BlockInv /\ ScheduleInv /\ ChainsInv /\ FollowedInv /\ CurrentInv
  BY <1>1, <1>2 DEF DFInv
<1>5. CASE scheduleRound
  <2>1. Scheduling
    BY <1>1, <1>4, <1>5 DEF Scheduling, scheduleRound, DFInv
  <2>2. ChainsFine' /\ SolverInv'
    BY <1>3, <1>5, <2>1, RoundFine
  <2>3. phase' = "schedule"
    BY <1>5 DEF scheduleRound, skipLayoutOp, extendChain, endChain, chainvars
  <2> QED
    BY <1>1, <1>2, <2>2, <2>3, PolicyKeeps
<1>6. CASE nextFunc
  <2>1. Scheduling
    BY <1>1, <1>4, <1>6 DEF Scheduling, nextFunc, DFInv
  <2>2. ChainsFine' /\ SolverInv'
    BY <1>3, <1>6, <2>1, NextFuncFine
  <2>3. phase' \in {"schedule", "resolve"}
    BY <1>6 DEF nextFunc
  <2> QED
    BY <1>1, <1>2, <2>2, <2>3, PolicyKeeps
<1>7. CASE resolveChain
  <2>1. Solving
    BY <1>3, <1>4, <1>7 DEF Solving, BlockInv, resolveChain
  <2>2. phase' # "abort" => phase' = "resolve" /\ ChainsFine' /\ SolverInv'
    BY <1>7, <2>1, ResolveFine
  <2>3. phase' \notin {"reconfig", "done"}
    BY <2>2
  <2> QED
    BY <1>1, <1>2, <2>2, <2>3, PolicyKeeps
<1>8. CASE chainsDone
  <2>1. phase' = "apply" /\ l1ChainConfigs' = l1ChainConfigs
    BY <1>8 DEF chainsDone
  <2>2. ChainsFine'
    BY <1>2, <1>3, <2>1, ListFine DEF ChainsFine
  <2> QED
    BY <1>1, <1>2, <2>1, <2>2, PolicyKeeps
<1> QED
  BY <1>1, <1>5, <1>6, <1>7, <1>8 DEF DFNext

\* A step of the other policies.
LEMMA InterleavedKeepsTypes ==
    ASSUME ResultsInv, BFInterleaved \/ GreedyL1Interleaved
    PROVE  ResultsInv'
<1>1. /\ policy' # "DFSharding"
      /\ UNCHANGED <<applied, funcType, policy, overrideReshardEdges>>
  BY DEF BFInterleaved, GreedyL1Interleaved, optvars
<1>2. BFNext \/ GreedyNext
  BY DEF BFInterleaved, GreedyL1Interleaved
<1>3. phase = "schedule"
  BY <1>2 DEF BFNext, GreedyNext, scheduleLeastChange, finishFunc, scheduleGreedily,
     nextRound, completeFunc
<1>4. ModuleInv /\ ChainsFine
  BY <1>3 DEF ResultsInv
<1>5. CASE scheduleLeastChange
  BY <1>1, <1>3, <1>4, <1>5, LeastChangeFine, PolicyKeeps
<1>6. CASE finishFunc
  BY <1>1, <1>3, <1>4, <1>6, FinishFuncFine, PolicyKeeps
<1>7. CASE scheduleGreedily \/ nextRound
  <2>1. ops' = ops /\ l1ChainConfigs' = l1ChainConfigs /\ phase' = "schedule"
    BY <1>3, <1>7 DEF scheduleGreedily, nextRound, graphvars, chainvars
  <2>2. ChainsFine'
    BY <1>3, <1>4, <2>1, ListFine DEF ChainsFine
  <2> QED
    BY <1>1, <1>3, <2>1, <2>2, PolicyKeeps
<1>8. CASE completeFunc
  BY <1>1, <1>3, <1>4, <1>8, CompleteFuncFine, PolicyKeeps
<1> QED
  BY <1>2, <1>5, <1>6, <1>7, <1>8 DEF BFNext, GreedyNext

\* The function that is rewritten stays the same.
LEMMA AppliedNow ==
    ASSUME applied' = applied, NEW f, f = applied
    PROVE  returnedNow(applied)' = returnedNow(f)'
<1>1. terminator(applied)' = terminator(f)'
  BY DEF terminator, Kind
<1> QED
  BY <1>1 DEF returnedNow, operandLayout

\* The rewrite of a function keeps what is known of the others and of the chains.
LEMMA RewriteKeeps ==
    ASSUME ResultsInv, phase \in {"apply", "reconfig"}, KeepsReturns(ops'), phase' = "reconfig",
           UNCHANGED <<l1ChainConfigs, overrideReshardEdges, applied, funcType>>,
           \A f \in Funcs : f < applied => returnedNow(f)' = returnedNow(f),
           \A e \in pendingEdges' : edgeFine(e),
           \A i \in spills' : i \in DOMAIN l1ChainConfigs /\ l1ChainConfigs[i].spillEndToDRAM,
           resultTypes' = returnedNow(applied)'
    PROVE  ResultsInv'
<1>1. ModuleInv /\ ChainsFine /\ TypesInv /\ \A e \in overrideReshardEdges : edgeFine(e)
  BY DEF ResultsInv
<1>2. /\ ModuleInv' /\ Funcs' = Funcs
      /\ \A e : edgeFine(e) => edgeFine(e)'
      /\ \A o : opFine(o) => opFine(o)'
  BY <1>1, ReturnsStay
<1>3. \A c : chainFine(c) => chainFine(c)'
  BY <1>2 DEF chainFine
<1>4. ChainsFine'
  BY <1>1, <1>3 DEF ChainsFine
<1>5. TypesInv'
  BY <1>1, <1>2 DEF TypesInv
<1>6. \A e \in overrideReshardEdges' : edgeFine(e)'
  BY <1>1, <1>2
<1> QED
  BY <1>2, <1>4, <1>5, <1>6 DEF ResultsInv

\* What the analysis asks for comes from the chains and from the user.
LEMMA AnalysisFine ==
    ASSUME ChainsFine, \A e \in overrideReshardEdges : edgeFine(e)
    PROVE  \A e \in reconfigEdges : edgeFine(e)
<1> SUFFICES ASSUME NEW e \in DOMAIN analysisEntries PROVE edgeFine(e)
  BY DEF reconfigEdges
<1>1. DOMAIN analysisEntries = UNION {DOMAIN c.memReconfigEntryMap : c \in Completed}
  BY DEF analysisEntries
<1>2. PICK c \in Completed : e \in DOMAIN c.memReconfigEntryMap
  BY <1>1
<1>3. chainFine(c)
  BY DEF Completed, ChainsFine
<1> QED
  BY <1>2, <1>3 DEF chainFine

\* The types are collected before the reshards and the spills.
LEMMA ApplyKeepsTypes ==
    ASSUME ResultsInv, applyAnalysis
    PROVE  ResultsInv'
<1>1. /\ phase = "apply" /\ phase' = "reconfig"
      /\ UNCHANGED <<l1ChainConfigs, overrideReshardEdges, applied, funcType>>
      /\ pendingEdges' \subseteq reconfigEdges /\ spills' = spillToDramOps
  BY DEF applyAnalysis
<1>2. ModuleInv /\ ChainsFine /\ TypesInv /\ \A e \in overrideReshardEdges : edgeFine(e)
  BY <1>1 DEF ResultsInv
<1>3. applied \in Funcs /\ Funcs \subseteq Nat
  BY <1>2 DEF TypesInv, ModuleInv
<1>4. /\ KeepsReturns(ops')
      /\ \A o \in DOMAIN ops : ops[o].func # applied => ops'[o].layout = ops[o].layout
      /\ resultTypes' = returnedNow(applied)'
  BY <1>2, <1>3, ApplyKeeps
<1>5. ASSUME NEW f \in Funcs, f < applied PROVE returnedNow(f)' = returnedNow(f)
  <2>1. f # applied
    BY <1>3, <1>5
  <2> QED
    BY <1>2, <1>4, <2>1, TypesStay
<1>6. \A e \in pendingEdges' : edgeFine(e)
  BY <1>1, <1>2, AnalysisFine
<1>7. \A i \in spills' : i \in DOMAIN l1ChainConfigs /\ l1ChainConfigs[i].spillEndToDRAM
  BY <1>1 DEF spillToDramOps
<1> QED
  BY <1>1, <1>4, <1>5, <1>6, <1>7, RewriteKeeps

\* A reshard leaves what is returned.
LEMMA ReshardKeepsTypes ==
    ASSUME ResultsInv, processMemReconfigEdges
    PROVE  ResultsInv'
<1>1. /\ phase = "reconfig"
      /\ UNCHANGED <<l1ChainConfigs, overrideReshardEdges, applied, funcType, spills, resultTypes>>
  BY DEF processMemReconfigEdges
<1>2. ModuleInv /\ TypesInv
  BY <1>1 DEF ResultsInv
<1>3. PICK e \in pendingEdges :
        \/ phase' = "abort"
        \/ /\ processMemReconfigEdge(e)
           /\ pendingEdges' = pendingEdges \ {e}
           /\ UNCHANGED phase
  BY DEF processMemReconfigEdges
<1>4. CASE phase' = "abort"
  BY <1>4 DEF ResultsInv
<1>5. CASE phase' # "abort"
  <2>1. edgeFine(e)
    BY <1>1, <1>2 DEF TypesInv
  <2>2. /\ KeepsReturns(ops')
        /\ \A o \in DOMAIN ops : returned(o) => ops'[o].layout = ops[o].layout
    BY <1>2, <1>3, <1>5, <2>1, EdgeKeeps
  <2>3. \A f \in Funcs : returnedNow(f)' = returnedNow(f)
    BY <1>2, <2>2, TypesStay
  <2>4. /\ \A d \in pendingEdges' : edgeFine(d)
        /\ \A i \in spills' : i \in DOMAIN l1ChainConfigs /\ l1ChainConfigs[i].spillEndToDRAM
        /\ resultTypes' = returnedNow(applied) /\ applied \in Funcs
    BY <1>1, <1>2, <1>3, <1>5 DEF TypesInv
  <2>5. resultTypes' = returnedNow(applied)'
    <3>1. PICK f \in Funcs : f = applied
      BY <2>4
    <3>2. returnedNow(applied)' = returnedNow(f)'
      BY <1>1, <3>1, AppliedNow
    <3> QED
      BY <2>3, <2>4, <3>1, <3>2
  <2> QED
    BY <1>1, <1>3, <1>5, <2>2, <2>3, <2>4, <2>5, RewriteKeeps
<1> QED
  BY <1>4, <1>5

\* So does a spill, because the last op of a chain is not returned.
LEMMA SpillKeepsTypes ==
    ASSUME ResultsInv, processSpillOp
    PROVE  ResultsInv'
<1> DEFINE n == Min(spills)
           o == Last(l1ChainConfigs[n].ops)
           new == Len(ops) + 1
<1>1. /\ phase = "reconfig" /\ phase' = phase /\ spills # {} /\ spills' = spills \ {n}
      /\ UNCHANGED <<l1ChainConfigs, overrideReshardEdges, applied, funcType,
                     pendingEdges, resultTypes>>
  BY DEF processSpillOp, chainvars
<1>2. ModuleInv /\ ChainsFine /\ TypesInv
  BY <1>1 DEF ResultsInv
<1>3. PICK u \in uses(o) :
        ops' = Append([ops EXCEPT ![u[1]].ins[u[2]] = new], newToLayout(ops[o].func, o, DRAM))
  BY DEF processSpillOp
<1>4. \A i \in spills : i \in DOMAIN l1ChainConfigs /\ l1ChainConfigs[i].spillEndToDRAM
  BY <1>1, <1>2 DEF TypesInv
<1>5. n \in spills
  <2>1. DOMAIN l1ChainConfigs \subseteq Nat
    BY <1>2 DEF ChainsFine
  <2>2. spills \subseteq Nat
    BY <1>4, <2>1
  <2> QED
    BY <1>1, <2>2, MinIsLeast
<1> HIDE DEF n
<1>6. opFine(o)
  <2>1. chainFine(l1ChainConfigs[n])
    BY <1>2, <1>4, <1>5 DEF ChainsFine, ToSet
  <2> QED
    BY <1>4, <1>5, <2>1 DEF chainFine
<1> HIDE DEF o, new
<1>7. KeepsReturns(ops') /\ \A p \in DOMAIN ops : ops'[p].layout = ops[p].layout
  BY <1>2, <1>3, <1>6, SpillKeeps
<1>8. \A f \in Funcs : returnedNow(f)' = returnedNow(f)
  BY <1>2, <1>7, TypesStay
<1>9. /\ \A d \in pendingEdges' : edgeFine(d)
      /\ \A i \in spills' : i \in DOMAIN l1ChainConfigs /\ l1ChainConfigs[i].spillEndToDRAM
      /\ resultTypes' = returnedNow(applied) /\ applied \in Funcs
  BY <1>1, <1>2 DEF TypesInv
<1>10. resultTypes' = returnedNow(applied)'
  <2>1. PICK f \in Funcs : f = applied
    BY <1>9
  <2>2. returnedNow(applied)' = returnedNow(f)'
    BY <1>1, <2>1, AppliedNow
  <2> QED
    BY <1>8, <1>9, <2>1, <2>2
<1> QED
  BY <1>1, <1>7, <1>8, <1>9, <1>10, RewriteKeeps

\* The function has its type, and the next one is rewritten.
LEMMA TypeKeepsTypes ==
    ASSUME ResultsInv, setFuncType
    PROVE  ResultsInv'
<1>1. /\ phase = "reconfig" /\ phase' = (IF applied + 1 \in Funcs THEN "apply" ELSE "done")
      /\ ops' = ops /\ UNCHANGED <<l1ChainConfigs, overrideReshardEdges>>
      /\ funcType' = [funcType EXCEPT ![applied] = resultTypes]
      /\ applied' = IF applied + 1 \in Funcs THEN applied + 1 ELSE applied
  BY DEF setFuncType, graphvars
<1>2. ModuleInv /\ ChainsFine /\ TypesInv /\ \A e \in overrideReshardEdges : edgeFine(e)
  BY <1>1 DEF ResultsInv
<1>3. /\ ModuleInv' /\ Funcs' = Funcs
      /\ \A f \in Funcs : returnedNow(f)' = returnedNow(f)
      /\ \A e : edgeFine(e)' <=> edgeFine(e)
  BY <1>1, <1>2, FineUnchanged
<1>4. ChainsFine'
  BY <1>1, <1>2, ListFine DEF ChainsFine
<1>5. PICK m \in Nat : Funcs = 1 .. m
  BY <1>2 DEF ModuleInv
<1>6. applied \in Funcs /\ DOMAIN funcType = Funcs /\ resultTypes = returnedNow(applied)
      /\ \A f \in Funcs : f < applied => funcType[f] = returnedNow(f)
  BY <1>1, <1>2 DEF TypesInv
<1>7. \A f \in Funcs : f <= applied => funcType'[f] = returnedNow(f)
  BY <1>1, <1>5, <1>6
<1>8. \A f \in Funcs : f < applied' \/ phase' = "done" => f <= applied
  BY <1>1, <1>5, <1>6
<1>9. applied' \in Funcs /\ DOMAIN funcType' = Funcs /\ phase' # "reconfig"
  BY <1>1, <1>6
<1>10. TypesInv'
  BY <1>3, <1>7, <1>8, <1>9 DEF TypesInv
<1> QED
  BY <1>1, <1>2, <1>3, <1>4, <1>10 DEF ResultsInv

\* Nothing changes.
LEMMA StutterKeepsTypes ==
    ASSUME ResultsInv, UNCHANGED vars
    PROVE  ResultsInv'
<1>1. /\ ops' = ops
      /\ UNCHANGED <<l1ChainConfigs, phase, chain, overrideReshardEdges, policy, applied,
                     pendingEdges, spills, resultTypes, funcType, stage, at, memReconfigMap>>
  BY DEF vars, dfvars, graphvars, chainvars, solvervars, optvars
<1> SUFFICES ASSUME phase # "abort" PROVE ResultsInv'
  BY <1>1 DEF ResultsInv
<1>2. ModuleInv /\ ChainsFine /\ TypesInv /\ \A e \in overrideReshardEdges : edgeFine(e)
  BY DEF ResultsInv
<1>3. /\ ModuleInv' /\ Funcs' = Funcs
      /\ \A f \in Funcs : returnedNow(f)' = returnedNow(f)
      /\ \A e : edgeFine(e)' <=> edgeFine(e)
      /\ \A c : shardingChain(c)' <=> shardingChain(c)
  BY <1>1, <1>2, FineUnchanged
<1>4. ChainsFine'
  BY <1>1, <1>2, ListFine DEF ChainsFine
<1>5. returnedNow(applied)' = returnedNow(applied)
  <2>1. PICK f \in Funcs : f = applied
    BY <1>2 DEF TypesInv
  <2>2. returnedNow(applied)' = returnedNow(f)'
    BY <1>1, <2>1, AppliedNow
  <2> QED
    BY <1>3, <2>1, <2>2
<1>6. TypesInv'
  BY <1>1, <1>2, <1>3, <1>5 DEF TypesInv
<1>7. SolverInv => SolverInv'
  <2>1. shardSpecs' = shardSpecs
    BY <1>1 DEF shardSpecs
  <2> QED
    BY <1>1, <1>3, <2>1 DEF SolverInv
<1> QED
  BY <1>1, <1>2, <1>3, <1>4, <1>6, <1>7 DEF ResultsInv

\* Every module has its returns when the pass starts.
LEMMA InitModule ==
    ASSUME ModulesWellFormed, InitGraph
    PROVE  ModuleInv /\ 1 \in Funcs
<1>1. ops \in Graphs
  BY DEF InitGraph
<1> DEFINE R == [func : Nat, kind : Kinds, ins : Seq(Nat), layout : {DRAM, Host}]
<1>2. ops \in Seq(R) /\ Len(ops) \in Nat /\ DOMAIN ops = 1 .. Len(ops)
      /\ 1 \in DOMAIN ops /\ ops[1].func = 1
  BY <1>1, GraphFacts
<1>3. \A o \in DOMAIN ops : isOp(ops[o])
  <2>1. \A r \in R : isOp(r)
    BY DEF isOp
  <2> HIDE DEF R
  <2> QED
    BY <1>2, <2>1
<1>4. ops \in Seq(ToSet(ops))
  <2> HIDE DEF R
  <2> QED
    BY <1>2, OwnElements
<1>5. Funcs = 1 .. ops[Len(ops)].func /\ ops[Len(ops)].func \in Nat
  <2>1. Len(ops) \in DOMAIN ops
    BY <1>2
  <2> QED
    BY <1>1, <2>1, GraphFacts DEF ModulesWellFormed, Funcs
<1>6. \A f \in Funcs : \E t \in DOMAIN ops :
        \A o \in DOMAIN ops : isReturnOf(f, o) <=> o = t
  BY <1>1, <1>5 DEF ModulesWellFormed, isReturnOf, Kind
<1>7. ASSUME NEW r \in DOMAIN ops, Kind(r) = "return", NEW d \in operands(r)
      PROVE  d = 0 \/ (d \in DOMAIN ops /\ ops[d].func = ops[r].func)
  <2>1. PICK i \in DOMAIN ops[r].ins : ops[r].ins[i] = d
    BY DEF operands, ToSet
  <2> QED
    BY <1>1, <1>7, <2>1 DEF ModulesWellFormed, Kind
<1>8. 1 \in Funcs
  BY <1>2 DEF Funcs
<1> QED
  BY <1>3, <1>4, <1>5, <1>6, <1>7, <1>8 DEF ModuleInv

\* And the user overrides no edge into a return.
LEMMA InitOverrides ==
    ASSUME ModulesWellFormed, ops \in Graphs, NEW params \in Overrides(ops),
           overrideReshardEdges = extractReshardEdges(params)
    PROVE  \A e \in overrideReshardEdges : edgeFine(e)
<1> SUFFICES ASSUME NEW e \in overrideReshardEdges PROVE edgeFine(e)
  OBVIOUS
<1>1. /\ e[2] \in DOMAIN ops /\ Kind(e[2]) # "return"
      /\ e[3] \in DOMAIN ops[e[2]].ins /\ e[1] = ops[e[2]].ins[e[3]]
  <2>1. PICK p \in params : e = <<ops[p[1]].ins[p[2]], p[1], p[2]>>
    BY DEF extractReshardEdges
  <2>2. p[1] \in DOMAIN ops /\ Kind(p[1]) # "return" /\ p[2] \in DOMAIN ops[p[1]].ins
    BY DEF ModulesWellFormed, Kind
  <2> QED
    BY <2>1, <2>2
<1>2. ASSUME e[1] # 0, Kind(e[1]) = "to_layout", returned(e[1]) PROVE FALSE
  <2> DEFINE d == e[1]
  <2>1. PICK r \in DOMAIN ops : Kind(r) = "return" /\ d \in operands(r)
    BY <1>2 DEF returned
  <2>2. PICK j \in DOMAIN ops[r].ins : ops[r].ins[j] = d
    BY <2>1 DEF operands, ToSet
  <2>3. \A c \in DOMAIN ops : d \in ToSet(ops[c].ins) => Kind(c) = "return"
    BY <1>2, <2>1, <2>2 DEF ModulesWellFormed, Kind
  <2>4. d \in ToSet(ops[e[2]].ins)
    BY <1>1 DEF ToSet
  <2> QED
    BY <1>1, <2>3, <2>4
<1> QED
  BY <1>1, <1>2 DEF edgeFine

\* The invariant holds when the pass starts.
LEMMA InitResults == ModulesWellFormed /\ Init => ResultsInv
<1> SUFFICES ASSUME ModulesWellFormed, Init PROVE ResultsInv
  OBVIOUS
<1>1. ModuleInv /\ 1 \in Funcs
  BY InitModule DEF Init
<1>2. \A e \in overrideReshardEdges : edgeFine(e)
  BY InitOverrides DEF Init, InitGraph
<1>3. phase \in {"schedule", "abort"} /\ l1ChainConfigs = <<NewChain>>
  BY DEF Init, InitChains
<1> DEFINE c == NewChain
<1>4. l1ChainConfigs = <<c>>
  BY <1>3
<1>5. chainFine(c) /\ noSpill(c) /\ shardingChain(c)
  BY NewChainFine
<1> HIDE DEF c
<1>6. l1ChainConfigs \in Seq({c})
  BY <1>4
<1>7. l1ChainConfigs \in Seq(ToSet(l1ChainConfigs)) /\ ToSet(l1ChainConfigs) \subseteq {c}
  BY <1>6, OwnElements
<1>8. ChainsFine
  BY <1>5, <1>7 DEF ChainsFine
<1>9. stage = "idle" /\ memReconfigMap = NoEntries
  BY DEF Init, InitSolver
<1>10. DOMAIN memReconfigMap = {}
  BY <1>9 DEF NoEntries
<1>11. SolverInv
  BY <1>5, <1>7, <1>9, <1>10 DEF SolverInv
<1>12. TypesInv
  <2>1. applied = 1 /\ DOMAIN funcType = Funcs
    BY DEF Init
  <2>2. Funcs \subseteq Nat /\ \A f \in Funcs : ~(f < 1)
    BY <1>1 DEF ModuleInv
  <2> QED
    BY <1>1, <1>3, <2>1, <2>2 DEF TypesInv
<1> QED
  BY <1>1, <1>2, <1>8, <1>11, <1>12 DEF ResultsInv

\* Every step keeps it.
LEMMA StepResults ==
    ModulesWellFormed /\ DFInv /\ ResultsInv /\ [Next]_vars => ResultsInv'
<1> SUFFICES ASSUME ModulesWellFormed, DFInv, ResultsInv, [Next]_vars PROVE ResultsInv'
  OBVIOUS
<1>1. CASE UNCHANGED vars
  BY <1>1, StutterKeepsTypes
<1>2. CASE DFSharding
  BY <1>2, ShardingKeepsTypes
<1>3. CASE BFInterleaved \/ GreedyL1Interleaved
  BY <1>3, InterleavedKeepsTypes
<1>4. CASE apply
  BY <1>4, ApplyKeepsTypes, ReshardKeepsTypes, SpillKeepsTypes, TypeKeepsTypes DEF apply
<1>5. CASE Finished
  BY <1>5, StutterKeepsTypes DEF Finished
<1> QED
  BY <1>1, <1>2, <1>3, <1>4, <1>5 DEF Next

\* The optimizer collects the result types of a function before it inserts reshards
\* and spills.  In every module that the earlier passes may leave, with any policy and
\* whatever the backend answers, the types are still those of the returned values when
\* the pass is done: no reshard and no spill touches what a return reads.
THEOREM ResultTypesStay == ModulesWellFormed => (Spec => []ResultTypesMatch)
<1> SUFFICES ASSUME ModulesWellFormed PROVE Spec => []ResultTypesMatch
  OBVIOUS
<1>1. Init => ResultsInv
  BY InitResults
<1>2. DFInv /\ ResultsInv /\ [Next]_vars => ResultsInv'
  BY StepResults
<1>3. ResultsInv => ResultTypesMatch
  BY DEF ResultsInv, TypesInv, ResultTypesMatch, returnedNow
<1> QED
  BY <1>1, <1>2, <1>3, PolicyInvariant, PTL DEF Spec
==============================================================================
