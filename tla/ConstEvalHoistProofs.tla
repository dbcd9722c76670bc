------------------------ MODULE ConstEvalHoistProofs ------------------------
(***************************************************************************)
(* The const-eval-hoist-transform pass, for every function of one block.   *)
(***************************************************************************)
EXTENDS ConstEvalHoist, FiniteSetTheorems, SequenceTheorems,
        WellFoundedInduction, TLAPS

-----------------------------------------------------------------------------
(* Induction                                                               *)

\* A set of natural numbers has a least element.
LEMMA LeastNumber ==
    ASSUME NEW T, T \subseteq Nat, T # {}
    PROVE  \E m \in T : \A n \in T : m <= n
<1> DEFINE R == OpToRel(<, Nat)
<1>1. IsWellFoundedOn(R, Nat)
  BY NatLessThanWellFounded
<1>2. \A x, y \in Nat : <<y, x>> \in R <=> y < x
  BY DEF OpToRel
<1> HIDE DEF R
<1>3. PICK x \in T : \A y \in T : ~(<<y, x>> \in R)
  BY <1>1, WFMin
<1>4. x \in Nat /\ \A y \in T : y \in Nat /\ ~(y < x)
  BY <1>2, <1>3
<1> QED
  BY <1>3, <1>4

\* A set that has 0, and with n also n + 1, has every natural number.
LEMMA Induct ==
    ASSUME NEW T, 0 \in T, \A n \in Nat : n \in T => n + 1 \in T
    PROVE  \A n \in Nat : n \in T
<1> SUFFICES ASSUME Nat \ T # {} PROVE FALSE
  OBVIOUS
<1>1. PICK m \in Nat \ T : \A n \in Nat \ T : m <= n
  BY LeastNumber
<1>2. m # 0 /\ m - 1 \in Nat
  BY <1>1
<1>3. m - 1 \in T
  BY <1>1, <1>2
<1>4. (m - 1) + 1 = m
  BY <1>2
<1> QED
  BY <1>1, <1>2, <1>3, <1>4

-----------------------------------------------------------------------------
(* inOrder                                                                 *)

\* e lists the elements of S from the least to the greatest.
Ascending(e, n, S) ==
    /\ e \in [1 .. n -> S]
    /\ \A i, j \in 1 .. n : i < j => e[i] < e[j]
    /\ \A x \in S : \E i \in 1 .. n : e[i] = x

\* Every finite set of natural numbers can be listed so.
LEMMA AscendingExists ==
    \A n \in Nat : \A S \in SUBSET Nat :
        IsFiniteSet(S) /\ Cardinality(S) = n => \E e : Ascending(e, n, S)
<1> DEFINE T == {n \in Nat : \A S \in SUBSET Nat :
                   IsFiniteSet(S) /\ Cardinality(S) = n => \E e : Ascending(e, n, S)}
<1>1. 0 \in T
  <2>1. ASSUME NEW S \in SUBSET Nat, IsFiniteSet(S), Cardinality(S) = 0
        PROVE  Ascending(<<>>, 0, S)
    <3>1. S = {}
      BY <2>1, FS_EmptySet
    <3> QED
      BY <3>1 DEF Ascending
  <2> QED
    BY <2>1
<1>2. ASSUME NEW n \in Nat, n \in T
      PROVE  n + 1 \in T
  <2>1. ASSUME NEW S \in SUBSET Nat, IsFiniteSet(S), Cardinality(S) = n + 1
        PROVE  \E e : Ascending(e, n + 1, S)
    <3>1. S # {}
      BY <2>1, FS_EmptySet
    <3>2. PICK m \in S : \A x \in S : m <= x
      BY <3>1, LeastNumber
    <3>3. IsFiniteSet(S \ {m}) /\ Cardinality(S \ {m}) = n
      BY <2>1, FS_RemoveElement
    <3>4. PICK t : Ascending(t, n, S \ {m})
      BY <1>2, <3>3
    <3> DEFINE e == [i \in 1 .. n + 1 |-> IF i = 1 THEN m ELSE t[i - 1]]
    <3>5. e \in [1 .. n + 1 -> S]
      BY <3>4 DEF Ascending
    <3>6. ASSUME NEW i \in 1 .. n + 1, NEW j \in 1 .. n + 1, i < j
          PROVE  e[i] < e[j]
      <4>1. j - 1 \in 1 .. n /\ e[j] = t[j - 1] /\ t[j - 1] \in S \ {m}
        BY <3>4, <3>6 DEF Ascending
      <4>2. CASE i = 1
        <5>1. e[i] = m /\ m \in Nat /\ t[j - 1] \in Nat /\ m <= t[j - 1] /\ m # t[j - 1]
          BY <3>2, <4>1, <4>2
        <5> QED
          BY <4>1, <5>1
      <4>3. CASE i # 1
        <5>1. i - 1 \in 1 .. n /\ e[i] = t[i - 1] /\ i - 1 < j - 1
          BY <3>6, <4>3
        <5> QED
          BY <3>4, <4>1, <5>1 DEF Ascending
      <4> QED
        BY <4>2, <4>3
    <3>7. ASSUME NEW x \in S
          PROVE  \E i \in 1 .. n + 1 : e[i] = x
      <4>1. CASE x = m
        BY <4>1
      <4>2. CASE x # m
        <5>1. PICK i \in 1 .. n : t[i] = x
          BY <3>4, <4>2 DEF Ascending
        <5>2. i + 1 \in 1 .. n + 1 /\ e[i + 1] = x
          BY <5>1
        <5> QED
          BY <5>2
      <4> QED
        BY <4>1, <4>2
    <3> HIDE DEF e
    <3>8. Ascending(e, n + 1, S)
      BY <3>5, <3>6, <3>7 DEF Ascending
    <3> QED
      BY <3>8
  <2> QED
    BY <2>1
<1> HIDE DEF T
<1>3. \A n \in Nat : n \in T
  BY <1>1, <1>2, Induct
<1> QED
  BY <1>3 DEF T

Below(S, n) == {m \in S : m < n}

\* The number of elements below one of an ascending list is its place.
LEMMA PlaceInOrder ==
    ASSUME NEW n \in Nat, NEW S, S \subseteq Nat, NEW e, Ascending(e, n, S),
           NEW k \in 1 .. n
    PROVE  Cardinality(Below(S, e[k])) = k - 1
<1> DEFINE B == Below(S, e[k])
<1> DEFINE f == [i \in 1 .. k - 1 |-> e[i]]
<1>0. e[k] \in Nat /\ \A i \in 1 .. n : e[i] \in Nat
  BY DEF Ascending
<1>1. \A i \in 1 .. k - 1 : f[i] \in B
  BY DEF Ascending, Below
<1>2. \A i, j \in 1 .. k - 1 : f[i] = f[j] => i = j
  BY <1>0 DEF Ascending
<1>3. \A m \in B : \E i \in 1 .. k - 1 : f[i] = m
  <2> SUFFICES ASSUME NEW m \in B
               PROVE  \E i \in 1 .. k - 1 : f[i] = m
    OBVIOUS
  <2>0. m \in S /\ m < e[k]
    BY DEF Below
  <2>1. PICK i \in 1 .. n : e[i] = m
    BY <2>0 DEF Ascending
  <2>2. i # k /\ ~(k < i)
    <3>1. e[i] < e[k] /\ e[i] \in Nat
      BY <1>0, <2>0, <2>1
    <3>2. k < i => e[k] < e[i]
      BY DEF Ascending
    <3> QED
      BY <1>0, <3>1, <3>2
  <2>3. i \in 1 .. k - 1
    BY <2>2
  <2> QED
    BY <2>1, <2>3
<1>4. f \in Bijection(1 .. k - 1, B)
  <2>1. f \in [1 .. k - 1 -> B]
    BY <1>1
  <2> HIDE DEF f, B
  <2>2. f \in Injection(1 .. k - 1, B)
    BY <1>2, <2>1 DEF Injection, IsInjective
  <2>3. f \in Surjection(1 .. k - 1, B)
    BY <1>3, <2>1 DEF Surjection
  <2> QED
    BY <2>2, <2>3 DEF Bijection
<1>5. k - 1 \in Nat /\ ExistsBijection(1 .. k - 1, B)
  BY <1>4 DEF ExistsBijection
<1> HIDE DEF B, f
<1>6. Cardinality(B) = k - 1
  BY <1>5, FS_CountingElements
<1> QED
  BY <1>6 DEF B

\* inOrder lists a set ascending.
LEMMA InOrder ==
    ASSUME NEW S, S \subseteq Nat, IsFiniteSet(S)
    PROVE  /\ Cardinality(S) \in Nat
           /\ Ascending(inOrder(S), Cardinality(S), S)
<1> DEFINE c == Cardinality(S)
<1>1. c \in Nat
  BY FS_CardinalityType
<1>2. PICK e : Ascending(e, c, S)
  BY <1>1, AscendingExists
<1> HIDE DEF c
<1>3. ASSUME NEW k \in 1 .. c
      PROVE  e[k] = CHOOSE n \in S : Cardinality(Below(S, n)) = k - 1
  <2>0. e[k] \in S
    BY <1>2 DEF Ascending
  <2>1. e[k] \in S /\ Cardinality(Below(S, e[k])) = k - 1
    BY <1>1, <1>2, <2>0, PlaceInOrder
  <2>2. ASSUME NEW n \in S, Cardinality(Below(S, n)) = k - 1
        PROVE  n = e[k]
    <3>1. PICK i \in 1 .. c : e[i] = n
      BY <1>2 DEF Ascending
    <3>2. Cardinality(Below(S, n)) = i - 1
      BY <1>1, <1>2, <3>1, PlaceInOrder
    <3> QED
      BY <1>1, <2>2, <3>1, <3>2
  <2> QED
    BY <2>1, <2>2
<1>4. e = [k \in 1 .. c |-> CHOOSE n \in S : Cardinality(Below(S, n)) = k - 1]
  BY <1>2, <1>3 DEF Ascending
<1>5. e = inOrder(S)
  BY <1>4 DEF inOrder, c, Below
<1> QED
  BY <1>1, <1>2, <1>5 DEF c

-----------------------------------------------------------------------------
(* The union-find structure                                                *)

\* The ids are 1 .. n and ranks grow towards the roots.
Forest(uf, n) ==
    /\ n \in Nat
    /\ uf \in [parent : [1 .. n -> 1 .. n], rank : [1 .. n -> Nat]]
    /\ \A x \in 1 .. n : uf.parent[x] # x => uf.rank[x] < uf.rank[uf.parent[x]]
    /\ \E R \in Nat : \A x \in 1 .. n : uf.rank[x] <= R

\* r[x] is the root above x.
Roots(uf, n, r) ==
    /\ r \in [1 .. n -> 1 .. n]
    /\ \A x \in 1 .. n : r[x] = IF uf.parent[x] = x THEN x ELSE r[uf.parent[x]]

\* What holds of an id when it is a root, or when it holds of its parent, holds
\* of all ids.
LEMMA ForestInduct ==
    ASSUME NEW uf, NEW n, Forest(uf, n), NEW T,
           \A x \in 1 .. n : uf.parent[x] = x \/ uf.parent[x] \in T => x \in T
    PROVE  \A x \in 1 .. n : x \in T
<1> SUFFICES ASSUME NEW y \in 1 .. n, y \notin T PROVE FALSE
  OBVIOUS
<1>1. PICK R \in Nat : \A x \in 1 .. n : uf.rank[x] <= R
  BY DEF Forest
<1>2. \A x \in 1 .. n : uf.rank[x] \in Nat /\ uf.parent[x] \in 1 .. n
  BY DEF Forest
<1> DEFINE D == {R - uf.rank[x] : x \in {z \in 1 .. n : z \notin T}}
<1>3. D \subseteq Nat
  BY <1>1, <1>2
<1>4. D # {}
  OBVIOUS
<1>5. PICK d \in D : \A c \in D : d <= c
  <2> HIDE DEF D
  <2> QED
    BY <1>3, <1>4, LeastNumber
<1>6. PICK x \in 1 .. n : x \notin T /\ d = R - uf.rank[x]
  BY <1>5
<1>7. uf.parent[x] # x /\ uf.parent[x] \notin T
  BY <1>6
<1>8. uf.rank[x] < uf.rank[uf.parent[x]]
  BY <1>7 DEF Forest
<1>9. R - uf.rank[uf.parent[x]] \in D
  BY <1>2, <1>7
<1>10. d <= R - uf.rank[uf.parent[x]]
  BY <1>5, <1>9
<1> QED
  BY <1>1, <1>2, <1>6, <1>8, <1>10

\* An id has one root.
LEMMA RootsUnique ==
    ASSUME NEW uf, NEW n, Forest(uf, n), NEW r, NEW q, Roots(uf, n, r), Roots(uf, n, q)
    PROVE  r = q
<1> DEFINE T == {x \in 1 .. n : r[x] = q[x]}
<1>1. \A x \in 1 .. n : uf.parent[x] = x \/ uf.parent[x] \in T => x \in T
  BY DEF Roots
<1> HIDE DEF T
<1>2. \A x \in 1 .. n : x \in T
  BY <1>1, ForestInduct
<1>3. \A x \in 1 .. n : r[x] = q[x]
  BY <1>2 DEF T
<1>4. r \in [1 .. n -> 1 .. n] /\ q \in [1 .. n -> 1 .. n]
  BY DEF Roots
<1>5. r = [x \in 1 .. n |-> r[x]] /\ q = [x \in 1 .. n |-> q[x]]
  BY <1>4
<1>6. [x \in 1 .. n |-> r[x]] = [x \in 1 .. n |-> q[x]]
  BY <1>3
<1> QED
  BY <1>5, <1>6, Zenon

\* A root is its own parent, and of a greater rank than what is below it.
LEMMA RootIsTop ==
    ASSUME NEW uf, NEW n, Forest(uf, n), NEW r, Roots(uf, n, r)
    PROVE  \A x \in 1 .. n :
              /\ uf.parent[r[x]] = r[x]
              /\ r[r[x]] = r[x]
              /\ x # r[x] => uf.rank[x] < uf.rank[r[x]]
<1> DEFINE T == {x \in 1 .. n : /\ uf.parent[r[x]] = r[x]
                                /\ x # r[x] => uf.rank[x] < uf.rank[r[x]]}
<1>1. ASSUME NEW x \in 1 .. n, uf.parent[x] = x \/ uf.parent[x] \in T
      PROVE  x \in T
  <2>1. CASE uf.parent[x] = x
    BY <2>1 DEF Roots
  <2>2. CASE uf.parent[x] # x
    <3>1. r[x] = r[uf.parent[x]] /\ uf.parent[x] \in T
      BY <1>1, <2>2 DEF Roots
    <3>2. /\ uf.rank[x] < uf.rank[uf.parent[x]]
          /\ uf.rank[x] \in Nat /\ uf.rank[uf.parent[x]] \in Nat /\ uf.rank[r[x]] \in Nat
      BY <2>2 DEF Forest, Roots
    <3> QED
      BY <3>1, <3>2
  <2> QED
    BY <2>1, <2>2
<1> HIDE DEF T
<1>2. \A x \in 1 .. n : x \in T
  BY <1>1, ForestInduct
<1> QED
  BY <1>2 DEF T, Roots

\* What is above an id: the least set that has it and the parents of its
\* elements.
above(uf, n, x) ==
    {y \in 1 .. n : \A S \in SUBSET (1 .. n) :
        x \in S /\ (\A z \in S : uf.parent[z] \in S) => y \in S}

\* The set that `find` walks through, of which PathFrom is the recursive form.
LEMMA AboveIsPath ==
    ASSUME NEW uf, NEW n, Forest(uf, n), NEW x \in 1 .. n
    PROVE  above(uf, n, x) = IF uf.parent[x] = x THEN {x}
                             ELSE {x} \cup above(uf, n, uf.parent[x])
<1> DEFINE p == uf.parent[x]
<1>1. p \in 1 .. n /\ \A z \in 1 .. n : uf.parent[z] \in 1 .. n
  BY DEF Forest
<1>2. x \in above(uf, n, x)
  BY DEF above
<1>3. \A y \in above(uf, n, p) : y \in above(uf, n, x)
  BY <1>1 DEF above
<1>4. \A y \in above(uf, n, p) : uf.parent[y] \in above(uf, n, p)
  BY <1>1 DEF above
<1>5. p \in above(uf, n, p)
  BY <1>1 DEF above
<1>6. \A y \in above(uf, n, x) : y = x \/ y \in above(uf, n, p)
  <2> DEFINE S == {x} \cup above(uf, n, p)
  <2>1. S \in SUBSET (1 .. n)
    BY DEF above
  <2>2. x \in S /\ \A z \in S : uf.parent[z] \in S
    BY <1>4, <1>5
  <2> HIDE DEF S
  <2>3. \A y \in above(uf, n, x) : y \in S
    BY <2>1, <2>2 DEF above
  <2> QED
    BY <2>3 DEF S
<1>7. CASE p = x
  <2>1. \A z \in {x} : uf.parent[z] \in {x}
    BY <1>7
  <2>2. \A y \in above(uf, n, x) : y \in {x}
    BY <2>1 DEF above
  <2> QED
    BY <1>2, <1>7, <2>2
<1>8. CASE p # x
  BY <1>2, <1>3, <1>6, <1>8
<1> QED
  BY <1>7, <1>8

\* Every id has a root.
LEMMA RootsExist ==
    ASSUME NEW uf, NEW n, Forest(uf, n)
    PROVE  \E r : Roots(uf, n, r)
<1> DEFINE tops(x) == {y \in above(uf, n, x) : uf.parent[y] = y}
           r == [x \in 1 .. n |-> CHOOSE y \in tops(x) : TRUE]
           T == {x \in 1 .. n : tops(x) # {}}
<1>1. \A x \in 1 .. n : uf.parent[x] \in 1 .. n /\ above(uf, n, x) \subseteq 1 .. n
  BY DEF Forest, above
<1>2. \A x \in 1 .. n : uf.parent[x] = x => tops(x) = {x}
  BY AboveIsPath
<1>3. ASSUME NEW x \in 1 .. n, uf.parent[x] # x
      PROVE  tops(x) = tops(uf.parent[x])
  <2>1. above(uf, n, x) = {x} \cup above(uf, n, uf.parent[x])
    BY <1>3, AboveIsPath
  <2> QED
    BY <1>3, <2>1
<1>4. ASSUME NEW x \in 1 .. n, uf.parent[x] = x \/ uf.parent[x] \in T
      PROVE  x \in T
  <2>1. CASE uf.parent[x] = x
    BY <1>2, <2>1
  <2>2. CASE uf.parent[x] # x
    BY <1>3, <1>4, <2>2
  <2> QED
    BY <2>1, <2>2
<1>5. \A x \in 1 .. n : tops(x) # {}
  <2> HIDE DEF T, tops
  <2>1. \A x \in 1 .. n : x \in T
    BY <1>4, ForestInduct
  <2> QED
    BY <2>1 DEF T
<1>6. \A x \in 1 .. n : tops(x) \subseteq 1 .. n
  BY <1>1
<1> HIDE DEF tops
<1>7. r \in [1 .. n -> 1 .. n]
  BY <1>5, <1>6
<1>8. ASSUME NEW x \in 1 .. n
      PROVE  r[x] = IF uf.parent[x] = x THEN x ELSE r[uf.parent[x]]
  <2>1. CASE uf.parent[x] = x
    BY <1>2, <2>1
  <2>2. CASE uf.parent[x] # x
    BY <1>1, <1>3, <2>2
  <2> QED
    BY <2>1, <2>2
<1> HIDE DEF r
<1>9. Roots(uf, n, r)
  BY <1>7, <1>8 DEF Roots
<1> QED
  BY <1>9

\* rootIn finds the root.
LEMMA RootIn ==
    ASSUME NEW uf, NEW n, Forest(uf, n), NEW r, Roots(uf, n, r), NEW id \in 1 .. n
    PROVE  rootIn(uf.parent, id) = r[id]
<1> DEFINE P(f) == f = [x \in DOMAIN uf.parent |->
                          IF uf.parent[x] = x THEN x ELSE f[uf.parent[x]]]
           up == CHOOSE f : P(f)
<1>0. DOMAIN uf.parent = 1 .. n /\ \A x \in 1 .. n : uf.parent[x] \in 1 .. n
  BY DEF Forest
<1>1. P(r)
  BY <1>0 DEF Roots
<1>2. P(up)
  BY <1>1
<1> HIDE DEF up
<1> DEFINE T == {x \in 1 .. n : up[x] = r[x]}
<1>3. \A x \in 1 .. n : uf.parent[x] = x \/ uf.parent[x] \in T => x \in T
  BY <1>0, <1>2 DEF Roots
<1> HIDE DEF T
<1>4. \A x \in 1 .. n : x \in T
  BY <1>3, ForestInduct
<1>5. up[id] = r[id]
  BY <1>4 DEF T
<1> QED
  BY <1>5 DEF rootIn, up

\* The path that findRoot compresses leads to the root of all that is on it.
PathFrom(uf) ==
    CHOOSE f : f = [x \in DOMAIN uf.parent |->
                      IF uf.parent[x] = x THEN {x} ELSE {x} \cup f[uf.parent[x]]]

\* All ids on the way `find` goes from an id have the root of that id.
LEMMA PathToRoot ==
    ASSUME NEW uf, NEW n, Forest(uf, n), NEW r, Roots(uf, n, r)
    PROVE  \A id \in 1 .. n : \A x \in PathFrom(uf)[id] : x \in 1 .. n /\ r[x] = r[id]
<1> DEFINE P(f) == f = [x \in DOMAIN uf.parent |->
                          IF uf.parent[x] = x THEN {x} ELSE {x} \cup f[uf.parent[x]]]
           path == CHOOSE f : P(f)
           a == [x \in 1 .. n |-> above(uf, n, x)]
<1>0. DOMAIN uf.parent = 1 .. n /\ \A x \in 1 .. n : uf.parent[x] \in 1 .. n
  BY DEF Forest
<1>1. P(a)
  BY <1>0, AboveIsPath
<1>2. P(path)
  <2> HIDE DEF a
  <2> QED
    BY <1>1
<1> HIDE DEF path
<1> DEFINE T == {id \in 1 .. n : \A x \in path[id] : x \in 1 .. n /\ r[x] = r[id]}
<1>3. ASSUME NEW id \in 1 .. n, uf.parent[id] = id \/ uf.parent[id] \in T
      PROVE  id \in T
  <2>1. CASE uf.parent[id] = id
    BY <1>0, <1>2, <2>1
  <2>2. CASE uf.parent[id] # id
    <3>1. path[id] = {id} \cup path[uf.parent[id]] /\ r[id] = r[uf.parent[id]]
      BY <1>0, <1>2, <2>2 DEF Roots
    <3> QED
      BY <1>3, <2>2, <3>1
  <2> QED
    BY <2>1, <2>2
<1> HIDE DEF T
<1>4. \A x \in 1 .. n : x \in T
  BY <1>3, ForestInduct
<1>5. path = PathFrom(uf)
  BY DEF path, PathFrom
<1> QED
  BY <1>4, <1>5 DEF T

\* Path compression changes no root.
LEMMA FindRoot ==
    ASSUME NEW uf, NEW n, Forest(uf, n), NEW r, Roots(uf, n, r), NEW id \in 1 .. n
    PROVE  Forest(findRoot(uf, id), n) /\ Roots(findRoot(uf, id), n, r)
<1> DEFINE path == PathFrom(uf)[id]
           q == [x \in 1 .. n |-> IF x \in path THEN r[id] ELSE uf.parent[x]]
           new == [uf EXCEPT !.parent = q]
<1>0. /\ n \in Nat /\ DOMAIN uf.parent = 1 .. n
      /\ uf.parent \in [1 .. n -> 1 .. n]
      /\ r \in [1 .. n -> 1 .. n]
  BY DEF Forest, Roots
<1>1. \A x \in path : x \in 1 .. n /\ r[x] = r[id]
  BY PathToRoot
<1>2. findRoot(uf, id) = new
  <2>1. rootIn(uf.parent, id) = r[id]
    BY RootIn
  <2> QED
    BY <1>0, <2>1 DEF findRoot, PathFrom
<1> HIDE DEF path
<1>3. q \in [1 .. n -> 1 .. n]
  BY <1>0
<1>r. \A x \in 1 .. n : r[r[x]] = r[x]
  BY RootIsTop
<1>t. \A x \in 1 .. n : x # r[x] => uf.rank[x] < uf.rank[r[x]]
  BY RootIsTop
<1>4. ASSUME NEW x \in 1 .. n, q[x] # x
      PROVE  uf.rank[x] < uf.rank[q[x]]
  <2>1. CASE x \in path
    <3>1. q[x] = r[x]
      BY <1>1, <2>1
    <3> HIDE DEF q
    <3> QED
      BY <1>4, <1>t, <3>1, Zenon
  <2>2. CASE x \notin path
    <3>1. q[x] = uf.parent[x]
      BY <2>2
    <3> QED
      BY <1>4, <3>1 DEF Forest
  <2> QED
    BY <2>1, <2>2
<1>5. ASSUME NEW x \in 1 .. n
      PROVE  r[x] = IF q[x] = x THEN x ELSE r[q[x]]
  <2>1. CASE x \in path
    <3>1. q[x] = r[x]
      BY <1>1, <2>1
    <3> HIDE DEF q
    <3>2. r[r[x]] = r[x]
      BY <1>r, Zenon
    <3> QED
      BY <3>1, <3>2
  <2>2. CASE x \notin path
    <3>1. q[x] = uf.parent[x]
      BY <2>2
    <3> QED
      BY <3>1 DEF Roots
  <2> QED
    BY <2>1, <2>2
<1> HIDE DEF q
<1>6. /\ new \in [parent : [1 .. n -> 1 .. n], rank : [1 .. n -> Nat]]
      /\ new.parent = q /\ new.rank = uf.rank
  BY <1>3 DEF Forest
<1> HIDE DEF new
<1>7. Forest(new, n)
  BY <1>4, <1>6 DEF Forest
<1>8. Roots(new, n, r)
  BY <1>5, <1>6 DEF Roots
<1> QED
  BY <1>2, <1>7, <1>8

\* Ids that have one root in r have one root in q.
Coarser(n, r, q) == \A x, y \in 1 .. n : r[x] = r[y] => q[x] = q[y]

\* Two roots are linked: what was below one of them is below both.
LEMMA LinkRoots ==
    ASSUME NEW uf, NEW n, Forest(uf, n), NEW r, Roots(uf, n, r),
           NEW x \in 1 .. n, NEW y \in 1 .. n
    PROVE  /\ Forest(linkRoots(uf, r[x], r[y]), n)
           /\ \E q : /\ Roots(linkRoots(uf, r[x], r[y]), n, q)
                     /\ Coarser(n, r, q)
                     /\ q[x] = q[y]
<1> DEFINE a == r[x]
           b == r[y]
<1>0. /\ a \in 1 .. n /\ b \in 1 .. n /\ n \in Nat
      /\ uf.parent[a] = a /\ uf.parent[b] = b
      /\ r[a] = a /\ r[b] = b
  <2>1. r \in [1 .. n -> 1 .. n] /\ n \in Nat
    BY DEF Roots, Forest
  <2>2. \A z \in 1 .. n : uf.parent[r[z]] = r[z] /\ r[r[z]] = r[z]
    BY RootIsTop
  <2> QED
    BY <2>1, <2>2
<1>1. /\ uf \in [parent : [1 .. n -> 1 .. n], rank : [1 .. n -> Nat]]
      /\ uf.parent \in [1 .. n -> 1 .. n]
      /\ uf.rank \in [1 .. n -> Nat]
  BY DEF Forest
<1>2. CASE a = b
  BY <1>2, <1>1 DEF linkRoots, Coarser
<1>3. ASSUME NEW from \in {a, b}, NEW to \in {a, b}, from # to,
             NEW new, new \in [parent : [1 .. n -> 1 .. n], rank : [1 .. n -> Nat]],
             new.parent = [uf.parent EXCEPT ![from] = to],
             \A z \in 1 .. n : z # to => new.rank[z] = uf.rank[z],
             uf.rank[to] <= new.rank[to], new.rank[from] < new.rank[to]
      PROVE  /\ Forest(new, n)
             /\ \E q : Roots(new, n, q) /\ Coarser(n, r, q) /\ q[x] = q[y]
  <2>1. from \in 1 .. n /\ to \in 1 .. n /\ uf.parent[from] = from /\ uf.parent[to] = to
        /\ r[from] = from /\ r[to] = to
    BY <1>0, <1>3
  <2>2. \A z \in 1 .. n : new.parent[z] = IF z = from THEN to ELSE uf.parent[z]
    BY <1>1, <1>3, <2>1
  <2>3. \A z \in 1 .. n : new.rank[z] \in Nat /\ uf.rank[z] \in Nat
    BY <1>1, <1>3
  <2>4. ASSUME NEW z \in 1 .. n, new.parent[z] # z
        PROVE  new.rank[z] < new.rank[new.parent[z]]
    <3>1. CASE z = from
      BY <1>3, <2>2, <3>1
    <3>2. CASE z # from
      <4>1. new.parent[z] = uf.parent[z] /\ uf.parent[z] \in 1 .. n /\ z # to
        BY <1>1, <2>1, <2>2, <2>4, <3>2
      <4>2. uf.rank[z] < uf.rank[uf.parent[z]] /\ new.rank[z] = uf.rank[z]
        BY <1>3, <2>4, <4>1 DEF Forest
      <4>3. uf.rank[uf.parent[z]] <= new.rank[uf.parent[z]]
        BY <1>3, <2>3, <4>1
      <4> QED
        BY <2>3, <4>1, <4>2, <4>3
    <3> QED
      BY <3>1, <3>2
  <2>5. \E R \in Nat : \A z \in 1 .. n : new.rank[z] <= R
    <3>1. PICK R \in Nat : \A z \in 1 .. n : uf.rank[z] <= R
      BY DEF Forest
    <3>2. \A z \in 1 .. n : new.rank[z] <= R + new.rank[to]
      BY <1>3, <2>1, <2>3, <3>1
    <3>3. R + new.rank[to] \in Nat
      BY <2>1, <2>3
    <3> QED
      BY <3>2, <3>3
  <2>6. Forest(new, n)
    BY <1>0, <1>3, <2>4, <2>5 DEF Forest
  <2> DEFINE q == [z \in 1 .. n |-> IF r[z] = from THEN to ELSE r[z]]
  <2>7. q \in [1 .. n -> 1 .. n]
    BY <2>1 DEF Roots
  <2>8. ASSUME NEW z \in 1 .. n
        PROVE  q[z] = IF new.parent[z] = z THEN z ELSE q[new.parent[z]]
    <3>1. CASE z = from
      BY <1>3, <2>1, <2>2, <3>1
    <3>2. CASE z # from /\ uf.parent[z] = z
      BY <2>2, <3>2 DEF Roots
    <3>3. CASE z # from /\ uf.parent[z] # z
      <4>1. r[z] = r[uf.parent[z]] /\ uf.parent[z] \in 1 .. n
        BY <1>1, <3>3 DEF Roots
      <4> QED
        BY <2>2, <3>3, <4>1
    <3> QED
      BY <3>1, <3>2, <3>3
  <2>9. Coarser(n, r, q)
    BY DEF Coarser
  <2>10. q[x] = q[y]
    BY <1>3
  <2> HIDE DEF q
  <2>11. Roots(new, n, q)
    BY <2>7, <2>8 DEF Roots
  <2> QED
    BY <2>6, <2>9, <2>10, <2>11
<1> HIDE DEF a, b
<1>n. a \in 1 .. n /\ b \in 1 .. n
  BY <1>0
<1>i. uf.rank[a] \in Nat /\ uf.rank[b] \in Nat
  BY <1>n, <1>1, Zenon
<1> DEFINE new == linkRoots(uf, a, b)
<1>4. CASE a # b /\ uf.rank[a] < uf.rank[b]
  <2>1. new = [uf EXCEPT !.parent[a] = b]
    BY <1>4 DEF linkRoots
  <2> HIDE DEF new
  <2>2. /\ new \in [parent : [1 .. n -> 1 .. n], rank : [1 .. n -> Nat]]
        /\ new.parent = [uf.parent EXCEPT ![a] = b]
        /\ new.rank = uf.rank
    BY <1>0, <1>1, <2>1
  <2>3. uf.rank[b] <= new.rank[b] /\ new.rank[a] < new.rank[b]
    <3>1. new.rank[a] = uf.rank[a] /\ new.rank[b] = uf.rank[b]
      BY <2>2
    <3>2. uf.rank[a] < uf.rank[b]
      BY <1>4
    <3> QED
      BY <1>i, <3>1, <3>2
  <2>4. Forest(new, n) /\ \E q : Roots(new, n, q) /\ Coarser(n, r, q) /\ q[x] = q[y]
    BY <1>3, <1>4, <2>2, <2>3
  <2> QED
    BY <2>4 DEF new, a, b
<1>5. CASE a # b /\ ~(uf.rank[a] < uf.rank[b])
  <2>1. new = [uf EXCEPT !.parent[b] = a,
                         !.rank[a] = IF @ = uf.rank[b] THEN @ + 1 ELSE @]
    BY <1>5 DEF linkRoots
  <2> DEFINE ra == IF uf.rank[a] = uf.rank[b] THEN uf.rank[a] + 1 ELSE uf.rank[a]
  <2> HIDE DEF new
  <2>r. ra \in Nat
    BY <1>i
  <2>p. /\ DOMAIN new = {"parent", "rank"}
        /\ new.parent = [uf.parent EXCEPT ![b] = a]
        /\ new.rank = [uf.rank EXCEPT ![a] = ra]
    BY <1>1, <2>1
  <2>q. new = [parent |-> new.parent, rank |-> new.rank]
    BY <1>1, <2>1
  <2>2. /\ new \in [parent : [1 .. n -> 1 .. n], rank : [1 .. n -> Nat]]
        /\ new.parent = [uf.parent EXCEPT ![b] = a]
        /\ \A z \in 1 .. n : z # a => new.rank[z] = uf.rank[z]
        /\ new.rank[a] = ra
    <3> HIDE DEF ra
    <3>1. new.parent \in [1 .. n -> 1 .. n] /\ new.rank \in [1 .. n -> Nat]
      BY <1>0, <1>1, <2>p, <2>r
    <3> QED
      BY <1>0, <1>1, <2>p, <2>q, <2>r, <3>1
  <2>3. uf.rank[a] <= new.rank[a] /\ new.rank[b] < new.rank[a]
    <3>1. new.rank[a] = ra /\ new.rank[b] = uf.rank[b]
      BY <1>n, <1>5, <2>2, Zenon
    <3>2. ~(uf.rank[a] < uf.rank[b])
      BY <1>5
    <3> QED
      BY <1>i, <3>1, <3>2
  <2>4. Forest(new, n) /\ \E q : Roots(new, n, q) /\ Coarser(n, r, q) /\ q[x] = q[y]
    BY <1>3, <1>5, <2>2, <2>3
  <2> QED
    BY <2>4 DEF new, a, b
<1> QED
  BY <1>2, <1>4, <1>5

\* Two subgraphs are merged.
LEMMA UnionSubgraphs ==
    ASSUME NEW uf, NEW n, Forest(uf, n), NEW r, Roots(uf, n, r),
           NEW x \in 1 .. n, NEW y \in 1 .. n
    PROVE  /\ Forest(unionSubgraphs(uf, x, y), n)
           /\ \E q : /\ Roots(unionSubgraphs(uf, x, y), n, q)
                     /\ Coarser(n, r, q)
                     /\ q[x] = q[y]
<1> DEFINE first == findRoot(uf, x)
           compressed == findRoot(first, y)
<1>1. Forest(first, n) /\ Roots(first, n, r)
  BY FindRoot
<1> HIDE DEF first
<1>2. Forest(compressed, n) /\ Roots(compressed, n, r)
  BY <1>1, FindRoot
<1> HIDE DEF compressed
<1>3. rootIn(compressed.parent, x) = r[x] /\ rootIn(compressed.parent, y) = r[y]
  BY <1>2, RootIn
<1>4. unionSubgraphs(uf, x, y) = linkRoots(compressed, r[x], r[y])
  BY <1>3 DEF unionSubgraphs, compressed, first
<1> QED
  BY <1>2, <1>4, LinkRoots

\* All subgraphs of ids are merged into one.
LEMMA MergedSubgraphs ==
    ASSUME NEW n, Forest(unionFind, n), NEW r, Roots(unionFind, n, r),
           NEW ids \in Seq(1 .. n), ids # <<>>
    PROVE  /\ Forest(mergedSubgraphs(ids), n)
           /\ \E q : /\ Roots(mergedSubgraphs(ids), n, q)
                     /\ Coarser(n, r, q)
                     /\ \A j \in 1 .. Len(ids) : q[ids[j]] = q[ids[1]]
<1> DEFINE L == Len(ids)
           P(f, m) == f = [k \in 1 .. m |-> IF k = 1 THEN unionFind
                                     ELSE unionSubgraphs(f[k - 1], ids[1], ids[k])]
           merged == CHOOSE f : P(f, L)
           T == {m \in Nat : \E f : P(f, m)}
<1>0. L \in Nat /\ L # 0 /\ 1 \in 1 .. L /\ \A k \in 1 .. L : ids[k] \in 1 .. n
  <2>1. L \in Nat /\ ids \in [1 .. L -> 1 .. n]
    BY LenProperties
  <2>2. L # 0
    OBVIOUS
  <2> QED
    BY <2>1, <2>2
<1>1. 0 \in T
  <2>1. P(<<>>, 0)
    OBVIOUS
  <2> QED
    BY <2>1
<1>2. ASSUME NEW m \in Nat, m \in T PROVE m + 1 \in T
  <2>1. PICK f : P(f, m)
    BY <1>2
  <2> DEFINE g == [k \in 1 .. m + 1 |-> IF k = 1 THEN unionFind
                                        ELSE unionSubgraphs(f[k - 1], ids[1], ids[k])]
  <2>2. \A k \in 1 .. m : g[k] = f[k]
    BY <2>1
  <2> HIDE DEF g
  <2>3. ASSUME NEW k \in 1 .. m + 1, k # 1
        PROVE  g[k - 1] = f[k - 1]
    <3>1. k - 1 \in 1 .. m
      BY <2>3
    <3> QED
      BY <2>2, <3>1, Zenon
  <2>4. P(g, m + 1)
    <3>1. \A k \in 1 .. m + 1 :
            (IF k = 1 THEN unionFind ELSE unionSubgraphs(f[k - 1], ids[1], ids[k]))
              = IF k = 1 THEN unionFind ELSE unionSubgraphs(g[k - 1], ids[1], ids[k])
      BY <2>3
    <3> QED
      BY <3>1, Zenon DEF g
  <2> QED
    BY <2>4
<1>3. \A m \in Nat : m \in T
  <2> HIDE DEF T
  <2> QED
    BY <1>1, <1>2, Induct
<1>4. P(merged, L)
  BY <1>0, <1>3
<1>5. mergedSubgraphs(ids) = merged[L]
  BY DEF mergedSubgraphs
<1> HIDE DEF merged, L
<1> DEFINE Good(k, q) == /\ Roots(merged[k], n, q)
                         /\ Coarser(n, r, q)
                         /\ \A j \in 1 .. k : q[ids[j]] = q[ids[1]]
           U == {m \in Nat : m + 1 \in 1 .. L =>
                                /\ Forest(merged[m + 1], n)
                                /\ \E q : Good(m + 1, q)}
<1>6. 0 \in U
  <2>1. merged[1] = unionFind
    BY <1>0, <1>4
  <2>2. Good(1, r)
    BY <2>1 DEF Coarser
  <2> QED
    BY <2>1, <2>2
<1>7. ASSUME NEW m \in Nat, m \in U PROVE m + 1 \in U
  <2> SUFFICES ASSUME m + 2 \in 1 .. L
               PROVE  Forest(merged[m + 2], n) /\ \E q : Good(m + 2, q)
    OBVIOUS
  <2>1. m + 1 \in 1 .. L
    BY <1>0
  <2>2. PICK p : Good(m + 1, p)
    BY <1>7, <2>1
  <2>3. Forest(merged[m + 1], n)
    BY <1>7, <2>1
  <2>4. merged[m + 2] = unionSubgraphs(merged[m + 1], ids[1], ids[m + 2])
    <3>1. m + 2 # 1 /\ (m + 2) - 1 = m + 1
      OBVIOUS
    <3>2. merged[m + 2] = IF m + 2 = 1 THEN unionFind
                          ELSE unionSubgraphs(merged[(m + 2) - 1], ids[1], ids[m + 2])
      BY <1>4, Zenon
    <3> QED
      BY <3>1, <3>2
  <2> DEFINE u == merged[m + 1]
             a == ids[1]
             b == ids[m + 2]
  <2>5. a \in 1 .. n /\ b \in 1 .. n /\ Forest(u, n) /\ Roots(u, n, p)
    BY <1>0, <2>2, <2>3
  <2>6. Forest(unionSubgraphs(u, a, b), n)
    <3> HIDE DEF u, a, b
    <3> QED
      BY <2>5, UnionSubgraphs
  <2>7. PICK q : Roots(unionSubgraphs(u, a, b), n, q) /\ Coarser(n, p, q) /\ q[a] = q[b]
    <3> HIDE DEF u, a, b
    <3> QED
      BY <2>5, UnionSubgraphs
  <2>8. ASSUME NEW j \in 1 .. m + 2 PROVE q[ids[j]] = q[ids[1]]
    <3>1. CASE j = m + 2
      BY <2>7, <3>1
    <3>2. CASE j # m + 2
      <4>1. j \in 1 .. m + 1 /\ j \in 1 .. L
        BY <1>0, <3>2
      <4>2. p[ids[j]] = p[ids[1]]
        BY <2>2, <4>1
      <4>3. ids[j] \in 1 .. n /\ ids[1] \in 1 .. n
        BY <1>0, <4>1
      <4> QED
        BY <2>7, <4>2, <4>3 DEF Coarser
    <3> QED
      BY <3>1, <3>2
  <2>9. Coarser(n, r, q)
    BY <2>2, <2>7 DEF Coarser
  <2>10. Good(m + 2, q)
    BY <2>4, <2>7, <2>8, <2>9
  <2> QED
    BY <2>4, <2>6, <2>10
<1>8. \A m \in Nat : m \in U
  <2> HIDE DEF U
  <2> QED
    BY <1>6, <1>7, Induct
<1>9. L - 1 \in Nat /\ (L - 1) + 1 = L /\ L \in 1 .. L
  BY <1>0
<1>10. Forest(merged[L], n) /\ \E q : Good(L, q)
  BY <1>8, <1>9
<1> QED
  BY <1>5, <1>10 DEF L

-----------------------------------------------------------------------------
(* Sequences of the elements of a set                                      *)

\* An injection of 1 .. Cardinality(S) into S reaches all of S.
LEMMA ListsAll ==
    ASSUME NEW S, IsFiniteSet(S), NEW f \in [1 .. Cardinality(S) -> S],
           \A i, j \in 1 .. Cardinality(S) : f[i] = f[j] => i = j
    PROVE  Cardinality(S) \in Nat /\ ToSet(f) = S
<1> DEFINE c == Cardinality(S)
<1>1. c \in Nat
  BY FS_CardinalityType
<1>2. IsFiniteSet(1 .. c) /\ Cardinality(1 .. c) = c
  <2> HIDE DEF c
  <2> QED
    BY <1>1, FS_Interval
<1>3. f \in Injection(1 .. c, S)
  BY DEF Injection, IsInjective
<1>4. f \in Surjection(1 .. c, S)
  <2>1. Cardinality(1 .. c) = Cardinality(S)
    BY <1>2
  <2> HIDE DEF c
  <2> QED
    BY <1>3, <2>1, FS_Injection
<1> QED
  BY <1>1, <1>4 DEF Surjection, ToSet

\* An order of the dependent subgraphs has exactly their ids.
LEMMA SetToSeqsElements ==
    ASSUME NEW S, IsFiniteSet(S), NEW ids \in SetToSeqs(S)
    PROVE  ids \in Seq(S) /\ ToSet(ids) = S /\ (ids = <<>> <=> S = {})
<1> DEFINE c == Cardinality(S)
<1>1. ids \in [1 .. c -> S] /\ \A i, j \in 1 .. c : ids[i] = ids[j] => i = j
  BY DEF SetToSeqs
<1>2. c \in Nat /\ ToSet(ids) = S
  BY <1>1, ListsAll
<1>3. c = 0 <=> S = {}
  BY FS_EmptySet
<1> HIDE DEF c
<1>4. ids \in Seq(S)
  BY <1>1, <1>2
<1>5. ids = <<>> => S = {}
  BY <1>2 DEF ToSet
<1>6. S = {} => ids = <<>>
  BY <1>1, <1>3
<1> QED
  BY <1>2, <1>4, <1>5, <1>6

\* The inputs of a function, in some order, are exactly its inputs.
LEMMA SetToSeqElements ==
    ASSUME NEW S, IsFiniteSet(S)
    PROVE  SetToSeq(S) \in Seq(S) /\ ToSet(SetToSeq(S)) = S
<1> DEFINE c == Cardinality(S)
<1>1. c \in Nat
  BY FS_CardinalityType
<1>2. IsFiniteSet(1 .. c) /\ Cardinality(1 .. c) = c
  <2> HIDE DEF c
  <2> QED
    BY <1>1, FS_Interval
<1>3. ExistsBijection(1 .. c, S)
  <2>1. Cardinality(1 .. c) = Cardinality(S)
    BY <1>2
  <2> HIDE DEF c
  <2> QED
    BY <1>2, <2>1, FS_SameCardinalityBij
<1>4. PICK g : g \in Injection(1 .. c, S)
  BY <1>3 DEF ExistsBijection, Bijection
<1>5. g \in [1 .. c -> S] /\ IsInjective(g)
  BY <1>4 DEF Injection
<1>6. SetToSeq(S) \in [1 .. c -> S] /\ IsInjective(SetToSeq(S))
  BY <1>5 DEF SetToSeq
<1>7. \A i, j \in 1 .. c : SetToSeq(S)[i] = SetToSeq(S)[j] => i = j
  BY <1>6 DEF IsInjective
<1>8. ToSet(SetToSeq(S)) = S
  BY <1>6, <1>7, ListsAll
<1> DEFINE f == SetToSeq(S)
<1>9. f \in [1 .. c -> S]
  BY <1>6
<1> HIDE DEF f, c
<1>10. f \in Seq(S)
  BY <1>1, <1>9
<1> QED
  BY <1>8, <1>10 DEF f

\* The elements of an ascending list.
LEMMA InOrderElements ==
    ASSUME NEW S, S \subseteq Nat, IsFiniteSet(S)
    PROVE  /\ inOrder(S) \in Seq(S)
           /\ ToSet(inOrder(S)) = S
           /\ Ascending(inOrder(S), Len(inOrder(S)), S)
<1> DEFINE c == Cardinality(S)
           e == inOrder(S)
<1>1. c \in Nat /\ Ascending(e, c, S)
  BY InOrder
<1> HIDE DEF c, e
<1>2. e \in Seq(S) /\ Len(e) = c /\ DOMAIN e = 1 .. c
  BY <1>1 DEF Ascending
<1>3. ToSet(e) = S
  BY <1>1, <1>2 DEF Ascending, ToSet
<1> QED
  BY <1>1, <1>2, <1>3 DEF e

\* Of two elements of an ascending list the lesser comes first.
LEMMA AscendingPlaces ==
    ASSUME NEW n \in Nat, NEW S, S \subseteq Nat, NEW e, Ascending(e, n, S),
           NEW i \in 1 .. n, NEW j \in 1 .. n, e[j] < e[i]
    PROVE  j < i
<1>1. e[i] \in Nat /\ e[j] \in Nat
  BY DEF Ascending
<1>2. i < j => e[i] < e[j]
  BY DEF Ascending
<1> QED
  BY <1>1, <1>2

\* s lies in flat behind the place o.
Segment(flat, s, o) ==
    \A k \in 1 .. Len(s) : o + k \in 1 .. Len(flat) /\ flat[o + k] = s[k]

\* flat consists of the first m of seqs.
Segments(flat, seqs, m) ==
    /\ \A i \in 1 .. m : \E o \in Nat : Segment(flat, seqs[i], o)
    /\ \A p \in 1 .. Len(flat) : \E i \in 1 .. m : \E o \in Nat :
          Segment(flat, seqs[i], o) /\ \E k \in 1 .. Len(seqs[i]) : p = o + k

\* Inlining one more function appends its body as a segment.
LEMMA SegmentsConcat ==
    ASSUME NEW V, NEW seqs \in Seq(Seq(V)), NEW m \in Nat, m + 1 \in 1 .. Len(seqs),
           NEW flat \in Seq(V), Segments(flat, seqs, m)
    PROVE  /\ flat \o seqs[m + 1] \in Seq(V)
           /\ Segments(flat \o seqs[m + 1], seqs, m + 1)
<1> DEFINE s == seqs[m + 1]
           new == flat \o s
<1>1. s \in Seq(V)
  BY ElementOfSeq
<1>2. Len(flat) \in Nat /\ Len(s) \in Nat
  BY <1>1
<1>3. new \in Seq(V) /\ Len(new) = Len(flat) + Len(s)
  BY <1>1, ConcatProperties
<1>c. \A i \in 1 .. Len(flat) + Len(s) :
         new[i] = IF i <= Len(flat) THEN flat[i] ELSE s[i - Len(flat)]
  BY <1>1, ConcatProperties
<1>4. /\ \A p \in 1 .. Len(flat) : p \in 1 .. Len(new) /\ new[p] = flat[p]
      /\ \A k \in 1 .. Len(s) : Len(flat) + k \in 1 .. Len(new) /\ new[Len(flat) + k] = s[k]
  <2> HIDE DEF new
  <2>1. ASSUME NEW p \in 1 .. Len(flat) PROVE p \in 1 .. Len(new) /\ new[p] = flat[p]
    BY <1>2, <1>3, <1>c
  <2>2. ASSUME NEW k \in 1 .. Len(s)
        PROVE  Len(flat) + k \in 1 .. Len(new) /\ new[Len(flat) + k] = s[k]
    <3>1. /\ Len(flat) + k \in 1 .. Len(flat) + Len(s) /\ ~(Len(flat) + k <= Len(flat))
          /\ (Len(flat) + k) - Len(flat) = k
      BY <1>2
    <3>2. new[Len(flat) + k] = s[(Len(flat) + k) - Len(flat)]
      BY <1>c, <3>1
    <3> QED
      BY <1>3, <3>1, <3>2
  <2> QED
    BY <2>1, <2>2
<1> HIDE DEF new
<1>5. ASSUME NEW i \in 1 .. m, NEW o \in Nat, Segment(flat, seqs[i], o)
      PROVE  Segment(new, seqs[i], o)
  BY <1>4, <1>5 DEF Segment
<1>6. Segment(new, seqs[m + 1], Len(flat))
  BY <1>4 DEF Segment
<1>7. \A i \in 1 .. m + 1 : \E o \in Nat : Segment(new, seqs[i], o)
  <2> SUFFICES ASSUME NEW i \in 1 .. m + 1
               PROVE  \E o \in Nat : Segment(new, seqs[i], o)
    OBVIOUS
  <2>1. CASE i = m + 1
    BY <1>2, <1>6, <2>1
  <2>2. CASE i # m + 1
    <3>1. i \in 1 .. m
      BY <2>2
    <3> QED
      BY <1>5, <3>1 DEF Segments
  <2> QED
    BY <2>1, <2>2
<1>8. ASSUME NEW p \in 1 .. Len(new)
      PROVE  \E i \in 1 .. m + 1 : \E o \in Nat :
                Segment(new, seqs[i], o) /\ \E k \in 1 .. Len(seqs[i]) : p = o + k
  <2>1. CASE p <= Len(flat)
    <3>1. p \in 1 .. Len(flat)
      BY <1>2, <1>3, <2>1
    <3>2. PICK i \in 1 .. m, o \in Nat :
             Segment(flat, seqs[i], o) /\ \E k \in 1 .. Len(seqs[i]) : p = o + k
      BY <3>1 DEF Segments
    <3>3. i \in 1 .. m + 1 /\ Segment(new, seqs[i], o)
      BY <1>5, <3>2
    <3> QED
      BY <3>2, <3>3
  <2>2. CASE ~(p <= Len(flat))
    <3>1. p - Len(flat) \in 1 .. Len(s) /\ p = Len(flat) + (p - Len(flat))
      BY <1>2, <1>3, <2>2
    <3>2. m + 1 \in 1 .. m + 1
      OBVIOUS
    <3>3. \E k \in 1 .. Len(seqs[m + 1]) : p = Len(flat) + k
      BY <3>1
    <3> QED
      BY <1>2, <1>6, <3>2, <3>3
  <2> QED
    BY <2>1, <2>2
<1>9. Segments(new, seqs, m + 1)
  BY <1>7, <1>8 DEF Segments
<1> QED
  BY <1>3, <1>9 DEF new

\* The concatenation of bodies consists of these bodies as segments.
LEMMA FlattenSegments ==
    ASSUME NEW V, NEW seqs \in Seq(Seq(V))
    PROVE  /\ FlattenSeq(seqs) \in Seq(V)
           /\ Segments(FlattenSeq(seqs), seqs, Len(seqs))
<1> DEFINE L == Len(seqs)
           P(f, m) == f = [i \in 1 .. m |-> IF i = 1 THEN seqs[i] ELSE f[i - 1] \o seqs[i]]
           flatten == CHOOSE f : P(f, L)
           T == {m \in Nat : \E f : P(f, m)}
<1>0. L \in Nat
  OBVIOUS
<1>z. CASE L = 0
  <2>1. FlattenSeq(seqs) = <<>>
    BY <1>z DEF FlattenSeq
  <2>2. Len(<<>>) = 0
    OBVIOUS
  <2>3. Segments(<<>>, seqs, 0)
    BY <2>2 DEF Segments
  <2> QED
    BY <1>z, <2>1, <2>3, EmptySeq
<1>1. 0 \in T
  <2>1. P(<<>>, 0)
    OBVIOUS
  <2> QED
    BY <2>1
<1>2. ASSUME NEW m \in Nat, m \in T PROVE m + 1 \in T
  <2>1. PICK f : P(f, m)
    BY <1>2
  <2> DEFINE g == [k \in 1 .. m + 1 |-> IF k = 1 THEN seqs[k] ELSE f[k - 1] \o seqs[k]]
  <2>2. ASSUME NEW k \in 1 .. m PROVE g[k] = f[k]
    <3>1. k \in 1 .. m + 1
      OBVIOUS
    <3>2. f[k] = IF k = 1 THEN seqs[k] ELSE f[k - 1] \o seqs[k]
      BY <2>1, Zenon
    <3>3. g[k] = IF k = 1 THEN seqs[k] ELSE f[k - 1] \o seqs[k]
      BY <3>1, Zenon
    <3> QED
      BY <3>2, <3>3, Zenon
  <2> HIDE DEF g
  <2>3. ASSUME NEW k \in 1 .. m + 1, k # 1
        PROVE  g[k - 1] = f[k - 1]
    <3>1. k - 1 \in 1 .. m
      BY <2>3
    <3> QED
      BY <2>2, <3>1, Zenon
  <2>4. P(g, m + 1)
    <3>1. \A k \in 1 .. m + 1 :
            (IF k = 1 THEN seqs[k] ELSE f[k - 1] \o seqs[k])
              = IF k = 1 THEN seqs[k] ELSE g[k - 1] \o seqs[k]
      BY <2>3
    <3> QED
      BY <3>1, Zenon DEF g
  <2>5. m + 1 \in Nat
    OBVIOUS
  <2> QED
    BY <2>4, <2>5, Zenon
<1>3. \A m \in Nat : m \in T
  <2> HIDE DEF T
  <2> QED
    BY <1>1, <1>2, Induct
<1>4. P(flatten, L)
  BY <1>0, <1>3
<1>5. L # 0 => FlattenSeq(seqs) = flatten[L]
  BY DEF FlattenSeq
<1> HIDE DEF flatten, L
<1> DEFINE U == {m \in Nat : m + 1 \in 1 .. L =>
                                /\ flatten[m + 1] \in Seq(V)
                                /\ Segments(flatten[m + 1], seqs, m + 1)}
<1>6. 0 \in U
  <2> SUFFICES ASSUME 1 \in 1 .. L
               PROVE  flatten[1] \in Seq(V) /\ Segments(flatten[1], seqs, 1)
    OBVIOUS
  <2>1. flatten[1] = seqs[1]
    BY <1>4
  <2>2. seqs[1] \in Seq(V)
    BY ElementOfSeq DEF L
  <2>3. Segment(seqs[1], seqs[1], 0)
    BY <2>2 DEF Segment
  <2>4. \A p \in 1 .. Len(seqs[1]) : p = 0 + p
    BY <2>2
  <2>5. Segments(seqs[1], seqs, 1)
    BY <2>3, <2>4 DEF Segments
  <2> QED
    BY <2>1, <2>2, <2>5
<1>7. ASSUME NEW m \in Nat, m \in U PROVE m + 1 \in U
  <2> SUFFICES ASSUME m + 2 \in 1 .. L
               PROVE  flatten[m + 2] \in Seq(V) /\ Segments(flatten[m + 2], seqs, m + 2)
    OBVIOUS
  <2>1. m + 1 \in 1 .. L /\ m + 1 \in Nat /\ (m + 1) + 1 = m + 2
    BY <1>0
  <2>2. flatten[m + 2] = flatten[m + 1] \o seqs[m + 2]
    <3>1. m + 2 # 1 /\ (m + 2) - 1 = m + 1
      OBVIOUS
    <3>2. flatten[m + 2] = IF m + 2 = 1 THEN seqs[m + 2]
                           ELSE flatten[(m + 2) - 1] \o seqs[m + 2]
      BY <1>4, Zenon
    <3> QED
      BY <3>1, <3>2
  <2> DEFINE f == flatten[m + 1]
             k == m + 1
  <2>3. f \in Seq(V) /\ Segments(f, seqs, k) /\ k \in Nat /\ k + 1 \in 1 .. Len(seqs)
    BY <1>7, <2>1 DEF L
  <2>4. f \o seqs[k + 1] \in Seq(V) /\ Segments(f \o seqs[k + 1], seqs, k + 1)
    <3> HIDE DEF f, k
    <3> QED
      BY <2>3, SegmentsConcat
  <2> QED
    BY <2>1, <2>2, <2>4
<1>8. \A m \in Nat : m \in U
  <2> HIDE DEF U
  <2> QED
    BY <1>6, <1>7, Induct
<1>9. CASE L # 0
  <2>1. L - 1 \in Nat /\ (L - 1) + 1 = L /\ L \in 1 .. L
    BY <1>0, <1>9
  <2>2. flatten[L] \in Seq(V) /\ Segments(flatten[L], seqs, L)
    BY <1>8, <2>1
  <2> QED
    BY <1>5, <1>9, <2>2 DEF L
<1> QED
  BY <1>z, <1>9

-----------------------------------------------------------------------------
(* What the walk over the block establishes                                *)

Uses(n) == ToSet(block[n].ins)

\* The number of subgraph ids.
N == Len(unionFind.parent)

\* An operation uses arguments and the results of operations before it.
BlockTyped ==
    /\ function \in FuncBounds
    /\ block \in Seq([kind : {"creation", "shared", "compute"}, ins : Seq(Int)])
    /\ \A n \in Ops : \A v \in Uses(n) : v \in Params \/ v \in 1 .. n - 1
    /\ \A n \in Ops : block[n].kind # "compute" => Uses(n) = {}

SubgraphsTyped ==
    /\ Forest(unionFind, N)
    /\ subgraphOf \in [DOMAIN subgraphOf -> 1 .. N]
    /\ DOMAIN subgraphOf \subseteq Ops \ Shared
    /\ subgraphParams \in [1 .. N -> SUBSET ConstParams]

\* What an operation of a subgraph uses is a parameter recorded for it, a
\* shared op, or in the same subgraph.
SubgraphsClosed ==
    \A n \in DOMAIN subgraphOf : \A v \in Uses(n) :
        \/ v \in subgraphParams[subgraphOf[n]]
        \/ v \in Shared
        \/ v \in DOMAIN subgraphOf /\ rootOf(v) = rootOf(n)

\* A creation op of a subgraph is used by a compute op that is in one.
CreationUsed ==
    \A v \in DOMAIN subgraphOf : isCreationOp(v) =>
        \E n \in DOMAIN subgraphOf : block[n].kind = "compute" /\ v \in Uses(n)

\* A compute op that is in no subgraph has an operand that is not constant.
OthersNotConstant ==
    \A n \in Ops : block[n].kind = "compute" /\ n \notin DOMAIN subgraphOf =>
        \E v \in Uses(n) : /\ v \notin ConstParams
                           /\ v \notin DOMAIN subgraphOf
                           /\ v \in Ops => block[v].kind = "compute"

Analysis ==
    /\ BlockTyped
    /\ SubgraphsTyped
    /\ SubgraphsClosed
    /\ CreationUsed
    /\ OthersNotConstant

\* A function on 1 .. n is a sequence of length n.
LEMMA FunctionIsSeq ==
    ASSUME NEW n \in Nat, NEW S, NEW f \in [1 .. n -> S]
    PROVE  f \in Seq(S) /\ DOMAIN f = 1 .. n /\ Len(f) = n
OBVIOUS

\* What Append does to a sequence of n elements.
Appended(g, f, n, S, e) ==
    /\ g \in [1 .. n + 1 -> S \cup {e}]
    /\ g[n + 1] = e
    /\ \A x \in 1 .. n : g[x] = f[x]

\* Appending keeps the old elements and adds one at the end.
LEMMA AppendElements ==
    ASSUME NEW n \in Nat, NEW S, NEW f \in [1 .. n -> S], NEW e
    PROVE  Appended(Append(f, e), f, n, S, e)
<1> DEFINE E == S \cup {e}
<1>1. f \in Seq(E) /\ Len(f) = n /\ e \in E
  OBVIOUS
<1> HIDE DEF E
<1>2. /\ Append(f, e) \in Seq(E) /\ Len(Append(f, e)) = n + 1
      /\ Append(f, e)[n + 1] = e
      /\ \A x \in 1 .. n : Append(f, e)[x] = f[x]
  BY <1>1, AppendProperties
<1>3. Append(f, e) \in [1 .. n + 1 -> E]
  BY <1>2, LenProperties
<1> QED
  BY <1>2, <1>3 DEF E, Appended

\* A new id is a root of its own.
WithNewId(uf, n) ==
    [parent |-> Append(uf.parent, n + 1), rank |-> Append(uf.rank, 0)]

\* A new id is a root of its own and leaves all other roots alone.
LEMMA NewSubgraph ==
    ASSUME NEW uf, NEW n, Forest(uf, n), NEW r, Roots(uf, n, r)
    PROVE  /\ Forest(WithNewId(uf, n), n + 1)
           /\ \E q : Roots(WithNewId(uf, n), n + 1, q) /\ Coarser(n, r, q)
<1> DEFINE new == WithNewId(uf, n)
<1>0. /\ n \in Nat
      /\ uf.parent \in [1 .. n -> 1 .. n] /\ uf.rank \in [1 .. n -> Nat]
      /\ r \in [1 .. n -> 1 .. n]
  BY DEF Forest, Roots
<1>1. /\ new = [parent |-> new.parent, rank |-> new.rank]
      /\ new.parent = Append(uf.parent, n + 1) /\ new.rank = Append(uf.rank, 0)
  BY DEF WithNewId
<1> HIDE DEF new
<1>p. /\ new.parent \in [1 .. n + 1 -> (1 .. n) \cup {n + 1}]
      /\ new.parent[n + 1] = n + 1
      /\ \A x \in 1 .. n : new.parent[x] = uf.parent[x]
  <2> DEFINE f == uf.parent
             S == 1 .. n
  <2>1. f \in [1 .. n -> S] /\ n \in Nat
    BY <1>0
  <2> HIDE DEF f, S
  <2>2. Appended(Append(f, n + 1), f, n, S, n + 1)
    BY <2>1, AppendElements, Zenon
  <2>3. new.parent = Append(f, n + 1)
    BY <1>1 DEF f
  <2> QED
    BY <2>2, <2>3, Zenon DEF S, f, Appended
<1>r. /\ new.rank \in [1 .. n + 1 -> Nat \cup {0}]
      /\ new.rank[n + 1] = 0
      /\ \A x \in 1 .. n : new.rank[x] = uf.rank[x]
  <2> DEFINE f == uf.rank
  <2>1. f \in [1 .. n -> Nat] /\ n \in Nat
    BY <1>0
  <2> HIDE DEF f
  <2>2. Appended(Append(f, 0), f, n, Nat, 0)
    BY <2>1, AppendElements, Zenon
  <2>3. new.rank = Append(f, 0)
    BY <1>1 DEF f
  <2> QED
    BY <2>2, <2>3, Zenon DEF f, Appended
<1>3. /\ new.parent[n + 1] = n + 1 /\ new.rank[n + 1] = 0
      /\ \A x \in 1 .. n : new.parent[x] = uf.parent[x] /\ new.rank[x] = uf.rank[x]
  BY <1>p, <1>r
<1>4. new.parent \in [1 .. n + 1 -> 1 .. n + 1] /\ new.rank \in [1 .. n + 1 -> Nat]
  <2>1. (1 .. n) \cup {n + 1} \subseteq 1 .. n + 1 /\ Nat \cup {0} = Nat
    BY <1>0
  <2> QED
    BY <1>p, <1>r, <2>1
<1>5. ASSUME NEW x \in 1 .. n + 1, new.parent[x] # x
      PROVE  new.rank[x] < new.rank[new.parent[x]]
  <2>1. x \in 1 .. n
    BY <1>0, <1>3, <1>5
  <2>2. new.parent[x] = uf.parent[x] /\ uf.parent[x] \in 1 .. n
    BY <1>0, <1>3, <2>1
  <2>3. uf.rank[x] < uf.rank[uf.parent[x]]
    BY <1>5, <2>1, <2>2 DEF Forest
  <2> QED
    BY <1>3, <2>1, <2>2, <2>3
<1>6. \E R \in Nat : \A x \in 1 .. n + 1 : new.rank[x] <= R
  <2>1. PICK R \in Nat : \A x \in 1 .. n : uf.rank[x] <= R
    BY DEF Forest
  <2>2. ASSUME NEW x \in 1 .. n + 1 PROVE new.rank[x] <= R
    <3>1. CASE x = n + 1
      <4>1. new.rank[x] = 0
        BY <1>3, <3>1
      <4> QED
        BY <4>1
    <3>2. CASE x # n + 1
      <4>1. x \in 1 .. n
        BY <1>0, <3>2
      <4> QED
        BY <1>3, <2>1, <4>1
    <3> QED
      BY <3>1, <3>2
  <2> QED
    BY <2>2
<1>7. Forest(new, n + 1)
  <2>1. new \in [parent : [1 .. n + 1 -> 1 .. n + 1], rank : [1 .. n + 1 -> Nat]]
    BY <1>1, <1>4
  <2>2. n + 1 \in Nat
    BY <1>0
  <2> QED
    BY <1>5, <1>6, <2>1, <2>2 DEF Forest
<1> DEFINE q == [x \in 1 .. n + 1 |-> IF x = n + 1 THEN n + 1 ELSE r[x]]
<1>8. \A x \in 1 .. n : x # n + 1 /\ x \in 1 .. n + 1
  BY <1>0
<1>9. q \in [1 .. n + 1 -> 1 .. n + 1] /\ q[n + 1] = n + 1 /\ \A x \in 1 .. n : q[x] = r[x]
  <2>1. n + 1 \in 1 .. n + 1
    BY <1>0
  <2>2. ASSUME NEW x \in 1 .. n + 1, x # n + 1 PROVE r[x] \in 1 .. n + 1
    <3>1. x \in 1 .. n
      BY <1>0, <2>2
    <3>2. r[x] \in 1 .. n
      BY <1>0, <3>1
    <3> QED
      BY <1>0, <3>2
  <2>3. q \in [1 .. n + 1 -> 1 .. n + 1]
    BY <2>1, <2>2
  <2>4. q[n + 1] = n + 1
    BY <2>1
  <2>5. \A x \in 1 .. n : q[x] = r[x]
    BY <1>8
  <2> QED
    BY <2>3, <2>4, <2>5
<1> HIDE DEF q
<1>10. ASSUME NEW x \in 1 .. n + 1
       PROVE  q[x] = IF new.parent[x] = x THEN x ELSE q[new.parent[x]]
  <2>1. CASE x = n + 1
    BY <1>3, <1>9, <2>1
  <2>2. CASE x # n + 1
    <3>1. x \in 1 .. n
      BY <1>0, <2>2
    <3>2. new.parent[x] = uf.parent[x] /\ uf.parent[x] \in 1 .. n
      BY <1>0, <1>3, <3>1
    <3>3. r[x] = IF uf.parent[x] = x THEN x ELSE r[uf.parent[x]]
      BY <3>1 DEF Roots
    <3> QED
      BY <1>9, <3>1, <3>2, <3>3
  <2> QED
    BY <2>1, <2>2
<1>11. Roots(new, n + 1, q)
  BY <1>9, <1>10 DEF Roots
<1>12. Coarser(n, r, q)
  BY <1>9 DEF Coarser
<1> QED
  BY <1>7, <1>11, <1>12 DEF new

\* The operations that processOp adds to the subgraph target.
Joining(ins) == {Len(block) + 1} \cup creationOps(ins)

\* What joinSubgraphs makes of the subgraphs.
Joined(ins, r, M, q, target) ==
    /\ M \in Nat /\ N <= M
    /\ Forest(unionFind', M) /\ Roots(unionFind', M, q) /\ Coarser(N, r, q)
    /\ target \in 1 .. M
    /\ \A v \in ToSet(ins) \cap DOMAIN subgraphOf : q[subgraphOf[v]] = q[target]
    /\ subgraphOf' = [v \in DOMAIN subgraphOf \cup Joining(ins) |->
                        IF v \in Joining(ins) THEN target ELSE subgraphOf[v]]
    /\ subgraphParams' \in [1 .. M -> SUBSET ConstParams]
    /\ ToSet(ins) \cap Params \subseteq subgraphParams'[target]
    /\ \A i \in 1 .. N : subgraphParams[i] \subseteq subgraphParams'[i]

\* After an op's operands are looked at, their subgraphs and the op's are one:
\* merging the dependent ids in any order, or creating an id if there is none.
LEMMA JoinSubgraphs ==
    ASSUME SubgraphsTyped, NEW r, Roots(unionFind, N, r),
           NEW ins, ToSet(ins) \cap Params \subseteq ConstParams,
           NEW ids \in SetToSeqs(dependentSubgraphIds(ins)), joinSubgraphs(ins, ids)
    PROVE  \E M, q, target : Joined(ins, r, M, q, target)
<1> DEFINE D == dependentSubgraphIds(ins)
           params == ToSet(ins) \cap Params
<1>0. Forest(unionFind, N) /\ N \in Nat
  BY DEF SubgraphsTyped, Forest
<1>1. D \subseteq 1 .. N
  BY DEF SubgraphsTyped, dependentSubgraphIds
<1>2. IsFiniteSet(D)
  <2>1. IsFiniteSet(1 .. N)
    BY <1>0, FS_Interval
  <2> HIDE DEF D
  <2> QED
    BY <1>1, <2>1, FS_Subset
<1>3. ids \in Seq(D) /\ ToSet(ids) = D /\ (ids = <<>> <=> D = {})
  <2> HIDE DEF D
  <2>1. ids \in SetToSeqs(D)
    BY DEF D
  <2> QED
    BY <1>2, <2>1, SetToSeqsElements
<1>4. \A v \in ToSet(ins) \cap DOMAIN subgraphOf : subgraphOf[v] \in D
  BY DEF dependentSubgraphIds
<1>5. subgraphParams \in [1 .. N -> SUBSET ConstParams] /\ params \subseteq ConstParams
  BY DEF SubgraphsTyped
<1> HIDE DEF D, params
<1>6. CASE ids = <<>>
  <2> DEFINE M == N + 1
  <2>1. Len(ids) = 0 /\ ~(Len(ids) > 1)
    BY <1>6
  <2>2. unionFind' = WithNewId(unionFind, N)
    BY <1>6, <2>1, Zenon DEF joinSubgraphs, WithNewId, N
  <2>3. Forest(unionFind', M)
    BY <1>0, <2>2, NewSubgraph
  <2>4. PICK q : Roots(unionFind', M, q) /\ Coarser(N, r, q)
    BY <1>0, <2>2, NewSubgraph
  <2>5. subgraphOf' = [v \in DOMAIN subgraphOf \cup Joining(ins) |->
                        IF v \in Joining(ins) THEN M ELSE subgraphOf[v]]
    BY <1>6 DEF joinSubgraphs, Joining, N
  <2>6. subgraphParams' = Append(subgraphParams, params)
    BY <1>6 DEF joinSubgraphs, params
  <2>7. Appended(subgraphParams', subgraphParams, N, SUBSET ConstParams, params)
    <3> DEFINE f == subgraphParams
               S == SUBSET ConstParams
    <3>1. f \in [1 .. N -> S]
      BY <1>5
    <3> HIDE DEF f, S
    <3>2. Appended(Append(f, params), f, N, S, params)
      BY <1>0, <3>1, AppendElements, Zenon
    <3> QED
      BY <2>6, <3>2, Zenon DEF f, S
  <2>8. /\ subgraphParams' \in [1 .. M -> SUBSET ConstParams]
        /\ subgraphParams'[M] = params
        /\ \A i \in 1 .. N : subgraphParams[i] \subseteq subgraphParams'[i]
    <3>1. (SUBSET ConstParams) \cup {params} = SUBSET ConstParams
      BY <1>5
    <3>2. subgraphParams' \in [1 .. M -> SUBSET ConstParams]
      BY <2>7, <3>1, Zenon DEF Appended
    <3>3. subgraphParams'[M] = params
      BY <2>7, Zenon DEF Appended
    <3>4. \A i \in 1 .. N : subgraphParams'[i] = subgraphParams[i]
      BY <2>7, Zenon DEF Appended
    <3> QED
      BY <3>2, <3>3, <3>4
  <2>9. \A v \in ToSet(ins) \cap DOMAIN subgraphOf : q[subgraphOf[v]] = q[M]
    BY <1>3, <1>4, <1>6
  <2>10. M \in Nat /\ N <= M /\ M \in 1 .. M
    BY <1>0
  <2> HIDE DEF M
  <2>11. Joined(ins, r, M, q, M)
    BY <2>3, <2>4, <2>5, <2>8, <2>9, <2>10 DEF Joined, params
  <2> QED
    BY <2>11
<1>7. CASE ids # <<>>
  <2> DEFINE uf == mergedSubgraphs(ids)
  <2>0. ids \in Seq(1 .. N)
    BY <1>1, <1>3, SeqMonotonic
  <2>1. /\ Forest(uf, N)
        /\ \E q : /\ Roots(uf, N, q) /\ Coarser(N, r, q)
                  /\ \A j \in 1 .. Len(ids) : q[ids[j]] = q[ids[1]]
    BY <1>0, <1>7, <2>0, MergedSubgraphs
  <2>2. PICK q : /\ Roots(uf, N, q) /\ Coarser(N, r, q)
                 /\ \A j \in 1 .. Len(ids) : q[ids[j]] = q[ids[1]]
    BY <2>1
  <2>3. Len(ids) \in Nat /\ Len(ids) # 0 /\ DOMAIN ids = 1 .. Len(ids)
    BY <1>7, <2>0
  <2>4. ids[1] \in 1 .. N
    <3>1. 1 \in 1 .. Len(ids)
      BY <2>3
    <3> DEFINE S == 1 .. N
    <3>2. ids \in Seq(S)
      BY <2>0
    <3> HIDE DEF S
    <3>3. ids[1] \in S
      BY <3>1, <3>2, ElementOfSeq
    <3> QED
      BY <3>3 DEF S
  <2>5. ASSUME NEW v \in ToSet(ins) \cap DOMAIN subgraphOf
        PROVE  q[subgraphOf[v]] = q[ids[1]]
    <3>1. subgraphOf[v] \in ToSet(ids)
      BY <1>3, <1>4
    <3>2. PICK j \in 1 .. Len(ids) : subgraphOf[v] = ids[j]
      BY <2>3, <3>1 DEF ToSet
    <3> QED
      BY <2>2, <3>2
  <2> DEFINE target == IF Len(ids) = 1 THEN ids[1] ELSE rootIn(uf.parent, ids[1])
  <2>6. target \in 1 .. N /\ q[target] = q[ids[1]]
    <3>1. CASE Len(ids) = 1
      BY <2>4, <3>1
    <3>2. CASE Len(ids) # 1
      <4>1. rootIn(uf.parent, ids[1]) = q[ids[1]]
        BY <2>1, <2>2, <2>4, RootIn
      <4>2. q[q[ids[1]]] = q[ids[1]]
        BY <2>1, <2>2, <2>4, RootIsTop
      <4>3. q[ids[1]] \in 1 .. N
        BY <2>2, <2>4 DEF Roots
      <4> QED
        BY <3>2, <4>1, <4>2, <4>3
    <3> QED
      BY <3>1, <3>2
  <2>7. Forest(unionFind', N) /\ Roots(unionFind', N, q)
    <3>1. CASE Len(ids) = 1
      <4>1. unionFind' = uf
        BY <1>7, <3>1 DEF joinSubgraphs
      <4> QED
        BY <2>1, <2>2, <4>1
    <3>2. CASE Len(ids) # 1
      <4>1. Len(ids) > 1
        BY <2>3, <3>2
      <4>2. unionFind' = findRoot(uf, ids[1])
        BY <1>7, <4>1, Zenon DEF joinSubgraphs
      <4> QED
        BY <2>1, <2>2, <2>4, <4>2, FindRoot
    <3> QED
      BY <3>1, <3>2
  <2>8. subgraphOf' = [v \in DOMAIN subgraphOf \cup Joining(ins) |->
                        IF v \in Joining(ins) THEN target ELSE subgraphOf[v]]
    <3>1. CASE Len(ids) = 1
      BY <1>7, <3>1 DEF joinSubgraphs, Joining
    <3>2. CASE Len(ids) # 1
      BY <1>7, <3>2 DEF joinSubgraphs, Joining
    <3> QED
      BY <3>1, <3>2
  <2>9. subgraphParams' = [subgraphParams EXCEPT ![target] = @ \cup params]
    <3>1. CASE Len(ids) = 1
      BY <1>7, <3>1 DEF joinSubgraphs, params
    <3>2. CASE Len(ids) # 1
      BY <1>7, <3>2 DEF joinSubgraphs, params
    <3> QED
      BY <3>1, <3>2
  <2> HIDE DEF target, uf
  <2>10. /\ subgraphParams' \in [1 .. N -> SUBSET ConstParams]
         /\ params \subseteq subgraphParams'[target]
         /\ \A i \in 1 .. N : subgraphParams[i] \subseteq subgraphParams'[i]
    BY <1>5, <2>6, <2>9
  <2>11. \A v \in ToSet(ins) \cap DOMAIN subgraphOf : q[subgraphOf[v]] = q[target]
    BY <2>5, <2>6
  <2>12. N \in Nat /\ N <= N
    BY <1>0
  <2>13. Joined(ins, r, N, q, target)
    BY <2>2, <2>6, <2>7, <2>8, <2>10, <2>11, <2>12 DEF Joined, params
  <2> QED
    BY <2>13
<1> QED
  BY <1>6, <1>7

\* The parts of the walk that the function alone determines.
LEMMA Arguments ==
    ASSUME BlockTyped
    PROVE  /\ ConstParams \subseteq Params
           /\ \A p \in Params : p \in Int /\ p < 0
           /\ IsFiniteSet(Params)
           /\ Len(block) \in Nat /\ Ops = 1 .. Len(block)
           /\ \A n \in Ops : block[n].kind \in {"creation", "shared", "compute"}
<1>1. function \in FuncBounds
  BY DEF BlockTyped
<1>2. block \in Seq([kind : {"creation", "shared", "compute"}, ins : Seq(Int)])
  BY DEF BlockTyped
<1>3. ConstParams \subseteq Params /\ (\A p \in Params : p \in Int /\ p < 0) /\ IsFiniteSet(Params)
  BY <1>1, FuncBoundsAssumption DEF ConstParams, Params
<1>4. Len(block) \in Nat /\ Ops = 1 .. Len(block)
  BY <1>2 DEF Ops
<1>5. \A n \in Ops : block[n].kind \in {"creation", "shared", "compute"}
  <2> DEFINE S == [kind : {"creation", "shared", "compute"}, ins : Seq(Int)]
  <2>1. \A op \in S : op.kind \in {"creation", "shared", "compute"}
    OBVIOUS
  <2>2. block \in Seq(S)
    BY <1>2
  <2> HIDE DEF S
  <2>3. \A n \in Ops : block[n] \in S
    BY <1>4, <2>2, ElementOfSeq
  <2> QED
    BY <2>1, <2>3, Zenon
<1> QED
  BY <1>3, <1>4, <1>5

\* The walk reaches one more operation.
NewOp(kind, ins) ==
    /\ BlockTyped'
    /\ Ops' = Ops \cup {Len(block) + 1} /\ Len(block) + 1 \notin Ops
    /\ \A n \in Ops : block'[n] = block[n]
    /\ block'[Len(block) + 1] = [kind |-> kind, ins |-> ins]
    /\ Params' = Params /\ ConstParams' = ConstParams

\* Appending an op of any kind keeps the block well typed.
LEMMA NewOpTyped ==
    ASSUME BlockTyped, function' = function,
           NEW kind \in {"creation", "shared", "compute"},
           NEW k \in Nat, NEW ins \in [1 .. k -> Params \cup Ops],
           kind # "compute" => ToSet(ins) = {},
           block' = Append(block, [kind |-> kind, ins |-> ins])
    PROVE  NewOp(kind, ins)
<1> DEFINE S == [kind : {"creation", "shared", "compute"}, ins : Seq(Int)]
           op == [kind |-> kind, ins |-> ins]
           n == Len(block)
<1>1. Params' = Params /\ ConstParams' = ConstParams
  BY DEF Params, ConstParams
<1>2. (\A p \in Params : p \in Int) /\ n \in Nat /\ Ops = 1 .. n
  BY Arguments
<1>3. ins \in Seq(Int)
  BY <1>2
<1>4. op \in S
  BY <1>3
<1>5. block \in [1 .. n -> S] /\ function \in FuncBounds
  <2>1. block \in Seq(S) /\ function \in FuncBounds
    BY DEF BlockTyped
  <2> HIDE DEF S
  <2> QED
    BY <2>1, LenProperties
<1> HIDE DEF S, op, n
<1>6. Appended(block', block, n, S, op)
  <2>1. Appended(Append(block, op), block, n, S, op)
    BY <1>2, <1>5, AppendElements, Zenon
  <2> QED
    BY <2>1 DEF op
<1>7. /\ block'[n + 1] = op
      /\ \A m \in 1 .. n : block'[m] = block[m]
  BY <1>6, Zenon DEF Appended
<1>8. block' \in [1 .. n + 1 -> S]
  <2>1. S \cup {op} = S
    BY <1>4
  <2> QED
    BY <1>6, <2>1, Zenon DEF Appended
<1>9. block' \in Seq(S) /\ Ops' = 1 .. n + 1
  <2>1. n + 1 \in Nat
    BY <1>2
  <2> QED
    BY <1>8, <2>1, FunctionIsSeq, Zenon DEF Ops
<1>10. Ops' = Ops \cup {n + 1} /\ n + 1 \notin Ops
  BY <1>2, <1>9
<1>11. ASSUME NEW m \in Ops'
       PROVE  /\ \A v \in Uses(m)' : v \in Params' \/ v \in 1 .. m - 1
              /\ block'[m].kind # "compute" => Uses(m)' = {}
  <2>1. CASE m = n + 1
    <3>1. Uses(m)' = ToSet(ins) /\ block'[m].kind = kind
      <4>1. op.ins = ins /\ op.kind = kind
        BY DEF op
      <4>2. block'[m] = op
        BY <1>7, <2>1
      <4> QED
        BY <4>1, <4>2, Zenon DEF Uses
    <3>2. \A v \in ToSet(ins) : v \in Params \/ v \in 1 .. n
      BY <1>2 DEF ToSet
    <3>3. m - 1 = n
      BY <1>2, <2>1
    <3> QED
      BY <1>1, <3>1, <3>2, <3>3
  <2>2. CASE m # n + 1
    <3>1. m \in Ops /\ block'[m] = block[m]
      BY <1>2, <1>7, <1>10, <2>2
    <3>2. Uses(m)' = Uses(m)
      BY <3>1 DEF Uses
    <3> QED
      BY <1>1, <3>1, <3>2 DEF BlockTyped
  <2> QED
    BY <2>1, <2>2
<1>12. BlockTyped'
  BY <1>5, <1>9, <1>11 DEF BlockTyped, S
<1> QED
  BY <1>1, <1>2, <1>7, <1>10, <1>12 DEF NewOp, n, op

\* Appending an op changes nothing about the ops before it.
LEMMA OldOps ==
    ASSUME NEW kind, NEW ins, NewOp(kind, ins), NEW n1, n1 = Len(block) + 1
    PROVE  /\ \A n \in Ops : /\ n \in Ops'
                             /\ block'[n].kind = block[n].kind
                             /\ Uses(n)' = Uses(n)
                             /\ isCreationOp(n)' = isCreationOp(n)
                             /\ n \in Shared' <=> n \in Shared
           /\ block'[n1].kind = kind
           /\ Uses(n1)' = ToSet(ins)
           /\ n1 \in Shared' <=> kind = "shared"
<1> DEFINE op == [kind |-> kind, ins |-> ins]
<1>0. op.kind = kind /\ op.ins = ins
  OBVIOUS
<1>1. block'[n1] = op
  BY DEF NewOp
<1>2. ASSUME NEW n \in Ops
      PROVE  n \in Ops' /\ block'[n] = block[n]
  BY Zenon DEF NewOp
<1>3. n1 \in Ops'
  BY DEF NewOp
<1> HIDE DEF op
<1>4. ASSUME NEW n \in Ops
      PROVE  /\ n \in Ops'
             /\ block'[n].kind = block[n].kind
             /\ Uses(n)' = Uses(n)
             /\ isCreationOp(n)' = isCreationOp(n)
             /\ n \in Shared' <=> n \in Shared
  <2>1. n \in Ops' /\ block'[n] = block[n]
    BY <1>2
  <2>2. Uses(n)' = Uses(n)
    BY <2>1, Zenon DEF Uses
  <2>3. isCreationOp(n)' = isCreationOp(n)
    BY <2>1, Zenon DEF isCreationOp
  <2>4. n \in Shared' <=> n \in Shared
    BY <2>1, Zenon DEF isSharedOp, Shared
  <2> QED
    BY <2>1, <2>2, <2>3, <2>4, Zenon
<1>5. block'[n1].kind = kind /\ Uses(n1)' = ToSet(ins) /\ (n1 \in Shared' <=> kind = "shared")
  <2>1. block'[n1].kind = kind /\ block'[n1].ins = ins
    BY <1>0, <1>1, Zenon
  <2>2. Uses(n1)' = ToSet(ins)
    BY <2>1, Zenon DEF Uses
  <2>3. isSharedOp(n1)' <=> kind = "shared"
    BY <2>1, Zenon DEF isSharedOp
  <2>4. n1 \in Shared' <=> isSharedOp(n1)'
    BY <1>3 DEF Shared
  <2> QED
    BY <2>1, <2>2, <2>3, <2>4
<1> QED
  BY <1>4, <1>5, Zenon

\* An operation that is not hoisted leaves the subgraphs as they are.
LEMMA SkipOpAnalysis ==
    ASSUME Analysis, NEW kind \in {"creation", "shared", "compute"},
           NEW k \in Nat, NEW ins \in [1 .. k -> Params \cup Ops],
           kind # "compute" => ToSet(ins) = {},
           skipOp(kind, ins)
    PROVE  Analysis'
<1>0. PICK n1 : n1 = Len(block) + 1
  OBVIOUS
<1>1. NewOp(kind, ins)
  <2>1. block' = Append(block, [kind |-> kind, ins |-> ins]) /\ function' = function
    BY DEF skipOp
  <2>2. BlockTyped
    BY DEF Analysis
  <2> QED
    BY <2>1, <2>2, NewOpTyped
<1>2. /\ unionFind' = unionFind /\ subgraphOf' = subgraphOf
      /\ subgraphParams' = subgraphParams
  BY DEF skipOp
<1>3. /\ \A n \in Ops : /\ n \in Ops'
                        /\ block'[n].kind = block[n].kind
                        /\ Uses(n)' = Uses(n)
                        /\ isCreationOp(n)' = isCreationOp(n)
                        /\ n \in Shared' <=> n \in Shared
      /\ block'[n1].kind = kind
      /\ Uses(n1)' = ToSet(ins)
  BY <1>0, <1>1, OldOps
<1>4. DOMAIN subgraphOf \subseteq Ops /\ DOMAIN subgraphOf \cap Shared = {}
  BY DEF Analysis, SubgraphsTyped
<1>5. BlockTyped' /\ Ops' = Ops \cup {n1} /\ ConstParams' = ConstParams
  BY <1>0, <1>1 DEF NewOp
<1>6. N' = N /\ \A n : rootOf(n)' = rootOf(n)
  BY <1>2 DEF N, rootOf
<1>7. SubgraphsTyped'
  <2>1. DOMAIN subgraphOf \subseteq Ops' \ Shared'
    BY <1>3, <1>4
  <2>2. Forest(unionFind, N) /\ subgraphOf \in [DOMAIN subgraphOf -> 1 .. N]
        /\ subgraphParams \in [1 .. N -> SUBSET ConstParams]
    BY DEF Analysis, SubgraphsTyped
  <2> QED
    BY <1>2, <1>5, <1>6, <2>1, <2>2, Zenon DEF SubgraphsTyped
<1>8. SubgraphsClosed'
  <2> SUFFICES ASSUME NEW n \in DOMAIN subgraphOf, NEW v \in Uses(n)'
               PROVE  \/ v \in subgraphParams[subgraphOf[n]]
                      \/ v \in Shared'
                      \/ v \in DOMAIN subgraphOf /\ rootOf(v) = rootOf(n)
    BY <1>2, <1>6, Zenon DEF SubgraphsClosed
  <2>1. v \in Uses(n)
    BY <1>3, <1>4
  <2>2. v \in Shared => v \in Ops
    BY DEF Shared
  <2> QED
    BY <1>3, <2>1, <2>2 DEF Analysis, SubgraphsClosed
<1>9. CreationUsed'
  <2> SUFFICES ASSUME NEW v \in DOMAIN subgraphOf, isCreationOp(v)'
               PROVE  \E n \in DOMAIN subgraphOf :
                          block'[n].kind = "compute" /\ v \in Uses(n)'
    BY <1>2, Zenon DEF CreationUsed
  <2>1. PICK n \in DOMAIN subgraphOf : block[n].kind = "compute" /\ v \in Uses(n)
    BY <1>3, <1>4 DEF Analysis, CreationUsed
  <2> QED
    BY <1>3, <1>4, <2>1
<1>10. OthersNotConstant'
  <2> SUFFICES ASSUME NEW n \in Ops', block'[n].kind = "compute", n \notin DOMAIN subgraphOf
               PROVE  \E v \in Uses(n)' : /\ v \notin ConstParams
                                          /\ v \notin DOMAIN subgraphOf
                                          /\ v \in Ops' => block'[v].kind = "compute"
    BY <1>2, <1>5, Zenon DEF OthersNotConstant
  <2>0. /\ \A p \in Params : p \in Int /\ p < 0
        /\ Len(block) \in Nat /\ Ops = 1 .. Len(block)
        /\ \A m \in Ops : block[m].kind \in {"creation", "shared", "compute"}
    BY Arguments DEF Analysis
  <2>1. CASE n \in Ops
    <3>1. PICK v \in Uses(n) : /\ v \notin ConstParams
                               /\ v \notin DOMAIN subgraphOf
                               /\ v \in Ops => block[v].kind = "compute"
      BY <1>3, <2>1 DEF Analysis, OthersNotConstant
    <3>2. v \in Params \/ v \in 1 .. n - 1
      BY <2>1 DEF Analysis, BlockTyped
    <3>3. v # n1
      BY <1>0, <2>0, <2>1, <3>2
    <3> QED
      BY <1>3, <1>5, <2>1, <3>1, <3>3
  <2>2. CASE n = n1
    <3>1. kind = "compute"
      BY <1>3, <2>2
    <3>2. PICK j \in DOMAIN ins : ~operandIsConstEval(ins[j])
      BY <3>1 DEF skipOp
    <3>3. ins[j] \in Params \cup Ops /\ ins[j] \in ToSet(ins)
      BY <3>2 DEF ToSet
    <3>4. ins[j] \notin ConstParams /\ ins[j] \notin DOMAIN subgraphOf
          /\ (ins[j] \in Ops => block[ins[j]].kind = "compute")
      <4> DEFINE v == ins[j]
      <4>1. CASE v \in Params
        <5>1. v < 0 /\ v \notin Ops
          BY <2>0, <4>1
        <5> QED
          BY <1>4, <3>2, <5>1 DEF operandIsConstEval
      <4>2. CASE v \in Ops
        <5>1. ~(v < 0)
          BY <2>0, <4>2
        <5>2. v \notin DOMAIN subgraphOf /\ ~isSharedOp(v) /\ ~isCreationOp(v)
          BY <3>2, <5>1 DEF operandIsConstEval
        <5>3. v \notin ConstParams
          <6>1. ConstParams \subseteq Params
            BY Arguments DEF Analysis
          <6> QED
            BY <2>0, <5>1, <6>1
        <5>4. block[v].kind = "compute"
          BY <2>0, <4>2, <5>2 DEF isSharedOp, isCreationOp
        <5> QED
          BY <5>2, <5>3, <5>4
      <4> QED
        BY <3>3, <4>1, <4>2
    <3> DEFINE v == ins[j]
    <3>5. v # n1
      BY <1>0, <2>0, <3>3
    <3>6. v \in Uses(n)' /\ v \notin ConstParams /\ v \notin DOMAIN subgraphOf
      <4>1. Uses(n)' = ToSet(ins)
        BY <1>3, <2>2, Zenon
      <4> QED
        BY <3>3, <3>4, <4>1, Zenon
    <3>7. v \in Ops' => block'[v].kind = "compute"
      <4>1. v \in Ops' => v \in Ops
        BY <1>5, <3>5
      <4> QED
        BY <1>3, <3>4, <4>1, Zenon
    <3> QED
      BY <3>6, <3>7, Zenon
  <2> QED
    BY <1>5, <2>1, <2>2
<1> QED
  BY <1>5, <1>7, <1>8, <1>9, <1>10 DEF Analysis

\* The roots of the operations, before and after.
LEMMA RootOf ==
    ASSUME SubgraphsTyped, NEW r, Roots(unionFind, N, r), NEW n \in DOMAIN subgraphOf
    PROVE  rootOf(n) = r[subgraphOf[n]] /\ subgraphOf[n] \in 1 .. N
<1>1. Forest(unionFind, N) /\ subgraphOf[n] \in 1 .. N
  BY DEF SubgraphsTyped
<1> QED
  BY <1>1, RootIn DEF rootOf

\* The union-find has one entry for each id.
LEMMA ForestSize ==
    ASSUME NEW uf, NEW n, Forest(uf, n)
    PROVE  Len(uf.parent) = n
BY DEF Forest

\* A constant operation joins the subgraphs that it depends on.
LEMMA ProcessOpAnalysis ==
    ASSUME Analysis, NEW k \in Nat, NEW ins \in [1 .. k -> Params \cup Ops],
           processOp(ins)
    PROVE  Analysis'
<1>0. PICK n1 : n1 = Len(block) + 1
  OBVIOUS
<1>1. NewOp("compute", ins)
  <2> DEFINE kind == "compute"
  <2>1. block' = Append(block, [kind |-> kind, ins |-> ins]) /\ function' = function
    BY DEF processOp
  <2>2. BlockTyped /\ kind \in {"creation", "shared", "compute"}
        /\ (kind # "compute" => ToSet(ins) = {})
    BY DEF Analysis
  <2> HIDE DEF kind
  <2>3. NewOp(kind, ins)
    BY <2>1, <2>2, NewOpTyped
  <2> QED
    BY <2>3 DEF kind
<1>2. /\ \A n \in Ops : /\ n \in Ops'
                        /\ block'[n].kind = block[n].kind
                        /\ Uses(n)' = Uses(n)
                        /\ isCreationOp(n)' = isCreationOp(n)
                        /\ n \in Shared' <=> n \in Shared
      /\ block'[n1].kind = "compute"
      /\ Uses(n1)' = ToSet(ins)
      /\ n1 \notin Shared'
  <2> DEFINE kind == "compute"
  <2>1. kind # "shared" /\ NewOp(kind, ins)
    BY <1>1
  <2> HIDE DEF kind
  <2>2. /\ \A n \in Ops : /\ n \in Ops'
                          /\ block'[n].kind = block[n].kind
                          /\ Uses(n)' = Uses(n)
                          /\ isCreationOp(n)' = isCreationOp(n)
                          /\ n \in Shared' <=> n \in Shared
        /\ block'[n1].kind = kind
        /\ Uses(n1)' = ToSet(ins)
        /\ n1 \in Shared' <=> kind = "shared"
    BY <1>0, <2>1, OldOps
  <2> QED
    BY <2>1, <2>2, Zenon DEF kind
<1>3. BlockTyped' /\ Ops' = Ops \cup {n1} /\ n1 \notin Ops /\ ConstParams' = ConstParams
  BY <1>0, <1>1 DEF NewOp
<1>4. /\ ConstParams \subseteq Params
      /\ \A p \in Params : p \in Int /\ p < 0
      /\ Len(block) \in Nat /\ Ops = 1 .. Len(block)
  BY Arguments DEF Analysis
<1>5. DOMAIN subgraphOf \subseteq Ops /\ DOMAIN subgraphOf \cap Shared = {}
  BY DEF Analysis, SubgraphsTyped
\* What an operand of the new operation is.
<1>6. ASSUME NEW v \in ToSet(ins)
      PROVE  \/ v \in ConstParams /\ v \notin Ops
             \/ v \in Ops /\ v > 0 /\ v \notin Params /\
                   (v \in DOMAIN subgraphOf \/ v \in Shared \/ isCreationOp(v))
  <2>1. PICK j \in DOMAIN ins : v = ins[j]
    BY DEF ToSet
  <2>2. v \in Params \cup Ops /\ operandIsConstEval(v)
    BY <2>1 DEF processOp
  <2>3. CASE v \in Params
    <3>1. v < 0 /\ v \notin Ops
      BY <1>4, <2>3
    <3> QED
      BY <2>2, <3>1 DEF operandIsConstEval
  <2>4. CASE v \in Ops
    <3>1. ~(v < 0) /\ v > 0
      BY <1>4, <2>4
    <3>2. v \in DOMAIN subgraphOf \/ v \in Shared \/ isCreationOp(v)
      BY <2>2, <2>4, <3>1 DEF operandIsConstEval, Shared
    <3>3. v \notin Params
      BY <1>4, <3>1
    <3> QED
      BY <2>4, <3>1, <3>2, <3>3
  <2> QED
    BY <2>2, <2>3, <2>4
<1>7. ToSet(ins) \cap Params \subseteq ConstParams
  BY <1>6
<1>8. PICK r : Roots(unionFind, N, r)
  BY RootsExist DEF Analysis, SubgraphsTyped
<1>9. PICK M, q, target : Joined(ins, r, M, q, target)
  <2>1. PICK ids \in SetToSeqs(dependentSubgraphIds(ins)) : joinSubgraphs(ins, ids)
    BY DEF processOp
  <2>2. SubgraphsTyped
    BY DEF Analysis
  <2> QED
    BY <1>7, <1>8, <2>1, <2>2, JoinSubgraphs
<1> DEFINE J == Joining(ins)
           C == creationOps(ins)
<1>10. /\ M \in Nat /\ N <= M /\ target \in 1 .. M
       /\ Forest(unionFind', M) /\ Roots(unionFind', M, q) /\ Coarser(N, r, q)
       /\ \A v \in ToSet(ins) \cap DOMAIN subgraphOf : q[subgraphOf[v]] = q[target]
  BY <1>9 DEF Joined
<1>11. subgraphOf' = [v \in DOMAIN subgraphOf \cup J |->
                        IF v \in J THEN target ELSE subgraphOf[v]]
  BY <1>9 DEF Joined
<1>12. /\ subgraphParams' \in [1 .. M -> SUBSET ConstParams]
       /\ ToSet(ins) \cap Params \subseteq subgraphParams'[target]
       /\ \A i \in 1 .. N : subgraphParams[i] \subseteq subgraphParams'[i]
  BY <1>9 DEF Joined
<1>13. J = {n1} \cup C
  BY <1>0 DEF Joining
<1>14. C = {v \in ToSet(ins) : v > 0 /\ v \notin DOMAIN subgraphOf /\ isCreationOp(v)}
  BY DEF creationOps
<1>15. ASSUME NEW v \in C
       PROVE  v \in Ops /\ isCreationOp(v) /\ v \notin Shared /\ Uses(v) = {} /\ v \in ToSet(ins)
  <2>1. v \in ToSet(ins) /\ v > 0 /\ isCreationOp(v)
    BY <1>14
  <2>2. v \in Ops
    BY <1>4, <1>6, <2>1
  <2> QED
    BY <2>1, <2>2 DEF isCreationOp, isSharedOp, Shared, Analysis, BlockTyped
<1> HIDE DEF J, C
<1>16. N' = M
  BY <1>10, ForestSize DEF N
<1>17. DOMAIN subgraphOf' = DOMAIN subgraphOf \cup J
  BY <1>11
<1>18. \A v \in J : v \in DOMAIN subgraphOf' /\ subgraphOf'[v] = target
  BY <1>11
<1>19. ASSUME NEW v \in DOMAIN subgraphOf
       PROVE  /\ v \in DOMAIN subgraphOf' /\ subgraphOf'[v] = subgraphOf[v]
              /\ subgraphOf[v] \in 1 .. N /\ subgraphOf[v] \in 1 .. M
  <2>1. v \notin J
    BY <1>3, <1>5, <1>13, <1>14
  <2>2. subgraphOf[v] \in 1 .. N /\ N \in Nat
    BY DEF Analysis, SubgraphsTyped, Forest
  <2>3. subgraphOf[v] \in 1 .. M
    BY <1>10, <2>2
  <2> QED
    BY <1>11, <2>1, <2>2, <2>3
<1>20. SubgraphsTyped'
  <2>1. subgraphOf' \in [DOMAIN subgraphOf' -> 1 .. M]
    <3>1. \A v \in DOMAIN subgraphOf' : subgraphOf'[v] \in 1 .. M
      BY <1>10, <1>17, <1>18, <1>19
    <3>2. subgraphOf' = [v \in DOMAIN subgraphOf' |-> subgraphOf'[v]]
      BY <1>11, <1>17
    <3> QED
      BY <3>1, <3>2
  <2>2. DOMAIN subgraphOf' \subseteq Ops' \ Shared'
    BY <1>2, <1>3, <1>5, <1>13, <1>15, <1>17
  <2> QED
    BY <1>3, <1>10, <1>12, <1>16, <2>1, <2>2, Zenon DEF SubgraphsTyped
<1>21. \A n \in DOMAIN subgraphOf' : rootOf(n)' = q[subgraphOf'[n]]
  <2> SUFFICES ASSUME NEW n \in DOMAIN subgraphOf'
               PROVE  rootIn(unionFind'.parent, subgraphOf'[n]) = q[subgraphOf'[n]]
    BY DEF rootOf
  <2>1. subgraphOf'[n] \in 1 .. M
    BY <1>16, <1>20 DEF SubgraphsTyped
  <2> QED
    BY <1>10, <2>1, RootIn
<1>22. \A n \in DOMAIN subgraphOf : rootOf(n) = r[subgraphOf[n]]
  BY <1>8, RootOf DEF Analysis
<1>23. SubgraphsClosed'
  <2> SUFFICES ASSUME NEW n \in DOMAIN subgraphOf', NEW v \in Uses(n)'
               PROVE  \/ v \in subgraphParams'[subgraphOf'[n]]
                      \/ v \in Shared'
                      \/ v \in DOMAIN subgraphOf' /\ rootOf(v)' = rootOf(n)'
    BY Zenon DEF SubgraphsClosed
  <2>1. CASE n = n1
    <3>1. v \in ToSet(ins) /\ subgraphOf'[n] = target /\ rootOf(n)' = q[target]
      BY <1>2, <1>13, <1>18, <1>21, <2>1
    <3>2. CASE v \in ConstParams
      BY <1>4, <1>12, <3>1, <3>2
    <3>3. CASE v \in DOMAIN subgraphOf
      <4>1. v \in DOMAIN subgraphOf' /\ subgraphOf'[v] = subgraphOf[v]
        BY <1>19, <3>3
      <4>2. q[subgraphOf[v]] = q[target]
        BY <1>10, <3>1, <3>3
      <4> QED
        BY <1>21, <3>1, <4>1, <4>2
    <3>4. CASE v \in Shared
      <4>1. v \in Ops
        BY <3>4 DEF Shared
      <4> QED
        BY <1>2, <3>4, <4>1
    <3>5. CASE v \in Ops /\ v > 0 /\ v \notin DOMAIN subgraphOf /\ isCreationOp(v)
      <4>1. v \in J
        BY <1>13, <1>14, <3>1, <3>5
      <4> QED
        BY <1>18, <1>21, <3>1, <4>1
    <3> QED
      BY <1>6, <3>1, <3>2, <3>3, <3>4, <3>5
  <2>2. CASE n \in C
    BY <1>2, <1>15, <2>2
  <2>3. CASE n \in DOMAIN subgraphOf
    <3>1. v \in Uses(n) /\ subgraphOf'[n] = subgraphOf[n] /\ subgraphOf[n] \in 1 .. N
      BY <1>2, <1>5, <1>19, <2>3
    <3>2. CASE v \in subgraphParams[subgraphOf[n]]
      BY <1>12, <3>1, <3>2
    <3>3. CASE v \in Shared
      <4>1. v \in Ops
        BY <3>3 DEF Shared
      <4> QED
        BY <1>2, <3>3, <4>1
    <3>4. CASE v \in DOMAIN subgraphOf /\ rootOf(v) = rootOf(n)
      <4>1. /\ v \in DOMAIN subgraphOf' /\ subgraphOf'[v] = subgraphOf[v]
            /\ subgraphOf[v] \in 1 .. N
        BY <1>19, <3>4
      <4>2. r[subgraphOf[v]] = r[subgraphOf[n]]
        BY <1>22, <2>3, <3>4
      <4>3. q[subgraphOf[v]] = q[subgraphOf[n]]
        BY <1>10, <3>1, <4>1, <4>2 DEF Coarser
      <4> QED
        BY <1>21, <3>1, <4>1, <4>3
    <3> QED
      BY <2>3, <3>1, <3>2, <3>3, <3>4 DEF Analysis, SubgraphsClosed
  <2> QED
    BY <1>13, <1>17, <2>1, <2>2, <2>3
<1>24. CreationUsed'
  <2> SUFFICES ASSUME NEW v \in DOMAIN subgraphOf', isCreationOp(v)'
               PROVE  \E n \in DOMAIN subgraphOf' :
                          block'[n].kind = "compute" /\ v \in Uses(n)'
    BY Zenon DEF CreationUsed
  <2>1. v # n1
    BY <1>2 DEF isCreationOp
  <2>2. CASE v \in C
    <3>1. n1 \in DOMAIN subgraphOf' /\ v \in Uses(n1)'
      BY <1>2, <1>13, <1>15, <1>17, <2>2
    <3> QED
      BY <1>2, <3>1
  <2>3. CASE v \in DOMAIN subgraphOf
    <3>1. PICK n \in DOMAIN subgraphOf : block[n].kind = "compute" /\ v \in Uses(n)
      BY <1>2, <1>5, <2>3 DEF Analysis, CreationUsed
    <3> QED
      BY <1>2, <1>5, <1>17, <3>1
  <2> QED
    BY <1>13, <1>17, <2>1, <2>2, <2>3
<1>25. OthersNotConstant'
  <2> SUFFICES ASSUME NEW n \in Ops', block'[n].kind = "compute", n \notin DOMAIN subgraphOf'
               PROVE  \E v \in Uses(n)' : /\ v \notin ConstParams
                                          /\ v \notin DOMAIN subgraphOf'
                                          /\ v \in Ops' => block'[v].kind = "compute"
    BY <1>3, Zenon DEF OthersNotConstant
  <2>1. n \in Ops /\ n \notin DOMAIN subgraphOf
    BY <1>3, <1>13, <1>17
  <2>2. PICK v \in Uses(n) : /\ v \notin ConstParams
                             /\ v \notin DOMAIN subgraphOf
                             /\ v \in Ops => block[v].kind = "compute"
    BY <1>2, <2>1 DEF Analysis, OthersNotConstant
  <2>3. v \in Params \/ v \in 1 .. n - 1
    BY <2>1 DEF Analysis, BlockTyped
  <2>4. v # n1
    BY <1>0, <1>4, <2>1, <2>3
  <2>5. v \notin C
    BY <1>15, <2>2 DEF isCreationOp
  <2>6. v \notin DOMAIN subgraphOf'
    BY <1>13, <1>17, <2>2, <2>4, <2>5
  <2>7. v \in Ops' => block'[v].kind = "compute"
    BY <1>2, <1>3, <2>2, <2>4
  <2>8. v \in Uses(n)'
    BY <1>2, <2>1, <2>2
  <2> QED
    BY <2>2, <2>6, <2>7, <2>8
<1> QED
  BY <1>3, <1>20, <1>23, <1>24, <1>25 DEF Analysis

-----------------------------------------------------------------------------
(* The functions that are made of the subgraphs                            *)

Group(root) == {n \in DOMAIN subgraphOf : rootOf(n) = root}

\* What a function has of its own: all but the clones of the shared ops.
Own(f) == ToSet(f.body) \ Shared

FuncType == [params : Seq(Int), body : Seq(Nat), outs : Seq(Nat)]

\* A const-eval function holds one subgraph, returns what is used outside it,
\* and needs nothing but its parameters.
FuncGood(f) ==
    /\ \E root : Own(f) = Group(root)
    /\ ToSet(f.body) \subseteq Ops
    /\ ToSet(f.outs) = {v \in Own(f) : \/ v \in ret
                                       \/ \E n \in Ops \ Own(f) : v \in Uses(n)}
    /\ ToSet(f.params) \subseteq ConstParams
    /\ \A k \in DOMAIN f.body : \A v \in Uses(f.body[k]) :
           v \in ToSet(f.params) \/ \E j \in 1 .. k - 1 : f.body[j] = v

\* Sets of operations are finite.
LEMMA OpsFinite ==
    ASSUME BlockTyped, NEW S, S \subseteq Ops
    PROVE  S \subseteq Nat /\ IsFiniteSet(S)
<1>1. Len(block) \in Nat /\ Ops = 1 .. Len(block)
  BY Arguments
<1>2. IsFiniteSet(1 .. Len(block))
  BY <1>1, FS_Interval
<1>3. IsFiniteSet(S)
  BY <1>1, <1>2, FS_Subset
<1> QED
  BY <1>1, <1>3

\* The elements of a concatenation.
LEMMA ConcatElements ==
    ASSUME NEW V, NEW s \in Seq(V), NEW t \in Seq(V)
    PROVE  ToSet(s \o t) = ToSet(s) \cup ToSet(t)
<1> DEFINE c == s \o t
<1>1. /\ Len(s) \in Nat /\ Len(t) \in Nat /\ c \in Seq(V) /\ Len(c) = Len(s) + Len(t)
      /\ DOMAIN s = 1 .. Len(s) /\ DOMAIN t = 1 .. Len(t)
  BY ConcatProperties, LenProperties
<1>2. \A i \in 1 .. Len(s) + Len(t) :
         c[i] = IF i <= Len(s) THEN s[i] ELSE t[i - Len(s)]
  BY ConcatProperties
<1>3. DOMAIN c = 1 .. Len(s) + Len(t)
  <2> HIDE DEF c
  <2> QED
    BY <1>1, LenProperties
<1> HIDE DEF c
<1>4. ASSUME NEW x \in ToSet(c) PROVE x \in ToSet(s) \cup ToSet(t)
  <2>1. PICK i \in 1 .. Len(s) + Len(t) : x = c[i]
    BY <1>3 DEF ToSet
  <2>2. CASE i <= Len(s)
    <3>1. i \in DOMAIN s /\ x = s[i]
      BY <1>1, <1>2, <2>1, <2>2
    <3> QED
      BY <3>1 DEF ToSet
  <2>3. CASE ~(i <= Len(s))
    <3>1. i - Len(s) \in DOMAIN t /\ x = t[i - Len(s)]
      BY <1>1, <1>2, <2>1, <2>3
    <3> QED
      BY <3>1 DEF ToSet
  <2> QED
    BY <2>2, <2>3
<1>5. ASSUME NEW x \in ToSet(s) PROVE x \in ToSet(c)
  <2>1. PICK i \in 1 .. Len(s) : x = s[i]
    BY <1>1 DEF ToSet
  <2>2. i \in DOMAIN c /\ c[i] = x
    BY <1>1, <1>2, <1>3, <2>1
  <2> QED
    BY <2>2 DEF ToSet
<1>6. ASSUME NEW x \in ToSet(t) PROVE x \in ToSet(c)
  <2>1. PICK i \in 1 .. Len(t) : x = t[i]
    BY <1>1 DEF ToSet
  <2>2. /\ Len(s) + i \in 1 .. Len(s) + Len(t) /\ ~(Len(s) + i <= Len(s))
        /\ (Len(s) + i) - Len(s) = i
    BY <1>1
  <2>3. Len(s) + i \in DOMAIN c /\ c[Len(s) + i] = x
    BY <1>2, <1>3, <2>1, <2>2
  <2> QED
    BY <2>3 DEF ToSet
<1>7. ToSet(c) = ToSet(s) \cup ToSet(t)
  BY <1>4, <1>5, <1>6
<1> QED
  BY <1>7 DEF c

\* The function made of a subgraph's ops and the shared ops uses nothing it does
\* not have itself, and its own ops are those of the subgraph.
LEMMA CreatedFunction ==
    ASSUME Analysis, ret \subseteq Ops, NEW root, NEW f,
           f = [params |-> SetToSeq(inputParameters(root)),
                body |-> sharedOps \o subgraphOps(root),
                outs |-> collectSubgraphBoundary(subgraphOps(root))]
    PROVE  f \in FuncType /\ FuncGood(f) /\ Own(f) = Group(root)
<1> DEFINE G == Group(root)
           g == subgraphOps(root)
           s == sharedOps
           P == inputParameters(root)
<1>0. BlockTyped /\ SubgraphsTyped
  BY DEF Analysis
<1>1. G \subseteq Ops /\ Shared \subseteq Ops /\ G \cap Shared = {}
  BY <1>0 DEF Group, Shared, SubgraphsTyped
<1>2. G \subseteq Nat /\ IsFiniteSet(G) /\ Shared \subseteq Nat /\ IsFiniteSet(Shared)
  BY <1>0, <1>1, OpsFinite
<1>3. g = inOrder(G)
  BY DEF subgraphOps, Group
<1>4. g \in Seq(G) /\ ToSet(g) = G /\ Ascending(g, Len(g), G)
  <2> HIDE DEF G, g
  <2> QED
    BY <1>2, <1>3, InOrderElements
<1>5. s \in Seq(Shared) /\ ToSet(s) = Shared
  BY <1>2, InOrderElements DEF sharedOps
<1>6. P = UNION {subgraphParams[subgraphOf[n]] : n \in G}
  BY <1>4 DEF inputParameters
<1>7. P \subseteq ConstParams /\ \A n \in G : subgraphParams[subgraphOf[n]] \subseteq P
  <2>1. \A n \in G : subgraphParams[subgraphOf[n]] \subseteq ConstParams
    BY <1>0 DEF SubgraphsTyped, Group
  <2> QED
    BY <1>6, <2>1
<1>8. ConstParams \subseteq Int /\ IsFiniteSet(P)
  <2>1. ConstParams \subseteq Params /\ IsFiniteSet(Params) /\ \A p \in Params : p \in Int
    BY <1>0, Arguments
  <2>2. P \subseteq Params
    BY <1>7, <2>1
  <2> HIDE DEF P
  <2> QED
    BY <2>1, <2>2, FS_Subset
<1>9. SetToSeq(P) \in Seq(P) /\ ToSet(SetToSeq(P)) = P
  <2> HIDE DEF P
  <2> QED
    BY <1>8, SetToSeqElements
<1> HIDE DEF G, g, s, P
<1> DEFINE B == {v \in G : v \in ret \/ \E n \in Ops \ G : v \in Uses(n)}
<1>10. collectSubgraphBoundary(g) = inOrder(B)
  BY <1>4 DEF collectSubgraphBoundary, Uses
<1>11. B \subseteq Ops /\ B \subseteq G
  BY <1>1
<1> HIDE DEF B
<1>12. B \subseteq Nat /\ inOrder(B) \in Seq(B) /\ ToSet(inOrder(B)) = B
  BY <1>0, <1>11, OpsFinite, InOrderElements
<1>13. f.params = SetToSeq(P) /\ f.body = s \o g /\ f.outs = inOrder(B)
  BY <1>10 DEF P, s, g
<1>14. s \in Seq(Ops) /\ g \in Seq(Ops) /\ Ops \subseteq Nat
  BY <1>0, <1>1, <1>4, <1>5, SeqMonotonic, OpsFinite
<1>15. /\ f.body \in Seq(Ops) /\ Len(f.body) = Len(s) + Len(g)
       /\ ToSet(f.body) = Shared \cup G
  <2>1. s \o g \in Seq(Ops) /\ Len(s \o g) = Len(s) + Len(g)
    BY <1>14, ConcatProperties
  <2>2. ToSet(s \o g) = ToSet(s) \cup ToSet(g)
    BY <1>14, ConcatElements, Zenon
  <2> QED
    BY <1>4, <1>5, <1>13, <2>1, <2>2, Zenon
<1>16. Own(f) = G
  BY <1>1, <1>15 DEF Own
<1>17. f \in FuncType
  <2>1. f.params \in Seq(Int) /\ f.body \in Seq(Nat) /\ f.outs \in Seq(Nat)
    <3>1. f.params \in Seq(Int)
      BY <1>7, <1>8, <1>9, <1>13, SeqMonotonic
    <3>2. f.body \in Seq(Nat)
      BY <1>14, <1>15, SeqMonotonic
    <3>3. f.outs \in Seq(Nat)
      BY <1>12, <1>13, SeqMonotonic
    <3> QED
      BY <3>1, <3>2, <3>3
  <2>2. f = [params |-> f.params, body |-> f.body, outs |-> f.outs]
    OBVIOUS
  <2> QED
    BY <2>1, <2>2, Zenon DEF FuncType
<1>18. ASSUME NEW k \in DOMAIN f.body, NEW v \in Uses(f.body[k])
       PROVE  v \in ToSet(f.params) \/ \E j \in 1 .. k - 1 : f.body[j] = v
  <2>0. Len(s) \in Nat /\ Len(g) \in Nat
    BY <1>14
  <2>1. k \in 1 .. Len(s) + Len(g)
    BY <1>15, LenProperties
  <2>2. \A i \in 1 .. Len(s) + Len(g) :
           f.body[i] = IF i <= Len(s) THEN s[i] ELSE g[i - Len(s)]
    BY <1>13, <1>14, ConcatProperties
  <2>3. CASE k <= Len(s)
    <3>1. k \in 1 .. Len(s) /\ f.body[k] = s[k]
      BY <2>0, <2>1, <2>2, <2>3
    <3>2. s[k] \in Shared
      BY <1>5, <3>1, ElementOfSeq
    <3>3. Uses(s[k]) = {}
      BY <1>0, <3>2 DEF BlockTyped, Shared, isSharedOp
    <3> QED
      BY <3>1, <3>3
  <2>4. CASE ~(k <= Len(s))
    <3> DEFINE i == k - Len(s)
               n == g[i]
    <3>1. i \in 1 .. Len(g) /\ f.body[k] = n
      BY <2>0, <2>1, <2>2, <2>4
    <3>2. n \in G
      BY <1>4, <3>1, ElementOfSeq
    <3>3. n \in DOMAIN subgraphOf /\ rootOf(n) = root /\ v \in Uses(n) /\ n \in Ops
      BY <1>1, <3>1, <3>2 DEF G, Group
    <3>4. CASE v \in subgraphParams[subgraphOf[n]]
      BY <1>7, <1>9, <1>13, <3>2, <3>4
    <3>5. CASE v \in Shared
      <4>1. PICK j \in 1 .. Len(s) : s[j] = v
        <5>1. DOMAIN s = 1 .. Len(s)
          BY <1>5, LenProperties
        <5> QED
          BY <1>5, <3>5, <5>1 DEF ToSet
      <4>2. j \in 1 .. k - 1 /\ f.body[j] = v
        <5>1. j \in 1 .. k - 1 /\ j <= Len(s) /\ j \in 1 .. Len(s) + Len(g)
          BY <2>0, <2>1, <2>4
        <5> QED
          BY <2>2, <4>1, <5>1, Zenon
      <4> QED
        BY <4>2
    <3>6. CASE v \in DOMAIN subgraphOf /\ rootOf(v) = rootOf(n)
      <4>1. v \in G
        BY <3>3, <3>6 DEF G, Group
      <4>2. PICK j \in 1 .. Len(g) : g[j] = v
        BY <1>4, <4>1 DEF Ascending
      <4>3. v < n
        <5>1. v \in Params \/ v \in 1 .. n - 1
          BY <1>0, <3>3 DEF BlockTyped
        <5>2. v \in Nat /\ n \in Nat /\ v \notin Params
          <6>1. \A p \in Params : p \in Int /\ p < 0
            BY <1>0, Arguments
          <6>2. v \in Nat /\ n \in Nat
            BY <1>2, <3>2, <4>1
          <6> QED
            BY <6>1, <6>2
        <5> QED
          BY <5>1, <5>2
      <4>4. j < i
        <5> HIDE DEF i
        <5> QED
          BY <1>2, <1>4, <2>0, <3>1, <4>2, <4>3, AscendingPlaces
      <4>5. Len(s) + j \in 1 .. k - 1 /\ Len(s) + j \in 1 .. Len(s) + Len(g)
        BY <2>0, <2>1, <4>4
      <4>6. ~(Len(s) + j <= Len(s)) /\ (Len(s) + j) - Len(s) = j
        BY <2>0
      <4>7. f.body[Len(s) + j] = v
        BY <2>2, <4>2, <4>5, <4>6
      <4> QED
        BY <4>5, <4>7
    <3> QED
      BY <3>3, <3>4, <3>5, <3>6 DEF Analysis, SubgraphsClosed
  <2> QED
    BY <2>3, <2>4
<1>19. ToSet(f.outs) = {v \in Own(f) : \/ v \in ret
                                       \/ \E n \in Ops \ Own(f) : v \in Uses(n)}
  BY <1>12, <1>13, <1>16 DEF B
<1>20. ToSet(f.body) \subseteq Ops
  BY <1>1, <1>15
<1>21. ToSet(f.params) \subseteq ConstParams
  BY <1>7, <1>9, <1>13
<1>22. \E x : Own(f) = Group(x)
  BY <1>16 DEF G
<1>23. FuncGood(f)
  BY <1>18, <1>19, <1>20, <1>21, <1>22 DEF FuncGood
<1> QED
  BY <1>16, <1>17, <1>23 DEF G

-----------------------------------------------------------------------------
(* The block while the functions are taken out of it                       *)

HoistState ==
    /\ ret \subseteq Ops
    /\ funcs \in Seq(FuncType)
    /\ \A i \in DOMAIN funcs : FuncGood(funcs[i])
    /\ \A i, j \in DOMAIN funcs : i # j => Own(funcs[i]) \cap Own(funcs[j]) = {}
    /\ body \in Seq(Nat)
    /\ ToSet(body) = Ops \ (hoisted \ Shared)
    /\ Ascending(body, Len(body), ToSet(body))

\* The walk has ended: every operation is still in the block.
LEMMA EndOfBlockHoist ==
    ASSUME Analysis, funcs = <<>>, NEW r \in SUBSET Ops, endOfBlock(r)
    PROVE  HoistState'
<1> DEFINE n == Len(block)
<1>1. n \in Nat /\ Ops = 1 .. n
  BY Arguments DEF Analysis
<1>2. /\ Ops' = Ops /\ Shared' = Shared /\ ret' = r /\ funcs' = <<>>
      /\ body' = [m \in Ops |-> m]
  BY DEF endOfBlock, Ops, Shared, isSharedOp
<1>3. funcs' \in Seq(FuncType) /\ DOMAIN funcs' = {}
  BY <1>2
<1>4. hoisted' = {}
  BY <1>3 DEF hoisted
<1> HIDE DEF n
<1>5. body' = [m \in 1 .. n |-> m]
  BY <1>1, <1>2
<1>6. body' \in [1 .. n -> 1 .. n] /\ body' \in [1 .. n -> Nat] /\ DOMAIN body' = 1 .. n
  BY <1>5
<1>7. body' \in Seq(Nat) /\ Len(body') = n
  <2> DEFINE b == body'
  <2>1. b \in [1 .. n -> Nat]
    BY <1>6
  <2> HIDE DEF b
  <2>2. b \in Seq(Nat) /\ Len(b) = n
    BY <1>1, <2>1, FunctionIsSeq
  <2> QED
    BY <2>2 DEF b
<1>8. ToSet(body') = 1 .. n
  BY <1>5, <1>6 DEF ToSet
<1>9. Ascending(body', Len(body'), ToSet(body'))
  <2>1. Ascending(body', n, 1 .. n)
    BY <1>5, <1>6 DEF Ascending
  <2> QED
    BY <1>7, <1>8, <2>1
<1>10. ToSet(body') = Ops' \ (hoisted' \ Shared')
  BY <1>1, <1>2, <1>4, <1>8
<1> QED
  BY <1>2, <1>3, <1>7, <1>9, <1>10 DEF HoistState

\* What is hoisted is what the functions have of their own, and shared ops.
LEMMA HoistedOwn ==
    ASSUME NEW v
    PROVE  v \in hoisted \ Shared <=> \E i \in DOMAIN funcs : v \in Own(funcs[i])
BY DEF hoisted, Own

\* createConstEvalFunction moves one whole subgraph from the block to a new
\* function and keeps what is known of the others.
LEMMA CreateHoist ==
    ASSUME Analysis, HoistState, NEW root, createConstEvalFunction(root)
    PROVE  HoistState'
<1> DEFINE ops == subgraphOps(root)
           f == [params |-> SetToSeq(inputParameters(root)),
                 body |-> sharedOps \o ops,
                 outs |-> collectSubgraphBoundary(ops)]
<1>1. /\ funcs' = Append(funcs, f)
      /\ body' = inOrder(ToSet(body) \ ToSet(ops))
      /\ ToSet(ops) \cap hoisted = {}
  BY Zenon DEF createConstEvalFunction
<1>2. UNCHANGED <<function, block, ret, unionFind, subgraphOf, subgraphParams>>
  BY DEF createConstEvalFunction
<1>3. ret \subseteq Ops /\ BlockTyped
  BY DEF HoistState, Analysis
<1>4. PICK x : x = f
  OBVIOUS
<1>5. x \in FuncType /\ FuncGood(x) /\ Own(x) = Group(root)
  BY <1>3, <1>4, CreatedFunction
<1>6. ToSet(ops) = Group(root)
  <2>1. Group(root) \subseteq Ops /\ ops = inOrder(Group(root))
    BY DEF Group, subgraphOps, Analysis, SubgraphsTyped
  <2> HIDE DEF ops
  <2> QED
    BY <1>3, <2>1, OpsFinite, InOrderElements
<1>7. funcs' = Append(funcs, x)
  BY <1>1, <1>4
<1> HIDE DEF f, ops
<1>8. /\ Ops' = Ops /\ Shared' = Shared
      /\ \A y : FuncGood(y)' <=> FuncGood(y)
      /\ \A y : Own(y)' = Own(y)
  BY <1>2 DEF Ops, Shared, isSharedOp, FuncGood, Own, Group, Uses, rootOf, ConstParams
<1> DEFINE L == Len(funcs)
<1>9. funcs \in [1 .. L -> FuncType] /\ L \in Nat /\ DOMAIN funcs = 1 .. L
  BY LenProperties DEF HoistState
<1> HIDE DEF L
<1>10. Appended(funcs', funcs, L, FuncType, x)
  <2>1. Appended(Append(funcs, x), funcs, L, FuncType, x)
    BY <1>9, AppendElements, Zenon
  <2> QED
    BY <1>7, <2>1, Zenon
<1>11. /\ funcs' \in [1 .. L + 1 -> FuncType]
       /\ funcs'[L + 1] = x
       /\ \A i \in 1 .. L : funcs'[i] = funcs[i]
  <2>1. FuncType \cup {x} = FuncType
    BY <1>5
  <2> QED
    BY <1>10, <2>1, Zenon DEF Appended
<1>12. funcs' \in Seq(FuncType) /\ DOMAIN funcs' = 1 .. L + 1
  <2>1. L + 1 \in Nat
    BY <1>9
  <2> QED
    BY <1>11, <2>1, FunctionIsSeq, Zenon
<1>13. \A i \in DOMAIN funcs' : i = L + 1 \/ (i \in DOMAIN funcs /\ funcs'[i] = funcs[i])
  BY <1>9, <1>11, <1>12
<1>14. \A i \in DOMAIN funcs' : FuncGood(funcs'[i])
  BY <1>5, <1>11, <1>13 DEF HoistState
<1>15. \A i \in DOMAIN funcs : Own(funcs[i]) \cap Own(x) = {}
  <2> SUFFICES ASSUME NEW i \in DOMAIN funcs, NEW v \in Own(funcs[i]), v \in Own(x)
               PROVE  FALSE
    OBVIOUS
  <2>1. v \in hoisted
    BY HoistedOwn
  <2> QED
    BY <1>1, <1>5, <1>6, <2>1
<1>16. \A i, j \in DOMAIN funcs' : i # j => Own(funcs'[i]) \cap Own(funcs'[j]) = {}
  <2> SUFFICES ASSUME NEW i \in DOMAIN funcs', NEW j \in DOMAIN funcs', i # j
               PROVE  Own(funcs'[i]) \cap Own(funcs'[j]) = {}
    OBVIOUS
  <2>1. CASE i = L + 1
    <3>1. j \in DOMAIN funcs /\ funcs'[j] = funcs[j] /\ funcs'[i] = x
      BY <1>11, <1>13, <2>1
    <3> QED
      BY <1>15, <3>1
  <2>2. CASE j = L + 1
    <3>1. i \in DOMAIN funcs /\ funcs'[i] = funcs[i] /\ funcs'[j] = x
      BY <1>11, <1>13, <2>2
    <3> QED
      BY <1>15, <3>1
  <2>3. CASE i # L + 1 /\ j # L + 1
    <3>1. i \in DOMAIN funcs /\ j \in DOMAIN funcs
          /\ funcs'[i] = funcs[i] /\ funcs'[j] = funcs[j]
      BY <1>13, <2>3
    <3> QED
      BY <3>1 DEF HoistState
  <2> QED
    BY <2>1, <2>2, <2>3
<1>17. \A v : v \in hoisted' \ Shared' <=> v \in hoisted \ Shared \/ v \in Group(root)
  <2> SUFFICES ASSUME NEW v
               PROVE  v \in hoisted' \ Shared' <=> v \in hoisted \ Shared \/ v \in Group(root)
    OBVIOUS
  <2>1. v \in hoisted' \ Shared' <=> \E i \in DOMAIN funcs' : v \in Own(funcs'[i])
    BY <1>8 DEF hoisted, Own
  <2>2. L + 1 \in DOMAIN funcs' /\ \A i \in DOMAIN funcs : i \in DOMAIN funcs'
    BY <1>9, <1>12
  <2>3. (\E i \in DOMAIN funcs' : v \in Own(funcs'[i])) <=>
           (\E i \in DOMAIN funcs : v \in Own(funcs[i])) \/ v \in Own(x)
    BY <1>9, <1>11, <1>13, <2>2
  <2> QED
    BY <1>5, <2>1, <2>3, HoistedOwn
<1> DEFINE R == ToSet(body) \ Group(root)
<1>18. R \subseteq Ops
  BY DEF HoistState
<1>19. body' = inOrder(R)
  BY <1>1, <1>6
<1> HIDE DEF R
<1>20. R \subseteq Nat /\ body' \in Seq(R) /\ ToSet(body') = R /\ Ascending(body', Len(body'), R)
  BY <1>3, <1>18, <1>19, OpsFinite, InOrderElements
<1>21. body' \in Seq(Nat)
  BY <1>20, SeqMonotonic
<1>22. R = Ops' \ (hoisted' \ Shared')
  BY <1>8, <1>17 DEF R, HoistState
<1>23. ret' \subseteq Ops'
  BY <1>2, <1>3, <1>8
<1> QED
  BY <1>8, <1>12, <1>14, <1>16, <1>20, <1>21, <1>22, <1>23 DEF HoistState

-----------------------------------------------------------------------------
(* The properties of such a block                                          *)

\* Good functions contain what they use.
LEMMA SelfContained ==
    ASSUME HoistState
    PROVE  FuncsSelfContained
<1> SUFFICES ASSUME NEW i \in DOMAIN funcs
             PROVE  /\ ToSet(funcs[i].params) \subseteq ConstParams
                    /\ \A k \in DOMAIN funcs[i].body :
                          \A v \in ToSet(block[funcs[i].body[k]].ins) :
                             \/ v \in ToSet(funcs[i].params)
                             \/ \E j \in 1 .. k - 1 : funcs[i].body[j] = v
  BY DEF FuncsSelfContained
<1>1. FuncGood(funcs[i])
  BY DEF HoistState
<1> QED
  BY <1>1 DEF FuncGood, Uses

\* The values that the load_cached ops give.
loadedValues == UNION {ToSet(funcs[i].outs) : i \in DOMAIN funcs}

\* In the block of the hoisted state each value is a parameter, loaded or defined
\* earlier, and so are the returned values.
LEMMA Dominates ==
    ASSUME Analysis, HoistState
    PROVE  /\ \A k \in DOMAIN body : \A v \in Uses(body[k]) :
                 \/ v \in Params \cup loadedValues
                 \/ \E j \in 1 .. k - 1 : body[j] = v
           /\ ret \subseteq loadedValues \cup ToSet(body)
<1> DEFINE n == Len(body)
<1>0. BlockTyped /\ ToSet(body) \subseteq Ops
  BY DEF Analysis, HoistState
<1>1. n \in Nat /\ DOMAIN body = 1 .. n
  BY LenProperties DEF HoistState
<1>2. Ascending(body, n, ToSet(body)) /\ ToSet(body) \subseteq Nat
  BY <1>0, OpsFinite DEF HoistState
<1> HIDE DEF n
\* What has left the block is returned by a function if it is used outside.
<1>3. ASSUME NEW v \in Ops, v \notin ToSet(body),
             v \in ret \/ \E m \in ToSet(body) : v \in Uses(m)
      PROVE  v \in loadedValues
  <2>1. v \in hoisted \ Shared
    BY <1>3 DEF HoistState
  <2>2. PICK i \in DOMAIN funcs : v \in Own(funcs[i])
    BY <2>1, HoistedOwn
  <2>3. \A m \in ToSet(body) : m \in Ops \ Own(funcs[i])
    BY <1>0, <2>2, HoistedOwn DEF HoistState
  <2>4. v \in ToSet(funcs[i].outs)
    <3>1. ToSet(funcs[i].outs) =
             {u \in Own(funcs[i]) : \/ u \in ret
                                    \/ \E m \in Ops \ Own(funcs[i]) : u \in Uses(m)}
      BY DEF HoistState, FuncGood
    <3>2. v \in ret \/ \E m \in Ops \ Own(funcs[i]) : v \in Uses(m)
      BY <1>3, <2>3
    <3> QED
      BY <2>2, <3>1, <3>2
  <2> QED
    BY <2>4 DEF loadedValues
<1>4. ASSUME NEW k \in DOMAIN body, NEW v \in Uses(body[k])
      PROVE  v \in Params \cup loadedValues \/ \E j \in 1 .. k - 1 : body[j] = v
  <2>1. body[k] \in ToSet(body) /\ body[k] \in Ops
    BY <1>0 DEF ToSet
  <2>2. v \in Params \/ v \in 1 .. body[k] - 1
    BY <1>0, <2>1 DEF BlockTyped
  <2>3. CASE v \in Params
    BY <2>3
  <2>4. CASE v \in 1 .. body[k] - 1
    <3>1. Len(block) \in Nat /\ Ops = 1 .. Len(block)
      BY <1>0, Arguments
    <3>2. v \in Ops /\ v < body[k]
      BY <2>1, <2>4, <3>1
    <3>3. CASE v \in ToSet(body)
      <4>1. PICK j \in 1 .. n : body[j] = v
        BY <1>1, <3>3 DEF ToSet
      <4>2. k \in 1 .. n /\ body[j] < body[k]
        BY <1>1, <3>2, <4>1
      <4>3. j < k
        BY <1>1, <1>2, <4>2, AscendingPlaces
      <4>4. j \in 1 .. k - 1
        BY <1>1, <4>2, <4>3
      <4> QED
        BY <4>1, <4>4
    <3>4. CASE v \notin ToSet(body)
      BY <1>3, <2>1, <3>2, <3>4
    <3> QED
      BY <3>3, <3>4
  <2> QED
    BY <2>2, <2>3, <2>4
<1>5. ret \subseteq loadedValues \cup ToSet(body)
  BY <1>3 DEF HoistState
<1> QED
  BY <1>4, <1>5

\* That is BlockDominance.
LEMMA DominatesBlock ==
    ASSUME Analysis, phase \in {"hoist", "done"} => HoistState
    PROVE  BlockDominance
<1> SUFFICES ASSUME phase \in {"hoist", "done"}
             PROVE  /\ \A k \in DOMAIN body : \A v \in ToSet(block[body[k]].ins) :
                          \/ v \in Params \cup loadedValues
                          \/ \E j \in 1 .. k - 1 : body[j] = v
                    /\ ret \subseteq loadedValues \cup ToSet(body)
  BY Zenon DEF BlockDominance, loadedValues
<1> QED
  BY Dominates, Zenon DEF Uses

\* When all subgraphs are taken out, the functions hold just their operations.
LEMMA AllInFunctions ==
    ASSUME Analysis, HoistState, DOMAIN subgraphOf \subseteq hoisted
    PROVE  hoisted \ Shared = DOMAIN subgraphOf
<1>1. ASSUME NEW v \in hoisted \ Shared PROVE v \in DOMAIN subgraphOf
  <2>1. PICK i \in DOMAIN funcs : v \in Own(funcs[i])
    BY HoistedOwn
  <2>2. PICK root : Own(funcs[i]) = Group(root)
    BY DEF HoistState, FuncGood
  <2> QED
    BY <2>1, <2>2 DEF Group
<1>2. DOMAIN subgraphOf \cap Shared = {}
  BY DEF Analysis, SubgraphsTyped
<1> QED
  BY <1>1, <1>2

\* Once every recorded subgraph is hoisted, no constant op is left in the block:
\* each one was recorded when the analysis met it.
LEMMA AllConstants ==
    ASSUME Analysis, phase = "done" => HoistState /\ DOMAIN subgraphOf \subseteq hoisted
    PROVE  HoistsAllConstants
<1> DEFINE constant == {n \in hoisted : block[n].kind = "compute"}
           used == {v \in Ops : isCreationOp(v) /\
                                \E n \in constant : v \in ToSet(block[n].ins)}
<1> SUFFICES ASSUME phase = "done"
             PROVE  /\ constant = ConstantGiven(constant)
                    /\ hoisted \ Shared = constant \cup used
  BY Zenon DEF HoistsAllConstants
<1>1. hoisted \ Shared = DOMAIN subgraphOf
  BY AllInFunctions
<1>2. DOMAIN subgraphOf \subseteq Ops /\ DOMAIN subgraphOf \cap Shared = {}
  BY DEF Analysis, SubgraphsTyped
<1>3. \A n \in Ops : block[n].kind = "compute" => n \notin Shared
  BY DEF Shared, isSharedOp
<1>4. \A n : n \in Shared => n \in Ops /\ block[n].kind = "shared"
  BY DEF Shared, isSharedOp
<1>5. \A n \in DOMAIN subgraphOf : block[n].kind = "compute" \/ isCreationOp(n)
  <2>1. \A n \in Ops : block[n].kind \in {"creation", "shared", "compute"}
    BY Arguments DEF Analysis
  <2> QED
    BY <1>2, <2>1 DEF Shared, isSharedOp, isCreationOp
<1>6. /\ ConstParams \subseteq Params /\ \A p \in Params : p \in Int /\ p < 0
      /\ Len(block) \in Nat /\ Ops = 1 .. Len(block)
  BY Arguments DEF Analysis
<1>7. constant = {n \in DOMAIN subgraphOf : block[n].kind = "compute"}
  BY <1>1, <1>4
<1> HIDE DEF constant
<1>8. ASSUME NEW n \in DOMAIN subgraphOf, NEW v \in Uses(n)
      PROVE  \/ v \in ConstParams
             \/ v \in Shared
             \/ v \in DOMAIN subgraphOf
  <2>1. subgraphOf[n] \in 1 .. N /\ subgraphParams \in [1 .. N -> SUBSET ConstParams]
    BY DEF Analysis, SubgraphsTyped
  <2> QED
    BY <2>1 DEF Analysis, SubgraphsClosed
<1>9. ASSUME NEW n \in constant PROVE n \in ConstantGiven(constant)
  <2>1. n \in DOMAIN subgraphOf /\ block[n].kind = "compute" /\ n \in Ops
    BY <1>2, <1>7
  <2>2. ASSUME NEW v \in Uses(n)
        PROVE  \/ v \in ConstParams \cup constant
               \/ v \in Ops /\ block[v].kind \in {"creation", "shared"}
    <3>1. CASE v \in DOMAIN subgraphOf
      BY <1>2, <1>5, <1>7, <3>1 DEF isCreationOp
    <3>2. CASE v \in Shared
      BY <1>4, <3>2
    <3> QED
      BY <1>8, <2>1, <3>1, <3>2
  <2> QED
    BY <2>1, <2>2 DEF ConstantGiven, Uses
<1>10. ASSUME NEW n \in ConstantGiven(constant) PROVE n \in constant
  <2>1. n \in Ops /\ block[n].kind = "compute"
    BY DEF ConstantGiven
  <2>2. \A v \in Uses(n) : \/ v \in ConstParams \cup constant
                           \/ v \in Ops /\ block[v].kind \in {"creation", "shared"}
    BY DEF ConstantGiven, Uses
  <2>3. n \in DOMAIN subgraphOf
    <3> SUFFICES ASSUME n \notin DOMAIN subgraphOf PROVE FALSE
      OBVIOUS
    <3>1. PICK v \in Uses(n) : /\ v \notin ConstParams
                               /\ v \notin DOMAIN subgraphOf
                               /\ v \in Ops => block[v].kind = "compute"
      BY <2>1 DEF Analysis, OthersNotConstant
    <3> QED
      BY <1>7, <2>2, <3>1
  <2> QED
    BY <1>7, <2>1, <2>3
<1>11. constant = ConstantGiven(constant)
  BY <1>9, <1>10
<1>12. ASSUME NEW v \in DOMAIN subgraphOf PROVE v \in constant \cup used
  <2>1. CASE block[v].kind = "compute"
    BY <1>7, <2>1
  <2>2. CASE isCreationOp(v)
    <3>1. PICK n \in DOMAIN subgraphOf : block[n].kind = "compute" /\ v \in Uses(n)
      BY <2>2 DEF Analysis, CreationUsed
    <3> QED
      BY <1>2, <1>7, <2>2, <3>1 DEF Uses
  <2> QED
    BY <1>5, <2>1, <2>2
<1>13. ASSUME NEW v \in used PROVE v \in DOMAIN subgraphOf
  <2>1. v \in Ops /\ isCreationOp(v)
    OBVIOUS
  <2>2. PICK n \in constant : v \in Uses(n)
    BY DEF Uses
  <2>3. n \in DOMAIN subgraphOf
    BY <1>7
  <2>4. v \notin ConstParams
    BY <1>6, <2>1
  <2>5. v \notin Shared
    BY <1>4, <2>1 DEF isCreationOp
  <2> QED
    BY <1>8, <2>2, <2>3, <2>4, <2>5
<1>14. hoisted \ Shared = constant \cup used
  <2> HIDE DEF used
  <2> QED
    BY <1>1, <1>7, <1>12, <1>13
<1> QED
  BY <1>11, <1>14

\* Ops that depend on one another have the same root, and so are hoisted into
\* the same function.
LEMMA Together ==
    ASSUME Analysis, phase = "done" => HoistState
    PROVE  HoistedTogether
<1> SUFFICES ASSUME phase = "done"
             PROVE  /\ \A i \in DOMAIN funcs : \A m \in Own(funcs[i]) :
                          \A n \in DOMAIN subgraphOf : Adjacent(m, n) => n \in Own(funcs[i])
                    /\ \A i, j \in DOMAIN funcs :
                          i # j => Own(funcs[i]) \cap Own(funcs[j]) = {}
  BY Zenon DEF HoistedTogether, Own
<1>0. HoistState
  OBVIOUS
<1>1. /\ DOMAIN subgraphOf \cap Shared = {} /\ DOMAIN subgraphOf \subseteq Ops
      /\ subgraphParams \in [1 .. N -> SUBSET ConstParams]
      /\ \A n \in DOMAIN subgraphOf : subgraphOf[n] \in 1 .. N
  BY DEF Analysis, SubgraphsTyped
<1>2. /\ ConstParams \subseteq Params /\ \A p \in Params : p \in Int /\ p < 0
      /\ Len(block) \in Nat /\ Ops = 1 .. Len(block)
  BY Arguments DEF Analysis
<1>3. ASSUME NEW n \in DOMAIN subgraphOf, NEW v \in DOMAIN subgraphOf, v \in Uses(n)
      PROVE  rootOf(v) = rootOf(n)
  <2>1. v \notin Shared /\ v \notin subgraphParams[subgraphOf[n]]
    BY <1>1, <1>2
  <2> QED
    BY <1>3, <2>1 DEF Analysis, SubgraphsClosed
<1>4. ASSUME NEW i \in DOMAIN funcs, NEW m \in Own(funcs[i]),
             NEW n \in DOMAIN subgraphOf, Adjacent(m, n)
      PROVE  n \in Own(funcs[i])
  <2>1. PICK root : Own(funcs[i]) = Group(root)
    BY <1>0 DEF HoistState, FuncGood
  <2>2. m \in DOMAIN subgraphOf /\ rootOf(m) = root
    BY <2>1 DEF Group
  <2>3. m \in Uses(n) \/ n \in Uses(m)
    BY <1>4 DEF Adjacent, Uses
  <2>4. rootOf(n) = root
    BY <1>3, <2>2, <2>3
  <2> QED
    BY <2>1, <2>4 DEF Group
<1> QED
  BY <1>0, <1>4 DEF HoistState

-----------------------------------------------------------------------------
(* undo-const-eval                                                         *)

\* The block when all functions are inlined again.
inlinedOps == FlattenSeq([i \in DOMAIN funcs |-> funcs[i].body]) \o body

\* Inlining all functions in front of the block gives every op not shared, each after
\* what it uses.
LEMMA Inlined ==
    ASSUME Analysis, HoistState
    PROVE  /\ inlinedOps \in Seq(Nat)
           /\ ToSet(inlinedOps) \subseteq Ops
           /\ Ops \ Shared \subseteq ToSet(inlinedOps)
           /\ \A p \in 1 .. Len(inlinedOps) : \A v \in Uses(inlinedOps[p]) :
                 v \in Params \/ \E i \in 1 .. p - 1 : inlinedOps[i] = v
<1> DEFINE L == Len(funcs)
           seqs == [i \in DOMAIN funcs |-> funcs[i].body]
           flat == FlattenSeq(seqs)
<1>1. L \in Nat /\ DOMAIN funcs = 1 .. L
  BY LenProperties DEF HoistState
<1>2. \A i \in 1 .. L : funcs[i].body \in Seq(Nat) /\ funcs[i].outs \in Seq(Nat)
  <2>1. \A i \in 1 .. L : funcs[i] \in FuncType
    BY ElementOfSeq DEF HoistState
  <2>2. \A f \in FuncType : f.body \in Seq(Nat) /\ f.outs \in Seq(Nat)
    BY DEF FuncType
  <2> QED
    BY <2>1, <2>2, Zenon
<1> HIDE DEF L
<1>3. seqs \in [1 .. L -> Seq(Nat)] /\ \A i \in 1 .. L : seqs[i] = funcs[i].body
  <2>1. seqs = [i \in 1 .. L |-> funcs[i].body]
    BY <1>1
  <2> HIDE DEF seqs
  <2> QED
    BY <1>2, <2>1
<1> HIDE DEF seqs
<1>4. seqs \in Seq(Seq(Nat)) /\ Len(seqs) = L
  BY <1>1, <1>3, FunctionIsSeq
<1>5. flat \in Seq(Nat) /\ Segments(flat, seqs, L)
  BY <1>4, FlattenSegments
<1>6. inlinedOps = flat \o body
  BY DEF inlinedOps, seqs
<1> HIDE DEF flat
<1> DEFINE F == Len(flat)
           B == Len(body)
<1>7. /\ body \in Seq(Nat) /\ F \in Nat /\ B \in Nat
      /\ DOMAIN flat = 1 .. F /\ DOMAIN body = 1 .. B
  BY <1>5, LenProperties DEF HoistState
<1>8. inlinedOps \in Seq(Nat) /\ Len(inlinedOps) = F + B
  BY <1>5, <1>6, <1>7, ConcatProperties
<1>9. ASSUME NEW p \in 1 .. F + B
      PROVE  inlinedOps[p] = IF p <= F THEN flat[p] ELSE body[p - F]
  <2>1. flat \in Seq(Nat) /\ body \in Seq(Nat)
    BY <1>5, <1>7
  <2>2. (flat \o body)[p] =
             IF p <= Len(flat) THEN flat[p] ELSE body[p - Len(flat)]
    BY <2>1, ConcatProperties
  <2> QED
    BY <1>6, <2>2, Zenon
<1>10. ToSet(inlinedOps) = ToSet(flat) \cup ToSet(body)
  <2>1. flat \in Seq(Nat) /\ body \in Seq(Nat)
    BY <1>5, <1>7
  <2>2. ToSet(flat \o body) = ToSet(flat) \cup ToSet(body)
    BY <2>1, ConcatElements
  <2> QED
    BY <1>6, <2>2, Zenon
<1> HIDE DEF F, B
\* What a function holds is in the flat sequence.
<1>11. ASSUME NEW i \in 1 .. L, NEW v \in ToSet(funcs[i].body)
       PROVE  \E p \in 1 .. F : flat[p] = v
  <2>1. PICK o \in Nat : Segment(flat, seqs[i], o)
    BY <1>5 DEF Segments
  <2>2. seqs[i] = funcs[i].body /\ DOMAIN funcs[i].body = 1 .. Len(funcs[i].body)
    BY <1>2, <1>3, LenProperties
  <2>3. PICK k \in 1 .. Len(seqs[i]) : seqs[i][k] = v
    BY <2>2 DEF ToSet
  <2>4. o + k \in 1 .. F /\ flat[o + k] = v
    BY <2>1, <2>3 DEF Segment, F
  <2> QED
    BY <2>4
\* What is in the flat sequence is held by a function.
<1>12. ASSUME NEW p \in 1 .. F
       PROVE  \E i \in 1 .. L : \E o \in Nat : \E k \in 1 .. Len(funcs[i].body) :
                 /\ Segment(flat, funcs[i].body, o)
                 /\ p = o + k /\ flat[p] = funcs[i].body[k]
  <2>1. PICK i \in 1 .. L, o \in Nat :
           Segment(flat, seqs[i], o) /\ \E k \in 1 .. Len(seqs[i]) : p = o + k
    BY <1>5 DEF Segments, F
  <2>2. PICK k \in 1 .. Len(seqs[i]) : p = o + k
    BY <2>1
  <2>3. seqs[i] = funcs[i].body
    BY <1>3
  <2>4. flat[o + k] = seqs[i][k]
    BY <2>1, <2>2 DEF Segment
  <2>5. /\ Segment(flat, funcs[i].body, o) /\ k \in 1 .. Len(funcs[i].body)
        /\ p = o + k /\ flat[p] = funcs[i].body[k]
    BY <2>1, <2>2, <2>3, <2>4, Zenon
  <2> QED
    BY <2>5, Zenon
<1>13. ToSet(inlinedOps) \subseteq Ops
  <2>1. ASSUME NEW v \in ToSet(flat) PROVE v \in Ops
    <3>1. PICK p \in 1 .. F : v = flat[p]
      BY <1>7 DEF ToSet
    <3>2. PICK i \in 1 .. L : \E k \in 1 .. Len(funcs[i].body) : v = funcs[i].body[k]
      BY <1>12, <3>1
    <3>3. DOMAIN funcs[i].body = 1 .. Len(funcs[i].body)
      BY <1>2, LenProperties
    <3>4. v \in ToSet(funcs[i].body)
      BY <3>2, <3>3 DEF ToSet
    <3> QED
      BY <1>1, <3>4 DEF HoistState, FuncGood
  <2>2. ToSet(body) \subseteq Ops
    BY DEF HoistState
  <2> QED
    BY <1>10, <2>1, <2>2
<1>14. Ops \ Shared \subseteq ToSet(inlinedOps)
  <2> SUFFICES ASSUME NEW v \in Ops \ Shared, v \notin ToSet(body)
               PROVE  v \in ToSet(flat)
    BY <1>10
  <2>1. v \in hoisted \ Shared
    BY DEF HoistState
  <2>2. PICK i \in 1 .. L : v \in ToSet(funcs[i].body)
    BY <1>1, <2>1 DEF hoisted
  <2> QED
    BY <1>7, <1>11, <2>2 DEF ToSet
<1>15. ASSUME NEW p \in 1 .. F + B, NEW v \in Uses(inlinedOps[p])
       PROVE  v \in Params \/ \E i \in 1 .. p - 1 : inlinedOps[i] = v
  <2>1. CASE p <= F
    <3>0. p \in 1 .. F /\ inlinedOps[p] = flat[p]
      BY <1>7, <1>9, <2>1
    <3>p. PICK i \in 1 .. L, o \in Nat : \E k \in 1 .. Len(funcs[i].body) :
             /\ Segment(flat, funcs[i].body, o)
             /\ p = o + k /\ flat[p] = funcs[i].body[k]
      BY <1>12, <3>0, Zenon
    <3>1. PICK k \in 1 .. Len(funcs[i].body) :
             /\ Segment(flat, funcs[i].body, o)
             /\ p = o + k /\ flat[p] = funcs[i].body[k]
      BY <3>p
    <3>2. FuncGood(funcs[i]) /\ DOMAIN funcs[i].body = 1 .. Len(funcs[i].body)
          /\ Len(funcs[i].body) \in Nat
      BY <1>1, <1>2, LenProperties DEF HoistState
    <3>3. v \in Uses(funcs[i].body[k])
      BY <1>15, <3>0, <3>1
    <3>4. \/ v \in ToSet(funcs[i].params)
          \/ \E j \in 1 .. k - 1 : funcs[i].body[j] = v
      BY <3>2, <3>3, Zenon DEF FuncGood
    <3>5. CASE v \in ToSet(funcs[i].params)
      BY <3>2, <3>5, Arguments DEF FuncGood, Analysis
    <3>6. CASE \E j \in 1 .. k - 1 : funcs[i].body[j] = v
      <4>1. PICK j \in 1 .. k - 1 : funcs[i].body[j] = v
        BY <3>6
      <4>2. j \in 1 .. Len(funcs[i].body) /\ o + j \in 1 .. p - 1
        BY <3>1, <3>2, <4>1
      <4>3. flat[o + j] = v
        BY <3>1, <4>1, <4>2 DEF Segment
      <4>4. o + j \in 1 .. F + B /\ o + j <= F
        BY <1>7, <3>0, <4>2
      <4>5. inlinedOps[o + j] = v
        BY <1>9, <4>3, <4>4, Zenon
      <4> QED
        BY <4>2, <4>5
    <3> QED
      BY <3>4, <3>5, <3>6
  <2>2. CASE ~(p <= F)
    <3> DEFINE k == p - F
    <3>1. k \in DOMAIN body /\ inlinedOps[p] = body[k]
      BY <1>7, <1>9, <2>2
    <3>2. v \in Uses(body[k])
      BY <1>15, <3>1
    <3>3. \/ v \in Params \cup loadedValues
          \/ \E j \in 1 .. k - 1 : body[j] = v
      <4> HIDE DEF k
      <4> QED
        BY <3>1, <3>2, Dominates, Zenon
    <3>4. CASE v \in loadedValues
      <4>1. PICK i \in 1 .. L : v \in ToSet(funcs[i].outs)
        BY <1>1, <3>4 DEF loadedValues
      <4>2. v \in ToSet(funcs[i].body)
        BY <1>1, <4>1 DEF HoistState, FuncGood, Own
      <4>3. PICK q \in 1 .. F : flat[q] = v
        BY <1>11, <4>2
      <4>4. q \in 1 .. p - 1 /\ q \in 1 .. F + B /\ q <= F
        BY <1>7, <2>2, <4>3
      <4>5. inlinedOps[q] = v
        BY <1>9, <4>3, <4>4, Zenon
      <4> QED
        BY <4>4, <4>5
    <3>5. CASE \E j \in 1 .. k - 1 : body[j] = v
      <4>1. PICK j \in 1 .. k - 1 : body[j] = v
        BY <3>5
      <4>2. /\ F + j \in 1 .. p - 1 /\ F + j \in 1 .. F + B
            /\ ~(F + j <= F) /\ (F + j) - F = j
        BY <1>7, <4>1
      <4>3. inlinedOps[F + j] = body[(F + j) - F]
        BY <1>9, <4>2, Zenon
      <4>4. inlinedOps[F + j] = v
        BY <4>1, <4>2, <4>3
      <4> QED
        BY <4>2, <4>4
    <3> QED
      BY <3>3, <3>4, <3>5
  <2> QED
    BY <2>1, <2>2
<1> QED
  BY <1>8, <1>13, <1>14, <1>15

\* Of the clones of the shared ops only the first stays.
LEMMA UndoneBlock ==
    ASSUME Analysis, HoistState, undoConstEvalImpl
    PROVE  UndoRestores'
<1> DEFINE ops == inlinedOps
           n == Len(ops)
           sharedAt == {k \in DOMAIN ops : isSharedOp(ops[k])}
           first == firstInstance(ops)
           K == {k \in DOMAIN ops : ~isSharedOp(ops[k]) \/ k = firstInstance(ops)}
<1>1. body' = [k \in DOMAIN inOrder(K) |-> ops[inOrder(K)[k]]]
  BY Zenon DEF undoConstEvalImpl, inlinedOps
<1>2. UNCHANGED <<function, block>>
  BY DEF undoConstEvalImpl
<1>3. /\ Ops' = Ops /\ Shared' = Shared /\ Params' = Params
      /\ \A v : isSharedOp(v)' <=> isSharedOp(v)
      /\ \A v : Uses(v)' = Uses(v)
  BY <1>2 DEF Ops, Shared, isSharedOp, Params, Uses
<1>4. /\ ops \in Seq(Nat)
      /\ ToSet(ops) \subseteq Ops
      /\ Ops \ Shared \subseteq ToSet(ops)
  BY Inlined
<1>5. \A p \in 1 .. n : \A v \in Uses(ops[p]) :
         v \in Params \/ \E i \in 1 .. p - 1 : ops[i] = v
  BY Inlined
<1> HIDE DEF ops
<1>6. n \in Nat /\ DOMAIN ops = 1 .. n
  BY <1>4, LenProperties
<1> HIDE DEF n
<1>7. \A k \in 1 .. n : ops[k] \in ToSet(ops) /\ ops[k] \in Ops
  BY <1>4, <1>6 DEF ToSet
<1>8. \A k \in 1 .. n : isSharedOp(ops[k]) => first \in sharedAt /\ first <= k
  <2> SUFFICES ASSUME NEW k \in 1 .. n, isSharedOp(ops[k])
               PROVE  first \in sharedAt /\ first <= k
    OBVIOUS
  <2>1. sharedAt \subseteq Nat /\ k \in sharedAt
    BY <1>6
  <2>2. first = CHOOSE x \in sharedAt : \A y \in sharedAt : x =< y
    BY DEF firstInstance, Min
  <2> HIDE DEF sharedAt, first
  <2>3. \E x \in sharedAt : \A y \in sharedAt : x =< y
    BY <2>1, LeastNumber
  <2>4. first \in sharedAt /\ \A y \in sharedAt : first =< y
    BY <2>2, <2>3
  <2> QED
    BY <2>1, <2>4
<1>9. K \subseteq 1 .. n
  BY <1>6
<1>10. \A k \in 1 .. n : ~isSharedOp(ops[k]) => k \in K
  BY <1>6
<1>11. first \in sharedAt => first \in K /\ first \in 1 .. n /\ isSharedOp(ops[first])
  BY <1>6
<1>12. \A k \in 1 .. n : isSharedOp(ops[k]) =>
           first \in K /\ first \in 1 .. n /\ isSharedOp(ops[first]) /\ first <= k
  BY <1>8, <1>11
<1> HIDE DEF K, first
<1> DEFINE kept == inOrder(K)
           c == Len(kept)
<1>13. K \subseteq Nat /\ IsFiniteSet(K)
  <2>1. IsFiniteSet(1 .. n)
    BY <1>6, FS_Interval
  <2>2. 1 .. n \subseteq Nat
    BY <1>6
  <2>3. IsFiniteSet(K)
    BY <1>9, <2>1, FS_Subset
  <2> QED
    BY <1>9, <2>2, <2>3
<1>14. kept \in Seq(K) /\ Ascending(kept, c, K)
  BY <1>13, InOrderElements
<1> HIDE DEF kept
<1>15. c \in Nat /\ DOMAIN kept = 1 .. c
  BY <1>14, LenProperties
<1> HIDE DEF c
<1>16. DOMAIN body' = 1 .. c /\ \A k \in 1 .. c : body'[k] = ops[kept[k]]
  BY <1>1, <1>15 DEF kept
<1>17. \A k \in 1 .. c : kept[k] \in K /\ kept[k] \in 1 .. n
  BY <1>9, <1>14 DEF Ascending
<1>18. \A p \in K : \E k \in 1 .. c : kept[k] = p
  BY <1>14 DEF Ascending
\* A place that stays is reached in the new block, before those behind it.
<1>19. ASSUME NEW k \in 1 .. c, NEW p \in K, p < kept[k]
       PROVE  \E j \in 1 .. k - 1 : body'[j] = ops[p]
  <2>1. PICK j \in 1 .. c : kept[j] = p
    BY <1>18
  <2>2. kept[j] < kept[k]
    BY <1>19, <2>1
  <2>3. j < k
    BY <1>13, <1>14, <1>15, <2>2, AscendingPlaces
  <2>4. j \in 1 .. k - 1
    BY <1>15, <2>3
  <2> QED
    BY <1>16, <2>1, <2>4
<1>20. ToSet(body') \ Shared = Ops \ Shared
  <2>1. ASSUME NEW v \in ToSet(body') PROVE v \in Ops
    <3>1. PICK k \in 1 .. c : v = body'[k]
      BY <1>16 DEF ToSet
    <3> QED
      BY <1>7, <1>16, <1>17, <3>1
  <2>2. ASSUME NEW v \in Ops \ Shared PROVE v \in ToSet(body')
    <3>1. PICK p \in 1 .. n : ops[p] = v
      BY <1>4, <1>6 DEF ToSet
    <3>2. p \in K
      BY <1>10, <3>1 DEF Shared
    <3>3. PICK k \in 1 .. c : kept[k] = p
      BY <1>18, <3>2
    <3>4. k \in DOMAIN body' /\ body'[k] = v
      BY <1>16, <3>1, <3>3
    <3> QED
      BY <3>4 DEF ToSet
  <2> QED
    BY <2>1, <2>2
<1>21. ASSUME NEW k \in 1 .. c, NEW v \in Uses(body'[k])
       PROVE  \/ v \in Params
              \/ \E j \in 1 .. k - 1 :
                    body'[j] = v \/ (isSharedOp(v) /\ isSharedOp(body'[j]))
  <2> DEFINE p == kept[k]
  <2>1. p \in 1 .. n /\ v \in Uses(ops[p])
    BY <1>16, <1>17, <1>21
  <2> HIDE DEF p
  <2>2. CASE v \in Params
    BY <2>2
  <2>3. CASE \E i \in 1 .. p - 1 : ops[i] = v
    <3>1. PICK i \in 1 .. p - 1 : ops[i] = v
      BY <2>3
    <3>2. i \in 1 .. n /\ i < p
      BY <1>6, <2>1, <3>1
    <3>3. CASE ~isSharedOp(v)
      <4>1. i \in K
        BY <1>10, <3>1, <3>2, <3>3
      <4>2. \E j \in 1 .. k - 1 : body'[j] = ops[i]
        BY <1>19, <3>2, <4>1 DEF p
      <4> QED
        BY <3>1, <4>2
    <3>4. CASE isSharedOp(v)
      <4>1. first \in K /\ first \in 1 .. n /\ isSharedOp(ops[first]) /\ first <= i
        BY <1>12, <3>1, <3>2, <3>4
      <4>2. first < p
        BY <2>1, <3>2, <4>1
      <4>3. \E j \in 1 .. k - 1 : body'[j] = ops[first]
        BY <1>19, <4>1, <4>2 DEF p
      <4> QED
        BY <3>4, <4>1, <4>3
    <3> QED
      BY <3>3, <3>4
  <2> QED
    BY <1>5, <2>1, <2>2, <2>3
<1>22. /\ ToSet(body') \ Shared' = Ops' \ Shared'
       /\ \A k \in DOMAIN body' : \A v \in Uses(body'[k]) :
             \/ v \in Params'
             \/ \E j \in 1 .. k - 1 :
                   body'[j] = v \/ (isSharedOp(v) /\ isSharedOp(body'[j]))
  BY <1>3, <1>16, <1>20, <1>21
<1> QED
  BY <1>2, <1>22, Zenon DEF UndoRestores, Uses, isSharedOp

-----------------------------------------------------------------------------
(* The pass                                                                *)

IInv ==
    /\ Analysis
    /\ phase \in {"analyze", "hoist", "done", "undone"}
    /\ phase \in {"analyze", "undone"} => funcs = <<>>
    /\ phase \in {"hoist", "done"} => HoistState
    /\ phase = "done" => DOMAIN subgraphOf \subseteq hoisted
    /\ UndoRestores

\* The invariant holds before the pass has looked at any op.
LEMMA InitIInv ==
    ASSUME Init
    PROVE  IInv
<1>1. /\ function \in FuncBounds /\ block = <<>> /\ subgraphOf = <<>> /\ subgraphParams = <<>>
      /\ unionFind = [parent |-> <<>>, rank |-> <<>>]
      /\ phase = "analyze" /\ funcs = <<>>
  BY DEF Init
<1>2. Ops = {} /\ DOMAIN subgraphOf = {}
  BY <1>1 DEF Ops
<1>3. BlockTyped
  BY <1>1, <1>2, EmptySeq DEF BlockTyped
<1>4. N = 0
  BY <1>1 DEF N
<1>5. Forest(unionFind, N)
  <2>1. unionFind \in [parent : [1 .. 0 -> 1 .. 0], rank : [1 .. 0 -> Nat]]
    BY <1>1
  <2> QED
    BY <1>4, <2>1 DEF Forest
<1>6. subgraphOf \in [DOMAIN subgraphOf -> 1 .. N]
      /\ subgraphParams \in [1 .. N -> SUBSET ConstParams]
  BY <1>1, <1>4
<1>7. SubgraphsTyped
  BY <1>2, <1>5, <1>6 DEF SubgraphsTyped
<1>8. SubgraphsClosed /\ CreationUsed /\ OthersNotConstant
  BY <1>2 DEF SubgraphsClosed, CreationUsed, OthersNotConstant
<1>9. UndoRestores
  BY <1>1 DEF UndoRestores
<1> QED
  BY <1>1, <1>3, <1>7, <1>8, <1>9 DEF IInv, Analysis

\* Hoisting leaves what the analysis recorded as it is.
LEMMA AnalysisUnchanged ==
    ASSUME Analysis, UNCHANGED <<function, block, unionFind, subgraphOf, subgraphParams>>
    PROVE  Analysis' /\ DOMAIN subgraphOf' = DOMAIN subgraphOf
<1>1. /\ Ops' = Ops /\ Shared' = Shared /\ Params' = Params /\ ConstParams' = ConstParams
      /\ N' = N
  BY DEF Ops, Shared, isSharedOp, Params, ConstParams, N
<1>2. BlockTyped'
  BY <1>1 DEF Analysis, BlockTyped, Uses
<1>3. SubgraphsTyped'
  BY <1>1 DEF Analysis, SubgraphsTyped
<1>4. SubgraphsClosed'
  BY <1>1 DEF Analysis, SubgraphsClosed, Uses, rootOf
<1>5. CreationUsed'
  BY <1>1 DEF Analysis, CreationUsed, Uses, isCreationOp
<1>6. OthersNotConstant'
  BY <1>1 DEF Analysis, OthersNotConstant, Uses
<1> QED
  BY <1>2, <1>3, <1>4, <1>5, <1>6 DEF Analysis

\* A step that changes neither functions nor block keeps the hoisting invariant.
LEMMA HoistUnchanged ==
    ASSUME HoistState,
           UNCHANGED <<function, block, ret, unionFind, subgraphOf, subgraphParams,
                       funcs, body>>
    PROVE  HoistState' /\ hoisted' = hoisted
<1>1. /\ Ops' = Ops /\ Shared' = Shared /\ hoisted' = hoisted
      /\ \A y : FuncGood(y)' <=> FuncGood(y)
      /\ \A y : Own(y)' = Own(y)
  BY DEF Ops, Shared, isSharedOp, hoisted, FuncGood, Own, Group, Uses, rootOf, ConstParams
<1> QED
  BY <1>1 DEF HoistState

\* Every step of the pass keeps the invariant.
LEMMA NextIInv ==
    ASSUME IInv, [Next]_vars
    PROVE  IInv'
<1>0. Analysis
  BY DEF IInv
<1>1. ASSUME NEW kind \in function.kinds \ {"compute"}, skipOp(kind, <<>>)
      PROVE  IInv'
  <2>1. kind \in {"creation", "shared", "compute"}
    BY FuncBoundsAssumption DEF IInv, Analysis, BlockTyped
  <2> DEFINE k == 0
             ins == <<>>
  <2>2. k \in Nat /\ ins \in [1 .. k -> Params \cup Ops] /\ ToSet(ins) = {} /\ skipOp(kind, ins)
    BY <1>1 DEF ToSet
  <2> HIDE DEF k, ins
  <2>3. Analysis'
    BY <1>0, <2>1, <2>2, SkipOpAnalysis
  <2>4. phase' = "analyze" /\ funcs' = funcs /\ phase = "analyze"
    BY <1>1 DEF skipOp
  <2> QED
    BY <2>3, <2>4 DEF IInv, UndoRestores
<1>2. ASSUME NEW k \in 1 .. MaxOperands, NEW ins \in [1 .. k -> Operands],
             skipOp("compute", ins)
      PROVE  IInv'
  <2> DEFINE kind == "compute"
  <2>1. kind \in {"creation", "shared", "compute"} /\ (kind # "compute" => ToSet(ins) = {})
        /\ skipOp(kind, ins)
    BY <1>2
  <2>2. k \in Nat /\ ins \in [1 .. k -> Params \cup Ops]
    BY MaxOperandsAssumption DEF Operands
  <2> HIDE DEF kind
  <2>3. Analysis'
    BY <1>0, <2>1, <2>2, SkipOpAnalysis
  <2>4. phase' = "analyze" /\ funcs' = funcs /\ phase = "analyze"
    BY <2>1 DEF skipOp
  <2> QED
    BY <2>3, <2>4 DEF IInv, UndoRestores
<1>3. ASSUME NEW k \in 1 .. MaxOperands, NEW ins \in [1 .. k -> Operands],
             processOp(ins)
      PROVE  IInv'
  <2>1. k \in Nat /\ ins \in [1 .. k -> Params \cup Ops]
    BY MaxOperandsAssumption DEF Operands
  <2>2. Analysis'
    BY <1>0, <1>3, <2>1, ProcessOpAnalysis
  <2>3. phase' = "analyze" /\ funcs' = funcs /\ phase = "analyze"
    BY <1>3 DEF processOp
  <2> QED
    BY <2>2, <2>3 DEF IInv, UndoRestores
<1>4. ASSUME NEW r \in SUBSET Ops, endOfBlock(r)
      PROVE  IInv'
  <2>1. phase = "analyze" /\ phase' = "hoist" /\ funcs = <<>>
    BY <1>4 DEF endOfBlock, IInv
  <2>2. HoistState'
    BY <1>0, <1>4, <2>1, EndOfBlockHoist
  <2>3. Analysis'
    BY <1>0, <1>4, AnalysisUnchanged DEF endOfBlock
  <2> QED
    BY <2>1, <2>2, <2>3 DEF IInv, UndoRestores
<1>5. ASSUME NEW root \in roots, createConstEvalFunction(root)
      PROVE  IInv'
  <2>1. phase = "hoist" /\ phase' = "hoist" /\ HoistState
    BY <1>5 DEF createConstEvalFunction, IInv
  <2>2. HoistState'
    BY <1>0, <1>5, <2>1, CreateHoist
  <2>3. Analysis'
    BY <1>0, <1>5, AnalysisUnchanged DEF createConstEvalFunction
  <2> QED
    BY <2>1, <2>2, <2>3 DEF IInv, UndoRestores
<1>6. ASSUME allHoisted
      PROVE  IInv'
  <2>1. phase = "hoist" /\ phase' = "done" /\ HoistState /\ DOMAIN subgraphOf \subseteq hoisted
    BY <1>6 DEF allHoisted, IInv
  <2>2. HoistState' /\ hoisted' = hoisted
    BY <1>6, <2>1, HoistUnchanged DEF allHoisted
  <2>3. Analysis' /\ DOMAIN subgraphOf' = DOMAIN subgraphOf
    BY <1>0, <1>6, AnalysisUnchanged DEF allHoisted
  <2> QED
    BY <2>1, <2>2, <2>3 DEF IInv, UndoRestores
<1>7. ASSUME undoConstEvalImpl
      PROVE  IInv'
  <2>1. phase = "done" /\ phase' = "undone" /\ funcs' = <<>> /\ HoistState
    BY <1>7, Zenon DEF undoConstEvalImpl, IInv
  <2>2. UndoRestores'
    BY <1>0, <1>7, <2>1, UndoneBlock
  <2>3. Analysis'
    BY <1>0, <1>7, AnalysisUnchanged DEF undoConstEvalImpl
  <2> QED
    BY <2>1, <2>2, <2>3 DEF IInv
<1>8. ASSUME UNCHANGED vars
      PROVE  IInv'
  <2>1. UNCHANGED <<function, phase, block, ret, unionFind, subgraphOf, subgraphParams,
                    funcs, body>>
    BY <1>8 DEF vars
  <2>2. Analysis' /\ DOMAIN subgraphOf' = DOMAIN subgraphOf
    BY <1>0, <2>1, AnalysisUnchanged
  <2>3. HoistState => HoistState' /\ hoisted' = hoisted
    BY <2>1, HoistUnchanged
  <2>4. UndoRestores'
    BY <2>1 DEF IInv, UndoRestores, Ops, Shared, isSharedOp, Params
  <2> QED
    BY <2>1, <2>2, <2>3, <2>4 DEF IInv
<1> QED
  BY <1>1, <1>2, <1>3, <1>4, <1>5, <1>6, <1>7, <1>8 DEF Next

\* The analysis and the hoisting keep the invariant: subgraphs are closed under
\* the operands of their operations, and each function holds one subgraph.
THEOREM PassInvariant == Spec => []IInv
<1>1. Init => IInv
  BY InitIInv
<1>2. IInv /\ [Next]_vars => IInv'
  BY NextIInv
<1> QED
  BY <1>1, <1>2, PTL DEF Spec

\* The pass hoists all constant operations, and no others but the creation ops
\* that they use (processOp, for every block and every order of the SmallSet).
THEOREM AllConstantsHoisted == Spec => []HoistsAllConstants
<1>1. IInv => HoistsAllConstants
  BY AllConstants DEF IInv
<1> QED
  BY <1>1, PassInvariant, PTL

\* A const-eval function reads its parameters and what it computes itself: the
\* error "Subgraph depends on out-of-scope value!" is never reached.
THEOREM NoOutOfScopeValue == Spec => []FuncsSelfContained
<1>1. IInv => FuncsSelfContained
  <2>1. ASSUME funcs = <<>> PROVE FuncsSelfContained
    BY <2>1 DEF FuncsSelfContained
  <2> QED
    BY <2>1, SelfContained DEF IInv
<1> QED
  BY <1>1, PassInvariant, PTL

\* After every call of createConstEvalFunction the block is in SSA form.
THEOREM BlockStaysDominated == Spec => []BlockDominance
<1>1. IInv => BlockDominance
  BY DominatesBlock DEF IInv
<1> QED
  BY <1>1, PassInvariant, PTL

\* Operations that use each other's results go to one function, by the unions
\* that processOp makes, and no operation goes to two.
THEOREM DependentsHoistedTogether == Spec => []HoistedTogether
<1>1. IInv => HoistedTogether
  BY Together DEF IInv
<1> QED
  BY <1>1, PassInvariant, PTL

\* undoConstEvalImpl gives back the operations of the block in a valid order.
THEOREM UndoGivesBack == Spec => []UndoRestores
<1>1. IInv => UndoRestores
  BY DEF IInv
<1> QED
  BY <1>1, PassInvariant, PTL
=============================================================================
