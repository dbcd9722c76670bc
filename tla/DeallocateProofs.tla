-------------------------- MODULE DeallocateProofs --------------------------
(***************************************************************************)
(* What TTNNDeallocate makes of a function in SSA form                     *)
(* (lib/Dialect/TTNN/Transforms/Passes.cpp), for functions of every length.*)
(*                                                                         *)
(* The compiled function's body is a concatenation of one chunk for each   *)
(* operation, so the lemmas say where the elements of a concatenation come *)
(* from: an operation that was there, in its order, or a deallocation in   *)
(* the chunk of the last use of its operand.  From there follows what the  *)
(* runtime takes for granted of live ranges (ProgramsWellFormed), and that *)
(* the compiled function computes what it computed before.                 *)
(***************************************************************************)
EXTENDS ProgramExecutor, FiniteSetTheorems, SequenceTheorems,
        WellFoundedInduction, TLAPS

-----------------------------------------------------------------------------
(* Induction and concatenation                                             *)

\* A set of natural numbers has a least element.
LEMMA LeastNumber ==
    ASSUME NEW T, T \subseteq Nat, T # {}
    PROVE  \E m \in T : \A n \in T : m <= n
<1> DEFINE R == OpToRel(<, Nat)
<1>1. IsWellFoundedOn(R, Nat)
  BY NatLessThanWellFounded
<1>2. \A x, y \in Nat : <<y, x>> \in R <=> y < x
  BY DEF OpToRel
<1> HIDE DEF R
<1>3. PICK x \in T : \A y \in T : ~(<<y, x>> \in R)
  BY <1>1, WFMin
<1>4. x \in Nat /\ \A y \in T : y \in Nat /\ ~(y < x)
  BY <1>2, <1>3
<1> QED
  BY <1>3, <1>4

\* A set that has 0, and with n also n + 1, has every natural number.
LEMMA Induct ==
    ASSUME NEW T, 0 \in T, \A n \in Nat : n \in T => n + 1 \in T
    PROVE  \A n \in Nat : n \in T
<1> SUFFICES ASSUME Nat \ T # {} PROVE FALSE
  OBVIOUS
<1>1. PICK m \in Nat \ T : \A n \in Nat \ T : m <= n
  BY LeastNumber
<1>2. m # 0 /\ m - 1 \in Nat
  BY <1>1
<1>3. m - 1 \in T
  BY <1>1, <1>2
<1>4. (m - 1) + 1 = m
  BY <1>2
<1> QED
  BY <1>1, <1>2, <1>3, <1>4

\* Positions in a concatenation.
LEMMA WithinSum ==
    ASSUME NEW a \in Nat, NEW b \in Nat, NEW n, n = a + b
    PROVE  /\ n \in Nat /\ a <= n
           /\ \A i \in 1 .. a : i \in 1 .. n
           /\ \A j \in 1 .. b : a + j \in 1 .. n /\ a < a + j /\ a + j <= n
  OBVIOUS

\* At most is transitive.
LEMMA AtMostTransitive ==
    ASSUME NEW a \in Nat, NEW b \in Nat, NEW c \in Nat, a <= b
    PROVE  b <= c => a <= c
  OBVIOUS

\* The k-th of the sequences seqs is in flat after the first off[k - 1]
\* elements.
Offsets(flat, seqs, off) ==
    /\ off \in [0 .. Len(seqs) -> Nat]
    /\ off[0] = 0
    /\ off[Len(seqs)] = Len(flat)
    /\ \A k \in 1 .. Len(seqs) :
          /\ off[k] = off[k - 1] + Len(seqs[k])
          /\ \A j \in 1 .. Len(seqs[k]) : flat[off[k - 1] + j] = seqs[k][j]

\* The recursive function in FlattenSeq exists.
LEMMA FlattenExists ==
    ASSUME NEW seqs, Len(seqs) \in Nat \ {0}
    PROVE  \E f : /\ f = [i \in 1 .. Len(seqs) |->
                             IF i = 1 THEN seqs[i] ELSE f[i - 1] \o seqs[i]]
                  /\ FlattenSeq(seqs) = f[Len(seqs)]
<1> DEFINE P(f, m) == f = [i \in 1 .. m |-> IF i = 1 THEN seqs[i] ELSE f[i - 1] \o seqs[i]]
           T == {m \in Nat : \E f : P(f, m)}
<1>1. 0 \in T
  <2>1. P(<<>>, 0)
    OBVIOUS
  <2> QED
    BY <2>1
<1>2. ASSUME NEW m \in Nat, m \in T PROVE m + 1 \in T
  <2>1. PICK f : P(f, m)
    BY <1>2
  <2> DEFINE g == [k \in 1 .. m + 1 |-> IF k = 1 THEN seqs[k] ELSE f[k - 1] \o seqs[k]]
  <2>2. ASSUME NEW k \in 1 .. m PROVE g[k] = f[k]
    <3>1. k \in 1 .. m + 1
      OBVIOUS
    <3>2. f[k] = IF k = 1 THEN seqs[k] ELSE f[k - 1] \o seqs[k]
      BY <2>1, Zenon
    <3>3. g[k] = IF k = 1 THEN seqs[k] ELSE f[k - 1] \o seqs[k]
      BY <3>1, Zenon
    <3> QED
      BY <3>2, <3>3, Zenon
  <2> HIDE DEF g
  <2>3. ASSUME NEW k \in 1 .. m + 1, k # 1
        PROVE  g[k - 1] = f[k - 1]
    <3>1. k - 1 \in 1 .. m
      BY <2>3
    <3> QED
      BY <2>2, <3>1, Zenon
  <2>4. P(g, m + 1)
    <3>1. \A k \in 1 .. m + 1 :
            (IF k = 1 THEN seqs[k] ELSE f[k - 1] \o seqs[k])
              = IF k = 1 THEN seqs[k] ELSE g[k - 1] \o seqs[k]
      BY <2>3
    <3> QED
      BY <3>1, Zenon DEF g
  <2>5. m + 1 \in Nat
    OBVIOUS
  <2> QED
    BY <2>4, <2>5, Zenon
<1>3. \A m \in Nat : m \in T
  <2> HIDE DEF T
  <2> QED
    BY <1>1, <1>2, Induct
<1> DEFINE flatten == CHOOSE f : P(f, Len(seqs))
<1>4. P(flatten, Len(seqs))
  BY <1>3
<1>5. FlattenSeq(seqs) = flatten[Len(seqs)]
  BY DEF FlattenSeq
<1> HIDE DEF flatten
<1> QED
  BY <1>4, <1>5

\* A concatenation consists of its parts one after the other.
LEMMA FlattenOffsets ==
    ASSUME NEW V, NEW seqs \in Seq(Seq(V))
    PROVE  /\ FlattenSeq(seqs) \in Seq(V)
           /\ \E off : Offsets(FlattenSeq(seqs), seqs, off)
<1> DEFINE L == Len(seqs)
<1>0. L \in Nat /\ \A k \in 1 .. L : seqs[k] \in Seq(V) /\ Len(seqs[k]) \in Nat
  BY ElementOfSeq
<1>z. CASE L = 0
  <2>1. FlattenSeq(seqs) = <<>> /\ seqs = <<>>
    BY <1>z DEF FlattenSeq
  <2>2. Offsets(<<>>, <<>>, [i \in 0 .. 0 |-> 0])
    BY DEF Offsets
  <2> QED
    BY <2>1, <2>2
<1>a. CASE L # 0
  <2>1. PICK f : /\ f = [i \in 1 .. L |-> IF i = 1 THEN seqs[i] ELSE f[i - 1] \o seqs[i]]
                 /\ FlattenSeq(seqs) = f[L]
    BY <1>0, <1>a, FlattenExists
  <2>2. 1 \in 1 .. L /\ f[1] = seqs[1]
    BY <1>0, <1>a, <2>1
  <2>3. ASSUME NEW k \in 1 .. L, k # 1
        PROVE  k - 1 \in 1 .. L /\ f[k] = f[k - 1] \o seqs[k]
    <3>1. f[k] = IF k = 1 THEN seqs[k] ELSE f[k - 1] \o seqs[k]
      BY <2>1, Zenon
    <3>2. k - 1 \in 1 .. L
      BY <1>0, <2>3
    <3> QED
      BY <2>3, <3>1, <3>2, Zenon
  <2> DEFINE Typed == {m \in Nat : m + 1 \in 1 .. L => f[m + 1] \in Seq(V)}
  <2>4. \A m \in Nat : m \in Typed
    <3>1. 0 \in Typed
      BY <1>0, <2>2
    <3>2. ASSUME NEW m \in Nat, m \in Typed PROVE m + 1 \in Typed
      <4> SUFFICES ASSUME m + 2 \in 1 .. L PROVE f[m + 2] \in Seq(V)
        OBVIOUS
      <4>1. m + 2 # 1 /\ (m + 2) - 1 = m + 1 /\ m + 1 \in 1 .. L
        BY <1>0
      <4>2. f[m + 1] \in Seq(V) /\ f[m + 2] = f[m + 1] \o seqs[m + 2]
        BY <2>3, <3>2, <4>1
      <4> QED
        BY <1>0, <4>2, ConcatProperties
    <3> HIDE DEF Typed
    <3> QED
      BY <3>1, <3>2, Induct
  <2>5. ASSUME NEW k \in 1 .. L PROVE f[k] \in Seq(V) /\ Len(f[k]) \in Nat
    <3>1. k - 1 \in Nat /\ (k - 1) + 1 = k
      BY <1>0
    <3>2. f[k] \in Seq(V)
      BY <2>4, <3>1
    <3> QED
      BY <3>2
  <2>6. ASSUME NEW k \in 1 .. L, k # 1
        PROVE  /\ Len(f[k]) = Len(f[k - 1]) + Len(seqs[k])
               /\ \A i \in 1 .. Len(f[k - 1]) : f[k][i] = f[k - 1][i]
               /\ \A j \in 1 .. Len(seqs[k]) : f[k][Len(f[k - 1]) + j] = seqs[k][j]
    <3> DEFINE a == f[k - 1]
               b == seqs[k]
    <3>1. a \in Seq(V) /\ b \in Seq(V) /\ Len(a) \in Nat /\ Len(b) \in Nat /\ f[k] = a \o b
      BY <1>0, <2>3, <2>5, <2>6
    <3> HIDE DEF a, b
    <3>2. /\ Len(a \o b) = Len(a) + Len(b)
          /\ \A i \in 1 .. Len(a) + Len(b) :
               (a \o b)[i] = IF i <= Len(a) THEN a[i] ELSE b[i - Len(a)]
      BY <3>1, ConcatProperties
    <3>3. \A i \in 1 .. Len(a) : (a \o b)[i] = a[i]
      BY <3>1, <3>2
    <3>4. ASSUME NEW j \in 1 .. Len(b) PROVE (a \o b)[Len(a) + j] = b[j]
      <4>1. /\ Len(a) + j \in 1 .. Len(a) + Len(b) /\ ~(Len(a) + j <= Len(a))
            /\ (Len(a) + j) - Len(a) = j
        BY <3>1
      <4> QED
        BY <3>2, <4>1
    <3> QED
      BY <3>1, <3>2, <3>3, <3>4 DEF a, b
  <2> DEFINE off == [k \in 0 .. L |-> IF k = 0 THEN 0 ELSE Len(f[k])]
             Prefix == {m \in Nat : m <= L - 1 =>
                          /\ Len(f[L - m]) <= Len(f[L])
                          /\ \A i \in 1 .. Len(f[L - m]) : f[L][i] = f[L - m][i]}
  <2>7. \A m \in Nat : m \in Prefix
    <3>1. 0 \in Prefix
      <4>1. L - 0 = L /\ L \in 1 .. L
        BY <1>0, <1>a
      <4> QED
        BY <2>5, <4>1
    <3>2. ASSUME NEW m \in Nat, m \in Prefix PROVE m + 1 \in Prefix
      <4> SUFFICES ASSUME m + 1 <= L - 1
                   PROVE  /\ Len(f[L - (m + 1)]) <= Len(f[L])
                          /\ \A i \in 1 .. Len(f[L - (m + 1)]) : f[L][i] = f[L - (m + 1)][i]
        OBVIOUS
      <4> DEFINE k == L - m
      <4>1. k \in 1 .. L /\ k # 1 /\ L - (m + 1) = k - 1 /\ k - 1 \in 1 .. L /\ m <= L - 1 /\ L \in 1 .. L
        BY <1>0, <1>a
      <4>2. Len(f[k]) <= Len(f[L]) /\ \A i \in 1 .. Len(f[k]) : f[L][i] = f[k][i]
        BY <3>2, <4>1
      <4>3. /\ Len(f[k]) = Len(f[k - 1]) + Len(seqs[k])
            /\ \A i \in 1 .. Len(f[k - 1]) : f[k][i] = f[k - 1][i]
        BY <2>6, <4>1
      <4>4. Len(f[k - 1]) \in Nat /\ Len(seqs[k]) \in Nat /\ Len(f[k]) \in Nat /\ Len(f[L]) \in Nat
        BY <1>0, <2>5, <4>1
      <4> HIDE DEF k
      <4>w. /\ Len(f[k - 1]) <= Len(f[k])
            /\ \A i \in 1 .. Len(f[k - 1]) : i \in 1 .. Len(f[k])
        BY <4>3, <4>4, WithinSum
      <4>5. Len(f[k - 1]) <= Len(f[L])
        BY <4>2, <4>4, <4>w
      <4>6. ASSUME NEW i \in 1 .. Len(f[k - 1]) PROVE f[L][i] = f[k - 1][i]
        <5>1. i \in 1 .. Len(f[k])
          BY <4>w
        <5> QED
          BY <4>2, <4>3, <5>1
      <4> QED
        BY <4>1, <4>5, <4>6
    <3> HIDE DEF Prefix
    <3> QED
      BY <3>1, <3>2, Induct
  <2>8. ASSUME NEW k \in 1 .. L
        PROVE  \A i \in 1 .. Len(f[k]) : f[L][i] = f[k][i]
    <3>1. L - k \in Nat /\ L - k <= L - 1 /\ L - (L - k) = k
      BY <1>0
    <3> QED
      BY <2>7, <3>1
  <2>9. off \in [0 .. L -> Nat] /\ off[0] = 0 /\ off[L] = Len(f[L])
    <3>1. \A k \in 0 .. L : k # 0 => k \in 1 .. L
      BY <1>0
    <3>2. 0 \in 0 .. L /\ L \in 0 .. L
      BY <1>0
    <3>3. \A k \in 0 .. L : (IF k = 0 THEN 0 ELSE Len(f[k])) \in Nat
      BY <2>5, <3>1
    <3>4. off \in [0 .. L -> Nat]
      BY <3>3, Zenon
    <3> QED
      BY <1>a, <3>2, <3>4
  <2>10. ASSUME NEW k \in 1 .. L
         PROVE  /\ off[k] = off[k - 1] + Len(seqs[k])
                /\ \A j \in 1 .. Len(seqs[k]) : f[L][off[k - 1] + j] = seqs[k][j]
    <3>0. k \in 0 .. L /\ k # 0 /\ k - 1 \in 0 .. L /\ off[k] = Len(f[k])
      BY <1>0
    <3>1. CASE k = 1
      <4>1. k - 1 = 0 /\ off[k - 1] = 0
        BY <3>0, <3>1
      <4>2. \A j \in 1 .. Len(seqs[k]) : off[k - 1] + j = j
        BY <4>1, <1>0
      <4> HIDE DEF off
      <4> QED
        BY <1>0, <2>2, <2>8, <3>0, <3>1, <4>1, <4>2
    <3>2. CASE k # 1
      <4>1. k - 1 \in 1 .. L /\ off[k - 1] = Len(f[k - 1])
        BY <1>0, <3>0, <3>2
      <4>2. ASSUME NEW j \in 1 .. Len(seqs[k])
            PROVE  Len(f[k - 1]) + j \in 1 .. Len(f[k])
        <5>1. Len(f[k - 1]) \in Nat /\ Len(seqs[k]) \in Nat
          BY <1>0, <2>5, <4>1
        <5>2. Len(f[k]) = Len(f[k - 1]) + Len(seqs[k])
          BY <2>6, <3>2
        <5> QED
          BY <5>1, <5>2, WithinSum
      <4>3. ASSUME NEW j \in 1 .. Len(seqs[k])
            PROVE  f[L][Len(f[k - 1]) + j] = seqs[k][j]
        BY <2>6, <2>8, <3>2, <4>2
      <4>4. Len(f[k]) = Len(f[k - 1]) + Len(seqs[k])
        BY <2>6, <3>2
      <4> HIDE DEF off
      <4> QED
        BY <3>0, <4>1, <4>3, <4>4
    <3> QED
      BY <3>1, <3>2
  <2> HIDE DEF off
  <2>11. Offsets(f[L], seqs, off)
    BY <2>9, <2>10 DEF Offsets
  <2>12. f[L] \in Seq(V)
    BY <1>0, <1>a, <2>5
  <2> QED
    BY <2>1, <2>11, <2>12
<1> QED
  BY <1>z, <1>a

\* The parts of a concatenation come in order and cover it.
LEMMA OffsetsCover ==
    ASSUME NEW V, NEW seqs \in Seq(Seq(V)), NEW flat, NEW off, Offsets(flat, seqs, off),
           Len(flat) \in Nat
    PROVE  /\ \A a, b \in 0 .. Len(seqs) : a <= b => off[a] <= off[b]
           /\ \A p \in 1 .. Len(flat) : \E k \in 1 .. Len(seqs) :
                 \E j \in 1 .. Len(seqs[k]) : p = off[k - 1] + j
<1> DEFINE L == Len(seqs)
<1>0. L \in Nat /\ \A k \in 1 .. L : seqs[k] \in Seq(V) /\ Len(seqs[k]) \in Nat
  BY ElementOfSeq
<1>1. /\ \A k \in 0 .. L : off[k] \in Nat
      /\ off[0] = 0 /\ off[L] = Len(flat)
      /\ \A k \in 1 .. L : off[k] = off[k - 1] + Len(seqs[k])
  BY DEF Offsets
<1> HIDE DEF L
<1> DEFINE T == {n \in Nat : \A a \in 0 .. L : a + n <= L => off[a] <= off[a + n]}
<1>2. \A n \in Nat : n \in T
  <2>1. 0 \in T
    <3>1. \A a \in 0 .. L : a + 0 = a /\ off[a] <= off[a]
      BY <1>1
    <3> QED
      BY <3>1
  <2>2. ASSUME NEW n \in Nat, n \in T PROVE n + 1 \in T
    <3> SUFFICES ASSUME NEW a \in 0 .. L, a + (n + 1) <= L
                 PROVE  off[a] <= off[a + (n + 1)]
      OBVIOUS
    <3> DEFINE b == a + n
    <3>1. b \in 0 .. L /\ b + 1 \in 1 .. L /\ b + 1 \in 0 .. L /\ (b + 1) - 1 = b /\ a + n <= L /\ a + (n + 1) = b + 1
      BY <1>0
    <3>2. off[a] <= off[b]
      BY <2>2, <3>1
    <3> HIDE DEF b
    <3>3. off[b + 1] = off[b] + Len(seqs[b + 1]) /\ Len(seqs[b + 1]) \in Nat
      BY <1>0, <1>1, <3>1 DEF L
    <3>4. off[a] \in Nat /\ off[b] \in Nat /\ off[b + 1] \in Nat
      BY <1>1, <3>1
    <3>5. off[b] <= off[b + 1]
      BY <3>3, <3>4, WithinSum
    <3> QED
      BY <3>1, <3>2, <3>4, <3>5, AtMostTransitive
  <2> HIDE DEF T
  <2> QED
    BY <2>1, <2>2, Induct
<1>3. ASSUME NEW a \in 0 .. L, NEW b \in 0 .. L, a <= b PROVE off[a] <= off[b]
  <2>1. b - a \in Nat /\ a + (b - a) = b /\ a + (b - a) <= L
    BY <1>0, <1>3
  <2> QED
    BY <1>2, <2>1
<1>4. ASSUME NEW p \in 1 .. Len(flat)
      PROVE  \E k \in 1 .. L : \E j \in 1 .. Len(seqs[k]) : p = off[k - 1] + j
  <2> DEFINE R == {k \in 0 .. L : p <= off[k]}
  <2>1. R \subseteq Nat /\ L \in R
    BY <1>0, <1>1
  <2>2. PICK k \in R : \A n \in R : k <= n
    BY <2>1, LeastNumber
  <2>3. k # 0
    BY <1>1, <2>2
  <2>4. k \in 1 .. L /\ k - 1 \in 0 .. L /\ k - 1 \notin R
    BY <1>0, <2>2, <2>3
  <2>5. off[k] = off[k - 1] + Len(seqs[k]) /\ off[k - 1] \in Nat /\ Len(seqs[k]) \in Nat
    BY <1>0, <1>1, <2>4 DEF L
  <2>6. off[k - 1] < p /\ p <= off[k]
    BY <2>2, <2>4, <2>5
  <2>7. p - off[k - 1] \in 1 .. Len(seqs[k]) /\ p = off[k - 1] + (p - off[k - 1])
    BY <1>4, <2>5, <2>6, SMTT(30)
  <2> QED
    BY <2>4, <2>7
<1> QED
  BY <1>3, <1>4 DEF L

\* Position p of flat is a position of one of the sequences.
InPart(p, seqs, off) ==
    \E k \in 1 .. Len(seqs) : \E j \in 1 .. Len(seqs[k]) : p = off[k - 1] + j

\* Each position is in some part.
LEMMA OffsetsReach ==
    ASSUME NEW V, NEW seqs \in Seq(Seq(V)), NEW flat, NEW off, Offsets(flat, seqs, off),
           Len(flat) \in Nat, NEW p \in 1 .. Len(flat)
    PROVE  InPart(p, seqs, off)
  BY OffsetsCover DEF InPart

\* Where the j-th of the k-th sequence is, no other element is.
OnlyPart(seqs, off, k, j) ==
    \A l \in 1 .. Len(seqs) : \A i \in 1 .. Len(seqs[l]) :
        off[k - 1] + j = off[l - 1] + i => k = l /\ j = i

\* A position is in one part only.
LEMMA OffsetsUnique ==
    ASSUME NEW V, NEW seqs \in Seq(Seq(V)), NEW flat, NEW off, Offsets(flat, seqs, off),
           Len(flat) \in Nat,
           NEW k \in 1 .. Len(seqs), NEW j \in 1 .. Len(seqs[k])
    PROVE  /\ off[k - 1] + j \in 1 .. Len(flat) /\ off[k - 1] \in Nat
           /\ OnlyPart(seqs, off, k, j)
<1> DEFINE L == Len(seqs)
<1>0. L \in Nat /\ \A n \in 1 .. L : seqs[n] \in Seq(V) /\ Len(seqs[n]) \in Nat
  BY ElementOfSeq
<1>1. /\ \A n \in 0 .. L : off[n] \in Nat
      /\ off[0] = 0 /\ off[L] = Len(flat)
      /\ \A n \in 1 .. L : off[n] = off[n - 1] + Len(seqs[n])
  BY DEF Offsets
<1>2. \A a, b \in 0 .. L : a <= b => off[a] <= off[b]
  BY OffsetsCover
<1>3. ASSUME NEW n \in 1 .. L, NEW i \in 1 .. Len(seqs[n])
      PROVE  off[n - 1] \in Nat /\ off[n] \in Nat /\ off[n - 1] < off[n - 1] + i /\ off[n - 1] + i <= off[n]
  <2>1. n - 1 \in 0 .. L /\ n \in 0 .. L
    BY <1>0
  <2>2. off[n - 1] \in Nat /\ off[n] \in Nat /\ Len(seqs[n]) \in Nat /\ off[n] = off[n - 1] + Len(seqs[n])
    BY <1>0, <1>1, <2>1
  <2> QED
    BY <2>2, WithinSum
<1>4. off[k - 1] + j \in 1 .. Len(flat)
  <2>1. k \in 0 .. L /\ L \in 0 .. L /\ k <= L
    BY <1>0
  <2>2. off[k] <= Len(flat)
    BY <1>1, <1>2, <2>1
  <2> QED
    BY <1>3, <2>2
<1>5. ASSUME NEW l \in 1 .. L, NEW i \in 1 .. Len(seqs[l]), off[k - 1] + j = off[l - 1] + i
      PROVE  k = l /\ j = i
  <2>1. ~(k < l)
    <3> SUFFICES ASSUME k < l PROVE FALSE
      OBVIOUS
    <3>1. k \in 0 .. L /\ l - 1 \in 0 .. L /\ k <= l - 1
      BY <1>0
    <3>2. off[k] <= off[l - 1]
      BY <1>2, <3>1
    <3>3. off[k - 1] + j <= off[k] /\ off[l - 1] < off[l - 1] + i
      BY <1>3
    <3>4. off[k] \in Nat /\ off[l - 1] \in Nat
      BY <1>1, <3>1
    <3> QED
      BY <1>5, <3>2, <3>3, <3>4
  <2>2. ~(l < k)
    <3> SUFFICES ASSUME l < k PROVE FALSE
      OBVIOUS
    <3>1. l \in 0 .. L /\ k - 1 \in 0 .. L /\ l <= k - 1
      BY <1>0
    <3>2. off[l] <= off[k - 1]
      BY <1>2, <3>1
    <3>3. off[l - 1] + i <= off[l] /\ off[k - 1] < off[k - 1] + j
      BY <1>3
    <3>4. off[l] \in Nat /\ off[k - 1] \in Nat
      BY <1>1, <3>1
    <3> QED
      BY <1>5, <3>2, <3>3, <3>4, SMTT(30)
  <2>3. k = l
    BY <1>0, <2>1, <2>2
  <2> QED
    BY <1>3, <1>5, <2>3, SMTT(30)
<1> QED
  BY <1>3, <1>4, <1>5 DEF OnlyPart

\* For each index up to n, the element e[i] when i is selected by S.
Singletons(n, e, S) == [i \in 1 .. n |-> IF i \in S THEN <<e[i]>> ELSE <<>>]

\* The concatenation of at most one element for each index has the elements
\* of the indices selected, each once.
LEMMA Selected ==
    ASSUME NEW E, NEW n \in Nat, NEW e \in [1 .. n -> E], IsInjective(e),
           NEW S \in SUBSET (1 .. n)
    PROVE  LET flat == FlattenSeq(Singletons(n, e, S))
           IN  /\ flat \in Seq(E)
               /\ \A j \in 1 .. Len(flat) : \E i \in S : flat[j] = e[i]
               /\ \A i \in S : \E j \in 1 .. Len(flat) : flat[j] = e[i]
               /\ IsInjective(flat)
<1> DEFINE seqs == Singletons(n, e, S)
           flat == FlattenSeq(seqs)
<1>0. \A i \in 1 .. n : seqs[i] = IF i \in S THEN <<e[i]>> ELSE <<>>
  BY DEF Singletons
<1>1. seqs \in Seq(Seq(E)) /\ Len(seqs) = n
  <2>1. \A i \in 1 .. n : (IF i \in S THEN <<e[i]>> ELSE <<>>) \in Seq(E)
    OBVIOUS
  <2>2. seqs \in [1 .. n -> Seq(E)]
    BY <2>1 DEF Singletons
  <2> QED
    BY <2>2
<1> HIDE DEF seqs
<1>2. flat \in Seq(E)
  BY <1>1, FlattenOffsets
<1>3. PICK off : Offsets(flat, seqs, off)
  BY <1>1, FlattenOffsets
<1> HIDE DEF flat
<1>4. Len(flat) \in Nat /\ DOMAIN flat = 1 .. Len(flat)
  BY <1>2
<1>5. ASSUME NEW i \in S PROVE i \in 1 .. n /\ Len(seqs[i]) = 1 /\ seqs[i][1] = e[i]
  <2>1. i \in 1 .. n /\ seqs[i] = <<e[i]>>
    BY <1>0
  <2> QED
    BY <2>1
<1>6. ASSUME NEW i \in 1 .. n, NEW j \in 1 .. Len(seqs[i]) PROVE i \in S /\ j = 1
  <2>1. i \notin S => seqs[i] = <<>>
    BY <1>0
  <2>2. Len(<<>>) = 0
    OBVIOUS
  <2>3. i \in S
    BY <2>1, <2>2, <1>6
  <2>4. j \in 1 .. 1
    BY <2>3, <1>5
  <2> QED
    BY <2>3, <2>4
<1>7. ASSUME NEW i \in S
      PROVE  off[i - 1] + 1 \in 1 .. Len(flat) /\ flat[off[i - 1] + 1] = e[i]
  <2>1. i \in 1 .. n /\ 1 \in 1 .. Len(seqs[i])
    BY <1>5
  <2>2. off[i - 1] + 1 \in 1 .. Len(flat)
    BY <1>1, <1>3, <1>4, <2>1, OffsetsUnique
  <2> QED
    <3>1. \A j \in 1 .. Len(seqs[i]) : flat[off[i - 1] + j] = seqs[i][j]
      BY <1>1, <1>3, <2>1 DEF Offsets
    <3> QED
      BY <1>5, <2>1, <2>2, <3>1
<1>8. ASSUME NEW p \in 1 .. Len(flat)
      PROVE  \E i \in S : p = off[i - 1] + 1
  <2>0. InPart(p, seqs, off)
    BY <1>1, <1>3, <1>4, OffsetsReach
  <2>1. PICK i \in 1 .. Len(seqs) : \E j \in 1 .. Len(seqs[i]) : p = off[i - 1] + j
    BY <2>0 DEF InPart
  <2>2. PICK j \in 1 .. Len(seqs[i]) : p = off[i - 1] + j
    BY <2>1
  <2>3. i \in S /\ j = 1
    BY <1>1, <1>6
  <2> QED
    BY <2>2, <2>3
<1>9. IsInjective(flat)
  <2> SUFFICES ASSUME NEW p \in 1 .. Len(flat), NEW q \in 1 .. Len(flat), flat[p] = flat[q]
               PROVE  p = q
    BY <1>4 DEF IsInjective
  <2>1. PICK i \in S : p = off[i - 1] + 1
    BY <1>8
  <2>2. PICK l \in S : q = off[l - 1] + 1
    BY <1>8
  <2>3. e[i] = e[l]
    BY <1>7, <2>1, <2>2
  <2>4. i = l
    BY <1>5, <2>3 DEF IsInjective
  <2> QED
    BY <2>1, <2>2, <2>4
<1>10. /\ \A j \in 1 .. Len(flat) : \E i \in S : flat[j] = e[i]
       /\ \A i \in S : \E j \in 1 .. Len(flat) : flat[j] = e[i]
  <2>1. ASSUME NEW j \in 1 .. Len(flat) PROVE \E i \in S : flat[j] = e[i]
    BY <1>7, <1>8
  <2>2. ASSUME NEW i \in S PROVE \E j \in 1 .. Len(flat) : flat[j] = e[i]
    BY <1>7
  <2> QED
    BY <2>1, <2>2
<1> QED
  BY <1>2, <1>9, <1>10 DEF flat, seqs

-----------------------------------------------------------------------------
(* The values that are deallocated, and when                               *)

\* A set of positions has a last one.
LEMMA LastOfPositions ==
    ASSUME NEW n \in Nat, NEW S, S \subseteq 1 .. n, S # {}
    PROVE  Max(S) \in S /\ \A x \in S : x <= Max(S)
<1> DEFINE T == {m \in 0 .. n : n - m \in S}
<1>1. T \subseteq Nat /\ T # {}
  <2>1. PICK x \in S : TRUE
    OBVIOUS
  <2>2. x \in 1 .. n
    OBVIOUS
  <2>3. n - x \in 0 .. n /\ n - (n - x) = x
    BY <2>2
  <2>4. n - x \in T
    BY <2>3
  <2>5. \A m \in T : m \in Nat
    OBVIOUS
  <2> HIDE DEF T
  <2> QED
    BY <2>4, <2>5
<1>2. PICK m \in T : \A i \in T : m <= i
  BY <1>1, LeastNumber
<1>3. n - m \in S /\ m \in 0 .. n
  OBVIOUS
<1>4. ASSUME NEW x \in S PROVE n - m >= x
  <2>1. n - x \in 0 .. n /\ n - (n - x) = x
    OBVIOUS
  <2>2. n - x \in T
    BY <2>1
  <2>3. m <= n - x
    BY <1>2, <2>2
  <2> QED
    BY <1>3, <2>3
<1>5. \E x \in S : \A y \in S : x >= y
  BY <1>3, <1>4
<1>6. Max(S) \in S /\ \A y \in S : Max(S) >= y
  BY <1>5, Zenon DEF Max
<1> QED
  BY <1>6

\* The operations of a function are numbered, and its values are the
\* parameters and the results.
LEMMA SSAFacts ==
    ASSUME NEW f, InSSAForm(f)
    PROVE  /\ Len(f.body) \in Nat /\ DOMAIN f.body = 1 .. Len(f.body)
           /\ f.body \in Seq(ToSet(f.body))
           /\ f.params \in Seq(ToSet(f.params))
           /\ \A k \in 1 .. Len(f.body) :
                 /\ f.body[k].outs \in Seq(ToSet(f.body[k].outs))
                 /\ ToSet(f.body[k].outs) \cap ToSet(f.params) = {}
                 /\ \A i \in 1 .. k - 1 : ToSet(f.body[k].outs) \cap ToSet(f.body[i].outs) = {}
<1>1. isSequence(f.body) /\ isSequence(f.params)
  BY DEF InSSAForm
<1>2. Len(f.body) \in Nat /\ DOMAIN f.body = 1 .. Len(f.body)
  BY <1>1 DEF isSequence
<1>3. ASSUME NEW k \in 1 .. Len(f.body)
      PROVE  /\ isSequence(f.body[k].outs)
             /\ ToSet(f.body[k].outs) \cap definedBefore(f, k) = {}
  BY <1>2 DEF InSSAForm
<1>4. ASSUME NEW k \in 1 .. Len(f.body)
      PROVE  /\ ToSet(f.params) \subseteq definedBefore(f, k)
             /\ \A i \in 1 .. k - 1 : ToSet(f.body[i].outs) \subseteq definedBefore(f, k)
  BY DEF definedBefore
<1>5. ASSUME NEW k \in 1 .. Len(f.body)
      PROVE  /\ ToSet(f.body[k].outs) \cap ToSet(f.params) = {}
             /\ \A i \in 1 .. k - 1 : ToSet(f.body[k].outs) \cap ToSet(f.body[i].outs) = {}
  BY <1>3, <1>4, Zenon
<1> QED
  BY <1>1, <1>2, <1>3, <1>5 DEF isSequence

\* The results of a function's operations, each once.
LEMMA ResultsFacts ==
    ASSUME NEW f, InSSAForm(f)
    PROVE  /\ results(f) \in Seq(ToSet(results(f)))
           /\ IsInjective(results(f))
           /\ \A v : v \in ToSet(results(f)) <=>
                        \E k \in 1 .. Len(f.body) : v \in ToSet(f.body[k].outs)
           /\ ToSet(results(f)) \cap ToSet(f.params) = {}
<1> DEFINE V == UNION {ToSet(f.body[k].outs) : k \in 1 .. Len(f.body)}
           n == Len(f.body)
           seqs == [k \in DOMAIN f.body |-> f.body[k].outs]
           flat == results(f)
<1>1. n \in Nat /\ DOMAIN f.body = 1 .. n
  BY SSAFacts
<1>2. ASSUME NEW k \in 1 .. n PROVE f.body[k].outs \in Seq(V)
  <2>1. f.body[k].outs \in Seq(ToSet(f.body[k].outs)) /\ ToSet(f.body[k].outs) \subseteq V
    BY SSAFacts
  <2> QED
    BY <2>1, SeqMonotonic
<1>3. seqs \in Seq(Seq(V)) /\ Len(seqs) = n /\ \A k \in 1 .. n : seqs[k] = f.body[k].outs
  <2>1. seqs \in [1 .. n -> Seq(V)]
    BY <1>1, <1>2
  <2> QED
    BY <1>1, <2>1
<1>4. flat = FlattenSeq(seqs)
  BY DEF results
<1> HIDE DEF flat, seqs, V
<1>5. flat \in Seq(V)
  BY <1>3, <1>4, FlattenOffsets
<1>6. PICK off : Offsets(flat, seqs, off)
  BY <1>3, <1>4, FlattenOffsets
<1>7. Len(flat) \in Nat /\ DOMAIN flat = 1 .. Len(flat)
  BY <1>5
<1>8. ASSUME NEW k \in 1 .. n, NEW j \in 1 .. Len(seqs[k])
      PROVE  /\ off[k - 1] + j \in 1 .. Len(flat)
             /\ flat[off[k - 1] + j] = f.body[k].outs[j]
             /\ flat[off[k - 1] + j] \in ToSet(f.body[k].outs)
             /\ j \in DOMAIN f.body[k].outs
  <2>1. off[k - 1] + j \in 1 .. Len(flat)
    BY <1>3, <1>6, <1>7, OffsetsUnique
  <2>2. flat[off[k - 1] + j] = seqs[k][j]
    BY <1>3, <1>6 DEF Offsets
  <2>3. seqs[k] = f.body[k].outs /\ DOMAIN f.body[k].outs = 1 .. Len(f.body[k].outs)
    BY <1>2, <1>3
  <2> QED
    BY <2>1, <2>2, <2>3 DEF ToSet
<1>9. ASSUME NEW p \in 1 .. Len(flat)
      PROVE  \E k \in 1 .. n : \E j \in 1 .. Len(seqs[k]) : p = off[k - 1] + j
  <2>1. InPart(p, seqs, off)
    BY <1>3, <1>6, <1>7, OffsetsReach
  <2> QED
    BY <1>3, <2>1 DEF InPart
<1>10. \A v : v \in ToSet(flat) <=> \E k \in 1 .. n : v \in ToSet(f.body[k].outs)
  <2>1. ASSUME NEW p \in 1 .. Len(flat)
        PROVE  \E k \in 1 .. n : flat[p] \in ToSet(f.body[k].outs)
    <3>1. PICK k \in 1 .. n : \E j \in 1 .. Len(seqs[k]) : p = off[k - 1] + j
      BY <1>9
    <3> QED
      BY <1>8, <3>1
  <2>2. ASSUME NEW k \in 1 .. n, NEW v \in ToSet(f.body[k].outs)
        PROVE  \E p \in 1 .. Len(flat) : flat[p] = v
    <3>1. PICK j \in DOMAIN f.body[k].outs : v = f.body[k].outs[j]
      BY DEF ToSet
    <3>2. j \in 1 .. Len(seqs[k])
      BY <1>2, <1>3
    <3> QED
      BY <1>8, <3>1, <3>2
  <2>3. \A v : v \in ToSet(flat) <=> \E p \in 1 .. Len(flat) : flat[p] = v
    BY <1>7 DEF ToSet
  <2>4. ASSUME NEW v \in ToSet(flat) PROVE \E k \in 1 .. n : v \in ToSet(f.body[k].outs)
    BY <2>1, <2>3
  <2>5. ASSUME NEW v, \E k \in 1 .. n : v \in ToSet(f.body[k].outs) PROVE v \in ToSet(flat)
    BY <2>2, <2>3, <2>5
  <2> QED
    BY <2>4, <2>5
<1>11. IsInjective(flat)
  <2> SUFFICES ASSUME NEW p \in 1 .. Len(flat), NEW q \in 1 .. Len(flat), flat[p] = flat[q]
               PROVE  p = q
    BY <1>7 DEF IsInjective
  <2>1. PICK k \in 1 .. n : \E j \in 1 .. Len(seqs[k]) : p = off[k - 1] + j
    BY <1>9
  <2>a. PICK j \in 1 .. Len(seqs[k]) : p = off[k - 1] + j
    BY <2>1
  <2>2. PICK l \in 1 .. n : \E i \in 1 .. Len(seqs[l]) : q = off[l - 1] + i
    BY <1>9
  <2>b. PICK i \in 1 .. Len(seqs[l]) : q = off[l - 1] + i
    BY <2>2
  <2>3. flat[p] \in ToSet(f.body[k].outs) \cap ToSet(f.body[l].outs)
    BY <1>8, <2>a, <2>b
  <2>4. k = l
    <3>1. ~(k \in 1 .. l - 1) /\ ~(l \in 1 .. k - 1)
      BY <2>3, SSAFacts
    <3> QED
      BY <1>1, <3>1
  <2>5. f.body[k].outs[j] = f.body[k].outs[i] /\ {i, j} \subseteq DOMAIN f.body[k].outs
    BY <1>8, <2>a, <2>b, <2>4
  <2>6. IsInjective(f.body[k].outs)
    BY <1>1 DEF InSSAForm
  <2> QED
    BY <2>a, <2>b, <2>4, <2>5, <2>6 DEF IsInjective
<1>12. ToSet(flat) \cap ToSet(f.params) = {}
  BY <1>10, SSAFacts
<1>13. flat \in Seq(ToSet(flat))
  <2>1. flat \in [1 .. Len(flat) -> ToSet(flat)]
    BY <1>5, <1>7 DEF ToSet
  <2> QED
    BY <1>7, <2>1
<1> QED
  BY <1>10, <1>11, <1>12, <1>13 DEF flat

\* The number of operations of f.
Size(f) == Len(f.body)

\* All values but the parameters of a const-eval function.
Owned(f) ==
    IF f.constEval THEN definedBefore(f, Size(f) + 1) \ ToSet(f.params)
    ELSE definedBefore(f, Size(f) + 1)

\* The pass looks at each value that the function owns once.
LEMMA DeallocatedFacts ==
    ASSUME NEW f, InSSAForm(f)
    PROVE  /\ Reverse(deallocated(f)) \in Seq(Owned(f))
           /\ IsInjective(Reverse(deallocated(f)))
           /\ ToSet(Reverse(deallocated(f))) = Owned(f)
<1> DEFINE r == results(f)
           p == f.params
           vs == deallocated(f)
           rev == Reverse(vs)
           V == Owned(f)
<1>0. Size(f) \in Nat /\ DOMAIN f.body = 1 .. Size(f)
  BY SSAFacts DEF Size
<1>1. /\ r \in Seq(ToSet(r)) /\ IsInjective(r)
      /\ \A v : v \in ToSet(r) <=> \E k \in 1 .. Size(f) : v \in ToSet(f.body[k].outs)
      /\ ToSet(r) \cap ToSet(p) = {}
  BY ResultsFacts DEF Size
<1>2. p \in Seq(ToSet(p)) /\ IsInjective(p)
  BY SSAFacts DEF InSSAForm
<1>3. \A v : v \in definedBefore(f, Size(f) + 1) <=> v \in ToSet(p) \/ v \in ToSet(r)
  <2>1. (Size(f) + 1) - 1 = Size(f)
    BY <1>0
  <2> QED
    BY <1>1, <2>1 DEF definedBefore
<1>4. \A v : v \in V <=> (v \in ToSet(p) /\ ~f.constEval) \/ v \in ToSet(r)
  BY <1>1, <1>3 DEF Owned
<1>5. vs = (IF f.constEval THEN <<>> ELSE p) \o r
  BY DEF deallocated
<1> HIDE DEF r, p, vs, V
<1> DEFINE n == Len(vs)
<1>6. vs \in Seq(V) /\ n \in Nat /\ DOMAIN vs = 1 .. n /\ IsInjective(vs) /\ ToSet(vs) = V
  <2>1. CASE f.constEval
    <3>1. vs = r
      BY <1>1, <1>5, <2>1, ConcatEmptySeq
    <3>2. ToSet(r) = V
      BY <1>4, <2>1
    <3> QED
      BY <1>1, <3>1, <3>2
  <2>2. CASE ~f.constEval
    <3>1. ToSet(p) \subseteq V /\ ToSet(r) \subseteq V
      BY <1>4, <2>2
    <3>2. p \in Seq(V) /\ r \in Seq(V) /\ vs = p \o r
      BY <1>1, <1>2, <1>5, <2>2, <3>1, SeqMonotonic
    <3> DEFINE a == Len(p)
               b == Len(r)
    <3>3. /\ vs \in Seq(V) /\ n = a + b
          /\ \A i \in 1 .. a + b : vs[i] = IF i <= a THEN p[i] ELSE r[i - a]
      BY <3>2, ConcatProperties
    <3>4. a \in Nat /\ b \in Nat /\ DOMAIN p = 1 .. a /\ DOMAIN r = 1 .. b /\ n \in Nat /\ DOMAIN vs = 1 .. n
      BY <3>2, <3>3
    <3> HIDE DEF n, a, b
    <3>5. ASSUME NEW i \in 1 .. n
          PROVE  \/ i \in 1 .. a /\ vs[i] = p[i] /\ vs[i] \in ToSet(p)
                 \/ ~(i <= a) /\ i - a \in 1 .. b /\ vs[i] = r[i - a] /\ vs[i] \in ToSet(r)
      <4>1. vs[i] = IF i <= a THEN p[i] ELSE r[i - a]
        BY <3>3
      <4>2. CASE i <= a
        <5>1. i \in 1 .. a
          BY <3>4, <4>2
        <5> QED
          BY <3>4, <4>1, <4>2, <5>1 DEF ToSet
      <4>3. CASE ~(i <= a)
        <5>1. i - a \in 1 .. b
          BY <3>3, <3>4, <4>3
        <5> QED
          BY <3>4, <4>1, <4>3, <5>1 DEF ToSet
      <4> QED
        BY <4>2, <4>3
    <3>6. IsInjective(vs)
      <4> SUFFICES ASSUME NEW i \in 1 .. n, NEW j \in 1 .. n, vs[i] = vs[j] PROVE i = j
        BY <3>4 DEF IsInjective
      <4>1. CASE i <= a
        <5>1. i \in 1 .. a /\ j \in 1 .. a /\ p[i] = p[j]
          BY <1>1, <3>5, <4>1
        <5> QED
          BY <1>2, <3>4, <5>1 DEF IsInjective
      <4>2. CASE ~(i <= a)
        <5>1. i - a \in 1 .. b /\ j - a \in 1 .. b /\ r[i - a] = r[j - a]
          BY <1>1, <3>4, <3>5, <4>2
        <5>2. i - a = j - a
          BY <1>1, <3>4, <5>1 DEF IsInjective
        <5> QED
          BY <3>4, <5>2
      <4> QED
        BY <4>1, <4>2
    <3>7. ASSUME NEW i \in 1 .. a PROVE i \in 1 .. n /\ vs[i] = p[i]
      <4>1. i \in 1 .. n
        BY <3>3, <3>4, WithinSum
      <4> QED
        BY <3>3, <3>4, <4>1
    <3>8. ASSUME NEW i \in 1 .. b PROVE a + i \in 1 .. n /\ vs[a + i] = r[i]
      <4>1. a + i \in 1 .. n /\ ~(a + i <= a) /\ (a + i) - a = i
        BY <3>3, <3>4
      <4> QED
        BY <3>3, <3>4, <4>1
    <3>9. ASSUME NEW v \in V PROVE v \in ToSet(vs)
      <4>1. CASE v \in ToSet(p)
        <5>1. PICK i \in 1 .. a : v = p[i]
          BY <3>4, <4>1 DEF ToSet
        <5> QED
          BY <3>4, <3>7, <5>1 DEF ToSet
      <4>2. CASE v \in ToSet(r)
        <5>1. PICK i \in 1 .. b : v = r[i]
          BY <3>4, <4>2 DEF ToSet
        <5> QED
          BY <3>4, <3>8, <5>1 DEF ToSet
      <4> QED
        BY <1>4, <4>1, <4>2
    <3>10. ToSet(vs) \subseteq V
      BY <3>1, <3>4, <3>5 DEF ToSet
    <3> QED
      BY <3>3, <3>4, <3>6, <3>9, <3>10 DEF n
  <2> QED
    BY <2>1, <2>2
<1> HIDE DEF n
<1>7. DOMAIN rev = 1 .. n /\ \A i \in 1 .. n : rev[i] = vs[(n - i) + 1]
  BY <1>6 DEF Reverse, n
<1> HIDE DEF rev
<1>8. ASSUME NEW i \in 1 .. n PROVE (n - i) + 1 \in 1 .. n /\ (n - ((n - i) + 1)) + 1 = i
  BY <1>6
<1>9. ASSUME NEW i \in 1 .. n PROVE vs[i] \in V /\ rev[i] \in V /\ rev[(n - i) + 1] = vs[i]
  BY <1>6, <1>7, <1>8 DEF ToSet
<1>10. rev \in Seq(V)
  <2>1. rev = Reverse(vs) /\ \A i \in 1 .. n : vs[(n - i) + 1] \in V
    BY <1>8, <1>9 DEF rev
  <2>2. [i \in 1 .. n |-> vs[(n - i) + 1]] \in Seq(V)
    BY <1>6, <2>1
  <2> QED
    BY <2>1, <2>2 DEF Reverse, n
<1>11. IsInjective(rev)
  <2> SUFFICES ASSUME NEW i \in 1 .. n, NEW j \in 1 .. n, rev[i] = rev[j] PROVE i = j
    BY <1>7 DEF IsInjective
  <2>1. (n - i) + 1 = (n - j) + 1
    BY <1>6, <1>7, <1>8 DEF IsInjective
  <2> QED
    BY <1>6, <2>1
<1>12. ToSet(rev) = V
  <2>1. ASSUME NEW v \in V PROVE v \in ToSet(rev)
    <3>1. PICK i \in 1 .. n : v = vs[i]
      BY <1>6 DEF ToSet
    <3> QED
      BY <1>7, <1>8, <1>9, <3>1 DEF ToSet
  <2>2. ToSet(rev) \subseteq V
    BY <1>7, <1>9 DEF ToSet
  <2> QED
    BY <2>1, <2>2
<1> QED
  BY <1>10, <1>11, <1>12 DEF V, rev, vs

\* A value's last use is its definition or a use of it, none before the
\* definition, and not before any use.
LEMMA LastUse ==
    ASSUME NEW f, InSSAForm(f), NEW v \in definedBefore(f, Size(f) + 1)
    PROVE  LET last == getLastValueUsageOp(f, v)
           IN  /\ last \in 1 .. Size(f) + 1
               /\ v \in definedBefore(f, last + 1)
               /\ \A k \in 1 .. Size(f) : v \in ToSet(f.body[k].ins) => k <= last
               /\ v \in ToSet(f.ret) => last = Size(f) + 1
               /\ last = Size(f) + 1 => v \in ToSet(f.ret) \/ f.body = <<>>
<1> DEFINE n == Size(f)
           start == getStartOperation(f, v)
           S == Users(f, v) \cup {start}
           last == getLastValueUsageOp(f, v)
<1>0. n \in Nat /\ DOMAIN f.body = 1 .. n /\ (n + 1) - 1 = n /\ f.body \in Seq(ToSet(f.body))
  BY SSAFacts DEF Size
<1>1. /\ start \in 1 .. n + 1 /\ v \in definedBefore(f, start + 1)
      /\ start = n + 1 => n = 0
  <2>1. CASE v \in ToSet(f.params)
    BY <1>0, <2>1 DEF getStartOperation, definedBefore
  <2>2. CASE v \notin ToSet(f.params)
    <3>1. \E k \in DOMAIN f.body : v \in ToSet(f.body[k].outs)
      BY <1>0, <2>2 DEF definedBefore
    <3>2. start \in 1 .. n /\ v \in ToSet(f.body[start].outs)
      BY <1>0, <2>2, <3>1, Zenon DEF getStartOperation
    <3>3. (start + 1) - 1 = start /\ start \in 1 .. start /\ start # n + 1
      BY <1>0, <3>2
    <3> HIDE DEF start
    <3> QED
      BY <1>0, <3>2, <3>3 DEF definedBefore
  <2> QED
    BY <2>1, <2>2
<1>2. ASSUME NEW k \in Users(f, v)
      PROVE  /\ k \in 1 .. n + 1 /\ v \in definedBefore(f, k)
             /\ k = n + 1 => v \in ToSet(f.ret)
  <2>1. CASE k \in DOMAIN f.body /\ v \in ToSet(f.body[k].ins)
    BY <1>0, <2>1 DEF InSSAForm
  <2>2. CASE v \in ToSet(f.ret) /\ k = n + 1
    BY <1>0, <2>2 DEF Size
  <2> QED
    BY <2>1, <2>2 DEF Users, ReturnOp, Size
<1>3. /\ \A k \in 1 .. n : v \in ToSet(f.body[k].ins) => k \in S
      /\ v \in ToSet(f.ret) => n + 1 \in S
  BY <1>0 DEF Users, ReturnOp, Size
<1>4. last = Max(S)
  BY DEF getLastValueUsageOp
<1>5. ASSUME NEW k \in 1 .. n + 1, v \in definedBefore(f, k) PROVE v \in definedBefore(f, k + 1)
  <2>1. \A i : i \in 1 .. k - 1 => i \in 1 .. (k + 1) - 1
    BY <1>0
  <2> QED
    BY <1>5, <2>1 DEF definedBefore
<1> HIDE DEF n, start, last
<1>6. S \subseteq 1 .. n + 1 /\ S # {}
  BY <1>1, <1>2
<1>7. last \in S /\ \A x \in S : x <= last
  <2>1. n + 1 \in Nat
    BY <1>0
  <2> HIDE DEF S
  <2> QED
    BY <1>4, <1>6, <2>1, LastOfPositions
<1>8. last \in 1 .. n + 1 /\ v \in definedBefore(f, last + 1)
  BY <1>1, <1>2, <1>5, <1>7
<1>9. last = n + 1 => v \in ToSet(f.ret) \/ f.body = <<>>
  <2>1. n = 0 => f.body = <<>>
    BY <1>0 DEF Size, n
  <2> QED
    BY <1>1, <1>2, <1>7, <2>1
<1>10. v \in ToSet(f.ret) => last = n + 1
  BY <1>0, <1>3, <1>7, <1>8
<1> QED
  BY <1>3, <1>7, <1>8, <1>9, <1>10 DEF n, last

\* Operation o deallocates a value that f owns and last uses at operation k.
IsLastUse(f, k, o) ==
    \E v \in Owned(f) : getLastValueUsageOp(f, v) = k /\ o = DeallocateOp(v)

\* x is an element of s.
Occurs(s, x) == \E j \in 1 .. Len(s) : s[j] = x

\* What is inserted after operation k: a deallocate for each value that the
\* function owns and last uses there, once.
LEMMA AfterFacts ==
    ASSUME NEW f, InSSAForm(f), NEW k
    PROVE  LET a == deallocatesAfter(f, k)
           IN  /\ a \in Seq({DeallocateOp(v) : v \in Owned(f)})
               /\ \A j \in 1 .. Len(a) : IsLastUse(f, k, a[j])
               /\ \A v \in Owned(f) : getLastValueUsageOp(f, v) = k =>
                     Occurs(a, DeallocateOp(v))
               /\ IsInjective(a)
<1> DEFINE vs == Reverse(deallocated(f))
           n == Len(vs)
           V == Owned(f)
           E == {DeallocateOp(v) : v \in V}
           e == [i \in 1 .. n |-> DeallocateOp(vs[i])]
           S == {i \in 1 .. n : getLastValueUsageOp(f, vs[i]) = k}
           seqs == Singletons(n, e, S)
           a == deallocatesAfter(f, k)
<1>1. vs \in Seq(V) /\ IsInjective(vs) /\ ToSet(vs) = V
  BY DeallocatedFacts
<1>2. n \in Nat /\ DOMAIN vs = 1 .. n /\ \A i \in 1 .. n : vs[i] \in V
  BY <1>1
<1>3. \A u, v : DeallocateOp(u) = DeallocateOp(v) => u = v
  <2> SUFFICES ASSUME NEW u, NEW v, DeallocateOp(u) = DeallocateOp(v) PROVE u = v
    OBVIOUS
  <2>1. DeallocateOp(u).ins[1] = u /\ DeallocateOp(v).ins[1] = v
    BY DEF DeallocateOp
  <2> QED
    BY <2>1
<1> HIDE DEF vs, n, V
<1>4. e \in [1 .. n -> E] /\ \A i \in 1 .. n : e[i] = DeallocateOp(vs[i])
  BY <1>2
<1>5. IsInjective(e)
  <2> SUFFICES ASSUME NEW i \in 1 .. n, NEW j \in 1 .. n, e[i] = e[j] PROVE i = j
    BY DEF IsInjective
  <2>1. vs[i] = vs[j]
    BY <1>3
  <2> QED
    BY <1>1, <1>2, <2>1 DEF IsInjective
<1>6. S \in SUBSET (1 .. n) /\ \A i \in S : getLastValueUsageOp(f, vs[i]) = k
  OBVIOUS
<1>7. a = FlattenSeq(seqs)
  <2>1. \A i \in 1 .. n : (IF i \in S THEN <<e[i]>> ELSE <<>>) =
           (IF getLastValueUsageOp(f, vs[i]) = k THEN <<DeallocateOp(vs[i])>> ELSE <<>>)
    BY <1>4
  <2>2. seqs = [i \in 1 .. n |->
           IF getLastValueUsageOp(f, vs[i]) = k THEN <<DeallocateOp(vs[i])>> ELSE <<>>]
    BY <2>1, Zenon DEF Singletons
  <2>3. a = FlattenSeq([i \in 1 .. n |->
           IF getLastValueUsageOp(f, vs[i]) = k THEN <<DeallocateOp(vs[i])>> ELSE <<>>])
    BY <1>2 DEF deallocatesAfter, vs
  <2> QED
    BY <2>2, <2>3, Zenon
<1>9. ASSUME NEW v \in V, getLastValueUsageOp(f, v) = k
      PROVE  \E i \in S : e[i] = DeallocateOp(v)
  <2>1. PICK i \in 1 .. n : vs[i] = v
    BY <1>1, <1>2 DEF ToSet
  <2> QED
    BY <1>4, <1>9, <2>1
<1>10. \A i \in S : vs[i] \in V /\ e[i] = DeallocateOp(vs[i])
  BY <1>2, <1>4, <1>6
<1> HIDE DEF E, e, S, a
<1>11. /\ a \in Seq(E) /\ IsInjective(a)
       /\ \A j \in 1 .. Len(a) : \E i \in S : a[j] = e[i]
       /\ \A i \in S : \E j \in 1 .. Len(a) : a[j] = e[i]
  <2>1. /\ FlattenSeq(seqs) \in Seq(E)
        /\ \A j \in 1 .. Len(FlattenSeq(seqs)) : \E i \in S : FlattenSeq(seqs)[j] = e[i]
        /\ \A i \in S : \E j \in 1 .. Len(FlattenSeq(seqs)) : FlattenSeq(seqs)[j] = e[i]
        /\ IsInjective(FlattenSeq(seqs))
    <3>1. n \in Nat /\ e \in [1 .. n -> E] /\ S \in SUBSET (1 .. n)
      BY <1>2, <1>4, <1>6
    <3> QED
      BY <3>1, <1>5, Selected
  <2> QED
    BY <1>7, <2>1, Zenon
<1>12. ASSUME NEW j \in 1 .. Len(a)
       PROVE  IsLastUse(f, k, a[j])
  <2>1. PICK i \in S : a[j] = e[i]
    BY <1>11
  <2>2. vs[i] \in V /\ getLastValueUsageOp(f, vs[i]) = k /\ a[j] = DeallocateOp(vs[i])
    BY <1>6, <1>10, <2>1
  <2> QED
    BY <2>2 DEF IsLastUse, V
<1>13. ASSUME NEW v \in V, getLastValueUsageOp(f, v) = k
       PROVE  Occurs(a, DeallocateOp(v))
  <2>1. PICK i \in S : e[i] = DeallocateOp(v)
    BY <1>9, <1>13
  <2> QED
    BY <1>11, <2>1 DEF Occurs
<1> QED
  BY <1>11, <1>12, <1>13 DEF a, V, E

\* g is f with deallocates inserted: src[i] operations of f are among the
\* first i of g.
CompiledAs(f, g, src) ==
    /\ Len(g.body) \in Nat
    /\ src \in [0 .. Len(g.body) -> 0 .. Size(f)]
    /\ src[0] = 0
    /\ src[Len(g.body)] = Size(f)
    /\ \A i \in 1 .. Len(g.body) :
          \/ /\ src[i] = src[i - 1] + 1
             /\ g.body[i] = f.body[src[i]]
          \/ /\ src[i] = src[i - 1]
             /\ IsLastUse(f, src[i], g.body[i])
    /\ \A v \in Owned(f) : getLastValueUsageOp(f, v) <= Size(f) =>
          \E i \in 1 .. Len(g.body) :
             src[i] = getLastValueUsageOp(f, v) /\ g.body[i] = DeallocateOp(v)
    /\ \A i, j \in 1 .. Len(g.body) :
          g.body[i] = g.body[j] /\ g.body[i].op = "deallocate" => i = j

\* What TTNNDeallocate makes of operation k: the operation, and the
\* deallocations inserted after it.
Chunk(f, k) == <<f.body[k]>> \o deallocatesAfter(f, k)

\* The operations that TTNNDeallocate makes f of.
Ops(f) == ToSet(f.body) \cup {DeallocateOp(v) : v \in Owned(f)}

\* Operation k and what is inserted after it.
LEMMA ChunkFacts ==
    ASSUME NEW f, InSSAForm(f), NEW k \in 1 .. Size(f)
    PROVE  /\ Chunk(f, k) \in Seq(Ops(f))
           /\ Len(deallocatesAfter(f, k)) \in Nat
           /\ Len(Chunk(f, k)) = 1 + Len(deallocatesAfter(f, k))
           /\ Chunk(f, k)[1] = f.body[k]
           /\ \A j \in 1 .. Len(deallocatesAfter(f, k)) :
                 Chunk(f, k)[1 + j] = deallocatesAfter(f, k)[j]
<1> DEFINE a == deallocatesAfter(f, k)
           o == f.body[k]
           m == Len(a)
<1>1. o \in Ops(f)
  BY SSAFacts DEF Size, Ops, ToSet
<1>2. a \in Seq(Ops(f)) /\ m \in Nat
  <2>1. a \in Seq({DeallocateOp(v) : v \in Owned(f)})
    BY AfterFacts
  <2>2. {DeallocateOp(v) : v \in Owned(f)} \subseteq Ops(f)
    BY DEF Ops
  <2> HIDE DEF a
  <2> QED
    BY <2>1, <2>2, SeqMonotonic
<1>3. <<o>> \in Seq(Ops(f)) /\ Len(<<o>>) = 1 /\ <<o>>[1] = o
  BY <1>1
<1>4. Chunk(f, k) = <<o>> \o a
  BY DEF Chunk
<1> HIDE DEF a, o
<1>5. /\ <<o>> \o a \in Seq(Ops(f))
      /\ Len(<<o>> \o a) = 1 + m
      /\ \A i \in 1 .. 1 + m : (<<o>> \o a)[i] = IF i <= 1 THEN <<o>>[i] ELSE a[i - 1]
  BY <1>2, <1>3, ConcatProperties
<1>6. (<<o>> \o a)[1] = o
  <2>1. 1 \in 1 .. 1 + m
    BY <1>2
  <2> QED
    BY <1>3, <1>5, <2>1
<1>7. ASSUME NEW j \in 1 .. m PROVE (<<o>> \o a)[1 + j] = a[j]
  <2>1. 1 + j \in 1 .. 1 + m /\ ~(1 + j <= 1) /\ (1 + j) - 1 = j
    BY <1>2
  <2> QED
    BY <1>5, <2>1
<1> QED
  BY <1>2, <1>4, <1>5, <1>6, <1>7 DEF a, o

\* TTNNDeallocate changes nothing of a function but its body.
LEMMA CompiledFields ==
    ASSUME NEW f, InSSAForm(f)
    PROVE  /\ DOMAIN TTNNDeallocate(f) = {"params", "constEval", "ret", "body"}
           /\ TTNNDeallocate(f).params = f.params
           /\ TTNNDeallocate(f).ret = f.ret
           /\ TTNNDeallocate(f).constEval = f.constEval
           /\ TTNNDeallocate(f).body = FlattenSeq([k \in 1 .. Size(f) |-> Chunk(f, k)])
<1>1. DOMAIN f.body = 1 .. Size(f) /\ DOMAIN f = {"params", "constEval", "ret", "body"}
  BY SSAFacts DEF Size, InSSAForm
<1>2. TTNNDeallocate(f) = [f EXCEPT !.body = FlattenSeq([k \in 1 .. Size(f) |-> Chunk(f, k)])]
  BY <1>1 DEF TTNNDeallocate, Chunk
<1> QED
  BY <1>1, <1>2

\* Each operation of a compiled function is one that it had before, in the same
\* order, or a deallocation after the last use of a value (runOnOperation).
LEMMA CompiledSource ==
    ASSUME NEW f, InSSAForm(f), NEW g, g = TTNNDeallocate(f)
    PROVE  /\ isSequence(g.body)
           /\ \E src : CompiledAs(f, g, src)
<1> DEFINE n == Size(f)
           seqs == [k \in 1 .. n |-> Chunk(f, k)]
           flat == g.body
<1>1. n \in Nat /\ DOMAIN f.body = 1 .. n
  BY SSAFacts DEF Size
<1>2. flat = FlattenSeq(seqs)
  BY CompiledFields
<1> HIDE DEF flat, n
<1>3. seqs \in Seq(Seq(Ops(f))) /\ Len(seqs) = n /\ \A k \in 1 .. n : seqs[k] = Chunk(f, k)
  <2>1. \A k \in 1 .. n : Chunk(f, k) \in Seq(Ops(f))
    BY ChunkFacts DEF n
  <2>2. seqs \in [1 .. n -> Seq(Ops(f))]
    BY <2>1
  <2> QED
    BY <1>1, <2>2
<1> HIDE DEF seqs
<1>4. flat \in Seq(Ops(f)) /\ \E off : Offsets(flat, seqs, off)
  BY <1>2, <1>3, FlattenOffsets
<1>5. PICK off : Offsets(flat, seqs, off)
  BY <1>4
<1>6. Len(flat) \in Nat /\ DOMAIN flat = 1 .. Len(flat)
  BY <1>4
<1> DEFINE D(k) == Len(deallocatesAfter(f, k))
           N == Len(flat)
<1>7. ASSUME NEW k \in 1 .. n
      PROVE  /\ D(k) \in Nat
             /\ off[k - 1] \in Nat
             /\ off[k] = off[k - 1] + (1 + D(k))
             /\ off[k - 1] + 1 \in 1 .. N
             /\ flat[off[k - 1] + 1] = f.body[k]
             /\ \A j \in 1 .. D(k) :
                   /\ off[k - 1] + (1 + j) \in 1 .. N
                   /\ flat[off[k - 1] + (1 + j)] = deallocatesAfter(f, k)[j]
  <2>1. /\ D(k) \in Nat /\ Len(seqs[k]) = 1 + D(k) /\ seqs[k][1] = f.body[k]
        /\ \A j \in 1 .. D(k) : seqs[k][1 + j] = deallocatesAfter(f, k)[j]
    <3>1. /\ D(k) \in Nat /\ Len(Chunk(f, k)) = 1 + D(k) /\ Chunk(f, k)[1] = f.body[k]
          /\ \A j \in 1 .. D(k) : Chunk(f, k)[1 + j] = deallocatesAfter(f, k)[j]
      BY ChunkFacts DEF n
    <3>2. seqs[k] = Chunk(f, k)
      BY <1>3
    <3> QED
      BY <3>1, <3>2, Zenon
  <2>2. /\ off[k] = off[k - 1] + Len(seqs[k])
        /\ \A j \in 1 .. Len(seqs[k]) : flat[off[k - 1] + j] = seqs[k][j]
    BY <1>3, <1>5 DEF Offsets
  <2>3. \A j \in 1 .. Len(seqs[k]) : off[k - 1] + j \in 1 .. N /\ off[k - 1] \in Nat
    BY <1>3, <1>5, <1>6, OffsetsUnique
  <2> HIDE DEF D, N
  <2>4. 1 \in 1 .. Len(seqs[k]) /\ \A j \in 1 .. D(k) : 1 + j \in 1 .. Len(seqs[k])
    BY <2>1
  <2> QED
    BY <2>1, <2>2, <2>3, <2>4
<1> DEFINE In(i, k) == k \in 1 .. n /\ \E j \in 1 .. 1 + D(k) : i = off[k - 1] + j
<1>8. ASSUME NEW i \in 1 .. N PROVE \E k \in 1 .. n : In(i, k)
  <2>1. InPart(i, seqs, off)
    BY <1>3, <1>5, <1>6, OffsetsReach
  <2>2. PICK k \in 1 .. n : \E j \in 1 .. Len(seqs[k]) : i = off[k - 1] + j
    BY <1>3, <2>1 DEF InPart
  <2>3. Len(seqs[k]) = 1 + D(k)
    BY <1>3, ChunkFacts DEF n
  <2> QED
    BY <2>2, <2>3
<1>9. ASSUME NEW k \in 1 .. n, NEW l \in 1 .. n, NEW i \in 1 .. 1 + D(k), NEW j \in 1 .. 1 + D(l),
             off[k - 1] + i = off[l - 1] + j
      PROVE  k = l /\ i = j
  <2>1. Len(seqs[k]) = 1 + D(k) /\ Len(seqs[l]) = 1 + D(l)
    BY <1>3, ChunkFacts DEF n
  <2> HIDE DEF D
  <2>2. k \in 1 .. Len(seqs) /\ l \in 1 .. Len(seqs) /\ i \in 1 .. Len(seqs[k]) /\ j \in 1 .. Len(seqs[l])
    BY <1>3, <2>1
  <2>3. \A m \in 1 .. Len(seqs) : \A b \in 1 .. Len(seqs[m]) :
           off[k - 1] + i = off[m - 1] + b => k = m /\ i = b
    <3>1. seqs \in Seq(Seq(Ops(f))) /\ Len(flat) \in Nat
      BY <1>3, <1>6
    <3>2. k \in 1 .. Len(seqs) /\ i \in 1 .. Len(seqs[k])
      BY <2>2
    <3> QED
      <4>1. OnlyPart(seqs, off, k, i)
        BY <3>1, <3>2, <1>5, OffsetsUnique
      <4> QED
        BY <4>1, Zenon DEF OnlyPart
  <2> QED
    BY <1>9, <2>2, <2>3, Zenon
<1> HIDE DEF D, N
<1>10. ASSUME NEW i, NEW k, NEW l, In(i, k), In(i, l) PROVE k = l
  <2>1. PICK a \in 1 .. 1 + D(k) : i = off[k - 1] + a
    BY <1>10
  <2>2. PICK b \in 1 .. 1 + D(l) : i = off[l - 1] + b
    BY <1>10
  <2> QED
    BY <1>9, <1>10, <2>1, <2>2
<1> HIDE DEF In
<1> DEFINE src == [i \in 0 .. N |-> IF i = 0 THEN 0 ELSE CHOOSE k \in 1 .. n : In(i, k)]
<1>11. ASSUME NEW i \in 1 .. N
       PROVE  src[i] \in 1 .. n /\ In(i, src[i]) /\ \A k : In(i, k) => src[i] = k
  <2>1. i \in 0 .. N /\ i # 0
    OBVIOUS
  <2>2. src[i] = CHOOSE k \in 1 .. n : In(i, k)
    BY <2>1
  <2>3. src[i] \in 1 .. n /\ In(i, src[i])
    BY <1>8, <2>2
  <2> HIDE DEF src
  <2> QED
    BY <1>10, <2>3
<1>12. src[0] = 0 /\ src \in [0 .. N -> 0 .. n]
  <2>1. 0 \in 0 .. N /\ N \in Nat
    BY <1>6 DEF N
  <2>2. src[0] = 0
    BY <2>1
  <2>3. ASSUME NEW i \in 0 .. N PROVE src[i] \in 0 .. n
    <3>1. i = 0 \/ i \in 1 .. N
      BY <2>1
    <3>2. 0 \in 0 .. n
      BY <1>1
    <3> HIDE DEF src
    <3> QED
      BY <1>11, <2>2, <3>1, <3>2
  <2>4. DOMAIN src = 0 .. N /\ src = [i \in 0 .. N |-> src[i]]
    OBVIOUS
  <2> HIDE DEF src
  <2> QED
    BY <2>2, <2>3, <2>4
<1> HIDE DEF src
<1>13. off[0] = 0 /\ off[n] = N
  BY <1>3, <1>5 DEF Offsets, N
<1>14. ASSUME NEW k \in 1 .. n PROVE src[off[k]] = k /\ off[k] \in 1 .. N
  <2>1. off[k] = off[k - 1] + (1 + D(k)) /\ D(k) \in Nat /\ off[k - 1] \in Nat
    BY <1>7
  <2>2. 1 + D(k) \in 1 .. 1 + D(k)
    BY <2>1
  <2>3. In(off[k], k)
    BY <2>1, <2>2 DEF In
  <2>4. off[k] \in 1 .. N
    <3>1. CASE D(k) = 0
      BY <1>7, <2>1, <3>1
    <3>2. CASE D(k) # 0
      <4>1. D(k) \in 1 .. D(k)
        BY <2>1, <3>2
      <4> QED
        BY <1>7, <2>1, <4>1
    <3> QED
      BY <3>1, <3>2
  <2> QED
    BY <1>11, <2>3, <2>4
<1>15. ASSUME NEW k \in 1 .. n
       PROVE  LET i == off[k - 1] + 1
              IN  src[i] = k /\ src[i - 1] = k - 1 /\ flat[i] = f.body[k]
  <2> DEFINE i == off[k - 1] + 1
  <2>1. i \in 1 .. N /\ i - 1 = off[k - 1] /\ flat[i] = f.body[k] /\ 1 \in 1 .. 1 + D(k)
    BY <1>7
  <2>2. src[i] = k
    BY <1>11, <2>1 DEF In
  <2>3. src[off[k - 1]] = k - 1
    <3>1. CASE k = 1
      BY <1>12, <1>13, <3>1
    <3>2. CASE k # 1
      <4>1. k - 1 \in 1 .. n
        BY <1>1, <3>2
      <4> QED
        BY <1>14, <4>1
    <3> QED
      BY <3>1, <3>2
  <2> QED
    BY <2>1, <2>2, <2>3
<1>16. ASSUME NEW k \in 1 .. n, NEW j \in 1 .. D(k)
       PROVE  LET i == off[k - 1] + (1 + j)
              IN  src[i] = k /\ src[i - 1] = k /\ flat[i] = deallocatesAfter(f, k)[j] /\ i \in 1 .. N
  <2> DEFINE i == off[k - 1] + (1 + j)
  <2>1. i \in 1 .. N /\ flat[i] = deallocatesAfter(f, k)[j] /\ off[k - 1] \in Nat /\ D(k) \in Nat
    BY <1>7
  <2>2. i - 1 = off[k - 1] + j /\ i - 1 \in 1 .. N /\ j \in 1 .. 1 + D(k) /\ 1 + j \in 1 .. 1 + D(k)
    <3> DEFINE x == off[k - 1]
               d == D(k)
    <3>1. x \in Nat /\ d \in Nat /\ j \in 1 .. d /\ x + (1 + j) \in 1 .. N /\ N \in Nat
      BY <1>6, <2>1 DEF N
    <3> HIDE DEF x, d
    <3>2. (x + (1 + j)) - 1 = x + j /\ x + j \in 1 .. N /\ j \in 1 .. 1 + d /\ 1 + j \in 1 .. 1 + d
      BY <3>1
    <3> QED
      BY <3>2 DEF x, d
  <2>3. src[i] = k
    BY <1>11, <2>1, <2>2 DEF In
  <2>4. src[i - 1] = k
    <3>1. In(i - 1, k)
      BY <2>2 DEF In
    <3> HIDE DEF i
    <3> QED
      BY <1>11, <2>2, <3>1
  <2> QED
    BY <2>1, <2>3, <2>4
<1>17. ASSUME NEW i \in 1 .. N
       PROVE  \E k \in 1 .. n :
                 i = off[k - 1] + 1 \/ \E j \in 1 .. D(k) : i = off[k - 1] + (1 + j)
  <2>1. PICK k \in 1 .. n : In(i, k)
    BY <1>8
  <2>2. PICK a \in 1 .. 1 + D(k) : i = off[k - 1] + a
    BY <2>1 DEF In
  <2>3. a = 1 \/ (a - 1 \in 1 .. D(k) /\ a = 1 + (a - 1))
    BY <1>7
  <2> QED
    BY <2>2, <2>3
<1>18. ASSUME NEW i \in 1 .. N
       PROVE  \/ /\ src[i] = src[i - 1] + 1
                 /\ g.body[i] = f.body[src[i]]
              \/ /\ src[i] = src[i - 1]
                 /\ IsLastUse(f, src[i], g.body[i])
  <2>1. PICK k \in 1 .. n :
            i = off[k - 1] + 1 \/ \E j \in 1 .. D(k) : i = off[k - 1] + (1 + j)
    BY <1>17
  <2>2. CASE i = off[k - 1] + 1
    <3>1. src[i] = k /\ src[i - 1] = k - 1 /\ g.body[i] = f.body[k]
      BY <1>15, <2>2 DEF flat
    <3>2. (k - 1) + 1 = k
      BY <1>1
    <3> QED
      BY <3>1, <3>2
  <2>3. CASE \E j \in 1 .. D(k) : i = off[k - 1] + (1 + j)
    <3>1. PICK j \in 1 .. D(k) : i = off[k - 1] + (1 + j)
      BY <2>3
    <3>2. src[i] = k /\ src[i - 1] = k /\ g.body[i] = deallocatesAfter(f, k)[j]
      BY <1>16, <3>1 DEF flat
    <3>3. IsLastUse(f, k, deallocatesAfter(f, k)[j])
      BY <3>1, AfterFacts DEF D
    <3> QED
      BY <3>2, <3>3
  <2> QED
    BY <2>1, <2>2, <2>3
<1>19. ASSUME NEW v \in Owned(f), getLastValueUsageOp(f, v) <= n
       PROVE  \E i \in 1 .. N :
                 src[i] = getLastValueUsageOp(f, v) /\ g.body[i] = DeallocateOp(v)
  <2> DEFINE k == getLastValueUsageOp(f, v)
  <2>1. k \in 1 .. n
    <3>1. v \in definedBefore(f, Size(f) + 1)
      BY DEF Owned
    <3>2. k \in 1 .. n + 1
      BY <3>1, LastUse DEF n
    <3> HIDE DEF k
    <3> QED
      BY <1>1, <1>19, <3>2 DEF k
  <2>2. PICK j \in 1 .. Len(deallocatesAfter(f, k)) :
           deallocatesAfter(f, k)[j] = DeallocateOp(v)
    <3>1. Occurs(deallocatesAfter(f, k), DeallocateOp(v))
      BY AfterFacts
    <3> QED
      BY <3>1 DEF Occurs
  <2> HIDE DEF k
  <2>3. /\ src[off[k - 1] + (1 + j)] = k
        /\ g.body[off[k - 1] + (1 + j)] = deallocatesAfter(f, k)[j]
        /\ off[k - 1] + (1 + j) \in 1 .. N
    BY <1>16, <2>1 DEF flat, D
  <2> QED
    BY <2>2, <2>3 DEF k
<1>20. ASSUME NEW k \in 1 .. n PROVE f.body[k].op # "deallocate"
  BY <1>1 DEF InSSAForm
<1>21. ASSUME NEW i \in 1 .. N, g.body[i].op = "deallocate"
       PROVE  \E k \in 1 .. n : \E j \in 1 .. D(k) :
                 i = off[k - 1] + (1 + j) /\ g.body[i] = deallocatesAfter(f, k)[j]
  <2>1. PICK k \in 1 .. n :
            i = off[k - 1] + 1 \/ \E j \in 1 .. D(k) : i = off[k - 1] + (1 + j)
    BY <1>17
  <2>2. i # off[k - 1] + 1
    BY <1>15, <1>20, <1>21 DEF flat
  <2>3. PICK j \in 1 .. D(k) : i = off[k - 1] + (1 + j)
    BY <2>1, <2>2
  <2>4. g.body[i] = deallocatesAfter(f, k)[j]
    BY <1>16, <2>3 DEF flat
  <2> QED
    BY <2>3, <2>4
<1>22. ASSUME NEW i \in 1 .. N, NEW j \in 1 .. N,
              g.body[i] = g.body[j], g.body[i].op = "deallocate"
       PROVE  i = j
  <2>1. PICK k \in 1 .. n : \E a \in 1 .. D(k) :
                 i = off[k - 1] + (1 + a) /\ g.body[i] = deallocatesAfter(f, k)[a]
    BY <1>21, <1>22
  <2>2. PICK a \in 1 .. D(k) :
                 i = off[k - 1] + (1 + a) /\ g.body[i] = deallocatesAfter(f, k)[a]
    BY <2>1
  <2>3. PICK l \in 1 .. n : \E b \in 1 .. D(l) :
                 j = off[l - 1] + (1 + b) /\ g.body[j] = deallocatesAfter(f, l)[b]
    BY <1>21, <1>22
  <2>4. PICK b \in 1 .. D(l) :
                 j = off[l - 1] + (1 + b) /\ g.body[j] = deallocatesAfter(f, l)[b]
    BY <2>3
  <2>e. /\ IsLastUse(f, k, deallocatesAfter(f, k)[a])
        /\ IsLastUse(f, l, deallocatesAfter(f, l)[b])
    BY AfterFacts DEF D
  <2>5. PICK u \in Owned(f) :
           getLastValueUsageOp(f, u) = k /\ deallocatesAfter(f, k)[a] = DeallocateOp(u)
    BY <2>e DEF IsLastUse
  <2>6. PICK v \in Owned(f) :
           getLastValueUsageOp(f, v) = l /\ deallocatesAfter(f, l)[b] = DeallocateOp(v)
    BY <2>e DEF IsLastUse
  <2>7. u = v
    <3>1. DeallocateOp(u) = DeallocateOp(v)
      BY <1>22, <2>2, <2>4, <2>5, <2>6
    <3>2. DeallocateOp(u).ins[1] = u /\ DeallocateOp(v).ins[1] = v
      BY DEF DeallocateOp
    <3> QED
      BY <3>1, <3>2
  <2>8. k = l
    BY <2>5, <2>6, <2>7
  <2>9. a = b
    <3>1. deallocatesAfter(f, k)[a] = deallocatesAfter(f, k)[b]
      BY <2>5, <2>6, <2>7, <2>8
    <3>2. IsInjective(deallocatesAfter(f, k)) /\ deallocatesAfter(f, k) \in Seq({DeallocateOp(w) : w \in Owned(f)})
      BY AfterFacts
    <3> DEFINE q == deallocatesAfter(f, k)
    <3>3. q[a] = q[b] /\ a \in 1 .. Len(q) /\ b \in 1 .. Len(q)
      BY <2>8, <3>1 DEF D
    <3> HIDE DEF q
    <3>4. IsInjective(q) /\ DOMAIN q = 1 .. Len(q)
      BY <3>2 DEF q
    <3> QED
      BY <3>3, <3>4 DEF IsInjective
  <2> QED
    BY <2>2, <2>4, <2>8, <2>9
<1>23. src[N] = n
  <2>1. CASE n = 0
    BY <1>12, <1>13, <2>1
  <2>2. CASE n # 0
    <3>1. n \in 1 .. n
      BY <1>1, <2>2
    <3> QED
      BY <1>13, <1>14, <3>1
  <2> QED
    BY <2>1, <2>2
<1>24. N \in Nat /\ N = Len(g.body)
  BY <1>6 DEF N, flat
<1>25. isSequence(g.body)
  <2>1. flat \in [1 .. Len(flat) -> ToSet(flat)]
    BY <1>4, <1>6 DEF ToSet
  <2> QED
    BY <1>6, <2>1 DEF isSequence, flat
<1>26. CompiledAs(f, g, src)
  BY <1>12, <1>18, <1>19, <1>22, <1>23, <1>24 DEF CompiledAs, n
<1> QED
  BY <1>25, <1>26

-----------------------------------------------------------------------------
(* Live ranges after deallocation                                          *)

\* What is defined before an operation and with it.
LEMMA DefinedNext ==
    ASSUME NEW f, NEW k \in Nat, k # 0
    PROVE  definedBefore(f, k + 1) = definedBefore(f, k) \cup ToSet(f.body[k].outs)
<1>1. (k + 1) - 1 = k /\ \A i : i \in 1 .. k <=> i \in 1 .. k - 1 \/ i = k
  OBVIOUS
<1>2. ASSUME NEW v
      PROVE  v \in definedBefore(f, k + 1) <=>
                v \in definedBefore(f, k) \cup ToSet(f.body[k].outs)
  BY <1>1 DEF definedBefore
<1> QED
  BY <1>2

\* What is defined before an operation is defined before every later one.
LEMMA DefinedMonotonic ==
    ASSUME NEW f, NEW a \in Nat, NEW b \in Nat, a <= b
    PROVE  definedBefore(f, a) \subseteq definedBefore(f, b)
<1>1. \A i : i \in 1 .. a - 1 => i \in 1 .. b - 1
  OBVIOUS
<1> QED
  BY <1>1 DEF definedBefore

\* Inserting deallocates keeps the order of the operations.
LEMMA SourceMonotonic ==
    ASSUME NEW f, InSSAForm(f), NEW g, NEW src, CompiledAs(f, g, src),
           NEW i \in 0 .. Len(g.body), NEW j \in 0 .. Len(g.body), i <= j
    PROVE  src[i] \in Nat /\ src[j] \in Nat /\ src[i] <= src[j]
<1> DEFINE N == Len(g.body)
           T == {m \in Nat : i + m <= N => src[i] <= src[i + m]}
<1>1. N \in Nat /\ Size(f) \in Nat
  BY SSAFacts DEF CompiledAs, Size
<1>2. \A k \in 0 .. N : src[k] \in Nat
  <2>1. src \in [0 .. N -> 0 .. Size(f)]
    BY DEF CompiledAs
  <2>2. \A n \in 0 .. Size(f) : n \in Nat
    BY <1>1
  <2> HIDE DEF N
  <2> QED
    BY <2>1, <2>2
<1>3. \A k \in 1 .. N : src[k] = src[k - 1] + 1 \/ src[k] = src[k - 1]
  BY DEF CompiledAs
<1> HIDE DEF N
<1>4. \A m \in Nat : m \in T
  <2>1. 0 \in T
    <3>1. i + 0 = i /\ src[i] \in Nat
      BY <1>2 DEF N
    <3> QED
      BY <3>1
  <2>2. ASSUME NEW m \in Nat, m \in T PROVE m + 1 \in T
    <3> SUFFICES ASSUME i + (m + 1) <= N PROVE src[i] <= src[i + (m + 1)]
      OBVIOUS
    <3> DEFINE k == i + (m + 1)
    <3>1. k \in 1 .. N /\ k - 1 = i + m /\ i + m <= N /\ k \in 0 .. N /\ k - 1 \in 0 .. N /\ i \in 0 .. N
      BY <1>1 DEF N
    <3>2. src[i] <= src[k - 1]
      BY <2>2, <3>1
    <3> HIDE DEF k
    <3>3. src[k] \in Nat /\ src[k - 1] \in Nat /\ src[i] \in Nat
      BY <1>2, <3>1
    <3>4. src[k] = src[k - 1] + 1 \/ src[k] = src[k - 1]
      BY <1>3, <3>1
    <3>5. src[i] <= src[k]
      BY <3>2, <3>3, <3>4
    <3> QED
      BY <3>5 DEF k
  <2> HIDE DEF T
  <2> QED
    BY <2>1, <2>2, Induct
<1>5. j - i \in Nat /\ i + (j - i) = j /\ i + (j - i) <= N
  BY <1>1 DEF N
<1> QED
  BY <1>2, <1>4, <1>5 DEF N

\* A function and what is compiled of it have the same values at the same
\* operations.
LEMMA CompiledDefined ==
    ASSUME NEW f, InSSAForm(f), NEW g, g.params = f.params, NEW src, CompiledAs(f, g, src)
    PROVE  \A i \in 0 .. Len(g.body) :
              definedBefore(g, i + 1) = definedBefore(f, src[i] + 1)
<1> DEFINE N == Len(g.body)
           T == {i \in Nat : i <= N => definedBefore(g, i + 1) = definedBefore(f, src[i] + 1)}
<1>1. N \in Nat /\ Size(f) \in Nat
  BY SSAFacts DEF CompiledAs, Size
<1>2. 0 \in T
  <2>1. src[0] = 0 /\ 0 + 1 = 1
    BY DEF CompiledAs
  <2>2. definedBefore(g, 1) = definedBefore(f, 1)
    BY DEF definedBefore
  <2> QED
    BY <2>1, <2>2
<1>3. ASSUME NEW m \in Nat, m \in T PROVE m + 1 \in T
  <2> SUFFICES ASSUME m + 1 <= N
               PROVE  definedBefore(g, (m + 1) + 1) = definedBefore(f, src[m + 1] + 1)
    OBVIOUS
  <2> DEFINE i == m + 1
  <2>1. i \in 1 .. N /\ i - 1 = m /\ i \in Nat /\ i # 0 /\ m <= N /\ i \in 0 .. N /\ m \in 0 .. N
    BY <1>1
  <2>2. definedBefore(g, i + 1) = definedBefore(g, i) \cup ToSet(g.body[i].outs)
    BY <2>1, DefinedNext
  <2>3. definedBefore(g, i) = definedBefore(f, src[m] + 1)
    BY <1>3, <2>1
  <2>4. src[m] \in Nat /\ src[i] \in Nat
    <3>1. src \in [0 .. N -> 0 .. Size(f)]
      BY DEF CompiledAs
    <3>2. 0 .. Size(f) \subseteq Nat
      BY <1>1
    <3> HIDE DEF N, T, i
    <3> QED
      BY <2>1, <3>1, <3>2
  <2>5. \/ src[i] = src[m] + 1 /\ g.body[i] = f.body[src[i]]
        \/ src[i] = src[m] /\ IsLastUse(f, src[i], g.body[i])
    <3>1. \/ src[i] = src[i - 1] + 1 /\ g.body[i] = f.body[src[i]]
          \/ src[i] = src[i - 1] /\ IsLastUse(f, src[i], g.body[i])
      BY <2>1 DEF CompiledAs
    <3> QED
      BY <2>1, <3>1
  <2> HIDE DEF i
  <2>6. CASE src[i] = src[m] + 1 /\ g.body[i] = f.body[src[i]]
    <3>1. src[i] # 0
      BY <2>4, <2>6
    <3>2. definedBefore(f, src[i] + 1) = definedBefore(f, src[i]) \cup ToSet(f.body[src[i]].outs)
      BY <2>4, <3>1, DefinedNext
    <3> QED
      BY <2>2, <2>3, <2>6, <3>2 DEF i
  <2>7. CASE src[i] = src[m] /\ IsLastUse(f, src[i], g.body[i])
    <3>1. ToSet(g.body[i].outs) = {}
      BY <2>7 DEF IsLastUse, DeallocateOp, ToSet
    <3> QED
      BY <2>2, <2>3, <2>7, <3>1 DEF i
  <2> QED
    BY <2>5, <2>6, <2>7
<1>4. \A i \in Nat : i \in T
  <2> HIDE DEF T
  <2> QED
    BY <1>2, <1>3, Induct
<1>5. \A i \in 0 .. N : i \in Nat /\ i <= N
  BY <1>1
<1> QED
  BY <1>4, <1>5

\* Operation o deallocates a value defined in f that f last uses at operation k.
FreesLast(f, k, o) ==
    \E v \in Owned(f) :
        /\ v \in definedBefore(f, Size(f) + 1)
        /\ getLastValueUsageOp(f, v) = k
        /\ o = DeallocateOp(v)
        /\ o.ins = <<v>>
        /\ ToSet(o.ins) = {v}

\* A deallocate follows the last use of the one value it frees.
LEMMA DeallocatesLast ==
    ASSUME NEW f, InSSAForm(f), NEW g, NEW src, CompiledAs(f, g, src),
           NEW i \in 1 .. Len(g.body), g.body[i].op = "deallocate"
    PROVE  src[i] = src[i - 1] /\ FreesLast(f, src[i], g.body[i])
<1>1. Len(g.body) \in Nat /\ Size(f) \in Nat /\ DOMAIN f.body = 1 .. Size(f)
  BY SSAFacts DEF CompiledAs, Size
<1>2. src[i] \in 0 .. Size(f) /\ src[i - 1] \in 0 .. Size(f)
  <2>1. i \in 0 .. Len(g.body) /\ i - 1 \in 0 .. Len(g.body)
    BY <1>1
  <2> QED
    BY <2>1 DEF CompiledAs
<1>3. ~(src[i] = src[i - 1] + 1 /\ g.body[i] = f.body[src[i]])
  <2> SUFFICES ASSUME src[i] = src[i - 1] + 1, g.body[i] = f.body[src[i]] PROVE FALSE
    OBVIOUS
  <2>1. src[i] \in DOMAIN f.body
    BY <1>1, <1>2
  <2>2. f.body[src[i]].op # "deallocate"
    BY <2>1 DEF InSSAForm
  <2> QED
    BY <2>2
<1>4. src[i] = src[i - 1] /\ IsLastUse(f, src[i], g.body[i])
  BY <1>3 DEF CompiledAs
<1>5. PICK v \in Owned(f) : getLastValueUsageOp(f, v) = src[i] /\ g.body[i] = DeallocateOp(v)
  BY <1>4 DEF IsLastUse
<1>6. v \in definedBefore(f, Size(f) + 1)
  BY DEF Owned
<1>7. g.body[i].ins = <<v>>
  BY <1>5 DEF DeallocateOp
<1>8. ToSet(<<v>>) = {v}
  BY DEF ToSet
<1> QED
  BY <1>4, <1>5, <1>6, <1>7, <1>8 DEF FreesLast

\* No value is freed before a use of it.
LEMMA CompiledLive ==
    ASSUME NEW f, InSSAForm(f), NEW g, g.params = f.params, NEW src, CompiledAs(f, g, src),
           NEW i \in 0 .. Len(g.body), NEW v \in definedBefore(f, src[i] + 1),
           src[i] < getLastValueUsageOp(f, v)
    PROVE  v \in liveBefore(g, i + 1)
<1>1. Len(g.body) \in Nat /\ i \in Nat /\ (i + 1) - 1 = i
  BY DEF CompiledAs
<1>2. v \in definedBefore(g, i + 1)
  BY CompiledDefined
<1>3. ASSUME NEW j \in 1 .. i, g.body[j].op = "deallocate", v \in ToSet(g.body[j].ins) PROVE FALSE
  <2>1. j \in 1 .. Len(g.body) /\ j \in 0 .. Len(g.body) /\ j <= i
    BY <1>1
  <2>2. getLastValueUsageOp(f, v) = src[j]
    <3>1. FreesLast(f, src[j], g.body[j])
      BY <1>3, <2>1, DeallocatesLast
    <3> QED
      BY <1>3, <3>1 DEF FreesLast
  <2>3. src[j] <= src[i] /\ src[i] \in Nat /\ src[j] \in Nat
    BY <2>1, SourceMonotonic
  <2> QED
    BY <2>2, <2>3
<1> QED
  BY <1>1, <1>2, <1>3 DEF liveBefore

\* An operation of the source is where its operands are live.
LEMMA CompiledOperation ==
    ASSUME NEW f, InSSAForm(f), NEW g, g.params = f.params, NEW src, CompiledAs(f, g, src),
           NEW i \in 1 .. Len(g.body), src[i] = src[i - 1] + 1
    PROVE  /\ src[i] \in DOMAIN f.body
           /\ definedBefore(g, i) = definedBefore(f, src[i])
           /\ ToSet(f.body[src[i]].ins) \subseteq liveBefore(g, i)
<1> DEFINE k == src[i]
<1>1. Len(g.body) \in Nat /\ Size(f) \in Nat /\ DOMAIN f.body = 1 .. Size(f)
  BY SSAFacts DEF CompiledAs, Size
<1>2. i - 1 \in 0 .. Len(g.body) /\ i \in 0 .. Len(g.body) /\ (i - 1) + 1 = i
  BY <1>1
<1>3. k \in 0 .. Size(f) /\ src[i - 1] \in 0 .. Size(f)
  BY <1>2 DEF CompiledAs
<1>4. k \in 1 .. Size(f) /\ src[i - 1] < k
  BY <1>1, <1>3
<1>5. definedBefore(g, i) = definedBefore(f, k)
  <2>1. definedBefore(g, (i - 1) + 1) = definedBefore(f, src[i - 1] + 1)
    BY <1>2, CompiledDefined
  <2> QED
    BY <1>2, <2>1
<1>6. ASSUME NEW v \in ToSet(f.body[k].ins) PROVE v \in liveBefore(g, i)
  <2>1. v \in definedBefore(f, k)
    BY <1>1, <1>4 DEF InSSAForm
  <2>2. v \in definedBefore(f, Size(f) + 1)
    <3>1. k \in Nat /\ Size(f) + 1 \in Nat /\ k <= Size(f) + 1
      BY <1>1, <1>4
    <3> HIDE DEF k
    <3> QED
      BY <2>1, <3>1, DefinedMonotonic
  <2>3. k <= getLastValueUsageOp(f, v) /\ getLastValueUsageOp(f, v) \in 1 .. Size(f) + 1
    BY <1>4, <2>2, LastUse
  <2>4. src[i - 1] < getLastValueUsageOp(f, v)
    BY <1>1, <1>3, <1>4, <2>3
  <2>5. v \in definedBefore(f, src[i - 1] + 1)
    BY <2>1
  <2>6. v \in liveBefore(g, (i - 1) + 1)
    BY <1>2, <2>4, <2>5, CompiledLive
  <2> QED
    BY <1>2, <2>6
<1> QED
  BY <1>1, <1>4, <1>5, <1>6

\* A deallocate is where its operand is live.
LEMMA CompiledDeallocate ==
    ASSUME NEW f, InSSAForm(f), NEW g, g.params = f.params, NEW src, CompiledAs(f, g, src),
           NEW i \in 1 .. Len(g.body), g.body[i].op = "deallocate"
    PROVE  ToSet(g.body[i].ins) \subseteq liveBefore(g, i)
<1>1. Len(g.body) \in Nat /\ Size(f) \in Nat
  BY SSAFacts DEF CompiledAs, Size
<1>2. i - 1 \in 0 .. Len(g.body) /\ i \in 0 .. Len(g.body) /\ (i - 1) + 1 = i
  BY <1>1
<1>3. src[i] = src[i - 1] /\ FreesLast(f, src[i], g.body[i])
  BY DeallocatesLast
<1>4. PICK v \in Owned(f) :
          /\ v \in definedBefore(f, Size(f) + 1)
          /\ getLastValueUsageOp(f, v) = src[i]
          /\ g.body[i] = DeallocateOp(v)
          /\ ToSet(g.body[i].ins) = {v}
  BY <1>3 DEF FreesLast
<1>5. v \in definedBefore(f, src[i] + 1)
  BY <1>4, LastUse
<1>6. v \in definedBefore(g, i)
  <2>1. definedBefore(g, (i - 1) + 1) = definedBefore(f, src[i - 1] + 1)
    BY <1>2, CompiledDefined
  <2> QED
    BY <1>2, <1>3, <1>5, <2>1
<1>7. ASSUME NEW j \in 1 .. i - 1, g.body[j].op = "deallocate", v \in ToSet(g.body[j].ins)
      PROVE  FALSE
  <2>1. j \in 1 .. Len(g.body) /\ j # i
    BY <1>1
  <2>2. FreesLast(f, src[j], g.body[j])
    BY <1>7, <2>1, DeallocatesLast
  <2>3. g.body[j] = DeallocateOp(v)
    BY <1>7, <2>2 DEF FreesLast
  <2>4. g.body[i] = g.body[j]
    BY <1>4, <2>3
  <2> QED
    BY <1>7, <2>1, <2>4 DEF CompiledAs
<1> QED
  BY <1>4, <1>6, <1>7 DEF liveBefore

\* What the pool of a program has at its end.
LEMMA CompiledEnd ==
    ASSUME NEW f, InSSAForm(f), NEW g, g.params = f.params, isSequence(g.body),
           NEW src, CompiledAs(f, g, src)
    PROVE  LET atEnd == liveBefore(g, Len(g.body) + 1)
           IN  /\ ToSet(f.ret) \subseteq atEnd
               /\ atEnd = ToSet(f.ret)
                     \cup (IF f.constEval \/ g.body = <<>> THEN ToSet(f.params) ELSE {})
<1> DEFINE N == Len(g.body)
           n == Size(f)
<1>1. N \in Nat /\ n \in Nat /\ N \in 0 .. N /\ (N + 1) - 1 = N /\ src[N] = n
  BY SSAFacts DEF CompiledAs, Size
<1>2. definedBefore(g, N + 1) = definedBefore(f, n + 1)
  BY <1>1, CompiledDefined
<1>3. ASSUME NEW v \in ToSet(f.ret) PROVE v \in liveBefore(g, N + 1)
  <2>1. v \in definedBefore(f, n + 1)
    BY DEF InSSAForm, Size
  <2>2. getLastValueUsageOp(f, v) = n + 1
    BY <2>1, LastUse
  <2>3. src[N] < getLastValueUsageOp(f, v)
    BY <1>1, <2>2
  <2> QED
    BY <1>1, <2>1, <2>3, CompiledLive
<1>4. ASSUME f.body # <<>>, NEW v \in liveBefore(g, N + 1), v \notin ToSet(f.ret)
      PROVE  f.constEval /\ v \in ToSet(f.params)
  <2>1. v \in definedBefore(f, n + 1)
    BY <1>2 DEF liveBefore
  <2>2. getLastValueUsageOp(f, v) \in 1 .. n + 1 /\ getLastValueUsageOp(f, v) # n + 1
    BY <1>4, <2>1, LastUse
  <2>3. getLastValueUsageOp(f, v) <= n
    BY <1>1, <2>2
  <2>4. v \notin Owned(f)
    <3> SUFFICES ASSUME v \in Owned(f) PROVE FALSE
      OBVIOUS
    <3>1. PICK i \in 1 .. N : g.body[i] = DeallocateOp(v)
      BY <2>3 DEF CompiledAs
    <3>2. g.body[i].op = "deallocate" /\ v \in ToSet(g.body[i].ins)
      BY <3>1 DEF DeallocateOp, ToSet
    <3> QED
      BY <1>1, <1>4, <3>2 DEF liveBefore
  <2> QED
    BY <2>1, <2>4 DEF Owned
<1>5. ASSUME f.constEval, NEW v \in ToSet(f.params)
      PROVE  v \in liveBefore(g, N + 1)
  <2>1. v \in definedBefore(g, N + 1)
    BY DEF definedBefore
  <2>2. ASSUME NEW j \in 1 .. N, g.body[j].op = "deallocate", v \in ToSet(g.body[j].ins)
        PROVE  FALSE
    <3>1. FreesLast(f, src[j], g.body[j])
      BY <2>2, DeallocatesLast
    <3>2. v \in Owned(f)
      BY <2>2, <3>1 DEF FreesLast
    <3> QED
      BY <1>5, <3>2 DEF Owned
  <2> QED
    BY <1>1, <2>1, <2>2 DEF liveBefore
<1>6. ASSUME f.body # <<>>, g.body # <<>>
      PROVE  liveBefore(g, N + 1) =
                ToSet(f.ret) \cup (IF f.constEval THEN ToSet(f.params) ELSE {})
  <2>1. ASSUME NEW v
        PROVE  v \in liveBefore(g, N + 1) <=>
                  v \in ToSet(f.ret) \cup (IF f.constEval THEN ToSet(f.params) ELSE {})
    BY <1>3, <1>4, <1>5, <1>6
  <2> QED
    BY <2>1
<1>7. g.body = <<>> => f.body = <<>>
  <2>1. g.body = <<>> => N = 0
    OBVIOUS
  <2>2. src[0] = 0 /\ f.body \in Seq(ToSet(f.body))
    BY SSAFacts DEF CompiledAs
  <2>3. n = 0 => f.body = <<>>
    BY <2>2 DEF Size
  <2> QED
    BY <1>1, <2>1, <2>2, <2>3
<1>8. ASSUME f.body = <<>>
      PROVE  /\ g.body = <<>>
             /\ liveBefore(g, N + 1) = ToSet(f.ret) \cup ToSet(f.params)
  <2>1. n = 0
    BY <1>8 DEF Size
  <2>2. N = 0
    <3> SUFFICES ASSUME N # 0 PROVE FALSE
      OBVIOUS
    <3>1. N \in 1 .. N /\ N - 1 \in 0 .. N /\ N \in 0 .. N
      BY <1>1
    <3>2. src[N] \in 0 .. n /\ src[N - 1] \in 0 .. n
      BY <3>1 DEF CompiledAs
    <3>3. src[N] = 0 /\ src[N - 1] = 0
      BY <2>1, <3>2
    <3>4. IsLastUse(f, src[N], g.body[N])
      BY <3>1, <3>3 DEF CompiledAs
    <3>5. PICK v \in Owned(f) : getLastValueUsageOp(f, v) = 0
      BY <3>3, <3>4 DEF IsLastUse
    <3>6. v \in definedBefore(f, n + 1)
      BY DEF Owned
    <3>7. getLastValueUsageOp(f, v) \in 1 .. n + 1
      BY <3>6, LastUse
    <3> QED
      BY <1>1, <3>5, <3>7
  <2>3. g.body = <<>>
    BY <2>2 DEF isSequence
  <2>4. liveBefore(g, N + 1) = ToSet(f.params)
    BY <2>2 DEF liveBefore, definedBefore
  <2>5. ToSet(f.ret) \subseteq ToSet(f.params)
    <3>1. ToSet(f.ret) \subseteq definedBefore(f, 0 + 1)
      BY <2>1 DEF InSSAForm, Size
    <3> QED
      BY <3>1 DEF definedBefore
  <2> QED
    BY <2>3, <2>4, <2>5
<1>9. liveBefore(g, N + 1) = ToSet(f.ret)
         \cup (IF f.constEval \/ g.body = <<>> THEN ToSet(f.params) ELSE {})
  <2>1. CASE f.body = <<>>
    BY <1>8, <2>1
  <2>2. CASE f.body # <<>>
    BY <1>6, <1>7, <2>2
  <2> QED
    BY <2>1, <2>2
<1> QED
  BY <1>3, <1>9

\* The const-eval functions that f calls are in SSA form.
CallsConstEval(f) ==
    \A k \in DOMAIN f.body : f.body[k].op = "load_cached" =>
        InSSAForm(ConstEval[f.body[k].name])

\* TTNNDeallocate keeps the live ranges of a function in SSA form right
\* (runOnOperation).
LEMMA CompiledWellFormed ==
    ASSUME NEW f, InSSAForm(f), CallsConstEval(f)
    PROVE  WellFormed(TTNNDeallocate(f))
<1> DEFINE g == TTNNDeallocate(f)
           N == Len(g.body)
<1>1. g.params = f.params /\ g.ret = f.ret /\ g.constEval = f.constEval
  BY CompiledFields
<1>2. isSequence(g.body)
  BY CompiledSource
<1>3. PICK src : CompiledAs(f, g, src)
  BY CompiledSource
<1> HIDE DEF g
<1>4. N \in Nat /\ DOMAIN g.body = 1 .. N
  BY <1>2 DEF isSequence
<1>5. ToSet(g.ret) \subseteq liveBefore(g, N + 1)
  BY <1>1, <1>2, <1>3, CompiledEnd
<1>6. ASSUME NEW i \in 1 .. N
      PROVE  LET o == g.body[i]
             IN  /\ isSequence(o.ins) /\ isSequence(o.outs)
                 /\ ToSet(o.ins) \subseteq liveBefore(g, i)
                 /\ ToSet(o.outs) \cap definedBefore(g, i) = {}
                 /\ IsInjective(o.outs)
                 /\ o.op \in {"compute", "view"} => Len(o.outs) = 1
                 /\ o.op \in {"inplace", "deallocate"} => o.outs = <<>>
                 /\ o.op \in {"view", "inplace"} => o.ins # <<>>
                 /\ o.op = "deallocate" =>
                       /\ Len(o.ins) = 1
                       /\ f.constEval => o.ins[1] \notin ToSet(f.params)
                 /\ o.op = "load_cached" =>
                       /\ ~f.constEval
                       /\ o.name \in DOMAIN ConstEval
                       /\ Len(o.ins) = Len(CompiledConstEval[o.name].params)
                       /\ Len(o.outs) = Len(CompiledConstEval[o.name].ret)
  <2> DEFINE o == g.body[i]
  <2>1. CASE src[i] = src[i - 1] + 1 /\ g.body[i] = f.body[src[i]]
    <3> DEFINE k == src[i]
    <3>1. /\ k \in DOMAIN f.body
          /\ definedBefore(g, i) = definedBefore(f, k)
          /\ ToSet(f.body[k].ins) \subseteq liveBefore(g, i)
      BY <1>1, <1>3, <2>1, CompiledOperation
    <3>2. o = f.body[k]
      BY <2>1
    <3> HIDE DEF k, o
    <3>3. /\ o.op \in {"compute", "view", "inplace", "load_cached"}
          /\ isSequence(o.ins) /\ isSequence(o.outs)
          /\ ToSet(o.outs) \cap definedBefore(f, k) = {}
          /\ IsInjective(o.outs)
          /\ o.op \in {"compute", "view"} => Len(o.outs) = 1
          /\ o.op = "inplace" => o.outs = <<>>
          /\ o.op \in {"view", "inplace"} => o.ins # <<>>
          /\ o.op = "load_cached" =>
                /\ ~f.constEval
                /\ o.name \in DOMAIN ConstEval
                /\ Len(o.ins) = Len(ConstEval[o.name].params)
                /\ Len(o.outs) = Len(ConstEval[o.name].ret)
      BY <3>1, <3>2 DEF InSSAForm
    <3>4. ASSUME o.op = "load_cached"
          PROVE  /\ CompiledConstEval[o.name].params = ConstEval[o.name].params
                 /\ CompiledConstEval[o.name].ret = ConstEval[o.name].ret
      <4>1. InSSAForm(ConstEval[o.name]) /\ o.name \in DOMAIN ConstEval
        BY <3>1, <3>2, <3>3, <3>4 DEF CallsConstEval
      <4>2. CompiledConstEval[o.name] = TTNNDeallocate(ConstEval[o.name])
        BY <4>1 DEF CompiledConstEval
      <4> QED
        BY <4>1, <4>2, CompiledFields
    <3>5. o.op # "deallocate"
      BY <3>3
    <3>6. ToSet(o.ins) \subseteq liveBefore(g, i) /\ ToSet(o.outs) \cap definedBefore(g, i) = {}
      BY <3>1, <3>2, <3>3
    <3> QED
      BY <3>3, <3>4, <3>5, <3>6 DEF o
  <2>2. CASE src[i] = src[i - 1] /\ IsLastUse(f, src[i], g.body[i])
    <3>1. PICK v \in Owned(f) : o = DeallocateOp(v)
      BY <2>2 DEF IsLastUse
    <3>2. o.op = "deallocate" /\ o.ins = <<v>> /\ o.outs = <<>>
      BY <3>1 DEF DeallocateOp
    <3>3. ToSet(o.ins) \subseteq liveBefore(g, i)
      BY <1>1, <1>3, <3>2, CompiledDeallocate
    <3>4. isSequence(<<v>>) /\ isSequence(<<>>) /\ IsInjective(<<>>) /\ ToSet(<<>>) = {}
      BY DEF isSequence, IsInjective, ToSet
    <3>5. f.constEval => v \notin ToSet(f.params)
      BY DEF Owned
    <3> HIDE DEF o
    <3> QED
      BY <3>2, <3>3, <3>4, <3>5 DEF o
  <2> QED
    BY <1>3, <2>1, <2>2 DEF CompiledAs
<1>7. /\ isSequence(f.params) /\ isSequence(f.ret)
      /\ IsInjective(f.params)
      /\ f.constEval => ToSet(f.ret) \cap ToSet(f.params) = {}
  BY DEF InSSAForm
<1>8. WellFormed(g)
  BY <1>1, <1>2, <1>4, <1>5, <1>6, <1>7 DEF WellFormed
<1> QED
  BY <1>8 DEF g

\* TTNNDeallocate keeps the live ranges of programs in SSA form right: what
\* it compiles uses no value after the deallocation of it, deallocates each
\* value once and none that is returned, and frees no parameter of a
\* const-eval function (TTNNDeallocate::runOnOperation).
THEOREM DeallocationSafe == ProgramsInSSAForm => ProgramsWellFormed
<1> SUFFICES ASSUME ProgramsInSSAForm PROVE ProgramsWellFormed
  OBVIOUS
<1>1. ASSUME NEW c \in DOMAIN ConstEval PROVE InSSAForm(ConstEval[c]) /\ ConstEval[c].constEval
  BY DEF ProgramsInSSAForm
<1>2. ASSUME NEW p \in DOMAIN Programs PROVE InSSAForm(Programs[p]) /\ ~Programs[p].constEval
  BY DEF ProgramsInSSAForm
<1>3. ASSUME NEW f, InSSAForm(f) PROVE CallsConstEval(f)
  BY <1>1, <1>3 DEF CallsConstEval, InSSAForm
<1>4. ASSUME NEW c \in DOMAIN ConstEval
      PROVE  WellFormed(CompiledConstEval[c]) /\ CompiledConstEval[c].constEval
  <2>1. CompiledConstEval[c] = TTNNDeallocate(ConstEval[c])
    BY DEF CompiledConstEval
  <2> QED
    BY <1>1, <1>3, <2>1, CompiledWellFormed, CompiledFields
<1>5. ASSUME NEW p \in DOMAIN Programs
      PROVE  /\ DOMAIN Programs[p] = {"params", "constEval", "ret", "body"}
             /\ WellFormed(Compiled[p]) /\ ~Compiled[p].constEval
  <2>1. Compiled[p] = TTNNDeallocate(Programs[p])
    BY DEF Compiled
  <2>2. WellFormed(Compiled[p]) /\ ~Compiled[p].constEval
    BY <1>2, <1>3, <2>1, CompiledWellFormed, CompiledFields
  <2>3. DOMAIN Programs[p] = {"params", "constEval", "ret", "body"}
    BY <1>2 DEF InSSAForm
  <2> QED
    BY <2>2, <2>3
<1> QED
  BY <1>4, <1>5 DEF ProgramsWellFormed
=============================================================================
