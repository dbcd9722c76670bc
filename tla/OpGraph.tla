------------------------------- MODULE OpGraph -------------------------------
(***************************************************************************)
(* The ops of a module's functions as the TTNN optimizer sees them.  An op *)
(* is a number; operand 0 stands for a function argument.  Kinds:          *)
(*   to_layout  a layout or memory management op                           *)
(*   compute    an op with a backend model of its constraints              *)
(*   excluded   an op the sharding policy does not put into a chain        *)
(*   return     the terminator                                             *)
(* The layout of a result is a number: DRAM, or sharded L1 layout 1 ..     *)
(* NumLayouts (1 .. K are also the legal sharded configs of an op, largest *)
(* grid first), or L1Interleaved; a to_layout may also go to system memory, *)
(* the Host.                                                               *)
(***************************************************************************)
EXTENDS Integers, Sequences, SequencesExt, FiniteSets, FiniteSetsExt, Functions

CONSTANTS
    Graphs,         \* the modules to optimize: sequences of ops
    K,              \* sharded configs of an op
    NumLayouts      \* sharded layouts that are possible for a tensor type

ASSUME LayoutsAssumption ==
    /\ K \in Nat \ {0}
    /\ NumLayouts \in Nat
    /\ K <= NumLayouts

VARIABLES
    ops,            \* the ops by number: [func, kind, ins, layout]
    block           \* the order of each function's ops

graphvars == <<ops, block>>

DRAM == 0
Sharded == 1 .. NumLayouts
L1Interleaved == NumLayouts + 1
Host == NumLayouts + 2
Layouts == {DRAM, L1Interleaved, Host} \cup Sharded

Kinds == {"to_layout", "compute", "excluded", "return"}

\* Ops are numbered through the module, one function after the other.
ASSUME GraphsAssumption ==
    \A g \in Graphs :
      /\ g \in Seq([func : Nat, kind : Kinds, ins : Seq(Nat), layout : {DRAM, Host}])
      /\ \A o \in DOMAIN g : g[o].layout = Host => g[o].kind = "to_layout"
      /\ g # <<>> /\ g[1].func = 1
      /\ \A o, p \in DOMAIN g : o < p => g[o].func <= g[p].func

Funcs == {ops[o].func : o \in DOMAIN ops}
Kind(o) == ops[o].kind
operands(o) == ToSet(ops[o].ins)

uses(o) ==
    UNION {{<<c, i>> : i \in {j \in DOMAIN ops[c].ins : ops[c].ins[j] = o}} :
             c \in DOMAIN ops}

hasOneUse(o) == Cardinality(uses(o)) = 1

\* The layout of the value an op reads at an operand.
operandLayout(c, i) ==
    IF ops[c].ins[i] = 0 THEN DRAM ELSE ops[ops[c].ins[i]].layout

\* legalConfigs after filterShardedOnly: the indexes of the sharded ones.
shardedConfigs(o) == IF Kind(o) \in {"compute", "excluded"} THEN 1 .. K ELSE {}

\* legalConfigs after filterDRAMAndL1Interleaved, as layouts.  The one legal
\* config of a to_layout is the layout that it has.
interleavedConfigs(o) ==
    {DRAM, L1Interleaved} \cap
      CASE Kind(o) \in {"compute", "excluded"} -> {DRAM, L1Interleaved}
        [] Kind(o) = "to_layout" -> {ops[o].layout}
        [] OTHER -> {}

positionIn(s, o) == CHOOSE i \in DOMAIN s : s[i] = o

\* OpBuilder's insertion points.
insertAfter(s, o, new) == InsertAt(s, positionIn(s, o) + 1, new)
insertBefore(s, o, new) == InsertAt(s, positionIn(s, o), new)

firstOp(f) == Min({o \in DOMAIN ops : ops[o].func = f})
lastOp(f) == Max({o \in DOMAIN ops : ops[o].func = f})

InitGraph ==
    /\ ops \in Graphs
    /\ block = [f \in Funcs |->
                  [i \in 1 .. lastOp(f) - firstOp(f) + 1 |-> firstOp(f) + i - 1]]
==============================================================================
