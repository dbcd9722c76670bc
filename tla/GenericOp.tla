----------------------------- MODULE GenericOp -----------------------------
(***************************************************************************)
(* What a ttir.generic op promises, before any datamovement is generated   *)
(* for it: in every iteration of the loop nest, each core of the grid      *)
(* combines the blocks of the operands that the indexing maps select for   *)
(* that core and that iteration, in iteration order and each exactly once. *)
(* Cores do not wait for each other.                                       *)
(***************************************************************************)
EXTENDS Integers, Sequences

CONSTANTS
    Cores,
    NumIters,
    Wanted(_, _)    \* Wanted(c, k): the operand blocks of core c, iteration k

VARIABLE out        \* out[c]: what core c has combined so far

Init == out = [c \in Cores |-> <<>>]

Iterate(c) ==
    /\ Len(out[c]) < NumIters
    /\ out' = [out EXCEPT ![c] = Append(@, Wanted(c, Len(@)))]

Next == \E c \in Cores : Iterate(c)

Spec == Init /\ [][Next]_out

FairSpec == Spec /\ \A c \in Cores : WF_out(Iterate(c))
=============================================================================
