----------------------------- MODULE Deallocate -----------------------------
(***************************************************************************)
(* The ttnn-deallocate pass (lib/Dialect/TTNN/Transforms/Passes.cpp): a    *)
(* ttnn.deallocate is inserted after the last use of every tensor that the *)
(* function does not return.                                               *)
(*                                                                         *)
(* A function is [params, body, ret, constEval]: a sequence of value names,*)
(* a sequence of operations, the values its terminator returns, and whether*)
(* it carries the const_eval attribute.  An operation is [op, name, ins,   *)
(* outs].  No TTNN operation of this version implements the destination    *)
(* style interface, so the pass's loop along DPS chains never advances.    *)
(***************************************************************************)
EXTENDS Integers, Sequences, SequencesExt

ReturnOp(f) == Len(f.body) + 1

results(f) == FlattenSeq([k \in DOMAIN f.body |-> f.body[k].outs])

\* mlir::Liveness: a block argument starts at the first operation of the
\* block, which is the terminator when the body is empty.
getStartOperation(f, v) ==
    IF v \in ToSet(f.params)
    THEN 1
    ELSE CHOOSE k \in DOMAIN f.body : v \in ToSet(f.body[k].outs)

Users(f, v) ==
    {k \in DOMAIN f.body : v \in ToSet(f.body[k].ins)}
        \cup (IF v \in ToSet(f.ret) THEN {ReturnOp(f)} ELSE {})

getLastValueUsageOp(f, v) == Max(Users(f, v) \cup {getStartOperation(f, v)})

\* The mutant of deallocated: arguments are left to the caller.
deallocatedResults(f) == results(f)

\* Const-eval subgraphs do not own their parameters.
deallocated(f) ==
    (IF f.constEval THEN <<>> ELSE f.params) \o results(f)

DeallocateOp(v) == [op |-> "deallocate", name |-> "deallocate",
                    ins |-> <<v>>, outs |-> <<>>]

\* Each insertion is directly after the last use, so those that share one come
\* out in reverse.
deallocatesAfter(f, k) ==
    LET vs == Reverse(deallocated(f))
    IN  FlattenSeq([n \in DOMAIN vs |->
            IF getLastValueUsageOp(f, vs[n]) = k THEN <<DeallocateOp(vs[n])>> ELSE <<>>])

\* runOnOperation
TTNNDeallocate(f) ==
    [f EXCEPT !.body =
        FlattenSeq([k \in DOMAIN f.body |-> <<f.body[k]>> \o deallocatesAfter(f, k)])]
=============================================================================
