------------------------- MODULE MCProgramExecutor -------------------------
(* Instances of ProgramExecutor for TLC.                                   *)
EXTENDS ProgramExecutor, TLC

Symmetry == Permutations(Data) \cup Permutations(Devices)

op(kind, name, ins, outs) == [op |-> kind, name |-> name, ins |-> ins, outs |-> outs]

\* y = x + const(p), with the result of load_cached deallocated.
AddConst ==
    [params |-> <<"p", "x">>, constEval |-> FALSE, ret |-> <<"y">>,
     body |-> <<op("load_cached", "f", <<"p">>, <<"c">>),
                op("compute", "add", <<"c", "x">>, <<"y">>)>>]

\* The result of load_cached is returned, and so is the argument x.
ReturnConst ==
    [params |-> <<"p", "x">>, constEval |-> FALSE, ret |-> <<"c", "x">>,
     body |-> <<op("load_cached", "g", <<"p">>, <<"c">>)>>]

\* An in-place update of an argument that is then returned; q is unused.
UpdateCache ==
    [params |-> <<"x", "q">>, constEval |-> FALSE, ret |-> <<"v">>,
     body |-> <<op("compute", "abs", <<"x">>, <<"a">>),
                op("inplace", "update_cache", <<"x", "a">>, <<>>),
                op("view", "reshape", <<"x">>, <<"v">>)>>]

\* A view whose last use, like that of the argument it is of, is in the program.
UseView ==
    [params |-> <<"x">>, constEval |-> FALSE, ret |-> <<"y">>,
     body |-> <<op("view", "reshape", <<"x">>, <<"v">>),
                op("compute", "abs", <<"v">>, <<"y">>)>>]

CachePrograms == <<AddConst>>
AllPrograms == <<AddConst, ReturnConst, UpdateCache, UseView>>

\* f returns a view of what it computes; g a view of its parameter.
MC_ConstEval ==
    "f" :> [params |-> <<"a">>, constEval |-> TRUE, ret |-> <<"c">>,
            body |-> <<op("compute", "neg", <<"a">>, <<"b">>),
                       op("view", "to_layout", <<"b">>, <<"c">>)>>]
    @@
    "g" :> [params |-> <<"a">>, constEval |-> TRUE, ret |-> <<"b">>,
            body |-> <<op("view", "to_layout", <<"a">>, <<"b">>)>>]

\* The hypothesis of the theorems of DeallocateProofs and ProgramExecutorProofs:
\* what TTNNDeallocate gets is in SSA form.
ASSUME CompilableInstance == ProgramsInSSAForm

\* The further hypothesis of CacheIsTransparent: what the programs overwrite is
\* apart from what they view and cache.
ASSUME SeparateInstance == ProgramsWriteSeparate
=============================================================================
