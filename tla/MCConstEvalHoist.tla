-------------------------- MODULE MCConstEvalHoist --------------------------
(* Instances of ConstEvalHoist for TLC.                                    *)
EXTENDS ConstEvalHoist

\* Short blocks of all kinds with two constant arguments and one that is not;
\* and longer ones of constant operations, where subgraphs merge.
MC_FuncBounds ==
    {[params |-> {-1, -2, -3}, constParams |-> {-1, -2},
      kinds |-> {"creation", "shared", "compute"}, maxOps |-> 3, returnAny |-> TRUE],
     [params |-> {-1}, constParams |-> {-1},
      kinds |-> {"compute"}, maxOps |-> 5, returnAny |-> FALSE]}
=============================================================================
