----------------------------- MODULE MCOptimizer -----------------------------
(***************************************************************************)
(* Instances of the optimizer: functions of NumOps ops of which the first  *)
(* or the last may be a to_layout, excluded or have two operands, functions *)
(* of one op less of which any two may, trees of six ops, and a module of  *)
(* two functions.                                                          *)
(***************************************************************************)
EXTENDS Optimizer

CONSTANT NumOps

Op(f, kind, ins) == [func |-> f, kind |-> kind, ins |-> ins, layout |-> DRAM]

\* The function s with return r: a to_layout that is returned goes to the host.
Returning(s, r) ==
    Append([n \in DOMAIN s |->
              IF s[n].kind = "to_layout" /\ n \in ToSet(r.ins)
              THEN [s[n] EXCEPT !.layout = Host] ELSE s[n]], r)

OpChoices(n) ==
    {Op(1, kind, <<i>>) : kind \in {"to_layout", "compute", "excluded"},
                          i \in 0 .. n - 1}
    \cup {Op(1, "compute", <<i, j>>) : i \in 0 .. n - 1, j \in 0 .. n - 1}

\* Ops that are no compute op with one operand.
Special(s) == {n \in DOMAIN s : s[n].kind # "compute" \/ Len(s[n].ins) = 2}

Bodies[n \in 0 .. NumOps] ==
    IF n = 0 THEN {<<>>}
    ELSE {s \in {Append(b, o) : b \in Bodies[n - 1], o \in OpChoices(n)} :
            Cardinality(Special(s)) <= 2}

IsUsed(s, n) == \E m \in DOMAIN s : n \in ToSet(s[m].ins)

\* Unused results are returned, and in the smaller functions possibly one that
\* is used; a to_layout that is returned has no other use.
Returned(s) ==
    LET unused == {n \in DOMAIN s : ~IsUsed(s, n)}
    IN  {unused} \cup
        {unused \cup {n} : n \in {m \in DOMAIN s : /\ s[m].kind # "to_layout"
                                                   /\ Len(s) < NumOps}}

\* Of two returned values either may come first.
Returns(r) ==
    LET sorted == SetToSortSeq(r, <)
    IN  {Op(1, "return", sorted), Op(1, "return", Reverse(sorted))}

\* Trees: an op with two operands, of which each may be computed from others.
Trees ==
    {<<Op(1, "compute", <<0>>), Op(1, "compute", <<i>>), Op(1, "compute", <<0>>),
       Op(1, "compute", two), Op(1, "compute", <<0>>), Op(1, "compute", root),
       Op(1, "return", <<6>>)>> :
         i \in {0, 1}, two \in {<<2, 3>>, <<3, 2>>}, root \in {<<4, 5>>, <<5, 4>>}}

\* Functions of which the greedy policy schedules a part: op 2 is not needed for
\* the first result.
MCLaterResult ==
    {<<Op(1, "compute", <<0>>), Op(1, "compute", <<1>>), Op(1, "compute", <<0>>),
       Op(1, "compute", <<3, 1>>), Op(1, "return", <<4, 2, 3>>)>>}

\* Op 3 needs all of L1, when its user cannot be in L1.
MCNoChoice ==
    {<<Op(1, "to_layout", <<0>>), Op(1, "compute", <<0>>), Op(1, "compute", <<2>>),
       Op(1, "compute", <<1, 3>>), Op(1, "compute", <<4, 4>>), Op(1, "return", <<5>>)>>}

\* Op 5 is small, but the to_layout it reads needs more: op 4 has to come later.
MCThroughLayout ==
    {<<Op(1, "to_layout", <<0>>), Op(1, "compute", <<1>>), Op(1, "to_layout", <<2>>),
       Op(1, "compute", <<1>>), Op(1, "compute", <<3>>), Op(1, "compute", <<4, 5>>),
       Op(1, "return", <<6>>)>>}

MCTwoFunctions ==
    {<<Op(1, "compute", <<0>>), Op(1, "compute", <<1>>), Op(1, "return", <<2>>),
       Op(2, "compute", <<0>>), Op(2, "compute", <<4>>), Op(2, "return", <<5>>)>>}

MCGraphs ==
    UNION {{Returning(s, ret) : ret \in UNION {Returns(r) : r \in Returned(s)}} :
             s \in Bodies[NumOps - 1] \cup
                   {b \in Bodies[NumOps] : Special(b) \in {{}, {1}, {NumOps}}}}
    \cup {g \in Trees : \A n \in 1 .. 5 : IsUsed(g, n)}
    \cup MCLaterResult
    \cup MCNoChoice
    \cup MCThroughLayout
    \cup MCTwoFunctions

\* The larger functions, and those whose order of results matters, are for the
\* interleaved policies; of these the greedy one takes modules of two functions.
MCPolicies(g) ==
    LET returned == g[Len(g)].ins
    IN  {p \in {"DFSharding", "BFInterleaved", "GreedyL1Interleaved"} :
           /\ Len(g) > NumOps + 1 => p # "DFSharding"
           /\ g \in MCTwoFunctions => p = "GreedyL1Interleaved"
           /\ returned # SetToSortSeq(ToSet(returned), <) => p = "GreedyL1Interleaved"}

MCSharding(g) == {"DFSharding"}

\* No override, or one of operand 0 where the producer is in no chain: it is an
\* argument (in the smaller functions), a to_layout, an excluded op, or has several
\* uses.
MCOverrides(g) ==
    {{}} \cup
    {{<<c, 1>>} :
       c \in {n \in DOMAIN g :
                /\ g[n].kind = "compute"
                /\ IF g[n].ins[1] = 0 THEN Len(g) <= NumOps
                   ELSE \/ g[g[n].ins[1]].kind # "compute"
                        \/ Cardinality({m \in DOMAIN g :
                                          g[n].ins[1] \in ToSet(g[m].ins)}) > 1}}

ASSUME WellFormedInstance == ModulesWellFormed

MCGridVolume == <<2, 1>>
MCOutputL1Usage == <<2, 4, 2, 4, 1, 1>>
==============================================================================
