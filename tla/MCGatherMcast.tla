--------------------------- MODULE MCGatherMcast ---------------------------
(* Instances of GatherMcast for TLC.                                       *)
EXTENDS GatherMcast

ColumnIterators ==
    <<<<"parallel", "reduction">>, <<"reduction", "parallel">>,
      <<"parallel", "parallel">>>>

MC_Both == {1, 2}
=============================================================================
