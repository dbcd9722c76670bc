------------------------ MODULE MCLayoutConversion ------------------------
(* Instances of LayoutConversion for TLC.                                  *)
EXTENDS LayoutConversion

\* Intermediate layouts of a chain: system memory, DRAM, and a sharded one.
MC_Intermediate ==
    {d \in Descs : \/ d.mem = SystemMemory /\ d.layout = "row_major" /\ d.dataType = "f32"
                   \/ d.mem.bufferType = "DRAM" /\ d.layout = "row_major" /\ d.dataType = BFloat16
                   \/ d.mem.grid = "8x8" /\ d.layout = "tile" /\ d.dataType = "bf16"}
=============================================================================
