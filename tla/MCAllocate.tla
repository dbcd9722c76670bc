----------------------------- MODULE MCAllocate -----------------------------
(* Modules of two functions: every function of at most MaxOps ops drawn     *)
(* from the shapes below, followed by one that always allocates.            *)
EXTENDS Allocate, SequencesExt

CONSTANT MaxOps

alloc(s, n) == [op |-> "alloc", space |-> s, size |-> n]

input(d, m, s) ==
    [def |-> d, moves |-> m, output |-> FALSE, space |-> s, size |-> 3,
     storages |-> 0]

result(d) == [input(d, FALSE, "DeviceL1") EXCEPT !.output = TRUE]

generic(ins, d) == [op |-> "generic", operands |-> Append(ins, result(d))]

Ops ==
    {alloc("System", 2)} \cup
    {alloc(s, n) : s \in DeviceSpaces, n \in {0, 3, 8}} \cup
    {generic(<<input("view_layout", FALSE, "DeviceL1"),
               input("other", TRUE, "DeviceDRAM")>>, "other"),
     generic(<<input("stream_layout", TRUE, "DeviceL1"),
               input("other", FALSE, "DeviceL1")>>, "other"),
     generic(<<input("other", TRUE, "System")>>, "view_layout")}

MCModules ==
    {<<body, <<alloc("DeviceL1", 3),
               generic(<<input("other", TRUE, "DeviceL1")>>, "other")>> >> :
        body \in BoundedSeq(Ops, MaxOps)}
=============================================================================
