------------------------------ MODULE Scheduler ------------------------------
(***************************************************************************)
(* The list scheduler of a function: an op can be scheduled when the       *)
(* schedulable ops that define its operands are.  unscheduledOps is a hash *)
(* set of pointers, so the order in which its ready ops are offered is     *)
(* arbitrary: the policies choose among getScheduleableOps freely.         *)
(***************************************************************************)
EXTENDS OpGraph

VARIABLES
    func,           \* the function the policy is at
    schedule        \* the schedule of each function

schedvars == <<func, schedule>>

isTTSchedulableOp(o) == Kind(o) \in {"to_layout", "compute", "excluded"}

unscheduledOps(s) == {o \in ToSet(block[func]) : isTTSchedulableOp(o)} \ ToSet(s)

dependencies(o) == {d \in operands(o) \ {0} : isTTSchedulableOp(d)}

canSchedule(s, o) == dependencies(o) \subseteq ToSet(s)

getScheduleableOps(s) == {o \in unscheduledOps(s) : canSchedule(s, o)}

scheduleOp(o) == schedule' = [schedule EXCEPT ![func] = Append(@, o)]

InitScheduler ==
    /\ func = 1
    /\ schedule = [f \in Funcs |-> <<>>]
==============================================================================
