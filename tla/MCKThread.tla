------------------------------ MODULE MCKThread ------------------------------
(* Instances of KThread for TLC. *)
EXTENDS KThread

CONSTANTS m, a, b, idle, reaper

TwoWorkers == {m, a}

(* Main and the reaper are NORMAL (5), a is a user process (1), b is LOW (2) *)
MCPrio == [t \in Thread |-> CASE t = idle -> 0 [] t = a -> 1 [] t = b -> 2 [] OTHER -> 5]
OneTick  == {1}
TwoTicks == {2}
==============================================================================
