-------------------------- MODULE AbstractSemaphore --------------------------
(***************************************************************************)
(* What the semaphore system calls promise (syscall.c, Sys_P and Sys_V):   *)
(* P takes a unit when there is one, V gives one, each at one instant      *)
(* between the call and the return, and P does not return before.          *)
(***************************************************************************)
EXTENDS Naturals

CONSTANTS Procs, Sems, NoSem

VARIABLES
  units,   (* the units of each semaphore                                   *)
  call,    (* "none", "P" or "V": the call each process is in               *)
  on,      (* its semaphore                                                 *)
  done     (* its unit has been taken or given                              *)

vars == <<units, call, on, done>>

Init ==
  /\ units \in [Sems -> Nat]
  /\ call = [p \in Procs |-> "none"]
  /\ on = [p \in Procs |-> NoSem]
  /\ done = [p \in Procs |-> FALSE]

Call(p, c, s) ==
  /\ call[p] = "none"
  /\ call' = [call EXCEPT ![p] = c]
  /\ on' = [on EXCEPT ![p] = s]
  /\ UNCHANGED <<units, done>>

Take(p) ==
  /\ call[p] = "P" /\ ~done[p]
  /\ units[on[p]] > 0
  /\ units' = [units EXCEPT ![on[p]] = @ - 1]
  /\ done' = [done EXCEPT ![p] = TRUE]
  /\ UNCHANGED <<call, on>>

Give(p) ==
  /\ call[p] = "V" /\ ~done[p]
  /\ units' = [units EXCEPT ![on[p]] = @ + 1]
  /\ done' = [done EXCEPT ![p] = TRUE]
  /\ UNCHANGED <<call, on>>

Return(p) ==
  /\ call[p] # "none" /\ done[p]
  /\ call' = [call EXCEPT ![p] = "none"]
  /\ on' = [on EXCEPT ![p] = NoSem]
  /\ done' = [done EXCEPT ![p] = FALSE]
  /\ UNCHANGED units

Next ==
  \E p \in Procs :
    \/ \E s \in Sems, c \in {"P", "V"} : Call(p, c, s)
    \/ Take(p) \/ Give(p) \/ Return(p)

Spec == Init /\ [][Next]_vars
=============================================================================
