-------------------------------- MODULE Synch --------------------------------
(***************************************************************************)
(* Mutexes, condition variables and semaphores: src/geekos/synch.c.        *)
(*                                                                         *)
(* What protects a mutex's own fields is g_preemptionDisabled, so each     *)
(* access to them is a step of its own and the scheduler may run between   *)
(* any two steps at which preemption is enabled.  Any ready process may be *)
(* given the CPU: the order the run queues impose is left out (KThread).   *)
(* The processes are user processes, all of priority 1, so the wait queues *)
(* are first in, first out.                                                *)
(***************************************************************************)
EXTENDS Naturals, Sequences, FiniteSets, SequencesExt

CONSTANTS
  Procs,     (* the processes                                               *)
  NoProc,    (* the null owner; as current, the idle thread                 *)
  Sems,      (* the semaphores, which exist throughout                      *)
  NoSem,
  CountCap   (* bound: no V is called that would bring a count above it     *)

ASSUME SynchAssumption ==
  NoProc \notin Procs /\ NoSem \notin Sems /\ CountCap \in Nat

VARIABLES
  current,             (* g_currentThread                                   *)
  preemptionDisabled,  (* g_preemptionDisabled                              *)
  owner,               (* owner of each semaphore's mutex; NoProc: unlocked *)
  lockQueue,           (* wait queue of its mutex                           *)
  condQueue,           (* wait queue of its condition                       *)
  count,               (* count of each semaphore                           *)
  pc,                  (* where each process stands                         *)
  call,                (* the call it is in: "none", "P" or "V"             *)
  sem                  (* the semaphore it found                            *)

cpuVars  == <<current, preemptionDisabled>>
callVars == <<call, sem>>
vars == <<cpuVars, owner, lockQueue, condQueue, count, pc, callVars>>

(* Inside Wait, blocked or woken but not yet running. *)
WaitPC == {"lock-wait", "cond-wait"}
(* After g_preemptionDisabled = true and before it is false again. *)
NoPreemptPC == {"test", "take", "locked", "unlock-wait", "wake-wait", "wait",
                "unlock", "wake", "unlocked"}
(* From the acquisition of the mutex to its release. *)
HolderPC == {"locked", "critical", "decrement", "broadcast", "leave",
             "unlock", "unlock-wait"}
PC == WaitPC \cup NoPreemptPC \cup HolderPC \cup {"user", "lock"}

Queued(p) == \E s \in Sems : Contains(lockQueue[s], p) \/ Contains(condQueue[s], p)
Ready(p)  == p \in Procs /\ ~Queued(p)

At(p, label) == current = p /\ pc[p] = label
Goto(p, label) == pc' = [pc EXCEPT ![p] = label]

Init ==
  /\ current \in Procs
  /\ preemptionDisabled = FALSE
  /\ owner = [s \in Sems |-> NoProc]
  /\ lockQueue = [s \in Sems |-> << >>]
  /\ condQueue = [s \in Sems |-> << >>]
  /\ count \in [Sems -> 0 .. 1]
  /\ pc = [p \in Procs |-> "user"]
  /\ call = [p \in Procs |-> "none"]
  /\ sem = [p \in Procs |-> NoSem]
-----------------------------------------------------------------------------
(* The scheduler.  A process resumed inside Wait disables preemption before *)
(* interrupts are enabled again.                                            *)
Resume(q) ==
  /\ current' = q
  /\ preemptionDisabled' = (q # NoProc /\ pc[q] \in WaitPC)

(* Preemption at a timer tick, or the idle thread finding a ready process.  *)
Preempt(q) ==
  /\ ~preemptionDisabled
  /\ q # current /\ Ready(q)
  /\ Resume(q)
  /\ UNCHANGED <<owner, lockQueue, condQueue, count, pc, callVars>>

(* Wait gives the CPU to another ready process or to the idle thread. *)
GiveUp(p) ==
  LET ready == {q \in Procs \ {p} : Ready(q)}
  IN  \/ \E q \in ready : Resume(q)
      \/ ready = {} /\ Resume(NoProc)
-----------------------------------------------------------------------------
(* P and V find the semaphore and enable interrupts. *)
Call(p, c, s) ==
  /\ At(p, "user")
  /\ c = "V" => count[s] + Cardinality({q \in Procs : call[q] = "V" /\ sem[q] = s}) < CountCap
  /\ call' = [call EXCEPT ![p] = c]
  /\ sem'  = [sem EXCEPT ![p] = s]
  /\ Goto(p, "lock")
  /\ UNCHANGED <<cpuVars, owner, lockQueue, condQueue, count>>
-----------------------------------------------------------------------------
(* Mutex_Lock: disable preemption, wait while locked, take, enable it. *)
(* Mutant of LockEnter: preemption stays enabled. *)
LockEnterPreemptible(p) ==
  /\ At(p, "lock")
  /\ Goto(p, "test")
  /\ UNCHANGED <<cpuVars, owner, lockQueue, condQueue, count, callVars>>

LockEnter(p) ==
  /\ At(p, "lock")
  /\ preemptionDisabled' = TRUE
  /\ Goto(p, "test")
  /\ UNCHANGED <<current, owner, lockQueue, condQueue, count, callVars>>

(* Mutant of LockTest: one test, without the loop. *)
LockTestOnce(p) ==
  /\ current = p /\ pc[p] \in {"test"} \cup WaitPC
  /\ \/ /\ owner[sem[p]] = NoProc \/ pc[p] = "lock-wait"
        /\ Goto(p, "take")
        /\ UNCHANGED <<cpuVars, lockQueue>>
     \/ /\ owner[sem[p]] # NoProc /\ pc[p] # "lock-wait"
        /\ lockQueue' = [lockQueue EXCEPT ![sem[p]] = Append(@, p)]
        /\ Goto(p, "lock-wait")
        /\ GiveUp(p)
  /\ UNCHANGED <<owner, condQueue, count, callVars>>

(* Mutex_Lock_Imp's loop, entered by Mutex_Lock, on return from Mutex_Wait  *)
(* and, to take the mutex again, on return from Wait in Cond_Wait.          *)
LockTest(p) ==
  /\ current = p /\ pc[p] \in {"test"} \cup WaitPC
  /\ \/ /\ owner[sem[p]] = NoProc
        /\ Goto(p, "take")
        /\ UNCHANGED <<cpuVars, lockQueue>>
     \/ /\ owner[sem[p]] # NoProc               \* Mutex_Wait
        /\ lockQueue' = [lockQueue EXCEPT ![sem[p]] = Append(@, p)]
        /\ Goto(p, "lock-wait")
        /\ GiveUp(p)
  /\ UNCHANGED <<owner, condQueue, count, callVars>>

LockTake(p) ==
  /\ At(p, "take")
  /\ owner' = [owner EXCEPT ![sem[p]] = p]
  /\ Goto(p, "locked")
  /\ UNCHANGED <<cpuVars, lockQueue, condQueue, count, callVars>>

LockLeave(p) ==
  /\ At(p, "locked")
  /\ preemptionDisabled' = FALSE
  /\ Goto(p, "critical")
  /\ UNCHANGED <<current, owner, lockQueue, condQueue, count, callVars>>
-----------------------------------------------------------------------------
(* Mutant of PTest: Cond_Wait unlocks with preemption enabled. *)
PTestPreemptible(p) ==
  /\ At(p, "critical") /\ call[p] = "P"
  /\ Goto(p, IF count[sem[p]] > 0 THEN "decrement" ELSE "unlock-wait")
  /\ UNCHANGED <<cpuVars, owner, lockQueue, condQueue, count, callVars>>

(* P, with the mutex held: the units are tested and taken. *)
PTest(p) ==
  /\ At(p, "critical") /\ call[p] = "P"
  /\ \/ /\ count[sem[p]] > 0
        /\ Goto(p, "decrement")
        /\ UNCHANGED preemptionDisabled
     \/ /\ count[sem[p]] = 0                    \* Cond_Wait
        /\ preemptionDisabled' = TRUE
        /\ Goto(p, "unlock-wait")
  /\ UNCHANGED <<current, owner, lockQueue, condQueue, count, callVars>>

PDecrement(p) ==
  /\ At(p, "decrement")
  /\ count' = [count EXCEPT ![sem[p]] = @ - 1]
  /\ Goto(p, "leave")
  /\ UNCHANGED <<cpuVars, owner, lockQueue, condQueue, callVars>>

VIncrement(p) ==
  /\ At(p, "critical") /\ call[p] = "V"
  /\ count' = [count EXCEPT ![sem[p]] = @ + 1]
  /\ Goto(p, "broadcast")
  /\ UNCHANGED <<cpuVars, owner, lockQueue, condQueue, callVars>>

(* Cond_Broadcast: every waiter is made runnable. *)
Broadcast(p) ==
  /\ At(p, "broadcast")
  /\ condQueue' = [condQueue EXCEPT ![sem[p]] = << >>]
  /\ Goto(p, "leave")
  /\ UNCHANGED <<cpuVars, owner, lockQueue, count, callVars>>
-----------------------------------------------------------------------------
(* Mutex_Unlock, and the unlocking inside Cond_Wait. *)
UnlockEnter(p) ==
  /\ At(p, "leave")
  /\ preemptionDisabled' = TRUE
  /\ Goto(p, "unlock")
  /\ UNCHANGED <<current, owner, lockQueue, condQueue, count, callVars>>

UnlockRelease(p) ==
  /\ current = p /\ pc[p] \in {"unlock", "unlock-wait"}
  /\ owner' = [owner EXCEPT ![sem[p]] = NoProc]
  /\ Goto(p, IF pc[p] = "unlock" THEN "wake" ELSE "wake-wait")
  /\ UNCHANGED <<cpuVars, lockQueue, condQueue, count, callVars>>

(* Mutant of UnlockWake: no waiter is woken inside Cond_Wait. *)
UnlockWakeNotInWait(p) ==
  /\ current = p /\ pc[p] \in {"wake", "wake-wait"}
  /\ lockQueue' = [lockQueue EXCEPT ![sem[p]] =
                     IF @ = << >> \/ pc[p] = "wake-wait" THEN @ ELSE Tail(@)]
  /\ Goto(p, IF pc[p] = "wake" THEN "unlocked" ELSE "wait")
  /\ UNCHANGED <<cpuVars, owner, condQueue, count, callVars>>

(* Wake_Up_One, if the queue is seen not to be empty. *)
UnlockWake(p) ==
  /\ current = p /\ pc[p] \in {"wake", "wake-wait"}
  /\ lockQueue' = [lockQueue EXCEPT ![sem[p]] = IF @ = << >> THEN @ ELSE Tail(@)]
  /\ Goto(p, IF pc[p] = "wake" THEN "unlocked" ELSE "wait")
  /\ UNCHANGED <<cpuVars, owner, condQueue, count, callVars>>

(* Mutex_Unlock enables preemption again and the system call returns. *)
Return(p) ==
  /\ At(p, "unlocked")
  /\ preemptionDisabled' = FALSE
  /\ Goto(p, "user")
  /\ call' = [call EXCEPT ![p] = "none"]
  /\ sem'  = [sem EXCEPT ![p] = NoSem]
  /\ UNCHANGED <<current, owner, lockQueue, condQueue, count>>

(* Cond_Wait enables preemption and waits, with interrupts disabled. *)
CondWait(p) ==
  /\ At(p, "wait")
  /\ condQueue' = [condQueue EXCEPT ![sem[p]] = Append(@, p)]
  /\ Goto(p, "cond-wait")
  /\ GiveUp(p)
  /\ UNCHANGED <<owner, lockQueue, count, callVars>>
-----------------------------------------------------------------------------
Run(p) ==
  \/ LockEnter(p) \/ LockTest(p) \/ LockTake(p) \/ LockLeave(p)
  \/ PTest(p) \/ PDecrement(p) \/ VIncrement(p) \/ Broadcast(p)
  \/ UnlockEnter(p) \/ UnlockRelease(p) \/ UnlockWake(p) \/ Return(p)
  \/ CondWait(p)

Next ==
  \E p \in Procs :
    \/ Preempt(p)
    \/ \E c \in {"P", "V"}, s \in Sems : Call(p, c, s)
    \/ Run(p)

Spec == Init /\ [][Next]_vars
-----------------------------------------------------------------------------
(* Every variable stays in its range; a count never wraps below 0.          *)
TypeOK ==
  /\ current \in Procs \cup {NoProc}
  /\ preemptionDisabled \in BOOLEAN
  /\ owner \in [Sems -> Procs \cup {NoProc}]
  /\ lockQueue \in [Sems -> Seq(Procs)]
  /\ condQueue \in [Sems -> Seq(Procs)]
  /\ count \in [Sems -> Nat]
  /\ pc \in [Procs -> PC]
  /\ call \in [Procs -> {"none", "P", "V"}]
  /\ sem \in [Procs -> Sems \cup {NoSem}]

(* A mutex is held by the one process that is between its acquisition and   *)
(* its release, and by nobody otherwise.                                    *)
MutualExclusion ==
  \A p \in Procs, s \in Sems :
    owner[s] = p <=> pc[p] \in HolderPC /\ sem[p] = s

(* The KASSERTs of synch.c: preemption is disabled where a mutex is read or *)
(* written, who locks does not hold it, and who unlocks does.               *)
AssertsHold ==
  \A p \in Procs : current = p =>
    /\ preemptionDisabled <=> pc[p] \in NoPreemptPC \cup WaitPC
    /\ pc[p] \in {"test"} \cup WaitPC => owner[sem[p]] # p
    /\ pc[p] = "take" => owner[sem[p]] = NoProc
    /\ pc[p] \in {"unlock", "unlock-wait"} => owner[sem[p]] = p

(* "this thread will not miss the eventual notification" (synch.c:304): a   *)
(* process sleeps on the condition of a semaphore with units only while the *)
(* V that gave them is about to broadcast.                                  *)
NoMissedNotification ==
  \A s \in Sems : count[s] > 0 /\ condQueue[s] # << >> =>
    \E p \in Procs : pc[p] = "broadcast" /\ sem[p] = s

(* p will lock, or wake a process that will. *)
Rouses(p, s) ==
  /\ sem[p] = s /\ Ready(p)
  /\ pc[p] \in {"take", "test", "wake", "wake-wait"} \cup WaitPC

(* Nobody sleeps on an unlocked mutex unless somebody who will lock it, or  *)
(* who is waking a sleeper, is ready.                                       *)
NoStrandedWaiter ==
  \A s \in Sems : owner[s] = NoProc /\ lockQueue[s] # << >> =>
    \E p \in Procs : Rouses(p, s)

(* Units are taken and given as AbstractSemaphore says. *)
Abs == INSTANCE AbstractSemaphore WITH
  units <- count, on <- sem,
  done <- [p \in Procs |-> /\ call[p] # "none"
                           /\ pc[p] \in {"broadcast", "leave", "unlock", "wake", "unlocked"}]

(* The mutex, the condition and the count implement a semaphore: a unit is  *)
(* never taken twice nor from an empty semaphore, and P returns having one. *)
ImplementsSemaphore == Abs!Spec
-----------------------------------------------------------------------------
(* Fairness: a process that has the CPU executes; the scheduler gives the   *)
(* CPU to every process that keeps being ready (round robin).               *)
FairSpec ==
  Spec /\ \A p \in Procs : SF_vars(Run(p)) /\ SF_vars(Preempt(p))

(* The units of a semaphore do not stay while a process sleeps for one.      *)
UnitsAreTaken ==
  \A s \in Sems :
    count[s] > 0 /\ condQueue[s] # << >> ~> count[s] = 0 \/ condQueue[s] = << >>

(* A mutex is released again and again, and with waiters it does not stay   *)
(* unlocked.  (Which waiter gets it is another matter: a process that comes *)
(* later may take it before the one that was woken.)                        *)
MutexMovesOn ==
  \A s \in Sems :
    /\ []<>(owner[s] = NoProc)
    /\ owner[s] = NoProc /\ lockQueue[s] # << >> ~> owner[s] # NoProc
-----------------------------------------------------------------------------
(* The inductive invariant.  What a process's place in the code implies: *)
CallAt(p) ==
  /\ pc[p] = "user" <=> call[p] = "none"
  /\ pc[p] # "user" => sem[p] \in Sems
  /\ pc[p] \in {"decrement", "unlock-wait", "wake-wait", "wait", "cond-wait"} => call[p] = "P"
  /\ pc[p] = "broadcast" => call[p] = "V"

(* Who is where preemption is disabled has the CPU, and who has it is not   *)
(* on a queue:                                                              *)
CpuInv ==
  /\ preemptionDisabled => current \in Procs
  /\ \A p \in Procs : pc[p] \in NoPreemptPC => current = p
  /\ \A p \in Procs : current = p =>
       ~Queued(p) /\ (preemptionDisabled <=> pc[p] \in NoPreemptPC \cup WaitPC)

(* Only those who wait are queued, each once: *)
QueueInv ==
  /\ \A s \in Sems : IsInjective(lockQueue[s])
  /\ \A s \in Sems, p \in Procs :
       /\ Contains(lockQueue[s], p) => pc[p] = "lock-wait" /\ sem[p] = s
       /\ Contains(condQueue[s], p) => pc[p] = "cond-wait" /\ sem[p] = s

(* What was tested still holds when it is used: *)
TestedAt(p) ==
  /\ pc[p] = "take" => owner[sem[p]] = NoProc
  /\ pc[p] = "decrement" => count[sem[p]] > 0
  /\ pc[p] \in {"unlock-wait", "wake-wait", "wait"} => count[sem[p]] = 0

IInv ==
  /\ TypeOK /\ CpuInv /\ QueueInv
  /\ \A p \in Procs : CallAt(p) /\ TestedAt(p)
  /\ MutualExclusion /\ NoMissedNotification /\ NoStrandedWaiter
=============================================================================
