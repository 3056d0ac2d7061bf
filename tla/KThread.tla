------------------------------- MODULE KThread -------------------------------
(***************************************************************************)
(* Kernel threads of GeekOS: src/geekos/kthread.c, the timer handler of    *)
(* timer.c and the interrupt return path and context switch of             *)
(* lowlevel.asm.  One CPU: only current executes.  Code that runs with     *)
(* interrupts disabled is one atomic action, except the loop of Wake_Up,   *)
(* whose iterations are actions (WakeNext) that nothing can interrupt.     *)
(*                                                                         *)
(* A thread object is a page: a member of Thread is such a page, free      *)
(* (pc = "none"), in use, or reused after the reaper freed it.             *)
(***************************************************************************)
EXTENDS Naturals, Sequences, SequencesExt

CONSTANTS
  Workers,       (* pages for Main, user processes and other kernel threads *)
  Main,          (* the boot thread, one of the Workers                     *)
  Idle,          (* the idle thread                                         *)
  Reaper,        (* the reaper thread                                       *)
  NoThread,      (* the null thread pointer                                 *)
  Prio,          (* the priority a thread in each page is created with      *)
  Quanta,        (* quantum lengths a process may ask for, in ticks         *)
  Services,      (* what the workers use: see ServiceNames                  *)
  TickCap,       (* numTicks saturates here: see ThreadAssumption           *)
  Waitable       (* whom a process may wait for: see RefStates              *)

Thread == Workers \cup {Idle, Reaper}

(* Optional services: "event" is a device and a wait queue for it,          *)
(* "preemption" sections of g_preemptionDisabled, "policy" system calls.    *)
ServiceNames == {"event", "preemption", "policy"}

(* The state of the owner's reference to a thread: there is none or it was  *)
(* dropped, the owner has it, or the owner ended without dropping it.       *)
RefStates == {"none", "owned", "orphan"}

ASSUME ThreadAssumption ==
  /\ Main \in Workers
  /\ Idle \notin Workers /\ Reaper \notin Workers /\ Idle # Reaper
  /\ NoThread \notin Thread
  /\ Prio \in [Thread -> Nat]
  /\ \A t \in Thread : Prio[t] = 0 <=> t = Idle
  /\ TickCap \in Nat
  /\ Quanta # {} /\ Quanta \subseteq 0 .. TickCap + 1  \* numTicks + 1 >= quantum is exact
  /\ Services \subseteq ServiceNames
  /\ Waitable \subseteq RefStates

MLFLevels == 4

(* Every list a thread's Thread_Queue link can be on. *)
RunQ(i)  == <<"run", i>>
JoinQ(t) == <<"join", t>>
ReaperQ  == <<"reaper", 0>>     (* s_reaperWaitQueue                        *)
EventQ   == <<"event", 0>>      (* some other wait queue: mutex, device...  *)
Grave    == <<"grave", 0>>      (* s_graveyardQueue                         *)
Taken    == <<"taken", 0>>      (* the batch the reaper took from it        *)
NoQueue  == <<"none", 0>>

Levels == 0 .. MLFLevels - 1
RunQs  == {RunQ(i) : i \in Levels}
WaitQs == {JoinQ(t) : t \in Thread} \cup {ReaperQ, EventQ}
Queues == RunQs \cup WaitQs \cup {Grave, Taken}

VARIABLES
  current,            (* g_currentThread                                    *)
  queues,             (* the members of every list, front first             *)
  level,              (* currentReadyQueue of each thread                   *)
  blocked,            (* blocked flag of each thread                        *)
  alive,              (* alive flag of each thread                          *)
  refCount,           (* refCount of each thread                            *)
  owner,              (* owner pointer of each thread                       *)
  held,               (* history: the state of the owner's reference        *)
  pc,                 (* where each thread's code stands                    *)
  arg,                (* the thread it is starting or joining               *)
  maxLevel,           (* MAX_QUEUE_LEVEL: 4 under MLF, 1 under round robin  *)
  quantum,            (* g_Quantum                                          *)
  numTicks,           (* numTicks of current; every switch clears the field *)
  needReschedule,     (* g_needReschedule                                   *)
  preemptionDisabled, (* g_preemptionDisabled                               *)
  inIRQ,              (* between an interrupt handler and its return        *)
  waking,             (* the queue a Wake_Up is emptying, or NoQueue        *)
  panic               (* a KASSERT failed: the kernel loops for ever        *)

schedVars  == <<current, queues, level, blocked, numTicks>>
objectVars == <<alive, refCount, owner, held>>
codeVars   == <<pc, arg>>
policyVars == <<maxLevel, quantum>>
irqVars    == <<needReschedule, preemptionDisabled, inIRQ>>
vars == <<schedVars, objectVars, codeVars, policyVars, irqVars, waking, panic>>

-----------------------------------------------------------------------------
(* Lists: Enqueue_Thread, Remove_Thread, and the removal of the front.      *)
Enqueue(qs, q, t) == [qs EXCEPT ![q] = Append(@, t)]
Dequeue(qs, q, k) == [qs EXCEPT ![q] = RemoveAt(@, k)]
Pop(qs, q)        == [qs EXCEPT ![q] = Tail(@)]
-----------------------------------------------------------------------------
(* Ready queues *)

(* Mutant of IsBest: the front thread, whatever its priority. *)
IsFront(q, k) == k = 1

(* Find_Best: the first of the queue's threads of highest priority. *)
IsBest(q, k) ==
  \A j \in DOMAIN q : \/ Prio[q[j]] < Prio[q[k]]
                      \/ Prio[q[j]] = Prio[q[k]] /\ k <= j

(* Mutant of ReadyLevel: promotion without the currentQ > 0 test. *)
ReadyLevelUnchecked(t) ==
  LET fit == IF level[t] >= maxLevel THEN maxLevel - 1 ELSE level[t]
  IN  IF Prio[t] = 0 THEN maxLevel - 1 ELSE IF blocked[t] THEN fit - 1 ELSE fit

(* The level Make_Runnable gives a thread: inside the current policy's      *)
(* levels, one better after blocking, and the last one for the idle thread. *)
ReadyLevel(t) ==
  LET fit == IF level[t] >= maxLevel THEN maxLevel - 1 ELSE level[t]
  IN  IF Prio[t] = 0 THEN maxLevel - 1
      ELSE IF blocked[t] /\ fit > 0 THEN fit - 1 ELSE fit

MakeRunnable(qs, t) == Enqueue(qs, RunQ(ReadyLevel(t)), t)

SetRunnable(t) ==
  /\ level'   = [level EXCEPT ![t] = ReadyLevel(t)]
  /\ blocked' = [blocked EXCEPT ![t] = FALSE]

(* Switch_To_Thread: the old thread's numTicks is cleared, and the new one  *)
(* was cleared when it was switched from.                                   *)
SwitchTo(t) == current' = t /\ numTicks' = 0

(* Get_Next_Runnable and the switch, from the lists qs. *)
SwitchFrom(qs) ==
  \E i \in 0 .. maxLevel - 1 : \E k \in DOMAIN qs[RunQ(i)] :
    /\ \A j \in 0 .. i - 1 : qs[RunQ(j)] = << >>
    /\ IsBest(qs[RunQ(i)], k)
    /\ SwitchTo(qs[RunQ(i)][k])
    /\ queues' = Dequeue(qs, RunQ(i), k)

(* Wait: block the current thread on queue q and schedule another. *)
WaitOn(q) ==
  /\ blocked' = [blocked EXCEPT ![current] = TRUE]
  /\ SwitchFrom(Enqueue(queues, q, current))
  /\ UNCHANGED level

(* Wake_Up, entered with the lists qs: WakeNext runs its iterations. *)
WakeUp(q, qs) == waking' = IF qs[q] = << >> THEN NoQueue ELSE q

-----------------------------------------------------------------------------
(* Where the code stands.  In these places interrupts are enabled. *)
OpenPC == {"body", "start", "destructor", "taken", "dispose"}
PC == OpenPC \cup {"none", "new", "join", "exit", "gone", "zombie", "check"}

Running(label)    == ~panic /\ waking = NoQueue /\ ~inIRQ /\ pc[current] = label
InterruptsEnabled == ~panic /\ waking = NoQueue /\ ~inIRQ /\ pc[current] \in OpenPC
WorkerAt(label)   == Running(label) /\ current \in Workers
Goto(label)       == pc' = [pc EXCEPT ![current] = label]

Init ==
  /\ current = Main
  /\ queues = [q \in Queues |-> IF q = RunQ(MLFLevels - 1) THEN <<Idle>>
                                ELSE IF q = RunQ(0) THEN <<Reaper>> ELSE << >>]
  /\ level = [t \in Thread |-> IF t = Idle THEN MLFLevels - 1 ELSE 0]
  /\ blocked = [t \in Thread |-> FALSE]
  /\ alive = [t \in Thread |-> t \in {Main, Idle, Reaper}]
  /\ refCount = [t \in Thread |-> IF t \in {Main, Idle, Reaper} THEN 1 ELSE 0]
  /\ owner = [t \in Thread |-> NoThread]
  /\ held = [t \in Thread |-> "none"]
  /\ pc = [t \in Thread |-> IF t \in {Main, Idle} THEN "body"
                            ELSE IF t = Reaper THEN "check" ELSE "none"]
  /\ arg = [t \in Thread |-> NoThread]
  /\ maxLevel = MLFLevels
  /\ quantum \in Quanta
  /\ numTicks = 0
  /\ needReschedule = FALSE
  /\ preemptionDisabled = FALSE
  /\ inIRQ = FALSE
  /\ waking = NoQueue
  /\ panic = FALSE
-----------------------------------------------------------------------------
(* Wake_Up: one iteration of its loop, moving the front thread. *)
WakeNext ==
  /\ waking # NoQueue
  /\ LET t == Head(queues[waking])
     IN  /\ queues' = MakeRunnable(Pop(queues, waking), t)
         /\ SetRunnable(t)
  /\ waking' = IF Len(queues[waking]) = 1 THEN NoQueue ELSE waking
  /\ UNCHANGED <<current, numTicks, objectVars, codeVars, policyVars, irqVars, panic>>

(* Mutant of Detach: the first reference dropped reaps the thread. *)
DetachReapsAtOnce(t) ==
  /\ refCount' = [refCount EXCEPT ![t] = @ - 1]
  /\ UNCHANGED panic
  /\ queues' = Enqueue(queues, Grave, t)
  /\ WakeUp(ReaperQ, queues)

(* Mutant of Detach: Reap_Thread without the Wake_Up of the reaper. *)
DetachSilently(t) ==
  /\ refCount' = [refCount EXCEPT ![t] = @ - 1]
  /\ UNCHANGED <<panic, waking>>
  /\ queues' = IF refCount[t] = 1 THEN Enqueue(queues, Grave, t)
               ELSE queues

(* Detach_Thread and Reap_Thread: drop a reference to t; the last one hands *)
(* t to the reaper.  Releasing a reference nobody has is a failed KASSERT.  *)
Detach(t) ==
  IF refCount[t] = 0
  THEN panic' = TRUE /\ UNCHANGED <<refCount, queues, waking>>
  ELSE /\ refCount' = [refCount EXCEPT ![t] = @ - 1]
       /\ UNCHANGED panic
       /\ IF refCount[t] = 1
          THEN /\ queues' = Enqueue(queues, Grave, t)
               /\ WakeUp(ReaperQ, queues)
          ELSE UNCHANGED <<queues, waking>>

(* Mutant of Create: no reference for the owner. *)
CreateOneRef(t, detached) ==
  /\ WorkerAt("body")
  /\ t \in Workers /\ pc[t] = "none"
  /\ alive'    = [alive EXCEPT ![t] = TRUE]
  /\ refCount' = [refCount EXCEPT ![t] = 1]
  /\ owner'    = [owner EXCEPT ![t] = IF detached THEN NoThread ELSE current]
  /\ held'     = [held EXCEPT ![t] = IF detached THEN "none" ELSE "owned"]
  /\ pc'       = [pc EXCEPT ![t] = "new", ![current] = "start"]
  /\ arg'      = [arg EXCEPT ![current] = t]
  /\ UNCHANGED <<schedVars, policyVars, irqVars, waking, panic>>

(* Create_Thread, with interrupts enabled: the new object is in no queue.   *)
Create(t, detached) ==
  /\ WorkerAt("body")
  /\ t \in Workers /\ pc[t] = "none"
  /\ alive'    = [alive EXCEPT ![t] = TRUE]
  /\ refCount' = [refCount EXCEPT ![t] = IF detached THEN 1 ELSE 2]
  /\ owner'    = [owner EXCEPT ![t] = IF detached THEN NoThread ELSE current]
  /\ held'     = [held EXCEPT ![t] = IF detached THEN "none" ELSE "owned"]
  /\ pc'       = [pc EXCEPT ![t] = "new", ![current] = "start"]
  /\ arg'      = [arg EXCEPT ![current] = t]
  /\ UNCHANGED <<schedVars, policyVars, irqVars, waking, panic>>

(* Make_Runnable_Atomic at the end of Start_Kernel_Thread/Start_User_Thread *)
Start ==
  /\ WorkerAt("start")
  /\ LET t == arg[current]
     IN  /\ queues' = MakeRunnable(queues, t)
         /\ SetRunnable(t)
         /\ pc' = [pc EXCEPT ![t] = "body", ![current] = "body"]
  /\ arg' = [arg EXCEPT ![current] = NoThread]
  /\ UNCHANGED <<current, numTicks, objectVars, policyVars, irqVars, waking, panic>>

(* Yield, by a worker or by the idle thread's loop. *)
Yield ==
  /\ Running("body") /\ ~preemptionDisabled
  /\ SetRunnable(current)
  /\ SwitchFrom(MakeRunnable(queues, current))
  /\ UNCHANGED <<objectVars, codeVars, policyVars, irqVars, waking, panic>>

(* Join's loop: wait while the child lives, then release the reference. *)
JoinLoop(t) ==
  \/ /\ alive[t]
     /\ WaitOn(JoinQ(t))
     /\ pc'  = [pc EXCEPT ![current] = "join"]
     /\ arg' = [arg EXCEPT ![current] = t]
     /\ UNCHANGED <<objectVars, waking, panic>>
  \/ /\ ~alive[t]
     /\ Detach(t)
     /\ held' = [held EXCEPT ![t] = "none"]
     /\ pc'   = [pc EXCEPT ![current] = "body"]
     /\ arg'  = [arg EXCEPT ![current] = NoThread]
     /\ UNCHANGED <<current, level, blocked, numTicks, alive, owner>>

(* Sys_Wait: look the child up and Join it.  The owner pointer must be the  *)
(* caller, which may be a later thread in the page of an ended owner.       *)
Join(t) ==
  /\ WorkerAt("body") /\ ~preemptionDisabled
  /\ pc[t] # "none" /\ owner[t] = current
  /\ held[t] \in Waitable
  /\ JoinLoop(t)
  /\ UNCHANGED <<policyVars, irqVars>>

JoinResume ==
  /\ WorkerAt("join")
  /\ JoinLoop(arg[current])
  /\ UNCHANGED <<policyVars, irqVars>>
-----------------------------------------------------------------------------
(* Exit.  A thread-local destructor runs with interrupts enabled, after     *)
(* alive is cleared and before the owner is woken.  The thread's children   *)
(* keep the reference it will never drop.                                   *)
Exit ==
  /\ WorkerAt("body") /\ ~preemptionDisabled
  /\ alive' = [alive EXCEPT ![current] = FALSE]
  /\ held' = [t \in Thread |-> IF owner[t] = current /\ held[t] = "owned"
                               THEN "orphan" ELSE held[t]]
  /\ \/ Goto("exit") /\ WakeUp(JoinQ(current), queues)
     \/ Goto("destructor") /\ UNCHANGED waking
  /\ UNCHANGED <<schedVars, refCount, owner, arg, policyVars, irqVars, panic>>

(* Mutant of DestructorDone: the owner is not woken. *)
DestructorDoneSilently ==
  /\ WorkerAt("destructor")
  /\ Goto("exit")
  /\ UNCHANGED <<schedVars, objectVars, arg, policyVars, irqVars, waking, panic>>

DestructorDone ==
  /\ WorkerAt("destructor")
  /\ Goto("exit") /\ WakeUp(JoinQ(current), queues)
  /\ UNCHANGED <<schedVars, objectVars, arg, policyVars, irqVars, panic>>

(* Detach_Thread of the thread's own reference, still on its stack. *)
ExitDetach ==
  /\ WorkerAt("exit")
  /\ Detach(current)
  /\ Goto("gone")
  /\ UNCHANGED <<current, level, blocked, numTicks, alive, owner, held, arg,
                 policyVars, irqVars>>

(* The last Schedule: nothing will ever switch back. *)
ExitSchedule ==
  /\ WorkerAt("gone")
  /\ SwitchFrom(queues)
  /\ Goto("zombie")
  /\ UNCHANGED <<level, blocked, objectVars, arg, policyVars, irqVars, waking, panic>>
-----------------------------------------------------------------------------
(* Mutant of ReaperCheck: the graveyard is read but not cleared. *)
ReaperKeepsGraveyard ==
  /\ current = Reaper /\ Running("check")
  /\ \/ /\ queues[Grave] = << >>
        /\ WaitOn(ReaperQ)
        /\ UNCHANGED pc
     \/ /\ queues[Grave] # << >>
        /\ queues' = [queues EXCEPT ![Taken] = queues[Grave]]
        /\ Goto("taken")
        /\ UNCHANGED <<current, level, blocked, numTicks>>
  /\ UNCHANGED <<objectVars, arg, policyVars, irqVars, waking, panic>>

(* Reaper: wait for dead threads, take the whole graveyard, yield, destroy  *)
(* them one by one.                                                         *)
ReaperCheck ==
  /\ current = Reaper /\ Running("check")
  /\ \/ /\ queues[Grave] = << >>
        /\ WaitOn(ReaperQ)
        /\ UNCHANGED pc
     \/ /\ queues[Grave] # << >>
        /\ queues' = [queues EXCEPT ![Taken] = queues[Grave], ![Grave] = << >>]
        /\ Goto("taken")
        /\ UNCHANGED <<current, level, blocked, numTicks>>
  /\ UNCHANGED <<objectVars, arg, policyVars, irqVars, waking, panic>>

ReaperYield ==
  /\ current = Reaper /\ Running("taken")
  /\ SetRunnable(current)
  /\ SwitchFrom(MakeRunnable(queues, current))
  /\ Goto("dispose")
  /\ UNCHANGED <<objectVars, arg, policyVars, irqVars, waking, panic>>

(* Destroy_Thread: the page is free again (its contents are erased here). *)
ReaperDispose ==
  /\ current = Reaper /\ Running("dispose")
  /\ LET t == Head(queues[Taken])
     IN  /\ queues'   = Pop(queues, Taken)
         /\ pc'       = [pc EXCEPT ![t] = "none",
                                   ![Reaper] = IF Len(queues[Taken]) = 1
                                               THEN "check" ELSE "dispose"]
         /\ owner'    = [owner EXCEPT ![t] = NoThread]
         /\ level'    = [level EXCEPT ![t] = 0]
         /\ blocked'  = [blocked EXCEPT ![t] = FALSE]
  /\ UNCHANGED <<current, numTicks, alive, refCount, held, arg, policyVars,
                 irqVars, waking, panic>>
-----------------------------------------------------------------------------
(* Mutant of Block: waiting with preemption still disabled. *)
BlockInCritical ==
  /\ "event" \in Services
  /\ WorkerAt("body")
  /\ WaitOn(EventQ)
  /\ UNCHANGED <<objectVars, codeVars, policyVars, irqVars, waking, panic>>

(* Clients of the generic wait queue: Wait, Wake_Up, Wake_Up_One.  Code     *)
(* that waits re-enables preemption first (synch.c).                        *)
Block ==
  /\ "event" \in Services
  /\ WorkerAt("body")
  /\ WaitOn(EventQ)
  /\ preemptionDisabled' = FALSE
  /\ UNCHANGED <<objectVars, codeVars, policyVars, needReschedule, inIRQ, waking, panic>>

WakeAll ==
  /\ WorkerAt("body")
  /\ queues[EventQ] # << >>
  /\ WakeUp(EventQ, queues)
  /\ UNCHANGED <<schedVars, objectVars, codeVars, policyVars, irqVars, panic>>

WakeOne ==
  /\ WorkerAt("body")
  /\ \E k \in DOMAIN queues[EventQ] :
       LET t == queues[EventQ][k]
       IN  /\ IsBest(queues[EventQ], k)
           /\ queues' = MakeRunnable(Dequeue(queues, EventQ, k), t)
           /\ SetRunnable(t)
  /\ UNCHANGED <<current, numTicks, objectVars, codeVars, policyVars, irqVars,
                 waking, panic>>

SetPreemption ==
  /\ "preemption" \in Services
  /\ WorkerAt("body")
  /\ preemptionDisabled' = ~preemptionDisabled
  /\ UNCHANGED <<schedVars, objectVars, codeVars, policyVars, needReschedule,
                 inIRQ, waking, panic>>
-----------------------------------------------------------------------------
(* Mutant of SwitchToRR: currentReadyQueue is not reset. *)
SwitchToRRKeepsLevels ==
  LET lower == queues[RunQ(1)] \o queues[RunQ(2)] \o queues[RunQ(3)]
  IN  /\ queues' = [queues EXCEPT ![RunQ(0)] = Reverse(lower) \o @,
                       ![RunQ(1)] = << >>, ![RunQ(2)] = << >>, ![RunQ(3)] = << >>]
      /\ maxLevel' = 1
      /\ UNCHANGED level

(* Switch_To_RR: every thread of levels 1.. goes to the front of level 0,   *)
(* one by one, so their order is reversed.                                  *)
SwitchToRR ==
  LET lower == queues[RunQ(1)] \o queues[RunQ(2)] \o queues[RunQ(3)]
  IN  IF maxLevel = 1 THEN UNCHANGED <<queues, level, maxLevel>>
      ELSE /\ queues' = [queues EXCEPT ![RunQ(0)] = Reverse(lower) \o @,
                            ![RunQ(1)] = << >>, ![RunQ(2)] = << >>, ![RunQ(3)] = << >>]
           /\ level' = [t \in Thread |-> IF Contains(lower, t) THEN 0 ELSE level[t]]
           /\ maxLevel' = 1

(* Mutant of SwitchToMLF: the idle thread stays where it is. *)
SwitchToMLFOnly == maxLevel' = MLFLevels /\ UNCHANGED <<queues, level>>

(* Switch_To_MLF: the idle thread, if it is on level 0, goes to the front   *)
(* of the last level; the others stay.                                      *)
SwitchToMLF ==
  /\ maxLevel' = MLFLevels
  /\ \/ \E k \in DOMAIN queues[RunQ(0)] :
          /\ queues[RunQ(0)][k] = Idle
          /\ queues' = [queues EXCEPT ![RunQ(0)] = RemoveAt(@, k),
                                      ![RunQ(MLFLevels - 1)] = <<Idle>> \o @]
          /\ level' = [level EXCEPT ![Idle] = MLFLevels - 1]
     \/ /\ ~Contains(queues[RunQ(0)], Idle)
        /\ UNCHANGED <<queues, level>>

(* Sys_SetSchedulingPolicy.  An unknown policy still sets the quantum. *)
SetSchedulingPolicy(q) ==
  /\ "policy" \in Services
  /\ WorkerAt("body")
  /\ quantum' = q
  /\ \/ SwitchToRR
     \/ SwitchToMLF
     \/ UNCHANGED <<queues, level, maxLevel>>
  /\ UNCHANGED <<current, blocked, numTicks, objectVars, codeVars, irqVars, waking, panic>>
-----------------------------------------------------------------------------
(* Timer_Interrupt_Handler, with no timer event pending. *)
TimerInterrupt ==
  /\ InterruptsEnabled
  /\ numTicks' = IF numTicks < TickCap THEN numTicks + 1 ELSE numTicks
  /\ LET expired == numTicks + 1 >= quantum
     IN  /\ needReschedule' = (needReschedule \/ expired)
         /\ level' = [level EXCEPT ![current] =
                        IF expired /\ @ < maxLevel - 1 THEN @ + 1 ELSE @]
  /\ inIRQ' = TRUE
  /\ UNCHANGED <<current, queues, blocked, objectVars, codeVars, policyVars,
                 preemptionDisabled, waking, panic>>

(* A device handler (keyboard, floppy) wakes its waiters and asks for a     *)
(* new thread to be chosen.                                                 *)
DeviceInterrupt ==
  /\ "event" \in Services
  /\ InterruptsEnabled
  /\ WakeUp(EventQ, queues)
  /\ needReschedule' = TRUE
  /\ inIRQ' = TRUE
  /\ UNCHANGED <<schedVars, objectVars, codeVars, policyVars, preemptionDisabled, panic>>

(* Mutant of InterruptReturn: g_preemptionDisabled is not tested. *)
InterruptReturnPreempts ==
  /\ inIRQ /\ waking = NoQueue
  /\ inIRQ' = FALSE
  /\ \/ /\ needReschedule
        /\ SetRunnable(current)
        /\ SwitchFrom(MakeRunnable(queues, current))
        /\ needReschedule' = FALSE
     \/ /\ ~needReschedule
        /\ UNCHANGED <<schedVars, needReschedule>>
  /\ UNCHANGED <<objectVars, codeVars, policyVars, preemptionDisabled, waking, panic>>

(* Handle_Interrupt after the handler: preempt the current thread if a new  *)
(* one is to be chosen and preemption is allowed.                           *)
InterruptReturn ==
  /\ inIRQ /\ waking = NoQueue
  /\ inIRQ' = FALSE
  /\ \/ /\ needReschedule /\ ~preemptionDisabled
        /\ SetRunnable(current)
        /\ SwitchFrom(MakeRunnable(queues, current))
        /\ needReschedule' = FALSE
     \/ /\ ~needReschedule \/ preemptionDisabled
        /\ UNCHANGED <<schedVars, needReschedule>>
  /\ UNCHANGED <<objectVars, codeVars, policyVars, preemptionDisabled, waking, panic>>
-----------------------------------------------------------------------------
Next ==
  \/ WakeNext
  \/ \E t \in Workers, detached \in BOOLEAN : Create(t, detached)
  \/ Start
  \/ Yield
  \/ \E t \in Workers : Join(t)
  \/ JoinResume
  \/ Exit \/ DestructorDone \/ ExitDetach \/ ExitSchedule
  \/ ReaperCheck \/ ReaperYield \/ ReaperDispose
  \/ Block \/ WakeAll \/ WakeOne \/ SetPreemption
  \/ \E q \in Quanta : SetSchedulingPolicy(q)
  \/ TimerInterrupt \/ DeviceInterrupt \/ InterruptReturn

Spec == Init /\ [][Next]_vars
-----------------------------------------------------------------------------
(* t is linked on one of the lists Q. *)
On(t, Q) == \E q \in Q : Contains(queues[q], t)

(* Started and not yet finished. *)
Live(t) == pc[t] \notin {"none", "new", "zombie"}

(* Every variable stays in its range. *)
TypeOK ==
  /\ current \in Thread
  /\ queues \in [Queues -> Seq(Thread)]
  /\ level \in [Thread -> Levels]
  /\ blocked \in [Thread -> BOOLEAN]
  /\ alive \in [Thread -> BOOLEAN]
  /\ refCount \in [Thread -> 0 .. 2]
  /\ owner \in [Thread -> Workers \cup {NoThread}]
  /\ held \in [Thread -> RefStates]
  /\ pc \in [Thread -> PC]
  /\ arg \in [Thread -> Workers \cup {NoThread}]
  /\ maxLevel \in {1, MLFLevels}
  /\ quantum \in Quanta
  /\ numTicks \in 0 .. TickCap
  /\ needReschedule \in BOOLEAN
  /\ preemptionDisabled \in BOOLEAN
  /\ inIRQ \in BOOLEAN
  /\ waking \in {NoQueue, EventQ, ReaperQ} \cup {JoinQ(t) : t \in Workers}
  /\ panic \in BOOLEAN

(* A thread has one Thread_Queue link, so it is never on two lists, nor     *)
(* twice on one: the run queues, every wait queue, the graveyard and the    *)
(* batch the reaper walks all use the same link.                            *)
LinkExclusive ==
  /\ \A q \in Queues : IsInjective(queues[q])
  /\ \A p, q \in Queues : \A t \in Thread :
       Contains(queues[p], t) /\ Contains(queues[q], t) => p = q

(* No thread is lost: a started thread other than the current one is        *)
(* blocked exactly if it is on a wait queue and otherwise on a run queue,   *)
(* at the level its currentReadyQueue field says; the current thread, a     *)
(* thread being created and a finished one are on none.                     *)
NoThreadLost ==
  \A t \in Thread :
    /\ blocked[t] <=> On(t, WaitQs)
    /\ Live(t) /\ t # current /\ ~blocked[t] <=> On(t, RunQs)
    /\ \A i \in Levels : On(t, {RunQ(i)}) => level[t] = i /\ i < maxLevel

(* refCount counts the thread's own reference, until Exit drops it, and the *)
(* owner's, until Join drops it, whichever is first; a thread is given to   *)
(* the reaper when and only when the count is 0.                            *)
RefCountExact ==
  \A t \in Thread :
    /\ refCount[t] = (IF pc[t] \in {"none", "gone", "zombie"} THEN 0 ELSE 1)
                     + (IF held[t] = "none" THEN 0 ELSE 1)
    /\ pc[t] \in {"gone", "zombie"} /\ refCount[t] = 0 <=> On(t, {Grave, Taken})

(* What the reaper is about to free is not in use: no owner may still join  *)
(* it, its stack is not the running one, and nobody waits on the join queue *)
(* inside it.                                                               *)
ReapedNotInUse ==
  \A t \in Thread : On(t, {Taken}) =>
    /\ pc[t] = "zombie" /\ t # current /\ held[t] = "none"
    /\ queues[JoinQ(t)] = << >>

(* The idle thread preserves "the invariant that a runnable thread always   *)
(* exists" (kthread.c:368): whenever another thread runs, the last run      *)
(* queue holds it, so KASSERT(best != 0) in Get_Next_Runnable cannot fail.  *)
IdleReady ==
  current # Idle => On(Idle, {RunQ(maxLevel - 1)})

(* Join misses no exit: a thread waits on a join queue only if it is the    *)
(* owner and the Wake_Up of the child's Exit is still to come.              *)
JoinNotMissed ==
  \A c \in Thread, t \in Thread : On(t, {JoinQ(c)}) =>
    owner[c] = t /\ (alive[c] \/ pc[c] = "destructor" \/ waking = JoinQ(c))

(* "It is only legal for the owner to join" (kthread.c:796): a thread that  *)
(* waits in Join is the one that created the child.                         *)
OnlyOwnerJoins ==
  \A c \in Thread : queues[JoinQ(c)] # << >> => held[c] = "owned"

(* Schedule is never entered with preemption disabled: its KASSERT holds    *)
(* in the idle thread, the reaper, Join and Exit.                           *)
CriticalIsWorker ==
  preemptionDisabled => current \in Workers /\ pc[current] \in {"body", "start"}

(* No KASSERT of the modelled code fails. *)
NoPanic == ~panic

(* With preemption disabled the CPU stays with its thread: interrupts may   *)
(* wake others and ask for a switch, but only the thread itself gives it up *)
(* and then preemption is enabled again.                                    *)
NoPreemptionInCritical ==
  [][preemptionDisabled /\ current' # current => ~preemptionDisabled']_vars

(* The idle thread gets the CPU from another thread only if no other thread *)
(* is ready, under both policies and across a change of policy.             *)
IdleLast ==
  [][current' = Idle /\ current # Idle => \A q \in RunQs : queues'[q] = << >>]_vars
-----------------------------------------------------------------------------
(* Fairness.  With interrupts disabled the CPU reaches the next step        *)
(* (weak).  With interrupts enabled a timer tick may come first, but a      *)
(* thread that keeps getting the CPU executes instructions between two      *)
(* ticks (strong, per thread).  Programs are assumed to end: a worker that  *)
(* keeps getting the CPU calls Exit.                                        *)
Uninterrupted == WakeNext \/ JoinResume \/ ExitDetach \/ ExitSchedule
                 \/ ReaperCheck \/ InterruptReturn

Fairness ==
  /\ WF_vars(Uninterrupted)
  /\ SF_vars(ReaperYield) /\ SF_vars(ReaperDispose)
  /\ SF_vars(current = Idle /\ Yield)
  /\ \A t \in Workers :
       /\ SF_vars(current = t /\ Start)
       /\ SF_vars(current = t /\ Exit)
       /\ SF_vars(current = t /\ DestructorDone)

FairSpec == Spec /\ Fairness

(* The reaper frees every thread given to it. *)
DeadAreFreed ==
  \A t \in Workers : On(t, {Grave, Taken}) /\ pc[t] = "zombie" ~> pc[t] = "none"

(* An owner waiting in Join gets the child's exit code, whatever preempts   *)
(* either of them.                                                          *)
JoinReturns ==
  \A t \in Workers : pc[t] = "join" ~> pc[t] = "body"
-----------------------------------------------------------------------------
(* The inductive invariant.  What the code positions imply: *)
Roles ==
  /\ pc[Idle] = "body"
  /\ pc[Reaper] \in {"check", "taken", "dispose"}
  /\ \A t \in Workers : pc[t] \notin {"check", "taken", "dispose"}
  /\ pc[current] \notin {"none", "new", "zombie"}
  /\ inIRQ => pc[current] \in OpenPC

CodeAt(t) ==
  /\ pc[t] \in {"exit", "gone"} => t = current
  /\ pc[t] = "start" => arg[t] \in Workers /\ pc[arg[t]] = "new"
  /\ pc[t] = "join" => arg[t] \in Workers /\ owner[arg[t]] = t /\ held[arg[t]] = "owned"
  /\ alive[t] <=> pc[t] \notin {"none", "destructor", "exit", "gone", "zombie"}

OneStarter ==
  \A t, u \in Thread : pc[t] = "start" /\ pc[u] = "start" /\ arg[t] = arg[u] => t = u

CodeInv == Roles /\ OneStarter /\ \A t \in Thread : CodeAt(t)

(* What the references imply: *)
RefAt(t) ==
  /\ refCount[t] = (IF pc[t] \in {"none", "gone", "zombie"} THEN 0 ELSE 1)
                   + (IF held[t] = "none" THEN 0 ELSE 1)
  /\ held[t] # "none" => pc[t] # "none"

RefInv == \A t \in Thread : RefAt(t)

(* Where the threads are linked: *)
Unlinked(t) == \A q \in Queues : ~Contains(queues[q], t)

CurrentInv ==
  /\ pc[current] # "gone" => Unlinked(current)
  /\ ~blocked[current]
  /\ ~Contains(queues[Taken], current)

FreshAt(t) == pc[t] \in {"none", "new"} => Unlinked(t) /\ ~blocked[t]

GraveAt(t) ==
  Contains(queues[Grave], t) \/ Contains(queues[Taken], t)
    <=> pc[t] \in {"gone", "zombie"} /\ refCount[t] = 0

BlockedAt(t) == blocked[t] <=> On(t, WaitQs)

ReadyAt(t) == Live(t) /\ t # current /\ ~blocked[t] <=> On(t, RunQs)

LevelAt(t) ==
  \A i \in Levels : Contains(queues[RunQ(i)], t) =>
    level[t] = i /\ i < maxLevel /\ (t = Idle => i = maxLevel - 1)

WaiterAt(t) ==
  /\ Contains(queues[ReaperQ], t) => t = Reaper /\ pc[t] = "check"
  /\ Contains(queues[EventQ], t) => t \in Workers /\ pc[t] = "body"
  /\ \A c \in Thread : Contains(queues[JoinQ(c)], t) =>
       /\ t \in Workers /\ pc[t] = "join" /\ arg[t] = c
       /\ alive[c] \/ pc[c] = "destructor" \/ waking = JoinQ(c)

WhereInv ==
  /\ CurrentInv
  /\ \A t \in Thread : /\ FreshAt(t) /\ GraveAt(t) /\ BlockedAt(t)
                       /\ ReadyAt(t) /\ LevelAt(t) /\ WaiterAt(t)

(* What a Wake_Up in progress and the reaper's batch imply: *)
WakeInv ==
  /\ waking # NoQueue => queues[waking] # << >>
  /\ \A c \in Thread : waking = JoinQ(c) => pc[c] = "exit"
  /\ pc[Reaper] \in {"taken", "dispose"} => queues[Taken] # << >>
  /\ pc[Reaper] = "check" => queues[Taken] = << >>

IInv ==
  /\ TypeOK /\ LinkExclusive /\ CodeInv /\ RefInv /\ WhereInv /\ WakeInv
  /\ CriticalIsWorker /\ NoPanic
=============================================================================
