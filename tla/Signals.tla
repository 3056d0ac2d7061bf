------------------------------- MODULE Signals -------------------------------
(***************************************************************************)
(* Signals and the alarm: signal.c, the alarm of timer.c, and the system   *)
(* calls of syscall.c that send, handle and wait.                          *)
(*                                                                         *)
(* A process has room for one pending signal.  The way back to it from an  *)
(* interrupt, a system call or the scheduler looks at that signal first;   *)
(* in kernel code it is taken only by a process that has been on a wait    *)
(* queue, whose system call is then abandoned.  System calls run with      *)
(* interrupts disabled except where they wait.                             *)
(*                                                                         *)
(* A process waits for a child to die or for an event such as a key.  Its  *)
(* program does what it likes, its handlers too, so a frame on the user    *)
(* stack is only counted.                                                  *)
(***************************************************************************)
EXTENDS Integers, Sequences, SequencesExt, FiniteSets

CONSTANTS
  Procs,        (* the processes                                             *)
  First,        (* the one that is there at the start                         *)
  NoProc,       (* no process, or a kernel thread                             *)
  Sigs,         (* the signals                                                *)
  ALRM, NoSig,
  MaxTicks,     (* bound: the longest alarm                                   *)
  MaxFrames     (* bound: handlers that interrupted one another               *)

ASSUME SignalsAssumption ==
  /\ First \in Procs /\ NoProc \notin Procs
  /\ ALRM \in Sigs /\ NoSig \notin Sigs
  /\ MaxTicks \in Nat /\ MaxFrames \in Nat

Event  == "event"
Queues == Procs \cup {Event}      (* p stands for the joinQueue of p         *)
NoQueue == "none"
NoEvent == [pid |-> NoProc, ticks |-> 0]

VARIABLES
  place,      (* "unborn", "user", "kernel", "blocked", "dead", "detached",   *)
              (* "freed": what the process is doing, or has become           *)
  call,       (* the queue its system call waits on                          *)
  waitQueue,  (* the field of that name: the queue it last waited on         *)
  queue,      (* the wait queues                                             *)
  signal,     (* userContext->signal                                         *)
  handler,    (* the signals that have a handler: saHandler is not null       *)
  frames,     (* the handlers that have not returned                         *)
  asleep,     (* the pending signal was sent while the process was blocked    *)
  owner,      (* the owner of each process                                   *)
  refCount,
  alarm,      (* pendingTimerEvents[0]                                       *)
  broken      (* a null pointer was used, or freed memory, or a KASSERT failed *)

runVars == <<place, call, waitQueue, queue>>
sigVars == <<signal, handler, frames, asleep>>
refVars == <<owner, refCount>>
vars == <<runVars, sigVars, refVars, alarm, broken>>

TypeOK ==
  /\ place \in [Procs -> {"unborn", "user", "kernel", "blocked", "dead", "detached", "freed"}]
  /\ call \in [Procs -> Queues \cup {NoQueue}]
  /\ waitQueue \in [Procs -> Queues \cup {NoQueue}]
  /\ queue \in [Queues -> Seq(Procs)]
  /\ signal \in [Procs -> Sigs \cup {NoSig}]
  /\ handler \in [Procs -> SUBSET Sigs]
  /\ frames \in [Procs -> 0..MaxFrames]
  /\ asleep \in [Procs -> BOOLEAN]
  /\ owner \in [Procs -> Procs \cup {NoProc}]
  /\ refCount \in [Procs -> -1..2]
  /\ alarm \in [pid : Procs \cup {NoProc}, ticks : 0..MaxTicks]
  /\ broken \in BOOLEAN

Init ==
  /\ place = [p \in Procs |-> IF p = First THEN "user" ELSE "unborn"]
  /\ call = [p \in Procs |-> NoQueue] /\ waitQueue = [p \in Procs |-> NoQueue]
  /\ queue = [q \in Queues |-> <<>>]
  /\ signal = [p \in Procs |-> NoSig]
  /\ handler = [p \in Procs |-> {}]
  /\ frames = [p \in Procs |-> 0]
  /\ asleep = [p \in Procs |-> FALSE]
  /\ owner = [p \in Procs |-> NoProc]
  /\ refCount = [p \in Procs |-> IF p = First THEN 2 ELSE 0]
  /\ alarm = NoEvent
  /\ broken = FALSE

Break == broken' = TRUE /\ UNCHANGED <<runVars, sigVars, refVars, alarm>>

Alive(p) == place[p] \in {"user", "kernel", "blocked"}

-----------------------------------------------------------------------------
(* Waking and waiting *)

(* The processes of the all-thread list.                                      *)
Listed == {p \in Procs : place[p] \notin {"unborn", "freed"}}

MakeRunnable(woken) ==
  place' = [p \in Procs |-> IF p \in woken THEN "kernel" ELSE place[p]]

Wake_Up(q) == /\ MakeRunnable(ToSet(queue[q]))
              /\ queue' = [queue EXCEPT ![q] = <<>>]

Wake_Up_Process(p) == /\ MakeRunnable({p})
                      /\ queue' = [queue EXCEPT ![waitQueue[p]] = Remove(@, p)]

(* Wait puts the caller on the queue and remembers which queue it was.        *)
Wait(p, q) == /\ place' = [place EXCEPT ![p] = "blocked"]
              /\ queue' = [queue EXCEPT ![q] = Append(@, p)]
              /\ waitQueue' = [waitQueue EXCEPT ![p] = q]

Return(p) == /\ place' = [place EXCEPT ![p] = "user"]
             /\ call' = [call EXCEPT ![p] = NoQueue]

-----------------------------------------------------------------------------
(* Delivery *)

(* Mutant of Check_Pending_Signal: only on the way to user mode.              *)
Check_In_User_Mode(p) == signal[p] # NoSig /\ place[p] = "user"

(* Check_Pending_Signal: a pending signal is taken on the way to user mode,   *)
(* and in the kernel by a process that has waited.                            *)
Check_Pending_Signal(p) ==
  /\ signal[p] # NoSig
  /\ place[p] = "user" \/ (place[p] = "kernel" /\ waitQueue[p] # NoQueue)

(* Code of a process runs only when it has no signal to take.                 *)
Executes(p, where) == ~broken /\ place[p] = where /\ ~Check_Pending_Signal(p)

(* Setup_Frame: whatever system call the process was in, it runs the handler  *)
(* and will go on after the system call.  A signal that comes before its       *)
(* handler or the trampoline is registered sends the process to a null        *)
(* address: what it executes there is code of its own as good as any, so the  *)
(* two cases are one here.                                                    *)
Setup_Frame(p) ==
  /\ ~broken /\ Check_Pending_Signal(p) /\ frames[p] < MaxFrames
  /\ frames' = [frames EXCEPT ![p] = @ + 1]
  /\ signal' = [signal EXCEPT ![p] = NoSig]
  /\ asleep' = [asleep EXCEPT ![p] = FALSE]
  /\ waitQueue' = [waitQueue EXCEPT ![p] = NoQueue]
  /\ Return(p)
  /\ UNCHANGED <<queue, handler, refVars, alarm, broken>>

(* Sys_ReturnSignal, called by the trampoline when a handler returns.          *)
Complete_Handler(p) ==
  /\ Executes(p, "user") /\ frames[p] > 0
  /\ frames' = [frames EXCEPT ![p] = @ - 1]
  /\ UNCHANGED <<runVars, signal, handler, asleep, refVars, alarm, broken>>

-----------------------------------------------------------------------------
(* Sending *)

(* What Sys_Kill and the timer do to a process, as the current thread cur.    *)
(* Lookup_Thread takes a reference unless cur owns the process; what follows  *)
(* gives one back in any case, since it compares a pid with a pointer (bound: *)
(* below -1 the count is not followed).  The process may have no user context *)
(* any more.                                                                  *)
Send_Signal(cur, p, s) ==
  IF p \notin Listed \/ place[p] = "detached"
  THEN broken' = TRUE /\ UNCHANGED <<runVars, sigVars, refVars>>
  ELSE /\ signal' = [signal EXCEPT ![p] = s]
       /\ asleep' = [asleep EXCEPT ![p] = place[p] = "blocked"]
       /\ refCount' = [refCount EXCEPT ![p] = IF cur \in Procs /\ cur = owner[p] /\ @ >= 0
                                                     THEN @ - 1 ELSE @]
       /\ IF place[p] = "blocked"
          THEN Wake_Up_Process(p)
          ELSE UNCHANGED <<queue, place>>
       /\ UNCHANGED <<call, waitQueue, handler, frames, owner, broken>>

Sys_Kill(p, q, s) ==
  /\ Executes(p, "user")
  /\ Send_Signal(p, q, s)
  /\ UNCHANGED alarm

Set_Handler(p, sigs) == handler' = [handler EXCEPT ![p] = @ \cup sigs]

(* One timer event in all: Start_Timer overwrites the one pending.            *)
Start_Timer(p, n) == alarm' = [pid |-> p, ticks |-> n]

Sys_Alarm(p, n) ==
  /\ Executes(p, "user")
  /\ Set_Handler(p, {ALRM})
  /\ Start_Timer(p, n)
  /\ UNCHANGED <<runVars, signal, frames, asleep, refVars, broken>>

CountDown == alarm' = [alarm EXCEPT !.ticks = @ - 1]

(* Mutant of GoOff: the process that is interrupted gets the signal.          *)
GoOffHere(cur) == /\ Send_Signal(cur, IF cur = NoProc THEN alarm.pid ELSE cur, ALRM)
                  /\ alarm' = NoEvent

(* The event has come: its process is signalled, and the event is free.       *)
GoOff(cur) == Send_Signal(cur, alarm.pid, ALRM) /\ alarm' = NoEvent

(* The timer interrupts cur, which may be a kernel thread.                    *)
Timer_Interrupt_Handler(cur) ==
  /\ ~broken /\ alarm # NoEvent
  /\ cur # NoProc => place[cur] \in {"user", "kernel"}
  /\ IF alarm.ticks = 0
     THEN GoOff(cur)
     ELSE CountDown /\ UNCHANGED <<runVars, sigVars, refVars, broken>>

-----------------------------------------------------------------------------
(* Handlers *)

Sys_Signal(p, s) ==
  /\ Executes(p, "user")
  /\ Set_Handler(p, {s})
  /\ UNCHANGED <<runVars, signal, frames, asleep, refVars, alarm, broken>>

Sys_RegDeliver(p) ==
  /\ Executes(p, "user")
  /\ Set_Handler(p, Sigs)
  /\ UNCHANGED <<runVars, signal, frames, asleep, refVars, alarm, broken>>

-----------------------------------------------------------------------------
(* Processes *)

Spawn(p, c) ==
  /\ Executes(p, "user") /\ place[c] = "unborn"
  /\ place' = [place EXCEPT ![c] = "user"]
  /\ owner' = [owner EXCEPT ![c] = p]
  /\ refCount' = [refCount EXCEPT ![c] = 2]
  /\ UNCHANGED <<call, waitQueue, queue, sigVars, alarm, broken>>

(* Sys_Wait, or a system call that waits for an event.  Join uses the result  *)
(* of Lookup_Thread, null or not, and asserts that it is a child's.           *)
EnterWait(p, q) ==
  /\ Executes(p, "user")
  /\ IF q # Event /\ (q \notin Listed \/ owner[q] # p)
     THEN Break
     ELSE /\ place' = [place EXCEPT ![p] = "kernel"]
          /\ call' = [call EXCEPT ![p] = q]
          /\ UNCHANGED <<waitQueue, queue, sigVars, refVars, alarm, broken>>

(* The loop of Join, left when the child is dead.  The reference Join gives   *)
(* back must be there.                                                        *)
JoinWaits(p) ==
  /\ Executes(p, "kernel") /\ call[p] \in Procs /\ Alive(call[p])
  /\ Wait(p, call[p])
  /\ UNCHANGED <<call, sigVars, refVars, alarm, broken>>

JoinReturns(p) ==
  LET c == call[p] IN
  /\ Executes(p, "kernel") /\ c \in Procs /\ ~Alive(c)
  /\ IF place[c] = "freed" \/ refCount[c] <= 0
     THEN Break
     ELSE /\ refCount' = [refCount EXCEPT ![c] = @ - 1]
          /\ Return(p)
          /\ UNCHANGED <<waitQueue, queue, sigVars, owner, alarm, broken>>

(* The loop of Wait_For_Key and its like.                                     *)
EventWaits(p) ==
  /\ Executes(p, "kernel") /\ call[p] = Event
  /\ Wait(p, Event)
  /\ UNCHANGED <<call, sigVars, refVars, alarm, broken>>

EventReturns(p) ==
  /\ Executes(p, "kernel") /\ call[p] = Event
  /\ Return(p)
  /\ UNCHANGED <<waitQueue, queue, sigVars, refVars, alarm, broken>>

EventHappens ==
  /\ ~broken /\ queue[Event] # <<>>
  /\ Wake_Up(Event)
  /\ UNCHANGED <<call, waitQueue, sigVars, refVars, alarm, broken>>

(* Exit; a process that has lost references fails the assertion of             *)
(* Detach_Thread.                                                             *)
Exit(p) ==
  /\ Executes(p, "user")
  /\ IF refCount[p] <= 0
     THEN Break
     ELSE /\ place' = [q \in Procs |-> IF q = p THEN "dead"
                                       ELSE IF q \in ToSet(queue[p]) THEN "kernel" ELSE place[q]]
          /\ queue' = [queue EXCEPT ![p] = <<>>]
          /\ refCount' = [refCount EXCEPT ![p] = @ - 1]
          /\ UNCHANGED <<call, waitQueue, sigVars, owner, alarm, broken>>

(* The reaper: the user context first, and later the thread itself.           *)
Reap(p) ==
  /\ ~broken
  /\ \/ /\ place[p] = "dead" /\ refCount[p] = 0
        /\ place' = [place EXCEPT ![p] = "detached"]
        /\ signal' = [signal EXCEPT ![p] = NoSig]
        /\ asleep' = [asleep EXCEPT ![p] = FALSE]
        /\ handler' = [handler EXCEPT ![p] = {}]
        /\ frames' = [frames EXCEPT ![p] = 0]
     \/ /\ place[p] = "detached"
        /\ place' = [place EXCEPT ![p] = "freed"]
        /\ UNCHANGED sigVars
  /\ UNCHANGED <<call, waitQueue, queue, refVars, alarm, broken>>

(* What the kernel does after using a null or stale pointer is not said.      *)
Halted == broken /\ UNCHANGED vars

-----------------------------------------------------------------------------
Step(p) == Setup_Frame(p) \/ JoinWaits(p) \/ JoinReturns(p) \/ EventWaits(p)

Next ==
  \/ \E p \in Procs : \/ Step(p) \/ Complete_Handler(p) \/ EventReturns(p)
                      \/ Sys_RegDeliver(p) \/ Exit(p) \/ Reap(p)
                      \/ \E s \in Sigs : Sys_Signal(p, s) \/ \E q \in Procs : Sys_Kill(p, q, s)
                      \/ \E n \in 0..MaxTicks : Sys_Alarm(p, n)
                      \/ \E c \in Procs : Spawn(p, c)
                      \/ \E q \in Queues : EnterWait(p, q)
  \/ \E cur \in Procs \cup {NoProc} : Timer_Interrupt_Handler(cur)
  \/ EventHappens
  \/ Halted

Spec == Init /\ [][Next]_vars

(* Runnable processes get the processor (KThread), and the timer ticks.       *)
FairSpec == /\ Spec
            /\ \A p \in Procs : WF_vars(Step(p))
            /\ WF_vars(\E cur \in Procs \cup {NoProc} : Timer_Interrupt_Handler(cur))

-----------------------------------------------------------------------------
(* Properties *)

(* A signal ends a wait: sent to a blocked process it is handled, although    *)
(* what the process waits for does not happen (Check_Pending_Signal takes the *)
(* signal in kernel mode, before the loop around Wait tests its condition).   *)
SignalEndsWait == \A p \in Procs : asleep[p] ~> (~asleep[p] \/ frames[p] = MaxFrames \/ broken)

(* An alarm goes off: its event is not freed before the process that set it   *)
(* has the signal.  Sys_Alarm may put the event off for ever, and another     *)
(* process's takes it away (Start_Timer has one slot and asks nobody): what   *)
(* is lost so is not claimed.                                                 *)
AlarmGoesOff ==
  \/ \A p \in Procs : alarm.pid = p ~> \/ alarm = NoEvent /\ signal[p] = ALRM
                                       \/ alarm.pid \notin {p, NoProc}
                                       \/ broken
  \/ []<><<\E p \in Procs, n \in 0..MaxTicks : Sys_Alarm(p, n)>>_alarm
=============================================================================
