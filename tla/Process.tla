------------------------------- MODULE Process -------------------------------
(***************************************************************************)
(* Processes and what the processor uses for them: Spawn builds a user      *)
(* context with a page directory and an entry of the global descriptor      *)
(* table, every switch to a thread that has a context loads them, and the    *)
(* reaper gives them back.  A kernel thread has no context: it runs on       *)
(* whatever was loaded last, which may be that of a process that is dead.    *)
(*                                                                         *)
(* All of it runs with interrupts enabled but for Exit, the end of a Join,   *)
(* and the two operations on the table: any other thread may come between    *)
(* two steps.  Scheduling is in KThread and the pages of a program in        *)
(* Paging; here a thread that may run is switched to at any time.            *)
(***************************************************************************)
EXTENDS Integers, FiniteSets, FiniteSetsExt

CONSTANTS
  Procs, Shell,   (* processes, and the one that Main spawns                   *)
  Kernel, Reaper, (* a kernel thread that always may run, and the reaper       *)
  NumEntries,     (* entries of the GDT that the kernel leaves to processes    *)
  NumFrames,      (* page frames there are, one for the kernel's directory     *)
  None

Entries    == 1..NumEntries
Frames     == 1..NumFrames
KernelDir  == 0
AllThreads == Procs \cup {Kernel, Reaper}
NoContext  == [dir |-> 0, descriptor |-> 0, refCount |-> 0]

VARIABLES
  current,        (* g_currentThread                                          *)
  at,             (* where each thread of a process is                         *)
  child,          (* the process that each one spawns                          *)
  exe,            (* the processes that have an executable in a buffer          *)
  context,        (* userContext of each thread                                *)
  threadPage,     (* the frame with the thread object of each process          *)
  owner, refs,    (* owner and refCount of each thread                         *)
  gdt,            (* the entries of s_GDT with avail set, and s_numAllocated    *)
  freeFrames,     (* page frames that are free                                *)
  pages,          (* other frames that each process has                        *)
  graveyard,      (* s_graveyardQueue, and what the reaper took from it         *)
  dying,          (* the process the reaper is destroying, and how far it is    *)
  cpu,            (* page directory, LDT and kernel stack the processor uses   *)
  crashed         (* an assertion failed or the next access is undefined       *)

threadVars == <<at, child, owner, refs, threadPage>>
spaceVars  == <<context, gdt, freeFrames, pages, exe>>
reaperVars == <<graveyard, dying>>
vars == <<current, threadVars, spaceVars, reaperVars, cpu, crashed>>

Nobody == [proc |-> None, stage |-> "none"]

-----------------------------------------------------------------------------
(* The descriptor table *)

(* The entries that are left when the kernel has its own.                          *)
Init_GDT == [avail |-> Entries, numAllocated |-> 0]

(* Mutant of Allocate_Segment_Descriptor: the entry stays available.              *)
LookForDescriptor(table) ==
  [entry |-> Min(table.avail), table |-> [table EXCEPT !.numAllocated = @ + 1]]

(* The first entry that is available, of which there is one.                      *)
Allocate_Segment_Descriptor(table) ==
  LET i == Min(table.avail)
  IN [entry |-> i, table |-> [avail |-> table.avail \ {i}, numAllocated |-> table.numAllocated + 1]]

Free_Segment_Descriptor(table, i) ==
  [avail |-> table.avail \cup {i}, numAllocated |-> table.numAllocated - 1]

-----------------------------------------------------------------------------
(* Main has spawned the shell, whose page directory and thread have a frame each.*)
Init ==
  /\ current = Kernel
  /\ at = [p \in Procs |-> IF p = Shell THEN "user" ELSE "none"]
  /\ child = [p \in Procs |-> None]
  /\ exe = {}
  /\ context = [p \in Procs |-> IF p = Shell THEN [dir |-> 1, descriptor |-> 1, refCount |-> 1] ELSE NoContext]
  /\ threadPage = [p \in Procs |-> IF p = Shell THEN 2 ELSE 0]
  /\ owner = [p \in Procs |-> None]
  /\ refs = [p \in Procs |-> IF p = Shell THEN 1 ELSE 0]
  /\ gdt = Allocate_Segment_Descriptor(Init_GDT).table
  /\ freeFrames = Frames \ {1, 2}
  /\ pages = [p \in Procs |-> {}]
  /\ graveyard = [queue |-> {}, taken |-> {}]
  /\ dying = Nobody
  /\ cpu = [space |-> [dir |-> KernelDir, ldt |-> 0], stack |-> None]
  /\ crashed = FALSE

Crash == crashed' = TRUE /\ UNCHANGED <<current, threadVars, spaceVars, reaperVars, cpu>>

-----------------------------------------------------------------------------
(* Switching *)

Runnable(t) == CASE t = Kernel -> TRUE
                 [] t = Reaper -> graveyard.queue \cup graveyard.taken # {} \/ dying # Nobody
                 [] OTHER      -> at[t] \notin {"none", "new", "dead"}

(* The LDT that the context's descriptor leads to, and its page directory.         *)
Switch_To_Address_Space(c) == [dir |-> c.dir, ldt |-> c.descriptor]

(* Mutant of Switch_To_User_Context: only a thread that goes back to user mode    *)
(* gets its context.                                                            *)
SwitchForUserMode(t) ==
  IF t \in Procs /\ at[t] = "user"
  THEN [space |-> Switch_To_Address_Space(context[t]), stack |-> t]
  ELSE cpu

(* A thread without a context leaves the processor as it is.                      *)
Switch_To_User_Context(t) ==
  IF t \in Procs THEN [space |-> Switch_To_Address_Space(context[t]), stack |-> t] ELSE cpu

Switch_To_Thread(t) == current' = t /\ cpu' = Switch_To_User_Context(t)

(* The timer, Yield, or a wait for the disk or a key.                             *)
Preempt ==
  /\ \E t \in AllThreads \ {current} : Runnable(t) /\ Switch_To_Thread(t)
  /\ UNCHANGED <<threadVars, spaceVars, reaperVars, crashed>>

In(p, where)   == current = p /\ at[p] = where
Goto(p, where) == at' = [at EXCEPT ![p] = where]

-----------------------------------------------------------------------------
(* Spawn *)

Unused == {q \in Procs : at[q] = "none" /\ \A p \in Procs : child[p] # q}

Sys_Spawn(p) ==
  /\ In(p, "user")
  /\ \E q \in Unused : child' = [child EXCEPT ![p] = q] /\ at' = [at EXCEPT ![p] = "read", ![q] = "new"]
  /\ UNCHANGED <<current, owner, refs, threadPage, spaceVars, reaperVars, cpu, crashed>>

(* Read_Fully fails when there is no such file, no memory or a transfer fails, and  *)
(* then leaves no file open and no buffer behind.  Parse_ELF_Executable never fails. *)
Read_Fully(p) ==
  /\ In(p, "read")
  /\ \/ /\ at' = [at EXCEPT ![p] = "user", ![child[p]] = "none"]
        /\ child' = [child EXCEPT ![p] = None]
        /\ exe' = exe
     \/ /\ Goto(p, "load") /\ exe' = exe \cup {p} /\ UNCHANGED child
  /\ UNCHANGED <<current, owner, refs, threadPage, context, gdt, freeFrames, pages, reaperVars, cpu, crashed>>

(* Load_User_Program: a page directory whose kernel half is the one in use.  What    *)
(* Alloc_Page returns is not looked at.                                            *)
NewDirectory(p) ==
  /\ In(p, "load")
  /\ IF freeFrames = {} THEN Crash
     ELSE /\ \E f \in freeFrames : /\ freeFrames' = freeFrames \ {f}
                                   /\ context' = [context EXCEPT ![child[p]].dir = f]
          /\ Goto(p, "context")
          /\ UNCHANGED <<current, child, owner, refs, threadPage, gdt, pages, exe, reaperVars, cpu, crashed>>

(* The context and its descriptor: neither Malloc nor the table is asked whether     *)
(* there was one.                                                                  *)
NewContext(p) ==
  LET new == Allocate_Segment_Descriptor(gdt) IN
  /\ In(p, "context")
  /\ \/ Crash
     \/ /\ gdt.avail # {}
        /\ gdt' = new.table
        /\ context' = [context EXCEPT ![child[p]].descriptor = new.entry]
        /\ Goto(p, "start")
        /\ UNCHANGED <<current, child, owner, refs, threadPage, freeFrames, pages, exe, reaperVars, cpu, crashed>>

(* Attach_User_Context: a context has one thread.                                  *)
Attach_User_Context(c) == c.refCount = 0 /\ context' = [context EXCEPT ![child[current]] = [c EXCEPT !.refCount = 1]]

(* The buffer is freed, and Start_User_Thread attaches the context to a new thread  *)
(* and makes it runnable.  Without memory for the thread its name is copied to null; *)
(* and Sys_Spawn has never set where the pointer to the thread is stored.           *)
Start_User_Thread(p) ==
  LET q == child[p] IN
  /\ In(p, "start")
  /\ \/ Crash
     \/ /\ freeFrames # {}
        /\ \E f \in freeFrames : /\ freeFrames' = freeFrames \ {f}
                                 /\ threadPage' = [threadPage EXCEPT ![q] = f]
        /\ Attach_User_Context(context[q])
        /\ \E detached \in BOOLEAN :
             /\ refs' = [refs EXCEPT ![q] = IF detached THEN 1 ELSE 2]
             /\ owner' = [owner EXCEPT ![q] = IF detached THEN None ELSE p]
        /\ at' = [at EXCEPT ![p] = "name", ![q] = "user"]
        /\ exe' = exe \ {p}
        /\ UNCHANGED <<current, child, gdt, pages, reaperVars, cpu, crashed>>

(* The name is copied into the thread's page, which may not be that any more when    *)
(* a detached process has ended by now.                                            *)
NameThread(p) ==
  /\ In(p, "name")
  /\ \/ at[child[p]] = "none" /\ Crash
     \/ /\ child' = [child EXCEPT ![p] = None]
        /\ Goto(p, "user")
        /\ UNCHANGED <<current, owner, refs, threadPage, spaceVars, reaperVars, cpu, crashed>>

(* A page fault, or a call that takes memory.                                      *)
TakePage(p) ==
  /\ In(p, "user")
  /\ \E f \in freeFrames : freeFrames' = freeFrames \ {f} /\ pages' = [pages EXCEPT ![p] = @ \cup {f}]
  /\ UNCHANGED <<current, threadVars, context, gdt, exe, reaperVars, cpu, crashed>>

-----------------------------------------------------------------------------
(* The end of a process *)

(* One reference less; the last one puts the thread on the graveyard.                *)
Detach_Thread(q) ==
  /\ refs' = [refs EXCEPT ![q] = @ - 1]
  /\ graveyard' = IF refs[q] = 1 THEN [graveyard EXCEPT !.queue = @ \cup {q}] ELSE graveyard

(* Exit goes to another thread at once; the reaper may be the one.  With the shell   *)
(* everything ends: it stays.                                                      *)
Exit(p) ==
  /\ In(p, "user") /\ p # Shell
  /\ Goto(p, "dead")
  /\ Detach_Thread(p)
  /\ \E t \in AllThreads \ {p} :
       (Runnable(t) \/ (t = Reaper /\ graveyard'.queue # {})) /\ Switch_To_Thread(t)
  /\ UNCHANGED <<child, owner, threadPage, spaceVars, dying, crashed>>

(* The owner joins a child that has ended.                                          *)
Join(p) ==
  /\ In(p, "user")
  /\ \E q \in Procs :
       /\ owner[q] = p /\ at[q] = "dead"
       /\ Detach_Thread(q)
       /\ owner' = [owner EXCEPT ![q] = None]
  /\ UNCHANGED <<current, at, child, threadPage, spaceVars, dying, cpu, crashed>>

(* Reaper: all there are, then one after the other.                                  *)
TakeGraveyard ==
  /\ current = Reaper /\ graveyard.taken = {} /\ dying = Nobody /\ graveyard.queue # {}
  /\ graveyard' = [queue |-> {}, taken |-> graveyard.queue]
  /\ UNCHANGED <<current, threadVars, spaceVars, dying, cpu, crashed>>

(* Detach_User_Context.                                                            *)
DetachContext ==
  /\ current = Reaper /\ dying = Nobody
  /\ \E q \in graveyard.taken :
       /\ graveyard' = [graveyard EXCEPT !.taken = @ \ {q}]
       /\ dying' = [proc |-> q, stage |-> "pages"]
       /\ context' = [context EXCEPT ![q].refCount = 0]
  /\ UNCHANGED <<current, threadVars, gdt, freeFrames, pages, exe, cpu, crashed>>

Destroys(stage) == current = Reaper /\ dying.stage = stage

(* Destroy_User_Context: the pages of the program and then the directory, ...        *)
FreeMemory ==
  LET q == dying.proc IN
  /\ Destroys("pages")
  /\ freeFrames' = freeFrames \cup pages[q] \cup {context[q].dir}
  /\ pages' = [pages EXCEPT ![q] = {}]
  /\ context' = [context EXCEPT ![q].dir = 0]
  /\ dying' = [dying EXCEPT !.stage = "descriptor"]
  /\ UNCHANGED <<current, threadVars, gdt, exe, graveyard, cpu, crashed>>

(* ... and the descriptor, which has to be one that is allocated; ...                *)
FreeDescriptor ==
  LET q == dying.proc   i == context[q].descriptor IN
  /\ Destroys("descriptor")
  /\ IF i \in gdt.avail THEN Crash
     ELSE /\ gdt' = Free_Segment_Descriptor(gdt, i)
          /\ context' = [context EXCEPT ![q] = NoContext]
          /\ dying' = [dying EXCEPT !.stage = "thread"]
          /\ UNCHANGED <<current, threadVars, freeFrames, pages, exe, graveyard, cpu, crashed>>

(* ... Destroy_Thread then frees the thread itself.  That a child's owner may now     *)
(* be a page of somebody else is KThread's.                                          *)
FreeThread ==
  LET q == dying.proc IN
  /\ Destroys("thread")
  /\ freeFrames' = freeFrames \cup {threadPage[q]}
  /\ threadPage' = [threadPage EXCEPT ![q] = 0]
  /\ Goto(q, "none")
  /\ owner' = [p \in Procs |-> IF q \in {p, owner[p]} THEN None ELSE owner[p]]
  /\ dying' = Nobody
  /\ UNCHANGED <<current, child, refs, context, gdt, pages, exe, graveyard, cpu, crashed>>

Spawning(p) == Sys_Spawn(p) \/ Read_Fully(p) \/ NewDirectory(p) \/ NewContext(p)
               \/ Start_User_Thread(p) \/ NameThread(p)
Reaping     == TakeGraveyard \/ DetachContext \/ FreeMemory \/ FreeDescriptor \/ FreeThread

Next == ~crashed /\ (\/ Preempt \/ Reaping
                     \/ \E p \in Procs : Spawning(p) \/ TakePage(p) \/ Exit(p) \/ Join(p))

Spec == Init /\ [][Next]_vars

-----------------------------------------------------------------------------
(* Properties *)

Built == {q \in Procs : context[q].descriptor # 0}

(* A process runs, in the kernel as in user mode, on its own page directory,        *)
(* descriptor and stack; and while a kernel thread runs on those of a process that   *)
(* has been destroyed, the directory is not given to anybody, nor a descriptor to    *)
(* two contexts: memory is taken by processes alone (lowlevel.asm:400, user.c:152,   *)
(* uservm.c:125, gdt.c:48).                                                       *)
RunsOnItsOwn ==
  ~crashed =>
    /\ current \in Procs =>
         cpu = [space |-> Switch_To_Address_Space(context[current]), stack |-> current]
    /\ cpu.space.dir \in freeFrames \cup {KernelDir} \cup {context[p].dir : p \in Procs}
    /\ \A p, q \in Built : context[p].descriptor = context[q].descriptor => p = q
    /\ gdt.numAllocated = Cardinality(Built) /\ Cardinality(gdt.avail) = NumEntries - gdt.numAllocated
=============================================================================
