# A formal model of the GeekOS kernel

This directory holds TLA+ modules that model the kernel in `src/src/geekos` and
`src/include/geekos`, and parts of the user library in `src/src/libc` and
`src/src/common` (paths below are relative to the first of them where it is
clear), TLC configurations that check them on small instances, and theorems
proved with TLAPS.

## 1. The system

GeekOS is a small teaching kernel for one 80386 CPU.  Kernel threads are
scheduled preemptively; a user process is a kernel thread with a user context.
There is one CPU, so what runs concurrently is threads, wherever the timer may
preempt one, and interrupt handlers, wherever interrupts are enabled.  The code
protects its data in three ways: interrupts disabled (threads, run queues,
waiting and waking, system calls except where they wait), preemption disabled
(`g_preemptionDisabled`: the fields of a mutex), and mutexes (devices, buffer
cache, file systems).  A failed `KASSERT` stops the kernel.

| component | state | operations | hard behaviour | module |
|---|---|---|---|---|
| threads, scheduler (`kthread.c`, `timer.c`, `lowlevel.asm`) | run queues, graveyard, reaper's and join queues, one link, reference count, owner, level and flags per thread, policy | create, start, yield, preempt, wait, wake, exit, join, reap, change policy | preemption anywhere, a thread that exits on its own stack, two owners of one object, a policy change while threads are queued | `KThread` |
| mutexes, conditions, semaphore operations (`synch.c`) | owner, wait queue, count | lock, unlock, wait, signal, broadcast, P, V | lost wakeups, barging | `Synch` |
| semaphore table (`synch.c`, `syscall.c`) | list of semaphores, reference counts, list per process | create, find, destroy, clean up after a process | destruction in use, counts that start from leftovers | `SemTable` |
| signals and alarms (`signal.c`, `timer.c`, `syscall.c`) | one pending signal and handlers per process, one timer event | kill, register, deliver, return, alarm | a signal to a blocked or dying process, references | `Signals` |
| processes (`user.c`, `uservm.c`, `gdt.c`, `argblock.c`) | user context, descriptor, page directory in use | spawn, switch, end, destroy | tear-down by the reaper under another thread | `Process`, `CommandLine` |
| memory (`mem.c`, `paging.c`, `uservm.c`) | page list, page flags, page tables, bitmap of the paging file | allocate, free, fault, page out, page in, load, take down | eviction waits for the disk with the page in between | `Paging` |
| heap (`bget.c`, `malloc.c`) | blocks with their lengths, free list | allocate, clear, reallocate, free | boundaries, merging | `Heap` |
| block devices (`blockdev.c`, `ide.c`, `floppy.c`) | device list, one request queue per driver, state of each request | open, close, read, write | requester and driver thread, error paths | `BlockDev` |
| buffer cache (`bufcache.c`) | buffers: block, data, DIRTY, INUSE, LRU order | get, modify, release, sync | blocking I/O on a shared buffer | `BufCache` |
| VFS (`vfs.c`, `syscall.c`) | mount list, paging device, working directories, file tables | mount, format, open, close, change directory | failure after part of the work, sharing between processes | `VFS` |
| PFAT (`pfat.c`) | shared file objects, valid blocks | open, read, seek, close | two readers of one cache of blocks | `PFAT` |
| GOSFS (`gosfs.c`) | bitmap, directory blocks | look up, open, create, list, stat, delete, change directory | several steps that must all happen, another process between them | `GOSFS` |
| keyboard (`keyboard.c`) | shift state, ring of key codes, wait queue | interrupt, read, wait | full ring, interrupt against reader | `Keyboard` |
| screen, printf (`screen.c`, `fmtout.c`) | cursor, attribute, state of an escape sequence; state of a format | print, place the cursor | missing and surplus arguments, flags that contradict | `Screen`, `Format` |
| shell and library (`shell.c`, `conio.c`, `history.c`, `process.c`) | line, ring of commands, path | edit, recall, parse, find, spawn, wait | both ends of line and ring | `LineEditor`, `CommandLine` |
| bit sets (`bitset.c`) | the bits | set, clear, find one or a run | boundaries | `BitSet` |

What a component has to get right is listed in `PROJECT.json` under `hazards`,
each at its line; the properties are aimed at those.

## 2. The modules

Each module that other modules rest on is shown to implement an abstract one,
and the next layer is built on the abstract one's promise: a mutex excludes
(`Synch`, which implements `AbstractSemaphore`), so `BufCache`, `VFS` and `PFAT`
treat what runs under a mutex as atomic between two points where it waits;
`BlockDev` implements `AbstractDisk`, whose operations take effect at one
instant, so `BufCache` and `Paging` transfer in one step; `BufCache` implements
`AbstractCache`, so in `GOSFS` a buffer is what keeps others out of a block; and
`KThread` shows that threads get the CPU, which the others assume.

Every module states its bounds and inputs as CONSTANTS, those with a proof
with one named assumption; the assumptions of `VFS`, `PFAT`, `Process` and
`Keyboard` are in `Objects` and those of `Heap` and `BitSet` in `Memory`, where their constants
get values or other names.  The `MC...` modules give small sets, the `.cfg` files
choose among them.  Operators called `Mutant of ...` in a comment are variants
of the definition after them with one plausible mistake; they belong to no
specification and show that a property notices the mistake.

Three runs check several small modules each.  `Memory` composes `Paging`,
`Heap` and `BitSet`; `Objects` composes `SemTable`, `VFS`, `PFAT`, `Process`, `Keyboard`
and `LineEditor`;
theorems are stated about these two, and `MCMemory` and `MCObjects` give them
values.  `MCConsole` composes what only TLC checks: `Screen`, `Format`
and `CommandLine`.  The parts of each share no state in the code, so nothing is gained by
interleaving them: the part that moves is chosen in the initial state, and each
behaviour is one of that part alone.

Where the code has no answer (a null pointer used, memory used after it was
freed, a failed `KASSERT`) the step that meets it sets `broken` (`crashed` in
`Process`, `ruined` in `PFAT`), after which nothing more happens, or the machine
only stutters.  These states are part of the model; section 4 lists those that
runs reach.  `BuffersApart` says that the heap never gets there (`misused` in
`Memory`).

### KThread

A member of `Thread` is a page that may hold a thread object.  `pc` says where
the thread's kernel code stands; code with interrupts disabled is one action,
except that each iteration of `Wake_Up` is a `WakeNext` and nothing can come
between.  `queues` holds every list a thread's one link can be on.

| in the module | in the code |
|---|---|
| `Create`, `Start` | `Create_Thread`, `Make_Runnable_Atomic` with a preemption between |
| `Join`, `JoinResume`, `Detach` | `Join`, `Detach_Thread`, `Reap_Thread` |
| `Exit`, `DestructorDone`, `ExitDetach`, `ExitSchedule` | `Exit` |
| `ReaperCheck`, `ReaperYield`, `ReaperDispose` | `Reaper`, `Destroy_Thread` |
| `Block`, `WakeAll`, `WakeOne` | any caller of `Wait`, `Wake_Up`, `Wake_Up_One` |
| `SetPreemption` | the sections of `g_preemptionDisabled` |
| `SetSchedulingPolicy` | `Sys_SetSchedulingPolicy`, `Switch_To_RR`, `Switch_To_MLF` |
| `TimerInterrupt`, `DeviceInterrupt`, `InterruptReturn` | the handlers and `Handle_Interrupt` |

`held` is a history variable: whether the reference Join will drop still
exists, and whether its owner does.  `Waitable` says for which children a
process calls wait: only its own (`owned`, the runs and the theorems),
ones already waited for (`none`) or left behind by an earlier thread in the same
page (`orphan`); what happens with the last two is in section 4.
`numTicks` saturates at `TickCap`, which loses nothing as long as every quantum
is at most `TickCap + 1`.

### Synch

Interrupts stay enabled in `synch.c`; what protects a mutex is
`g_preemptionDisabled`.  So every access to a field is a step and `Preempt` may
come between any two steps at which preemption is enabled.  `pc` follows
`Mutex_Lock`, `Cond_Wait`, `Cond_Broadcast` and `Mutex_Unlock` as P and V call
them.  Which ready process gets the CPU is left open.  The refinement maps `count` to
the abstract units, and `done` to the steps after the change of the count.

### BlockDev

A client's request is queued, taken by the driver's thread, transferred and
notified.  `Post` is `Create_Request` with the first half of
`Post_Request_And_Wait`, `AwaitCompletion` its loop and the release of the
request in `Do_Request`; `DequeueRequest` and `NotifyCompletion` are the functions of
those names.  `IDETransfer` polls the drive with interrupts disabled; the floppy
driver seeks up to four times and waits for an interrupt after each command.
Transfers of drives in `Faulty` may fail, a write then with or without effect.

### BufCache

`Lock` actions start a function when the mutex is free, `Step` actions go on
under it; every sector transferred is a step, and so is every change by the
user of a buffer, which takes no mutex.  The list order is the LRU order.
`GetLRU` leaves the block number of the stolen buffer alone, as the code does.
`Failures` chooses which operations may fail, `SyncsCache` whether the threads
call `Sync_FS_Buffer_Cache`.

### Paging

`pte`, `page`, `freeList`, `mem`, `swap` and `swapMap` are the page table entries,
`struct Page`, the list of free pages, the contents of frames and of the paging
file, and its bitmap.  Contents are not data: `<<p, v>>` is what page `v` of `p`
should hold, everything else is `Debris`, so keeping contents is a state
predicate.  `job` is what a process does between two transfers.

| in the module | in the code |
|---|---|
| `Page_Fault_Handler`, `Alloc_Pageable_Page`, `AfterAllocation`, `MapPage`, `PagedIn`, `Die` | the handler, up to, between and after its transfers |
| `Write_To_Paging_File`, `PagedOut`, `Read_From_Paging_File` | eviction and its reversal |
| `Load_User_Program`, `LoadPage`, `CopyIn`, `Start_User_Thread` | the address space of a new process, a page at a time |
| `DestroyPage`, `DestroyTables` | `Destroy_User_Context`, by the reaper |
| `Store`, `Exit`, `Sys_Wait` | what a program does |

`Concurrent` says whether a parent runs beside its child (`b &` in the shell) or
waits for it.  A process has all its page tables from the start and loses them in
one step: the table a fault elsewhere would allocate (`paging.c:115`) is left
out, the stack's is taken before the pages of the image instead of after them
(`uservm.c:275`), and tables are not freed one by one (`uservm.c:123`).

### Heap

`heap` holds the headers of the pool by address and the order of the free list,
so a walk over neighbours reads what the code reads; links of the free list are
the order of `free`, and `Unlink` takes a block out of it.  `Malloc`, `Calloc`,
`Realloc` and `Free` are `bget`, `bgetz`, `bgetr` and `brel` with best fit,
splitting from the end of a free block, and merging with both neighbours; an address counts words.

### Signals

`Check_Pending_Signal` decides on the way back to a process; `Setup_Frame` and
`Complete_Handler` enter and leave a handler.  A process that is blocked when it
is signalled leaves its queue, and its system call is abandoned with it:
`JoinWaits`, `EventWaits` and their returns are the two waits of system calls.
`Sys_Kill` and the timer take and drop references as the code does, which is not always in pairs.
A handler or a trampoline that is null (`signal.c:151`) is not told apart from
another: the process then executes at a null address, which is user code like any.
`AlarmGoesOff` says that the event of an alarm is not freed before the process
that set it has the signal.  The one slot is overwritten by the next alarm of any
process; the property claims nothing of an alarm that was lost so.

### SemTable

`OpenSemaphore` and `Create_Semaphore` are the two ways through
`Create_Semaphore`; `DestroyEntry` is one semaphore of the reaper's loop over the
list of a dead process, of which only `Cleared` entries were ever initialised.
`Leftovers` are the values memory may have held where `refCount` of a new
semaphore is incremented without being set.  `holds` and `inP` are history: who
counts on a semaphore, and who is inside `P`.  Processes destroy and use only what
they hold; the code would take any id (`synch.c:78`, `synch.c:112`).

### Process

`Spawning` follows `Sys_Spawn` to `Start_User_Thread`: the executable, the pages,
the user context with its page directory and its descriptor, the thread, and the
name that is copied after the thread was made runnable.  `Preempt` switches to
any thread that may run and loads what `Switch_To_User_Context` loads, nothing
for a kernel thread.  `Reaping` is `Destroy_User_Context` and the freeing of the thread's
page, with any thread between two of its steps.

### VFS, PFAT, GOSFS

`VFS` has the steps of a system call between the locks of the mount and device
lists: `Mounting` (mount and format, with what each leaves behind when it fails),
`WithPath` (open, change directory), `CloseFile`, `Spawn` and `Exit` with the
inheritance of the working directory.  Which file system a device holds, and what it
answers, is open.

`PFAT` has a file object's `valid` blocks and its lock, the list of objects and its lock, and
one step for each transfer; `Fat` is the chain, positions count blocks.  The
result of a read is its end with the blocks copied, so that `ReadsTheFile` demands
exactly the blocks from the position to that end; a seek forgets it.  `FailToAdd`
has the failing allocations of `Get_PFAT_File`: without memory for the object the call
returns 0 and the caller uses a file that was never set (`pfat.c:419`, `ruined`), without memory
for its cache it returns a freed one; `UnlockList` has the failing one of `Allocate_File`.

`GOSFS` has the directory blocks, the bitmap, the holder of each buffer, and for each process `job`: the operation, the
rest of the path, and the entry found.  A step is what happens between taking
one buffer and taking the next.  `Lookup` takes one component of a path;
`Operation` has open, create, make directory, list, stat, delete and change
directory; `MountBuffers` is the block the mount keeps for ever.  `GetPath` is the
path shown for the working directory, which the code walks up from the block.
Blocks are always read: after a failed transfer (`gosfs.c:289`) a lookup answers as
if the name were missing, with the place of the entry never set.

### Keyboard, Screen, Format, LineEditor, CommandLine, BitSet

`Keyboard`: `Keyboard_Interrupt_Handler` against `Wait_For_Key` and `Read_Key`;
key codes are numbered so that order and loss can be told.  `Screen`: the state
machine of `Put_Char_Imp` with the operations of each control character and
escape sequence.  What a program prints comes a character at a time, as `Print` of the library
calls the kernel for each (`conio.c:225`), so the texts of several programs mix;
`Print_String` and the sequence of `Put_Cursor` are one call and one step.  An
argument beyond the list is what lies behind it in `struct Console_State`
(`Argument`).  `CursorGoesThere` speaks of the moments when no program is inside
`Print`: with half a sequence of another program pending the code takes the one of `Put_Cursor` for
its end, and TLC finds that at once when the condition is dropped.
`Format`: the states of `Format_Output` one character at a time, with the layout
of a number in `Layout`; the value is read back from what was printed without
the machine.  How many digits a precision asks for is not checked, and precisions
that ask for more than `NDIGITS_MAX` digits, with which an `ASSERT` loops for ever
(`fmtout.c:190`), are left out.  `LineEditor`: one key of `Read_Line` a step, on the array, with the
column of the cursor as its only knowledge of the place; `Edited` is the
reference on sequences.  `EditsAsAsked` is about the array and the column, not about what
the row shows, and keys are echoed (`Echo(false)`, which makes Backspace do nothing, has
no caller).  `CommandLine`: the shell's parsing, the search on the
path, and the two walks over the command, `Get_Argument_Block_Size` and
`Format_Argument_Block`, each with its own loop; `Words` is the reference.  `BitSet`: bytes of
bits, with owners that take and return runs.

## 3. What the runs show

| run | instance | checks |
|---|---|---|
| `kthread_safety` | Main, a user process, idle, reaper; all services; quanta of two ticks | one link, one list (`LinkExclusive`); reference counts exact; nothing freed in use; Join misses no exit; no switch with preemption disabled |
| `kthread_liveness` | the same threads, no services | every dead thread is freed, every Join returns |
| `synch` | three processes, one semaphore of at most two units | mutual exclusion, no missed notification, no stranded waiter, implements `AbstractSemaphore`; the mutex moves on |
| `blockdev` | two clients, two IDE drives, the second used by one of the clients, a floppy that fails, a block and a number past the end | requests in one place, implements `AbstractDisk`, every request returns |
| `bufcache_safety` | three threads, two blocks, two buffers, failing writes | clean means on disk, implements `AbstractCache` |
| `bufcache_sync` | two threads, two blocks, two buffers, failing reads, writes and allocations, whole-cache synchronisation | exclusive use with evictions; changes reach the disk |
| `memory` | three processes in a chain, two pages each, four frames, two slots; a heap of 24 words, three sizes; ten bits and three owners | contents kept, frames and slots accounted for; buffers apart, nothing lost; bits apart |
| `signals` | two processes, an alarm and another signal, handlers for any signals in the first and for all or none in the second, one nested handler, alarms of 0 and 1 tick | a signal ends a wait, an alarm that expires signals who set it |
| `gosfs` | a process that creates and deletes, one that looks; two names, three data blocks, paths of two | blocks accounted for, directories a tree, the working directory's path leads to it |
| `objects` | semaphores: two processes, two names, three semaphores; files: two processes, two drives, two prefixes, one open file; PFAT: two threads, a file of two blocks and one whose chain ends early; processes: three, two descriptors, six frames; two readers and a ring of three with up to four key codes; lines of three characters, two commands in a ring of three | held semaphores exist; devices and files have one user; a read gives the file's blocks from its position to its end, each fetched once; each process runs on its own; key codes arrive; lines are edited as asked |
| `console` | two programs, four texts mixed character by character and 17 whole ones, a screen of 2 by 12, three arguments a sequence, three calls; all command lines of at most five characters, blanks and tabs among them; 1 731 formats with words of five bits | the cursor goes where it is sent; programs get their words; numbers read back |
| `paging_concurrent` | `memory`'s pages with parents beside their children | finding 1: must be violated |

Why the bounds are enough.  `KThread`: two worker pages already give a creator and a
child, both orders of exit and Join, reuse of a freed page, and with the reaper
and the idle thread several threads on every queue; the theorems cover any
number.  The four levels and both policies are not reduced.  `Synch`: three processes on
a semaphore give a holder, a sleeper and a barger, and a broadcast that wakes
two for one unit; processes at different semaphores share nothing but the
preemption flag.  `BlockDev`: two clients fill a driver's queue behind a request in
service.  The second drive, whose place in the queue only the first client's requests
take, still follows and precedes requests for the first one.  `BufCache`: two buffers distinguish least from most recently used, and a failed
allocation forces an eviction as a full cache does.  A block has one sector, so a block is transferred at once in the
runs; the module allows more.  `Paging`: a chain of three needs three tables and
six pages with four frames, so the victim is another process's page or the own
one; two slots overflow, which the handler answers by killing a child and by page
zero for the shell; dead processes lose pages while their parent faults.
`Heap`: 24 words hold three of the smallest blocks beside a large one, so a
block has a free neighbour on either side, on both and on none; the requests are
the smallest, one that is rounded up, and one that needs a merged block.
`BitSet`: ten bits are two bytes, so a run crosses from one to the other, and spare bits follow.
`Signals`: two processes signal one another and themselves and wait for
one another; a third adds no queue of another kind.  `GOSFS`: three data blocks
make a directory in a directory, with a file beside it, and a full disk; Format finds
one entry of the root directory free and junk in the next, and other directories have two
free entries; a byte of the bitmap has five bits, so that the disk fills it.  One process writes, because with two the
properties fail (section 4).  `SemTable`: two names and two entries, so a list is full; a
leftover of 1 keeps a semaphore for ever.  `VFS`: one descriptor per process
makes the table full at once, and one `File` object is taken again when it is closed; three dentries for two processes.  `Process`: one descriptor
less than processes, and too few frames for all of them, so both
run out, and a freed entry and a freed frame are given out again.  `Keyboard`: a ring of three is full
with two codes, so the third is dropped, and four go round its end.  `Screen`,
`Format`, `LineEditor`, `CommandLine`: every kind of character,
sequence, flag and boundary occurs; a longer text adds repetition only.  `Screen`:
two texts mix and are followed by a `Put_Cursor`, on the screen and off it; with
`MAXARGS` at three a sequence of four arguments reads behind the list.
`Interchangeable` names and children are taken as symmetric where no property
is a temporal one.

`CHECK_DEADLOCK FALSE`: in `Synch.cfg` all processes may be blocked in P with
nobody left to call V; in `Signals.cfg`, `GOSFS.cfg` and `Objects.cfg` behaviours
end in the broken states described above, and processes that all have ended do nothing more;
in `Console.cfg` they end at the bounds on calls and formats.

### Fairness

`KThread`: with interrupts disabled the CPU reaches the next step (weak
fairness); with interrupts enabled the timer may come first, but a thread that
gets the CPU again and again executes instructions between two ticks (strong
fairness per thread).  Programs are assumed to end; the queues themselves are
modelled, so that every thread gets the CPU is checked and not assumed.
`Synch`: the order of the run queues is left out, so fairness of the scheduler is assumed: a process that is ready
again and again is given the CPU, and executes.  `BlockDev`: ready threads run,
and the floppy controller answers every command (`Wait_For_Interrupt` has no
timeout, so without that the driver would sleep for ever).  `BufCache`: the
thread that holds the mutex runs and its transfers end; nothing is assumed of
the others.  `Signals`: a process that may run takes its next step in the kernel
(`KThread` shows that it gets the CPU) and the timer ticks; nothing is assumed
of what programs do, whether events happen, or whether handlers return.

## 4. Where the code breaks its promises

One finding has a run of its own.

1. `paging_concurrent`: `Find_Space_On_Paging_File` returns a slot that is marked
   only after the transfer (`paging.c:280`); with two runnable processes a second eviction
   meanwhile writes to the same slot.  The quotation is in `PROJECT.json`.

The others were met while modelling.  The models take these steps too, unless a
constant keeps them out; that constant is named.

- A second wait for the same child, before the reaper has freed it, fails
  `KASSERT(kthread->refCount > 0)` (`kthread.c:208`); `owner` is not cleared when
  the owner ends, so a thread created in its page passes the test of `Join`
  (`kthread.c:797`).  `Waitable` is `{"owned"}` in the runs.
- After a drive error `IDE_Read` and `IDE_Write` return with interrupts disabled,
  and the next `Disable_Interrupts` fails its `KASSERT` (`ide.c:183`).  `Faulty` has only the floppy.
- A buffer taken from the least recently used place keeps the number of its old
  block when all buffers are allocated (`bufcache.c:164`).  There are as many buffers as blocks.
- The dirty flag is cleared after a transfer during which the user changed and marked
  the buffer again (`bufcache.c:76`), and a buffer whose read failed stays in the cache.
  `SyncsCache` and `Failures` differ between the two runs for that reason.
- With no pageable page left, null is dereferenced (`mem.c:280`).
- An alarm for a process that has ended dereferences 0 (`timer.c:96`); `Sys_Kill`
  drops references that `Lookup_Thread` took only for some callers.
- Two processes that create in one GOSFS directory may make one name twice, and
  one may delete a directory in which the other creates (`gosfs.c:452`).
  `Writers` is one process.  A directory deleted while another process looks a
  path up through it sends the lookup to block 0 and the assertion at `gosfs.c:288`;
  opening below a directory that does not exist releases a buffer that was never taken.
- A second `Sys_Alarm`, of any process, replaces the event of the first, which is
  lost (`timer.c:246`).
- Sequences that several programs print mix (`conio.c:225`), and of a sequence with more
  than `MAXARGS` arguments what lies behind the list is read (`screen.c:200`).
- The prefix of the working directory is one string for all processes, and
  the entry is freed by who changes directory (`vfs.c:772`).
- The name of a process is copied after it was made runnable (`user.c:137`),
  `Sys_Spawn` stores its pointer through a variable it never sets, and a full
  descriptor table is not noticed (`uservm.c:316`).
- `Find_First_Free_Bit` looks at whole bytes (`bitset.c:66`): on a disk whose
  blocks are not a multiple of eight GOSFS hands out a block past the end, and
  deleting what got it returns with the bit cleared and the entry still there
  (`gosfs.c:720`).  The run and the theorems have whole bytes (`WholeBytes`).
- Delete behind the end of a line moves what lies behind it (`conio.c:98`).

## 5. What is proved

`KThreadProofs` proves, for any set of worker pages, any priorities and quanta and any
subset of services, under `ThreadAssumption` (the idle thread alone has
priority 0; a quantum fits the tick counter's bound) and as long as processes wait only for
children they own (`Waitable \subseteq {"owned"}`, without which they fail, see
section 4):

- `Invariance`: the inductive invariant `IInv`, and from it `TypeCorrect`,
  `LinkExclusiveAlways`, `NoThreadIsLost`, `RefCountIsExact`,
  `NothingFreedInUse`, `AlwaysARunnableThread`, `NoExitIsMissed`,
  `NoAssertionFails`, `CriticalSectionsAreWorkers`;
- the action properties `CriticalSectionsAreNotPreempted` and `IdleRunsLast`.

The properties are not inductive by themselves.  `IInv` adds where a thread's
code must stand for it to be on a list (`WhereInv`), what the code position says of
`alive`, `owner` and the thread being started (`CodeInv`), that the two halves of a reference count
belong to the code position and to `held` (`RefInv`), and what a `Wake_Up` in
progress and the reaper's batch imply (`WakeInv`).  The argument has one lemma
per action.  Most actions either only move threads between lists or change
only one thread's fields; the lemmas `SwitchInv` (a switch from any lists in
which the current thread has been put somewhere legal), `ReadyStep` (a thread
becomes ready) and `QuietStep` (no list changes) carry the cases that share a
shape, and rest on facts about lists without repetition at the start of the module.
TLC checked `IInv` on the small instances first.

`SynchProofs` proves, for any set of processes and semaphores and any bound on
the units, under `SynchAssumption`: `TypeCorrect`, `MutexExcludes`,
`AssertionsHold`, `NotificationsArrive`, `NobodyIsStranded`, and the refinement
`SemaphoreImplemented`.  Mutual exclusion rests on the preemption flag, so
`IInv` ties the three together: the process in a section without preemption is
the one that runs (`CpuInv`), so what it has tested still holds when it uses it
(`TestedAt`).  `QueueInv` says at which label a sleeper stands and that it
sleeps on one queue once, `CallAt` which of P and V a label belongs to.

`BlockDevProofs` proves, for any clients, drives and blocks and any
set of faulty drives, under `BlockDevAssumption`: `TypeCorrect`,
`RequestsInOnePlace`, `NobodySleeps` and the refinement `DiskImplemented`.  The
invariant adds that a driver has a request exactly from the dequeueing to the
notification, and a result from the end of the transfer (`DriverInv`), and that the
floppy driver is never asked for a block past the end (`FloppyInv`).  In the refinement a request takes effect at
the step that ends its transfer; `AbsState` therefore calls a request done from
that step on, although its client is notified later, and an error that stops
the interrupts still maps to a failed operation.

`BufCacheProofs` proves, for any number of threads, blocks, buffers and sectors
and any subset of failures, under `BufCacheAssumption`: `TypeCorrect`,
`BlocksHaveOneBuffer`, `BuffersHaveOneUser`, `NobodyWaitsInVain` and the action
property `ChangesKept`; and, only without whole-cache synchronisation and
failing reads, with which it fails (section 4), `CleanBuffersOnDisk`.  `IInv` adds who is inside the mutex (`LockInv`), which
buffer a thread has chosen and that nobody else has it while it is evicted, read
or flushed (`ChoiceInv`), that the list holds the buffers allocated so far
(`ListInv`), and that the sectors already written equal the buffer's
(`TransferInv`), without which "clean" could not be deduced at the end of a
transfer.  `TransferInv` holds for a buffer nobody uses; a user may
change its buffer during a transfer, which is why the theorem leaves whole-cache
synchronisation out.

`CacheImplemented` is the refinement `Spec => ImplementsCache`: what the users of
the cache see is a table of blocks, one user of each at a time, that only a user's
change alters.  It holds with or without whole-cache synchronisation, for any
finite set of blocks with a buffer for each, when only writes fail.  Both conditions are
needed: with fewer buffers `Get_Buffer` can hand a thread the buffer that was
evicted for another thread's block (`bufcache.c:164`), and a buffer whose read has failed
stays in the list and is found there as if it held the block.  `AskedInv` is the
invariant: a thread has chosen the buffer of the block it asked for and nobody
evicts, as there is always room for one more buffer (`NeverFull`, by the pigeonhole
principle).  `StepImplemented` then goes through the actions: a
transfer shows nothing, since a buffer being read is not yet the block's current
one and a block being written has a current buffer already; only
asking for a block, getting it, changing it and leaving it are steps of the table.

`ObjectsProofs` proves what the run `objects` checks.  Each of the six parts of
`Objects` has an inductive invariant of its own; `PartsRun` shows that the
composition keeps all six, as a step of one part leaves the others alone.

- `HeldSemaphoresExist`, under `SemTableAssumption` (any processes, names and
  bounds, any leftovers): a semaphore somebody holds or is inside `P` of exists.
  `SemInv` counts: the references of an entry are at least the processes' uses and the
  destructions the reaper still owes to the dead (`Owed`), so an entry
  reaches zero only when nobody is left (`UsesCounted`), and the list has each
  id once (`SidsUnique`).
- `FilesHaveOneUser`, under `FilesAssumption`: `FilesInv` says what a call has
  taken at each of its points (`CallInv`), and that a device in use is exactly in one
  mount, the paging device's place, or one call's hands (`DeviceInv`).
- `ReadersGetTheFile` and `BlocksFetchedOnce`, under `PfatAssumption` (the FAT
  leads to blocks it has or to the end): `PfatInv` says who has which lock, that
  a file has one object (`OneObjectEach`), that its valid blocks are
  the blocks along the chain (`ObjectsAlong`), and what a reader knows at each point.
- `ProcessesRunOnTheirOwn`, under `ProgramsAssumption`: `ProcessInv` says which
  context and descriptor a process has at each point from spawn to the
  reaper (`Holding`, `Dying`, `Table`), what the processor has loaded
  (`Loaded`), and who refers to a thread (`Family`, `Referred`).
- `KeysAreNotLost`, under `KeyboardAssumption` (a ring of at least one place):
  `KeyboardInv` says that the place `i` behind `head` has the code numbered
  `got + 1 + i` up to `tail`, whatever is around the end of the ring
  (`RingSound`), and that somebody sleeps only beside an empty one
  (`SleepersSound`).  The arithmetic modulo the length is in `Around`.
- `LinesAreEdited`, under `LineAssumption` (the commands the shell puts in the
  history fit in the array): every key does to the array and the column of
  the cursor what `Edited` and `Typed` do to a sequence and a place in it.  `LineInv` says that the
  cursor is within the line until Delete slips behind its end, and that the history is
  sound (`HistorySound`): nothing is stored at `rear`, and `cursor` is between `front` and `rear`
  around the ring, so that the arrows show a command or an empty line.  `CharInserted`, `CharRemoved` and
  `ItemShown` are the loops over the array as operations on sequences, `Added` and
  `ItemGot` those on the ring.

`MemoryProofs` proves of `Paging`, for any processes, pages, frames and slots, under
`PagingAssumption`, and as long as a parent waits for its child (`Concurrent = FALSE`;
with concurrent processes `SlotsAccounted` and `PagesKept` fail, which is finding
1): `PagingTypeOK`, `PagesAreKept`, `FramesAreAccounted` and `SlotsAreAccounted`.
In the inductive invariant `PagingInv`, `Chain` says that the processes form a
chain of which only the last goes on, so that one page fault at most is under
way; it is what the concurrent case lacks.  `JobsSound` says for each stage
of a fault or a load where the page, the frame and the slot are, `FramesSound`
that the flags of a frame tell which of the free list, the tables, the entries and the jobs
has it, `SlotsSound` that a slot is marked exactly while a page is on it or being
written, and `ContentsSound` that every page's contents are where its entry says.
From the first failed assertion on, only the types are claimed.

It proves of `Heap`, for a pool of any length and requests of any size
(`HeapAssumption`): `BuffersStayApart` and `NoWordIsLost`.  `HeapInv` says of the
headers that the blocks lie one behind the other from the first word to the
sentinel (`Layout`), that each tells whether the block before it is free and
how long that is (`Tags`), and that no two free blocks are neighbours
(`Merged`); the free list has each free block once (`Listed`), and callers have all
others, long enough for what they asked (`Taken`).  `Layout` gives of any block
its neighbour only; that blocks behind the neighbour are apart too is said by its
last conjunct, no header inside a block, so no induction over blocks is needed,
and `GreatestFact` finds the block of a word as the greatest header not behind it.
The allocator changes headers in three ways, each a lemma about headers as
values: a block that is released is joined with its free neighbours
(`JoinedSound`), a free block is handed out whole (`HandedOutSound`), or a piece
is cut off its end (`CutOffSound`); `MergedPrevious` and `MergedNext` follow
`brel` from the released block to the joined one.

It proves of `BitSet`, for any number of bits and owners and runs no longer than
the set (`BitsAssumption`): `BitsHaveOneOwner`.  `BitsInv` says that a bit is set exactly
while an owner has taken it and that no two have the same one; `FreeBitFound` and
`FreeRunFound` say that what the searches return is within the bytes and free,
spare bits included, and `BitsCounted` counts the free bits by a bijection
between positions and pairs of a byte and a bit.

`GOSFSProofs` proves, for any names, any directory and disk size, and any number
of processes that look beside one that creates and deletes (`OneWriter`), on a
disk whose bitmap has whole bytes (`WholeBytes`; without either the properties
fail, section 4), under `GOSFSAssumption`: `GOSFSTypeOK`, `BlocksAreAccounted` and
`DirectoriesFormATree`.  The properties speak of the moments between operations;
`GOSFSInv` says what is true within them.  `DiskSound` is the tree with the
directories still to be written left out (`New`) and the bitmap without the
block whose bit is not set (`Gone`); every directory is reached from an entry of a
written directory, so ".." always leads to one.  `JobsSound` says what the writer
has found and that it stays so: nothing but its own steps change a
directory.  The lemmas `EntryAdded`, `FileDone`, `DirectoryDone` and
`EntryErased` are about directories as values, without processes, and carry the
argument.  They also show what a reader of `GOSFS_Delete` may doubt: that "." is
never deleted because the buffer it needs is held, ".." because it is never empty.

`CwdIsNamed` is about a path the code climbs, a recursive function in the model.
`Rooted` gives each directory the set of those above it: a directory is not in
its own, and the parent's is smaller by just the parent, so a climb ends at the
root within as many steps as there are blocks (`ClimbLeads`).  It is kept by
adding and erasing an entry because a new directory is a leaf and only leaves
are erased (`RootedAdded`, `RootedErased`).  The library's induction over numbers takes
an operator, which the prover cannot instantiate; the two inductions here are
made by the least counterexample instead (`LeastFact`), and that the recursive
function exists is shown by `WaysUpExist`.

The lemmas about lists (appending, removing, concatenating and reversing keep
elements distinct) are in `ListFacts` and cited by name.  Every invariant was
checked with TLC on the small instances before it was proved.

Some of these theorems state invariants that no run lists any more, because they
are proved for every instance: `NoThreadLost`, `IdleReady`, `NoPanic`, `AssertsHold`,
`CriticalIsWorker`, `IdleLast`, `NobodySleepsInVain`, `OneBufferPerBlock`,
`WaitersHaveAUser`, and the type invariants.

Only model-checked:

- liveness under fairness, which the prover does not treat: `DeadAreFreed` and `JoinReturns` of
  `KThread`, `MutexMovesOn` of `Synch`, `RequestsComplete` of `BlockDev`,
  `SignalEndsWait` and `AlarmGoesOff` of `Signals`;
- what folds over sequences compute, `NumbersReadBack`, `ProgramsGetTheirWords` and
  `CursorGoesThere`: `SequencesExt` defines them with an operator as parameter, and
  an induction over the sequence would have to be redone for each.  The same holds of
  the recursive functions of `CommandLine`.

## 6. What is not modelled

Boot, hardware set-up and the interrupt table run once, before threads exist.
The host's build tools make disk images.  Games, tests and one-call commands
among the user programs are represented by what a user may do in each model.
Within the modelled parts, `PROJECT.json` says under each component what is
missing: thread-local data (nothing calls it) and the list of all threads, whose
numbering the code does not protect; the registration and probing of drives;
`Destroy_FS_Buffer_Cache` (no caller); page tables of the kernel; the parsing of
ELF headers and the registers a new thread starts with; system calls that only
copy data; reading and writing of GOSFS files, which the code leaves unwritten;
the DMA controller; the functions of `bget.c` that are not compiled in or not
called; `%n`.  Hardware timing, the contents of messages, statistics and debugging
output are left out.  Nothing but the disk survives a restart, and the code has no recovery: a
crash is the end of a behaviour.  Failed allocation of a thread's pages is an
error return before anything is changed and is left out of `Create`.
