-------------------------------- MODULE Paging --------------------------------
(***************************************************************************)
(* Demand paging: the page frames of mem.c, the page faults and the paging *)
(* file of paging.c, and the address spaces that uservm.c builds for a new *)
(* process and takes down for a dead one.                                  *)
(*                                                                         *)
(* A process either runs, or faults, or has a child loaded for it, and the *)
(* reaper takes dead processes down beside it.  The page fault handler     *)
(* runs with interrupts disabled but for its disk transfers; loading and   *)
(* taking down let other threads in between two pages.                     *)
(*                                                                         *)
(* A frame and a slot of the paging file are numbered from 1; address 0,   *)
(* physical page zero, is what a failed allocation returns.  Of contents   *)
(* the module says whose they are: <<p, v>> are the contents that page v   *)
(* of p should have, and what was once such is debris when the page gets   *)
(* new contents elsewhere.  No frame's clock is ever written, so the frame *)
(* "least recently used" is the first of the table.                        *)
(***************************************************************************)
EXTENDS Naturals, Sequences, SequencesExt, FiniteSetsExt

CONSTANTS
  Procs,        (* the user processes                                        *)
  Shell,        (* the first of them, sh_pid, which the main thread spawns    *)
  Main, NoProc,
  NumPages,     (* the user pages of a process                                *)
  NumImage,     (* those its program is loaded into: the first ones           *)
  NumTables,    (* the frames of its page directory and page tables           *)
  NumFrames,    (* the frames of physical memory that can be allocated        *)
  NumSlots,     (* totalPage: the pages of the paging file                    *)
  Debris,       (* contents that no page should have                          *)
  Concurrent    (* a parent runs beside its child instead of waiting for it   *)

ASSUME PagingAssumption ==
  /\ Shell \in Procs /\ Main \notin Procs /\ NoProc \notin Procs \cup {Main}
  /\ NumPages \in Nat /\ NumImage \in 1..NumPages /\ NumTables \in Nat \ {0}
  /\ NumFrames \in Nat /\ NumSlots \in Nat
  /\ Debris \notin Procs \X (1..NumPages) /\ Concurrent \in BOOLEAN

Pages   == 1..NumPages
Image   == 1..NumImage
Frames  == 1..NumFrames
Slots   == 1..NumSlots
Numbers == Frames \cup Slots \cup {0}
NoEntry == <<>>
Contents == (Procs \X Pages) \cup {Debris}
Flags   == {"ALLOCATED", "PAGEABLE", "LOCKED"}

VARIABLES
  pte,        (* the page table entries of each process                       *)
  tables,     (* the frames of its page directory and page tables             *)
  page,       (* g_pageList: the flags of each frame and the entry it serves   *)
  freeList,   (* s_freeList                                                   *)
  mem,        (* the contents of physical memory, page zero included          *)
  swap,       (* the contents of the paging file                              *)
  swapMap,    (* the slots marked in use                                      *)
  life,       (* "none", "loading", "running", "dead"                         *)
  child,      (* the process each one is loading or waiting for               *)
  job,        (* the allocation under way for each process                    *)
  todo,       (* the next page to be loaded or taken down                     *)
  broken      (* a KASSERT failed, or page zero is used as a page table       *)

frameVars == <<page, freeList>>
dataVars  == <<mem, swap>>
procVars  == <<life, child, todo>>
vars == <<pte, tables, frameVars, dataVars, swapMap, procVars, job, broken>>

NoJob == [kind |-> "none", page |-> 1, stage |-> "none", frame |-> 0, slot |-> 0,
          onDisk |-> FALSE]
EmptyEntry == [present |-> FALSE, onDisk |-> FALSE, base |-> 0]

TypeOK ==
  /\ pte \in [Procs -> [Pages -> [present : BOOLEAN, onDisk : BOOLEAN, base : Numbers]]]
  /\ tables \in [Procs -> SUBSET Frames]
  /\ page \in [Frames -> [flags : SUBSET Flags, entry : (Procs \X Pages) \cup {NoEntry}]]
  /\ freeList \in Seq(Frames)
  /\ mem \in [Frames \cup {0} -> Contents] /\ swap \in [Slots -> Contents]
  /\ swapMap \subseteq Slots
  /\ life \in [Procs -> {"none", "loading", "running", "dead"}]
  /\ child \in [Procs \cup {Main} -> Procs \cup {NoProc}]
  /\ job \in [Procs -> [kind : {"none", "fault", "load"}, page : Pages,
                        stage : {"none", "writeOut", "written", "got", "readIn", "read"},
                        frame : Frames \cup {0}, slot : Slots \cup {0}, onDisk : BOOLEAN]]
  /\ todo \in [Procs -> 1..(NumPages + 1)]
  /\ broken \in BOOLEAN

Init ==
  /\ pte = [p \in Procs |-> [v \in Pages |-> EmptyEntry]]
  /\ tables = [p \in Procs |-> {}]
  /\ page = [f \in Frames |-> [flags |-> {}, entry |-> NoEntry]]
  /\ freeList = [i \in 1..NumFrames |-> i]
  /\ mem = [f \in Frames \cup {0} |-> Debris] /\ swap = [s \in Slots |-> Debris]
  /\ swapMap = {}
  /\ life = [p \in Procs |-> "none"]
  /\ child = [q \in Procs \cup {Main} |-> NoProc]
  /\ job = [p \in Procs |-> NoJob]
  /\ todo = [p \in Procs |-> 1]
  /\ broken = FALSE

(* The handler of a fault keeps interrupts disabled once it has its frame.   *)
IntsOff == {p \in Procs : job[p].kind = "fault" /\ job[p].stage = "got"}
MayRun(p) == ~broken /\ IntsOff \subseteq {p}
Runs(p)   == /\ MayRun(p) /\ life[p] = "running" /\ child[p] = NoProc
             /\ job[p].kind = "none"

Break == broken' = TRUE /\ UNCHANGED <<pte, tables, frameVars, dataVars, swapMap, procVars, job>>

-----------------------------------------------------------------------------
(* Physical memory *)

Victims   == {f \in Frames : {"PAGEABLE", "ALLOCATED"} \subseteq page[f].flags}
FreeSlots == Slots \ swapMap

(* The flags and the entry of a frame given to page v of p.                  *)
Served(p, v) == [flags |-> {"ALLOCATED", "PAGEABLE"}, entry |-> <<p, v>>]

(* Alloc_Pageable_Page up to its first transfer.  The frame is free, or is   *)
(* taken from a page that has to be written to a free slot first, or there   *)
(* is no slot and address 0 is returned.  Without a victim the result of     *)
(* Find_Page_To_Page_Out is dereferenced all the same.                       *)
Alloc_Pageable_Page(p, v, kind) ==
  LET got(f) == [kind |-> kind, page |-> v, stage |-> "got", frame |-> f, slot |-> 0,
                 onDisk |-> pte[p][v].onDisk]
      free   == freeList # <<>>
      victim == Min(Victims)
      slot   == Min(FreeSlots)
  IN \/ /\ free
        /\ page' = [page EXCEPT ![Head(freeList)] = Served(p, v)]
        /\ freeList' = Tail(freeList)
        /\ job' = [job EXCEPT ![p] = got(Head(freeList))]
        /\ pte' = [pte EXCEPT ![p][v].onDisk = FALSE]
        /\ UNCHANGED <<tables, dataVars, swapMap, procVars, broken>>
     \/ /\ ~free /\ Victims # {} /\ FreeSlots # {}
        /\ page' = [page EXCEPT ![victim].flags = {"ALLOCATED", "LOCKED"}]
        /\ job' = [job EXCEPT ![p] =
                     [got(victim) EXCEPT !.stage = "writeOut", !.slot = slot]]
        /\ UNCHANGED <<pte, tables, freeList, dataVars, swapMap, procVars, broken>>
     \/ /\ ~free /\ Victims # {} /\ FreeSlots = {}
        /\ job' = [job EXCEPT ![p] = got(0)]
        /\ UNCHANGED <<pte, tables, frameVars, dataVars, swapMap, procVars, broken>>
     \/ ~free /\ Victims = {} /\ Break

(* Mutant of Write_To_Paging_File: the index of the slot is left out.        *)
Write_To_First_Slot(p) ==
  /\ MayRun(p) /\ job[p].stage = "writeOut"
  /\ swap' = [swap EXCEPT ![1] = mem[job[p].frame]]
  /\ swapMap' = swapMap \cup {job[p].slot}
  /\ job' = [job EXCEPT ![p].stage = "written"]
  /\ UNCHANGED <<pte, tables, frameVars, mem, procVars, broken>>

(* Write_To_Paging_File, with interrupts enabled: the slot is marked last.   *)
Write_To_Paging_File(p) ==
  /\ MayRun(p) /\ job[p].stage = "writeOut"
  /\ swap' = [swap EXCEPT ![job[p].slot] = mem[job[p].frame]]
  /\ swapMap' = swapMap \cup {job[p].slot}
  /\ job' = [job EXCEPT ![p].stage = "written"]
  /\ UNCHANGED <<pte, tables, frameVars, mem, procVars, broken>>

(* The rest of Alloc_Pageable_Page.  The page may have been freed meanwhile,  *)
(* and then its copy is not needed.                                          *)
PagedOut(p) ==
  LET f == job[p].frame
      s == job[p].slot
      v == job[p].page
      e == page[f].entry
      needed == "ALLOCATED" \in page[f].flags
      evicted == IF needed
                 THEN [pte EXCEPT ![e[1]][e[2]] =
                         [present |-> FALSE, onDisk |-> TRUE, base |-> s]]
                 ELSE pte
  IN /\ MayRun(p) /\ job[p].stage = "written"
     /\ swapMap' = IF needed THEN swapMap ELSE swapMap \ {s}
     /\ pte' = [evicted EXCEPT ![p][v].onDisk = FALSE]
     /\ page' = [page EXCEPT ![f] = Served(p, v)]
     /\ job' = [job EXCEPT ![p].stage = "got"]
     /\ UNCHANGED <<tables, freeList, dataVars, procVars, broken>>

(* Mutant of Free_Page: a locked frame is freed like any other.              *)
Free_Locked_Page(f) ==
  /\ page' = [page EXCEPT ![f] = [flags |-> @.flags \ {"ALLOCATED", "PAGEABLE"},
                                  entry |-> NoEntry]]
  /\ freeList' = Append(freeList, f)

(* Free_Page of an allocated frame: one that is being written out is only    *)
(* told that it is no longer needed.  The entry a frame once served is not   *)
(* read again before the frame is given to another.                          *)
Free_Page(f) ==
  IF "LOCKED" \in page[f].flags
  THEN /\ page' = [page EXCEPT ![f] = [flags |-> @.flags \ {"ALLOCATED"}, entry |-> NoEntry]]
       /\ UNCHANGED freeList
  ELSE /\ page' = [page EXCEPT ![f] = [flags |-> @.flags \ {"ALLOCATED", "PAGEABLE"},
                                       entry |-> NoEntry]]
       /\ freeList' = Append(freeList, f)

-----------------------------------------------------------------------------
(* The page fault handler *)

(* Page v of p gets new contents, in frame f; any other copy is now stale.    *)
NewContents(p, v, f) ==
  /\ mem' = [g \in DOMAIN mem |-> IF g = f THEN <<p, v>>
                                  ELSE IF mem[g] = <<p, v>> THEN Debris ELSE mem[g]]
  /\ swap' = [s \in Slots |-> IF swap[s] = <<p, v>> THEN Debris ELSE swap[s]]

(* A process writes to a page it has mapped.                                  *)
Store(p, v) ==
  /\ Runs(p) /\ pte[p][v].present
  /\ NewContents(p, v, pte[p][v].base)
  /\ UNCHANGED <<pte, tables, frameVars, swapMap, procVars, job, broken>>

(* Page_Fault_Handler as far as the allocation.  Every page of a process is   *)
(* under a page table that loading made: the table that a fault elsewhere     *)
(* would first allocate (paging.c:115) is left out.                           *)
Page_Fault_Handler(p, v) ==
  /\ Runs(p) /\ ~pte[p][v].present
  /\ Alloc_Pageable_Page(p, v, "fault")

(* The page is mapped to the frame that was allocated for it.                 *)
MapPage(p) ==
  /\ pte' = [pte EXCEPT ![p][job[p].page].present = TRUE,
                        ![p][job[p].page].base = job[p].frame]
  /\ job' = [job EXCEPT ![p] = NoJob]

(* Exit: the process is dead; the reaper takes it down.                       *)
Die(p) == /\ life' = [life EXCEPT ![p] = "dead"]
          /\ todo' = [todo EXCEPT ![p] = 1]
          /\ job' = [job EXCEPT ![p] = NoJob]

(* The handler after the allocation: a page that is not on the disk begins    *)
(* with what its frame holds, which nobody clears.  With the paging file full *)
(* a process ends, but the shell goes on with address 0.                      *)
AfterAllocation(p) ==
  /\ MayRun(p) /\ job[p].kind = "fault" /\ job[p].stage = "got"
  /\ \/ /\ job[p].frame = 0 /\ p # Shell
        /\ Die(p)
        /\ UNCHANGED <<pte, dataVars, child>>
     \/ /\ job[p].frame # 0 \/ p = Shell
        /\ job[p].onDisk
        /\ job' = [job EXCEPT ![p].stage = "readIn"]
        /\ UNCHANGED <<pte, dataVars, procVars>>
     \/ /\ job[p].frame # 0 \/ p = Shell
        /\ ~job[p].onDisk
        /\ MapPage(p)
        /\ NewContents(p, job[p].page, job[p].frame)
        /\ UNCHANGED procVars
  /\ UNCHANGED <<tables, frameVars, swapMap, broken>>

(* Read_From_Paging_File, with interrupts enabled.                            *)
Read_From_Paging_File(p) ==
  /\ MayRun(p) /\ job[p].stage = "readIn"
  /\ mem' = [mem EXCEPT ![job[p].frame] = swap[pte[p][job[p].page].base]]
  /\ job' = [job EXCEPT ![p].stage = "read"]
  /\ UNCHANGED <<pte, tables, frameVars, swap, swapMap, procVars, broken>>

(* Mutant of PagedIn: the slot is not freed.                                  *)
PagedInAndKept(p) ==
  /\ MayRun(p) /\ job[p].stage = "read"
  /\ MapPage(p)
  /\ UNCHANGED <<tables, frameVars, mem, swap, swapMap, procVars, broken>>

PagedIn(p) ==
  /\ MayRun(p) /\ job[p].stage = "read"
  /\ swapMap' = swapMap \ {pte[p][job[p].page].base}
  /\ MapPage(p)
  /\ UNCHANGED <<tables, frameVars, mem, swap, procVars, broken>>

-----------------------------------------------------------------------------
(* Address spaces *)

(* Load_User_Program begins: the page directory and the page tables come from *)
(* the free list alone; without a free frame the table is put at address 0.   *)
(* All are taken here, though the code comes to the table of the stack only    *)
(* after the pages of the image (uservm.c:275).                               *)
Load_User_Program(q, p) ==
  /\ ~broken /\ IntsOff = {}
  /\ life[p] = "none"
  /\ IF q = Main THEN p = Shell /\ child[Main] = NoProc ELSE p # Shell /\ Runs(q)
  /\ IF Len(freeList) < NumTables
     THEN Break
     ELSE LET new == ToSet(SubSeq(freeList, 1, NumTables)) IN
          /\ freeList' = SubSeq(freeList, NumTables + 1, Len(freeList))
          /\ page' = [f \in Frames |->
                        IF f \in new THEN [page[f] EXCEPT !.flags = {"ALLOCATED"}] ELSE page[f]]
          /\ tables' = [tables EXCEPT ![p] = new]
          /\ pte' = [pte EXCEPT ![p] = [v \in Pages |-> EmptyEntry]]
          /\ life' = [life EXCEPT ![p] = "loading"]
          /\ child' = [child EXCEPT ![q] = p]
          /\ todo' = [todo EXCEPT ![p] = 1]
          /\ UNCHANGED <<dataVars, swapMap, job, broken>>

LoadPage(p) ==
  /\ MayRun(p) /\ life[p] = "loading" /\ job[p].kind = "none" /\ todo[p] \in Image
  /\ Alloc_Pageable_Page(p, todo[p], "load")

CopyIn(p) ==
  LET v == job[p].page
      f == job[p].frame
  IN /\ MayRun(p) /\ job[p].kind = "load" /\ job[p].stage = "got"
     /\ NewContents(p, v, f)
     /\ MapPage(p)
     /\ todo' = [todo EXCEPT ![p] = v + 1]
     /\ UNCHANGED <<tables, frameVars, swapMap, life, child, broken>>

(* The process starts; its parent waits for it unless they run side by side.  *)
Start_User_Thread(q, p) ==
  /\ MayRun(p) /\ child[q] = p
  /\ life[p] = "loading" /\ job[p].kind = "none" /\ todo[p] \notin Image
  /\ life' = [life EXCEPT ![p] = "running"]
  /\ child' = [child EXCEPT ![q] = IF Concurrent /\ q # Main THEN NoProc ELSE p]
  /\ UNCHANGED <<pte, tables, frameVars, dataVars, swapMap, todo, job, broken>>

Sys_Wait(q, p) ==
  /\ ~broken /\ IntsOff = {} /\ child[q] = p /\ life[p] = "dead"
  /\ child' = [child EXCEPT ![q] = NoProc]
  /\ UNCHANGED <<pte, tables, frameVars, dataVars, swapMap, life, todo, job, broken>>

Exit(p) ==
  /\ Runs(p) /\ p # Shell
  /\ Die(p)
  /\ UNCHANGED <<pte, tables, frameVars, dataVars, swapMap, child, broken>>

Reapable(p) == /\ ~broken /\ IntsOff = {} /\ life[p] = "dead"
               /\ \A q \in DOMAIN child : child[q] # p

(* Destroy_User_Context, one page table entry at a time.                      *)
DestroyPage(p) ==
  LET e == pte[p][todo[p]] IN
  /\ Reapable(p) /\ todo[p] \in Pages
  /\ \/ /\ e.present /\ e.base = 0
        /\ Break
     \/ /\ e.present /\ e.base # 0
        /\ Free_Page(e.base)
        /\ todo' = [todo EXCEPT ![p] = @ + 1]
        /\ UNCHANGED <<pte, tables, dataVars, swapMap, life, child, job, broken>>
     \/ /\ ~e.present
        /\ swapMap' = IF e.onDisk THEN swapMap \ {e.base} ELSE swapMap
        /\ todo' = [todo EXCEPT ![p] = @ + 1]
        /\ UNCHANGED <<pte, tables, frameVars, dataVars, life, child, job, broken>>

(* ... and then the tables, and the directory last: in one step, though other *)
(* threads may run between two of them (uservm.c:123), who then find fewer    *)
(* free frames than after it.  Nothing left in memory or on the disk is       *)
(* anybody's contents any more.                                               *)
DestroyTables(p) ==
  /\ Reapable(p) /\ todo[p] \notin Pages
  /\ page' = [f \in Frames |-> IF f \in tables[p] THEN [page[f] EXCEPT !.flags = {}] ELSE page[f]]
  /\ freeList' = freeList \o SetToSeq(tables[p])
  /\ tables' = [tables EXCEPT ![p] = {}]
  /\ life' = [life EXCEPT ![p] = "none"]
  /\ pte' = [pte EXCEPT ![p] = [v \in Pages |-> EmptyEntry]]
  /\ todo' = [todo EXCEPT ![p] = 1]
  /\ LET gone(c) == IF c \in {p} \X Pages THEN Debris ELSE c IN
     /\ mem' = [f \in DOMAIN mem |-> gone(mem[f])]
     /\ swap' = [s \in Slots |-> gone(swap[s])]
  /\ UNCHANGED <<swapMap, child, job, broken>>

(* After a failed KASSERT the kernel loops for ever.                          *)
Halted == broken /\ UNCHANGED vars

Next ==
  \/ \E p \in Procs : \/ \E v \in Pages : Store(p, v) \/ Page_Fault_Handler(p, v)
                      \/ Write_To_Paging_File(p) \/ PagedOut(p)
                      \/ AfterAllocation(p) \/ Read_From_Paging_File(p) \/ PagedIn(p)
                      \/ LoadPage(p) \/ CopyIn(p) \/ Exit(p)
                      \/ DestroyPage(p) \/ DestroyTables(p)
                      \/ \E q \in Procs \cup {Main} : \/ Load_User_Program(q, p)
                                                      \/ Start_User_Thread(q, p)
                                                      \/ Sys_Wait(q, p)
  \/ Halted

Spec == Init /\ [][Next]_vars

-----------------------------------------------------------------------------
(* Properties *)

(* The pages a process still has: a dead one loses them one by one.           *)
Owned(p) == CASE life[p] = "none" -> {}
              [] life[p] = "dead" -> {v \in Pages : v >= todo[p]}
              [] OTHER -> Pages

Base(e) == pte[e[1]][e[2]].base

Mapped == {e \in Procs \X Pages : e[2] \in Owned(e[1]) /\ pte[e[1]][e[2]].present /\ Base(e) # 0}
OnDisk == {e \in Procs \X Pages :
             /\ e[2] \in Owned(e[1]) /\ ~pte[e[1]][e[2]].present
             /\ pte[e[1]][e[2]].onDisk \/ (job[e[1]].onDisk /\ job[e[1]].page = e[2])}

(* A page a process wrote, and that was moved to the paging file and back any *)
(* number of times, holds what the process wrote (Alloc_Pageable_Page and     *)
(* Page_Fault_Handler); pages mapped to page zero are not said anything of.    *)
PagesKept ==
  ~broken =>
    /\ \A e \in Mapped : mem[Base(e)] = e
    /\ \A e \in OnDisk : swap[Base(e)] = e

(* Every frame is in one place: on the free list, in the tables of one        *)
(* process, mapped by one entry, or in the hands of the one that allocated it. *)
FramesAccounted ==
  LET held(p)  == IF job[p].stage = "none" THEN {} ELSE {job[p].frame} \ {0}
      writing(f) == \E p \in Procs : job[p].stage \in {"writeOut", "written"} /\ job[p].frame = f
  IN ~broken => \A f \in Frames :
       LET uses == {<<"free", i>> : i \in {j \in DOMAIN freeList : freeList[j] = f}}
                   \cup {<<"table", p>> : p \in {q \in Procs : f \in tables[q]}}
                   \cup {<<"entry", e>> : e \in {x \in Mapped : Base(x) = f /\ ~writing(f)}}
                   \cup {<<"job", p>> : p \in {q \in Procs : f \in held(q)}}
       IN Cardinality(uses) = 1

(* A slot of the paging file is marked exactly while one page is on it or is   *)
(* being written to it: Find_Space_On_Paging_File never gives out a slot that  *)
(* holds a page, and no slot is lost.                                          *)
SlotsAccounted ==
  LET writing == {p \in Procs : job[p].stage = "written"}
  IN ~broken => /\ swapMap = {Base(e) : e \in OnDisk} \cup {job[p].slot : p \in writing}
                /\ Cardinality(swapMap) = Cardinality(OnDisk) + Cardinality(writing)
=============================================================================
