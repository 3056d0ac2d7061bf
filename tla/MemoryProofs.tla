----------------------------- MODULE MemoryProofs -----------------------------
(***************************************************************************)
(* Proofs about Memory: about Paging, for any number of processes, pages,   *)
(* frames and slots, where every parent waits for its child (Concurrent =   *)
(* FALSE), about Heap, for any pool and any sizes, and about BitSet, for    *)
(* any number of bits and any lengths.                                      *)
(*                                                                         *)
(* The inductive invariant of Paging has five parts beside the types.       *)
(* Chain: one process at most goes on.  JobsSound: what the page fault or   *)
(* the load under way is about, and what its frame and its slot are.        *)
(* FramesSound: the flags of a frame say where the frame is.  SlotsSound: a *)
(* slot is marked exactly while a page is on it or being written to it.     *)
(* ContentsSound: every page has its contents in its frame or its slot.     *)
(*                                                                         *)
(* That of Heap, HeapInv, speaks of the headers as a function: the blocks   *)
(* lie one behind the other (Layout), each header tells the free block      *)
(* before it (Tags), free blocks are not neighbours (Merged), and the list  *)
(* has the free blocks and callers the others (Listed, Taken).              *)
(*                                                                         *)
(* That of BitSet, BitsInv, says that a bit is set exactly while one owner  *)
(* has taken it.                                                            *)
(***************************************************************************)
EXTENDS Memory, ListFacts, FiniteSetTheorems, SequenceTheorems, WellFoundedInduction, TLAPS

(* The types of the records.                                                 *)
EntryT == [present : BOOLEAN, onDisk : BOOLEAN, base : Numbers]
JobT   == [kind : {"none", "fault", "load"}, page : Pages,
           stage : {"none", "writeOut", "written", "got", "readIn", "read"},
           frame : Frames \cup {0}, slot : Slots \cup {0}, onDisk : BOOLEAN]
FrameT == [flags : SUBSET Flags, entry : (Procs \X Pages) \cup {NoEntry}]

(* The pages of all processes; those that a process has, that are present, that  *)
(* are marked to be on the disk; the jobs that read a page back, and the pages.   *)
Cells   == Procs \X Pages
Theirs  == {e \in Cells : e[2] \in Owned(e[1])}
Present == {e \in Cells : pte[e[1]][e[2]].present}
Stored  == {e \in Cells : pte[e[1]][e[2]].onDisk}
Late    == {p \in Procs : job[p].onDisk}
Cell(p) == <<p, job[p].page>>
Awaited == {e \in Cells : e[1] \in Late /\ e = Cell(e[1])}

-----------------------------------------------------------------------------
(* Pages, entries and jobs *)

(* A cell is a page of a process.                                            *)
LEMMA CellsAre ==
  ASSUME NEW p \in Procs, NEW v \in Pages PROVE <<p, v>> \in Cells /\ <<p, v>>[1] = p /\ <<p, v>>[2] = v
  BY DEF Cells

LEMMA CellParts ==
  ASSUME NEW e \in Cells PROVE e[1] \in Procs /\ e[2] \in Pages /\ e = <<e[1], e[2]>>
  BY DEF Cells

(* Mapped and OnDisk in terms of the sets of cells.                          *)
LEMMA MappedIs ==
  ASSUME pte \in [Procs -> [Pages -> EntryT]] PROVE Mapped = {e \in Theirs \cap Present : Base(e) # 0}
  BY DEF Mapped, Theirs, Present, Base, Cells, EntryT

LEMMA OnDiskIs ==
  ASSUME pte \in [Procs -> [Pages -> EntryT]], job \in [Procs -> JobT]
  PROVE OnDisk = {e \in Theirs \ Present : e \in Stored \/ e \in Awaited}
<1>1. SUFFICES ASSUME NEW e \in Cells PROVE e \in OnDisk <=> e \in Theirs \ Present /\ (e \in Stored \/ e \in Awaited)
  BY DEF OnDisk, Theirs, Cells
<1>2. e[1] \in Procs /\ e[2] \in Pages /\ e = <<e[1], e[2]>>
  BY CellParts
<1>3. PICK x \in EntryT : x = pte[e[1]][e[2]]
  BY <1>2
<1>4. PICK y \in JobT : y = job[e[1]]
  BY <1>2
<1>5. e \in Stored <=> x.onDisk
  BY <1>3 DEF Stored
<1>6. e \in Present <=> x.present
  BY <1>3 DEF Present
<1>7. e \in Awaited <=> y.onDisk /\ y.page = e[2]
  BY <1>2, <1>4 DEF Awaited, Late, Cell, JobT
<1>8. e \in Theirs <=> e[2] \in Owned(e[1])
  BY DEF Theirs
<1>9. e \in OnDisk <=> e[2] \in Owned(e[1]) /\ ~x.present /\ (x.onDisk \/ (y.onDisk /\ y.page = e[2]))
  BY <1>3, <1>4 DEF OnDisk, Cells
<1> QED BY <1>5, <1>6, <1>7, <1>8, <1>9

(* The three changes of a page table: Alloc_Pageable_Page clears onDisk, ... *)
LEMMA EntryForgotten ==
  ASSUME pte \in [Procs -> [Pages -> EntryT]], NEW p \in Procs, NEW v \in Pages,
  pte' = [pte EXCEPT ![p][v].onDisk = FALSE]
  PROVE /\ pte' \in [Procs -> [Pages -> EntryT]]
        /\ Present' = Present /\ Stored' = Stored \ {<<p, v>>}
        /\ \A e \in Cells : Base(e)' = Base(e)
<1>1. PICK x \in [Pages -> EntryT] : x = pte[p]
  OBVIOUS
<1>2. PICK y \in EntryT : y = x[v]
  OBVIOUS
<1>3. PICK z : z = [y EXCEPT !.onDisk = FALSE]
  OBVIOUS
<1>4. z \in EntryT /\ z.present = y.present /\ z.onDisk = FALSE /\ z.base = y.base
  BY <1>3 DEF EntryT
<1>5. PICK w : w = [x EXCEPT ![v] = z]
  OBVIOUS
<1>6. pte' = [pte EXCEPT ![p] = w]
  BY <1>1, <1>2, <1>3, <1>5, Zenon
<1>7. w \in [Pages -> EntryT] /\ w[v] = z /\ \A u \in Pages : u # v => w[u] = x[u]
  BY <1>4, <1>5
<1>8. /\ pte' \in [Procs -> [Pages -> EntryT]] /\ pte'[p] = w /\ \A q \in Procs : q # p => pte'[q] = pte[q]
  BY <1>6, <1>7
<1>9. pte'[p][v] = z /\ \A q \in Procs, u \in Pages : q # p \/ u # v => pte'[q][u] = pte[q][u]
  BY <1>1, <1>7, <1>8
<1>10. Present' = Present
  BY <1>1, <1>2, <1>4, <1>9 DEF Present, Cells
<1>11. Stored' = Stored \ {<<p, v>>}
  BY <1>1, <1>2, <1>4, <1>9 DEF Stored, Cells
<1>12. \A e \in Cells : Base(e)' = Base(e)
  BY <1>1, <1>2, <1>4, <1>9 DEF Base, Cells
<1> QED BY <1>8, <1>10, <1>11, <1>12

(* ... MapPage enters a frame, ...                                           *)
LEMMA EntryFilled ==
  ASSUME pte \in [Procs -> [Pages -> EntryT]], NEW p \in Procs, NEW v \in Pages, NEW f \in Numbers,
  pte' = [pte EXCEPT ![p][v].present = TRUE, ![p][v].base = f]
  PROVE /\ pte' \in [Procs -> [Pages -> EntryT]]
        /\ Present' = Present \cup {<<p, v>>} /\ Stored' = Stored
        /\ Base(<<p, v>>)' = f
        /\ \A e \in Cells \ {<<p, v>>} : Base(e)' = Base(e)
<1>1. PICK x \in [Pages -> EntryT] : x = pte[p]
  OBVIOUS
<1>2. PICK y \in EntryT : y = x[v]
  OBVIOUS
<1>3. PICK z : z = [y EXCEPT !.present = TRUE]
  OBVIOUS
<1>4. z \in EntryT /\ z.present = TRUE /\ z.onDisk = y.onDisk /\ z.base = y.base
  BY <1>3 DEF EntryT
<1>a. PICK z2 : z2 = [z EXCEPT !.base = f]
  OBVIOUS
<1>b. z2 \in EntryT /\ z2.present = TRUE /\ z2.onDisk = y.onDisk /\ z2.base = f
  BY <1>4, <1>a DEF EntryT
<1>5. PICK w : w = [x EXCEPT ![v] = z2]
  OBVIOUS
<1>c. pte' = [[pte EXCEPT ![p][v].present = TRUE] EXCEPT ![p][v].base = f]
  OBVIOUS
<1>d. PICK w1 : w1 = [x EXCEPT ![v] = z]
  OBVIOUS
<1>e. [pte EXCEPT ![p][v].present = TRUE] = [pte EXCEPT ![p] = w1]
  BY <1>1, <1>2, <1>3, <1>d, Zenon
<1>f. PICK g : g = [pte EXCEPT ![p] = w1]
  OBVIOUS
<1>g. w1 \in [Pages -> EntryT] /\ w1[v] = z /\ \A u \in Pages : u # v => w1[u] = x[u]
  BY <1>4, <1>d
<1>h. g \in [Procs -> [Pages -> EntryT]] /\ g[p] = w1 /\ \A q \in Procs : q # p => g[q] = pte[q]
  BY <1>f, <1>g
<1>i. PICK w2 : w2 = [w1 EXCEPT ![v] = z2]
  OBVIOUS
<1>j. pte' = [g EXCEPT ![p] = w2]
  <2>1. pte' = [g EXCEPT ![p][v].base = f]
    BY <1>c, <1>e, <1>f, Zenon
  <2>2. z = w1[v] /\ w1 = g[p]
    BY <1>g, <1>h
  <2> QED BY <2>1, <2>2, <1>a, <1>i, Zenon
<1>7. w2 \in [Pages -> EntryT] /\ w2[v] = z2 /\ \A u \in Pages : u # v => w2[u] = x[u]
  BY <1>b, <1>g, <1>i
<1>k. PICK g2 : g2 = [g EXCEPT ![p] = w2]
  OBVIOUS
<1>l. g2 \in [Procs -> [Pages -> EntryT]] /\ g2[p] = w2 /\ \A q \in Procs : q # p => g2[q] = g[q]
  BY <1>k, <1>7, <1>h
<1>8. /\ pte' \in [Procs -> [Pages -> EntryT]] /\ pte'[p] = w2 /\ \A q \in Procs : q # p => pte'[q] = pte[q]
  BY <1>j, <1>k, <1>l, <1>h
<1>9. pte'[p][v] = z2 /\ \A q \in Procs, u \in Pages : q # p \/ u # v => pte'[q][u] = pte[q][u]
  <2>1. pte'[p][v] = z2
    BY <1>7, <1>8
  <2>2. ASSUME NEW q \in Procs, NEW u \in Pages, q # p \/ u # v PROVE pte'[q][u] = pte[q][u]
    <3>1. CASE q # p
      BY <1>8, <3>1
    <3>2. CASE q = p /\ u # v
      BY <1>1, <1>7, <1>8, <3>2
    <3> QED BY <2>2, <3>1, <3>2
  <2> QED BY <2>1, <2>2
<1>10. Present' = Present \cup {<<p, v>>}
  BY <1>1, <1>2, <1>b, <1>9 DEF Present, Cells
<1>11. Stored' = Stored
  BY <1>1, <1>2, <1>b, <1>9 DEF Stored, Cells
<1>12. \A e \in Cells \ {<<p, v>>} : Base(e)' = Base(e)
  BY <1>9 DEF Base, Cells
<1>13. Base(<<p, v>>)' = f
  BY <1>9, <1>b DEF Base
<1> QED BY <1>8, <1>10, <1>11, <1>12, <1>13

(* ... and a new table, or one that is no more, is empty.                    *)
LEMMA EntriesCleared ==
  ASSUME pte \in [Procs -> [Pages -> EntryT]], NEW p \in Procs,
  pte' = [pte EXCEPT ![p] = [v \in Pages |-> EmptyEntry]]
  PROVE /\ pte' \in [Procs -> [Pages -> EntryT]]
        /\ Present' = {e \in Present : e[1] # p} /\ Stored' = {e \in Stored : e[1] # p}
        /\ \A e \in Cells : e[1] # p => Base(e)' = Base(e)
<1>1. EmptyEntry \in EntryT /\ EmptyEntry.present = FALSE /\ EmptyEntry.onDisk = FALSE
  BY DEF EmptyEntry, EntryT, Numbers
<1>2. PICK w : w = [v \in Pages |-> EmptyEntry]
  OBVIOUS
<1>3. w \in [Pages -> EntryT] /\ \A v \in Pages : w[v] = EmptyEntry
  BY <1>1, <1>2
<1>4. pte' = [pte EXCEPT ![p] = w]
  BY <1>2
<1>5. /\ pte' \in [Procs -> [Pages -> EntryT]] /\ \A q \in Procs : q # p => pte'[q] = pte[q]
      /\ \A v \in Pages : pte'[p][v] = EmptyEntry
  BY <1>3, <1>4
<1>6. Present' = {e \in Present : e[1] # p}
  BY <1>1, <1>5 DEF Present, Cells
<1>7. Stored' = {e \in Stored : e[1] # p}
  BY <1>1, <1>5 DEF Stored, Cells
<1>8. \A e \in Cells : e[1] # p => Base(e)' = Base(e)
  BY <1>5 DEF Base, Cells
<1> QED BY <1>5, <1>6, <1>7, <1>8

(* What a job that begins or ends, and one that goes on, changes.            *)
LEMMA JobSet ==
  ASSUME job \in [Procs -> JobT], NEW p \in Procs, NEW j \in JobT, job' = [job EXCEPT ![p] = j]
  PROVE /\ job' \in [Procs -> JobT] /\ job'[p] = j /\ \A q \in Procs \ {p} : job'[q] = job[q] /\ Cell(q)' = Cell(q)
        /\ Cell(p)' = <<p, j.page>>
        /\ (Late \ {p})' = Late \ {p} /\ (p \in Late' <=> j.onDisk)
<1>1. /\ job' \in [Procs -> JobT] /\ job'[p] = j /\ \A q \in Procs \ {p} : job'[q] = job[q]
  OBVIOUS
<1>2. (Late \ {p})' = Late \ {p}
  BY <1>1 DEF Late, JobT
<1>3. p \in Late' <=> j.onDisk
  BY <1>1 DEF Late, JobT
<1>4. \A q \in Procs \ {p} : Cell(q)' = Cell(q)
  BY <1>1 DEF Cell
<1>5. Cell(p)' = <<p, j.page>>
  BY <1>1 DEF Cell
<1> QED BY <1>1, <1>2, <1>3, <1>4, <1>5

LEMMA JobStage ==
  ASSUME job \in [Procs -> JobT], NEW p \in Procs,
    NEW s \in {"none", "writeOut", "written", "got", "readIn", "read"}, job' = [job EXCEPT ![p].stage = s]
  PROVE /\ job' \in [Procs -> JobT] /\ \A q \in Procs \ {p} : job'[q] = job[q]
        /\ job'[p].kind = job[p].kind /\ job'[p].page = job[p].page /\ job'[p].stage = s
        /\ job'[p].frame = job[p].frame /\ job'[p].slot = job[p].slot
        /\ Late' = Late /\ \A q \in Procs : Cell(q)' = Cell(q)
<1>1. PICK x \in JobT : x = job[p]
  OBVIOUS
<1>2. PICK y : y = [x EXCEPT !.stage = s]
  OBVIOUS
<1>3. /\ y \in JobT /\ y.kind = x.kind /\ y.page = x.page /\ y.stage = s /\ y.frame = x.frame /\ y.slot = x.slot
      /\ y.onDisk = x.onDisk
  BY <1>2 DEF JobT
<1>4. job' = [job EXCEPT ![p] = y]
  BY <1>1, <1>2, Zenon
<1>5. job' \in [Procs -> JobT] /\ job'[p] = y /\ \A q \in Procs \ {p} : job'[q] = job[q]
  BY <1>3, <1>4
<1>6. Late' = Late
  BY <1>1, <1>3, <1>5 DEF Late
<1>7. \A q \in Procs : Cell(q)' = Cell(q)
  BY <1>1, <1>3, <1>5 DEF Cell
<1> QED BY <1>1, <1>3, <1>5, <1>6, <1>7

-----------------------------------------------------------------------------
(* The inductive invariant *)

Busy(p)    == job[p].kind # "none"
Writing(p) == job[p].stage \in {"writeOut", "written"}
Given(p)   == job[p].stage \in {"got", "readIn", "read"}
Threads    == Procs \cup {Main}

(* TypeOK, in terms of the sets above.                                              *)
Types == /\ pte \in [Procs -> [Pages -> EntryT]] /\ tables \in [Procs -> SUBSET Frames]
         /\ page \in [Frames -> FrameT] /\ freeList \in Seq(Frames)
         /\ mem \in [Frames \cup {0} -> Contents] /\ swap \in [Slots -> Contents]
         /\ swapMap \subseteq Slots
         /\ life \in [Procs -> {"none", "loading", "running", "dead"}]
         /\ child \in [Threads -> Procs \cup {NoProc}]
         /\ job \in [Procs -> JobT] /\ todo \in [Procs -> 1..(NumPages + 1)]
         /\ broken \in BOOLEAN

(* The process that goes on: the one that runs or is loaded, or whose child has    *)
(* ended.  Where a parent waits for its child there is one at most.                *)
Turn == {p \in Procs : life[p] \in {"loading", "running"} /\ child[p] = NoProc}
        \cup {q \in Threads : child[q] \in Procs /\ life[child[q]] = "dead"}

Chain ==
  /\ \A a, b \in Turn : a = b
  /\ \A p \in Procs : Busy(p) =>
       /\ child[p] = NoProc
       /\ life[p] = IF job[p].kind = "fault" THEN "running" ELSE "loading"
  /\ \A p \in Procs : life[p] # "running" => child[p] = NoProc
  /\ \A q, r \in Threads : child[q] = child[r] /\ child[q] # NoProc => q = r
  /\ \A q \in Threads : child[q] # NoProc => life[child[q]] # "none"
  /\ life[Shell] # "dead" /\ child[Main] \in {Shell, NoProc}
  /\ child[Main] = NoProc => \A p \in Procs : life[p] = "none"

(* What a job is about: a page that is not present, and a frame for it: the frame it *)
(* waits for while the page there is written out, or the one it was given.          *)
JobIdle(p) == /\ (job[p].kind = "none" <=> job[p].stage = "none")
              /\ (~Busy(p) => p \notin Late)
JobPage(p) == Busy(p) => /\ Cell(p) \notin Present
                         /\ Cell(p) \in Stored => p \in Late
JobWrites(p) == Writing(p) => /\ job[p].frame \in Frames /\ job[p].slot \in Slots
                              /\ "LOCKED" \in page[job[p].frame].flags
                              /\ job[p].stage = "writeOut" => job[p].slot \notin swapMap
JobNoFrame(p) == Given(p) /\ job[p].frame = 0 /\ p \in Late => Cell(p) \in Stored
JobFrame(p) == Given(p) /\ job[p].frame # 0 =>
                 /\ page[job[p].frame].flags = {"ALLOCATED", "PAGEABLE"}
                 /\ page[job[p].frame].entry = Cell(p)
                 /\ Cell(p) \notin Stored
JobReads(p) == job[p].stage \in {"readIn", "read"} => p \in Late /\ job[p].kind = "fault"
JobLoads(p) == job[p].kind = "load" => job[p].page = todo[p] /\ p \notin Late

JobOf(p) == /\ JobIdle(p) /\ JobPage(p) /\ JobWrites(p) /\ JobNoFrame(p) /\ JobFrame(p)
            /\ JobReads(p) /\ JobLoads(p)

(* The pages that are still to be loaded are not there.                             *)
LoadingOf(p) == life[p] = "loading" =>
  \A v \in Pages : v >= todo[p] => <<p, v>> \notin Present /\ <<p, v>> \notin Stored

(* The flags of a frame say where it is.                                            *)
FrameOf(f) ==
  /\ page[f].flags \in {{}, {"ALLOCATED"}, {"ALLOCATED", "PAGEABLE"}, {"ALLOCATED", "LOCKED"}, {"LOCKED"}}
  /\ page[f].flags = {} <=> Contains(freeList, f)
  /\ page[f].flags = {"ALLOCATED"} <=> \E p \in Procs : f \in tables[p]
  /\ "LOCKED" \in page[f].flags => \E p \in Procs : Writing(p) /\ job[p].frame = f
  /\ page[f].flags = {"ALLOCATED", "LOCKED"} => page[f].entry \in Mapped /\ Base(page[f].entry) = f
  /\ page[f].flags = {"ALLOCATED", "PAGEABLE"} =>
       \/ page[f].entry \in Mapped /\ Base(page[f].entry) = f
       \/ \E p \in Procs : Given(p) /\ job[p].frame = f

TablesSound ==
  /\ \A p, q \in Procs : p # q => tables[p] \cap tables[q] = {}
  /\ \A p \in Procs : life[p] = "none" => tables[p] = {}

MappedSound ==
  \A e \in Mapped : /\ Base(e) \in Frames /\ page[Base(e)].entry = e
                    /\ page[Base(e)].flags \in {{"ALLOCATED", "PAGEABLE"}, {"ALLOCATED", "LOCKED"}}

FramesSound ==
  /\ Distinct(freeList)
  /\ \A f \in Frames : FrameOf(f)
  /\ TablesSound /\ MappedSound

SlotsSound ==
  /\ \A e \in OnDisk : Base(e) \in swapMap
  /\ \A d, e \in OnDisk : Base(d) = Base(e) => d = e
  /\ \A p \in Procs : job[p].stage = "written" =>
       job[p].slot \in swapMap /\ \A e \in OnDisk : Base(e) # job[p].slot
  /\ \A s \in swapMap : \/ \E e \in OnDisk : Base(e) = s
                        \/ \E p \in Procs : job[p].stage = "written" /\ job[p].slot = s

(* The contents are where they should be; and what was written out, or read in, is   *)
(* the page's.                                                                        *)
ContentsSound ==
  /\ \A e \in Mapped : mem[Base(e)] = e
  /\ \A e \in OnDisk : swap[Base(e)] = e
  /\ \A p \in Procs : job[p].stage = "written" /\ "ALLOCATED" \in page[job[p].frame].flags =>
       swap[job[p].slot] = page[job[p].frame].entry
  /\ \A p \in Procs : job[p].stage = "read" /\ job[p].frame # 0 => mem[job[p].frame] = Cell(p)

JobsSound == \A p \in Procs : JobOf(p) /\ LoadingOf(p)

PagingParts == Types /\ Chain /\ JobsSound /\ FramesSound /\ SlotsSound /\ ContentsSound
PagingInv == Types /\ (broken \/ PagingParts)

-----------------------------------------------------------------------------
(* The parts of the invariant, and what keeps them *)

(* Types is the type invariant.                                              *)
LEMMA TypesAre == TypeOK <=> Types
  BY DEF TypeOK, Types, EntryT, FrameT, JobT, Threads

(* The fields of a job and of an entry have their types.                     *)
LEMMA JobFields ==
  ASSUME job \in [Procs -> JobT], NEW p \in Procs
  PROVE /\ job[p] \in JobT
        /\ job[p].kind \in {"none", "fault", "load"} /\ job[p].page \in Pages
        /\ job[p].stage \in {"none", "writeOut", "written", "got", "readIn", "read"}
        /\ job[p].frame \in Frames \cup {0} /\ job[p].slot \in Slots \cup {0}
        /\ Cell(p) \in Cells /\ Cell(p)[1] = p /\ Cell(p)[2] = job[p].page
        /\ p \in Late <=> job[p].onDisk
  BY DEF JobT, Cell, Cells, Late

LEMMA BaseTyped == Types => \A e \in Cells : Base(e) \in Numbers
  BY DEF Base, Cells, EntryT, Types

(* Whose pages are whose; the same of the next state, and of the cells on    *)
(* the disk.                                                                 *)
LEMMA TheirsOf ==
  ASSUME life \in [Procs -> {"none", "loading", "running", "dead"}], todo \in [Procs -> 1..(NumPages + 1)], NEW e \in Cells
  PROVE e \in Theirs <=> \/ life[e[1]] \in {"loading", "running"}
                         \/ life[e[1]] = "dead" /\ e[2] >= todo[e[1]]
<1>1. e[1] \in Procs /\ e[2] \in Pages
  BY CellParts
<1>2. e \in Theirs <=> e[2] \in Owned(e[1])
  BY DEF Theirs
<1>3. CASE life[e[1]] = "none"
  BY <1>1, <1>2, <1>3 DEF Owned
<1>4. CASE life[e[1]] = "dead"
  BY <1>1, <1>2, <1>4 DEF Owned
<1>5. CASE life[e[1]] \in {"loading", "running"}
  <2>1. Owned(e[1]) = Pages
    BY <1>5 DEF Owned
  <2> QED BY <1>1, <1>2, <1>5, <2>1
<1> QED BY <1>1, <1>3, <1>4, <1>5

LEMMA TheirsAre == Types => \A e \in Cells :
  e \in Theirs <=> \/ life[e[1]] \in {"loading", "running"}
                   \/ life[e[1]] = "dead" /\ e[2] >= todo[e[1]]
  BY TheirsOf DEF Types

LEMMA TheirsAreNext == (Types => \A e \in Cells :
  e \in Theirs <=> \/ life[e[1]] \in {"loading", "running"}
                   \/ life[e[1]] = "dead" /\ e[2] >= todo[e[1]])'
  BY TheirsAre, PTL

LEMMA TheirsCells == Theirs \subseteq Cells /\ Present \subseteq Cells /\ Stored \subseteq Cells /\ Awaited \subseteq Cells
  BY DEF Theirs, Present, Stored, Awaited

LEMMA MappedAre ==
  Types => \A e : e \in Mapped <=> e \in Cells /\ e \in Theirs /\ e \in Present /\ Base(e) # 0
  BY MappedIs, TheirsCells DEF Types

LEMMA MappedAreNext ==
  (Types => \A e : e \in Mapped <=> e \in Cells /\ e \in Theirs /\ e \in Present /\ Base(e) # 0)'
  BY MappedAre, PTL

LEMMA AwaitedIs ==
  ASSUME job \in [Procs -> JobT], NEW e
  PROVE e \in Awaited <=> \E p \in Late : e = Cell(p)
<1>1. ASSUME NEW p \in Late PROVE Cell(p) \in Cells /\ Cell(p)[1] = p
  BY JobFields DEF Late
<1> QED BY <1>1 DEF Awaited

LEMMA OnDiskAre ==
  Types => \A e : e \in OnDisk <=> /\ e \in Cells /\ e \in Theirs /\ e \notin Present
                                  /\ (e \in Stored \/ \E p \in Late : e = Cell(p))
<1>1. SUFFICES ASSUME Types, NEW e PROVE e \in OnDisk <=> /\ e \in Cells /\ e \in Theirs /\ e \notin Present
                                  /\ (e \in Stored \/ \E p \in Late : e = Cell(p))
  OBVIOUS
<1>2. e \in Awaited <=> \E p \in Late : e = Cell(p)
  BY <1>1, AwaitedIs DEF Types
<1> QED BY <1>1, <1>2, OnDiskIs, TheirsCells DEF Types

LEMMA OnDiskAreNext ==
  (Types => \A e : e \in OnDisk <=> /\ e \in Cells /\ e \in Theirs /\ e \notin Present
                                   /\ (e \in Stored \/ \E p \in Late : e = Cell(p)))'
  BY OnDiskAre, PTL

(* A process that goes on is the only one.                                   *)
LEMMA Alone ==
  ASSUME Chain, NEW p \in Procs, Busy(p) \/ (life[p] \in {"loading", "running"} /\ child[p] = NoProc)
  PROVE /\ \A r \in Procs \ {p} : ~Busy(r)
        /\ p \in Turn /\ \A q \in Turn : q = p
<1>1. \A q \in Procs : Busy(q) => q \in Turn
  BY DEF Chain, Turn
<1>2. p \in Turn
  BY <1>1 DEF Turn
<1> QED BY <1>1, <1>2 DEF Chain

(* A process that waits for no frame.                                        *)
LEMMA Idle ==
  ASSUME JobsSound, NEW r \in Procs, ~Busy(r)
  PROVE job[r].stage = "none" /\ ~Writing(r) /\ ~Given(r) /\ r \notin Late
  BY DEF JobsSound, JobOf, JobIdle, Busy, Writing, Given

LEMMA IdleKept ==
  ASSUME JobsSound, NEW r \in Procs, ~Busy(r), job'[r] = job[r], r \notin Late' PROVE JobOf(r)' /\ ~Busy(r)' /\ ~Writing(r)' /\ ~Given(r)' /\ job'[r].stage = "none"
<1>1. job'[r].kind = "none" /\ job'[r].stage = "none"
  BY DEF JobsSound, JobOf, JobIdle, Busy
<1> QED BY <1>1 DEF JobOf, JobIdle, JobPage, JobWrites, JobNoFrame, JobFrame, JobReads, JobLoads, Busy, Writing, Given

(* What a step has to leave alone for each part of the invariant to be kept. *)
LEMMA JobKept ==
  ASSUME NEW p \in Procs, JobOf(p), job'[p] = job[p], p \in Late' <=> p \in Late,
    Present' \subseteq Present, Cell(p) \in Stored' <=> Cell(p) \in Stored,
    Writing(p) => "LOCKED" \in page'[job[p].frame].flags,
    Given(p) /\ job[p].frame # 0 => page'[job[p].frame] = page[job[p].frame],
    job[p].slot \in swapMap' => job[p].slot \in swapMap,
    todo'[p] = todo[p]
  PROVE JobOf(p)'
<1>1. Cell(p)' = Cell(p) /\ (Busy(p)' <=> Busy(p)) /\ (Writing(p)' <=> Writing(p)) /\ (Given(p)' <=> Given(p))
  BY DEF Cell, Busy, Writing, Given
<1>2. JobIdle(p)' /\ JobReads(p)' /\ JobLoads(p)'
  BY <1>1 DEF JobOf, JobIdle, JobReads, JobLoads
<1>3. JobPage(p)'
  BY <1>1 DEF JobOf, JobPage
<1>4. JobWrites(p)'
  BY <1>1 DEF JobOf, JobWrites
<1>5. JobNoFrame(p)'
  BY <1>1 DEF JobOf, JobNoFrame
<1>6. JobFrame(p)'
  BY <1>1 DEF JobOf, JobFrame
<1> QED BY <1>2, <1>3, <1>4, <1>5, <1>6 DEF JobOf

LEMMA LoadingKept ==
  ASSUME NEW p \in Procs, LoadingOf(p), life'[p] = life[p], todo'[p] = todo[p],
    \A v \in Pages : (<<p, v>> \in Present' => <<p, v>> \in Present) /\ (<<p, v>> \in Stored' => <<p, v>> \in Stored)
  PROVE LoadingOf(p)'
  BY DEF LoadingOf

LEMMA FramesKept ==
  ASSUME FramesSound, UNCHANGED <<freeList, tables, page>>, Mapped' = Mapped,
    \A e \in Mapped : Base(e)' = Base(e),
    \A p \in Procs : Writing(p) => Writing(p)' /\ job'[p].frame = job[p].frame,
    \A p \in Procs : Given(p) /\ job[p].frame # 0 => Given(p)' /\ job'[p].frame = job[p].frame,
    \A p \in Procs : life'[p] = "none" => life[p] = "none"
  PROVE FramesSound'
<1>1. ASSUME NEW f \in Frames PROVE FrameOf(f)'
  <2>1. FrameOf(f)
    BY DEF FramesSound
  <2>2. page[f].flags = {"ALLOCATED", "LOCKED"} => page[f].entry \in Mapped' /\ Base(page[f].entry)' = f
    BY <2>1 DEF FrameOf
  <2>3. page[f].flags = {"ALLOCATED", "PAGEABLE"} =>
       \/ page[f].entry \in Mapped' /\ Base(page[f].entry)' = f
       \/ \E p \in Procs : Given(p)' /\ job'[p].frame = f
    <3>1. f # 0
      BY DEF Frames
    <3> QED BY <2>1, <3>1 DEF FrameOf
  <2>4. "LOCKED" \in page[f].flags => \E p \in Procs : Writing(p)' /\ job'[p].frame = f
    BY <2>1 DEF FrameOf
  <2>5. /\ page'[f].flags \in {{}, {"ALLOCATED"}, {"ALLOCATED", "PAGEABLE"}, {"ALLOCATED", "LOCKED"}, {"LOCKED"}}
        /\ page'[f].flags = {} <=> Contains(freeList', f)
        /\ page'[f].flags = {"ALLOCATED"} <=> \E p \in Procs : f \in tables'[p]
    BY <2>1 DEF FrameOf
  <2> QED BY <2>2, <2>3, <2>4, <2>5 DEF FrameOf
<1>2. TablesSound'
  BY DEF FramesSound, TablesSound
<1>3. MappedSound'
  BY DEF FramesSound, MappedSound
<1>4. Distinct(freeList')
  BY DEF FramesSound
<1> QED BY <1>1, <1>2, <1>3, <1>4 DEF FramesSound

LEMMA SlotsKept ==
  ASSUME SlotsSound, UNCHANGED swapMap, OnDisk' = OnDisk, \A e \in OnDisk : Base(e)' = Base(e),
    \A p \in Procs : job'[p].stage = "written" <=> job[p].stage = "written",
    \A p \in Procs : job[p].stage = "written" => job'[p].slot = job[p].slot
  PROVE SlotsSound'
<1>1. \A e \in OnDisk' : Base(e)' \in swapMap'
  BY DEF SlotsSound
<1>2. \A d, e \in OnDisk' : Base(d)' = Base(e)' => d = e
  BY DEF SlotsSound
<1>3. \A p \in Procs : job'[p].stage = "written" =>
       job'[p].slot \in swapMap' /\ \A e \in OnDisk' : Base(e)' # job'[p].slot
  BY DEF SlotsSound
<1>4. \A s \in swapMap' : \/ \E e \in OnDisk' : Base(e)' = s
                        \/ \E p \in Procs : job'[p].stage = "written" /\ job'[p].slot = s
  BY DEF SlotsSound
<1> QED BY <1>1, <1>2, <1>3, <1>4 DEF SlotsSound

LEMMA ContentsKept ==
  ASSUME ContentsSound, UNCHANGED <<mem, swap>>, Mapped' = Mapped, OnDisk' = OnDisk,
    \A e \in Mapped \cup OnDisk : Base(e)' = Base(e),
    \A p \in Procs : job'[p].stage = "written" =>
       /\ job[p].stage = "written" /\ job'[p].slot = job[p].slot /\ job'[p].frame = job[p].frame
       /\ "ALLOCATED" \in page'[job[p].frame].flags =>
            "ALLOCATED" \in page[job[p].frame].flags /\ page'[job[p].frame].entry = page[job[p].frame].entry,
    \A p \in Procs : job'[p].stage = "read" =>
       job[p].stage = "read" /\ Cell(p)' = Cell(p) /\ job'[p].frame = job[p].frame
  PROVE ContentsSound'
<1>1. \A e \in Mapped' : mem'[Base(e)'] = e
  BY DEF ContentsSound
<1>2. \A e \in OnDisk' : swap'[Base(e)'] = e
  BY DEF ContentsSound
<1>3. \A p \in Procs : job'[p].stage = "written" /\ "ALLOCATED" \in page'[job'[p].frame].flags =>
       swap'[job'[p].slot] = page'[job'[p].frame].entry
  BY DEF ContentsSound
<1>4. \A p \in Procs : job'[p].stage = "read" /\ job'[p].frame # 0 => mem'[job'[p].frame] = Cell(p)'
  BY DEF ContentsSound
<1> QED BY <1>1, <1>2, <1>3, <1>4 DEF ContentsSound

(* Where neither entries nor jobs nor owners change, the cells are where     *)
(* they were.                                                                *)
LEMMA SameEntries ==
  ASSUME Types, Types', pte' = pte, Late' = Late, \A p \in Late : Cell(p)' = Cell(p), Theirs' = Theirs
  PROVE /\ Present' = Present /\ Stored' = Stored /\ \A e : Base(e)' = Base(e)
        /\ Mapped' = Mapped /\ OnDisk' = OnDisk
<1>1. Present' = Present /\ Stored' = Stored
  BY DEF Present, Stored
<1>2. \A e : Base(e)' = Base(e)
  BY DEF Base
<1>4. Mapped' = Mapped
  <2>1. \A e : e \in Mapped' <=> e \in Mapped
    BY <1>1, <1>2, MappedAre, MappedAreNext
  <2> QED BY <2>1, TheirsCells DEF Mapped
<1>5. OnDisk' = OnDisk
  <2>1. \A e : e \in OnDisk' <=> e \in OnDisk
    BY <1>1, OnDiskAre, OnDiskAreNext
  <2> QED BY <2>1 DEF OnDisk
<1> QED BY <1>1, <1>2, <1>4, <1>5

LEMMA SameTheirs ==
  ASSUME UNCHANGED <<life, todo>> PROVE Theirs' = Theirs
  BY DEF Theirs, Owned

LEMMA SameJobs ==
  ASSUME job' = job
  PROVE /\ Late' = Late /\ \A p \in Procs : /\ Cell(p)' = Cell(p) /\ (Busy(p)' <=> Busy(p))
                                           /\ (Writing(p)' <=> Writing(p)) /\ (Given(p)' <=> Given(p))
  BY DEF Late, Cell, Busy, Writing, Given

-----------------------------------------------------------------------------
(* Parents and children *)

(* Sys_Wait returns the turn to the parent.                                  *)
LEMMA SysWaitKeeps ==
  ASSUME PagingParts, NEW q \in Threads, NEW p \in Procs, Sys_Wait(q, p) PROVE PagingParts'
<1>1. /\ child[q] = p /\ life[p] = "dead" /\ child' = [child EXCEPT ![q] = NoProc]
      /\ pte' = pte /\ tables' = tables /\ page' = page /\ freeList' = freeList /\ mem' = mem /\ swap' = swap
      /\ swapMap' = swapMap /\ life' = life /\ todo' = todo /\ job' = job /\ broken' = broken
  BY DEF Sys_Wait, frameVars, dataVars
<1>2. Types /\ Chain /\ JobsSound /\ FramesSound /\ SlotsSound /\ ContentsSound
  BY DEF PagingParts
<1>3. child' \in [Threads -> Procs \cup {NoProc}] /\ child'[q] = NoProc /\ \A r \in Threads \ {q} : child'[r] = child[r]
  BY <1>1, <1>2 DEF Types
<1>4. Types'
  BY <1>1, <1>2, <1>3 DEF Types
<1>5. Theirs' = Theirs /\ Late' = Late /\ \A r \in Procs : /\ Cell(r)' = Cell(r) /\ (Busy(r)' <=> Busy(r))
                                           /\ (Writing(r)' <=> Writing(r)) /\ (Given(r)' <=> Given(r))
  BY <1>1, SameTheirs, SameJobs
<1>6. /\ Present' = Present /\ Stored' = Stored /\ \A e : Base(e)' = Base(e)
      /\ Mapped' = Mapped /\ OnDisk' = OnDisk
  BY <1>1, <1>2, <1>4, <1>5, SameEntries DEF Late
<1>7. Chain'
  <2>1. NoProc \notin Procs /\ Shell \in Procs /\ Main \notin Procs
    BY PagingAssumption
  <2>2. q \in Turn /\ q # Main
    BY <1>1, <1>2, <2>1 DEF Chain, Turn
  <2>3. q \in Procs /\ life[q] = "running"
    BY <1>1, <1>2, <2>1, <2>2 DEF Chain, Threads
  <2>4. \A r \in Turn' : r \in Turn
    BY <1>1, <1>3, <2>1, <2>2 DEF Turn, Threads
  <2>5. \A r \in Procs : Busy(r)' => child'[r] = NoProc /\ life'[r] = IF job'[r].kind = "fault" THEN "running" ELSE "loading"
    BY <1>1, <1>2, <1>3, <1>5 DEF Chain, Threads
  <2>6. child'[Main] = child[Main]
    BY <1>3, <2>2 DEF Threads
  <2>7. \A r \in Procs : life'[r] # "running" => child'[r] = NoProc
    BY <1>1, <1>2, <1>3 DEF Chain, Threads
  <2>8. \A r, s \in Threads : child'[r] = child'[s] /\ child'[r] # NoProc => r = s
    BY <1>2, <1>3 DEF Chain
  <2>9. \A r \in Threads : child'[r] # NoProc => life'[child'[r]] # "none"
    BY <1>1, <1>2, <1>3 DEF Chain
  <2> QED BY <1>1, <1>2, <2>4, <2>5, <2>6, <2>7, <2>8, <2>9 DEF Chain
<1>8. JobsSound'
  <2>1. SUFFICES ASSUME NEW r \in Procs PROVE JobOf(r)' /\ LoadingOf(r)'
    BY DEF JobsSound
  <2>2. JobOf(r) /\ LoadingOf(r)
    BY <1>2 DEF JobsSound
  <2>3. JobOf(r)'
    BY <1>1, <1>5, <1>6, <2>2, JobKept DEF JobOf, JobWrites
  <2>4. LoadingOf(r)'
    BY <1>1, <1>6, <2>2, LoadingKept
  <2> QED BY <2>3, <2>4
<1>9. FramesSound'
  BY <1>1, <1>2, <1>5, <1>6, FramesKept
<1>10. SlotsSound'
  BY <1>1, <1>2, <1>6, SlotsKept
<1>11. ContentsSound'
  BY <1>1, <1>2, <1>5, <1>6, ContentsKept
<1> QED BY <1>4, <1>7, <1>8, <1>9, <1>10, <1>11 DEF PagingParts

(* Start_User_Thread passes it on: the parent waits.                         *)
LEMMA StartKeeps ==
  ASSUME Concurrent = FALSE, PagingParts, NEW q \in Threads, NEW p \in Procs, Start_User_Thread(q, p) PROVE PagingParts'
<1>1. /\ child[q] = p /\ life[p] = "loading" /\ job[p].kind = "none" /\ todo[p] \notin Image
      /\ life' = [life EXCEPT ![p] = "running"] /\ child' = [child EXCEPT ![q] = p]
      /\ pte' = pte /\ tables' = tables /\ page' = page /\ freeList' = freeList /\ mem' = mem /\ swap' = swap
      /\ swapMap' = swapMap /\ todo' = todo /\ job' = job /\ broken' = broken
  BY DEF Start_User_Thread, frameVars, dataVars
<1>2. Types /\ Chain /\ JobsSound /\ FramesSound /\ SlotsSound /\ ContentsSound
  BY DEF PagingParts
<1>3. /\ life' \in [Procs -> {"none", "loading", "running", "dead"}]
      /\ life'[p] = "running" /\ \A r \in Procs \ {p} : life'[r] = life[r]
  BY <1>1, <1>2 DEF Types
<1>a. child' = child
  BY <1>1, <1>2 DEF Types
<1>4. Types'
  BY <1>1, <1>2, <1>3, <1>a DEF Types
<1>5. Late' = Late /\ \A r \in Procs : /\ Cell(r)' = Cell(r) /\ (Busy(r)' <=> Busy(r))
                                           /\ (Writing(r)' <=> Writing(r)) /\ (Given(r)' <=> Given(r))
  BY <1>1, SameJobs
<1>b. Theirs' = Theirs
  <2>1. ASSUME NEW e \in Cells PROVE e \in Theirs' <=> e \in Theirs
    BY <1>1, <1>2, <1>3, <1>4, TheirsAre, TheirsAreNext, CellParts
  <2> QED BY <2>1 DEF Theirs
<1>6. /\ Present' = Present /\ Stored' = Stored /\ \A e : Base(e)' = Base(e)
      /\ Mapped' = Mapped /\ OnDisk' = OnDisk
  BY <1>1, <1>2, <1>4, <1>5, <1>b, SameEntries DEF Late
<1>7. Chain'
  <2>1. NoProc \notin Procs /\ Shell \in Procs /\ Main \notin Procs
    BY PagingAssumption
  <2>2. child[p] = NoProc
    BY <1>1, <1>2 DEF Chain
  <2>4. \A r \in Turn' : r \in Turn
    BY <1>1, <1>3, <1>a, <2>1, <2>2 DEF Turn
  <2>5. \A r \in Procs : Busy(r)' => child'[r] = NoProc /\ life'[r] = IF job'[r].kind = "fault" THEN "running" ELSE "loading"
    BY <1>1, <1>2, <1>3, <1>5, <1>a DEF Chain, Busy
  <2>7. \A r \in Procs : life'[r] # "running" => child'[r] = NoProc
    BY <1>1, <1>2, <1>3, <1>a DEF Chain
  <2>8. \A r, s \in Threads : child'[r] = child'[s] /\ child'[r] # NoProc => r = s
    BY <1>2, <1>a DEF Chain
  <2>9. \A r \in Threads : child'[r] # NoProc => life'[child'[r]] # "none"
    BY <1>1, <1>2, <1>3, <1>a DEF Chain
  <2>10. life'[Shell] # "dead" /\ child'[Main] \in {Shell, NoProc} /\ (child'[Main] = NoProc => \A r \in Procs : life'[r] = "none")
    BY <1>1, <1>2, <1>3, <1>a, <2>1 DEF Chain
  <2> QED BY <1>2, <2>4, <2>5, <2>7, <2>8, <2>9, <2>10 DEF Chain
<1>8. JobsSound'
  <2>1. SUFFICES ASSUME NEW r \in Procs PROVE JobOf(r)' /\ LoadingOf(r)'
    BY DEF JobsSound
  <2>2. JobOf(r) /\ LoadingOf(r)
    BY <1>2 DEF JobsSound
  <2>3. JobOf(r)'
    BY <1>1, <1>5, <1>6, <2>2, JobKept DEF JobOf, JobWrites
  <2>4. LoadingOf(r)'
    <3>1. CASE r = p
      BY <3>1, <1>3 DEF LoadingOf
    <3>2. CASE r # p
      BY <1>1, <1>3, <1>6, <2>2, <3>2, LoadingKept
    <3> QED BY <3>1, <3>2
  <2> QED BY <2>3, <2>4
<1>9. FramesSound'
  BY <1>1, <1>2, <1>3, <1>5, <1>6, FramesKept
<1>10. SlotsSound'
  BY <1>1, <1>2, <1>6, SlotsKept
<1>11. ContentsSound'
  BY <1>1, <1>2, <1>5, <1>6, ContentsKept
<1> QED BY <1>4, <1>7, <1>8, <1>9, <1>10, <1>11 DEF PagingParts

-----------------------------------------------------------------------------
(* Processes end *)

(* A job that is over.                                                       *)
LEMMA NoJobIs == /\ NoJob \in JobT /\ NoJob.kind = "none" /\ NoJob.stage = "none" /\ NoJob.onDisk = FALSE
                 /\ NoJob.frame = 0 /\ NoJob.slot = 0
  BY PagingAssumption DEF NoJob, JobT, Pages

LEMMA NoJobOf ==
  ASSUME NEW p \in Procs, job'[p] = NoJob, p \notin Late'
  PROVE JobOf(p)' /\ ~Busy(p)' /\ ~Writing(p)' /\ ~Given(p)' /\ job'[p].stage = "none"
  BY NoJobIs DEF JobOf, JobIdle, JobPage, JobWrites, JobNoFrame, JobFrame, JobReads, JobLoads, Busy, Writing, Given

(* The turn stays where it is.                                               *)
LEMMA ChainKept ==
  ASSUME Chain, child' = child, life' = life,
    \A r \in Procs : Busy(r)' => child[r] = NoProc /\ life[r] = IF job'[r].kind = "fault" THEN "running" ELSE "loading"
  PROVE Chain'
<1>1. Turn' = Turn
  BY DEF Turn
<1>2. \A r \in Procs : Busy(r)' => child'[r] = NoProc /\ life'[r] = IF job'[r].kind = "fault" THEN "running" ELSE "loading"
  OBVIOUS
<1> QED BY <1>1, <1>2 DEF Chain

(* A process dies, without a frame in its hands.                             *)
LEMMA DieKeeps ==
  ASSUME PagingParts, NEW p \in Procs, life[p] = "running", child[p] = NoProc, p # Shell,
    p \in Late => Cell(p) \in Stored, ~Writing(p), Given(p) => job[p].frame = 0, Die(p),
    UNCHANGED <<pte, tables, page, freeList, mem, swap, swapMap, child, broken>>
  PROVE PagingParts'
<1>1. /\ life' = [life EXCEPT ![p] = "dead"] /\ todo' = [todo EXCEPT ![p] = 1] /\ job' = [job EXCEPT ![p] = NoJob]
      /\ pte' = pte /\ tables' = tables /\ page' = page /\ freeList' = freeList /\ mem' = mem /\ swap' = swap
      /\ swapMap' = swapMap /\ child' = child /\ broken' = broken
  BY DEF Die
<1>2. Types /\ Chain /\ JobsSound /\ FramesSound /\ SlotsSound /\ ContentsSound
  BY DEF PagingParts
<1>3. /\ life' \in [Procs -> {"none", "loading", "running", "dead"}]
      /\ life'[p] = "dead" /\ \A r \in Procs \ {p} : life'[r] = life[r]
  BY <1>1, <1>2 DEF Types
<1>4. /\ todo' \in [Procs -> 1..(NumPages + 1)] /\ todo'[p] = 1 /\ \A r \in Procs \ {p} : todo'[r] = todo[r]
  <2>1. 1 \in 1..(NumPages + 1)
    BY PagingAssumption
  <2> QED BY <1>1, <1>2, <2>1 DEF Types
<1>5. /\ job' \in [Procs -> JobT] /\ job'[p] = NoJob /\ \A r \in Procs \ {p} : job'[r] = job[r] /\ Cell(r)' = Cell(r)
      /\ (Late \ {p})' = Late \ {p} /\ p \notin Late'
  BY <1>1, <1>2, NoJobIs, JobSet DEF Types
<1>6. Types'
  BY <1>1, <1>2, <1>3, <1>4, <1>5 DEF Types
<1>7. \A r \in Procs \ {p} : ~Busy(r) /\ ~Writing(r) /\ ~Given(r) /\ r \notin Late /\ job[r].stage = "none"
  BY <1>2, Alone, Idle
<1>8. JobOf(p)' /\ ~Busy(p)' /\ ~Writing(p)' /\ ~Given(p)' /\ job'[p].stage = "none"
  BY <1>5, NoJobOf
<1>9. \A r \in Procs \ {p} : JobOf(r)' /\ ~Busy(r)' /\ ~Writing(r)' /\ ~Given(r)' /\ job'[r].stage = "none"
  BY <1>2, <1>5, <1>7, IdleKept
<1>10. Late' = {}
  BY <1>5, <1>7 DEF Late
<1>11. Present' = Present /\ Stored' = Stored /\ \A e : Base(e)' = Base(e)
  BY <1>1 DEF Present, Stored, Base
<1>12. \A e \in Cells : e \in Theirs' <=> e \in Theirs
  <2>1. SUFFICES ASSUME NEW e \in Cells PROVE e \in Theirs' <=> e \in Theirs
    OBVIOUS
  <2>2. e[1] \in Procs /\ e[2] \in Nat /\ e[2] >= 1
    BY CellParts, PagingAssumption DEF Pages
  <2>3. CASE e[1] = p
    BY <1>2, <1>3, <1>4, <1>6, <2>2, <2>3, TheirsAre, TheirsAreNext
  <2>4. CASE e[1] # p
    BY <1>2, <1>3, <1>4, <1>6, <2>2, <2>4, TheirsAre, TheirsAreNext
  <2> QED BY <2>3, <2>4
<1>13. Mapped' = Mapped
  <2>1. \A e : e \in Mapped' <=> e \in Mapped
    BY <1>2, <1>6, <1>11, <1>12, MappedAre, MappedAreNext
  <2> QED BY <2>1 DEF Mapped
<1>14. OnDisk' = OnDisk
  <2>1. \A r \in Late : r = p
    BY <1>7 DEF Late
  <2>2. \A e : e \in OnDisk' <=> e \in OnDisk
    BY <1>2, <1>6, <1>10, <1>11, <1>12, <2>1, OnDiskAre, OnDiskAreNext
  <2> QED BY <2>2 DEF OnDisk
<1>15. Chain'
  <2>1. NoProc \notin Procs /\ Shell \in Procs /\ Main \notin Procs
    BY PagingAssumption
  <2>2. p \in Turn /\ \A r \in Turn : r = p
    BY <1>2, Alone
  <2>3. p \notin Turn'
    BY <1>1, <1>3, <2>1 DEF Turn
  <2>4. \A r \in Turn' : child[r] = p
    BY <1>1, <1>3, <2>1, <2>2, <2>3 DEF Turn
  <2>5. \A a, b \in Turn' : a = b
    BY <1>2, <2>1, <2>4 DEF Chain, Turn, Threads
  <2>6. \A r \in Procs : Busy(r)' => child'[r] = NoProc /\ life'[r] = IF job'[r].kind = "fault" THEN "running" ELSE "loading"
    BY <1>8, <1>9
  <2>7. \A r \in Procs : life'[r] # "running" => child'[r] = NoProc
    BY <1>1, <1>2, <1>3 DEF Chain
  <2>8. \A r, s \in Threads : child'[r] = child'[s] /\ child'[r] # NoProc => r = s
    BY <1>1, <1>2 DEF Chain
  <2>9. \A r \in Threads : child'[r] # NoProc => life'[child'[r]] # "none"
    BY <1>1, <1>2, <1>3 DEF Chain, Types
  <2>10. life'[Shell] # "dead" /\ child'[Main] \in {Shell, NoProc} /\ (child'[Main] = NoProc => \A r \in Procs : life'[r] = "none")
    BY <1>1, <1>2, <1>3, <2>1 DEF Chain
  <2> QED BY <2>5, <2>6, <2>7, <2>8, <2>9, <2>10 DEF Chain
<1>16. JobsSound'
  <2>1. SUFFICES ASSUME NEW r \in Procs PROVE JobOf(r)' /\ LoadingOf(r)'
    BY DEF JobsSound
  <2>2. JobOf(r) /\ LoadingOf(r)
    BY <1>2 DEF JobsSound
  <2>3. JobOf(r)'
    BY <1>8, <1>9
  <2>4. LoadingOf(r)'
    <3>1. CASE r = p
      BY <3>1, <1>3 DEF LoadingOf
    <3>2. CASE r # p
      BY <1>1, <1>3, <1>4, <1>11, <2>2, <3>2, LoadingKept
    <3> QED BY <3>1, <3>2
  <2> QED BY <2>3, <2>4
<1>17. FramesSound'
  BY <1>1, <1>2, <1>3, <1>7, <1>11, <1>13, FramesKept
<1>18. \A r \in Procs : job'[r].stage = "none" /\ job[r].stage # "written"
  BY <1>7, <1>8, <1>9 DEF Writing
<1>19. SlotsSound'
  BY <1>1, <1>2, <1>11, <1>14, <1>18, SlotsKept
<1>20. ContentsSound'
  BY <1>1, <1>2, <1>11, <1>13, <1>14, <1>18, ContentsKept
<1> QED BY <1>6, <1>15, <1>16, <1>17, <1>19, <1>20 DEF PagingParts

LEMMA ExitKeeps ==
  ASSUME PagingParts, NEW p \in Procs, Exit(p) PROVE PagingParts'
<1>1. /\ life[p] = "running" /\ child[p] = NoProc /\ job[p].kind = "none" /\ p # Shell /\ Die(p)
      /\ UNCHANGED <<pte, tables, page, freeList, mem, swap, swapMap, child, broken>>
  BY DEF Exit, Runs, frameVars, dataVars
<1>2. ~Busy(p)
  BY <1>1 DEF Busy
<1>3. ~Writing(p) /\ ~Given(p) /\ p \notin Late
  BY <1>2, Idle DEF PagingParts
<1> QED BY <1>1, <1>3, DieKeeps

(* Write_To_Paging_File marks the slot, which nobody has taken meanwhile.    *)
LEMMA WriteKeeps ==
  ASSUME PagingParts, NEW p \in Procs, Write_To_Paging_File(p) PROVE PagingParts'
<1>1. /\ job[p].stage = "writeOut" /\ swap' = [swap EXCEPT ![job[p].slot] = mem[job[p].frame]]
      /\ swapMap' = swapMap \cup {job[p].slot} /\ job' = [job EXCEPT ![p].stage = "written"]
      /\ pte' = pte /\ tables' = tables /\ page' = page /\ freeList' = freeList /\ mem' = mem
      /\ life' = life /\ todo' = todo /\ child' = child /\ broken' = broken
  BY DEF Write_To_Paging_File, frameVars, procVars
<1>2. Types /\ Chain /\ JobsSound /\ FramesSound /\ SlotsSound /\ ContentsSound
  BY DEF PagingParts
<1>3. JobOf(p) /\ Writing(p) /\ Busy(p)
  BY <1>1, <1>2 DEF JobsSound, JobOf, JobIdle, Writing, Busy
<1>4. /\ job[p].frame \in Frames /\ job[p].slot \in Slots /\ job[p].slot \notin swapMap
      /\ "LOCKED" \in page[job[p].frame].flags
  BY <1>1, <1>3 DEF JobOf, JobWrites
<1>5. /\ job' \in [Procs -> JobT] /\ \A r \in Procs \ {p} : job'[r] = job[r]
      /\ job'[p].kind = job[p].kind /\ job'[p].page = job[p].page /\ job'[p].stage = "written"
      /\ job'[p].frame = job[p].frame /\ job'[p].slot = job[p].slot
      /\ Late' = Late /\ \A r \in Procs : Cell(r)' = Cell(r)
  BY <1>1, <1>2, JobStage DEF Types
<1>6. PICK s \in Slots, f \in Frames : s = job[p].slot /\ f = job[p].frame
  BY <1>4
<1>7. mem[f] \in Contents
  BY <1>2, <1>6 DEF Types
<1>8. swap' \in [Slots -> Contents] /\ swap'[s] = mem[f] /\ \A x \in Slots \ {s} : swap'[x] = swap[x]
  BY <1>1, <1>2, <1>6, <1>7 DEF Types
<1>9. Types'
  BY <1>1, <1>2, <1>5, <1>6, <1>8 DEF Types
<1>10. Theirs' = Theirs
  BY <1>1, SameTheirs
<1>11. /\ Present' = Present /\ Stored' = Stored /\ \A e : Base(e)' = Base(e)
       /\ Mapped' = Mapped /\ OnDisk' = OnDisk
  BY <1>1, <1>2, <1>5, <1>9, <1>10, SameEntries DEF Late
<1>12. \A r \in Procs \ {p} : ~Busy(r) /\ ~Writing(r) /\ ~Given(r) /\ r \notin Late /\ job[r].stage = "none"
  BY <1>2, <1>3, Alone, Idle
<1>13. \A r \in Procs \ {p} : JobOf(r)' /\ ~Busy(r)' /\ ~Writing(r)' /\ ~Given(r)' /\ job'[r].stage = "none"
  BY <1>2, <1>5, <1>12, IdleKept
<1>14. Writing(p)' /\ Busy(p)' /\ ~Given(p)' /\ ~Given(p)
  BY <1>1, <1>3, <1>5 DEF Writing, Busy, Given
<1>15. Chain'
  BY <1>1, <1>2, <1>3, <1>5, <1>13, ChainKept DEF Chain
<1>16. JobOf(p)'
  <2>1. JobIdle(p)' /\ JobPage(p)' /\ JobReads(p)' /\ JobLoads(p)'
    BY <1>1, <1>3, <1>5, <1>11, <1>14 DEF JobOf, JobIdle, JobPage, JobReads, JobLoads
  <2>2. JobWrites(p)'
    BY <1>1, <1>4, <1>5 DEF JobWrites
  <2>3. JobNoFrame(p)' /\ JobFrame(p)'
    BY <1>14 DEF JobNoFrame, JobFrame
  <2> QED BY <2>1, <2>2, <2>3 DEF JobOf
<1>17. JobsSound'
  <2>1. \A r \in Procs : LoadingOf(r)'
    BY <1>1, <1>2, <1>11, LoadingKept DEF JobsSound
  <2> QED BY <1>13, <1>16, <2>1 DEF JobsSound
<1>18. FramesSound'
  <2>1. \A r \in Procs : Writing(r) => Writing(r)' /\ job'[r].frame = job[r].frame
    BY <1>5, <1>12, <1>14
  <2>2. \A r \in Procs : ~Given(r)
    BY <1>12, <1>14
  <2> QED BY <1>1, <1>2, <1>11, <2>1, <2>2, FramesKept
<1>19. SlotsSound'
  <2>1. \A e \in OnDisk' : Base(e)' \in swapMap' /\ Base(e)' # s
    BY <1>1, <1>2, <1>4, <1>6, <1>11 DEF SlotsSound
  <2>2. \A d, e \in OnDisk' : Base(d)' = Base(e)' => d = e
    BY <1>2, <1>11 DEF SlotsSound
  <2>3. \A r \in Procs : job'[r].stage = "written" =>
       job'[r].slot \in swapMap' /\ \A e \in OnDisk' : Base(e)' # job'[r].slot
    BY <1>1, <1>5, <1>6, <1>13, <2>1
  <2>4. ASSUME NEW x \in swapMap' PROVE \/ \E e \in OnDisk' : Base(e)' = x
                        \/ \E r \in Procs : job'[r].stage = "written" /\ job'[r].slot = x
    <3>1. CASE x = s
      BY <1>5, <1>6, <3>1
    <3>2. CASE x # s
      <4>1. x \in swapMap
        BY <1>1, <1>6, <3>2
      <4>2. \A r \in Procs : job[r].stage # "written"
        BY <1>1, <1>12
      <4> QED BY <1>2, <1>11, <4>1, <4>2 DEF SlotsSound
    <3> QED BY <3>1, <3>2
  <2> QED BY <2>1, <2>2, <2>3, <2>4 DEF SlotsSound
<1>20. ContentsSound'
  <2>1. \A e \in Mapped' : mem'[Base(e)'] = e
    BY <1>1, <1>2, <1>11 DEF ContentsSound
  <2>2. \A e \in OnDisk' : swap'[Base(e)'] = e
    <3>1. \A e \in OnDisk : Base(e) \in Slots \ {s}
      BY <1>2, <1>4, <1>6 DEF SlotsSound, Types
    <3> QED BY <1>2, <1>8, <1>11, <3>1 DEF ContentsSound
  <2>3. "ALLOCATED" \in page[f].flags => mem[f] = page[f].entry
    <3>1. FrameOf(f)
      BY <1>2 DEF FramesSound
    <3>2. "LOCKED" \in page[f].flags
      BY <1>4, <1>6
    <3>3. "ALLOCATED" \in page[f].flags => page[f].entry \in Mapped /\ Base(page[f].entry) = f
      BY <3>1, <3>2 DEF FrameOf
    <3> QED BY <1>2, <3>3 DEF ContentsSound
  <2>4. \A r \in Procs : job'[r].stage = "written" /\ "ALLOCATED" \in page'[job'[r].frame].flags =>
       swap'[job'[r].slot] = page'[job'[r].frame].entry
    BY <1>1, <1>5, <1>6, <1>8, <1>13, <2>3
  <2>5. \A r \in Procs : job'[r].stage = "read" /\ job'[r].frame # 0 => mem'[job'[r].frame] = Cell(r)'
    BY <1>5, <1>13
  <2> QED BY <2>1, <2>2, <2>4, <2>5 DEF ContentsSound
<1> QED BY <1>9, <1>15, <1>17, <1>18, <1>19, <1>20 DEF PagingParts

-----------------------------------------------------------------------------
(* Contents *)

(* What a write to a page leaves of the other contents.                      *)
LEMMA NewContentsAre ==
  ASSUME Types, NEW x \in Cells, NEW f \in Frames \cup {0}, NewContents(x[1], x[2], f)
  PROVE /\ mem' \in [Frames \cup {0} -> Contents] /\ swap' \in [Slots -> Contents]
        /\ mem'[f] = x
        /\ \A g \in (Frames \cup {0}) \ {f} : mem[g] # x => mem'[g] = mem[g]
        /\ \A s \in Slots : swap[s] # x => swap'[s] = swap[s]
<1>1. x = <<x[1], x[2]>> /\ x \in Contents /\ Debris \in Contents
  BY CellParts DEF Contents, Cells
<1>2. mem \in [Frames \cup {0} -> Contents] /\ DOMAIN mem = Frames \cup {0} /\ swap \in [Slots -> Contents]
  BY DEF Types
<1>3. /\ mem' = [g \in Frames \cup {0} |-> IF g = f THEN x ELSE IF mem[g] = x THEN Debris ELSE mem[g]]
      /\ swap' = [s \in Slots |-> IF swap[s] = x THEN Debris ELSE swap[s]]
  BY <1>1, <1>2 DEF NewContents
<1> QED BY <1>1, <1>2, <1>3

LEMMA MappedIn ==
  ASSUME Types, FramesSound, NEW e \in Mapped
  PROVE e \in Cells /\ Base(e) \in Frames /\ Base(e) # 0 /\ e \in Present /\ page[Base(e)].entry = e /\ Base(e) \in Frames \cup {0}
  BY MappedAre DEF FramesSound, MappedSound, Frames

LEMMA OnDiskIn ==
  ASSUME Types, SlotsSound, NEW e \in OnDisk
  PROVE e \in Cells /\ Base(e) \in swapMap /\ Base(e) \in Slots /\ e \notin Present /\ e \notin Mapped
  BY OnDiskAre, MappedAre DEF SlotsSound, Types

(* A process writes to a page of its own.                                    *)
LEMMA StoreKeeps ==
  ASSUME PagingParts, NEW p \in Procs, NEW v \in Pages, Store(p, v) PROVE PagingParts'
<1>1. /\ life[p] = "running" /\ child[p] = NoProc /\ job[p].kind = "none" /\ pte[p][v].present
      /\ NewContents(p, v, pte[p][v].base)
      /\ pte' = pte /\ tables' = tables /\ page' = page /\ freeList' = freeList
      /\ swapMap' = swapMap /\ life' = life /\ todo' = todo /\ child' = child /\ job' = job /\ broken' = broken
  BY DEF Store, Runs, frameVars, procVars
<1>2. Types /\ Chain /\ JobsSound /\ FramesSound /\ SlotsSound /\ ContentsSound
  BY DEF PagingParts
<1>3. PICK x \in Cells : x = <<p, v>> /\ x[1] = p /\ x[2] = v
  BY CellsAre
<1>4. x \in Present /\ Base(x) = pte[p][v].base
  BY <1>1, <1>3 DEF Present, Base
<1>5. PICK f \in Numbers : f = Base(x)
  BY <1>2, BaseTyped
<1>6. x \in Mapped <=> f # 0
  <2>1. x \in Theirs
    BY <1>1, <1>2, <1>3, TheirsAre
  <2> QED BY <1>2, <1>4, <1>5, <2>1, MappedAre
<1>7. f \in Frames \cup {0}
  BY <1>2, <1>5, <1>6, MappedIn
<1>8. NewContents(x[1], x[2], f)
  BY <1>1, <1>3, <1>4, <1>5
<1>9. /\ mem' \in [Frames \cup {0} -> Contents] /\ swap' \in [Slots -> Contents]
      /\ mem'[f] = x
      /\ \A g \in (Frames \cup {0}) \ {f} : mem[g] # x => mem'[g] = mem[g]
      /\ \A s \in Slots : swap[s] # x => swap'[s] = swap[s]
  BY <1>2, <1>7, <1>8, NewContentsAre
<1>10. Types'
  BY <1>1, <1>2, <1>9 DEF Types
<1>11. Theirs' = Theirs /\ Late' = Late /\ \A r \in Procs : /\ Cell(r)' = Cell(r) /\ (Busy(r)' <=> Busy(r))
                                           /\ (Writing(r)' <=> Writing(r)) /\ (Given(r)' <=> Given(r))
  BY <1>1, SameTheirs, SameJobs
<1>12. /\ Present' = Present /\ Stored' = Stored /\ \A e : Base(e)' = Base(e)
       /\ Mapped' = Mapped /\ OnDisk' = OnDisk
  BY <1>1, <1>2, <1>10, <1>11, SameEntries DEF Late
<1>13. Chain'
  BY <1>1, <1>2, <1>11, ChainKept DEF Chain
<1>14. JobsSound'
  <2>1. SUFFICES ASSUME NEW r \in Procs PROVE JobOf(r)' /\ LoadingOf(r)'
    BY DEF JobsSound
  <2>2. JobOf(r) /\ LoadingOf(r)
    BY <1>2 DEF JobsSound
  <2>3. JobOf(r)'
    BY <1>1, <1>11, <1>12, <2>2, JobKept DEF JobOf, JobWrites
  <2>4. LoadingOf(r)'
    BY <1>1, <1>12, <2>2, LoadingKept
  <2> QED BY <2>3, <2>4
<1>15. FramesSound'
  BY <1>1, <1>2, <1>11, <1>12, FramesKept
<1>16. SlotsSound'
  BY <1>1, <1>2, <1>12, SlotsKept
<1>17. ContentsSound'
  <2>1. \A r \in Procs : job'[r].stage = "none"
    <3>1. \A r \in Procs : ~Busy(r)
      BY <1>1, <1>2, Alone DEF Busy
    <3> QED BY <1>1, <1>2, <3>1, Idle
  <2>2. ASSUME NEW e \in Mapped' PROVE mem'[Base(e)'] = e
    <3>1. e \in Mapped /\ mem[Base(e)] = e /\ Base(e) \in Frames \cup {0} /\ page[Base(e)].entry = e
      BY <1>2, <1>12, MappedIn DEF ContentsSound
    <3>2. CASE e = x
      BY <1>5, <1>9, <1>12, <3>2
    <3>3. CASE e # x
      <4>1. Base(e) # f
        <5>1. CASE f = 0
          BY <1>2, <3>1, <5>1, MappedIn
        <5>2. CASE f # 0
          <6>1. page[f].entry = x
            BY <1>2, <1>5, <1>6, <5>2, MappedIn
          <6> QED BY <3>1, <3>3, <6>1
        <5> QED BY <5>1, <5>2
      <4> QED BY <1>9, <1>12, <3>1, <3>3, <4>1
    <3> QED BY <3>2, <3>3
  <2>3. ASSUME NEW e \in OnDisk' PROVE swap'[Base(e)'] = e
    <3>1. e \in OnDisk /\ swap[Base(e)] = e /\ Base(e) \in Slots /\ e # x
      BY <1>2, <1>4, <1>12, OnDiskIn DEF ContentsSound
    <3> QED BY <1>9, <1>12, <3>1
  <2> QED BY <2>1, <2>2, <2>3 DEF ContentsSound
<1> QED BY <1>10, <1>13, <1>14, <1>15, <1>16, <1>17 DEF PagingParts

(* A fault whose page is on the disk goes on: the page is to be read in, or it was. *)
LEMMA GivenGoesOn ==
  ASSUME PagingParts, NEW p \in Procs, NEW s \in {"readIn", "read"},
    Given(p), p \in Late, job[p].kind = "fault", job' = [job EXCEPT ![p].stage = s],
    UNCHANGED <<pte, tables, page, freeList, swap, swapMap, life, child, todo, broken>>,
    mem' \in [Frames \cup {0} -> Contents], \A e \in Mapped : mem'[Base(e)] = e,
    s = "read" /\ job[p].frame # 0 => mem'[job[p].frame] = Cell(p)
  PROVE PagingParts'
<1>1. /\ pte' = pte /\ tables' = tables /\ page' = page /\ freeList' = freeList /\ swap' = swap
      /\ swapMap' = swapMap /\ life' = life /\ todo' = todo /\ child' = child /\ broken' = broken
  OBVIOUS
<1>2. Types /\ Chain /\ JobsSound /\ FramesSound /\ SlotsSound /\ ContentsSound
  BY DEF PagingParts
<1>3. JobOf(p) /\ Busy(p)
  BY <1>2 DEF JobsSound, Busy
<1>5. /\ job' \in [Procs -> JobT] /\ \A r \in Procs \ {p} : job'[r] = job[r]
      /\ job'[p].kind = job[p].kind /\ job'[p].page = job[p].page /\ job'[p].stage = s
      /\ job'[p].frame = job[p].frame /\ job'[p].slot = job[p].slot
      /\ Late' = Late /\ \A r \in Procs : Cell(r)' = Cell(r)
  BY <1>1, <1>2, JobStage DEF Types
<1>9. Types'
  BY <1>1, <1>2, <1>5 DEF Types
<1>10. Theirs' = Theirs
  BY <1>1, SameTheirs
<1>11. /\ Present' = Present /\ Stored' = Stored /\ \A e : Base(e)' = Base(e)
       /\ Mapped' = Mapped /\ OnDisk' = OnDisk
  BY <1>1, <1>2, <1>5, <1>9, <1>10, SameEntries DEF Late
<1>12. \A r \in Procs \ {p} : ~Busy(r) /\ ~Writing(r) /\ ~Given(r) /\ r \notin Late /\ job[r].stage = "none"
  BY <1>2, <1>3, Alone, Idle
<1>13. \A r \in Procs \ {p} : JobOf(r)' /\ ~Busy(r)' /\ ~Writing(r)' /\ ~Given(r)' /\ job'[r].stage = "none"
  BY <1>2, <1>5, <1>12, IdleKept
<1>14. ~Writing(p)' /\ ~Writing(p) /\ Busy(p)' /\ Given(p)'
  BY <1>1, <1>3, <1>5 DEF Writing, Busy, Given
<1>15. Chain'
  BY <1>1, <1>2, <1>3, <1>5, <1>13, ChainKept DEF Chain
<1>16. JobOf(p)'
  <2>1. JobIdle(p)'
    BY <1>3, <1>5, <1>14 DEF JobOf, JobIdle
  <2>2. JobPage(p)'
    BY <1>3, <1>5, <1>11, <1>14 DEF JobOf, JobPage
  <2>3. JobReads(p)' /\ JobLoads(p)'
    BY <1>3, <1>5 DEF JobReads, JobLoads
  <2>4. JobWrites(p)'
    BY <1>14 DEF JobWrites
  <2>5. JobNoFrame(p)'
    BY <1>3, <1>5, <1>11 DEF JobOf, JobNoFrame
  <2>6. JobFrame(p)'
    BY <1>1, <1>3, <1>5, <1>11 DEF JobOf, JobFrame
  <2> QED BY <2>1, <2>2, <2>3, <2>4, <2>5, <2>6 DEF JobOf
<1>17. JobsSound'
  <2>1. \A r \in Procs : LoadingOf(r)'
    BY <1>1, <1>2, <1>11, LoadingKept DEF JobsSound
  <2> QED BY <1>13, <1>16, <2>1 DEF JobsSound
<1>18. FramesSound'
  <2>1. \A r \in Procs : ~Writing(r)
    BY <1>12, <1>14
  <2>2. \A r \in Procs : Given(r) => Given(r)' /\ job'[r].frame = job[r].frame
    BY <1>5, <1>12, <1>14
  <2> QED BY <1>1, <1>2, <1>11, <2>1, <2>2, FramesKept
<1>a. \A r \in Procs : job'[r].stage # "written" /\ job[r].stage # "written"
  BY <1>12, <1>13, <1>14 DEF Writing
<1>19. SlotsSound'
  BY <1>1, <1>2, <1>11, <1>a, SlotsKept
<1>20. ContentsSound'
  <2>1. \A e \in Mapped' : mem'[Base(e)'] = e
    BY <1>11
  <2>2. \A e \in OnDisk' : swap'[Base(e)'] = e
    BY <1>1, <1>2, <1>11 DEF ContentsSound
  <2>3. \A r \in Procs : job'[r].stage = "read" /\ job'[r].frame # 0 => mem'[job'[r].frame] = Cell(r)'
    BY <1>5, <1>13, SMTT(30)
  <2> QED BY <1>a, <2>1, <2>2, <2>3 DEF ContentsSound
<1> QED BY <1>9, <1>15, <1>17, <1>18, <1>19, <1>20 DEF PagingParts

(* Read_From_Paging_File, into the frame that is not mapped yet.             *)
LEMMA ReadKeeps ==
  ASSUME PagingParts, NEW p \in Procs, Read_From_Paging_File(p) PROVE PagingParts'
<1>1. /\ job[p].stage = "readIn" /\ mem' = [mem EXCEPT ![job[p].frame] = swap[pte[p][job[p].page].base]]
      /\ job' = [job EXCEPT ![p].stage = "read"]
      /\ UNCHANGED <<pte, tables, page, freeList, swap, swapMap, life, child, todo, broken>>
  BY DEF Read_From_Paging_File, frameVars, procVars
<1>2. Types /\ Chain /\ JobsSound /\ FramesSound /\ SlotsSound /\ ContentsSound
  BY DEF PagingParts
<1>3. Given(p) /\ p \in Late /\ job[p].kind = "fault" /\ JobOf(p) /\ Busy(p)
  BY <1>1, <1>2 DEF JobsSound, JobOf, JobReads, Given, Busy
<1>4. PICK x \in Cells : x = Cell(p) /\ x[1] = p /\ x[2] = job[p].page
  BY <1>2, JobFields DEF Types
<1>5. x \in OnDisk /\ x \notin Present
  <2>1. life[p] = "running"
    BY <1>2, <1>3 DEF Chain
  <2>2. x \in Theirs
    BY <1>2, <1>4, <2>1, TheirsAre
  <2>3. x \notin Present
    BY <1>3, <1>4 DEF JobOf, JobPage
  <2> QED BY <1>2, <1>3, <1>4, <2>2, <2>3, OnDiskAre
<1>6. swap[Base(x)] = x
  BY <1>2, <1>5 DEF ContentsSound
<1>7. PICK f \in Frames \cup {0} : f = job[p].frame
  BY <1>2, JobFields DEF Types
<1>8. mem' = [mem EXCEPT ![f] = x]
  <2>1. Base(x) = pte[p][job[p].page].base
    BY <1>4 DEF Base
  <2> QED BY <1>1, <1>6, <1>7, <2>1
<1>9. x \in Contents
  BY DEF Contents, Cells
<1>10. mem' \in [Frames \cup {0} -> Contents] /\ mem'[f] = x /\ \A g \in (Frames \cup {0}) \ {f} : mem'[g] = mem[g]
  BY <1>2, <1>8, <1>9 DEF Types
<1>11. ASSUME NEW e \in Mapped PROVE mem'[Base(e)] = e
  <2>1. mem[Base(e)] = e /\ Base(e) \in Frames \cup {0} /\ page[Base(e)].entry = e /\ e \in Present /\ Base(e) # 0
    BY <1>2, MappedIn DEF ContentsSound
  <2>2. f # 0 => page[f].entry = x
    BY <1>3, <1>4, <1>7 DEF JobOf, JobFrame
  <2>3. Base(e) # f
    BY <1>5, <2>1, <2>2
  <2> QED BY <1>10, <2>1, <2>3
<1>12. mem'[job[p].frame] = Cell(p)
  BY <1>4, <1>7, <1>10
<1> QED BY <1>1, <1>3, <1>10, <1>11, <1>12, GivenGoesOn

(* The page is mapped to the frame it was given, or to address zero.                *)
LEMMA FillKeeps ==
  ASSUME PagingParts, NEW p \in Procs, Given(p), MapPage(p),
    UNCHANGED <<tables, page, freeList, life, child, broken>>,
    todo' \in [Procs -> 1..(NumPages + 1)], \A r \in Procs \ {p} : todo'[r] = todo[r],
    life[p] = "loading" => todo'[p] = job[p].page + 1,
    \/ Cell(p) \notin OnDisk /\ swapMap' = swapMap
    \/ Cell(p) \in OnDisk /\ swapMap' = swapMap \ {Base(Cell(p))},
    mem' \in [Frames \cup {0} -> Contents], swap' \in [Slots -> Contents],
    \A e \in Mapped : mem'[Base(e)] = e,
    job[p].frame # 0 => mem'[job[p].frame] = Cell(p),
    \A e \in OnDisk \ {Cell(p)} : swap'[Base(e)] = e
  PROVE PagingParts'
<1>1. /\ pte' = [pte EXCEPT ![p][job[p].page].present = TRUE, ![p][job[p].page].base = job[p].frame]
      /\ job' = [job EXCEPT ![p] = NoJob]
      /\ tables' = tables /\ page' = page /\ freeList' = freeList /\ life' = life /\ child' = child /\ broken' = broken
  BY DEF MapPage
<1>2. Types /\ Chain /\ JobsSound /\ FramesSound /\ SlotsSound /\ ContentsSound
  BY DEF PagingParts
<1>3. JobOf(p) /\ Busy(p) /\ ~Writing(p)
  BY <1>2 DEF JobsSound, JobOf, JobIdle, Given, Busy, Writing
<1>4. PICK x \in Cells : x = Cell(p) /\ x[1] = p /\ x[2] = job[p].page /\ x = <<p, job[p].page>>
  BY <1>2, JobFields DEF Types, Cell
<1>5. PICK v \in Pages, f \in Frames \cup {0} : v = job[p].page /\ f = job[p].frame
  BY <1>2, JobFields DEF Types
<1>6. f \in Numbers /\ x = <<p, v>>
  BY <1>4, <1>5 DEF Numbers
<1>7. /\ pte' \in [Procs -> [Pages -> EntryT]]
      /\ Present' = Present \cup {x} /\ Stored' = Stored /\ Base(x)' = f
      /\ \A e \in Cells \ {x} : Base(e)' = Base(e)
  <2>1. pte' = [pte EXCEPT ![p][v].present = TRUE, ![p][v].base = f]
    BY <1>1, <1>5
  <2>2. /\ pte' \in [Procs -> [Pages -> EntryT]]
        /\ Present' = Present \cup {<<p, v>>} /\ Stored' = Stored
        /\ Base(<<p, v>>)' = f
        /\ \A e \in Cells \ {<<p, v>>} : Base(e)' = Base(e)
    BY <1>2, <1>6, <2>1, EntryFilled DEF Types
  <2>3. Base(x)' = f
    BY <1>6, <2>2 DEF Base
  <2> QED BY <1>6, <2>2, <2>3
<1>8. /\ job' \in [Procs -> JobT] /\ job'[p] = NoJob /\ \A r \in Procs \ {p} : job'[r] = job[r] /\ Cell(r)' = Cell(r)
      /\ (Late \ {p})' = Late \ {p} /\ p \notin Late'
  BY <1>1, <1>2, NoJobIs, JobSet DEF Types
<1>9. \A r \in Procs \ {p} : ~Busy(r) /\ ~Writing(r) /\ ~Given(r) /\ r \notin Late /\ job[r].stage = "none"
  BY <1>2, <1>3, Alone, Idle
<1>10. JobOf(p)' /\ ~Busy(p)' /\ ~Writing(p)' /\ ~Given(p)' /\ job'[p].stage = "none"
  BY <1>8, NoJobOf
<1>11. \A r \in Procs \ {p} : JobOf(r)' /\ ~Busy(r)' /\ ~Writing(r)' /\ ~Given(r)' /\ job'[r].stage = "none"
  BY <1>2, <1>8, <1>9, IdleKept
<1>12. Late' = {}
  BY <1>8, <1>9 DEF Late
<1>13. Types'
  <2>1. swapMap' \subseteq Slots
    BY <1>2 DEF Types
  <2> QED BY <1>1, <1>2, <1>7, <1>8, <2>1 DEF Types
<1>14. life[p] \in {"running", "loading"}
  BY <1>2, <1>3 DEF Chain
<1>15. x \notin Present
  BY <1>3, <1>4 DEF JobOf, JobPage
<1>16. \A e \in Cells : e \in Theirs' <=> e \in Theirs
  <2>1. SUFFICES ASSUME NEW e \in Cells PROVE e \in Theirs' <=> e \in Theirs
    OBVIOUS
  <2>2. e[1] \in Procs
    BY CellParts
  <2>3. CASE e[1] = p
    BY <1>1, <1>2, <1>13, <1>14, <2>2, <2>3, TheirsAre, TheirsAreNext
  <2>4. CASE e[1] # p
    BY <1>1, <1>2, <1>13, <2>2, <2>4, TheirsAre, TheirsAreNext
  <2> QED BY <2>3, <2>4
<1>17. x \in Theirs
  BY <1>2, <1>4, <1>14, TheirsAre
<1>18. \A e : e \in Mapped' <=> e \in Mapped \/ (e = x /\ f # 0)
  <2>1. SUFFICES ASSUME NEW e PROVE e \in Mapped' <=> e \in Mapped \/ (e = x /\ f # 0)
    OBVIOUS
  <2>2. CASE e = x
    BY <1>2, <1>7, <1>13, <1>15, <1>16, <1>17, <2>2, MappedAre, MappedAreNext
  <2>3. CASE e # x
    BY <1>2, <1>7, <1>13, <1>16, <2>3, MappedAre, MappedAreNext
  <2> QED BY <2>2, <2>3
<1>19. \A e : e \in OnDisk' <=> e \in OnDisk /\ e # x
  <2>1. SUFFICES ASSUME NEW e PROVE e \in OnDisk' <=> e \in OnDisk /\ e # x
    OBVIOUS
  <2>2. \A r \in Late : Cell(r) = x
    BY <1>4, <1>9 DEF Late
  <2> QED BY <1>2, <1>7, <1>12, <1>13, <1>16, <2>2, OnDiskAre, OnDiskAreNext
<1>20. \A e \in Mapped : e # x /\ Base(e)' = Base(e)
  BY <1>2, <1>7, <1>15, MappedAre
<1>21. \A e \in OnDisk : e # x => Base(e)' = Base(e)
  BY <1>2, <1>7, OnDiskAre
<1>22. Chain'
  BY <1>1, <1>2, <1>10, <1>11, ChainKept
<1>23. JobsSound'
  <2>1. SUFFICES ASSUME NEW r \in Procs PROVE JobOf(r)' /\ LoadingOf(r)'
    BY DEF JobsSound
  <2>2. JobOf(r) /\ LoadingOf(r)
    BY <1>2 DEF JobsSound
  <2>3. JobOf(r)'
    BY <1>10, <1>11
  <2>4. CASE r = p
    <3>1. SUFFICES ASSUME life'[p] = "loading", NEW w \in Pages, w >= todo'[p] PROVE <<p, w>> \notin Present' /\ <<p, w>> \notin Stored'
      BY <2>3, <2>4 DEF LoadingOf
    <3>2. life[p] = "loading" /\ todo'[p] = v + 1
      BY <1>1, <1>5, <3>1
    <3>3. job[p].kind = "load"
      <4>1. job[p].kind \in {"none", "fault", "load"}
        BY <1>2, JobFields DEF Types
      <4> QED BY <1>2, <1>3, <3>2, <4>1 DEF Chain, Busy
    <3>4. v = todo[p]
      BY <1>3, <1>5, <3>3 DEF JobOf, JobLoads
    <3>5. w >= v /\ w # v
      BY <3>1, <3>2 DEF Pages
    <3>6. <<p, w>> \notin Present /\ <<p, w>> \notin Stored
      BY <2>2, <2>4, <3>2, <3>4, <3>5 DEF LoadingOf
    <3> QED BY <1>6, <1>7, <3>5, <3>6
  <2>5. CASE r # p
    BY <1>1, <1>4, <1>7, <2>2, <2>3, <2>5, LoadingKept
  <2> QED BY <2>3, <2>4, <2>5
<1>24. f # 0 => f \in Frames /\ page[f].flags = {"ALLOCATED", "PAGEABLE"} /\ page[f].entry = x
  BY <1>3, <1>4, <1>5 DEF JobOf, JobFrame
<1>25. FramesSound'
  <2>1. ASSUME NEW g \in Frames PROVE FrameOf(g)'
    <3>1. FrameOf(g)
      BY <1>2 DEF FramesSound
    <3>2. "LOCKED" \notin page[g].flags
      BY <1>3, <1>9, <3>1 DEF FrameOf
    <3>3. page[g].flags = {"ALLOCATED", "PAGEABLE"} => page[g].entry \in Mapped' /\ Base(page[g].entry)' = g
      <4>1. SUFFICES ASSUME page[g].flags = {"ALLOCATED", "PAGEABLE"} PROVE page[g].entry \in Mapped' /\ Base(page[g].entry)' = g
        OBVIOUS
      <4>2. CASE page[g].entry \in Mapped /\ Base(page[g].entry) = g
        BY <1>18, <1>20, <4>2
      <4>3. CASE ~(page[g].entry \in Mapped /\ Base(page[g].entry) = g)
        <5>1. PICK r \in Procs : Given(r) /\ job[r].frame = g
          BY <3>1, <4>1, <4>3 DEF FrameOf
        <5>2. r = p /\ g = f /\ f # 0
          BY <1>5, <1>9, <5>1 DEF Frames
        <5>3. page[g].entry = x
          BY <1>24, <5>2
        <5> QED BY <1>7, <1>18, <5>2, <5>3
      <4> QED BY <4>2, <4>3
    <3>4. /\ page'[g].flags \in {{}, {"ALLOCATED"}, {"ALLOCATED", "PAGEABLE"}, {"ALLOCATED", "LOCKED"}, {"LOCKED"}}
          /\ page'[g].flags = {} <=> Contains(freeList', g)
          /\ page'[g].flags = {"ALLOCATED"} <=> \E r \in Procs : g \in tables'[r]
      BY <1>1, <3>1 DEF FrameOf
    <3>5. "LOCKED" \notin page'[g].flags
      BY <1>1, <3>2
    <3> QED BY <1>1, <3>3, <3>4, <3>5 DEF FrameOf
  <2>2. TablesSound'
    BY <1>1, <1>2 DEF FramesSound, TablesSound
  <2>3. MappedSound'
    <3>1. SUFFICES ASSUME NEW e \in Mapped' PROVE /\ Base(e)' \in Frames /\ page'[Base(e)'].entry = e
                    /\ page'[Base(e)'].flags \in {{"ALLOCATED", "PAGEABLE"}, {"ALLOCATED", "LOCKED"}}
      BY DEF MappedSound
    <3>2. CASE e = x
      <4>1. f # 0
        BY <1>18, <1>20, <3>2
      <4> QED BY <1>1, <1>7, <1>24, <3>2, <4>1
    <3>3. CASE e # x
      <4>1. e \in Mapped
        BY <1>18, <3>3
      <4> QED BY <1>1, <1>2, <1>20, <4>1 DEF FramesSound, MappedSound
    <3> QED BY <3>2, <3>3
  <2>4. Distinct(freeList')
    BY <1>1, <1>2 DEF FramesSound
  <2> QED BY <2>1, <2>2, <2>3, <2>4 DEF FramesSound
<1>26. \A r \in Procs : job'[r].stage = "none" /\ job[r].stage # "written"
  BY <1>3, <1>9, <1>10, <1>11 DEF Writing
<1>27. SlotsSound'
  <2>1. \A d, e \in OnDisk : Base(d) = Base(e) => d = e
    BY <1>2 DEF SlotsSound
  <2>2. \A e \in OnDisk' : Base(e)' \in swapMap'
    <3>1. SUFFICES ASSUME NEW e \in OnDisk' PROVE Base(e)' \in swapMap'
      OBVIOUS
    <3>2. e \in OnDisk /\ e # x /\ Base(e)' = Base(e) /\ Base(e) \in swapMap
      BY <1>2, <1>19, <1>21 DEF SlotsSound
    <3> QED BY <1>4, <2>1, <3>2
  <2>3. \A d, e \in OnDisk' : Base(d)' = Base(e)' => d = e
    BY <1>19, <1>21, <2>1
  <2>4. ASSUME NEW s \in swapMap' PROVE \E e \in OnDisk' : Base(e)' = s
    <3>1. s \in swapMap
      OBVIOUS
    <3>2. PICK e \in OnDisk : Base(e) = s
      BY <1>2, <1>26, <3>1 DEF SlotsSound
    <3>3. e # x
      BY <1>4, <3>2
    <3> QED BY <1>19, <1>21, <3>2, <3>3
  <2> QED BY <1>26, <2>2, <2>3, <2>4 DEF SlotsSound
<1>28. ContentsSound'
  <2>1. ASSUME NEW e \in Mapped' PROVE mem'[Base(e)'] = e
    <3>1. CASE e = x
      <4>1. f # 0
        BY <1>18, <1>20, <3>1
      <4> QED BY <1>4, <1>5, <1>7, <3>1, <4>1
    <3>2. CASE e # x
      BY <1>18, <1>20, <3>2
    <3> QED BY <3>1, <3>2
  <2>2. \A e \in OnDisk' : swap'[Base(e)'] = e
    BY <1>4, <1>19, <1>21
  <2> QED BY <1>26, <2>1, <2>2 DEF ContentsSound
<1> QED BY <1>13, <1>22, <1>23, <1>25, <1>27, <1>28 DEF PagingParts

(* What NewContents leaves of the other pages.                                      *)
LEMMA NewContentsKeep ==
  ASSUME Types, JobsSound, FramesSound, SlotsSound, ContentsSound, NEW p \in Procs, Given(p), Busy(p),
    NewContents(p, job[p].page, job[p].frame)
  PROVE /\ mem' \in [Frames \cup {0} -> Contents] /\ swap' \in [Slots -> Contents]
        /\ \A e \in Mapped : mem'[Base(e)] = e
        /\ mem'[job[p].frame] = Cell(p)
        /\ \A e \in OnDisk \ {Cell(p)} : swap'[Base(e)] = e
<1>1. PICK x \in Cells : x = Cell(p) /\ x[1] = p /\ x[2] = job[p].page
  BY JobFields DEF Types
<1>2. PICK f \in Frames \cup {0} : f = job[p].frame
  BY JobFields DEF Types
<1>3. JobOf(p)
  BY DEF JobsSound
<1>4. x \notin Present
  BY <1>1, <1>3 DEF JobOf, JobPage
<1>5. f # 0 => page[f].entry = x
  BY <1>1, <1>2, <1>3 DEF JobOf, JobFrame
<1>6. NewContents(x[1], x[2], f)
  BY <1>1, <1>2
<1>7. /\ mem' \in [Frames \cup {0} -> Contents] /\ swap' \in [Slots -> Contents]
      /\ mem'[f] = x
      /\ \A g \in (Frames \cup {0}) \ {f} : mem[g] # x => mem'[g] = mem[g]
      /\ \A s \in Slots : swap[s] # x => swap'[s] = swap[s]
  BY <1>6, NewContentsAre
<1>8. ASSUME NEW e \in Mapped PROVE mem'[Base(e)] = e
  <2>1. mem[Base(e)] = e /\ Base(e) \in Frames \cup {0} /\ page[Base(e)].entry = e /\ e \in Present /\ Base(e) # 0
    BY MappedIn DEF ContentsSound
  <2>2. Base(e) # f /\ e # x
    BY <1>4, <1>5, <2>1
  <2> QED BY <1>7, <2>1, <2>2
<1>9. ASSUME NEW e \in OnDisk \ {Cell(p)} PROVE swap'[Base(e)] = e
  <2>1. swap[Base(e)] = e /\ Base(e) \in Slots
    BY OnDiskIn DEF ContentsSound
  <2> QED BY <1>1, <1>7, <2>1
<1> QED BY <1>1, <1>2, <1>7, <1>8, <1>9

(* The handler after the allocation.                                         *)
LEMMA AfterAllocationKeeps ==
  ASSUME PagingParts, NEW p \in Procs, AfterAllocation(p) PROVE PagingParts'
<1>1. /\ job[p].kind = "fault" /\ job[p].stage = "got"
      /\ UNCHANGED <<tables, page, freeList, swapMap, broken>>
  BY DEF AfterAllocation, frameVars
<1>2. Types /\ Chain /\ JobsSound /\ FramesSound /\ SlotsSound /\ ContentsSound
  BY DEF PagingParts
<1>3. JobOf(p) /\ Given(p) /\ Busy(p) /\ ~Writing(p)
  BY <1>1, <1>2 DEF JobsSound, Given, Busy, Writing
<1>4. life[p] = "running" /\ child[p] = NoProc
  BY <1>1, <1>2, <1>3 DEF Chain
<1>5. CASE job[p].frame = 0 /\ p # Shell /\ Die(p) /\ UNCHANGED <<pte, dataVars, child>>
  <2>1. p \in Late => Cell(p) \in Stored
    BY <1>3, <1>5 DEF JobOf, JobNoFrame
  <2>2. UNCHANGED <<pte, tables, page, freeList, mem, swap, swapMap, child, broken>>
    BY <1>1, <1>5 DEF dataVars
  <2> QED BY <1>3, <1>4, <1>5, <2>1, <2>2, DieKeeps
<1>6. CASE /\ job[p].onDisk /\ job' = [job EXCEPT ![p].stage = "readIn"]
           /\ UNCHANGED <<pte, dataVars, procVars>>
  <2>1. UNCHANGED <<pte, tables, page, freeList, swap, swapMap, life, child, todo, broken>> /\ mem' = mem
    BY <1>1, <1>6 DEF dataVars, procVars
  <2>2. p \in Late
    BY <1>6 DEF Late
  <2>3. mem' \in [Frames \cup {0} -> Contents] /\ \A e \in Mapped : mem'[Base(e)] = e
    BY <1>2, <2>1 DEF Types, ContentsSound
  <2> QED BY <1>1, <1>3, <1>6, <2>1, <2>2, <2>3, GivenGoesOn
<1>7. CASE ~job[p].onDisk /\ MapPage(p) /\ NewContents(p, job[p].page, job[p].frame) /\ UNCHANGED procVars
  <2>1. life' = life /\ child' = child /\ todo' = todo
    BY <1>7 DEF procVars
  <2>2. /\ mem' \in [Frames \cup {0} -> Contents] /\ swap' \in [Slots -> Contents]
        /\ \A e \in Mapped : mem'[Base(e)] = e
        /\ mem'[job[p].frame] = Cell(p)
        /\ \A e \in OnDisk \ {Cell(p)} : swap'[Base(e)] = e
    BY <1>2, <1>3, <1>7, NewContentsKeep
  <2>3. Cell(p) \notin OnDisk
    <3>1. p \notin Late
      BY <1>7 DEF Late
    <3>2. Cell(p) \notin Stored
      BY <1>3, <3>1 DEF JobOf, JobPage
    <3>3. \A r \in Late : Cell(r) # Cell(p)
      BY <3>1 DEF Cell
    <3> QED BY <1>2, <3>2, <3>3, OnDiskAre
  <2>4. todo' \in [Procs -> 1..(NumPages + 1)]
    BY <1>2, <2>1 DEF Types
  <2> QED BY <1>1, <1>3, <1>4, <1>7, <2>1, <2>2, <2>3, <2>4, FillKeeps
<1> QED BY <1>5, <1>6, <1>7 DEF AfterAllocation

(* The page is back: its slot is freed.                                      *)
LEMMA PagedInKeeps ==
  ASSUME PagingParts, NEW p \in Procs, PagedIn(p) PROVE PagingParts'
<1>1. /\ job[p].stage = "read" /\ swapMap' = swapMap \ {pte[p][job[p].page].base} /\ MapPage(p)
      /\ UNCHANGED <<tables, page, freeList, mem, swap, life, child, todo, broken>>
  BY DEF PagedIn, frameVars, procVars
<1>2. Types /\ Chain /\ JobsSound /\ FramesSound /\ SlotsSound /\ ContentsSound
  BY DEF PagingParts
<1>3. Given(p) /\ p \in Late /\ job[p].kind = "fault" /\ JobOf(p) /\ Busy(p)
  BY <1>1, <1>2 DEF JobsSound, JobOf, JobReads, Given, Busy
<1>4. PICK x \in Cells : x = Cell(p) /\ x[1] = p /\ x[2] = job[p].page
  BY <1>2, JobFields DEF Types
<1>5. life[p] = "running"
  BY <1>2, <1>3 DEF Chain
<1>6. x \in OnDisk
  <2>2. x \in Theirs
    BY <1>2, <1>4, <1>5, TheirsAre
  <2>3. x \notin Present
    BY <1>3, <1>4 DEF JobOf, JobPage
  <2> QED BY <1>2, <1>3, <1>4, <2>2, <2>3, OnDiskAre
<1>7. swapMap' = swapMap \ {Base(x)}
  BY <1>1, <1>4 DEF Base
<1>8. /\ mem' \in [Frames \cup {0} -> Contents] /\ swap' \in [Slots -> Contents]
      /\ \A e \in Mapped : mem'[Base(e)] = e
      /\ job[p].frame # 0 => mem'[job[p].frame] = Cell(p)
      /\ \A e \in OnDisk \ {Cell(p)} : swap'[Base(e)] = e
  BY <1>1, <1>2 DEF Types, ContentsSound
<1>9. todo' \in [Procs -> 1..(NumPages + 1)] /\ \A r \in Procs \ {p} : todo'[r] = todo[r]
  BY <1>1, <1>2 DEF Types
<1>10. Cell(p) \in OnDisk /\ swapMap' = swapMap \ {Base(Cell(p))}
  BY <1>4, <1>6, <1>7
<1> QED BY <1>1, <1>3, <1>5, <1>8, <1>9, <1>10, FillKeeps

(* A page of the program is loaded.                                          *)
LEMMA CopyInKeeps ==
  ASSUME PagingParts, NEW p \in Procs, CopyIn(p) PROVE PagingParts'
<1>1. /\ job[p].kind = "load" /\ job[p].stage = "got" /\ MapPage(p)
      /\ NewContents(p, job[p].page, job[p].frame) /\ todo' = [todo EXCEPT ![p] = job[p].page + 1]
      /\ UNCHANGED <<tables, page, freeList, swapMap, life, child, broken>>
  BY DEF CopyIn, frameVars
<1>2. Types /\ Chain /\ JobsSound /\ FramesSound /\ SlotsSound /\ ContentsSound
  BY DEF PagingParts
<1>3. Given(p) /\ JobOf(p) /\ Busy(p)
  BY <1>1, <1>2 DEF JobsSound, Given, Busy
<1>4. p \notin Late /\ Cell(p) \notin Stored
  BY <1>1, <1>3 DEF JobOf, JobLoads, JobPage
<1>5. Cell(p) \notin OnDisk
  <2>1. \A r \in Late : Cell(r) # Cell(p)
    BY <1>4 DEF Cell
  <2> QED BY <1>2, <1>4, <2>1, OnDiskAre
<1>6. job[p].page + 1 \in 1..(NumPages + 1)
  <2>1. job[p].page \in Pages
    BY <1>2, JobFields DEF Types
  <2> QED BY <2>1, PagingAssumption DEF Pages
<1>7. todo' \in [Procs -> 1..(NumPages + 1)] /\ todo'[p] = job[p].page + 1 /\ \A r \in Procs \ {p} : todo'[r] = todo[r]
  BY <1>1, <1>2, <1>6 DEF Types
<1>8. /\ mem' \in [Frames \cup {0} -> Contents] /\ swap' \in [Slots -> Contents]
      /\ \A e \in Mapped : mem'[Base(e)] = e
      /\ mem'[job[p].frame] = Cell(p)
      /\ \A e \in OnDisk \ {Cell(p)} : swap'[Base(e)] = e
  BY <1>1, <1>2, <1>3, NewContentsKeep
<1> QED BY <1>1, <1>3, <1>5, <1>7, <1>8, FillKeeps

-----------------------------------------------------------------------------
(* Allocation *)

(* Min is the least of a set that is not empty.                              *)
LEMMA LeastFact ==
  ASSUME NEW S \in SUBSET Nat, S # {}
  PROVE  \E x \in S : \A y \in S : x =< y
<1> DEFINE R == {ss \in Nat \X Nat : ss[1] < ss[2]}
<1>1. IsWellFoundedOn(R, Nat)
  <2>1. R = OpToRel(<, Nat)
    BY Zenon DEF OpToRel
  <2>2. QED BY <2>1, NatLessThanWellFounded, Zenon
<1>2. PICK x \in S : \A y \in S : ~ (<<y, x>> \in R)
  <2> HIDE DEF R
  <2>1. QED BY <1>1, WFMin
<1>3. ASSUME NEW y \in S PROVE x =< y
  <2>1. x \in Nat /\ y \in Nat /\ <<y, x>> \in Nat \X Nat
    OBVIOUS
  <2>2. ~ (y < x)
    BY <1>2, <2>1, Zenon
  <2>3. QED BY <2>1, <2>2
<1>4. QED BY <1>3

LEMMA MinFact ==
  ASSUME NEW S \in SUBSET Nat, S # {} PROVE Min(S) \in S
  BY LeastFact DEF Min

(* A job begins: the page keeps its place, on the disk or nowhere.                  *)
LEMMA JobBegins ==
  ASSUME PagingParts, NEW p \in Procs, NEW c \in Cells, c[1] = p, c \notin Present, NEW j \in JobT,
    ~Busy(p), child[p] = NoProc, life[p] = IF j.kind = "fault" THEN "running" ELSE "loading",
    j.kind # "none", j.page = c[2], j.onDisk <=> c \in Stored,
    job' = [job EXCEPT ![p] = j], UNCHANGED <<life, child, todo>>, Types',
    Present' = Present, Stored' = Stored \/ Stored' = Stored \ {c}, \A e \in Cells : Base(e)' = Base(e)
  PROVE /\ \A r \in Procs : ~Busy(r) /\ ~Writing(r) /\ ~Given(r) /\ r \notin Late /\ job[r].stage = "none"
        /\ \A r \in Procs \ {p} : JobOf(r)' /\ ~Busy(r)' /\ ~Writing(r)' /\ ~Given(r)' /\ job'[r].stage = "none"
        /\ job'[p] = j /\ Cell(p)' = c /\ Busy(p)' /\ (p \in Late' <=> c \in Stored)
        /\ Mapped' = Mapped /\ OnDisk' = OnDisk /\ Chain'
        /\ \A r \in Procs : LoadingOf(r)'
<1>1. life' = life /\ child' = child /\ todo' = todo
  OBVIOUS
<1>2. Types /\ Chain /\ JobsSound /\ FramesSound /\ SlotsSound /\ ContentsSound
  BY DEF PagingParts
<1>3. c = <<p, j.page>>
  BY CellParts
<1>4. \A r \in Procs : ~Busy(r)
  BY <1>2, Alone
<1>5. \A r \in Procs : ~Busy(r) /\ ~Writing(r) /\ ~Given(r) /\ r \notin Late /\ job[r].stage = "none"
  BY <1>2, <1>4, Idle
<1>6. /\ job' \in [Procs -> JobT] /\ job'[p] = j /\ \A r \in Procs \ {p} : job'[r] = job[r] /\ Cell(r)' = Cell(r)
      /\ Cell(p)' = <<p, j.page>>
      /\ (Late \ {p})' = Late \ {p} /\ (p \in Late' <=> j.onDisk)
  BY <1>2, JobSet DEF Types
<1>7. \A r \in Procs \ {p} : r \notin Late'
  BY <1>5, <1>6
<1>8. \A r \in Procs \ {p} : JobOf(r)' /\ ~Busy(r)' /\ ~Writing(r)' /\ ~Given(r)' /\ job'[r].stage = "none"
  BY <1>2, <1>5, <1>6, <1>7, IdleKept
<1>9. Busy(p)'
  BY <1>6 DEF Busy
<1>10. p \in Late' <=> c \in Stored
  BY <1>6
<1>11. Theirs' = Theirs
  BY <1>1, SameTheirs
<1>12. Mapped' = Mapped
  <2>1. \A e : e \in Mapped' <=> e \in Mapped
    BY <1>2, <1>11, MappedAre, MappedAreNext
  <2> QED BY <2>1 DEF Mapped
<1>13. OnDisk' = OnDisk
  <2>1. \A e : (\E r \in Late' : e = Cell(r)') <=> e = c /\ c \in Stored
    BY <1>3, <1>6, <1>7, <1>10 DEF Late
  <2>2. ~ \E r \in Late : TRUE
    BY <1>5 DEF Late
  <2>3. \A e : e \in OnDisk' <=> e \in OnDisk
    BY <1>2, <1>11, <2>1, <2>2, OnDiskAre, OnDiskAreNext
  <2> QED BY <2>3 DEF OnDisk
<1>14. Chain'
  <2>1. \A r \in Procs : Busy(r)' => child[r] = NoProc /\ life[r] = IF job'[r].kind = "fault" THEN "running" ELSE "loading"
    BY <1>6, <1>8
  <2> QED BY <1>1, <1>2, <2>1, ChainKept
<1>15. \A r \in Procs : LoadingOf(r)'
  BY <1>1, <1>2, LoadingKept DEF JobsSound
<1> QED BY <1>3, <1>5, <1>6, <1>8, <1>9, <1>10, <1>12, <1>13, <1>14, <1>15

(* Alloc_Pageable_Page: a free frame, a victim with a slot, or none of both. *)
LEMMA AllocKeeps ==
  ASSUME PagingParts, NEW p \in Procs, NEW v \in Pages, NEW kind \in {"fault", "load"},
    ~Busy(p), child[p] = NoProc, life[p] = IF kind = "fault" THEN "running" ELSE "loading",
    <<p, v>> \notin Present, kind = "load" => v = todo[p] /\ <<p, v>> \notin Stored,
    Alloc_Pageable_Page(p, v, kind)
  PROVE PagingParts' \/ broken'
<1>2. Types /\ Chain /\ JobsSound /\ FramesSound /\ SlotsSound /\ ContentsSound
  BY DEF PagingParts
<1>3. PICK c \in Cells : c = <<p, v>> /\ c[1] = p /\ c[2] = v
  BY CellsAre
<1>4. PICK b \in BOOLEAN : b = pte[p][v].onDisk
  BY <1>2 DEF Types, EntryT
<1>5. b <=> c \in Stored
  BY <1>3, <1>4 DEF Stored
<1>a. 0 \in Frames \cup {0} /\ 0 \in Slots \cup {0} /\ \A f \in Frames : f # 0
  BY DEF Frames
<1>b. \A r \in Procs : ~Given(r) /\ ~Writing(r)
  BY <1>2, Alone, Idle
<1>6. CASE /\ freeList # <<>>
           /\ page' = [page EXCEPT ![Head(freeList)] = Served(p, v)]
           /\ freeList' = Tail(freeList)
           /\ job' = [job EXCEPT ![p] = [kind |-> kind, page |-> v, stage |-> "got", frame |-> Head(freeList), slot |-> 0,
                                         onDisk |-> pte[p][v].onDisk]]
           /\ pte' = [pte EXCEPT ![p][v].onDisk = FALSE]
           /\ UNCHANGED <<tables, dataVars, swapMap, procVars, broken>>
  <2>1. /\ tables' = tables /\ mem' = mem /\ swap' = swap /\ swapMap' = swapMap /\ life' = life /\ child' = child
        /\ todo' = todo /\ broken' = broken
    BY <1>6 DEF dataVars, procVars
  <2>2. PICK h : h = Head(freeList)
    OBVIOUS
  <2>3. /\ h \in Frames /\ Contains(freeList, h) /\ freeList' \in Seq(Frames) /\ Distinct(freeList')
        /\ \A f : Contains(freeList', f) <=> Contains(freeList, f) /\ f # h
    BY <1>2, <1>6, <2>2, TailFact DEF Types, FramesSound
  <2>4. PICK j : j = [kind |-> kind, page |-> v, stage |-> "got", frame |-> h, slot |-> 0, onDisk |-> b]
    OBVIOUS
  <2>5. j \in JobT /\ j.kind = kind /\ j.page = v /\ j.stage = "got" /\ j.frame = h /\ j.onDisk = b
    BY <1>a, <2>3, <2>4 DEF JobT
  <2>6. job' = [job EXCEPT ![p] = j]
    BY <1>4, <1>6, <2>2, <2>4, Zenon
  <2>7. PICK n \in FrameT : n = Served(p, v) /\ n.flags = {"ALLOCATED", "PAGEABLE"} /\ n.entry = c
    <3>1. PICK n : n = [flags |-> {"ALLOCATED", "PAGEABLE"}, entry |-> c]
      OBVIOUS
    <3>2. n \in FrameT /\ n.flags = {"ALLOCATED", "PAGEABLE"} /\ n.entry = c
      BY <3>1 DEF FrameT, Flags, Cells
    <3>3. n = Served(p, v)
      BY <1>3, <3>1, Zenon DEF Served
    <3> QED BY <3>2, <3>3
  <2>8. page' \in [Frames -> FrameT] /\ page'[h] = n /\ \A f \in Frames \ {h} : page'[f] = page[f]
    BY <1>2, <1>6, <2>2, <2>3, <2>7 DEF Types
  <2>9. /\ pte' \in [Procs -> [Pages -> EntryT]]
        /\ Present' = Present /\ Stored' = Stored \ {c}
        /\ \A e \in Cells : Base(e)' = Base(e)
    BY <1>2, <1>3, <1>6, EntryForgotten DEF Types
  <2>10. job' \in [Procs -> JobT]
    BY <1>2, <2>5, <2>6 DEF Types
  <2>11. Types'
    BY <1>2, <2>1, <2>3, <2>8, <2>9, <2>10 DEF Types
  <2>12. /\ \A r \in Procs : ~Busy(r) /\ ~Writing(r) /\ ~Given(r) /\ r \notin Late /\ job[r].stage = "none"
         /\ \A r \in Procs \ {p} : JobOf(r)' /\ ~Busy(r)' /\ ~Writing(r)' /\ ~Given(r)' /\ job'[r].stage = "none"
         /\ job'[p] = j /\ Cell(p)' = c /\ Busy(p)' /\ (p \in Late' <=> c \in Stored)
         /\ Mapped' = Mapped /\ OnDisk' = OnDisk /\ Chain'
         /\ \A r \in Procs : LoadingOf(r)'
    <3>1. j.onDisk <=> c \in Stored
      BY <1>5, <2>5
    <3>2. j.kind # "none" /\ j.page = c[2] /\ life[p] = IF j.kind = "fault" THEN "running" ELSE "loading"
      BY <1>3, <2>5
    <3> QED BY <1>3, <2>1, <2>5, <2>6, <2>9, <2>11, <3>1, <3>2, JobBegins
  <2>13. JobOf(p)'
    <3>1. Given(p)' /\ ~Writing(p)' /\ job'[p].frame = h /\ h # 0 /\ job'[p].stage = "got" /\ job'[p].kind = kind /\ job'[p].page = v
      BY <1>a, <2>3, <2>5, <2>12 DEF Given, Writing
    <3>2. JobIdle(p)' /\ JobWrites(p)' /\ JobNoFrame(p)' /\ JobReads(p)'
      BY <2>12, <3>1 DEF JobIdle, JobWrites, JobNoFrame, JobReads
    <3>3. JobPage(p)'
      BY <1>3, <2>9, <2>12 DEF JobPage
    <3>4. JobFrame(p)'
      BY <2>7, <2>8, <2>9, <2>12, <3>1 DEF JobFrame
    <3>5. JobLoads(p)'
      BY <1>3, <2>1, <2>12, <3>1 DEF JobLoads
    <3> QED BY <3>2, <3>3, <3>4, <3>5 DEF JobOf
  <2>14. JobsSound'
    BY <2>12, <2>13 DEF JobsSound
  <2>15. page[h].flags = {}
    BY <1>2, <2>3 DEF FramesSound, FrameOf
  <2>16. FramesSound'
    <3>1. ASSUME NEW f \in Frames PROVE FrameOf(f)'
      <4>0. FrameOf(f)
        BY <1>2 DEF FramesSound
      <4>1. CASE f = h
        <5>1. Given(p)' /\ job'[p].frame = f
          BY <2>5, <2>12, <4>1 DEF Given
        <5>2. page'[f].flags = {"ALLOCATED", "PAGEABLE"}
          BY <2>7, <2>8, <4>1
        <5>3. ~Contains(freeList', f) /\ ~ \E r \in Procs : f \in tables'[r]
          BY <2>1, <2>3, <2>15, <4>0, <4>1 DEF FrameOf
        <5> QED BY <5>1, <5>2, <5>3 DEF FrameOf
      <4>2. CASE f # h
        <5>1. page[f].flags = {"ALLOCATED", "LOCKED"} => page[f].entry \in Mapped' /\ Base(page[f].entry)' = f
          <6>1. SUFFICES ASSUME page[f].flags = {"ALLOCATED", "LOCKED"} PROVE FALSE
            OBVIOUS
          <6> QED BY <1>b, <4>0, <6>1 DEF FrameOf
        <5>2. PICK d : d = page[f].entry
          OBVIOUS
        <5>3. page[f].flags = {"ALLOCATED", "PAGEABLE"} => d \in Mapped' /\ Base(d)' = f
          BY <1>b, <1>2, <2>9, <2>12, <4>0, <5>2, MappedAre DEF FrameOf
        <5>4. page'[f] = page[f]
          BY <2>8, <4>2
        <5>5. "LOCKED" \notin page[f].flags
          BY <1>b, <4>0 DEF FrameOf
        <5>6. /\ page'[f].flags \in {{}, {"ALLOCATED"}, {"ALLOCATED", "PAGEABLE"}, {"ALLOCATED", "LOCKED"}, {"LOCKED"}}
              /\ page'[f].flags = {} <=> Contains(freeList', f)
              /\ page'[f].flags = {"ALLOCATED"} <=> \E r \in Procs : f \in tables'[r]
          BY <2>1, <2>3, <4>0, <4>2, <5>4 DEF FrameOf
        <5>7. page'[f].entry = d
          BY <5>2, <5>4
        <5> QED BY <5>3, <5>4, <5>5, <5>6, <5>7 DEF FrameOf
      <4> QED BY <4>1, <4>2
    <3>2. TablesSound'
      BY <1>2, <2>1 DEF FramesSound, TablesSound
    <3>3. MappedSound'
      <4>1. SUFFICES ASSUME NEW e \in Mapped' PROVE /\ Base(e)' \in Frames /\ page'[Base(e)'].entry = e
                    /\ page'[Base(e)'].flags \in {{"ALLOCATED", "PAGEABLE"}, {"ALLOCATED", "LOCKED"}}
        BY DEF MappedSound
      <4>2. e \in Mapped /\ Base(e)' = Base(e)
        BY <1>2, <2>9, <2>12, MappedAre
      <4>3. Base(e) # h
        BY <1>2, <2>15, <4>2 DEF FramesSound, MappedSound
      <4> QED BY <1>2, <2>8, <4>2, <4>3 DEF FramesSound, MappedSound
    <3> QED BY <2>3, <3>1, <3>2, <3>3 DEF FramesSound
  <2>17. \A r \in Procs : job'[r].stage \notin {"written", "read"} /\ job[r].stage # "written"
    BY <2>5, <2>12
  <2>18. \A e \in Mapped \cup OnDisk : Base(e)' = Base(e)
    BY <1>2, <2>9, MappedAre, OnDiskAre
  <2>19. SlotsSound'
    BY <1>2, <2>1, <2>12, <2>17, <2>18, SlotsKept
  <2>20. ContentsSound'
    BY <1>2, <2>1, <2>12, <2>17, <2>18, ContentsKept
  <2> QED BY <2>11, <2>12, <2>14, <2>16, <2>19, <2>20 DEF PagingParts
<1>7. CASE /\ Victims # {} /\ FreeSlots # {}
           /\ page' = [page EXCEPT ![Min(Victims)].flags = {"ALLOCATED", "LOCKED"}]
           /\ job' = [job EXCEPT ![p] = [[kind |-> kind, page |-> v, stage |-> "got", frame |-> Min(Victims), slot |-> 0,
                                         onDisk |-> pte[p][v].onDisk] EXCEPT !.stage = "writeOut", !.slot = Min(FreeSlots)]]
           /\ UNCHANGED <<pte, tables, freeList, dataVars, swapMap, procVars, broken>>
  <2>1. /\ tables' = tables /\ mem' = mem /\ swap' = swap /\ swapMap' = swapMap /\ life' = life /\ child' = child
        /\ todo' = todo /\ broken' = broken /\ pte' = pte /\ freeList' = freeList
    BY <1>7 DEF dataVars, procVars
  <2>2. PICK h \in Victims : h = Min(Victims)
    <3>1. Victims \in SUBSET Nat
      BY DEF Victims, Frames
    <3> QED BY <1>7, <3>1, MinFact
  <2>3. PICK s \in FreeSlots : s = Min(FreeSlots)
    <3>1. FreeSlots \in SUBSET Nat
      BY DEF FreeSlots, Slots
    <3> QED BY <1>7, <3>1, MinFact
  <2>a. h \in Frames /\ {"PAGEABLE", "ALLOCATED"} \subseteq page[h].flags /\ s \in Slots /\ s \notin swapMap /\ FrameOf(h)
    BY <1>2, <2>2, <2>3 DEF Victims, FreeSlots, FramesSound
  <2>b. page[h].flags = {"ALLOCATED", "PAGEABLE"}
    BY <2>a DEF FrameOf
  <2>4. PICK j : j = [kind |-> kind, page |-> v, stage |-> "writeOut", frame |-> h, slot |-> s, onDisk |-> b]
    OBVIOUS
  <2>5. j \in JobT /\ j.kind = kind /\ j.page = v /\ j.stage = "writeOut" /\ j.frame = h /\ j.onDisk = b /\ j.slot = s
    BY <2>a, <2>4 DEF JobT
  <2>6. job' = [job EXCEPT ![p] = j]
    <3>1. PICK g : g = [kind |-> kind, page |-> v, stage |-> "got", frame |-> h, slot |-> 0, onDisk |-> b]
      OBVIOUS
    <3>2. j = [g EXCEPT !.stage = "writeOut", !.slot = s]
      <4>1. g \in JobT /\ g.kind = kind /\ g.page = v /\ g.frame = h /\ g.onDisk = b
        BY <1>a, <2>a, <3>1 DEF JobT
      <4>2. PICK g1 : g1 = [g EXCEPT !.stage = "writeOut"]
        OBVIOUS
      <4>3. g1 \in JobT /\ g1.kind = kind /\ g1.page = v /\ g1.frame = h /\ g1.onDisk = b /\ g1.stage = "writeOut"
        BY <4>1, <4>2 DEF JobT
      <4>4. PICK g2 : g2 = [g1 EXCEPT !.slot = s]
        OBVIOUS
      <4>5. g2 \in JobT /\ g2.kind = kind /\ g2.page = v /\ g2.frame = h /\ g2.onDisk = b /\ g2.stage = "writeOut" /\ g2.slot = s
        BY <2>a, <4>3, <4>4 DEF JobT
      <4>6. g2 = j
        BY <2>5, <4>5 DEF JobT
      <4>7. [g EXCEPT !.stage = "writeOut", !.slot = s] = [[g EXCEPT !.stage = "writeOut"] EXCEPT !.slot = s]
        OBVIOUS
      <4> QED BY <4>2, <4>4, <4>6, <4>7, Zenon
    <3> QED BY <1>4, <1>7, <2>2, <2>3, <3>1, <3>2, Zenon
  <2>7. PICK n \in FrameT : n = [page[h] EXCEPT !.flags = {"ALLOCATED", "LOCKED"}] /\ n.flags = {"ALLOCATED", "LOCKED"} /\ n.entry = page[h].entry
    <3>1. PICK x \in FrameT : x = page[h]
      BY <1>2, <2>a DEF Types
    <3>2. PICK n : n = [x EXCEPT !.flags = {"ALLOCATED", "LOCKED"}]
      OBVIOUS
    <3>3. n \in FrameT /\ n.flags = {"ALLOCATED", "LOCKED"} /\ n.entry = x.entry
      BY <3>2 DEF FrameT, Flags
    <3> QED BY <3>1, <3>2, <3>3, Zenon
  <2>8. page' \in [Frames -> FrameT] /\ page'[h] = n /\ \A f \in Frames \ {h} : page'[f] = page[f]
    <3>1. page' = [page EXCEPT ![h] = n]
      BY <1>7, <2>2, <2>7, Zenon
    <3> QED BY <1>2, <2>a, <3>1 DEF Types
  <2>9. Present' = Present /\ Stored' = Stored /\ \A e \in Cells : Base(e)' = Base(e)
    BY <2>1 DEF Present, Stored, Base
  <2>10. job' \in [Procs -> JobT]
    BY <1>2, <2>5, <2>6 DEF Types
  <2>11. Types'
    BY <1>2, <2>1, <2>8, <2>10 DEF Types
  <2>12. /\ \A r \in Procs : ~Busy(r) /\ ~Writing(r) /\ ~Given(r) /\ r \notin Late /\ job[r].stage = "none"
         /\ \A r \in Procs \ {p} : JobOf(r)' /\ ~Busy(r)' /\ ~Writing(r)' /\ ~Given(r)' /\ job'[r].stage = "none"
         /\ job'[p] = j /\ Cell(p)' = c /\ Busy(p)' /\ (p \in Late' <=> c \in Stored)
         /\ Mapped' = Mapped /\ OnDisk' = OnDisk /\ Chain'
         /\ \A r \in Procs : LoadingOf(r)'
    <3>1. j.onDisk <=> c \in Stored
      BY <1>5, <2>5
    <3>2. j.kind # "none" /\ j.page = c[2] /\ life[p] = IF j.kind = "fault" THEN "running" ELSE "loading"
      BY <1>3, <2>5
    <3> QED BY <1>3, <2>1, <2>5, <2>6, <2>9, <2>11, <3>1, <3>2, JobBegins
  <2>c. Writing(p)' /\ ~Given(p)' /\ job'[p].frame = h /\ job'[p].slot = s /\ job'[p].stage = "writeOut" /\ job'[p].kind = kind /\ job'[p].page = v
    BY <2>5, <2>12 DEF Given, Writing
  <2>13. JobOf(p)'
    <3>2. JobIdle(p)' /\ JobNoFrame(p)' /\ JobFrame(p)' /\ JobReads(p)'
      BY <2>12, <2>c DEF JobIdle, JobFrame, JobNoFrame, JobReads
    <3>3. JobPage(p)'
      BY <1>3, <2>9, <2>12 DEF JobPage
    <3>4. JobWrites(p)'
      BY <2>1, <2>a, <2>7, <2>8, <2>c DEF JobWrites
    <3>5. JobLoads(p)'
      BY <1>3, <2>1, <2>12, <2>c DEF JobLoads
    <3> QED BY <3>2, <3>3, <3>4, <3>5 DEF JobOf
  <2>14. JobsSound'
    BY <2>12, <2>13 DEF JobsSound
  <2>16. FramesSound'
    <3>1. ASSUME NEW f \in Frames PROVE FrameOf(f)'
      <4>0. FrameOf(f)
        BY <1>2 DEF FramesSound
      <4>a. PICK d : d = page[f].entry
        OBVIOUS
      <4>b. page[f].flags = {"ALLOCATED", "PAGEABLE"} => d \in Mapped' /\ Base(d)' = f
        BY <1>b, <1>2, <2>9, <2>12, <4>0, <4>a, MappedAre DEF FrameOf
      <4>1. CASE f = h
        <5>1. d \in Mapped' /\ Base(d)' = f
          BY <2>b, <4>b, <4>1
        <5>2. page'[f].flags = {"ALLOCATED", "LOCKED"} /\ page'[f].entry = d
          BY <2>7, <2>8, <4>a, <4>1
        <5>3. ~Contains(freeList', f) /\ ~ \E r \in Procs : f \in tables'[r]
          BY <2>1, <2>b, <4>0, <4>1 DEF FrameOf
        <5>4. \E r \in Procs : Writing(r)' /\ job'[r].frame = f
          BY <2>c, <4>1
        <5> QED BY <5>1, <5>2, <5>3, <5>4 DEF FrameOf
      <4>2. CASE f # h
        <5>4. page'[f] = page[f]
          BY <2>8, <4>2
        <5>5. "LOCKED" \notin page[f].flags
          BY <1>b, <4>0 DEF FrameOf
        <5>6. /\ page'[f].flags \in {{}, {"ALLOCATED"}, {"ALLOCATED", "PAGEABLE"}, {"ALLOCATED", "LOCKED"}, {"LOCKED"}}
              /\ page'[f].flags = {} <=> Contains(freeList', f)
              /\ page'[f].flags = {"ALLOCATED"} <=> \E r \in Procs : f \in tables'[r]
          BY <2>1, <4>0, <5>4 DEF FrameOf
        <5>7. page'[f].entry = d
          BY <4>a, <5>4
        <5> QED BY <4>b, <5>4, <5>5, <5>6, <5>7 DEF FrameOf
      <4> QED BY <4>1, <4>2
    <3>2. TablesSound'
      BY <1>2, <2>1 DEF FramesSound, TablesSound
    <3>3. MappedSound'
      <4>1. SUFFICES ASSUME NEW e \in Mapped' PROVE /\ Base(e)' \in Frames /\ page'[Base(e)'].entry = e
                    /\ page'[Base(e)'].flags \in {{"ALLOCATED", "PAGEABLE"}, {"ALLOCATED", "LOCKED"}}
        BY DEF MappedSound
      <4>2. e \in Mapped /\ Base(e)' = Base(e)
        BY <1>2, <2>9, <2>12, MappedAre
      <4>3. Base(e) \in Frames /\ page[Base(e)].entry = e /\ page[Base(e)].flags \in {{"ALLOCATED", "PAGEABLE"}, {"ALLOCATED", "LOCKED"}}
        BY <1>2, <4>2 DEF FramesSound, MappedSound
      <4>4. CASE Base(e) = h
        BY <2>7, <2>8, <4>2, <4>3, <4>4
      <4>5. CASE Base(e) # h
        BY <2>8, <4>2, <4>3, <4>5
      <4> QED BY <4>4, <4>5
    <3>4. Distinct(freeList')
      BY <1>2, <2>1 DEF FramesSound
    <3> QED BY <3>1, <3>2, <3>3, <3>4 DEF FramesSound
  <2>17. \A r \in Procs : job'[r].stage \notin {"written", "read"} /\ job[r].stage # "written"
    BY <2>c, <2>12
  <2>18. \A e \in Mapped \cup OnDisk : Base(e)' = Base(e)
    BY <1>2, <2>9, MappedAre, OnDiskAre
  <2>19. SlotsSound'
    BY <1>2, <2>1, <2>12, <2>17, <2>18, SlotsKept
  <2>20. ContentsSound'
    BY <1>2, <2>1, <2>12, <2>17, <2>18, ContentsKept
  <2> QED BY <2>11, <2>12, <2>14, <2>16, <2>19, <2>20 DEF PagingParts
<1>8. CASE /\ job' = [job EXCEPT ![p] = [kind |-> kind, page |-> v, stage |-> "got", frame |-> 0, slot |-> 0,
                                         onDisk |-> pte[p][v].onDisk]]
           /\ UNCHANGED <<pte, tables, frameVars, dataVars, swapMap, procVars, broken>>
  <2>1. /\ tables' = tables /\ mem' = mem /\ swap' = swap /\ swapMap' = swapMap /\ life' = life /\ child' = child
        /\ todo' = todo /\ broken' = broken /\ pte' = pte /\ freeList' = freeList /\ page' = page
    BY <1>8 DEF dataVars, procVars, frameVars
  <2>4. PICK j : j = [kind |-> kind, page |-> v, stage |-> "got", frame |-> 0, slot |-> 0, onDisk |-> b]
    OBVIOUS
  <2>5. j \in JobT /\ j.kind = kind /\ j.page = v /\ j.stage = "got" /\ j.frame = 0 /\ j.onDisk = b
    BY <1>a, <2>4 DEF JobT
  <2>6. job' = [job EXCEPT ![p] = j]
    BY <1>4, <1>8, <2>4, Zenon
  <2>9. Present' = Present /\ Stored' = Stored /\ \A e : Base(e)' = Base(e)
    BY <2>1 DEF Present, Stored, Base
  <2>10. job' \in [Procs -> JobT]
    BY <1>2, <2>5, <2>6 DEF Types
  <2>11. Types'
    BY <1>2, <2>1, <2>10 DEF Types
  <2>12. /\ \A r \in Procs : ~Busy(r) /\ ~Writing(r) /\ ~Given(r) /\ r \notin Late /\ job[r].stage = "none"
         /\ \A r \in Procs \ {p} : JobOf(r)' /\ ~Busy(r)' /\ ~Writing(r)' /\ ~Given(r)' /\ job'[r].stage = "none"
         /\ job'[p] = j /\ Cell(p)' = c /\ Busy(p)' /\ (p \in Late' <=> c \in Stored)
         /\ Mapped' = Mapped /\ OnDisk' = OnDisk /\ Chain'
         /\ \A r \in Procs : LoadingOf(r)'
    <3>1. j.onDisk <=> c \in Stored
      BY <1>5, <2>5
    <3>2. j.kind # "none" /\ j.page = c[2] /\ life[p] = IF j.kind = "fault" THEN "running" ELSE "loading"
      BY <1>3, <2>5
    <3> QED BY <1>3, <2>1, <2>5, <2>6, <2>9, <2>11, <3>1, <3>2, JobBegins
  <2>c. ~Writing(p)' /\ Given(p)' /\ job'[p].frame = 0 /\ job'[p].stage = "got" /\ job'[p].kind = kind /\ job'[p].page = v
    BY <2>5, <2>12 DEF Given, Writing
  <2>13. JobOf(p)'
    <3>2. JobIdle(p)' /\ JobWrites(p)' /\ JobFrame(p)' /\ JobReads(p)'
      BY <2>12, <2>c DEF JobIdle, JobFrame, JobWrites, JobReads
    <3>3. JobPage(p)'
      BY <1>3, <2>9, <2>12 DEF JobPage
    <3>4. JobNoFrame(p)'
      BY <2>9, <2>12 DEF JobNoFrame
    <3>5. JobLoads(p)'
      BY <1>3, <2>1, <2>12, <2>c DEF JobLoads
    <3> QED BY <3>2, <3>3, <3>4, <3>5 DEF JobOf
  <2>14. JobsSound'
    BY <2>12, <2>13 DEF JobsSound
  <2>16. FramesSound'
    BY <1>2, <2>1, <2>9, <2>12, FramesKept
  <2>17. \A r \in Procs : job'[r].stage \notin {"written", "read"} /\ job[r].stage # "written"
    BY <2>c, <2>12
  <2>19. SlotsSound'
    BY <1>2, <2>1, <2>9, <2>12, <2>17, SlotsKept
  <2>20. ContentsSound'
    BY <1>2, <2>1, <2>9, <2>12, <2>17, ContentsKept
  <2> QED BY <2>11, <2>12, <2>14, <2>16, <2>19, <2>20 DEF PagingParts
<1>9. CASE Break
  BY <1>9 DEF Break
<1> QED BY <1>6, <1>7, <1>8, <1>9 DEF Alloc_Pageable_Page

LEMMA FaultKeeps ==
  ASSUME PagingParts, NEW p \in Procs, NEW v \in Pages, Page_Fault_Handler(p, v) PROVE PagingParts' \/ broken'
<1>1. /\ life[p] = "running" /\ child[p] = NoProc /\ ~Busy(p) /\ ~pte[p][v].present
      /\ Alloc_Pageable_Page(p, v, "fault")
  BY DEF Page_Fault_Handler, Runs, Busy
<1>2. <<p, v>> \notin Present
  BY <1>1 DEF Present
<1> QED BY <1>1, <1>2, AllocKeeps

LEMMA LoadPageKeeps ==
  ASSUME PagingParts, NEW p \in Procs, LoadPage(p) PROVE PagingParts' \/ broken'
<1>1. /\ life[p] = "loading" /\ ~Busy(p) /\ todo[p] \in Image /\ Alloc_Pageable_Page(p, todo[p], "load")
  BY DEF LoadPage, Busy
<1>2. Types /\ Chain /\ JobsSound
  BY DEF PagingParts
<1>3. PICK v \in Pages : v = todo[p]
  BY <1>1, PagingAssumption DEF Image, Pages
<1>4. <<p, v>> \notin Present /\ <<p, v>> \notin Stored
  <2>1. LoadingOf(p) /\ v >= todo[p]
    BY <1>2, <1>3 DEF JobsSound, Pages
  <2> QED BY <1>1, <2>1 DEF LoadingOf
<1>5. child[p] = NoProc
  BY <1>1, <1>2 DEF Chain
<1> QED BY <1>1, <1>3, <1>4, <1>5, AllocKeeps

-----------------------------------------------------------------------------
(* Eviction *)

(* Setting one entry of a page table.                                        *)
LEMMA FieldSet ==
  ASSUME NEW f \in [Procs -> [Pages -> EntryT]], NEW p \in Procs, NEW v \in Pages, NEW z \in EntryT, NEW g,
    g = [f EXCEPT ![p][v] = z]
  PROVE /\ g \in [Procs -> [Pages -> EntryT]] /\ g[p][v] = z
        /\ \A q \in Procs, u \in Pages : q # p \/ u # v => g[q][u] = f[q][u]
<1>1. PICK x \in [Pages -> EntryT] : x = f[p]
  OBVIOUS
<1>2. PICK w : w = [x EXCEPT ![v] = z]
  OBVIOUS
<1>3. g = [f EXCEPT ![p] = w]
  BY <1>1, <1>2, Zenon
<1>4. w \in [Pages -> EntryT] /\ w[v] = z /\ \A u \in Pages : u # v => w[u] = x[u]
  BY <1>2
<1>5. /\ g \in [Procs -> [Pages -> EntryT]] /\ g[p] = w /\ \A q \in Procs : q # p => g[q] = f[q]
  BY <1>3, <1>4
<1>6. g[p][v] = z /\ \A q \in Procs, u \in Pages : q # p \/ u # v => g[q][u] = f[q][u]
  BY <1>1, <1>4, <1>5
<1> QED BY <1>5, <1>6

(* The rest of Alloc_Pageable_Page: the victim is on the disk, its frame the *)
(* job's.                                                                    *)
LEMMA PagedOutKeeps ==
  ASSUME PagingParts, NEW p \in Procs, PagedOut(p) PROVE PagingParts'
<1>1. /\ job[p].stage = "written" /\ job' = [job EXCEPT ![p].stage = "got"]
      /\ page' = [page EXCEPT ![job[p].frame] = Served(p, job[p].page)]
      /\ tables' = tables /\ freeList' = freeList /\ mem' = mem /\ swap' = swap
      /\ life' = life /\ child' = child /\ todo' = todo /\ broken' = broken
  BY Zenon DEF PagedOut, dataVars, procVars
<1>2. Types /\ Chain /\ JobsSound /\ FramesSound /\ SlotsSound /\ ContentsSound
  BY DEF PagingParts
<1>3. JobOf(p) /\ Writing(p) /\ Busy(p) /\ ~Given(p)
  BY <1>1, <1>2 DEF JobsSound, JobOf, JobIdle, Writing, Busy, Given
<1>4. PICK f \in Frames, s \in Slots, v \in Pages, c \in Cells :
        f = job[p].frame /\ s = job[p].slot /\ v = job[p].page /\ c = Cell(p) /\ c = <<p, v>> /\ c[1] = p /\ c[2] = v
  <2>1. job[p].frame \in Frames /\ job[p].slot \in Slots
    BY <1>3 DEF JobOf, JobWrites
  <2>2. PICK v \in Pages : v = job[p].page
    BY <1>2, JobFields DEF Types
  <2>3. PICK c \in Cells : c = <<p, v>> /\ c[1] = p /\ c[2] = v
    BY CellsAre
  <2>4. c = Cell(p)
    BY <2>2, <2>3 DEF Cell
  <2> QED BY <2>1, <2>2, <2>3, <2>4
<1>5. "LOCKED" \in page[f].flags /\ FrameOf(f)
  BY <1>2, <1>3, <1>4 DEF JobOf, JobWrites, FramesSound
<1>6. c \notin Present /\ (c \in Stored => p \in Late)
  BY <1>3, <1>4 DEF JobOf, JobPage
<1>7. \A r \in Procs \ {p} : ~Busy(r) /\ ~Writing(r) /\ ~Given(r) /\ r \notin Late /\ job[r].stage = "none"
  BY <1>2, <1>3, Alone, Idle
<1>8. PICK E \in SUBSET Mapped :
        /\ E = {} \/ E = {page[f].entry}
        /\ \A x \in E : Base(x) = f /\ x = page[f].entry /\ swap[s] = x
        /\ \A x \in Mapped \ E : Base(x) # f
        /\ swapMap' = IF E = {} THEN swapMap \ {s} ELSE swapMap
        /\ pte' \in [Procs -> [Pages -> EntryT]]
        /\ Present' = Present \ E /\ Stored' = (Stored \cup E) \ {c}
        /\ \A x \in Cells \ E : Base(x)' = Base(x)
        /\ \A x \in E : Base(x)' = s
  <2>1. PICK d : d = page[f].entry
    OBVIOUS
  <2>2. \A x \in Mapped : Base(x) = f => x = d /\ "ALLOCATED" \in page[f].flags
    BY <1>2, <2>1 DEF FramesSound, MappedSound
  <2>3. CASE "ALLOCATED" \in page[f].flags
    <3>1. d \in Mapped /\ Base(d) = f
      BY <1>5, <2>1, <2>3 DEF FrameOf
    <3>2. d \in Cells /\ d \in Present /\ d # c
      BY <1>2, <1>6, <3>1, MappedAre
    <3>3. swap[s] = d
      BY <1>1, <1>2, <1>4, <2>1, <2>3 DEF ContentsSound
    <3>4. PICK g : g = [pte EXCEPT ![d[1]][d[2]] = [present |-> FALSE, onDisk |-> TRUE, base |-> s]]
      OBVIOUS
    <3>5. pte' = [g EXCEPT ![p][v].onDisk = FALSE] /\ swapMap' = swapMap
      <4>1. pte' = [[pte EXCEPT ![d[1]][d[2]] = [present |-> FALSE, onDisk |-> TRUE, base |-> s]] EXCEPT ![p][v].onDisk = FALSE]
            /\ swapMap' = swapMap
        BY <1>4, <2>1, <2>3, Zenon DEF PagedOut
      <4> QED BY <3>4, <4>1, Zenon
    <3>6. /\ g \in [Procs -> [Pages -> EntryT]]
          /\ g[d[1]][d[2]] = [present |-> FALSE, onDisk |-> TRUE, base |-> s]
          /\ \A x \in Cells \ {d} : g[x[1]][x[2]] = pte[x[1]][x[2]]
      <4>1. PICK z \in EntryT : z = [present |-> FALSE, onDisk |-> TRUE, base |-> s]
        BY DEF Numbers, EntryT
      <4>2. PICK dp \in Procs, dv \in Pages : dp = d[1] /\ dv = d[2] /\ d = <<dp, dv>>
        BY <3>2, CellParts
      <4>3. g = [pte EXCEPT ![dp][dv] = z]
        BY <3>4, <4>1, <4>2, Zenon
      <4>4. /\ g \in [Procs -> [Pages -> EntryT]] /\ g[dp][dv] = z
            /\ \A q \in Procs, u \in Pages : q # dp \/ u # dv => g[q][u] = pte[q][u]
        BY <1>2, <4>3, FieldSet DEF Types
      <4>5. ASSUME NEW x \in Cells \ {d} PROVE g[x[1]][x[2]] = pte[x[1]][x[2]]
        <5>1. x[1] \in Procs /\ x[2] \in Pages /\ (x[1] # dp \/ x[2] # dv)
          BY <4>2, CellParts
        <5> QED BY <4>4, <5>1
      <4> QED BY <4>1, <4>2, <4>4, <4>5
    <3>7. /\ pte' \in [Procs -> [Pages -> EntryT]]
          /\ pte'[p][v].onDisk = FALSE /\ pte'[p][v].present = g[p][v].present /\ pte'[p][v].base = g[p][v].base
          /\ \A q \in Procs, u \in Pages : q # p \/ u # v => pte'[q][u] = g[q][u]
      <4>1. PICK x \in [Pages -> EntryT] : x = g[p]
        BY <3>6
      <4>2. PICK y \in EntryT : y = x[v]
        OBVIOUS
      <4>3. PICK z : z = [y EXCEPT !.onDisk = FALSE]
        OBVIOUS
      <4>4. z \in EntryT /\ z.present = y.present /\ z.onDisk = FALSE /\ z.base = y.base
        BY <4>3 DEF EntryT
      <4>5. PICK w : w = [x EXCEPT ![v] = z]
        OBVIOUS
      <4>6. pte' = [g EXCEPT ![p] = w]
        BY <3>5, <4>1, <4>2, <4>3, <4>5, Zenon
      <4>7. w \in [Pages -> EntryT] /\ w[v] = z /\ \A u \in Pages : u # v => w[u] = x[u]
        BY <4>4, <4>5
      <4>8. /\ pte' \in [Procs -> [Pages -> EntryT]] /\ pte'[p] = w /\ \A q \in Procs : q # p => pte'[q] = g[q]
        BY <3>6, <4>6, <4>7
      <4>9. pte'[p][v] = z /\ \A q \in Procs, u \in Pages : q # p \/ u # v => pte'[q][u] = g[q][u]
        BY <4>1, <4>7, <4>8
      <4> QED BY <4>1, <4>2, <4>4, <4>8, <4>9
    <3>8. \A x \in Cells \ {c} : pte'[x[1]][x[2]] = g[x[1]][x[2]]
      <4>1. SUFFICES ASSUME NEW x \in Cells \ {c} PROVE pte'[x[1]][x[2]] = g[x[1]][x[2]]
        OBVIOUS
      <4>2. x[1] \in Procs /\ x[2] \in Pages /\ (x[1] # p \/ x[2] # v)
        BY <1>4, CellParts
      <4> QED BY <3>7, <4>2
    <3>9. pte'[c[1]][c[2]].onDisk = FALSE /\ pte'[c[1]][c[2]].present = pte[c[1]][c[2]].present /\ pte'[c[1]][c[2]].base = pte[c[1]][c[2]].base
      BY <1>4, <3>2, <3>6, <3>7
    <3>10. pte'[d[1]][d[2]] = [present |-> FALSE, onDisk |-> TRUE, base |-> s]
      BY <3>2, <3>6, <3>8
    <3>11. \A x \in Cells \ {c, d} : pte'[x[1]][x[2]] = pte[x[1]][x[2]]
      BY <3>6, <3>8
    <3>12. Present' = Present \ {d}
      <4>1. ASSUME NEW x \in Cells PROVE x \in Present' <=> x \in Present /\ x # d
        BY <3>9, <3>10, <3>11 DEF Present
      <4> QED BY <4>1 DEF Present
    <3>13. Stored' = (Stored \cup {d}) \ {c}
      <4>1. ASSUME NEW x \in Cells PROVE x \in Stored' <=> (x \in Stored \/ x = d) /\ x # c
        BY <3>2, <3>9, <3>10, <3>11 DEF Stored
      <4> QED BY <3>2, <4>1 DEF Stored
    <3>14. \A x \in Cells \ {d} : Base(x)' = Base(x)
      BY <3>9, <3>11 DEF Base
    <3>15. Base(d)' = s
      <4>1. pte'[d[1]][d[2]].base = s
        BY <3>10
      <4>2. PICK dd \in Cells : dd = d
        BY <3>2
      <4>3. Base(dd)' = pte'[dd[1]][dd[2]].base
        BY DEF Base
      <4> QED BY <4>1, <4>2, <4>3
    <3> {d} \in SUBSET Mapped /\ {d} # {}
      BY <3>1
    <3> WITNESS {d} \in SUBSET Mapped
    <3> QED BY <2>1, <2>2, <3>1, <3>3, <3>5, <3>7, <3>12, <3>13, <3>14, <3>15
  <2>4. CASE "ALLOCATED" \notin page[f].flags
    <3>1. pte' = [pte EXCEPT ![p][v].onDisk = FALSE] /\ swapMap' = swapMap \ {s}
      BY <1>4, <2>4, Zenon DEF PagedOut
    <3>2. /\ pte' \in [Procs -> [Pages -> EntryT]]
          /\ Present' = Present /\ Stored' = Stored \ {c}
          /\ \A e \in Cells : Base(e)' = Base(e)
      BY <1>2, <1>4, <3>1, EntryForgotten DEF Types
    <3>3. \A x \in Mapped : Base(x) # f
      BY <2>2, <2>4
    <3> {} \in SUBSET Mapped
      OBVIOUS
    <3> WITNESS {} \in SUBSET Mapped
    <3> QED BY <3>1, <3>2, <3>3
  <2> QED BY <2>3, <2>4
<1>9. /\ job' \in [Procs -> JobT] /\ \A r \in Procs \ {p} : job'[r] = job[r]
      /\ job'[p].kind = job[p].kind /\ job'[p].page = v /\ job'[p].stage = "got"
      /\ job'[p].frame = f /\ job'[p].slot = s
      /\ Late' = Late /\ \A r \in Procs : Cell(r)' = Cell(r)
  BY <1>1, <1>2, <1>4, JobStage DEF Types
<1>10. PICK n \in FrameT : n = Served(p, v) /\ n.flags = {"ALLOCATED", "PAGEABLE"} /\ n.entry = c
  <2>1. PICK n : n = [flags |-> {"ALLOCATED", "PAGEABLE"}, entry |-> c]
    OBVIOUS
  <2>2. n \in FrameT /\ n.flags = {"ALLOCATED", "PAGEABLE"} /\ n.entry = c
    BY <2>1 DEF FrameT, Flags, Cells
  <2>3. n = Served(p, v)
    BY <1>4, <2>1, Zenon DEF Served
  <2> QED BY <2>2, <2>3
<1>11. page' \in [Frames -> FrameT] /\ page'[f] = n /\ \A g \in Frames \ {f} : page'[g] = page[g]
  BY <1>1, <1>2, <1>4, <1>10 DEF Types
<1>12. swapMap' \subseteq Slots
  BY <1>2, <1>8 DEF Types
<1>13. Types'
  BY <1>1, <1>2, <1>8, <1>9, <1>11, <1>12 DEF Types
<1>14. Theirs' = Theirs
  BY <1>1, SameTheirs
<1>15. \A e : e \in Mapped' <=> e \in Mapped \ E
  <2>1. SUFFICES ASSUME NEW e PROVE e \in Mapped' <=> e \in Mapped \ E
    OBVIOUS
  <2>2. e \in Mapped' <=> e \in Cells /\ e \in Theirs /\ e \in Present /\ e \notin E /\ Base(e)' # 0
    BY <1>8, <1>13, <1>14, MappedAreNext
  <2>3. e \in Cells \ E => Base(e)' = Base(e)
    BY <1>8
  <2> QED BY <1>2, <2>2, <2>3, MappedAre
<1>16. \A e : e \in OnDisk' <=> e \in OnDisk \cup E
  <2>1. SUFFICES ASSUME NEW e PROVE e \in OnDisk' <=> e \in OnDisk \cup E
    OBVIOUS
  <2>2. e \in OnDisk' <=> /\ e \in Cells /\ e \in Theirs /\ (e \notin Present \/ e \in E)
                          /\ (e \in (Stored \cup E) \ {c} \/ \E r \in Late : e = Cell(r))
    BY <1>8, <1>9, <1>13, <1>14, OnDiskAreNext DEF Late
  <2>3. e \in E => e \in Cells /\ e \in Theirs /\ e \in Present /\ e # c
    BY <1>2, <1>6, <1>8, MappedAre
  <2>4. e \in Stored /\ e = c => \E r \in Late : e = Cell(r)
    BY <1>4, <1>6
  <2> QED BY <1>2, <2>2, <2>3, <2>4, OnDiskAre
<1>17. \A r \in Procs \ {p} : JobOf(r)' /\ ~Busy(r)' /\ ~Writing(r)' /\ ~Given(r)' /\ job'[r].stage = "none"
  BY <1>2, <1>7, <1>9, IdleKept
<1>18. ~Writing(p)' /\ Busy(p)' /\ Given(p)'
  BY <1>3, <1>9 DEF Writing, Busy, Given
<1>19. Chain'
  BY <1>1, <1>2, <1>3, <1>9, <1>17, ChainKept DEF Chain
<1>20. JobOf(p)'
  <2>1. JobIdle(p)' /\ JobReads(p)' /\ JobWrites(p)'
    BY <1>3, <1>9, <1>18 DEF JobOf, JobIdle, JobReads, JobWrites, Busy
  <2>2. JobLoads(p)'
    BY <1>1, <1>3, <1>4, <1>9 DEF JobOf, JobLoads
  <2>3. JobPage(p)'
    BY <1>4, <1>6, <1>8, <1>9 DEF JobPage
  <2>4. f # 0
    BY DEF Frames
  <2>5. JobNoFrame(p)'
    BY <1>9, <2>4 DEF JobNoFrame
  <2>6. JobFrame(p)'
    BY <1>4, <1>8, <1>9, <1>10, <1>11 DEF JobFrame
  <2> QED BY <2>1, <2>2, <2>3, <2>5, <2>6 DEF JobOf
<1>21. JobsSound'
  <2>1. ASSUME NEW r \in Procs PROVE LoadingOf(r)'
    <3>1. SUFFICES ASSUME life[r] = "loading", NEW w \in Pages, w >= todo[r] PROVE <<r, w>> \notin Present' /\ <<r, w>> \notin Stored'
      BY <1>1 DEF LoadingOf
    <3>2. <<r, w>> \notin Present /\ <<r, w>> \notin Stored
      BY <1>2, <3>1 DEF JobsSound, LoadingOf
    <3>3. <<r, w>> \notin E
      BY <1>2, <1>8, <3>2, MappedAre
    <3> QED BY <1>8, <3>2, <3>3
  <2> QED BY <1>17, <1>20, <2>1 DEF JobsSound
<1>22. \A x \in Mapped \ E : Base(x)' = Base(x)
  BY <1>2, <1>8, MappedAre
<1>23. \A x \in OnDisk : Base(x)' = Base(x) /\ x \notin E
  BY <1>2, <1>8, OnDiskIn
<1>24. FramesSound'
  <2>1. ASSUME NEW g \in Frames PROVE FrameOf(g)'
    <3>0. FrameOf(g)
      BY <1>2 DEF FramesSound
    <3>1. CASE g = f
      <4>1. page'[g].flags = {"ALLOCATED", "PAGEABLE"}
        BY <1>10, <1>11, <3>1
      <4>2. Given(p)' /\ job'[p].frame = g
        BY <1>9, <1>18, <3>1
      <4>3. ~Contains(freeList', g) /\ ~ \E r \in Procs : g \in tables'[r]
        BY <1>1, <1>5, <3>0, <3>1 DEF FrameOf
      <4> QED BY <4>1, <4>2, <4>3 DEF FrameOf
    <3>2. CASE g # f
      <4>1. page'[g] = page[g]
        BY <1>11, <3>2
      <4>2. "LOCKED" \notin page[g].flags
        BY <1>4, <1>7, <3>0, <3>2 DEF FrameOf
      <4>3. PICK d : d = page[g].entry
        OBVIOUS
      <4>4. page[g].flags = {"ALLOCATED", "PAGEABLE"} => d \in Mapped' /\ Base(d)' = g
        <5>1. SUFFICES ASSUME page[g].flags = {"ALLOCATED", "PAGEABLE"} PROVE d \in Mapped' /\ Base(d)' = g
          OBVIOUS
        <5>2. \A r \in Procs : ~Given(r)
          BY <1>3, <1>7
        <5>3. d \in Mapped /\ Base(d) = g
          BY <3>0, <4>3, <5>1, <5>2 DEF FrameOf
        <5>4. d \notin E
          BY <1>8, <3>2, <5>3
        <5> QED BY <1>15, <1>22, <5>3, <5>4
      <4>5. /\ page'[g].flags \in {{}, {"ALLOCATED"}, {"ALLOCATED", "PAGEABLE"}, {"ALLOCATED", "LOCKED"}, {"LOCKED"}}
            /\ page'[g].flags = {} <=> Contains(freeList', g)
            /\ page'[g].flags = {"ALLOCATED"} <=> \E r \in Procs : g \in tables'[r]
        BY <1>1, <3>0, <4>1 DEF FrameOf
      <4>6. page'[g].entry = d
        BY <4>1, <4>3
      <4> QED BY <4>1, <4>2, <4>4, <4>5, <4>6 DEF FrameOf
    <3> QED BY <3>1, <3>2
  <2>2. TablesSound'
    BY <1>1, <1>2 DEF FramesSound, TablesSound
  <2>3. MappedSound'
    <3>1. SUFFICES ASSUME NEW e \in Mapped' PROVE /\ Base(e)' \in Frames /\ page'[Base(e)'].entry = e
                    /\ page'[Base(e)'].flags \in {{"ALLOCATED", "PAGEABLE"}, {"ALLOCATED", "LOCKED"}}
      BY DEF MappedSound
    <3>2. e \in Mapped \ E /\ Base(e)' = Base(e) /\ Base(e) # f
      BY <1>8, <1>15, <1>22
    <3> QED BY <1>2, <1>11, <3>2 DEF FramesSound, MappedSound
  <2>4. Distinct(freeList')
    BY <1>1, <1>2 DEF FramesSound
  <2> QED BY <2>1, <2>2, <2>3, <2>4 DEF FramesSound
<1>25. \A r \in Procs : job'[r].stage \notin {"written", "read"}
  BY <1>9, <1>17
<1>26. s \in swapMap /\ \A x \in OnDisk : Base(x) # s /\ Base(x) \in swapMap
  BY <1>1, <1>2, <1>4 DEF SlotsSound
<1>27. SlotsSound'
  <2>1. \A e \in OnDisk' : Base(e)' \in swapMap'
    BY <1>8, <1>16, <1>23, <1>26
  <2>2. ASSUME NEW d \in OnDisk', NEW e \in OnDisk', Base(d)' = Base(e)' PROVE d = e
    <3>1. \A x, y \in OnDisk : Base(x) = Base(y) => x = y
      BY <1>2 DEF SlotsSound
    <3> QED BY <1>8, <1>16, <1>23, <1>26, <2>2, <3>1
  <2>3. ASSUME NEW x \in swapMap' PROVE \E e \in OnDisk' : Base(e)' = x
    <3>1. x \in swapMap
      BY <1>8
    <3>2. CASE x = s
      <4>1. PICK d \in E : TRUE
        BY <1>8, <2>3, <3>2
      <4> QED BY <1>8, <1>16, <3>2
    <3>3. CASE x # s
      <4>1. \A r \in Procs : job[r].stage = "written" => job[r].slot = s
        BY <1>4, <1>7
      <4>2. PICK d \in OnDisk : Base(d) = x
        BY <1>2, <3>1, <3>3, <4>1 DEF SlotsSound
      <4> QED BY <1>16, <1>23, <4>2
    <3> QED BY <3>2, <3>3
  <2> QED BY <1>25, <2>1, <2>2, <2>3 DEF SlotsSound
<1>28. ContentsSound'
  <2>1. \A e \in Mapped' : mem'[Base(e)'] = e
    BY <1>1, <1>2, <1>15, <1>22 DEF ContentsSound
  <2>2. ASSUME NEW e \in OnDisk' PROVE swap'[Base(e)'] = e
    <3>1. CASE e \in E
      BY <1>1, <1>8, <3>1
    <3>2. CASE e \in OnDisk
      BY <1>1, <1>2, <1>23, <3>2 DEF ContentsSound
    <3> QED BY <1>16, <3>1, <3>2
  <2> QED BY <1>25, <2>1, <2>2 DEF ContentsSound
<1> QED BY <1>13, <1>19, <1>21, <1>24, <1>27, <1>28, ZenonT(40) DEF PagingParts

-----------------------------------------------------------------------------
(* Address spaces *)

(* Destroy_User_Context frees a frame or a slot, ...                         *)
LEMMA DestroyPageKeeps ==
  ASSUME PagingParts, NEW p \in Procs, DestroyPage(p) PROVE PagingParts' \/ broken'
<1>1. life[p] = "dead" /\ todo[p] \in Pages
  BY DEF DestroyPage, Reapable
<1>2. Types /\ Chain /\ JobsSound /\ FramesSound /\ SlotsSound /\ ContentsSound
  BY DEF PagingParts
<1>3. ~Busy(p)
  BY <1>1, <1>2 DEF Chain
<1>4. ~Writing(p) /\ ~Given(p) /\ p \notin Late /\ job[p].stage = "none"
  BY <1>2, <1>3, Idle
<1>5. PICK x \in Cells : x = <<p, todo[p]>> /\ x[1] = p /\ x[2] = todo[p]
  BY <1>1, CellsAre
<1>6. x \in Theirs
  <2>1. x[2] >= todo[x[1]]
    BY <1>1, <1>5 DEF Pages
  <2> QED BY <1>1, <1>2, <1>5, <2>1, TheirsAre
<1>7. ASSUME todo' = [todo EXCEPT ![p] = @ + 1], UNCHANGED <<pte, life, child, job>>, Types'
      PROVE /\ \A r \in Procs \ {p} : todo'[r] = todo[r]
            /\ Late' = Late /\ \A r \in Procs : /\ Cell(r)' = Cell(r) /\ (Busy(r)' <=> Busy(r))
                                               /\ (Writing(r)' <=> Writing(r)) /\ (Given(r)' <=> Given(r))
            /\ Present' = Present /\ Stored' = Stored /\ \A e : Base(e)' = Base(e)
            /\ \A e : e \in Mapped' <=> e \in Mapped /\ e # x
            /\ \A e : e \in OnDisk' <=> e \in OnDisk /\ e # x
            /\ Chain'
            /\ \A r \in Procs : LoadingOf(r)'
            /\ JobOf(p)'
  <2>1. pte' = pte /\ life' = life /\ child' = child /\ job' = job
    BY <1>7
  <2>2. todo'[p] = todo[p] + 1 /\ \A r \in Procs \ {p} : todo'[r] = todo[r]
    BY <1>2, <1>7 DEF Types
  <2>3. Late' = Late /\ \A r \in Procs : /\ Cell(r)' = Cell(r) /\ (Busy(r)' <=> Busy(r))
                                         /\ (Writing(r)' <=> Writing(r)) /\ (Given(r)' <=> Given(r))
    BY <2>1, SameJobs
  <2>4. Present' = Present /\ Stored' = Stored /\ \A e : Base(e)' = Base(e)
    BY <2>1 DEF Present, Stored, Base
  <2>5. ASSUME NEW e \in Cells PROVE e \in Theirs' <=> e \in Theirs /\ e # x
    <3>1. e[1] \in Procs /\ e[2] \in Nat /\ todo[p] \in Nat
      BY <1>1, CellParts, PagingAssumption DEF Pages
    <3>2. e = x <=> e[1] = p /\ e[2] = todo[p]
      BY <1>5, CellParts
    <3>3. CASE e[1] = p
      BY <1>1, <1>2, <1>7, <2>1, <2>2, <3>1, <3>2, <3>3, TheirsAre, TheirsAreNext
    <3>4. CASE e[1] # p
      BY <1>2, <1>7, <2>1, <2>2, <3>1, <3>2, <3>4, TheirsAre, TheirsAreNext
    <3> QED BY <3>3, <3>4
  <2>6. \A e : e \in Mapped' <=> e \in Mapped /\ e # x
    BY <1>2, <1>7, <2>4, <2>5, MappedAre, MappedAreNext
  <2>7. \A e : e \in OnDisk' <=> e \in OnDisk /\ e # x
    <3>1. SUFFICES ASSUME NEW e PROVE e \in OnDisk' <=> e \in OnDisk /\ e # x
      OBVIOUS
    <3>2. (\E r \in Late' : e = Cell(r)') <=> (\E r \in Late : e = Cell(r))
      BY <2>3 DEF Late
    <3> QED BY <1>2, <1>7, <2>4, <2>5, <3>2, OnDiskAre, OnDiskAreNext
  <2>8. Chain'
    BY <1>2, <2>1, <2>3, ChainKept DEF Chain
  <2>9. \A r \in Procs : LoadingOf(r)'
    <3>1. SUFFICES ASSUME NEW r \in Procs PROVE LoadingOf(r)'
      OBVIOUS
    <3>2. CASE r = p
      BY <1>1, <2>1, <3>2 DEF LoadingOf
    <3>3. CASE r # p
      BY <1>2, <2>1, <2>2, <2>4, <3>3, LoadingKept DEF JobsSound
    <3> QED BY <3>2, <3>3
  <2>10. JobOf(p)'
    BY <1>2, <1>3, <1>4, <2>1, <2>3, IdleKept
  <2> QED BY <2>2, <2>3, <2>4, <2>6, <2>7, <2>8, <2>9, <2>10
<1>8. CASE /\ pte[p][todo[p]].present /\ pte[p][todo[p]].base # 0
           /\ Free_Page(pte[p][todo[p]].base)
           /\ todo' = [todo EXCEPT ![p] = @ + 1]
           /\ UNCHANGED <<pte, tables, dataVars, swapMap, life, child, job, broken>>
  <2>1. /\ tables' = tables /\ mem' = mem /\ swap' = swap /\ swapMap' = swapMap /\ life' = life /\ child' = child
        /\ job' = job /\ broken' = broken /\ pte' = pte
    BY <1>8 DEF dataVars
  <2>2. x \in Present /\ Base(x) = pte[p][todo[p]].base /\ Base(x) # 0
    BY <1>5, <1>8 DEF Present, Base
  <2>3. x \in Mapped
    BY <1>2, <1>6, <2>2, MappedAre
  <2>4. PICK f \in Frames : f = Base(x)
    BY <1>2, <2>3 DEF FramesSound, MappedSound
  <2>5. page[f].entry = x /\ page[f].flags \in {{"ALLOCATED", "PAGEABLE"}, {"ALLOCATED", "LOCKED"}} /\ FrameOf(f)
    BY <1>2, <2>3, <2>4 DEF FramesSound, MappedSound
  <2>6. ~Contains(freeList, f) /\ ~ \E r \in Procs : f \in tables[r]
    BY <2>5 DEF FrameOf
  <2>7. PICK n \in FrameT :
          /\ n.entry = NoEntry
          /\ page' = [page EXCEPT ![f] = n]
          /\ \/ "LOCKED" \in page[f].flags /\ n.flags = {"LOCKED"} /\ freeList' = freeList
             \/ "LOCKED" \notin page[f].flags /\ n.flags = {} /\ freeList' = Append(freeList, f)
    <3>0. Free_Page(f)
      BY <1>8, <2>2, <2>4
    <3>1. CASE "LOCKED" \in page[f].flags
      <4>1. PICK n : n = [flags |-> page[f].flags \ {"ALLOCATED"}, entry |-> NoEntry]
        OBVIOUS
      <4>2. page' = [page EXCEPT ![f] = n] /\ freeList' = freeList
        BY <3>0, <3>1, <4>1 DEF Free_Page
      <4>3. page[f].flags \ {"ALLOCATED"} = {"LOCKED"}
        BY <2>5, <3>1
      <4>4. n \in FrameT /\ n.entry = NoEntry /\ n.flags = {"LOCKED"}
        BY <4>1, <4>3 DEF FrameT, Flags
      <4> QED BY <3>1, <4>2, <4>4
    <3>2. CASE "LOCKED" \notin page[f].flags
      <4>1. PICK n : n = [flags |-> page[f].flags \ {"ALLOCATED", "PAGEABLE"}, entry |-> NoEntry]
        OBVIOUS
      <4>2. page' = [page EXCEPT ![f] = n] /\ freeList' = Append(freeList, f)
        BY <3>0, <3>2, <4>1 DEF Free_Page
      <4>3. page[f].flags \ {"ALLOCATED", "PAGEABLE"} = {}
        BY <2>5, <3>2
      <4>4. n \in FrameT /\ n.entry = NoEntry /\ n.flags = {}
        BY <4>1, <4>3 DEF FrameT, Flags
      <4> QED BY <3>2, <4>2, <4>4
    <3> QED BY <3>1, <3>2
  <2>8. page' \in [Frames -> FrameT] /\ page'[f] = n /\ \A g \in Frames \ {f} : page'[g] = page[g]
    BY <1>2, <2>7 DEF Types
  <2>9. /\ freeList' \in Seq(Frames) /\ Distinct(freeList')
        /\ \A g : Contains(freeList', g) <=> Contains(freeList, g) \/ (g = f /\ "LOCKED" \notin page[f].flags)
    <3>1. freeList \in Seq(Frames) /\ Distinct(freeList)
      BY <1>2 DEF Types, FramesSound
    <3>2. CASE "LOCKED" \in page[f].flags
      BY <2>7, <3>1, <3>2
    <3>3. CASE "LOCKED" \notin page[f].flags
      <4>1. freeList' = Append(freeList, f)
        BY <2>7, <3>3
      <4>2. /\ Append(freeList, f) \in Seq(Frames) /\ Distinct(Append(freeList, f))
            /\ \A g : Contains(Append(freeList, f), g) <=> Contains(freeList, g) \/ g = f
        BY <2>6, <3>1, AppendFact
      <4> QED BY <3>3, <4>1, <4>2
    <3> QED BY <3>2, <3>3
  <2>10. todo' \in [Procs -> 1..(NumPages + 1)]
    <3>1. todo[p] + 1 \in 1..(NumPages + 1)
      BY <1>1, PagingAssumption DEF Pages
    <3> QED BY <1>2, <1>8, <3>1 DEF Types
  <2>11. Types'
    BY <1>2, <2>1, <2>8, <2>9, <2>10 DEF Types
  <2>12. /\ \A r \in Procs \ {p} : todo'[r] = todo[r]
         /\ Late' = Late /\ \A r \in Procs : /\ Cell(r)' = Cell(r) /\ (Busy(r)' <=> Busy(r))
                                             /\ (Writing(r)' <=> Writing(r)) /\ (Given(r)' <=> Given(r))
         /\ Present' = Present /\ Stored' = Stored /\ \A e : Base(e)' = Base(e)
         /\ \A e : e \in Mapped' <=> e \in Mapped /\ e # x
         /\ \A e : e \in OnDisk' <=> e \in OnDisk /\ e # x
         /\ Chain'
         /\ \A r \in Procs : LoadingOf(r)'
         /\ JobOf(p)'
    BY <1>7, <1>8, <2>1, <2>11
  <2>13. x \notin OnDisk
    BY <1>2, <2>2, OnDiskAre
  <2>14. OnDisk' = OnDisk
    BY <2>12, <2>13 DEF OnDisk
  <2>15. ASSUME NEW r \in Procs \ {p} PROVE JobOf(r)'
    <3>1. JobOf(r)
      BY <1>2 DEF JobsSound
    <3>2. Given(r) /\ job[r].frame # 0 => page'[job[r].frame] = page[job[r].frame]
      <4>1. SUFFICES ASSUME Given(r), job[r].frame # 0 PROVE page'[job[r].frame] = page[job[r].frame]
        OBVIOUS
      <4>2. page[job[r].frame].entry = Cell(r) /\ Busy(r)
        BY <3>1, <4>1 DEF JobOf, JobFrame, JobIdle, Given, Busy
      <4>3. Cell(r) \notin Present
        BY <3>1, <4>2 DEF JobOf, JobPage
      <4>4. job[r].frame \in Frames
        BY <1>2, <4>1, JobFields DEF Types
      <4>5. job[r].frame # f
        BY <2>2, <2>5, <4>2, <4>3
      <4> QED BY <2>8, <4>4, <4>5
    <3>3. Writing(r) => "LOCKED" \in page'[job[r].frame].flags
      <4>1. SUFFICES ASSUME Writing(r) PROVE "LOCKED" \in page'[job[r].frame].flags
        OBVIOUS
      <4>2. job[r].frame \in Frames /\ "LOCKED" \in page[job[r].frame].flags
        BY <3>1, <4>1 DEF JobOf, JobWrites
      <4>3. CASE job[r].frame = f
        BY <2>7, <2>8, <4>2, <4>3
      <4>4. CASE job[r].frame # f
        BY <2>8, <4>2, <4>4
      <4> QED BY <4>3, <4>4
    <3> QED BY <2>1, <2>12, <3>1, <3>2, <3>3, JobKept
  <2>16. JobsSound'
    BY <2>12, <2>15 DEF JobsSound
  <2>17. FramesSound'
    <3>1. ASSUME NEW g \in Frames PROVE FrameOf(g)'
      <4>0. FrameOf(g)
        BY <1>2 DEF FramesSound
      <4>1. CASE g = f
        <5>1. CASE "LOCKED" \in page[f].flags
          <6>1. page'[g].flags = {"LOCKED"}
            BY <2>7, <2>8, <4>1, <5>1
          <6>2. \E r \in Procs : Writing(r)' /\ job'[r].frame = g
            BY <2>1, <2>12, <4>0, <4>1, <5>1 DEF FrameOf
          <6>3. ~Contains(freeList', g) /\ ~ \E r \in Procs : g \in tables'[r]
            BY <2>1, <2>6, <2>9, <4>1, <5>1
          <6> QED BY <6>1, <6>2, <6>3 DEF FrameOf
        <5>2. CASE "LOCKED" \notin page[f].flags
          <6>1. page'[g].flags = {}
            BY <2>7, <2>8, <4>1, <5>2
          <6>3. Contains(freeList', g) /\ ~ \E r \in Procs : g \in tables'[r]
            BY <2>1, <2>6, <2>9, <4>1, <5>2
          <6> QED BY <6>1, <6>3 DEF FrameOf
        <5> QED BY <5>1, <5>2
      <4>2. CASE g # f
        <5>1. page'[g] = page[g]
          BY <2>8, <4>2
        <5>2. PICK d : d = page[g].entry
          OBVIOUS
        <5>3. d \in Mapped /\ Base(d) = g => d \in Mapped' /\ Base(d)' = g
          BY <2>4, <2>12, <4>2
        <5>4. /\ page'[g].flags \in {{}, {"ALLOCATED"}, {"ALLOCATED", "PAGEABLE"}, {"ALLOCATED", "LOCKED"}, {"LOCKED"}}
              /\ page'[g].flags = {} <=> Contains(freeList', g)
              /\ page'[g].flags = {"ALLOCATED"} <=> \E r \in Procs : g \in tables'[r]
          BY <2>1, <2>9, <4>0, <4>2, <5>1 DEF FrameOf
        <5>5. "LOCKED" \in page'[g].flags => \E r \in Procs : Writing(r)' /\ job'[r].frame = g
          BY <2>1, <2>12, <4>0, <5>1 DEF FrameOf
        <5>6. page'[g].flags = {"ALLOCATED", "LOCKED"} => d \in Mapped' /\ Base(d)' = g
          BY <4>0, <5>1, <5>2, <5>3 DEF FrameOf
        <5>7. page'[g].flags = {"ALLOCATED", "PAGEABLE"} =>
                 \/ d \in Mapped' /\ Base(d)' = g
                 \/ \E r \in Procs : Given(r)' /\ job'[r].frame = g
          BY <2>1, <2>12, <4>0, <5>1, <5>2, <5>3 DEF FrameOf
        <5>8. page'[g].entry = d
          BY <5>1, <5>2
        <5> QED BY <5>4, <5>5, <5>6, <5>7, <5>8 DEF FrameOf
      <4> QED BY <4>1, <4>2
    <3>2. TablesSound'
      BY <1>2, <2>1 DEF FramesSound, TablesSound
    <3>3. MappedSound'
      <4>1. SUFFICES ASSUME NEW e \in Mapped' PROVE /\ Base(e)' \in Frames /\ page'[Base(e)'].entry = e
                    /\ page'[Base(e)'].flags \in {{"ALLOCATED", "PAGEABLE"}, {"ALLOCATED", "LOCKED"}}
        BY DEF MappedSound
      <4>2. e \in Mapped /\ e # x /\ Base(e)' = Base(e)
        BY <2>12
      <4>3. Base(e) # f
        BY <1>2, <2>5, <4>2 DEF FramesSound, MappedSound
      <4> QED BY <1>2, <2>8, <4>2, <4>3 DEF FramesSound, MappedSound
    <3> QED BY <2>9, <3>1, <3>2, <3>3 DEF FramesSound
  <2>18. SlotsSound'
    BY <1>2, <2>1, <2>12, <2>14, SlotsKept
  <2>19. ContentsSound'
    <3>1. \A e \in Mapped' : mem'[Base(e)'] = e
      BY <1>2, <2>1, <2>12 DEF ContentsSound
    <3>2. \A e \in OnDisk' : swap'[Base(e)'] = e
      BY <1>2, <2>1, <2>12 DEF ContentsSound
    <3>3. ASSUME NEW r \in Procs, job'[r].stage = "written" /\ "ALLOCATED" \in page'[job'[r].frame].flags
          PROVE swap'[job'[r].slot] = page'[job'[r].frame].entry
      <4>1. job[r].stage = "written" /\ job[r].frame \in Frames
        BY <1>2, <2>1, <3>3 DEF JobsSound, JobOf, JobWrites, Writing
      <4>2. job[r].frame # f
        BY <2>1, <2>7, <2>8, <3>3
      <4>3. page'[job[r].frame] = page[job[r].frame]
        BY <2>8, <4>1, <4>2
      <4> QED BY <1>2, <2>1, <3>3, <4>1, <4>3 DEF ContentsSound
    <3>4. \A r \in Procs : job'[r].stage = "read" /\ job'[r].frame # 0 => mem'[job'[r].frame] = Cell(r)'
      BY <1>2, <2>1, <2>12 DEF ContentsSound
    <3> QED BY <3>1, <3>2, <3>3, <3>4 DEF ContentsSound
  <2> QED BY <2>11, <2>12, <2>16, <2>17, <2>18, <2>19 DEF PagingParts
<1>9. CASE /\ ~pte[p][todo[p]].present
           /\ swapMap' = IF pte[p][todo[p]].onDisk THEN swapMap \ {pte[p][todo[p]].base} ELSE swapMap
           /\ todo' = [todo EXCEPT ![p] = @ + 1]
           /\ UNCHANGED <<pte, tables, frameVars, dataVars, life, child, job, broken>>
  <2>1. /\ tables' = tables /\ mem' = mem /\ swap' = swap /\ page' = page /\ freeList' = freeList /\ life' = life /\ child' = child
        /\ job' = job /\ broken' = broken /\ pte' = pte
    BY <1>9 DEF dataVars, frameVars
  <2>2. x \notin Present /\ Base(x) = pte[p][todo[p]].base
    BY <1>5, <1>9 DEF Present, Base
  <2>3. x \in Stored <=> pte[p][todo[p]].onDisk
    BY <1>5 DEF Stored
  <2>4. x \in OnDisk <=> x \in Stored
    <3>1. \A r \in Late : x # Cell(r)
      BY <1>4, <1>5 DEF Cell
    <3> QED BY <1>2, <1>6, <2>2, <3>1, OnDiskAre
  <2>5. \/ x \in OnDisk /\ swapMap' = swapMap \ {Base(x)}
        \/ x \notin OnDisk /\ swapMap' = swapMap
    BY <1>9, <2>2, <2>3, <2>4
  <2>10. todo' \in [Procs -> 1..(NumPages + 1)]
    <3>1. todo[p] + 1 \in 1..(NumPages + 1)
      BY <1>1, PagingAssumption DEF Pages
    <3> QED BY <1>2, <1>9, <3>1 DEF Types
  <2>a. swapMap' \subseteq swapMap /\ swapMap' \subseteq Slots
    BY <1>2, <2>5 DEF Types
  <2>11. Types'
    BY <1>2, <2>1, <2>a, <2>10 DEF Types
  <2>12. /\ \A r \in Procs \ {p} : todo'[r] = todo[r]
         /\ Late' = Late /\ \A r \in Procs : /\ Cell(r)' = Cell(r) /\ (Busy(r)' <=> Busy(r))
                                             /\ (Writing(r)' <=> Writing(r)) /\ (Given(r)' <=> Given(r))
         /\ Present' = Present /\ Stored' = Stored /\ \A e : Base(e)' = Base(e)
         /\ \A e : e \in Mapped' <=> e \in Mapped /\ e # x
         /\ \A e : e \in OnDisk' <=> e \in OnDisk /\ e # x
         /\ Chain'
         /\ \A r \in Procs : LoadingOf(r)'
         /\ JobOf(p)'
    BY <1>7, <1>9, <2>1, <2>11
  <2>13. x \notin Mapped
    BY <1>2, <2>2, MappedAre
  <2>14. Mapped' = Mapped
    BY <2>12, <2>13 DEF Mapped
  <2>15. ASSUME NEW r \in Procs \ {p} PROVE JobOf(r)'
    <3>1. JobOf(r)
      BY <1>2 DEF JobsSound
    <3>3. Writing(r) => "LOCKED" \in page'[job[r].frame].flags
      BY <2>1, <3>1 DEF JobOf, JobWrites
    <3> QED BY <2>1, <2>a, <2>12, <3>1, <3>3, JobKept
  <2>16. JobsSound'
    BY <2>12, <2>15 DEF JobsSound
  <2>17. FramesSound'
    BY <1>2, <2>1, <2>12, <2>14, FramesKept
  <2>18. SlotsSound'
    <3>0. \A d, e \in OnDisk : Base(d) = Base(e) => d = e
      BY <1>2 DEF SlotsSound
    <3>1. \A e \in OnDisk' : Base(e)' \in swapMap'
      <4>1. SUFFICES ASSUME NEW e \in OnDisk' PROVE Base(e)' \in swapMap'
        OBVIOUS
      <4>2. e \in OnDisk /\ e # x /\ Base(e) \in swapMap /\ Base(e)' = Base(e)
        BY <1>2, <2>12 DEF SlotsSound
      <4> QED BY <2>5, <3>0, <4>2
    <3>2. \A d, e \in OnDisk' : Base(d)' = Base(e)' => d = e
      BY <2>12, <3>0
    <3>3. ASSUME NEW r \in Procs, job'[r].stage = "written"
          PROVE job'[r].slot \in swapMap' /\ \A e \in OnDisk' : Base(e)' # job'[r].slot
      <4>1. job[r].slot \in swapMap /\ \A e \in OnDisk : Base(e) # job[r].slot
        BY <1>2, <2>1, <3>3 DEF SlotsSound
      <4>2. job'[r].slot = job[r].slot
        BY <2>1
      <4>3. job[r].slot \in swapMap'
        BY <2>5, <4>1
      <4> QED BY <2>12, <4>1, <4>2, <4>3
    <3>4. ASSUME NEW s \in swapMap' PROVE \/ \E e \in OnDisk' : Base(e)' = s
                        \/ \E r \in Procs : job'[r].stage = "written" /\ job'[r].slot = s
      <4>1. s \in swapMap /\ (x \in OnDisk => s # Base(x))
        BY <2>5, <2>a
      <4>2. CASE \E e \in OnDisk : Base(e) = s
        <5>1. PICK e \in OnDisk : Base(e) = s
          BY <4>2
        <5>2. e # x
          BY <4>1, <5>1
        <5> QED BY <2>12, <5>1, <5>2
      <4>3. CASE \E r \in Procs : job[r].stage = "written" /\ job[r].slot = s
        BY <2>1, <4>3
      <4> QED BY <1>2, <4>1, <4>2, <4>3 DEF SlotsSound
    <3> QED BY <3>1, <3>2, <3>3, <3>4 DEF SlotsSound
  <2>19. ContentsSound'
    <3>1. \A e \in Mapped' : mem'[Base(e)'] = e
      BY <1>2, <2>1, <2>12 DEF ContentsSound
    <3>2. \A e \in OnDisk' : swap'[Base(e)'] = e
      BY <1>2, <2>1, <2>12 DEF ContentsSound
    <3>3. \A r \in Procs : job'[r].stage = "written" /\ "ALLOCATED" \in page'[job'[r].frame].flags =>
                swap'[job'[r].slot] = page'[job'[r].frame].entry
      BY <1>2, <2>1 DEF ContentsSound
    <3>4. \A r \in Procs : job'[r].stage = "read" /\ job'[r].frame # 0 => mem'[job'[r].frame] = Cell(r)'
      BY <1>2, <2>1, <2>12 DEF ContentsSound
    <3> QED BY <3>1, <3>2, <3>3, <3>4 DEF ContentsSound
  <2> QED BY <2>11, <2>12, <2>16, <2>17, <2>18, <2>19 DEF PagingParts
<1>10. CASE Break
  BY <1>10 DEF Break
<1> QED BY <1>8, <1>9, <1>10 DEF DestroyPage

(* A set put in a list, in any order.                                               *)
LEMMA SetToSeqFact ==
  ASSUME NEW S, NEW T \in SUBSET S, IsFiniteSet(T)
  PROVE  /\ SetToSeq(T) \in Seq(S) /\ Distinct(SetToSeq(T))
         /\ \A u : Contains(SetToSeq(T), u) <=> u \in T
<1>1. PICK n \in Nat : n = Cardinality(T)
  BY FS_CardinalityType
<1>2. PICK g \in [1..n -> T] : IsInjective(g)
  BY <1>1, FS_CardinalityType DEF ExistsBijection, Bijection, Injection
<1>3. PICK s : s = SetToSeq(T)
  OBVIOUS
<1>4. s \in [1..n -> T] /\ IsInjective(s)
  BY <1>1, <1>2, <1>3, Zenon DEF SetToSeq
<1>5. s \in Injection(1..n, T)
  BY <1>4 DEF Injection
<1>6. Cardinality(1..n) = Cardinality(T)
  <2>1. Cardinality(1..n) = IF 1 > n THEN 0 ELSE n - 1 + 1
    BY FS_Interval
  <2> QED BY <1>1, <2>1
<1>7. s \in Surjection(1..n, T)
  BY <1>5, <1>6, FS_Injection
<1>8. s \in Seq(S) /\ Len(s) = n
  BY <1>4
<1>9. Distinct(s)
  BY <1>4, <1>8 DEF IsInjective, Distinct
<1>10. \A u : Contains(s, u) <=> u \in T
  BY <1>4, <1>7, <1>8 DEF Surjection, Contains
<1> QED BY <1>3, <1>8, <1>9, <1>10

(* The first elements of a list, and the rest of it.                                *)
LEMMA PrefixFact ==
  ASSUME NEW S, NEW s \in Seq(S), Distinct(s), NEW n \in Nat, n <= Len(s)
  PROVE  /\ SubSeq(s, n + 1, Len(s)) \in Seq(S) /\ Distinct(SubSeq(s, n + 1, Len(s)))
         /\ ToSet(SubSeq(s, 1, n)) \subseteq S
         /\ \A u : u \in ToSet(SubSeq(s, 1, n)) => Contains(s, u)
         /\ \A u : Contains(SubSeq(s, n + 1, Len(s)), u) <=> Contains(s, u) /\ u \notin ToSet(SubSeq(s, 1, n))
<1>0. PICK l \in Nat : l = Len(s)
  OBVIOUS
<1>1. PICK a : a = SubSeq(s, 1, n)
  OBVIOUS
<1>2. PICK b : b = SubSeq(s, n + 1, l)
  OBVIOUS
<1>3. a \in Seq(S) /\ Len(a) = n /\ \A i \in 1..n : a[i] = s[i]
  BY <1>0, <1>1
<1>4. b \in Seq(S) /\ Len(b) = l - n /\ \A i \in 1..(l - n) : b[i] = s[i + n]
  BY <1>0, <1>2
<1>5. ASSUME NEW u PROVE u \in ToSet(a) <=> \E i \in 1..n : s[i] = u
  <2>1. u \in ToSet(a) <=> Contains(a, u)
    BY <1>3, ToSetFact
  <2>2. Contains(a, u) <=> \E i \in 1..n : a[i] = u
    BY <1>3 DEF Contains
  <2> QED BY <1>3, <2>1, <2>2
<1>6. Distinct(b)
  BY <1>0, <1>4 DEF Distinct
<1>7. ASSUME NEW u PROVE Contains(b, u) <=> \E i \in (n + 1)..l : s[i] = u
  <2>1. ASSUME NEW i \in (n + 1)..l, s[i] = u PROVE Contains(b, u)
    <3>1. i - n \in 1..(l - n) /\ (i - n) + n = i
      BY <1>0
    <3>2. b[i - n] = u
      BY <1>4, <2>1, <3>1
    <3> QED BY <1>4, <3>1, <3>2 DEF Contains
  <2>2. ASSUME NEW i \in 1..(l - n), b[i] = u PROVE i + n \in (n + 1)..l /\ s[i + n] = u
    BY <1>0, <1>4, <2>2
  <2> QED BY <1>4, <2>1, <2>2 DEF Contains
<1>8. ASSUME NEW u PROVE Contains(b, u) <=> Contains(s, u) /\ u \notin ToSet(a)
  <2>1. Contains(s, u) <=> \E i \in 1..l : s[i] = u
    BY <1>0 DEF Contains
  <2>2. \A i, j \in 1..l : s[i] = s[j] => i = j
    BY <1>0 DEF Distinct
  <2>3. 1..l = (1..n) \cup ((n + 1)..l) /\ (1..n) \cap ((n + 1)..l) = {}
    BY <1>0
  <2> QED BY <1>5, <1>7, <2>1, <2>2, <2>3
<1>9. ASSUME NEW u, u \in ToSet(a) PROVE Contains(s, u)
  BY <1>0, <1>5, <1>9 DEF Contains
<1>10. ToSet(a) \subseteq S
  BY <1>3, ToSetFact
<1> QED BY <1>0, <1>1, <1>2, <1>4, <1>6, <1>8, <1>9, <1>10

(* Frames that change hands between the free list and the tables of a process.      *)
LEMMA TablesMove ==
  ASSUME PagingParts, NEW T \in SUBSET Frames, UNCHANGED <<job, swapMap>>,
    Mapped' = Mapped, OnDisk' = OnDisk, \A e \in Mapped \cup OnDisk : Base(e)' = Base(e),
    \A f \in Frames \ T : /\ page'[f] = page[f] /\ (Contains(freeList', f) <=> Contains(freeList, f))
                          /\ (\E p \in Procs : f \in tables'[p]) <=> (\E p \in Procs : f \in tables[p]),
    \A f \in T : /\ page[f].flags \in {{}, {"ALLOCATED"}} /\ page'[f].flags \in {{}, {"ALLOCATED"}}
                 /\ page'[f].flags = {} <=> Contains(freeList', f)
                 /\ page'[f].flags = {"ALLOCATED"} <=> \E p \in Procs : f \in tables'[p]
  PROVE /\ \A f \in Frames : FrameOf(f)'
        /\ MappedSound' /\ SlotsSound'
        /\ \A p \in Procs : job[p].frame \in Frames /\ (Writing(p) \/ (Given(p) /\ job[p].frame # 0)) =>
             page'[job[p].frame] = page[job[p].frame]
<1>1. FramesSound /\ SlotsSound /\ JobsSound
  BY DEF PagingParts
<1>2. \A r \in Procs : (Writing(r)' <=> Writing(r)) /\ (Given(r)' <=> Given(r)) /\ job'[r].frame = job[r].frame
  BY SameJobs
<1>3. ASSUME NEW f \in Frames PROVE FrameOf(f)'
  <2>1. FrameOf(f)
    BY <1>1 DEF FramesSound
  <2>2. CASE f \in T
    <3>1. page'[f].flags \in {{}, {"ALLOCATED"}}
      BY <2>2
    <3>2. /\ "LOCKED" \notin page'[f].flags /\ page'[f].flags # {"ALLOCATED", "LOCKED"}
          /\ page'[f].flags # {"ALLOCATED", "PAGEABLE"}
      BY <3>1
    <3>3. /\ page'[f].flags = {} <=> Contains(freeList', f)
          /\ page'[f].flags = {"ALLOCATED"} <=> \E p \in Procs : f \in tables'[p]
      BY <2>2
    <3> QED BY <3>1, <3>2, <3>3 DEF FrameOf
  <2>3. CASE f \notin T
    <3>1. PICK d : d = page[f].entry /\ d = page'[f].entry
      BY <2>3
    <3>2. d \in Mapped /\ Base(d) = f => d \in Mapped' /\ Base(d)' = f
      OBVIOUS
    <3>3. /\ page'[f].flags \in {{}, {"ALLOCATED"}, {"ALLOCATED", "PAGEABLE"}, {"ALLOCATED", "LOCKED"}, {"LOCKED"}}
          /\ page'[f].flags = {} <=> Contains(freeList', f)
          /\ page'[f].flags = {"ALLOCATED"} <=> \E r \in Procs : f \in tables'[r]
      BY <2>1, <2>3 DEF FrameOf
    <3>4. "LOCKED" \in page'[f].flags => \E r \in Procs : Writing(r)' /\ job'[r].frame = f
      BY <1>2, <2>1, <2>3 DEF FrameOf
    <3>5. page'[f].flags = {"ALLOCATED", "LOCKED"} => d \in Mapped' /\ Base(d)' = f
      BY <2>1, <2>3, <3>1, <3>2 DEF FrameOf
    <3>6. page'[f].flags = {"ALLOCATED", "PAGEABLE"} =>
             \/ d \in Mapped' /\ Base(d)' = f
             \/ \E r \in Procs : Given(r)' /\ job'[r].frame = f
      BY <1>2, <2>1, <2>3, <3>1, <3>2 DEF FrameOf
    <3> QED BY <3>1, <3>3, <3>4, <3>5, <3>6 DEF FrameOf
  <2> QED BY <2>2, <2>3
<1>4. MappedSound'
  <2>1. SUFFICES ASSUME NEW e \in Mapped' PROVE /\ Base(e)' \in Frames /\ page'[Base(e)'].entry = e
                    /\ page'[Base(e)'].flags \in {{"ALLOCATED", "PAGEABLE"}, {"ALLOCATED", "LOCKED"}}
    BY DEF MappedSound
  <2>2. /\ e \in Mapped /\ Base(e)' = Base(e) /\ Base(e) \in Frames /\ page[Base(e)].entry = e
        /\ page[Base(e)].flags \in {{"ALLOCATED", "PAGEABLE"}, {"ALLOCATED", "LOCKED"}}
    BY <1>1 DEF FramesSound, MappedSound
  <2>3. Base(e) \notin T
    <3>1. ASSUME Base(e) \in T PROVE FALSE
      <4>1. page[Base(e)].flags \in {{}, {"ALLOCATED"}}
        BY <3>1
      <4>2. "PAGEABLE" \notin page[Base(e)].flags /\ "LOCKED" \notin page[Base(e)].flags
        BY <4>1
      <4>3. "PAGEABLE" \in page[Base(e)].flags \/ "LOCKED" \in page[Base(e)].flags
        BY <2>2
      <4> QED BY <4>2, <4>3
    <3> QED BY <3>1
  <2> QED BY <2>2, <2>3
<1>5. SlotsSound'
  BY <1>1, SlotsKept
<1>6. ASSUME NEW p \in Procs, job[p].frame \in Frames, Writing(p) \/ (Given(p) /\ job[p].frame # 0)
      PROVE  page'[job[p].frame] = page[job[p].frame]
  <2>1. "LOCKED" \in page[job[p].frame].flags \/ page[job[p].frame].flags = {"ALLOCATED", "PAGEABLE"}
    BY <1>1, <1>6 DEF JobsSound, JobOf, JobWrites, JobFrame
  <2>2. job[p].frame \notin T
    BY <2>1
  <2> QED BY <1>6, <2>2
<1> QED BY <1>3, <1>4, <1>5, <1>6

(* ... and the tables last.                                                  *)
LEMMA DestroyTablesKeeps ==
  ASSUME PagingParts, NEW p \in Procs, DestroyTables(p) PROVE PagingParts'
<1>1. /\ life[p] = "dead" /\ todo[p] \notin Pages /\ \A q \in DOMAIN child : child[q] # p
      /\ page' = [f \in Frames |-> IF f \in tables[p] THEN [page[f] EXCEPT !.flags = {}] ELSE page[f]]
      /\ freeList' = freeList \o SetToSeq(tables[p])
      /\ tables' = [tables EXCEPT ![p] = {}] /\ life' = [life EXCEPT ![p] = "none"]
      /\ pte' = [pte EXCEPT ![p] = [v \in Pages |-> EmptyEntry]] /\ todo' = [todo EXCEPT ![p] = 1]
      /\ mem' = [f \in DOMAIN mem |-> IF mem[f] \in {p} \X Pages THEN Debris ELSE mem[f]]
      /\ swap' = [s \in Slots |-> IF swap[s] \in {p} \X Pages THEN Debris ELSE swap[s]]
      /\ swapMap' = swapMap /\ child' = child /\ job' = job /\ broken' = broken
  BY DEF DestroyTables, Reapable
<1>2. Types /\ Chain /\ JobsSound /\ FramesSound /\ SlotsSound /\ ContentsSound
  BY DEF PagingParts
<1>3. todo[p] = NumPages + 1 /\ NumPages \in Nat
  <2>1. NumPages \in Nat /\ todo[p] \in 1..(NumPages + 1)
    BY <1>2, PagingAssumption DEF Types
  <2> QED BY <1>1, <2>1 DEF Pages
<1>4. ~Busy(p)
  BY <1>1, <1>2 DEF Chain
<1>5. ~Writing(p) /\ ~Given(p) /\ p \notin Late /\ job[p].stage = "none"
  BY <1>2, <1>4, Idle
<1>6. \A e \in Theirs : e[1] # p
  <2>1. SUFFICES ASSUME NEW e \in Theirs PROVE e[1] # p
    OBVIOUS
  <2>2. e \in Cells /\ e[2] \in 1..NumPages
    BY CellParts DEF Theirs, Pages
  <2> QED BY <1>1, <1>2, <1>3, <2>2, TheirsAre
<1>7. PICK T \in SUBSET Frames : T = tables[p]
  BY <1>2 DEF Types
<1>8. /\ tables' \in [Procs -> SUBSET Frames] /\ tables'[p] = {} /\ \A r \in Procs \ {p} : tables'[r] = tables[r]
      /\ life' \in [Procs -> {"none", "loading", "running", "dead"}] /\ life'[p] = "none"
      /\ \A r \in Procs \ {p} : life'[r] = life[r]
      /\ \A r \in Procs \ {p} : todo'[r] = todo[r]
  BY <1>1, <1>2 DEF Types
<1>9. todo' \in [Procs -> 1..(NumPages + 1)]
  <2>1. 1 \in 1..(NumPages + 1)
    BY <1>3
  <2> QED BY <1>1, <1>2, <2>1 DEF Types
<1>10. \A f \in T : page[f].flags = {"ALLOCATED"} /\ ~Contains(freeList, f) /\ \A r \in Procs \ {p} : f \notin tables[r]
  <2>1. SUFFICES ASSUME NEW f \in T
                 PROVE page[f].flags = {"ALLOCATED"} /\ ~Contains(freeList, f) /\ \A r \in Procs \ {p} : f \notin tables[r]
    OBVIOUS
  <2>2. FrameOf(f)
    BY <1>2 DEF FramesSound
  <2>3. page[f].flags = {"ALLOCATED"} /\ ~Contains(freeList, f)
    BY <1>7, <2>2 DEF FrameOf
  <2>4. \A r \in Procs \ {p} : f \notin tables[r]
    BY <1>2, <1>7 DEF FramesSound, TablesSound
  <2> QED BY <2>3, <2>4
<1>11. /\ page' \in [Frames -> FrameT] /\ \A f \in T : page'[f].flags = {}
       /\ \A f \in Frames \ T : page'[f] = page[f]
  <2>1. ASSUME NEW f \in T PROVE page'[f] \in FrameT /\ page'[f].flags = {}
    <3>1. PICK x \in FrameT : x = page[f]
      BY <1>2 DEF Types
    <3>2. page'[f] = [x EXCEPT !.flags = {}]
      BY <1>1, <1>7, <3>1
    <3>3. {} \in SUBSET Flags
      OBVIOUS
    <3> QED BY <3>1, <3>2, <3>3 DEF FrameT
  <2>2. ASSUME NEW f \in Frames \ T PROVE page'[f] = page[f] /\ page'[f] \in FrameT
    BY <1>1, <1>2, <1>7, <2>2 DEF Types
  <2>3. DOMAIN page' = Frames /\ page' = [f \in Frames |-> page'[f]]
    BY <1>1
  <2>4. \A f \in Frames : page'[f] \in FrameT
    BY <2>1, <2>2
  <2> QED BY <2>1, <2>2, <2>3, <2>4
<1>12. /\ freeList' \in Seq(Frames) /\ Distinct(freeList')
       /\ \A f : Contains(freeList', f) <=> Contains(freeList, f) \/ f \in T
  <2>1. freeList \in Seq(Frames) /\ Distinct(freeList)
    BY <1>2 DEF Types, FramesSound
  <2>2. IsFiniteSet(T)
    <3>1. 1 \in Int /\ NumFrames \in Int
      BY PagingAssumption
    <3>2. IsFiniteSet(1..NumFrames)
      BY <3>1, FS_Interval, Zenon
    <3>3. IsFiniteSet(Frames)
      BY <3>2 DEF Frames
    <3> QED BY <3>3, FS_Subset
  <2>3. PICK t : t = SetToSeq(T)
    OBVIOUS
  <2>4. t \in Seq(Frames) /\ Distinct(t) /\ \A u : Contains(t, u) <=> u \in T
    BY <2>2, <2>3, SetToSeqFact
  <2>5. freeList' = freeList \o t
    BY <1>1, <1>7, <2>3
  <2>6. /\ freeList \o t \in Seq(Frames)
        /\ \A u : Contains(freeList \o t, u) <=> Contains(freeList, u) \/ Contains(t, u)
        /\ Distinct(freeList) /\ Distinct(t) /\ (\A u \in Frames : ~(Contains(freeList, u) /\ Contains(t, u)))
              => Distinct(freeList \o t)
    BY <2>1, <2>4, ConcatFact
  <2>7. \A u \in Frames : ~(Contains(freeList, u) /\ Contains(t, u))
    BY <1>10, <2>4
  <2> QED BY <2>1, <2>4, <2>5, <2>6, <2>7
<1>13. /\ mem' \in [Frames \cup {0} -> Contents] /\ swap' \in [Slots -> Contents]
       /\ \A f \in Frames \cup {0} : mem[f] \notin {p} \X Pages => mem'[f] = mem[f]
       /\ \A s \in Slots : swap[s] \notin {p} \X Pages => swap'[s] = swap[s]
  <2>1. Debris \in Contents
    BY DEF Contents
  <2> QED BY <1>1, <1>2, <2>1 DEF Types
<1>14. /\ pte' \in [Procs -> [Pages -> EntryT]]
       /\ Present' = {e \in Present : e[1] # p} /\ Stored' = {e \in Stored : e[1] # p}
       /\ \A e \in Cells : e[1] # p => Base(e)' = Base(e)
  BY <1>1, <1>2, EntriesCleared DEF Types
<1>15. Types'
  BY <1>1, <1>2, <1>8, <1>9, <1>11, <1>12, <1>13, <1>14 DEF Types
<1>16. Late' = Late /\ \A r \in Procs : /\ Cell(r)' = Cell(r) /\ (Busy(r)' <=> Busy(r))
                                       /\ (Writing(r)' <=> Writing(r)) /\ (Given(r)' <=> Given(r))
  BY <1>1, SameJobs
<1>17. ASSUME NEW e \in Cells PROVE e \in Theirs' <=> e \in Theirs
  <2>1. e[1] \in Procs
    BY CellParts
  <2>2. CASE e[1] = p
    BY <1>6, <1>8, <1>15, <2>1, <2>2, TheirsAreNext
  <2>3. CASE e[1] # p
    BY <1>2, <1>8, <1>15, <2>1, <2>3, TheirsAre, TheirsAreNext
  <2> QED BY <2>2, <2>3
<1>18. Mapped' = Mapped
  <2>1. ASSUME NEW e PROVE e \in Mapped' <=> e \in Mapped
    BY <1>2, <1>6, <1>14, <1>15, <1>17, MappedAre, MappedAreNext
  <2> QED BY <2>1 DEF Mapped
<1>19. OnDisk' = OnDisk
  <2>1. ASSUME NEW e PROVE e \in OnDisk' <=> e \in OnDisk
    <3>1. (\E r \in Late' : e = Cell(r)') <=> (\E r \in Late : e = Cell(r))
      BY <1>16 DEF Late
    <3> QED BY <1>2, <1>6, <1>14, <1>15, <1>17, <3>1, OnDiskAre, OnDiskAreNext
  <2> QED BY <2>1 DEF OnDisk
<1>20. \A e \in Mapped \cup OnDisk : e \in Cells /\ e[1] # p /\ Base(e)' = Base(e)
  BY <1>2, <1>6, <1>14, MappedAre, OnDiskAre
<1>21. /\ \A f \in Frames : FrameOf(f)'
       /\ MappedSound' /\ SlotsSound'
       /\ \A r \in Procs : job[r].frame \in Frames /\ (Writing(r) \/ (Given(r) /\ job[r].frame # 0)) =>
            page'[job[r].frame] = page[job[r].frame]
  <2>1. \A f \in Frames \ T : /\ page'[f] = page[f] /\ (Contains(freeList', f) <=> Contains(freeList, f))
                              /\ (\E r \in Procs : f \in tables'[r]) <=> (\E r \in Procs : f \in tables[r])
    BY <1>7, <1>8, <1>11, <1>12
  <2>2. \A f \in T : /\ page[f].flags \in {{}, {"ALLOCATED"}} /\ page'[f].flags \in {{}, {"ALLOCATED"}}
                     /\ page'[f].flags = {} <=> Contains(freeList', f)
                     /\ page'[f].flags = {"ALLOCATED"} <=> \E r \in Procs : f \in tables'[r]
    BY <1>8, <1>10, <1>11, <1>12
  <2>3. job' = job /\ swapMap' = swapMap /\ \A e \in Mapped \cup OnDisk : Base(e)' = Base(e)
    BY <1>1, <1>20
  <2> QED BY <1>7, <1>18, <1>19, <2>1, <2>2, <2>3, TablesMove
<1>22. Chain'
  <2>1. NoProc \notin Procs /\ Shell \in Procs /\ Main \notin Procs
    BY PagingAssumption
  <2>2. \A q \in Threads : child[q] # p
    BY <1>1, <1>2 DEF Types
  <2>3. \A r \in Turn' : r \in Turn
    BY <1>1, <1>8, <2>2 DEF Turn
  <2>4. \A r \in Procs : Busy(r)' => child'[r] = NoProc /\ life'[r] = IF job'[r].kind = "fault" THEN "running" ELSE "loading"
    BY <1>1, <1>2, <1>4, <1>8, <1>16 DEF Chain
  <2>5. \A r \in Procs : life'[r] # "running" => child'[r] = NoProc
    BY <1>1, <1>2, <1>8 DEF Chain
  <2>6. \A r, s \in Threads : child'[r] = child'[s] /\ child'[r] # NoProc => r = s
    BY <1>1, <1>2 DEF Chain
  <2>7. \A r \in Threads : child'[r] # NoProc => life'[child'[r]] # "none"
    BY <1>1, <1>2, <1>8, <2>2 DEF Chain, Types
  <2>8. life'[Shell] # "dead" /\ child'[Main] \in {Shell, NoProc} /\ (child'[Main] = NoProc => \A r \in Procs : life'[r] = "none")
    BY <1>1, <1>2, <1>8, <2>1 DEF Chain
  <2> QED BY <1>2, <2>3, <2>4, <2>5, <2>6, <2>7, <2>8 DEF Chain
<1>23. JobsSound'
  <2>1. SUFFICES ASSUME NEW r \in Procs PROVE JobOf(r)' /\ LoadingOf(r)'
    BY DEF JobsSound
  <2>2. JobOf(r) /\ LoadingOf(r)
    BY <1>2 DEF JobsSound
  <2>3. CASE r = p
    <3>1. JobOf(p)'
      BY <1>1, <1>2, <1>4, <1>5, <1>16, IdleKept
    <3>2. LoadingOf(p)'
      BY <1>8 DEF LoadingOf
    <3> QED BY <2>3, <3>1, <3>2
  <2>4. CASE r # p
    <3>0. Cell(r) \in Cells /\ Cell(r)[1] = r /\ job[r].frame \in Frames \cup {0}
      BY <1>2, JobFields DEF Types
    <3>1. Present' \subseteq Present /\ (Cell(r) \in Stored' <=> Cell(r) \in Stored)
      BY <1>14, <2>4, <3>0
    <3>2. Writing(r) => "LOCKED" \in page'[job[r].frame].flags
      BY <1>21, <2>2 DEF JobOf, JobWrites
    <3>3. Given(r) /\ job[r].frame # 0 => page'[job[r].frame] = page[job[r].frame]
      BY <1>21, <3>0
    <3>4. JobOf(r)'
      BY <1>1, <1>8, <1>16, <2>2, <2>4, <3>1, <3>2, <3>3, JobKept
    <3>5. LoadingOf(r)'
      BY <1>8, <1>14, <2>2, <2>4, LoadingKept
    <3> QED BY <3>4, <3>5
  <2> QED BY <2>3, <2>4
<1>24. FramesSound'
  <2>1. TablesSound'
    BY <1>2, <1>8 DEF FramesSound, TablesSound
  <2> QED BY <1>12, <1>21, <2>1 DEF FramesSound
<1>25. ContentsSound'
  <2>0. ASSUME NEW e \in Cells, e[1] # p PROVE e \notin {p} \X Pages
    BY <2>0
  <2>1. ASSUME NEW e \in Mapped' PROVE mem'[Base(e)'] = e
    <3>1. e \in Mapped /\ mem[Base(e)] = e /\ Base(e) \in Frames /\ Base(e)' = Base(e) /\ e \in Cells /\ e[1] # p
      BY <1>2, <1>18, <1>20 DEF ContentsSound, FramesSound, MappedSound
    <3> QED BY <1>13, <2>0, <3>1
  <2>2. ASSUME NEW e \in OnDisk' PROVE swap'[Base(e)'] = e
    <3>1. e \in OnDisk /\ swap[Base(e)] = e /\ Base(e) \in Slots /\ Base(e)' = Base(e) /\ e \in Cells /\ e[1] # p
      BY <1>2, <1>19, <1>20 DEF ContentsSound, SlotsSound, Types
    <3> QED BY <1>13, <2>0, <3>1
  <2>3. ASSUME NEW r \in Procs, job'[r].stage = "written" /\ "ALLOCATED" \in page'[job'[r].frame].flags
        PROVE swap'[job'[r].slot] = page'[job'[r].frame].entry
    <3>1. /\ job[r].stage = "written" /\ Writing(r) /\ job[r].frame \in Frames /\ job[r].slot \in Slots
          /\ "LOCKED" \in page[job[r].frame].flags
      BY <1>1, <1>2, <2>3 DEF JobsSound, JobOf, JobWrites, Writing
    <3>2. page'[job[r].frame] = page[job[r].frame]
      BY <1>21, <3>1
    <3>3. "ALLOCATED" \in page[job[r].frame].flags
      BY <1>1, <2>3, <3>2
    <3>4. PICK e : e = page[job[r].frame].entry
      OBVIOUS
    <3>5. swap[job[r].slot] = e
      BY <1>2, <3>1, <3>3, <3>4 DEF ContentsSound
    <3>6. e \in Mapped
      <4>1. FrameOf(job[r].frame)
        BY <1>2, <3>1 DEF FramesSound
      <4>2. page[job[r].frame].flags = {"ALLOCATED", "LOCKED"}
        BY <3>1, <3>3, <4>1 DEF FrameOf
      <4> QED BY <3>4, <4>1, <4>2 DEF FrameOf
    <3>7. swap'[job[r].slot] = e
      BY <1>13, <1>20, <2>0, <3>1, <3>5, <3>6
    <3> QED BY <1>1, <3>2, <3>4, <3>7
  <2>4. ASSUME NEW r \in Procs, job'[r].stage = "read", job'[r].frame # 0 PROVE mem'[job'[r].frame] = Cell(r)'
    <3>1. r # p
      BY <1>1, <1>5, <2>4
    <3>2. Cell(r) \in Cells /\ Cell(r)[1] = r /\ job[r].frame \in Frames \cup {0}
      BY <1>2, JobFields DEF Types
    <3>3. mem[job[r].frame] = Cell(r)
      BY <1>1, <1>2, <2>4 DEF ContentsSound
    <3>4. mem'[job[r].frame] = Cell(r)
      BY <1>13, <2>0, <3>1, <3>2, <3>3
    <3> QED BY <1>1, <1>16, <3>4
  <2> QED BY <2>1, <2>2, <2>3, <2>4 DEF ContentsSound
<1> QED BY <1>15, <1>21, <1>22, <1>23, <1>24, <1>25 DEF PagingParts

(* Load_User_Program takes the tables from the free list.                    *)
LEMMA LoadKeeps ==
  ASSUME PagingParts, NEW q \in Threads, NEW p \in Procs, Load_User_Program(q, p) PROVE PagingParts' \/ broken'
<1>1. /\ life[p] = "none" /\ IF q = Main THEN p = Shell /\ child[Main] = NoProc ELSE p # Shell /\ Runs(q)
      /\ \/ Break
         \/ /\ ~(Len(freeList) < NumTables)
            /\ freeList' = SubSeq(freeList, NumTables + 1, Len(freeList))
            /\ page' = [f \in Frames |->
                          IF f \in ToSet(SubSeq(freeList, 1, NumTables)) THEN [page[f] EXCEPT !.flags = {"ALLOCATED"}] ELSE page[f]]
            /\ tables' = [tables EXCEPT ![p] = ToSet(SubSeq(freeList, 1, NumTables))]
            /\ pte' = [pte EXCEPT ![p] = [v \in Pages |-> EmptyEntry]]
            /\ life' = [life EXCEPT ![p] = "loading"]
            /\ child' = [child EXCEPT ![q] = p]
            /\ todo' = [todo EXCEPT ![p] = 1]
            /\ UNCHANGED <<dataVars, swapMap, job, broken>>
  BY DEF Load_User_Program
<1>2. Types /\ Chain /\ JobsSound /\ FramesSound /\ SlotsSound /\ ContentsSound
  BY DEF PagingParts
<1>3. NoProc \notin Procs /\ Shell \in Procs /\ Main \notin Procs
  BY PagingAssumption
<1>4. /\ \A r \in Turn : r = q
      /\ \A r \in Procs : ~Busy(r)
      /\ q # Main => q \in Procs /\ life[q] = "running" /\ child[q] = NoProc
  <2>1. CASE q = Main
    <3>1. \A r \in Procs : life[r] = "none"
      BY <1>1, <1>2, <2>1 DEF Chain
    <3>2. Turn = {}
      BY <3>1 DEF Turn
    <3>3. \A r \in Procs : ~Busy(r)
      BY <1>2, <3>1 DEF Chain
    <3> QED BY <2>1, <3>2, <3>3
  <2>2. CASE q # Main
    <3>1. q \in Procs /\ life[q] = "running" /\ child[q] = NoProc /\ ~Busy(q)
      BY <1>1, <2>2 DEF Runs, Busy, Threads
    <3>2. (\A r \in Procs \ {q} : ~Busy(r)) /\ \A r \in Turn : r = q
      BY <1>2, <3>1, Alone
    <3> QED BY <3>1, <3>2
  <2> QED BY <2>1, <2>2
<1>5. \A r \in Procs : job[r].stage = "none" /\ ~Writing(r) /\ ~Given(r) /\ r \notin Late
  BY <1>2, <1>4, Idle
<1>6. p # q /\ child[p] = NoProc /\ \A r \in Threads : child[r] # p
  BY <1>1, <1>2, <1>3, <1>4 DEF Chain
<1>7. CASE Break
  BY <1>7 DEF Break
<1>8. CASE /\ ~(Len(freeList) < NumTables)
           /\ freeList' = SubSeq(freeList, NumTables + 1, Len(freeList))
           /\ page' = [f \in Frames |->
                         IF f \in ToSet(SubSeq(freeList, 1, NumTables)) THEN [page[f] EXCEPT !.flags = {"ALLOCATED"}] ELSE page[f]]
           /\ tables' = [tables EXCEPT ![p] = ToSet(SubSeq(freeList, 1, NumTables))]
           /\ pte' = [pte EXCEPT ![p] = [v \in Pages |-> EmptyEntry]]
           /\ life' = [life EXCEPT ![p] = "loading"]
           /\ child' = [child EXCEPT ![q] = p]
           /\ todo' = [todo EXCEPT ![p] = 1]
           /\ UNCHANGED <<dataVars, swapMap, job, broken>>
  <2>1. PICK new : new = ToSet(SubSeq(freeList, 1, NumTables))
    OBVIOUS
  <2>2. /\ page' = [f \in Frames |-> IF f \in new THEN [page[f] EXCEPT !.flags = {"ALLOCATED"}] ELSE page[f]]
        /\ tables' = [tables EXCEPT ![p] = new] /\ pte' = [pte EXCEPT ![p] = [v \in Pages |-> EmptyEntry]]
        /\ life' = [life EXCEPT ![p] = "loading"] /\ child' = [child EXCEPT ![q] = p] /\ todo' = [todo EXCEPT ![p] = 1]
        /\ mem' = mem /\ swap' = swap /\ swapMap' = swapMap /\ job' = job /\ broken' = broken
    BY <1>8, <2>1 DEF dataVars
  <2>3. /\ freeList' \in Seq(Frames) /\ Distinct(freeList') /\ new \in SUBSET Frames
        /\ \A u : u \in new => Contains(freeList, u)
        /\ \A u : Contains(freeList', u) <=> Contains(freeList, u) /\ u \notin new
    <3>1. /\ freeList \in Seq(Frames) /\ Distinct(freeList) /\ NumTables \in Nat
      BY <1>2, PagingAssumption DEF Types, FramesSound
    <3>2. NumTables <= Len(freeList)
      <4>1. Len(freeList) \in Nat
        BY <3>1
      <4> QED BY <1>8, <3>1, <4>1
    <3> QED BY <1>8, <2>1, <3>1, <3>2, PrefixFact
  <2>4. /\ tables' \in [Procs -> SUBSET Frames] /\ tables'[p] = new /\ \A r \in Procs \ {p} : tables'[r] = tables[r]
        /\ life' \in [Procs -> {"none", "loading", "running", "dead"}] /\ life'[p] = "loading"
        /\ \A r \in Procs \ {p} : life'[r] = life[r]
        /\ child' \in [Threads -> Procs \cup {NoProc}] /\ child'[q] = p
        /\ \A r \in Threads \ {q} : child'[r] = child[r]
        /\ \A r \in Procs \ {p} : todo'[r] = todo[r]
    BY <1>2, <2>2, <2>3 DEF Types
  <2>5. todo' \in [Procs -> 1..(NumPages + 1)]
    <3>1. 1 \in 1..(NumPages + 1)
      BY PagingAssumption
    <3> QED BY <1>2, <2>2, <3>1 DEF Types
  <2>6. \A f \in new : page[f].flags = {} /\ \A r \in Procs : f \notin tables[r]
    <3>1. SUFFICES ASSUME NEW f \in new PROVE page[f].flags = {} /\ \A r \in Procs : f \notin tables[r]
      OBVIOUS
    <3>2. FrameOf(f) /\ Contains(freeList, f)
      BY <1>2, <2>3 DEF FramesSound
    <3>3. page[f].flags = {}
      BY <3>2 DEF FrameOf
    <3>4. page[f].flags # {"ALLOCATED"}
      BY <3>3
    <3> QED BY <3>2, <3>3, <3>4 DEF FrameOf
  <2>7. /\ page' \in [Frames -> FrameT] /\ \A f \in new : page'[f].flags = {"ALLOCATED"}
        /\ \A f \in Frames \ new : page'[f] = page[f]
    <3>1. ASSUME NEW f \in new PROVE page'[f] \in FrameT /\ page'[f].flags = {"ALLOCATED"}
      <4>1. PICK x \in FrameT : x = page[f]
        BY <1>2, <2>3 DEF Types
      <4>2. page'[f] = [x EXCEPT !.flags = {"ALLOCATED"}]
        BY <2>2, <2>3, <4>1
      <4>3. {"ALLOCATED"} \in SUBSET Flags
        BY DEF Flags
      <4> QED BY <4>1, <4>2, <4>3 DEF FrameT
    <3>2. ASSUME NEW f \in Frames \ new PROVE page'[f] = page[f] /\ page'[f] \in FrameT
      BY <1>2, <2>2, <3>2 DEF Types
    <3>3. page' = [f \in Frames |-> page'[f]]
      BY <2>2
    <3>4. \A f \in Frames : page'[f] \in FrameT
      BY <3>1, <3>2
    <3> QED BY <3>1, <3>2, <3>3, <3>4
  <2>8. /\ pte' \in [Procs -> [Pages -> EntryT]]
        /\ Present' = {e \in Present : e[1] # p} /\ Stored' = {e \in Stored : e[1] # p}
        /\ \A e \in Cells : e[1] # p => Base(e)' = Base(e)
    BY <1>2, <2>2, EntriesCleared DEF Types
  <2>9. Types'
    BY <1>2, <2>2, <2>3, <2>4, <2>5, <2>7, <2>8 DEF Types
  <2>10. Late' = Late /\ \A r \in Procs : /\ Cell(r)' = Cell(r) /\ (Busy(r)' <=> Busy(r))
                                         /\ (Writing(r)' <=> Writing(r)) /\ (Given(r)' <=> Given(r))
    BY <2>2, SameJobs
  <2>11. Late = {} /\ Late' = {}
    BY <1>5, <2>10 DEF Late
  <2>12. ASSUME NEW e \in Cells PROVE /\ e[1] = p => e \notin Theirs
                                      /\ e[1] # p => (e \in Theirs' <=> e \in Theirs)
    <3>1. e[1] \in Procs
      BY CellParts
    <3>2. CASE e[1] = p
      BY <1>1, <1>2, <3>1, <3>2, TheirsAre
    <3>3. CASE e[1] # p
      BY <1>2, <2>4, <2>9, <3>1, <3>3, TheirsAre, TheirsAreNext
    <3> QED BY <3>2, <3>3
  <2>13. Mapped' = Mapped
    <3>1. ASSUME NEW e PROVE e \in Mapped' <=> e \in Mapped
      BY <1>2, <2>8, <2>9, <2>12, MappedAre, MappedAreNext
    <3> QED BY <3>1 DEF Mapped
  <2>14. OnDisk' = OnDisk
    <3>1. ASSUME NEW e PROVE e \in OnDisk' <=> e \in OnDisk
      BY <1>2, <2>8, <2>9, <2>11, <2>12, OnDiskAre, OnDiskAreNext
    <3> QED BY <3>1 DEF OnDisk
  <2>15. \A e \in Mapped \cup OnDisk : Base(e)' = Base(e)
    BY <1>2, <2>8, <2>12, MappedAre, OnDiskAre
  <2>16. (\A f \in Frames : FrameOf(f)') /\ MappedSound' /\ SlotsSound'
    <3>1. \A f \in Frames \ new : /\ page'[f] = page[f] /\ (Contains(freeList', f) <=> Contains(freeList, f))
                                  /\ (\E r \in Procs : f \in tables'[r]) <=> (\E r \in Procs : f \in tables[r])
      <4>1. tables[p] = {}
        BY <1>1, <1>2 DEF FramesSound, TablesSound
      <4> QED BY <2>3, <2>4, <2>7, <4>1
    <3>2. \A f \in new : /\ page[f].flags \in {{}, {"ALLOCATED"}} /\ page'[f].flags \in {{}, {"ALLOCATED"}}
                         /\ page'[f].flags = {} <=> Contains(freeList', f)
                         /\ page'[f].flags = {"ALLOCATED"} <=> \E r \in Procs : f \in tables'[r]
      BY <2>3, <2>4, <2>6, <2>7
    <3> QED BY <2>2, <2>3, <2>13, <2>14, <2>15, <3>1, <3>2, TablesMove
  <2>17. Chain'
    <3>1. \A r \in Turn' : r = p
      <4>1. SUFFICES ASSUME NEW r \in Turn', r # p PROVE FALSE
        OBVIOUS
      <4>2. CASE r \in Procs /\ life'[r] \in {"loading", "running"} /\ child'[r] = NoProc
        <5>1. r # q /\ life[r] \in {"loading", "running"} /\ child[r] = NoProc
          BY <1>3, <2>4, <4>1, <4>2 DEF Threads
        <5> QED BY <1>4, <4>2, <5>1 DEF Turn
      <4>3. CASE r \in Threads /\ child'[r] \in Procs /\ life'[child'[r]] = "dead"
        <5>1. r # q /\ child[r] \in Procs /\ child[r] # p /\ life[child[r]] = "dead"
          BY <1>6, <2>4, <4>3
        <5> QED BY <1>4, <4>3, <5>1 DEF Turn
      <4> QED BY <4>1, <4>2, <4>3 DEF Turn
    <3>2. \A r \in Procs : Busy(r)' => child'[r] = NoProc /\ life'[r] = IF job'[r].kind = "fault" THEN "running" ELSE "loading"
      BY <1>4, <2>10
    <3>3. \A r \in Procs : life'[r] # "running" => child'[r] = NoProc
      BY <1>2, <1>3, <1>4, <1>6, <2>4 DEF Chain, Threads
    <3>4. \A r, s \in Threads : child'[r] = child'[s] /\ child'[r] # NoProc => r = s
      BY <1>2, <1>6, <2>4 DEF Chain
    <3>5. \A r \in Threads : child'[r] # NoProc => life'[child'[r]] # "none"
      <4>1. SUFFICES ASSUME NEW r \in Threads, child'[r] # NoProc PROVE life'[child'[r]] # "none"
        OBVIOUS
      <4>2. CASE r = q
        BY <2>4, <4>2
      <4>3. CASE r # q
        <5>1. child'[r] = child[r] /\ child[r] \in Procs \ {p} /\ life[child[r]] # "none"
          BY <1>2, <1>6, <2>4, <4>1, <4>3 DEF Chain, Types
        <5> QED BY <2>4, <5>1
      <4> QED BY <4>2, <4>3
    <3>6. life'[Shell] # "dead" /\ child'[Main] \in {Shell, NoProc}
      BY <1>1, <1>2, <1>3, <2>4 DEF Chain, Threads
    <3>7. child'[Main] # NoProc
      BY <1>1, <1>2, <1>3, <1>4, <2>4 DEF Chain, Threads
    <3> QED BY <3>1, <3>2, <3>3, <3>4, <3>5, <3>6, <3>7 DEF Chain
  <2>18. JobsSound'
    <3>1. SUFFICES ASSUME NEW r \in Procs PROVE JobOf(r)' /\ LoadingOf(r)'
      BY DEF JobsSound
    <3>2. JobOf(r)'
      BY <1>2, <1>4, <2>2, <2>11, IdleKept
    <3>3. CASE r = p
      <4>1. \A v \in Pages : <<p, v>> \notin Present' /\ <<p, v>> \notin Stored'
        BY <2>8
      <4>2. LoadingOf(p)'
        BY <4>1 DEF LoadingOf
      <4> QED BY <3>2, <3>3, <4>2
    <3>4. CASE r # p
      <4>1. LoadingOf(r)
        BY <1>2 DEF JobsSound
      <4>2. LoadingOf(r)'
        BY <2>4, <2>8, <3>4, <4>1, LoadingKept
      <4> QED BY <3>2, <4>2
    <3> QED BY <3>3, <3>4
  <2>19. FramesSound'
    <3>1. TablesSound'
      BY <1>2, <2>4, <2>6 DEF FramesSound, TablesSound
    <3> QED BY <2>3, <2>16, <3>1 DEF FramesSound
  <2>20. ContentsSound'
    BY <1>2, <1>5, <2>2, <2>13, <2>14, <2>15, ContentsKept
  <2> QED BY <2>9, <2>16, <2>17, <2>18, <2>19, <2>20 DEF PagingParts
<1> QED BY <1>1, <1>7, <1>8

-----------------------------------------------------------------------------
(* The invariant of Paging *)

(* The invariant holds initially, ...                                        *)
LEMMA InitParts ==
  ASSUME Init PROVE PagingParts
<1>1. /\ pte = [p \in Procs |-> [v \in Pages |-> EmptyEntry]] /\ tables = [p \in Procs |-> {}]
      /\ page = [f \in Frames |-> [flags |-> {}, entry |-> NoEntry]] /\ freeList = [i \in 1..NumFrames |-> i]
      /\ mem = [f \in Frames \cup {0} |-> Debris] /\ swap = [s \in Slots |-> Debris] /\ swapMap = {}
      /\ life = [p \in Procs |-> "none"] /\ child = [q \in Threads |-> NoProc] /\ job = [p \in Procs |-> NoJob]
      /\ todo = [p \in Procs |-> 1] /\ broken = FALSE
  BY DEF Init, Threads
<1>2. /\ NumPages \in Nat /\ NumFrames \in Nat /\ 1 \in 1..(NumPages + 1) /\ NoProc \notin Procs
  BY PagingAssumption
<1>3. freeList \in Seq(Frames) /\ Distinct(freeList) /\ \A f \in Frames : Contains(freeList, f)
  BY <1>1, <1>2 DEF Frames, Distinct, Contains
<1>4. Types
  <2>1. EmptyEntry \in EntryT
    BY DEF EmptyEntry, EntryT, Numbers
  <2>2. [flags |-> {}, entry |-> NoEntry] \in FrameT
    BY DEF FrameT
  <2>3. Debris \in Contents
    BY DEF Contents
  <2> QED BY <1>1, <1>2, <1>3, <2>1, <2>2, <2>3, NoJobIs DEF Types
<1>5. \A p \in Procs : /\ job[p].kind = "none" /\ job[p].stage = "none" /\ p \notin Late
                       /\ ~Busy(p) /\ ~Writing(p) /\ ~Given(p) /\ life[p] = "none" /\ tables[p] = {}
  BY <1>1, NoJobIs DEF Late, Busy, Writing, Given
<1>6. Theirs = {}
  BY <1>4, <1>5, CellParts, TheirsAre, TheirsCells
<1>7. Mapped = {}
  BY <1>4, <1>6, MappedAre
<1>8. OnDisk = {}
  BY <1>4, <1>6, OnDiskAre
<1>9. Chain
  <2>1. Turn = {}
    BY <1>1, <1>2, <1>5 DEF Turn, Threads
  <2>2. \A r \in Threads : child[r] = NoProc
    BY <1>1
  <2> QED BY <1>5, <2>1, <2>2, PagingAssumption DEF Chain, Threads
<1>10. JobsSound
  <2>1. SUFFICES ASSUME NEW p \in Procs PROVE JobOf(p) /\ LoadingOf(p)
    BY DEF JobsSound
  <2>2. LoadingOf(p)
    BY <1>5 DEF LoadingOf
  <2> QED BY <1>5, <2>2 DEF JobOf, JobIdle, JobPage, JobWrites, JobNoFrame, JobFrame, JobReads, JobLoads
<1>11. FramesSound
  <2>1. ASSUME NEW f \in Frames PROVE FrameOf(f)
    <3>1. page[f].flags = {} /\ Contains(freeList, f) /\ \A p \in Procs : f \notin tables[p]
      BY <1>1, <1>3, <1>5
    <3> QED BY <3>1 DEF FrameOf
  <2> QED BY <1>3, <1>5, <1>7, <2>1 DEF FramesSound, TablesSound, MappedSound
<1>12. SlotsSound
  BY <1>1, <1>5, <1>8 DEF SlotsSound
<1>13. ContentsSound
  BY <1>5, <1>7, <1>8 DEF ContentsSound
<1> QED BY <1>4, <1>9, <1>10, <1>11, <1>12, <1>13 DEF PagingParts

(* ... while nothing happens, ...                                            *)
LEMMA StutterKeeps ==
  ASSUME PagingParts, UNCHANGED vars PROVE PagingParts'
<1>1. /\ pte' = pte /\ tables' = tables /\ page' = page /\ freeList' = freeList /\ mem' = mem /\ swap' = swap
      /\ swapMap' = swapMap /\ life' = life /\ child' = child /\ todo' = todo /\ job' = job /\ broken' = broken
  BY DEF vars, frameVars, dataVars, procVars
<1>2. Types /\ Chain /\ JobsSound /\ FramesSound /\ SlotsSound /\ ContentsSound
  BY DEF PagingParts
<1>3. Types'
  BY <1>1, <1>2 DEF Types
<1>4. Theirs' = Theirs /\ Late' = Late /\ \A r \in Procs : /\ Cell(r)' = Cell(r) /\ (Busy(r)' <=> Busy(r))
                                           /\ (Writing(r)' <=> Writing(r)) /\ (Given(r)' <=> Given(r))
  BY <1>1, SameTheirs, SameJobs
<1>5. /\ Present' = Present /\ Stored' = Stored /\ \A e : Base(e)' = Base(e)
      /\ Mapped' = Mapped /\ OnDisk' = OnDisk
  BY <1>1, <1>2, <1>3, <1>4, SameEntries DEF Late
<1>6. Chain'
  BY <1>1, <1>2, <1>4, ChainKept DEF Chain
<1>7. JobsSound'
  <2>1. SUFFICES ASSUME NEW r \in Procs PROVE JobOf(r)' /\ LoadingOf(r)'
    BY DEF JobsSound
  <2>2. JobOf(r) /\ LoadingOf(r)
    BY <1>2 DEF JobsSound
  <2>3. JobOf(r)'
    BY <1>1, <1>4, <1>5, <2>2, JobKept DEF JobOf, JobWrites
  <2>4. LoadingOf(r)'
    BY <1>1, <1>5, <2>2, LoadingKept
  <2> QED BY <2>3, <2>4
<1>8. FramesSound'
  BY <1>1, <1>2, <1>4, <1>5, FramesKept
<1>9. SlotsSound'
  BY <1>1, <1>2, <1>5, SlotsKept
<1>10. ContentsSound'
  BY <1>1, <1>2, <1>4, <1>5, ContentsKept
<1> QED BY <1>3, <1>6, <1>7, <1>8, <1>9, <1>10 DEF PagingParts

(* Nothing but a failed KASSERT breaks the kernel, and a broken kernel stops.       *)
LEMMA OnlyBreak ==
  ASSUME Next
  PROVE /\ broken => UNCHANGED vars
        /\ ~broken /\ broken' => Break
<1>1. CASE Halted
  BY <1>1 DEF Halted, vars
<1>2. ASSUME NEW p \in Procs, NEW v \in Pages, Store(p, v) \/ Page_Fault_Handler(p, v)
      PROVE ~broken /\ (broken' => Break)
  BY <1>2 DEF Store, Page_Fault_Handler, Runs, MayRun, Alloc_Pageable_Page
<1>3. ASSUME NEW p \in Procs, Write_To_Paging_File(p) \/ PagedOut(p) \/ AfterAllocation(p) \/ Read_From_Paging_File(p)
                              \/ PagedIn(p) \/ CopyIn(p) \/ Exit(p)
      PROVE ~broken /\ (broken' => Break)
  <2>1. CASE Write_To_Paging_File(p)
    BY <2>1 DEF Write_To_Paging_File, MayRun
  <2>2. CASE PagedOut(p)
    BY <2>2, Zenon DEF PagedOut, MayRun
  <2>3. CASE AfterAllocation(p)
    BY <2>3, Zenon DEF AfterAllocation, MayRun
  <2>4. CASE Read_From_Paging_File(p)
    BY <2>4 DEF Read_From_Paging_File, MayRun
  <2>5. CASE PagedIn(p)
    BY <2>5, Zenon DEF PagedIn, MayRun
  <2>6. CASE CopyIn(p)
    BY <2>6, Zenon DEF CopyIn, MayRun
  <2>7. CASE Exit(p)
    BY <2>7, Zenon DEF Exit, Runs, MayRun
  <2> QED BY <1>3, <2>1, <2>2, <2>3, <2>4, <2>5, <2>6, <2>7
<1>4. ASSUME NEW p \in Procs, LoadPage(p) PROVE ~broken /\ (broken' => Break)
  BY <1>4 DEF LoadPage, MayRun, Alloc_Pageable_Page
<1>5. ASSUME NEW p \in Procs, DestroyPage(p) \/ DestroyTables(p) PROVE ~broken /\ (broken' => Break)
  BY <1>5 DEF DestroyPage, DestroyTables, Reapable
<1>6. ASSUME NEW p \in Procs, NEW q \in Procs \cup {Main}, Load_User_Program(q, p) PROVE ~broken /\ (broken' => Break)
  BY <1>6 DEF Load_User_Program
<1>7. ASSUME NEW p \in Procs, NEW q \in Procs \cup {Main}, Start_User_Thread(q, p) \/ Sys_Wait(q, p)
      PROVE ~broken /\ (broken' => Break)
  BY <1>7 DEF Start_User_Thread, Sys_Wait, MayRun
<1> QED BY <1>1, <1>2, <1>3, <1>4, <1>5, <1>6, <1>7 DEF Next

(* ... and in every step.                                                    *)
LEMMA NextKeeps ==
  ASSUME Concurrent = FALSE, PagingInv, [Next]_vars PROVE PagingInv'
<1>1. Types /\ (broken \/ PagingParts)
  BY DEF PagingInv
<1>2. CASE UNCHANGED vars
  <2>1. Types'
    BY <1>1, <1>2 DEF Types, vars, frameVars, dataVars, procVars
  <2>2. broken' = broken
    BY <1>2 DEF vars
  <2>3. PagingParts => PagingParts'
    BY <1>2, StutterKeeps
  <2> QED BY <1>1, <2>1, <2>2, <2>3 DEF PagingInv
<1>3. CASE Next /\ broken
  BY <1>2, <1>3, OnlyBreak
<1>4. CASE Next /\ ~broken /\ broken'
  <2>1. Break
    BY <1>4, OnlyBreak
  <2>2. Types'
    BY <1>1, <2>1 DEF Types, Break, frameVars, dataVars, procVars
  <2> QED BY <1>4, <2>2 DEF PagingInv
<1>5. CASE Next /\ ~broken /\ ~broken'
  <2>0. PagingParts
    BY <1>1, <1>5
  <2>1. ASSUME NEW p \in Procs, NEW v \in Pages, Store(p, v) PROVE PagingParts'
    BY <2>0, <2>1, StoreKeeps
  <2>2. ASSUME NEW p \in Procs, NEW v \in Pages, Page_Fault_Handler(p, v) PROVE PagingParts'
    BY <1>5, <2>0, <2>2, FaultKeeps
  <2>3. ASSUME NEW p \in Procs, Write_To_Paging_File(p) PROVE PagingParts'
    BY <2>0, <2>3, WriteKeeps
  <2>4. ASSUME NEW p \in Procs, PagedOut(p) PROVE PagingParts'
    BY <2>0, <2>4, PagedOutKeeps
  <2>5. ASSUME NEW p \in Procs, AfterAllocation(p) PROVE PagingParts'
    BY <2>0, <2>5, AfterAllocationKeeps
  <2>6. ASSUME NEW p \in Procs, Read_From_Paging_File(p) PROVE PagingParts'
    BY <2>0, <2>6, ReadKeeps
  <2>7. ASSUME NEW p \in Procs, PagedIn(p) PROVE PagingParts'
    BY <2>0, <2>7, PagedInKeeps
  <2>8. ASSUME NEW p \in Procs, LoadPage(p) PROVE PagingParts'
    BY <1>5, <2>0, <2>8, LoadPageKeeps
  <2>9. ASSUME NEW p \in Procs, CopyIn(p) PROVE PagingParts'
    BY <2>0, <2>9, CopyInKeeps
  <2>10. ASSUME NEW p \in Procs, Exit(p) PROVE PagingParts'
    BY <2>0, <2>10, ExitKeeps
  <2>11. ASSUME NEW p \in Procs, DestroyPage(p) PROVE PagingParts'
    BY <1>5, <2>0, <2>11, DestroyPageKeeps
  <2>12. ASSUME NEW p \in Procs, DestroyTables(p) PROVE PagingParts'
    BY <2>0, <2>12, DestroyTablesKeeps
  <2>13. ASSUME NEW p \in Procs, NEW q \in Threads, Load_User_Program(q, p) PROVE PagingParts'
    BY <1>5, <2>0, <2>13, LoadKeeps
  <2>14. ASSUME NEW p \in Procs, NEW q \in Threads, Start_User_Thread(q, p) PROVE PagingParts'
    BY <2>0, <2>14, StartKeeps
  <2>15. ASSUME NEW p \in Procs, NEW q \in Threads, Sys_Wait(q, p) PROVE PagingParts'
    BY <2>0, <2>15, SysWaitKeeps
  <2>16. ~Halted
    BY <1>5 DEF Halted
  <2>17. PagingParts'
    BY <1>5, <2>1, <2>2, <2>3, <2>4, <2>5, <2>6, <2>7, <2>8, <2>9, <2>10, <2>11, <2>12, <2>13, <2>14, <2>15, <2>16
       DEF Next, Threads
  <2> QED BY <2>17 DEF PagingInv, PagingParts
<1> QED BY <1>2, <1>3, <1>4, <1>5

(* Where a parent waits for its child, the inductive invariant holds of      *)
(* every reachable state.                                                    *)
THEOREM PagingInvariant ==
  ASSUME Concurrent = FALSE PROVE Spec => []PagingInv
<1>1. Init => PagingInv
  BY InitParts DEF PagingInv, PagingParts
<1>2. PagingInv /\ [Next]_vars => PagingInv'
  BY NextKeeps
<1> QED BY <1>1, <1>2, PTL DEF Spec

(* The page tables, the frames, the paging file and the jobs keep their      *)
(* types (mem.c, paging.c, uservm.c), whatever is broken.                    *)
THEOREM PagingTypeOK ==
  ASSUME Concurrent = FALSE PROVE Spec => []TypeOK
<1>1. PagingInv => TypeOK
  BY TypesAre DEF PagingInv
<1> QED BY <1>1, PagingInvariant, PTL

(* However often Alloc_Pageable_Page moves a page to the paging file and     *)
(* Page_Fault_Handler brings it back, it holds what its process wrote: no    *)
(* frame and no slot is read for another page.                               *)
THEOREM PagesAreKept ==
  ASSUME Concurrent = FALSE PROVE Spec => []PagesKept
<1>1. PagingInv => PagesKept
  BY DEF PagingInv, PagingParts, ContentsSound, PagesKept
<1> QED BY <1>1, PagingInvariant, PTL

(* The uses of a frame: on the free list, in tables, mapped by entries, in a job.    *)
Uses(I, T, E, J) == {<<"free", i>> : i \in I} \cup {<<"table", p>> : p \in T}
                    \cup {<<"entry", e>> : e \in E} \cup {<<"job", p>> : p \in J}

(* One thing of one kind, and nothing of the others.                                *)
LEMMA OneUse ==
  ASSUME NEW I, NEW T, NEW E, NEW J, NEW z,
    \/ I = {z} /\ T = {} /\ E = {} /\ J = {}
    \/ I = {} /\ T = {z} /\ E = {} /\ J = {}
    \/ I = {} /\ T = {} /\ E = {z} /\ J = {}
    \/ I = {} /\ T = {} /\ E = {} /\ J = {z}
  PROVE Cardinality(Uses(I, T, E, J)) = 1
<1>1. PICK u : u = Uses(I, T, E, J)
  OBVIOUS
<1>2. \E x : u = {x}
  <2>1. CASE I = {z} /\ T = {} /\ E = {} /\ J = {}
    <3>1. u = {<<"free", z>>}
      BY <1>1, <2>1 DEF Uses
    <3> QED BY <3>1
  <2>2. CASE I = {} /\ T = {z} /\ E = {} /\ J = {}
    <3>1. u = {<<"table", z>>}
      BY <1>1, <2>2 DEF Uses
    <3> QED BY <3>1
  <2>3. CASE I = {} /\ T = {} /\ E = {z} /\ J = {}
    <3>1. u = {<<"entry", z>>}
      BY <1>1, <2>3 DEF Uses
    <3> QED BY <3>1
  <2>4. CASE I = {} /\ T = {} /\ E = {} /\ J = {z}
    <3>1. u = {<<"job", z>>}
      BY <1>1, <2>4 DEF Uses
    <3> QED BY <3>1
  <2> QED BY <2>1, <2>2, <2>3, <2>4
<1>3. PICK x : u = {x}
  BY <1>2
<1>4. Cardinality({x}) = 1
  BY FS_Singleton
<1> QED BY <1>1, <1>3, <1>4

(* The flags of a frame tell the one place where it is.                      *)
LEMMA FrameUsedOnce ==
  ASSUME PagingParts, NEW f \in Frames
  PROVE \E z : LET I == {j \in DOMAIN freeList : freeList[j] = f}
                   T == {q \in Procs : f \in tables[q]}
                   E == {x \in Mapped : Base(x) = f /\ ~ \E p \in Procs : Writing(p) /\ job[p].frame = f}
                   J == {q \in Procs : (Writing(q) \/ Given(q)) /\ job[q].frame = f}
               IN \/ I = {z} /\ T = {} /\ E = {} /\ J = {}
                  \/ I = {} /\ T = {z} /\ E = {} /\ J = {}
                  \/ I = {} /\ T = {} /\ E = {z} /\ J = {}
                  \/ I = {} /\ T = {} /\ E = {} /\ J = {z}
<1>1. PICK I : I = {j \in DOMAIN freeList : freeList[j] = f}
  OBVIOUS
<1>2. PICK T : T = {q \in Procs : f \in tables[q]}
  OBVIOUS
<1>3. PICK E : E = {x \in Mapped : Base(x) = f /\ ~ \E p \in Procs : Writing(p) /\ job[p].frame = f}
  OBVIOUS
<1>4. PICK J : J = {q \in Procs : (Writing(q) \/ Given(q)) /\ job[q].frame = f}
  OBVIOUS
<1>5. Types /\ Chain /\ JobsSound /\ FramesSound
  BY DEF PagingParts
<1>6. FrameOf(f) /\ Distinct(freeList) /\ TablesSound /\ MappedSound
  BY <1>5 DEF FramesSound
<1>7. \A p, q \in J : p = q
  <2>1. \A p \in J : p \in Procs /\ Busy(p)
    BY <1>4, <1>5 DEF JobsSound, JobOf, JobIdle, Busy, Writing, Given
  <2> QED BY <1>5, <2>1, Alone
<1>8. f # 0
  BY DEF Frames
<1>9. \A p \in J : \/ Writing(p) /\ "LOCKED" \in page[f].flags
                   \/ Given(p) /\ page[f].flags = {"ALLOCATED", "PAGEABLE"} /\ page[f].entry = Cell(p) /\ Cell(p) \notin Present
  <2>1. SUFFICES ASSUME NEW p \in J
                 PROVE \/ Writing(p) /\ "LOCKED" \in page[f].flags
                       \/ Given(p) /\ page[f].flags = {"ALLOCATED", "PAGEABLE"} /\ page[f].entry = Cell(p) /\ Cell(p) \notin Present
    OBVIOUS
  <2>2. p \in Procs /\ job[p].frame = f /\ JobOf(p)
    BY <1>4, <1>5 DEF JobsSound
  <2>3. CASE Writing(p)
    BY <2>2, <2>3 DEF JobOf, JobWrites
  <2>4. CASE Given(p)
    <3>1. page[f].flags = {"ALLOCATED", "PAGEABLE"} /\ page[f].entry = Cell(p)
      BY <1>8, <2>2, <2>4 DEF JobOf, JobFrame
    <3>2. Cell(p) \notin Present
      BY <2>2, <2>4 DEF JobOf, JobPage, JobIdle, Given, Busy
    <3> QED BY <2>4, <3>1, <3>2
  <2> QED BY <1>4, <2>3, <2>4
<1>10. \A e \in E : /\ page[f].entry = e /\ e \in Present /\ "LOCKED" \notin page[f].flags
                    /\ page[f].flags = {"ALLOCATED", "PAGEABLE"}
  <2>1. SUFFICES ASSUME NEW e \in E PROVE /\ page[f].entry = e /\ e \in Present /\ "LOCKED" \notin page[f].flags
                                          /\ page[f].flags = {"ALLOCATED", "PAGEABLE"}
    OBVIOUS
  <2>2. e \in Mapped /\ Base(e) = f /\ ~ \E p \in Procs : Writing(p) /\ job[p].frame = f
    BY <1>3
  <2>3. page[f].entry = e /\ page[f].flags \in {{"ALLOCATED", "PAGEABLE"}, {"ALLOCATED", "LOCKED"}}
    BY <1>6, <2>2 DEF MappedSound
  <2>4. e \in Present
    BY <1>5, <2>2, MappedAre
  <2>5. "LOCKED" \notin page[f].flags
    BY <1>6, <2>2 DEF FrameOf
  <2> QED BY <2>3, <2>4, <2>5
<1>11. \A i, j \in I : i = j
  <2>1. DOMAIN freeList = 1..Len(freeList)
    BY <1>5 DEF Types
  <2> QED BY <1>1, <1>6, <2>1 DEF Distinct
<1>12. I # {} <=> page[f].flags = {}
  <2>1. I # {} <=> Contains(freeList, f)
    BY <1>1, <1>5 DEF Contains, Types
  <2> QED BY <1>6, <2>1 DEF FrameOf
<1>13. /\ T # {} <=> page[f].flags = {"ALLOCATED"}
       /\ \A p, q \in T : p = q
  BY <1>2, <1>6 DEF FrameOf, TablesSound
<1>14. \E z : \/ I = {z} /\ T = {} /\ E = {} /\ J = {}
              \/ I = {} /\ T = {z} /\ E = {} /\ J = {}
              \/ I = {} /\ T = {} /\ E = {z} /\ J = {}
              \/ I = {} /\ T = {} /\ E = {} /\ J = {z}
  <2>1. CASE page[f].flags = {}
    <3>1. I # {} /\ T = {} /\ E = {} /\ J = {}
      BY <1>9, <1>10, <1>12, <1>13, <2>1
    <3>2. PICK z : z \in I
      BY <3>1
    <3>3. I = {z}
      BY <1>11, <3>2
    <3> QED BY <3>1, <3>3
  <2>2. CASE page[f].flags = {"ALLOCATED"}
    <3>1. T # {} /\ I = {} /\ E = {} /\ J = {}
      BY <1>9, <1>10, <1>12, <1>13, <2>2
    <3>2. PICK z : z \in T
      BY <3>1
    <3>3. T = {z}
      BY <1>13, <3>2
    <3> QED BY <3>1, <3>3
  <2>3. CASE page[f].flags = {"ALLOCATED", "PAGEABLE"}
    <3>1. I = {} /\ T = {}
      BY <1>12, <1>13, <2>3
    <3>2. CASE J = {}
      <4>1. page[f].entry \in Mapped /\ Base(page[f].entry) = f
        BY <1>4, <1>6, <2>3, <3>2 DEF FrameOf
      <4>2. ~ \E p \in Procs : Writing(p) /\ job[p].frame = f
        BY <1>4, <3>2
      <4>3. page[f].entry \in E
        BY <1>3, <4>1, <4>2
      <4>4. E = {page[f].entry}
        BY <1>10, <4>3
      <4> QED BY <3>1, <3>2, <4>4
    <3>3. CASE J # {}
      <4>1. PICK z : z \in J
        BY <3>3
      <4>2. J = {z}
        BY <1>7, <4>1
      <4>3. page[f].entry \notin Present
        BY <1>9, <2>3, <4>1
      <4>4. E = {}
        BY <1>10, <4>3
      <4> QED BY <3>1, <4>2, <4>4
    <3> QED BY <3>2, <3>3
  <2>4. CASE "LOCKED" \in page[f].flags
    <3>1. I = {} /\ T = {} /\ E = {}
      BY <1>10, <1>12, <1>13, <2>4
    <3>2. PICK z \in Procs : Writing(z) /\ job[z].frame = f
      BY <1>6, <2>4 DEF FrameOf
    <3>3. z \in J
      BY <1>4, <3>2
    <3>4. J = {z}
      BY <1>7, <3>3
    <3> QED BY <3>1, <3>4
  <2>5. page[f].flags \in {{}, {"ALLOCATED"}, {"ALLOCATED", "PAGEABLE"}, {"ALLOCATED", "LOCKED"}, {"LOCKED"}}
    BY <1>6 DEF FrameOf
  <2> QED BY <2>1, <2>2, <2>3, <2>4, <2>5
<1> QED BY <1>1, <1>2, <1>3, <1>4, <1>14

(* Every frame of s_freeList and g_pageList is in exactly one place:         *)
(* Alloc_Pageable_Page, Free_Page and Destroy_User_Context neither lose a    *)
(* frame nor give it out twice.                                              *)
THEOREM FramesAreAccounted ==
  ASSUME Concurrent = FALSE PROVE Spec => []FramesAccounted
<1>1. ASSUME PagingParts, NEW f \in Frames
      PROVE  LET held(p)  == IF job[p].stage = "none" THEN {} ELSE {job[p].frame} \ {0}
                 writing(g) == \E p \in Procs : job[p].stage \in {"writeOut", "written"} /\ job[p].frame = g
                 uses == {<<"free", i>> : i \in {j \in DOMAIN freeList : freeList[j] = f}}
                   \cup {<<"table", p>> : p \in {q \in Procs : f \in tables[q]}}
                   \cup {<<"entry", e>> : e \in {x \in Mapped : Base(x) = f /\ ~writing(f)}}
                   \cup {<<"job", p>> : p \in {q \in Procs : f \in held(q)}}
             IN Cardinality(uses) = 1
  <2> DEFINE held(p) == IF job[p].stage = "none" THEN {} ELSE {job[p].frame} \ {0}
             writing(g) == \E p \in Procs : job[p].stage \in {"writeOut", "written"} /\ job[p].frame = g
  <2>1. PICK I : I = {j \in DOMAIN freeList : freeList[j] = f}
    OBVIOUS
  <2>2. PICK T : T = {q \in Procs : f \in tables[q]}
    OBVIOUS
  <2>3. PICK E : E = {x \in Mapped : Base(x) = f /\ ~writing(f)}
    OBVIOUS
  <2>4. PICK J : J = {q \in Procs : f \in held(q)}
    OBVIOUS
  <2>5. E = {x \in Mapped : Base(x) = f /\ ~ \E p \in Procs : Writing(p) /\ job[p].frame = f}
    BY <2>3 DEF Writing
  <2>6. J = {q \in Procs : (Writing(q) \/ Given(q)) /\ job[q].frame = f}
    <3>1. ASSUME NEW q \in Procs PROVE f \in held(q) <=> (Writing(q) \/ Given(q)) /\ job[q].frame = f
      <4>1. job[q].stage \in {"none", "writeOut", "written", "got", "readIn", "read"}
        BY <1>1, JobFields DEF PagingParts, Types
      <4>2. f # 0
        BY DEF Frames
      <4> QED BY <4>1, <4>2 DEF Writing, Given
    <3> QED BY <2>4, <3>1
  <2>7. \E z : \/ I = {z} /\ T = {} /\ E = {} /\ J = {}
               \/ I = {} /\ T = {z} /\ E = {} /\ J = {}
               \/ I = {} /\ T = {} /\ E = {z} /\ J = {}
               \/ I = {} /\ T = {} /\ E = {} /\ J = {z}
    BY <1>1, <2>1, <2>2, <2>5, <2>6, FrameUsedOnce
  <2>8. Cardinality(Uses(I, T, E, J)) = 1
    <3>1. PICK z : \/ I = {z} /\ T = {} /\ E = {} /\ J = {}
                   \/ I = {} /\ T = {z} /\ E = {} /\ J = {}
                   \/ I = {} /\ T = {} /\ E = {z} /\ J = {}
                   \/ I = {} /\ T = {} /\ E = {} /\ J = {z}
      BY <2>7
    <3> QED BY <3>1, OneUse
  <2> QED BY <2>1, <2>2, <2>3, <2>4, <2>8 DEF Uses
<1>2. PagingInv => FramesAccounted
  BY <1>1 DEF PagingInv, FramesAccounted
<1> QED BY <1>2, PagingInvariant, PTL

(* The marked slots are those of the pages on the disk and of the one being  *)
(* written.                                                                  *)
LEMMA SlotsCounted ==
  ASSUME PagingParts, NEW W, W = {p \in Procs : job[p].stage = "written"}
  PROVE /\ swapMap = {Base(e) : e \in OnDisk} \cup {job[p].slot : p \in W}
        /\ Cardinality(swapMap) = Cardinality(OnDisk) + Cardinality(W)
<1>1. Types /\ Chain /\ JobsSound /\ SlotsSound
  BY DEF PagingParts
<1>2. PICK B : B = {Base(e) : e \in OnDisk}
  OBVIOUS
<1>3. PICK L : L = {job[p].slot : p \in W}
  OBVIOUS
<1>4. swapMap = B \cup L
  BY <1>1, <1>2, <1>3 DEF SlotsSound
<1>5. B \cap L = {}
  BY <1>1, <1>2, <1>3 DEF SlotsSound
<1>6. IsFiniteSet(swapMap)
  <2>1. 1 \in Int /\ NumSlots \in Int
    BY PagingAssumption
  <2>2. IsFiniteSet(1..NumSlots)
    BY <2>1, FS_Interval, Zenon
  <2>3. swapMap \in SUBSET (1..NumSlots)
    BY <1>1 DEF Types, Slots
  <2> QED BY <2>2, <2>3, FS_Subset
<1>7. IsFiniteSet(B)
  <2>1. B \in SUBSET swapMap
    BY <1>4
  <2> QED BY <1>6, <2>1, FS_Subset
<1>8. IsFiniteSet(L) /\ Cardinality(L) = Cardinality(W) /\ Cardinality(W) \in Nat
  <2>1. CASE W = {}
    <3>1. L = {}
      BY <1>3, <2>1
    <3> QED BY <2>1, <3>1, FS_EmptySet
  <2>2. CASE W # {}
    <3>1. PICK p : p \in W
      BY <2>2
    <3>2. \A q \in W : q \in Procs /\ Busy(q)
      BY <1>1 DEF JobsSound, JobOf, JobIdle, Busy
    <3>3. W = {p}
      BY <1>1, <3>1, <3>2, Alone
    <3>4. L = {job[p].slot}
      BY <1>3, <3>3
    <3>5. PICK l : l = job[p].slot
      OBVIOUS
    <3>6. IsFiniteSet({l}) /\ Cardinality({l}) = 1 /\ Cardinality({p}) = 1
      BY FS_Singleton
    <3>7. IsFiniteSet(L) /\ Cardinality(L) = 1
      BY <3>4, <3>5, <3>6, Zenon
    <3>8. Cardinality(W) = 1
      BY <3>3, <3>6, Zenon
    <3> QED BY <3>7, <3>8
  <2> QED BY <2>1, <2>2
<1>9. Cardinality(OnDisk) = Cardinality(B)
  <2>1. PICK g : g = [e \in OnDisk |-> Base(e)]
    OBVIOUS
  <2>2. g \in Injection(OnDisk, B)
    BY <1>1, <1>2, <2>1 DEF SlotsSound, Injection, IsInjective
  <2>3. g \in Surjection(OnDisk, B)
    BY <1>2, <2>1 DEF Surjection
  <2> QED BY <1>7, <2>2, <2>3, FS_Injection
<1>10. PICK b \in Nat : b = Cardinality(B)
  BY <1>7, FS_CardinalityType
<1>11. Cardinality(B \cup L) = Cardinality(B) + Cardinality(L) - Cardinality(B \cap L)
  BY <1>7, <1>8, FS_Union
<1>12. Cardinality(B \cap L) = 0
  BY <1>5, FS_EmptySet
<1>13. Cardinality(B \cup L) = Cardinality(B) + Cardinality(L)
  BY <1>8, <1>10, <1>11, <1>12
<1> QED BY <1>2, <1>3, <1>4, <1>8, <1>9, <1>13

(* The slots marked in the paging file are exactly those of the pages on it  *)
(* and of the page being written: Find_Space_On_Paging_File never returns a  *)
(* slot in use, and none is lost.                                            *)
THEOREM SlotsAreAccounted ==
  ASSUME Concurrent = FALSE PROVE Spec => []SlotsAccounted
<1>1. PagingInv => SlotsAccounted
  BY SlotsCounted DEF PagingInv, SlotsAccounted
<1> QED BY <1>1, PagingInvariant, PTL

-----------------------------------------------------------------------------
(* The heap: headers as values *)

LastWord == PoolLen - H!HeadSize
HeaderT  == [prevfree : Nat, bsize : Int]

(* The free blocks, and the words of a block.                                     *)
FreeIn(d)  == {a \in DOMAIN d : d[a].bsize > 0}
Span(d, a) == IF d[a].bsize > 0 THEN d[a].bsize ELSE -d[a].bsize
Placed(d)  == DOMAIN d \ {LastWord}

HeaderTypes(d) == d \in [DOMAIN d -> HeaderT] /\ DOMAIN d \in SUBSET (0..LastWord)

(* The blocks lie one behind the other from the first word to the sentinel.       *)
Layout(d) ==
  /\ 0 \in DOMAIN d /\ LastWord \in DOMAIN d /\ d[LastWord].bsize = H!ESent
  /\ \A a \in Placed(d) : Span(d, a) > 0 /\ a + Span(d, a) \in DOMAIN d
  /\ \A a \in Placed(d), c \in DOMAIN d : c =< a \/ a + Span(d, a) =< c

(* A header says whether the block before it is free, and how long it is.         *)
Tags(d) ==
  /\ d[0].prevfree = 0
  /\ \A a \in Placed(d) : d[a + Span(d, a)].prevfree = IF d[a].bsize > 0 THEN d[a].bsize ELSE 0

Merged(d) == \A a \in FreeIn(d) : a + d[a].bsize \notin FreeIn(d)

Headers(d) == HeaderTypes(d) /\ Layout(d) /\ Tags(d) /\ Merged(d)

(* The free list has each free block once, and callers have the other blocks.     *)
Listed(d, f) == f \in Seq(Nat) /\ Distinct(f) /\ \A a : Contains(f, a) <=> a \in FreeIn(d)
Taken(d, u) ==
  /\ u \in [DOMAIN u -> Nat] /\ DOMAIN u = Placed(d) \ FreeIn(d)
  /\ \A a \in DOMAIN u : 4 * (-d[a].bsize - H!HeadSize) >= u[a]

HeapSound(h, u) ==
  /\ h = [header |-> h.header, free |-> h.free]
  /\ Headers(h.header) /\ Listed(h.header, h.free) /\ Taken(h.header, u)

HeapInv == ~misused /\ HeapSound(heap, inUse)

LEMMA Ends ==
  ASSUME HeapAssumption
  PROVE  LastWord \in Nat /\ LastWord > 0 /\ H!ESent \in Int /\ H!ESent < 0 /\ H!HeadSize = 2
  BY DEF HeapAssumption, LastWord, H!HeadSize, H!ESent

LEMMA GreatestFact ==
  ASSUME NEW S \in SUBSET Nat, 0 \in S, NEW w \in Nat
  PROVE  \E p \in S : p =< w /\ \A c \in S : c =< w => c =< p
<1> DEFINE T == {w - c : c \in {s \in S : s =< w}}
<1>1. T \in SUBSET Nat
  <2>1. ASSUME NEW c \in S, c =< w PROVE w - c \in Nat
    <3>1. c \in Nat
      OBVIOUS
    <3>2. QED BY <2>1, <3>1
  <2>2. QED BY <2>1
<1>2. w - 0 \in T
  <2>1. 0 =< w
    OBVIOUS
  <2>2. 0 \in {s \in S : s =< w}
    BY <2>1, Zenon
  <2>3. QED BY <2>2, Zenon
<1>3. PICK x \in T : \A y \in T : x =< y
  BY <1>1, <1>2, LeastFact
<1>4. PICK p \in S : p =< w /\ x = w - p
  OBVIOUS
<1>5. ASSUME NEW c \in S, c =< w PROVE c =< p
  <2>1. w - c \in T
    BY <1>5
  <2>2. w - p =< w - c
    BY <1>3, <1>4, <2>1
  <2>3. c \in Nat /\ p \in Nat
    OBVIOUS
  <2>4. QED BY <2>2, <2>3
<1>6. QED BY <1>4, <1>5

(* Every word before the sentinel is in a block.                                  *)
LEMMA InABlock ==
  ASSUME HeapAssumption, NEW d, HeaderTypes(d), Layout(d), NEW w \in 0..(LastWord - 1)
  PROVE  \E p \in Placed(d) : p =< w /\ w < p + Span(d, p)
<1>1. LastWord \in Nat /\ DOMAIN d \in SUBSET Nat /\ 0 \in DOMAIN d /\ w \in Nat
  BY Ends DEF HeaderTypes, Layout
<1>2. PICK p \in DOMAIN d : p =< w /\ \A c \in DOMAIN d : c =< w => c =< p
  BY <1>1, GreatestFact
<1>3. p \in Placed(d) /\ p \in Nat
  BY <1>1, <1>2 DEF Placed
<1>4. Span(d, p) \in Int
  BY <1>2 DEF Span, HeaderTypes, HeaderT
<1>5. Span(d, p) > 0 /\ p + Span(d, p) \in DOMAIN d
  BY <1>3 DEF Layout
<1>6. QED BY <1>1, <1>2, <1>3, <1>4, <1>5

(* A block is first or lies behind another.                                       *)
LEMMA BehindABlock ==
  ASSUME HeapAssumption, NEW d, HeaderTypes(d), Layout(d), NEW b \in DOMAIN d, b # 0
  PROVE  \E p \in Placed(d) : p + Span(d, p) = b
<1>1. LastWord \in Nat /\ b \in 0..LastWord
  BY Ends DEF HeaderTypes
<1>2. b - 1 \in 0..(LastWord - 1)
  BY <1>1
<1>3. PICK p \in Placed(d) : p =< b - 1 /\ b - 1 < p + Span(d, p)
  BY <1>2, InABlock
<1>4. p \in 0..LastWord /\ Span(d, p) \in Int
  BY DEF Placed, Span, HeaderTypes, HeaderT
<1>5. b =< p \/ p + Span(d, p) =< b
  BY DEF Layout
<1>6. QED BY <1>1, <1>3, <1>4, <1>5

LEMMA BlockFacts ==
  ASSUME HeapAssumption, NEW d, Headers(d), NEW a \in Placed(d)
  PROVE  /\ a \in DOMAIN d /\ a \in 0..(LastWord - 1)
         /\ Span(d, a) \in Int /\ Span(d, a) > 0 /\ d[a].bsize \in Int /\ d[a].prevfree \in Nat /\ d[a].bsize # 0
         /\ a + Span(d, a) \in DOMAIN d /\ a + Span(d, a) \in 1..LastWord
         /\ d[a] = [prevfree |-> d[a].prevfree, bsize |-> d[a].bsize]
<1>1. LastWord \in Nat /\ LastWord > 0 /\ HeaderTypes(d) /\ Layout(d)
  BY Ends DEF Headers
<1>2. a \in DOMAIN d /\ a # LastWord /\ a \in 0..LastWord /\ d[a] \in HeaderT
  BY <1>1 DEF Placed, HeaderTypes
<1>3. d[a].bsize \in Int /\ d[a].prevfree \in Nat /\ d[a] = [prevfree |-> d[a].prevfree, bsize |-> d[a].bsize]
  BY <1>2 DEF HeaderT
<1>4. Span(d, a) \in Int /\ Span(d, a) > 0 /\ a + Span(d, a) \in DOMAIN d
  BY <1>1, <1>3 DEF Layout, Span
<1>5. a + Span(d, a) \in 0..LastWord
  BY <1>1, <1>4 DEF HeaderTypes
<1>6. QED BY <1>1, <1>2, <1>3, <1>4, <1>5 DEF Span

LEMMA FreePlaced ==
  ASSUME HeapAssumption, NEW d, Headers(d), NEW a \in FreeIn(d)
  PROVE  a \in Placed(d) /\ Span(d, a) = d[a].bsize
  BY Ends DEF FreeIn, Placed, Span, Headers, Layout

(* The part from p to e becomes one free block.                                    *)
Joined(d, g, p, e) ==
  /\ DOMAIN g = {a \in DOMAIN d : a =< p \/ e =< a} /\ g \in [DOMAIN g -> HeaderT]
  /\ g[p] = [prevfree |-> d[p].prevfree, bsize |-> e - p]
  /\ g[e] = [prevfree |-> e - p, bsize |-> d[e].bsize]
  /\ \A a \in DOMAIN g \ {p, e} : g[a] = d[a]

FreeJoined(d, p, e) == {a \in FreeIn(d) : a < p \/ e < a} \cup {p}

(* Free blocks that are joined with what is taken back have no free neighbours.    *)
LEMMA JoinedSound ==
  ASSUME HeapAssumption, NEW d, NEW g, Headers(d), NEW p \in DOMAIN d, NEW e \in DOMAIN d, p < e,
         Joined(d, g, p, e), d[p].prevfree = 0, e \notin FreeIn(d)
  PROVE  Headers(g) /\ FreeIn(g) = FreeJoined(d, p, e)
<1>1. /\ LastWord \in Nat /\ LastWord > 0 /\ HeaderTypes(d) /\ Layout(d) /\ Tags(d) /\ Merged(d)
      /\ H!ESent \in Int /\ H!ESent < 0
  BY Ends DEF Headers
<1>2. p \in 0..LastWord /\ e \in 0..LastWord /\ e - p > 0 /\ e - p \in Nat /\ p # LastWord /\ e # 0
  BY <1>1 DEF HeaderTypes
<1>3. p \in DOMAIN g /\ e \in DOMAIN g /\ DOMAIN g \subseteq DOMAIN d
  BY <1>2 DEF Joined
<1>4. HeaderTypes(g)
  BY <1>1, <1>3 DEF HeaderTypes, Joined
<1>5. \A a \in Placed(g) : a \in Placed(d)
  BY <1>3 DEF Placed
<1>6. /\ g[p].bsize = e - p /\ g[p].prevfree = 0 /\ Span(g, p) = e - p
      /\ g[e].bsize = d[e].bsize /\ g[e].prevfree = e - p
      /\ Span(g, e) = Span(d, e)
  BY <1>2 DEF Joined, Span
<1>7. \A a \in DOMAIN g \ {p} : g[a].bsize = d[a].bsize /\ Span(g, a) = Span(d, a)
  BY <1>6 DEF Joined, Span
<1>8. ASSUME NEW a \in Placed(g), a # p
      PROVE  /\ a + Span(d, a) =< p \/ (e =< a /\ e < a + Span(d, a))
             /\ Span(g, a) = Span(d, a) /\ Span(d, a) > 0 /\ a \in Nat /\ Span(d, a) \in Int
             /\ a + Span(d, a) \in DOMAIN g
  <2>1. /\ a \in Placed(d) /\ Span(d, a) > 0 /\ a \in Nat /\ Span(d, a) \in Int /\ a + Span(d, a) \in DOMAIN d
        /\ a \in DOMAIN g
    BY <1>5, BlockFacts DEF Placed
  <2>2. a < p \/ e =< a
    BY <1>2, <1>8, <2>1 DEF Joined
  <2>3. a < p => a + Span(d, a) =< p
    BY <1>1, <1>2, <2>1 DEF Layout
  <2>4. Span(g, a) = Span(d, a)
    BY <1>7, <1>8, <2>1
  <2>5. a + Span(d, a) =< p \/ (e =< a /\ e < a + Span(d, a))
    BY <1>2, <2>1, <2>2, <2>3
  <2>6. a + Span(d, a) \in DOMAIN g
    BY <1>2, <2>1, <2>5 DEF Joined
  <2>7. QED BY <2>1, <2>4, <2>5, <2>6
<1>9. Layout(g)
  <2>1. 0 \in DOMAIN g /\ LastWord \in DOMAIN g
    BY <1>1, <1>2 DEF Layout, Joined
  <2>2. g[LastWord].bsize = H!ESent
    BY <1>1, <1>2, <1>7, <2>1 DEF Layout
  <2>3. ASSUME NEW a \in Placed(g)
        PROVE  Span(g, a) > 0 /\ a + Span(g, a) \in DOMAIN g
    <3>1. CASE a = p
      BY <1>2, <1>3, <1>6, <3>1
    <3>2. CASE a # p
      BY <1>8, <3>2
    <3>3. QED BY <3>1, <3>2
  <2>4. ASSUME NEW a \in Placed(g), NEW c \in DOMAIN g
        PROVE  c =< a \/ a + Span(g, a) =< c
    <3>1. CASE a = p
      BY <1>2, <1>6, <3>1 DEF Joined
    <3>2. CASE a # p
      <4>1. c =< a \/ a + Span(d, a) =< c
        BY <1>1, <1>3, <1>5 DEF Layout
      <4>2. QED BY <1>8, <3>2, <4>1
    <3>3. QED BY <3>1, <3>2
  <2>5. QED BY <2>1, <2>2, <2>3, <2>4 DEF Layout
<1>10. Tags(g)
  <2>1. g[0].prevfree = 0
    <3>1. CASE p = 0
      BY <1>6, <3>1
    <3>2. CASE p # 0
      BY <1>1, <1>2, <1>9, <3>2 DEF Joined, Tags, Layout
    <3>3. QED BY <3>1, <3>2
  <2>2. ASSUME NEW a \in Placed(g)
        PROVE  g[a + Span(g, a)].prevfree = IF g[a].bsize > 0 THEN g[a].bsize ELSE 0
    <3>1. CASE a = p
      BY <1>2, <1>6, <3>1
    <3>2. CASE a # p
      <4>1. d[a + Span(d, a)].prevfree = IF d[a].bsize > 0 THEN d[a].bsize ELSE 0
        BY <1>1, <1>5 DEF Tags
      <4>2. a + Span(d, a) # e /\ a + Span(d, a) \in DOMAIN g
        BY <1>2, <1>8, <3>2
      <4>3. g[a + Span(d, a)].prevfree = d[a + Span(d, a)].prevfree
        BY <1>6, <4>2 DEF Joined
      <4>4. g[a].bsize = d[a].bsize
        BY <1>7, <3>2 DEF Placed
      <4>5. QED BY <1>8, <3>2, <4>1, <4>3, <4>4
    <3>3. QED BY <3>1, <3>2
  <2>3. QED BY <2>1, <2>2 DEF Tags
<1>11. FreeIn(g) = {a \in FreeIn(d) : a < p \/ e < a} \cup {p}
  <2>1. ASSUME NEW a \in FreeIn(g), a # p PROVE a \in FreeIn(d) /\ (a < p \/ e < a)
    <3>1. a \in DOMAIN g /\ g[a].bsize > 0 /\ a \in Nat
      BY <1>1, <1>3 DEF FreeIn, HeaderTypes
    <3>2. a \in FreeIn(d)
      BY <1>3, <1>7, <2>1, <3>1 DEF FreeIn
    <3>3. QED BY <1>2, <2>1, <3>1, <3>2 DEF Joined
  <2>2. ASSUME NEW a \in FreeIn(d), a < p \/ e < a PROVE a \in FreeIn(g)
    <3>1. a \in DOMAIN d /\ a \in Nat /\ d[a].bsize > 0
      BY <1>1 DEF FreeIn, HeaderTypes
    <3>2. a \in DOMAIN g \ {p, e}
      BY <1>2, <2>2, <3>1 DEF Joined
    <3>3. QED BY <1>7, <3>1, <3>2 DEF FreeIn
  <2>3. p \in FreeIn(g)
    BY <1>2, <1>3, <1>6 DEF FreeIn
  <2>4. QED BY <2>1, <2>2, <2>3
<1>12. Merged(g)
  <2>1. ASSUME NEW a \in FreeIn(g) PROVE a + g[a].bsize \notin FreeIn(g)
    <3>1. CASE a = p
      <4>1. a + g[a].bsize = e
        BY <1>2, <1>6, <3>1
      <4>2. QED BY <1>2, <1>11, <4>1
    <3>2. CASE a # p
      <4>1. a \in FreeIn(d) /\ a \in DOMAIN g
        BY <1>11, <3>2 DEF FreeIn
      <4>2. g[a].bsize = d[a].bsize
        BY <1>7, <3>2, <4>1
      <4>3. a + d[a].bsize \notin FreeIn(d)
        BY <1>1, <4>1 DEF Merged
      <4>4. a \in Placed(d) /\ Span(d, a) = d[a].bsize
        BY <4>1, FreePlaced
      <4>5. d[a + d[a].bsize].prevfree = d[a].bsize /\ d[a].bsize > 0
        BY <1>1, <4>1, <4>4 DEF Tags, FreeIn
      <4>6. a + d[a].bsize # p
        BY <4>4, <4>5, BlockFacts
      <4>7. QED BY <1>11, <4>2, <4>3, <4>6
    <3>3. QED BY <3>1, <3>2
  <2>2. QED BY <2>1 DEF Merged
<1>13. QED BY <1>4, <1>9, <1>10, <1>11, <1>12 DEF Headers, FreeJoined

(* A free block is given to a caller.                                              *)
HandedOut(d, g, b) ==
  LET e == b + d[b].bsize IN
  /\ g \in [DOMAIN d -> HeaderT]
  /\ g[b] = [prevfree |-> d[b].prevfree, bsize |-> -d[b].bsize]
  /\ g[e] = [prevfree |-> 0, bsize |-> d[e].bsize]
  /\ \A a \in DOMAIN d \ {b, e} : g[a] = d[a]

LEMMA HandedOutSound ==
  ASSUME HeapAssumption, NEW d, NEW g, Headers(d), NEW b \in FreeIn(d), HandedOut(d, g, b)
  PROVE  Headers(g) /\ FreeIn(g) = FreeIn(d) \ {b}
<1> DEFINE e == b + d[b].bsize
<1>1. /\ LastWord \in Nat /\ LastWord > 0 /\ HeaderTypes(d) /\ Layout(d) /\ Tags(d) /\ Merged(d)
      /\ H!ESent \in Int /\ H!ESent < 0
  BY Ends DEF Headers
<1>2. b \in Placed(d) /\ Span(d, b) = d[b].bsize /\ d[b].bsize > 0
  BY FreePlaced DEF FreeIn
<1>3. /\ b \in 0..(LastWord - 1) /\ d[b].bsize \in Int /\ e \in DOMAIN d /\ e \in 1..LastWord /\ b # e
      /\ b \in DOMAIN d
  <2>1. /\ b \in 0..(LastWord - 1) /\ d[b].bsize \in Int /\ b \in DOMAIN d
        /\ b + Span(d, b) \in DOMAIN d /\ b + Span(d, b) \in 1..LastWord
    BY <1>2, BlockFacts
  <2>2. b + Span(d, b) = e
    BY <1>2
  <2>3. b # e
    BY <1>1, <1>2, <2>1
  <2> QED  BY <2>1, <2>2, <2>3, Zenon
<1>4. DOMAIN g = DOMAIN d /\ HeaderTypes(g) /\ Placed(g) = Placed(d)
  BY <1>1 DEF HandedOut, HeaderTypes, Placed
<1>5. g[b].bsize = -d[b].bsize /\ g[b].prevfree = d[b].prevfree /\ g[e].prevfree = 0 /\ g[e].bsize = d[e].bsize
  BY DEF HandedOut
<1>6. \A a \in DOMAIN d \ {b} : g[a].bsize = d[a].bsize /\ Span(g, a) = Span(d, a)
  BY <1>5 DEF HandedOut, Span
<1>7. \A a \in DOMAIN d \ {e} : g[a].prevfree = d[a].prevfree
  BY <1>5 DEF HandedOut
<1>8. \A a \in DOMAIN d : Span(g, a) = Span(d, a)
  <2>1. Span(g, b) = Span(d, b)
    BY <1>2, <1>3, <1>5 DEF Span
  <2>2. QED BY <1>6, <2>1
<1> HIDE DEF e
<1>9. Layout(g)
  BY <1>1, <1>2, <1>3, <1>4, <1>6, <1>8 DEF Layout, Placed
<1>10. FreeIn(g) = FreeIn(d) \ {b}
  <2>1. ~ (g[b].bsize > 0)
    BY <1>2, <1>3, <1>5
  <2>2. QED BY <1>4, <1>6, <2>1 DEF FreeIn
<1>11. Tags(g)
  <2>1. g[0].prevfree = 0
    BY <1>1, <1>3, <1>7 DEF Tags, Layout
  <2>2. ASSUME NEW a \in Placed(d)
        PROVE  g[a + Span(d, a)].prevfree = IF g[a].bsize > 0 THEN g[a].bsize ELSE 0
    <3>1. CASE a = b
      <4>1. a + Span(d, a) = e
        BY <1>2, <3>1 DEF e
      <4>2. QED BY <1>2, <1>3, <1>5, <3>1, <4>1
    <3>2. CASE a # b
      <4>0. d[a + Span(d, a)].prevfree = IF d[a].bsize > 0 THEN d[a].bsize ELSE 0
        BY <1>1 DEF Tags
      <4>1. a \in DOMAIN d /\ a + Span(d, a) \in DOMAIN d /\ a \in Nat /\ Span(d, a) \in Int /\ Span(d, a) > 0
        <5>1. a \in DOMAIN d /\ a + Span(d, a) \in DOMAIN d /\ a \in 0..(LastWord - 1) /\ Span(d, a) \in Int /\ Span(d, a) > 0
          BY BlockFacts
        <5>2. QED BY <1>1, <5>1
      <4>2. a + Span(d, a) # e
        <5>1. b =< a \/ a + Span(d, a) =< b
          BY <1>1, <1>3 DEF Layout
        <5>2. a =< b \/ e =< a
          BY <1>1, <1>2, <4>1 DEF Layout, e
        <5>3. QED BY <1>2, <1>3, <3>2, <4>1, <5>1, <5>2 DEF e
      <4>3. QED BY <1>6, <1>7, <3>2, <4>0, <4>1, <4>2
    <3>3. QED BY <3>1, <3>2
  <2>3. QED BY <1>4, <1>8, <2>1, <2>2 DEF Tags, Placed
<1>12. Merged(g)
  BY <1>1, <1>6, <1>10 DEF Merged, FreeIn
<1>13. QED BY <1>4, <1>9, <1>10, <1>11, <1>12 DEF Headers

(* A caller is given the last words of a free block.                               *)
CutOff(d, g, b, left) ==
  LET e == b + d[b].bsize IN
  /\ DOMAIN g = DOMAIN d \cup {b + left} /\ g \in [DOMAIN g -> HeaderT]
  /\ g[b] = [prevfree |-> d[b].prevfree, bsize |-> left]
  /\ g[b + left] = [prevfree |-> left, bsize |-> left - d[b].bsize]
  /\ g[e] = [prevfree |-> 0, bsize |-> d[e].bsize]
  /\ \A a \in DOMAIN d \ {b, e} : g[a] = d[a]

LEMMA CutOffSound ==
  ASSUME HeapAssumption, NEW d, NEW g, Headers(d), NEW b \in FreeIn(d), NEW left \in Nat,
         left > 0, left < d[b].bsize, CutOff(d, g, b, left)
  PROVE  Headers(g) /\ FreeIn(g) = FreeIn(d) /\ b + left \notin DOMAIN d /\ b + left \in Placed(g)
<1> DEFINE e == b + d[b].bsize
<1> DEFINE m == b + left
<1>1. /\ LastWord \in Nat /\ LastWord > 0 /\ HeaderTypes(d) /\ Layout(d) /\ Tags(d) /\ Merged(d)
      /\ H!ESent \in Int /\ H!ESent < 0
  BY Ends DEF Headers
<1>2. b \in Placed(d) /\ Span(d, b) = d[b].bsize /\ d[b].bsize > 0
  BY FreePlaced DEF FreeIn
<1>3. /\ b \in 0..(LastWord - 1) /\ d[b].bsize \in Int /\ e \in DOMAIN d /\ e \in 1..LastWord
      /\ b < m /\ m < e /\ m \in Nat /\ b \in DOMAIN d
  <2>1. /\ b \in 0..(LastWord - 1) /\ d[b].bsize \in Int /\ b \in DOMAIN d
        /\ b + Span(d, b) \in DOMAIN d /\ b + Span(d, b) \in 1..LastWord
    BY <1>2, BlockFacts
  <2>2. b + Span(d, b) = e
    BY <1>2
  <2>3. b < m /\ m < e /\ m \in Nat
    BY <1>1, <2>1
  <2> QED  BY <2>1, <2>2, <2>3, Zenon
<1>4. m \notin DOMAIN d
  BY <1>1, <1>2, <1>3 DEF Layout
<1>5. /\ DOMAIN g = DOMAIN d \cup {m} /\ HeaderTypes(g) /\ Placed(g) = Placed(d) \cup {m}
  <2>1. DOMAIN g = DOMAIN d \cup {m} /\ g \in [DOMAIN g -> HeaderT]
    BY DEF CutOff
  <2>2. m \in 0..LastWord /\ m # LastWord
    BY <1>1, <1>3
  <2>3. QED BY <1>1, <2>1, <2>2 DEF HeaderTypes, Placed
<1>6. /\ g[b].bsize = left /\ g[b].prevfree = d[b].prevfree /\ g[e].prevfree = 0 /\ g[e].bsize = d[e].bsize
      /\ g[m].prevfree = left /\ g[m].bsize = left - d[b].bsize
  BY DEF CutOff
<1>7. \A a \in DOMAIN d \ {b} : g[a].bsize = d[a].bsize /\ Span(g, a) = Span(d, a)
  BY <1>6 DEF CutOff, Span
<1>8. \A a \in DOMAIN d \ {e} : g[a].prevfree = d[a].prevfree
  BY <1>6 DEF CutOff
<1>9. Span(g, b) = left /\ b + Span(g, b) = m
  BY <1>6 DEF Span
<1>10. Span(g, m) = d[b].bsize - left /\ m + Span(g, m) = e /\ ~ (g[m].bsize > 0)
  <2>1. ~ (g[m].bsize > 0)
    BY <1>3, <1>6
  <2>2. Span(g, m) = -(left - d[b].bsize)
    BY <1>6, <2>1 DEF Span
  <2>3. QED BY <1>3, <2>1, <2>2
<1> HIDE DEF e, m
<1>11. ASSUME NEW a \in Placed(d), a # b
       PROVE  /\ a \in DOMAIN d /\ a \in Nat /\ Span(d, a) \in Int /\ Span(d, a) > 0 /\ Span(g, a) = Span(d, a)
              /\ a + Span(d, a) =< b \/ (e =< a /\ e < a + Span(d, a))
              /\ a + Span(d, a) \in DOMAIN d
  <2>1. a \in DOMAIN d /\ a \in Nat /\ Span(d, a) \in Int /\ Span(d, a) > 0 /\ a + Span(d, a) \in DOMAIN d
    <3>1. a \in DOMAIN d /\ a + Span(d, a) \in DOMAIN d /\ a \in 0..(LastWord - 1) /\ Span(d, a) \in Int /\ Span(d, a) > 0
      BY BlockFacts
    <3>2. QED BY <1>1, <3>1
  <2>2. b =< a \/ a + Span(d, a) =< b
    BY <1>1, <1>3 DEF Layout
  <2>3. a =< b \/ e =< a
    BY <1>1, <1>2, <2>1 DEF Layout, e
  <2>4. QED BY <1>3, <1>7, <1>11, <2>1, <2>2, <2>3
<1>12. Layout(g)
  <2>1. 0 \in DOMAIN g /\ LastWord \in DOMAIN g /\ g[LastWord].bsize = H!ESent
    BY <1>1, <1>3, <1>5, <1>7 DEF Layout
  <2>2. ASSUME NEW a \in Placed(g)
        PROVE  Span(g, a) > 0 /\ a + Span(g, a) \in DOMAIN g
    <3>1. CASE a = b
      BY <1>5, <1>9, <3>1
    <3>2. CASE a = m
      BY <1>3, <1>5, <1>10, <3>2
    <3>3. CASE a # b /\ a # m
      <4>1. a \in Placed(d)
        BY <1>5, <3>3
      <4>2. QED BY <1>1, <1>5, <1>11, <3>3, <4>1 DEF Layout
    <3>4. QED BY <3>1, <3>2, <3>3
  <2>3. ASSUME NEW a \in Placed(g), NEW c \in DOMAIN g
        PROVE  c =< a \/ a + Span(g, a) =< c
    <3>1. c \in DOMAIN d => c =< b \/ e =< c
      BY <1>1, <1>2 DEF Layout, e
    <3>2. c = m \/ c \in DOMAIN d
      BY <1>5
    <3>3. c \in Nat
      BY <1>1, <1>3, <3>2 DEF HeaderTypes
    <3>4. CASE a = b
      BY <1>3, <1>9, <3>1, <3>2, <3>3, <3>4
    <3>5. CASE a = m
      BY <1>3, <1>10, <3>1, <3>2, <3>3, <3>5
    <3>6. CASE a # b /\ a # m
      <4>1. a \in Placed(d)
        BY <1>5, <3>6
      <4>2. c \in DOMAIN d => c =< a \/ a + Span(d, a) =< c
        BY <1>1, <4>1 DEF Layout
      <4>3. QED BY <1>3, <1>11, <3>2, <3>3, <3>6, <4>1, <4>2
    <3>7. QED BY <3>4, <3>5, <3>6
  <2>4. QED BY <2>1, <2>2, <2>3 DEF Layout
<1>13. FreeIn(g) = FreeIn(d)
  <2>1. g[b].bsize > 0
    BY <1>6
  <2>2. QED BY <1>2, <1>4, <1>5, <1>7, <1>10, <2>1 DEF FreeIn
<1>14. Tags(g)
  <2>1. g[0].prevfree = 0
    BY <1>1, <1>3, <1>8 DEF Tags, Layout
  <2>2. ASSUME NEW a \in Placed(g)
        PROVE  g[a + Span(g, a)].prevfree = IF g[a].bsize > 0 THEN g[a].bsize ELSE 0
    <3>1. CASE a = b
      BY <1>6, <1>9, <3>1
    <3>2. CASE a = m
      BY <1>6, <1>10, <3>2
    <3>3. CASE a # b /\ a # m
      <4>1. a \in Placed(d)
        BY <1>5, <3>3
      <4>2. d[a + Span(d, a)].prevfree = IF d[a].bsize > 0 THEN d[a].bsize ELSE 0
        BY <1>1, <4>1 DEF Tags
      <4>3. a + Span(d, a) # e /\ a + Span(d, a) \in DOMAIN d /\ a \in DOMAIN d
        BY <1>1, <1>3, <1>11, <3>3, <4>1 DEF Layout
      <4>4. QED BY <1>7, <1>8, <1>11, <3>3, <4>1, <4>2, <4>3
    <3>4. QED BY <3>1, <3>2, <3>3
  <2>3. QED BY <2>1, <2>2 DEF Tags
<1>15. Merged(g)
  <2>1. ASSUME NEW a \in FreeIn(d) PROVE a + g[a].bsize \notin FreeIn(d)
    <3>1. CASE a = b
      BY <1>4, <1>6, <3>1 DEF m, FreeIn
    <3>2. CASE a # b
      BY <1>1, <1>7, <3>2 DEF Merged, FreeIn
    <3>3. QED BY <3>1, <3>2
  <2>2. QED BY <1>13, <2>1 DEF Merged
<1>16. QED BY <1>4, <1>5, <1>12, <1>13, <1>14, <1>15 DEF Headers, m

LEMMA UnlinkFact ==
  ASSUME NEW f \in Seq(Nat), Distinct(f), NEW b, Contains(f, b)
  PROVE  /\ H!Unlink(f, b) \in Seq(Nat) /\ Distinct(H!Unlink(f, b))
         /\ \A a : Contains(H!Unlink(f, b), a) <=> Contains(f, a) /\ a # b
<1>1. DOMAIN f = 1..Len(f)
  OBVIOUS
<1>2. PICK k \in 1..Len(f) : f[k] = b
  BY DEF Contains
<1>3. k = CHOOSE i \in DOMAIN f : f[i] = b
  BY <1>1, <1>2 DEF Distinct
<1>4. H!Unlink(f, b) = RemoveAt(f, k)
  BY <1>3 DEF H!Unlink, H!RemoveAt, RemoveAt
<1>5. /\ RemoveAt(f, k) \in Seq(Nat) /\ Distinct(RemoveAt(f, k))
      /\ \A a : Contains(RemoveAt(f, k), a) <=> Contains(f, a) /\ a # f[k]
  BY RemoveAtFact
<1>6. QED BY <1>2, <1>4, <1>5

LEMMA HeaderFact ==
  ASSUME NEW h, NEW a \in DOMAIN h.header PROVE H!Header(h, a) = h.header[a]
  BY DEF H!Header

(* The smallest free block that is big enough, and the first of these.             *)
LEMMA BestFact ==
  ASSUME HeapAssumption, NEW h, NEW u, HeapSound(h, u), NEW size \in Nat, H!Fits(h, size) # {}
  PROVE  H!Best(h, size) \in H!Fits(h, size)
<1> DEFINE F == H!Fits(h, size)
<1> DEFINE s(i) == H!Header(h, h.free[i]).bsize
<1>1. h.free \in Seq(Nat) /\ DOMAIN h.free = 1..Len(h.free)
  BY DEF HeapSound, Listed
<1>2. ASSUME NEW i \in F PROVE i \in Nat /\ s(i) \in Nat
  <2>1. i \in 1..Len(h.free)
    BY <1>1 DEF H!Fits
  <2>2. h.free[i] \in FreeIn(h.header)
    BY <2>1 DEF HeapSound, Listed, Contains
  <2>3. s(i) = h.header[h.free[i]].bsize /\ s(i) > 0
    BY <2>2, HeaderFact DEF FreeIn
  <2>4. s(i) \in Int
    BY <2>2, <2>3, FreePlaced, BlockFacts DEF HeapSound
  <2>5. QED BY <1>1, <2>1, <2>3, <2>4
<1> DEFINE S == {s(i) : i \in F}
<1>3. PICK m \in S : \A y \in S : m =< y
  BY <1>2, LeastFact, S \in SUBSET Nat, S # {}
<1> DEFINE I == {i \in F : s(i) = m}
<1>4. I \in SUBSET Nat /\ I # {}
  BY <1>2, <1>3
<1>5. PICK i \in I : \A j \in I : i =< j
  BY <1>4, LeastFact
<1>6. i \in F /\ s(i) = m /\ m \in Nat
  BY <1>2, <1>5
<1>7. ASSUME NEW j \in F PROVE s(i) < s(j) \/ (s(i) = s(j) /\ i =< j)
  <2>1. s(i) =< s(j) /\ s(j) \in Nat
    BY <1>2, <1>3, <1>6
  <2>2. s(i) = s(j) => j \in I
    BY <1>6
  <2>3. QED BY <1>2, <1>5, <1>6, <2>1, <2>2
<1>8. QED BY <1>6, <1>7 DEF H!Best

LEMMA SizeFact ==
  ASSUME NEW bytes \in Nat
  PROVE  H!Size(bytes) \in Nat /\ H!Size(bytes) >= 4 /\ 4 * (H!Size(bytes) - H!HeadSize) >= bytes
<1>1. (bytes + 3) \div 4 \in Nat /\ 4 * ((bytes + 3) \div 4) >= bytes
  OBVIOUS
<1> DEFINE w == (bytes + 3) \div 4
<1> HIDE DEF w
<1>2. w \in Nat /\ 4 * w >= bytes
  BY <1>1 DEF w
<1>3. H!Max({2, w}) \in {2, w} /\ H!Max({2, w}) >= 2 /\ H!Max({2, w}) >= w
  <2>1. \E x \in {2, w} : \A y \in {2, w} : x >= y
    BY <1>2
  <2>2. QED BY <2>1, <1>2 DEF H!Max
<1>4. H!Size(bytes) = H!Max({2, w}) + 2
  BY DEF H!Size, H!SizeQ, H!HeadSize, w
<1>5. QED BY <1>2, <1>3, <1>4 DEF H!HeadSize

LEMMA TakenMore ==
  ASSUME HeapAssumption, NEW d, NEW g, Headers(d), Headers(g), NEW u, Taken(d, u), NEW b, NEW bytes \in Nat,
         b \notin DOMAIN u, Placed(g) \ FreeIn(g) = (Placed(d) \ FreeIn(d)) \cup {b},
         4 * (-g[b].bsize - H!HeadSize) >= bytes,
         \A a \in DOMAIN u : g[a].bsize = d[a].bsize
  PROVE  Taken(g, H!With(u, b, bytes))
<1> DEFINE v == H!With(u, b, bytes)
<1>1. DOMAIN v = DOMAIN u \cup {b} /\ v[b] = bytes /\ \A a \in DOMAIN u : v[a] = u[a]
  BY DEF H!With
<1>2. v \in [DOMAIN v -> Nat]
  BY DEF H!With, Taken
<1> HIDE DEF v
<1>3. QED BY <1>1, <1>2 DEF Taken, v

LEMMA WholeSound ==
  ASSUME HeapAssumption, NEW h, NEW u, HeapSound(h, u), NEW b \in FreeIn(h.header), NEW bytes \in Nat,
         4 * (h.header[b].bsize - H!HeadSize) >= bytes
  PROVE  HeapSound(H!Whole(h, b), H!With(u, b, bytes)) /\ b \notin DOMAIN u
<1> DEFINE d == h.header
           g == H!Whole(h, b).header
           e == b + d[b].bsize
<1>1. Headers(d) /\ Listed(d, h.free) /\ Taken(d, u) /\ HeaderTypes(d)
  BY DEF HeapSound, Headers
<1>2. /\ b \in DOMAIN d /\ b \in Placed(d) /\ d[b].bsize \in Int /\ d[b].bsize > 0
      /\ d[b] = [prevfree |-> d[b].prevfree, bsize |-> d[b].bsize] /\ d[b].prevfree \in Nat
      /\ e \in DOMAIN d /\ b # e
  <2>1. b \in Placed(d) /\ Span(d, b) = d[b].bsize
    BY <1>1, FreePlaced
  <2>2. /\ b \in DOMAIN d /\ d[b].bsize \in Int /\ d[b] = [prevfree |-> d[b].prevfree, bsize |-> d[b].bsize]
        /\ d[b].prevfree \in Nat /\ b + Span(d, b) \in DOMAIN d /\ b \in 0..(LastWord - 1)
    BY <1>1, <2>1, BlockFacts
  <2>3. LastWord \in Nat
    BY Ends
  <2>4. d[b].bsize > 0
    BY DEF FreeIn
  <2>5. QED BY <2>1, <2>2, <2>3, <2>4
<1>3. d[e] \in HeaderT
  BY <1>1, <1>2 DEF HeaderTypes
<1>4. PICK n : n = [d EXCEPT ![b].bsize = -@, ![b + d[b].bsize].prevfree = 0]
  OBVIOUS
<1>5. /\ DOMAIN n = DOMAIN d /\ n[b] = [d[b] EXCEPT !.bsize = -@] /\ n[e] = [d[e] EXCEPT !.prevfree = 0]
      /\ \A a \in DOMAIN d \ {b, e} : n[a] = d[a]
      /\ n = [a \in DOMAIN d |-> n[a]]
  BY <1>1, <1>2, <1>4 DEF HeaderTypes
<1>6. n[b] = [prevfree |-> d[b].prevfree, bsize |-> -d[b].bsize]
  BY <1>2, <1>5
<1>7. n[e] = [prevfree |-> 0, bsize |-> d[e].bsize]
  BY <1>3, <1>5 DEF HeaderT
<1>8. n \in [DOMAIN d -> HeaderT]
  <2>1. n[b] \in HeaderT
    BY <1>2, <1>6 DEF HeaderT
  <2>2. n[e] \in HeaderT
    BY <1>3, <1>7 DEF HeaderT
  <2>3. ASSUME NEW a \in DOMAIN d PROVE n[a] \in HeaderT
    BY <1>1, <1>5, <2>1, <2>2 DEF HeaderTypes
  <2>4. QED BY <1>5, <2>3
<1>9. HandedOut(d, n, b)
  BY <1>5, <1>6, <1>7, <1>8 DEF HandedOut
<1>10. Headers(n) /\ FreeIn(n) = FreeIn(d) \ {b}
  BY <1>1, <1>9, HandedOutSound
<1>11. Listed(n, H!Unlink(h.free, b))
  BY <1>1, <1>10, UnlinkFact DEF Listed
<1>12. b \notin DOMAIN u
  BY <1>1 DEF Taken
<1>13. Taken(n, H!With(u, b, bytes))
  <2>1. Placed(n) \ FreeIn(n) = (Placed(d) \ FreeIn(d)) \cup {b}
    BY <1>2, <1>5, <1>10 DEF Placed
  <2>2. \A a \in DOMAIN u : n[a].bsize = d[a].bsize
    BY <1>1, <1>5, <1>7, <1>12 DEF Taken, Placed
  <2>3. 4 * (-n[b].bsize - H!HeadSize) >= bytes
    BY <1>2, <1>6
  <2>4. QED BY <1>1, <1>10, <1>12, <2>1, <2>2, <2>3, TakenMore
<1>14. H!Whole(h, b) = [header |-> n, free |-> H!Unlink(h.free, b)]
  BY <1>4 DEF H!Whole
<1>15. QED BY <1>10, <1>11, <1>12, <1>13, <1>14 DEF HeapSound

LEMMA SplitSound ==
  ASSUME HeapAssumption, NEW h, NEW u, HeapSound(h, u), NEW b \in FreeIn(h.header), NEW bytes \in Nat,
         NEW size \in Nat, 4 * (size - H!HeadSize) >= bytes, size > 0, h.header[b].bsize - size > 0
  PROVE  LET m == b + (h.header[b].bsize - size)
         IN  HeapSound(H!Split(h, b, size), H!With(u, m, bytes)) /\ m \notin DOMAIN u /\ m \in Nat
<1> DEFINE d == h.header
           left == d[b].bsize - size
           m == b + left
           e == b + d[b].bsize
<1>1. Headers(d) /\ Listed(d, h.free) /\ Taken(d, u) /\ HeaderTypes(d) /\ h = [header |-> d, free |-> h.free]
  BY DEF HeapSound, Headers
<1>2. /\ b \in DOMAIN d /\ b \in Placed(d) /\ d[b].bsize \in Int /\ d[b].bsize > 0 /\ b \in Nat
      /\ d[b] = [prevfree |-> d[b].prevfree, bsize |-> d[b].bsize] /\ d[b].prevfree \in Nat
      /\ e \in DOMAIN d /\ b # e
  <2>1. b \in Placed(d) /\ Span(d, b) = d[b].bsize
    BY <1>1, FreePlaced
  <2>2. /\ b \in DOMAIN d /\ d[b].bsize \in Int /\ d[b] = [prevfree |-> d[b].prevfree, bsize |-> d[b].bsize]
        /\ d[b].prevfree \in Nat /\ b + Span(d, b) \in DOMAIN d /\ b \in 0..(LastWord - 1)
    BY <1>1, <2>1, BlockFacts
  <2>3. LastWord \in Nat
    BY Ends
  <2>4. d[b].bsize > 0
    BY DEF FreeIn
  <2>5. QED BY <2>1, <2>2, <2>3, <2>4
<1>3. d[e] \in HeaderT /\ left \in Nat /\ left > 0 /\ left < d[b].bsize /\ m \in Nat /\ b + left + size = e
      /\ left - d[b].bsize = -size /\ b # m /\ e # m
  BY <1>1, <1>2 DEF HeaderTypes
<1>4. PICK n : n = [d EXCEPT ![b].bsize = left, ![b + left + size].prevfree = 0]
  OBVIOUS
<1>5. /\ DOMAIN n = DOMAIN d /\ n[b] = [d[b] EXCEPT !.bsize = left] /\ n[e] = [d[e] EXCEPT !.prevfree = 0]
      /\ \A a \in DOMAIN d \ {b, e} : n[a] = d[a]
  <2>1. n = [d EXCEPT ![b].bsize = left, ![e].prevfree = 0]
    BY <1>3, <1>4
  <2> HIDE DEF e, left
  <2>2. QED BY <1>1, <1>2, <2>1 DEF HeaderTypes
<1>6. PICK g : g = H!With(n, m, [prevfree |-> left, bsize |-> -size])
  OBVIOUS
<1> HIDE DEF e, m, left
<1>7. /\ DOMAIN g = DOMAIN d \cup {m} /\ g[m] = [prevfree |-> left, bsize |-> -size]
      /\ \A a \in DOMAIN d : a # m => g[a] = n[a]
      /\ g = [a \in DOMAIN g |-> g[a]]
  BY <1>5, <1>6 DEF H!With
<1>8. g[b] = [prevfree |-> d[b].prevfree, bsize |-> left]
  <2>1. n[b] = [prevfree |-> d[b].prevfree, bsize |-> left]
    BY <1>2, <1>5
  <2>2. QED BY <1>2, <1>3, <1>7, <2>1
<1>9. g[e] = [prevfree |-> 0, bsize |-> d[e].bsize]
  <2>1. n[e] = [prevfree |-> 0, bsize |-> d[e].bsize]
    BY <1>3, <1>5 DEF HeaderT
  <2>2. QED BY <1>2, <1>3, <1>7, <2>1
<1>10. m \notin DOMAIN d
  <2>1. Layout(d) /\ LastWord \in Nat
    BY <1>1, Ends DEF Headers
  <2>2. Span(d, b) = d[b].bsize
    BY <1>2 DEF Span
  <2>3. QED BY <1>2, <1>3, <2>1, <2>2 DEF Layout, m
<1>11. \A a \in DOMAIN d \ {b, e} : g[a] = d[a]
  BY <1>5, <1>7, <1>10
<1>12. g \in [DOMAIN g -> HeaderT]
  <2>1. g[b] \in HeaderT
    BY <1>2, <1>3, <1>8 DEF HeaderT
  <2>2. g[e] \in HeaderT
    BY <1>3, <1>9 DEF HeaderT
  <2>3. g[m] \in HeaderT
    BY <1>3, <1>7 DEF HeaderT
  <2>4. ASSUME NEW a \in DOMAIN g PROVE g[a] \in HeaderT
    BY <1>1, <1>7, <1>11, <2>1, <2>2, <2>3 DEF HeaderTypes
  <2>5. QED BY <1>7, <2>4
<1>13. CutOff(d, g, b, left)
  BY <1>3, <1>7, <1>8, <1>9, <1>11, <1>12 DEF CutOff, m, e
<1>14. Headers(g) /\ FreeIn(g) = FreeIn(d) /\ m \in Placed(g)
  BY <1>1, <1>3, <1>13, CutOffSound DEF m
<1>15. Listed(g, h.free)
  BY <1>1, <1>14 DEF Listed
<1>16. m \notin DOMAIN u
  BY <1>1, <1>10 DEF Taken, Placed
<1>17. Taken(g, H!With(u, m, bytes))
  <2>1. Placed(g) \ FreeIn(g) = (Placed(d) \ FreeIn(d)) \cup {m}
    BY <1>7, <1>10, <1>14 DEF Placed, FreeIn
  <2>2. \A a \in DOMAIN u : g[a].bsize = d[a].bsize
    BY <1>1, <1>9, <1>11 DEF Taken, Placed
  <2>3. 4 * (-g[m].bsize - H!HeadSize) >= bytes
    BY <1>7
  <2>4. QED BY <1>1, <1>14, <1>16, <2>1, <2>2, <2>3, TakenMore
<1>18. H!Split(h, b, size) = [header |-> g, free |-> h.free]
  <2>1. H!Split(h, b, size) = [h EXCEPT !.header = g]
    BY <1>4, <1>6 DEF H!Split, m, left
  <2>2. QED BY <1>1, <2>1
<1>19. HeapSound(H!Split(h, b, size), H!With(u, m, bytes)) /\ m \notin DOMAIN u /\ m \in Nat
  BY <1>3, <1>14, <1>15, <1>16, <1>17, <1>18 DEF HeapSound
<1>20. QED BY <1>19 DEF m, left

(* bget gives a block of its own that is big enough, or none.                       *)
LEMMA BgetSound ==
  ASSUME HeapAssumption, NEW h, NEW u, HeapSound(h, u), NEW bytes \in Nat
  PROVE  LET r == H!bget(h, bytes)
         IN  /\ r.asserts = TRUE
             /\ r.block = H!Null => r.heap = h
             /\ r.block # H!Null => HeapSound(r.heap, H!With(u, r.block, bytes)) /\ r.block \notin DOMAIN u
<1> DEFINE size == H!Size(bytes)
           b == h.free[H!Best(h, size)]
           d == h.header
           rest == H!Header(h, b).bsize - size
           next == H!Header(h, b + H!Header(h, b).bsize)
<1>1. CASE H!Fits(h, size) = {}
  BY <1>1 DEF H!bget
<1>2. CASE H!Fits(h, size) # {}
  <2>1. size \in Nat /\ size >= 4 /\ 4 * (size - H!HeadSize) >= bytes
    BY SizeFact
  <2>2. H!Best(h, size) \in H!Fits(h, size)
    BY <1>2, <2>1, BestFact
  <2>3. H!Best(h, size) \in DOMAIN h.free /\ H!Header(h, b).bsize >= size
    BY <2>2 DEF H!Fits
  <2> HIDE DEF size
  <2>4. b \in FreeIn(d)
    <3>1. DOMAIN h.free = 1..Len(h.free)
      BY DEF HeapSound, Listed
    <3>2. QED BY <2>3, <3>1 DEF HeapSound, Listed, Contains
  <2> HIDE DEF b
  <2>5. /\ H!Header(h, b) = d[b] /\ d[b].bsize \in Int /\ d[b].bsize > 0 /\ b \in Nat
        /\ next = d[b + d[b].bsize] /\ next.prevfree = d[b].bsize
    <3>1. Headers(d) /\ Tags(d)
      BY DEF HeapSound, Headers
    <3>2. b \in Placed(d) /\ Span(d, b) = d[b].bsize
      BY <2>4, <3>1, FreePlaced
    <3>3. b \in DOMAIN d /\ b + d[b].bsize \in DOMAIN d /\ d[b].bsize \in Int /\ b \in 0..(LastWord - 1)
      BY <3>1, <3>2, BlockFacts
    <3>4. H!Header(h, b) = d[b] /\ next = d[b + d[b].bsize]
      BY <3>3, HeaderFact
    <3>5. d[b + d[b].bsize].prevfree = d[b].bsize /\ d[b].bsize > 0
      BY <2>4, <3>1, <3>2 DEF Tags, FreeIn
    <3>6. LastWord \in Nat
      BY Ends
    <3>7. QED BY <3>3, <3>4, <3>5, <3>6
  <2>6. rest = d[b].bsize - size /\ d[b].bsize >= size /\ rest \in Int
    BY <2>1, <2>3, <2>5
  <2>7. H!bget(h, bytes) = IF rest > H!SizeQ + H!HeadSize
                           THEN [heap |-> H!Split(h, b, size), block |-> b + rest, asserts |-> TRUE]
                           ELSE [heap |-> H!Whole(h, b), block |-> b, asserts |-> TRUE]
    BY <1>2, <2>5 DEF H!bget, b, size
  <2>8. CASE rest > H!SizeQ + H!HeadSize
    <3>1. rest > 0
      BY <2>6, <2>8 DEF H!SizeQ, H!HeadSize
    <3>2. HeapSound(H!Split(h, b, size), H!With(u, b + rest, bytes)) /\ b + rest \notin DOMAIN u
      BY <2>1, <2>4, <2>6, <3>1, SplitSound
    <3>3. b + rest # H!Null
      BY <2>5, <2>6, <3>1 DEF H!Null
    <3>4. QED BY <2>7, <2>8, <3>2, <3>3
  <2>9. CASE ~ (rest > H!SizeQ + H!HeadSize)
    <3>1. 4 * (d[b].bsize - H!HeadSize) >= bytes
      BY <2>1, <2>5, <2>6 DEF H!HeadSize
    <3>2. HeapSound(H!Whole(h, b), H!With(u, b, bytes)) /\ b \notin DOMAIN u
      BY <2>4, <3>1, WholeSound
    <3>3. b # H!Null
      BY <2>5 DEF H!Null
    <3>4. QED BY <2>7, <2>9, <3>2, <3>3
  <2>10. QED BY <2>8, <2>9
<1>3. QED BY <1>1, <1>2

LEMMA TakenLess ==
  ASSUME NEW d, NEW g, NEW u, Taken(d, u), NEW b,
         Placed(g) \ FreeIn(g) = (Placed(d) \ FreeIn(d)) \ {b},
         \A a \in DOMAIN u \ {b} : g[a].bsize = d[a].bsize
  PROVE  Taken(g, H!Without(u, b))
<1> DEFINE v == H!Without(u, b)
<1>1. DOMAIN v = DOMAIN u \ {b} /\ \A a \in DOMAIN u \ {b} : v[a] = u[a]
  BY DEF H!Without, H!Restrict
<1>2. v \in [DOMAIN v -> Nat]
  BY DEF H!Without, H!Restrict, Taken
<1> HIDE DEF v
<1>3. QED BY <1>1, <1>2 DEF Taken, v

(* What is free of the neighbours of a block that is taken back: the whole goes     *)
(* from p to e, and n is the block behind.                                        *)
Around(d, b, p, n, e) ==
  /\ b \in Placed(d) \ FreeIn(d) /\ n = b - d[b].bsize
  /\ p = IF d[b].prevfree = 0 THEN b ELSE b - d[b].prevfree
  /\ e = IF d[n].bsize > 0 THEN n + d[n].bsize ELSE n

LEMMA NeighbourFacts ==
  ASSUME HeapAssumption, NEW d, Headers(d), NEW b, NEW p, NEW n, NEW e, Around(d, b, p, n, e)
  PROVE  /\ b \in DOMAIN d /\ n \in DOMAIN d /\ p \in DOMAIN d /\ e \in DOMAIN d
         /\ b \in Nat /\ n \in Nat /\ p \in Nat /\ e \in Nat /\ p =< b /\ b < n /\ n =< e
         /\ d[b].bsize \in Int /\ d[b].bsize < 0 /\ d[b].prevfree \in Nat /\ n = b - d[b].bsize
         /\ d[n].bsize \in Int /\ d[n].prevfree = 0
         /\ p # b => p \in FreeIn(d) /\ d[p].bsize = d[b].prevfree /\ p + d[p].bsize = b /\ d[b].prevfree # 0
         /\ p = b => d[b].prevfree = 0
         /\ d[p].prevfree = 0
         /\ e # n => n \in FreeIn(d) /\ e = n + d[n].bsize /\ d[e].prevfree = d[n].bsize /\ n < e
         /\ n \in FreeIn(d) => e # n
         /\ d[e].bsize \in Int /\ d[e].bsize < 0 /\ e \notin FreeIn(d)
<1>1. HeaderTypes(d) /\ Layout(d) /\ Tags(d) /\ Merged(d) /\ LastWord \in Nat /\ H!ESent < 0 /\ H!ESent \in Int
  BY Ends DEF Headers
<1>2. b \in Placed(d) /\ b \notin FreeIn(d) /\ n = b - d[b].bsize
  BY DEF Around
<1>3. /\ b \in DOMAIN d /\ b \in 0..(LastWord - 1) /\ Span(d, b) \in Int /\ Span(d, b) > 0 /\ d[b].bsize \in Int
      /\ d[b].prevfree \in Nat /\ d[b].bsize # 0 /\ b + Span(d, b) \in DOMAIN d
  BY <1>2, BlockFacts
<1>4. d[b].bsize < 0 /\ Span(d, b) = -d[b].bsize
  BY <1>2, <1>3 DEF FreeIn, Span
<1>5. n = b + Span(d, b) /\ n \in DOMAIN d /\ b \in Nat /\ b < n
  BY <1>1, <1>2, <1>3, <1>4
<1>6. d[n].prevfree = 0
  <2>1. d[b + Span(d, b)].prevfree = IF d[b].bsize > 0 THEN d[b].bsize ELSE 0
    BY <1>1, <1>2 DEF Tags
  <2>2. ~ (d[b].bsize > 0)
    BY <1>3, <1>4
  <2>3. QED BY <1>5, <2>1, <2>2
<1>7. n \in Nat /\ d[n].bsize \in Int
  BY <1>1, <1>5 DEF HeaderTypes, HeaderT
<1>9. ASSUME d[b].prevfree # 0
      PROVE  /\ p \in FreeIn(d) /\ d[p].bsize = d[b].prevfree /\ p + d[p].bsize = b /\ p < b
             /\ p \in DOMAIN d /\ p \in Nat
  <2>1. b # 0
    BY <1>1, <1>9 DEF Tags
  <2>2. PICK q \in Placed(d) : q + Span(d, q) = b
    BY <1>1, <1>3, <2>1, BehindABlock
  <2>3. /\ q \in DOMAIN d /\ q \in 0..(LastWord - 1) /\ Span(d, q) \in Int /\ Span(d, q) > 0 /\ d[q].bsize \in Int
    BY <2>2, BlockFacts
  <2>4. d[b].prevfree = IF d[q].bsize > 0 THEN d[q].bsize ELSE 0
    BY <1>1, <2>2 DEF Tags
  <2>5. d[q].bsize > 0 /\ d[b].prevfree = d[q].bsize /\ Span(d, q) = d[q].bsize
    BY <1>9, <2>4 DEF Span
  <2>6. q = b - d[b].prevfree
    BY <1>3, <2>2, <2>3, <2>5
  <2>7. q = p
    BY <1>9, <2>6 DEF Around
  <2>8. QED BY <1>1, <1>3, <2>2, <2>3, <2>5, <2>7 DEF FreeIn
<1>10. p \in DOMAIN d /\ p \in Nat /\ p =< b
  BY <1>3, <1>5, <1>9 DEF Around
<1>11. d[p].prevfree = 0
  <2>1. CASE p = b
    <3>1. d[b].prevfree = 0
      BY <1>9, <1>5, <2>1
    <3>2. QED BY <2>1, <3>1
  <2>2. CASE p # b
    <3>1. p \in FreeIn(d) /\ p # LastWord
      BY <1>1, <1>9, <2>2 DEF Around, FreeIn, Layout
    <3>2. p \in Placed(d)
      BY <1>10, <3>1 DEF Placed
    <3>3. SUFFICES ASSUME d[p].prevfree # 0 PROVE FALSE
      OBVIOUS
    <3>4. p # 0
      BY <1>1, <3>3 DEF Tags
    <3>5. PICK q \in Placed(d) : q + Span(d, q) = p
      BY <1>1, <1>10, <3>4, BehindABlock
    <3>6. d[q].bsize > 0 /\ q \in DOMAIN d
      BY <1>1, <3>3, <3>5 DEF Tags, Placed
    <3>7. q \in FreeIn(d) /\ Span(d, q) = d[q].bsize
      BY <3>6 DEF FreeIn, Span
    <3>8. QED BY <1>1, <3>1, <3>5, <3>7 DEF Merged
  <2>3. QED BY <2>1, <2>2
<1>12. ASSUME d[n].bsize > 0
       PROVE  n \in FreeIn(d) /\ e = n + d[n].bsize /\ d[e].prevfree = d[n].bsize /\ n < e /\ e \in DOMAIN d
              /\ e \notin FreeIn(d)
  <2>1. n \in FreeIn(d) /\ e = n + d[n].bsize
    BY <1>5, <1>12 DEF Around, FreeIn
  <2>2. n \in Placed(d) /\ Span(d, n) = d[n].bsize
    BY <2>1, FreePlaced
  <2>3. e \in DOMAIN d
    BY <1>1, <2>1, <2>2 DEF Layout
  <2>4. d[e].prevfree = d[n].bsize
    BY <1>1, <1>12, <2>1, <2>2 DEF Tags
  <2>5. e \notin FreeIn(d)
    BY <1>1, <2>1 DEF Merged
  <2>6. QED BY <1>7, <1>12, <2>1, <2>3, <2>4, <2>5
<1>13. ASSUME ~ (d[n].bsize > 0) PROVE e = n /\ e \notin FreeIn(d)
  BY <1>13 DEF Around, FreeIn
<1>14. e \in DOMAIN d /\ n =< e /\ e \notin FreeIn(d)
  BY <1>5, <1>7, <1>12, <1>13
<1>15. e \in Nat /\ d[e].bsize \in Int /\ d[e].bsize < 0
  <2>1. e \in 0..LastWord /\ d[e].bsize \in Int
    BY <1>1, <1>14 DEF HeaderTypes, HeaderT
  <2>2. e # LastWord => d[e].bsize # 0
    BY <1>14, BlockFacts DEF Placed
  <2>3. QED BY <1>1, <1>14, <2>1, <2>2 DEF Layout, FreeIn
<1>16. /\ p # b => p \in FreeIn(d) /\ d[p].bsize = d[b].prevfree /\ p + d[p].bsize = b /\ d[b].prevfree # 0
       /\ p = b => d[b].prevfree = 0
  BY <1>5, <1>9 DEF Around
<1>17. /\ e # n => n \in FreeIn(d) /\ e = n + d[n].bsize /\ d[e].prevfree = d[n].bsize /\ n < e
       /\ n \in FreeIn(d) => e # n
  BY <1>7, <1>12, <1>13 DEF FreeIn
<1>18. QED BY <1>2, <1>3, <1>4, <1>5, <1>6, <1>7, <1>10, <1>11, <1>14, <1>15, <1>16, <1>17

(* The block at p ends at e now, and the headers gone between are data.             *)
Grown(d, g, p, e, gone) ==
  /\ DOMAIN g = DOMAIN d \ gone /\ g = [a \in DOMAIN g |-> g[a]]
  /\ g[p] = [prevfree |-> d[p].prevfree, bsize |-> e - p]
  /\ \A a \in DOMAIN g \ {p} : g[a] = d[a]

(* A heap in which a block is being taken back.                                     *)
Growing(d, k, p, e, gone) ==
  /\ k = [header |-> k.header, free |-> k.free] /\ Grown(d, k.header, p, e, gone)
  /\ k.free \in Seq(Nat) /\ Distinct(k.free)
  /\ \A a : Contains(k.free, a) <=> a \in (FreeIn(d) \cup {p}) \ gone

LEMMA AssertsHold ==
  ASSUME HeapAssumption, NEW h, NEW u, HeapSound(h, u), NEW b \in DOMAIN u
  PROVE  H!ReleaseAsserts(h, b)
<1> DEFINE d == h.header
<1>1. Headers(d) /\ b \in Placed(d) \ FreeIn(d)
  BY DEF HeapSound, Taken
<1>2. PICK n, p, e : Around(d, b, p, n, e)
  BY <1>1 DEF Around
<1>3. /\ b \in DOMAIN d /\ n \in DOMAIN d /\ p \in DOMAIN d /\ e \in DOMAIN d
      /\ d[b].bsize < 0 /\ n = b - d[b].bsize /\ d[n].prevfree = 0
      /\ p # b => d[p].bsize = d[b].prevfree
      /\ p = b => d[b].prevfree = 0
      /\ e # n => e = n + d[n].bsize /\ d[e].prevfree = d[n].bsize
      /\ n \in FreeIn(d) => e # n
  BY <1>1, <1>2, NeighbourFacts
<1>4. d[b].prevfree # 0 => p = b - d[b].prevfree
  BY <1>2 DEF Around
<1>5. H!Header(h, b) = d[b] /\ H!Header(h, n) = d[n] /\ H!Header(h, p) = d[p] /\ H!Header(h, e) = d[e]
  BY <1>3, HeaderFact
<1>6. d[n].bsize > 0 => n \in FreeIn(d)
  BY <1>3 DEF FreeIn
<1> HIDE DEF d
<1>7. QED BY <1>3, <1>4, <1>5, <1>6 DEF H!ReleaseAsserts

LEMMA MergedPrevious ==
  ASSUME HeapAssumption, NEW h, NEW u, HeapSound(h, u), NEW b \in DOMAIN u, NEW p, NEW n, NEW e,
         Around(h.header, b, p, n, e)
  PROVE  /\ H!MergePrevious(h, b).block = p
         /\ Growing(h.header, H!MergePrevious(h, b).heap, p, n, {b} \ {p})
<1> DEFINE d == h.header
           r == H!MergePrevious(h, b)
           size == -d[b].bsize
<1>1. Headers(d) /\ HeaderTypes(d) /\ Listed(d, h.free) /\ h = [header |-> d, free |-> h.free]
  BY DEF HeapSound, Headers
<1>2. /\ b \in DOMAIN d /\ p \in DOMAIN d /\ b \in Nat /\ n \in Nat /\ p \in Nat
      /\ d[b].bsize \in Int /\ n = b - d[b].bsize /\ d[b].prevfree \in Nat
      /\ p # b => p \in FreeIn(d) /\ d[p].bsize = d[b].prevfree /\ p + d[p].bsize = b /\ d[b].prevfree # 0
      /\ p = b => d[b].prevfree = 0
  BY <1>1, NeighbourFacts
<1>3. H!Header(h, b) = d[b]
  BY <1>2, HeaderFact
<1>4. b \notin FreeIn(d)
  BY DEF Around
<1>5. d[p] \in HeaderT
  BY <1>1, <1>2 DEF HeaderTypes
<1>6. CASE p = b
  <2>1. r = [heap |-> [header |-> [d EXCEPT ![b].bsize = size], free |-> Append(h.free, b)], block |-> b]
    BY <1>2, <1>3, <1>6 DEF H!MergePrevious
  <2>2. PICK g : g = [d EXCEPT ![b].bsize = size]
    OBVIOUS
  <2>3. Grown(d, g, p, n, {b} \ {p})
    <3>1. DOMAIN g = DOMAIN d /\ g = [a \in DOMAIN g |-> g[a]] /\ g[b] = [d[b] EXCEPT !.bsize = size]
          /\ \A a \in DOMAIN d \ {b} : g[a] = d[a]
      BY <1>1, <1>2, <2>2 DEF HeaderTypes
    <3>2. n - p = size
      BY <1>2, <1>6
    <3>3. g[b] = [prevfree |-> d[b].prevfree, bsize |-> size]
      BY <1>5, <1>6, <3>1 DEF HeaderT
    <3>4. QED BY <1>6, <3>1, <3>2, <3>3 DEF Grown
  <2>4. ~ Contains(h.free, b)
    BY <1>1, <1>4 DEF Listed
  <2>5. /\ Append(h.free, b) \in Seq(Nat) /\ Distinct(Append(h.free, b))
        /\ \A a : Contains(Append(h.free, b), a) <=> a \in FreeIn(d) \cup {p}
    BY <1>1, <1>2, <1>6, <2>4, AppendFact DEF Listed
  <2>6. r.block = p /\ r.heap = [header |-> g, free |-> Append(h.free, b)]
    BY <1>6, <2>1, <2>2
  <2> HIDE DEF r
  <2>7. r.heap.header = g /\ r.heap.free = Append(h.free, b)
    BY <2>6
  <2>8. \A a : a \in (FreeIn(d) \cup {p}) \ ({b} \ {p}) <=> a \in FreeIn(d) \cup {p}
    BY <1>4
  <2>9. QED BY <2>3, <2>5, <2>6, <2>7, <2>8 DEF r, Growing
<1>7. CASE p # b
  <2>1. p = b - d[b].prevfree
    BY <1>2, <1>7 DEF Around
  <2>2. r = [heap |-> [header |-> H!Without([d EXCEPT ![p].bsize = @ + size], b), free |-> h.free], block |-> p]
    <3>1. d[b].prevfree # 0
      BY <1>2, <1>7
    <3>2. QED BY <1>3, <2>1, <3>1 DEF H!MergePrevious
  <2>3. PICK m : m = [d EXCEPT ![p].bsize = @ + size]
    OBVIOUS
  <2>4. PICK g : g = H!Without(m, b)
    OBVIOUS
  <2>5. r = [heap |-> [header |-> g, free |-> h.free], block |-> p]
    BY <2>2, <2>3, <2>4, Zenon
  <2>6. /\ DOMAIN m = DOMAIN d /\ m[p] = [d[p] EXCEPT !.bsize = @ + size]
        /\ \A a \in DOMAIN d \ {p} : m[a] = d[a]
    BY <1>1, <1>2, <2>3 DEF HeaderTypes
  <2>7. m[p] = [prevfree |-> d[p].prevfree, bsize |-> d[p].bsize + size] /\ d[p].bsize + size = n - p
    BY <1>2, <1>5, <1>7, <2>6 DEF HeaderT
  <2>8. DOMAIN g = DOMAIN d \ {b} /\ g = [a \in DOMAIN g |-> g[a]] /\ \A a \in DOMAIN d \ {b} : g[a] = m[a]
    BY <2>4, <2>6 DEF H!Without, H!Restrict
  <2>9. Grown(d, g, p, n, {b} \ {p})
    BY <1>2, <1>7, <2>6, <2>7, <2>8 DEF Grown
  <2>10. \A a : Contains(h.free, a) <=> a \in FreeIn(d) \cup {p}
    BY <1>1, <1>2, <1>7 DEF Listed
  <2>11. \A a : a \in (FreeIn(d) \cup {p}) \ ({b} \ {p}) <=> a \in FreeIn(d) \cup {p}
    BY <1>4
  <2>12. r.block = p /\ r.heap = [header |-> g, free |-> h.free]
    BY <2>5
  <2> HIDE DEF r
  <2>13. r.heap.header = g /\ r.heap.free = h.free
    BY <2>12
  <2>14. QED BY <1>1, <2>9, <2>10, <2>11, <2>12, <2>13 DEF Listed, Growing, r
<1>8. QED BY <1>6, <1>7

LEMMA MergedNext ==
  ASSUME HeapAssumption, NEW d, Headers(d), NEW b, NEW p, NEW n, NEW e, Around(d, b, p, n, e),
         NEW k, Growing(d, k, p, n, {b} \ {p})
  PROVE  Growing(d, H!MergeNext(k, p), p, e, ({b} \ {p}) \cup ({n} \ {e}))
<1> DEFINE r == H!MergeNext(k, p)
           c == k.header
<1>0. /\ k = [header |-> k.header, free |-> k.free] /\ Grown(d, c, p, n, {b} \ {p})
      /\ k.free \in Seq(Nat) /\ Distinct(k.free)
      /\ \A a : Contains(k.free, a) <=> a \in (FreeIn(d) \cup {p}) \ ({b} \ {p})
  BY DEF Growing
<1> b \notin FreeIn(d)
  BY DEF Around
<1>1. /\ p \in DOMAIN d /\ b \in DOMAIN d /\ n \in DOMAIN d /\ p \in Nat /\ n \in Nat /\ e \in Nat /\ p < n
      /\ b < n /\ b \in Nat /\ d[n].bsize \in Int
      /\ e # n => n \in FreeIn(d) /\ e = n + d[n].bsize /\ n < e
      /\ n \in FreeIn(d) => e # n
  BY NeighbourFacts
<1>2. /\ DOMAIN c = DOMAIN d \ ({b} \ {p}) /\ c = [a \in DOMAIN c |-> c[a]]
      /\ c[p] = [prevfree |-> d[p].prevfree, bsize |-> n - p] /\ c[n] = d[n]
      /\ p \in DOMAIN c /\ n \in DOMAIN c
  BY <1>0, <1>1 DEF Grown
<1>3. p + c[p].bsize = n /\ H!Header(k, n) = d[n]
  <2>1. c[p].bsize = n - p
    BY <1>2
  <2>2. H!Header(k, n) = c[n]
    BY <1>2, HeaderFact
  <2>3. QED BY <1>1, <1>2, <2>1, <2>2
<1>4. CASE e = n
  <2>1. ~ (d[n].bsize > 0)
    BY <1>1, <1>4 DEF FreeIn
  <2>2. r = k
    BY <1>3, <2>1 DEF H!MergeNext
  <2>3. Grown(d, c, p, e, ({b} \ {p}) \cup ({n} \ {e}))
    BY <1>0, <1>4 DEF Grown
  <2> HIDE DEF r
  <2>4. QED BY <1>0, <1>4, <2>2, <2>3 DEF r, Growing
<1>5. CASE e # n
  <2>1. d[n].bsize > 0
    BY <1>1, <1>5 DEF FreeIn
  <2>2. r = [header |-> H!Without([c EXCEPT ![p].bsize = @ + d[n].bsize], n), free |-> H!Unlink(k.free, n)]
    BY <1>3, <2>1 DEF H!MergeNext
  <2>3. PICK m : m = [c EXCEPT ![p].bsize = @ + d[n].bsize]
    OBVIOUS
  <2>4. PICK g : g = H!Without(m, n)
    OBVIOUS
  <2>5. DOMAIN m = DOMAIN c /\ m[p] = [c[p] EXCEPT !.bsize = @ + d[n].bsize] /\ \A a \in DOMAIN c \ {p} : m[a] = c[a]
    BY <1>2, <2>3
  <2>6. m[p] = [prevfree |-> d[p].prevfree, bsize |-> e - p]
    <3>1. (n - p) + d[n].bsize = e - p
      <4>1. e = n + d[n].bsize
        BY <1>1, <1>5
      <4>2. d[n].bsize \in Int /\ n \in Nat /\ p \in Nat
        BY <1>1
      <4> QED  BY <4>1, <4>2
    <3>2. QED BY <1>2, <2>5, <3>1
  <2>7. DOMAIN g = DOMAIN c \ {n} /\ g = [a \in DOMAIN g |-> g[a]] /\ \A a \in DOMAIN c \ {n} : g[a] = m[a]
    BY <2>4, <2>5 DEF H!Without, H!Restrict
  <2>8. Grown(d, g, p, e, ({b} \ {p}) \cup ({n} \ {e}))
    <3>1. DOMAIN g = DOMAIN d \ (({b} \ {p}) \cup ({n} \ {e}))
      BY <1>2, <1>5, <2>7
    <3>2. g[p] = [prevfree |-> d[p].prevfree, bsize |-> e - p]
      BY <1>1, <1>2, <2>6, <2>7
    <3>3. \A a \in DOMAIN g \ {p} : g[a] = d[a]
      BY <1>0, <1>2, <2>5, <2>7 DEF Grown
    <3>4. QED BY <2>7, <3>1, <3>2, <3>3 DEF Grown
  <2>9. Contains(k.free, n)
    BY <1>0, <1>1, <1>5
  <2>10. /\ H!Unlink(k.free, n) \in Seq(Nat) /\ Distinct(H!Unlink(k.free, n))
         /\ \A a : Contains(H!Unlink(k.free, n), a) <=> a \in (FreeIn(d) \cup {p}) \ (({b} \ {p}) \cup ({n} \ {e}))
    BY <1>0, <1>5, <2>9, UnlinkFact
  <2>11. r = [header |-> g, free |-> H!Unlink(k.free, n)]
    BY <2>2, <2>3, <2>4, Zenon
  <2> HIDE DEF r
  <2>12. r.header = g /\ r.free = H!Unlink(k.free, n)
    BY <2>11
  <2>13. QED BY <2>8, <2>10, <2>11, <2>12 DEF r, Growing
<1>6. QED BY <1>4, <1>5

(* brel takes a block back whose neighbours may be free, and none of its            *)
(* assertions fails.                                                              *)
LEMMA BrelSound ==
  ASSUME HeapAssumption, NEW h, NEW u, HeapSound(h, u), NEW b \in DOMAIN u
  PROVE  /\ H!brel(h, b).asserts = TRUE
         /\ HeapSound(H!brel(h, b).heap, H!Without(u, b))
<1> DEFINE d == h.header
           first == H!MergePrevious(h, b)
           free == H!MergeNext(first.heap, first.block)
<1>1. Headers(d) /\ HeaderTypes(d) /\ Layout(d) /\ Listed(d, h.free) /\ Taken(d, u) /\ b \in Placed(d) \ FreeIn(d)
  BY DEF HeapSound, Taken, Headers
<1>2. PICK n, p, e : Around(d, b, p, n, e)
  BY <1>1 DEF Around
<1>3. /\ b \in DOMAIN d /\ n \in DOMAIN d /\ p \in DOMAIN d /\ e \in DOMAIN d
      /\ b \in Nat /\ n \in Nat /\ p \in Nat /\ e \in Nat /\ p =< b /\ b < n /\ n =< e
      /\ d[b].bsize \in Int /\ d[b].bsize < 0 /\ n = b - d[b].bsize
      /\ p # b => p \in FreeIn(d) /\ p + d[p].bsize = b
      /\ d[p].prevfree = 0
      /\ e # n => n \in FreeIn(d) /\ e = n + d[n].bsize
      /\ n \in FreeIn(d) => e # n
      /\ d[e].bsize \in Int /\ d[e].bsize < 0 /\ e \notin FreeIn(d)
  BY <1>1, <1>2, NeighbourFacts
<1>4. first.block = p /\ Growing(d, first.heap, p, n, {b} \ {p})
  BY <1>2, MergedPrevious
<1>5. free = H!MergeNext(first.heap, p)
  BY <1>4
<1> HIDE DEF first
<1>6. Growing(d, free, p, e, ({b} \ {p}) \cup ({n} \ {e}))
  BY <1>1, <1>2, <1>4, <1>5, MergedNext
<1> HIDE DEF free
<1>7. PICK c : c = free.header
  OBVIOUS
<1>8. /\ DOMAIN c = DOMAIN d \ (({b} \ {p}) \cup ({n} \ {e})) /\ c = [a \in DOMAIN c |-> c[a]]
      /\ c[p] = [prevfree |-> d[p].prevfree, bsize |-> e - p]
      /\ \A a \in DOMAIN c \ {p} : c[a] = d[a]
  BY <1>6, <1>7 DEF Grown, Growing
<1>9. p \in DOMAIN c /\ e \in DOMAIN c /\ p # e /\ c[e] = d[e] /\ c[p].bsize = e - p /\ p + c[p].bsize = e
  <2>1. p \in DOMAIN c /\ e \in DOMAIN c /\ p # e
    BY <1>3, <1>8
  <2>2. c[p].bsize = e - p
    BY <1>8
  <2>3. QED BY <1>3, <1>8, <2>1, <2>2
<1>10. H!Header(free, e) = c[e]
  BY <1>7, <1>9, HeaderFact
<1>11. H!brel(h, b) = [heap |-> [free EXCEPT !.header[e].prevfree = e - p], asserts |-> TRUE]
  <2>1. H!ReleaseAsserts(h, b)
    BY AssertsHold
  <2>2. ~ (H!Header(free, e).bsize >= 0)
    BY <1>3, <1>9, <1>10
  <2>3. H!brel(h, b) = LET size == free.header[p].bsize
                           last == p + size
                       IN IF H!Header(free, last).bsize >= 0
                          THEN [heap |-> free, asserts |-> FALSE]
                          ELSE [heap |-> [free EXCEPT !.header[last].prevfree = size], asserts |-> TRUE]
    BY <1>4, <2>1 DEF H!brel, first, free
  <2>4. QED BY <1>7, <1>9, <2>2, <2>3
<1>12. PICK g : g = [c EXCEPT ![e].prevfree = e - p]
  OBVIOUS
<1>13. [free EXCEPT !.header[e].prevfree = e - p] = [header |-> g, free |-> free.free]
  BY <1>6, <1>7, <1>12 DEF Growing
<1>14. DOMAIN g = DOMAIN c /\ g[e] = [c[e] EXCEPT !.prevfree = e - p] /\ \A a \in DOMAIN c \ {e} : g[a] = c[a]
  BY <1>8, <1>9, <1>12
<1>15. g = [a \in DOMAIN g |-> g[a]]
  BY <1>12
<1>16. g[e] = [prevfree |-> e - p, bsize |-> d[e].bsize]
  <2>1. d[e] \in HeaderT
    BY <1>1, <1>3 DEF HeaderTypes
  <2>2. QED BY <1>9, <1>14, <2>1 DEF HeaderT
<1>17. g[p] = [prevfree |-> d[p].prevfree, bsize |-> e - p]
  BY <1>8, <1>9, <1>14
<1>18. \A a \in DOMAIN g \ {p, e} : g[a] = d[a]
  BY <1>8, <1>14
<1>19. DOMAIN g = {a \in DOMAIN d : a =< p \/ e =< a}
  <2>1. ASSUME NEW a \in DOMAIN d PROVE (a =< p \/ e =< a) <=> a \notin ({b} \ {p}) \cup ({n} \ {e})
    <3>0. LastWord \in Nat /\ a \in Nat
      BY <1>1, Ends DEF HeaderTypes
    <3>1. a =< b \/ n =< a
      <4>1. Span(d, b) = -d[b].bsize
        BY <1>3 DEF Span
      <4>2. b + Span(d, b) = n
        BY <1>3, <4>1
      <4>3. QED BY <1>1, <4>2 DEF Layout
    <3>2. p # b => a =< p \/ b =< a
      <4>1. ASSUME p # b PROVE p \in Placed(d) /\ Span(d, p) = d[p].bsize
        BY <1>1, <1>3, <4>1, FreePlaced
      <4>2. QED BY <1>1, <1>3, <4>1 DEF Layout
    <3>3. e # n => a =< n \/ e =< a
      <4>1. ASSUME e # n PROVE n \in Placed(d) /\ Span(d, n) = d[n].bsize
        BY <1>1, <1>3, <4>1, FreePlaced
      <4>2. QED BY <1>1, <1>3, <4>1 DEF Layout
    <3>4. QED BY <1>3, <3>0, <3>1, <3>2, <3>3
  <2>2. QED BY <1>8, <1>14, <2>1
<1>20. g \in [DOMAIN g -> HeaderT]
  <2>1. g[e] \in HeaderT /\ g[p] \in HeaderT
    BY <1>3, <1>16, <1>17 DEF HeaderT
  <2>2. ASSUME NEW a \in DOMAIN g PROVE g[a] \in HeaderT
    BY <1>1, <1>18, <1>19, <2>1 DEF HeaderTypes
  <2>3. QED BY <1>15, <2>2
<1>21. Joined(d, g, p, e)
  BY <1>16, <1>17, <1>18, <1>19, <1>20 DEF Joined
<1>22. Headers(g) /\ FreeIn(g) = {a \in FreeIn(d) : a < p \/ e < a} \cup {p}
  <2>1. p < e
    BY <1>3
  <2>2. Headers(g) /\ FreeIn(g) = FreeJoined(d, p, e)
    <3>1. Headers(d) /\ p \in DOMAIN d /\ e \in DOMAIN d /\ d[p].prevfree = 0 /\ e \notin FreeIn(d)
      BY <1>1, <1>3
    <3> HIDE DEF d
    <3>2. QED BY <1>21, <2>1, <3>1, JoinedSound
  <2>3. QED BY <2>2 DEF FreeJoined
<1>23. FreeIn(g) = (FreeIn(d) \cup {p}) \ ({n} \ {e})
  <2>1. ASSUME NEW a \in FreeIn(d), a # p PROVE (a < p \/ e < a) <=> a \notin {n} \ {e}
    <3>1. a \in DOMAIN d /\ a \in Nat /\ a # b /\ a # e
      BY <1>1, <1>3, Ends DEF FreeIn, HeaderTypes
    <3>2. (a =< p \/ e =< a) <=> a \notin ({b} \ {p}) \cup ({n} \ {e})
      BY <1>8, <1>14, <1>19, <3>1
    <3>3. QED BY <1>3, <2>1, <3>1, <3>2
  <2>2. p \notin {n} \ {e}
    BY <1>3
  <2>3. QED BY <1>22, <2>1, <2>2
<1>24. Listed(g, free.free)
  <2>1. b \notin FreeIn(d) /\ \A a : a \in (FreeIn(d) \cup {p}) \ (({b} \ {p}) \cup ({n} \ {e})) <=> a \in FreeIn(g)
    BY <1>1, <1>23
  <2>2. QED BY <1>6, <2>1 DEF Listed, Growing
<1>25. Taken(g, H!Without(u, b))
  <2>1. Placed(g) \ FreeIn(g) = (Placed(d) \ FreeIn(d)) \ {b}
    <3>1. Placed(g) = Placed(d) \ (({b} \ {p}) \cup ({n} \ {e}))
      BY <1>8, <1>14 DEF Placed
    <3>2. QED BY <1>3, <1>23, <3>1
  <2>2. \A a \in DOMAIN u \ {b} : g[a].bsize = d[a].bsize
    <3>1. ASSUME NEW a \in DOMAIN u \ {b} PROVE g[a].bsize = d[a].bsize
      <4>1. a \in Placed(d) \ FreeIn(d)
        BY <1>1 DEF Taken
      <4>2. a # p /\ a \in DOMAIN g
        BY <1>3, <1>8, <1>14, <3>1, <4>1 DEF Placed
      <4>3. QED BY <1>16, <1>18, <4>2
    <3>2. QED BY <3>1
  <2>3. QED BY <1>1, <2>1, <2>2, TakenLess
<1>26. HeapSound([header |-> g, free |-> free.free], H!Without(u, b))
  BY <1>22, <1>24, <1>25 DEF HeapSound
<1>27. QED BY <1>11, <1>13, <1>26

LEMMA HeapInit == ASSUME HeapAssumption, H!Init PROVE HeapInv
<1> DEFINE d == heap.header
           z == [prevfree |-> 0, bsize |-> LastWord]
           s == [prevfree |-> LastWord, bsize |-> H!ESent]
<1>1. LastWord \in Nat /\ LastWord > 0 /\ H!ESent \in Int /\ H!ESent < 0
  BY Ends
<1>2. heap = [header |-> [a \in {0, LastWord} |-> IF a = 0 THEN z ELSE s], free |-> <<0>>]
  BY DEF H!Init, H!bpool, LastWord
<1>3. /\ d = [a \in {0, LastWord} |-> IF a = 0 THEN z ELSE s] /\ heap.free = <<0>>
      /\ heap = [header |-> d, free |-> heap.free]
  BY <1>2
<1>4. DOMAIN d = {0, LastWord} /\ d[0] = z /\ d[LastWord] = s
  BY <1>1, <1>3
<1>5. z \in HeaderT /\ s \in HeaderT
  BY <1>1 DEF HeaderT
<1>6. HeaderTypes(d)
  <2>1. DOMAIN d \in SUBSET (0..LastWord)
    BY <1>1, <1>4
  <2>2. d \in [DOMAIN d -> HeaderT]
    BY <1>3, <1>4, <1>5
  <2>3. QED BY <2>1, <2>2 DEF HeaderTypes
<1> HIDE DEF d
<1>7. /\ d[0].bsize = LastWord /\ d[0].prevfree = 0 /\ d[LastWord].bsize = H!ESent
      /\ d[LastWord].prevfree = LastWord
  BY <1>4
<1>8. Placed(d) = {0} /\ FreeIn(d) = {0} /\ Span(d, 0) = LastWord
  BY <1>1, <1>4, <1>7 DEF Placed, FreeIn, Span
<1>9. Layout(d)
  BY <1>1, <1>4, <1>7, <1>8 DEF Layout
<1>10. Tags(d) /\ Merged(d)
  BY <1>1, <1>7, <1>8 DEF Tags, Merged
<1>11. Listed(d, heap.free)
  <2>1. <<0>> \in Seq(Nat) /\ Distinct(<<0>>) /\ \A a : Contains(<<0>>, a) <=> a = 0
    BY DEF Distinct, Contains
  <2>2. QED BY <1>3, <1>8, <2>1 DEF Listed
<1>12. Taken(d, inUse)
  <2>1. inUse = <<>> /\ DOMAIN <<>> = {}
    BY DEF H!Init
  <2>2. QED BY <1>8, <2>1 DEF Taken
<1>13. misused = FALSE
  BY DEF H!Init
<1>14. QED BY <1>3, <1>6, <1>9, <1>10, <1>11, <1>12, <1>13 DEF HeapInv, HeapSound, Headers, d

LEMMA HeapNext ==
  ASSUME HeapAssumption, HeapInv, [H!Next]_(H!vars) PROVE HeapInv'
<1>1. HeapSound(heap, inUse) /\ ~misused
  BY DEF HeapInv
<1>2. CASE UNCHANGED H!vars
  BY <1>1, <1>2 DEF H!vars, HeapInv
<1>3. ASSUME NEW bytes \in Nat, H!Malloc(bytes) PROVE HeapInv'
  <2> DEFINE r == H!bget(heap, bytes)
  <2>1. /\ r.asserts = TRUE
        /\ r.block = H!Null => r.heap = heap
        /\ r.block # H!Null => HeapSound(r.heap, H!With(inUse, r.block, bytes))
    BY <1>1, BgetSound
  <2>2. /\ heap' = r.heap /\ misused' = ~r.asserts
        /\ inUse' = IF r.block = H!Null THEN inUse ELSE H!With(inUse, r.block, bytes)
    BY <1>3 DEF H!Malloc
  <2> HIDE DEF r
  <2>3. HeapSound(heap', inUse')
    BY <1>1, <2>1, <2>2
  <2>4. QED BY <2>1, <2>2, <2>3 DEF HeapInv
<1>4. ASSUME NEW bytes \in Nat, H!Calloc(2, bytes) PROVE HeapInv'
  <2> DEFINE r == H!bget(heap, 2 * bytes)
             rsize == 4 * (-H!Header(r.heap, r.block).bsize - H!HeadSize)
  <2>1. /\ r.asserts = TRUE
        /\ r.block = H!Null => r.heap = heap
        /\ r.block # H!Null => HeapSound(r.heap, H!With(inUse, r.block, 2 * bytes))
    BY <1>1, BgetSound, 2 * bytes \in Nat
  <2>2. /\ heap' = r.heap /\ misused' = ~ (r.asserts /\ (r.block # H!Null => rsize >= 2 * bytes))
        /\ inUse' = IF r.block = H!Null THEN inUse ELSE H!With(inUse, r.block, 2 * bytes)
    BY <1>4 DEF H!Calloc
  <2> HIDE DEF r
  <2>3. HeapSound(heap', inUse')
    BY <1>1, <2>1, <2>2
  <2>4. r.block # H!Null => rsize >= 2 * bytes
    <3> SUFFICES ASSUME r.block # H!Null PROVE rsize >= 2 * bytes
      OBVIOUS
    <3>1. Taken(r.heap.header, H!With(inUse, r.block, 2 * bytes))
      BY <2>1 DEF HeapSound
    <3>2. /\ r.block \in DOMAIN H!With(inUse, r.block, 2 * bytes)
          /\ H!With(inUse, r.block, 2 * bytes)[r.block] = 2 * bytes
      BY DEF H!With
    <3>3. r.block \in DOMAIN r.heap.header /\ 4 * (-r.heap.header[r.block].bsize - H!HeadSize) >= 2 * bytes
      BY <3>1, <3>2 DEF Taken, Placed
    <3>4. QED BY <3>3, HeaderFact
  <2>5. QED BY <2>1, <2>2, <2>3, <2>4 DEF HeapInv
<1>5. ASSUME NEW b \in DOMAIN inUse, H!Free(b) PROVE HeapInv'
  <2>1. H!brel(heap, b).asserts = TRUE /\ HeapSound(H!brel(heap, b).heap, H!Without(inUse, b))
    BY <1>1, BrelSound
  <2>2. QED BY <1>5, <2>1 DEF H!Free, HeapInv
<1>6. ASSUME NEW b \in DOMAIN inUse, NEW bytes \in Nat, H!Realloc(b, bytes) PROVE HeapInv'
  <2> DEFINE r == H!bget(heap, bytes)
             f == H!brel(r.heap, b)
             more == H!With(inUse, r.block, bytes)
  <2>1. /\ r.asserts = TRUE
        /\ r.block = H!Null => r.heap = heap
        /\ r.block # H!Null => HeapSound(r.heap, more) /\ r.block \notin DOMAIN inUse
    BY <1>1, BgetSound
  <2>2. IF r.block = H!Null THEN heap' = r.heap /\ misused' = ~r.asserts /\ UNCHANGED inUse
        ELSE /\ heap' = f.heap /\ misused' = ~f.asserts
             /\ inUse' = H!With(H!Without(inUse, b), r.block, bytes)
    BY <1>6 DEF H!Realloc
  <2> HIDE DEF r
  <2>3. CASE r.block = H!Null
    BY <1>1, <2>1, <2>2, <2>3 DEF HeapInv
  <2>4. CASE r.block # H!Null
    <3>1. b # r.block /\ b \in DOMAIN more
      BY <2>1, <2>4 DEF H!With
    <3>2. f.asserts = TRUE /\ HeapSound(f.heap, H!Without(more, b))
      BY <2>1, <2>4, <3>1, BrelSound
    <3>3. H!Without(more, b) = H!With(H!Without(inUse, b), r.block, bytes)
      <4>1. DOMAIN inUse \cup {r.block} = DOMAIN more
        BY DEF H!With
      <4>2. (DOMAIN inUse \ {b}) \cup {r.block} = DOMAIN more \ {b}
        BY <3>1, <4>1
      <4>3. H!Without(more, b) = [y \in DOMAIN more \ {b} |-> IF y = r.block THEN bytes ELSE inUse[y]]
        BY <4>1 DEF H!Without, H!Restrict, H!With
      <4>4. H!With(H!Without(inUse, b), r.block, bytes)
              = [y \in (DOMAIN inUse \ {b}) \cup {r.block} |-> IF y = r.block THEN bytes ELSE inUse[y]]
        BY DEF H!Without, H!Restrict, H!With
      <4>5. QED BY <4>2, <4>3, <4>4
    <3>4. QED BY <2>2, <2>4, <3>2, <3>3 DEF HeapInv
  <2>5. QED BY <2>3, <2>4
<1>7. QED
  BY <1>2, <1>3, <1>4, <1>5, <1>6 DEF H!Next, HeapAssumption

(* The words of a block. *)
LEMMA WordsFact ==
  ASSUME HeapAssumption, HeapInv
  PROVE  /\ H!FreeBlocks = FreeIn(heap.header) /\ DOMAIN inUse \cup H!FreeBlocks = Placed(heap.header)
         /\ \A b \in Placed(heap.header) : H!Words(b) = b..(b + Span(heap.header, b) - 1)
<1>1. Headers(heap.header) /\ Listed(heap.header, heap.free) /\ Taken(heap.header, inUse)
  BY DEF HeapInv, HeapSound
<1>2. H!FreeBlocks = FreeIn(heap.header)
  <2>1. H!FreeBlocks = ToSet(heap.free)
    BY DEF H!FreeBlocks, H!ToSet, ToSet
  <2>2. QED BY <1>1, <2>1, ToSetFact DEF Listed
<1>3. DOMAIN inUse \cup H!FreeBlocks = Placed(heap.header)
  BY <1>1, <1>2, FreePlaced DEF Taken
<1>4. ASSUME NEW b \in Placed(heap.header) PROVE H!Words(b) = b..(b + Span(heap.header, b) - 1)
  <2>1. b \in DOMAIN heap.header /\ heap.header[b].bsize \in Int
    BY <1>1, BlockFacts
  <2>2. H!Header(heap, b) = heap.header[b] /\ (b \in FreeIn(heap.header) <=> heap.header[b].bsize > 0)
    BY <2>1, HeaderFact DEF FreeIn
  <2>3. (IF b \in H!FreeBlocks THEN 1 ELSE -1) * H!Header(heap, b).bsize = Span(heap.header, b)
    BY <1>2, <2>1, <2>2 DEF Span
  <2>4. QED BY <2>3 DEF H!Words
<1>5. QED BY <1>2, <1>3, <1>4

LEMMA WordsCounted ==
  ASSUME NEW b \in Nat, NEW n \in Nat, n > 0
  PROVE  H!Cardinality(b..(b + n - 1)) = n
<1>1. \A S : H!Cardinality(S) = Cardinality(S)
  BY DEF H!Cardinality, Cardinality
<1>2. QED BY <1>1, FS_Interval

(* The buffers of callers do not overlap one another or what is free, and are as    *)
(* long as was asked for, whatever is allocated, resized and released in whatever   *)
(* order (bget.c:643).                                                            *)
LEMMA KeptApart == ASSUME HeapAssumption, HeapInv PROVE H!BuffersApart
<1> DEFINE d == heap.header
<1>1. Headers(d) /\ Layout(d) /\ Taken(d, inUse) /\ ~misused
  BY DEF HeapInv, HeapSound, Headers
<1>2. ASSUME NEW b \in Placed(d)
      PROVE  b \in Nat /\ Span(d, b) \in Nat /\ Span(d, b) > 0 /\ H!Words(b) = b..(b + Span(d, b) - 1)
  <2>1. b \in 0..(LastWord - 1) /\ Span(d, b) \in Int /\ Span(d, b) > 0
    BY <1>1, BlockFacts
  <2>2. H!Words(b) = b..(b + Span(d, b) - 1) /\ LastWord \in Nat
    BY WordsFact, Ends
  <2>3. QED BY <2>1, <2>2
<1>3. ASSUME NEW b \in DOMAIN inUse PROVE 4 * (H!Cardinality(H!Words(b)) - H!HeadSize) >= inUse[b]
  <2>1. b \in Placed(d) \ FreeIn(d)
    BY <1>1 DEF Taken
  <2>2. H!Cardinality(H!Words(b)) = Span(d, b)
    BY <1>2, <2>1, WordsCounted
  <2>3. Span(d, b) = -d[b].bsize
    BY <2>1 DEF Span, FreeIn, Placed
  <2>4. QED BY <1>1, <2>2, <2>3 DEF Taken
<1>4. ASSUME NEW a \in Placed(d), NEW b \in Placed(d), a # b PROVE H!Words(a) \cap H!Words(b) = {}
  <2>1. b =< a \/ a + Span(d, a) =< b
    BY <1>1 DEF Layout, Placed
  <2>2. a =< b \/ b + Span(d, b) =< a
    BY <1>1 DEF Layout, Placed
  <2>3. a \in Nat /\ b \in Nat /\ Span(d, a) \in Nat /\ Span(d, b) \in Nat
    BY <1>2
  <2>4. (a..(a + Span(d, a) - 1)) \cap (b..(b + Span(d, b) - 1)) = {}
    BY <1>4, <2>1, <2>2, <2>3
  <2>5. QED BY <1>2, <2>4
<1>5. QED BY <1>1, <1>3, <1>4, WordsFact DEF H!BuffersApart

LEMMA AllThere == ASSUME HeapAssumption, HeapInv PROVE H!NothingLost
<1> DEFINE d == heap.header
<1>1. /\ Headers(d) /\ HeaderTypes(d) /\ Layout(d) /\ Merged(d) /\ Listed(d, heap.free)
      /\ LastWord \in Nat /\ LastWord > 0
  BY Ends DEF HeapInv, HeapSound, Headers
<1>2. H!IsInjective(heap.free)
  BY <1>1 DEF H!IsInjective, Listed, Distinct
<1>3. ASSUME NEW b \in Placed(d)
      PROVE  /\ b \in Nat /\ Span(d, b) \in Nat /\ H!Words(b) = b..(b + Span(d, b) - 1)
             /\ b + Span(d, b) =< LastWord
  <2>1. b \in 0..(LastWord - 1) /\ Span(d, b) \in Int /\ Span(d, b) > 0 /\ b + Span(d, b) \in 1..LastWord
    BY <1>1, BlockFacts
  <2>2. H!Words(b) = b..(b + Span(d, b) - 1)
    BY WordsFact
  <2>3. QED BY <1>1, <2>1, <2>2
<1>4. UNION {H!Words(b) : b \in Placed(d)} = 0..(LastWord - 1)
  <2>1. ASSUME NEW b \in Placed(d), NEW w \in H!Words(b) PROVE w \in 0..(LastWord - 1)
    BY <1>1, <1>3
  <2>2. ASSUME NEW w \in 0..(LastWord - 1) PROVE \E b \in Placed(d) : w \in H!Words(b)
    <3>1. PICK b \in Placed(d) : b =< w /\ w < b + Span(d, b)
      BY <1>1, InABlock
    <3>2. w \in b..(b + Span(d, b) - 1)
      BY <1>1, <1>3, <3>1
    <3>3. QED BY <1>3, <3>2
  <2>3. QED BY <2>1, <2>2
<1>5. ASSUME NEW a \in H!FreeBlocks PROVE a + H!Header(heap, a).bsize \notin H!FreeBlocks
  <2>1. a \in FreeIn(d)
    BY WordsFact
  <2>2. H!Header(heap, a) = d[a]
    BY <2>1, HeaderFact DEF FreeIn
  <2>3. QED BY <1>1, <2>1, <2>2, WordsFact DEF Merged
<1>6. QED BY <1>2, <1>4, <1>5, WordsFact DEF H!NothingLost, LastWord

-----------------------------------------------------------------------------
(* A step of Memory is a step of one part, and the others stay as they are.          *)
LEMMA HeapRuns == MemorySpec => H!Spec
<1>1. MemoryInit => H!Init
  BY DEF MemoryInit
<1>2. [MemoryNext]_memoryVars => [H!Next]_(H!vars)
  BY DEF MemoryNext, PageStep, HeapStep, BitsStep, memoryVars, heapVars, H!vars
<1> QED  BY <1>1, <1>2, PTL DEF MemorySpec, H!Spec

LEMMA HeapAlways == H!Spec => []HeapInv
<1>1. HeapAssumption
  BY HeapAssumption
<1>2. H!Init => HeapInv
  BY <1>1, HeapInit
<1>3. HeapInv /\ [H!Next]_(H!vars) => HeapInv'
  BY <1>1, HeapNext
<1> QED  BY <1>2, <1>3, PTL DEF H!Spec

(* The buffers of callers do not overlap one another or what is free, and are as    *)
(* long as was asked for, whatever is allocated, resized and released in whatever   *)
(* order; no assertion of the allocator fails (bget.c:643, 879).                   *)
THEOREM BuffersStayApart == MemorySpec => []BuffersApart
<1>1. HeapInv => BuffersApart
  BY HeapAssumption, KeptApart DEF BuffersApart
<1> QED  BY <1>1, HeapRuns, HeapAlways, PTL

(* Every word of the pool is in one block, free neighbours are one block, and the   *)
(* free list has each free block once (bget.c:879).                               *)
THEOREM NoWordIsLost == MemorySpec => []NothingLost
<1>1. HeapInv => NothingLost
  BY HeapAssumption, AllThere DEF NothingLost
<1> QED  BY <1>1, HeapRuns, HeapAlways, PTL

-----------------------------------------------------------------------------
(* The positions of the bits, spare ones included, and who has which: what is set *)
(* is what somebody has taken, and nobody has it twice.                          *)
Positions == 0..(8 * BS!NumBytes - 1)
BitsInv ==
  /\ bitSet \in [0..(BS!NumBytes - 1) -> SUBSET BS!ByteBits]
  /\ taken \in [Owners -> SUBSET Positions]
  /\ \A pos \in Positions : BS!Is_Bit_Set(pos) <=> \E o \in Owners : pos \in taken[o]
  /\ \A o, p \in Owners : o # p => taken[o] \cap taken[p] = {}

(* A position is a byte and a bit in it.                                          *)
LEMMA BytesFact ==
  ASSUME BitsAssumption
  PROVE  /\ BS!NumBytes \in Nat /\ BS!NumBytes > 0 /\ TotalBits =< 8 * BS!NumBytes
         /\ \A pos \in Positions : /\ pos \in Nat /\ pos \div 8 \in 0..(BS!NumBytes - 1)
                                   /\ pos % 8 \in BS!ByteBits /\ pos = 8 * (pos \div 8) + (pos % 8)
         /\ \A offset \in 0..(BS!NumBytes - 1), bit \in BS!ByteBits :
              /\ 8 * offset + bit \in Positions
              /\ (8 * offset + bit) \div 8 = offset /\ (8 * offset + bit) % 8 = bit
<1>1. BS!NumBytes \in Nat /\ BS!NumBytes > 0 /\ TotalBits =< 8 * BS!NumBytes
  BY DEF BitsAssumption, BS!NumBytes
<1>2. PICK n \in Nat : n = BS!NumBytes
  BY <1>1
<1>3. ASSUME NEW pos \in 0..(8 * n - 1)
      PROVE  pos \in Nat /\ pos \div 8 \in 0..(n - 1) /\ pos % 8 \in 0..7 /\ pos = 8 * (pos \div 8) + (pos % 8)
  <2>1. pos \in Int /\ 0 =< pos /\ pos < 8 * n
    OBVIOUS
  <2>2. pos \div 8 \in Int /\ pos % 8 \in 0..7
    BY <2>1
  <2>3. pos = 8 * (pos \div 8) + (pos % 8)
    BY <2>1
  <2>4. pos \div 8 \in 0..(n - 1)
    BY <2>1, <2>2, <2>3
  <2>5. QED BY <2>1, <2>2, <2>3, <2>4
<1>4. ASSUME NEW offset \in 0..(n - 1), NEW bit \in 0..7
      PROVE  8 * offset + bit \in 0..(8 * n - 1) /\ (8 * offset + bit) \div 8 = offset /\ (8 * offset + bit) % 8 = bit
  <2>1. PICK w \in Nat : w = 8 * offset + bit
    OBVIOUS
  <2>2. w \div 8 = offset /\ w % 8 = bit
    BY <2>1
  <2>3. w \in 0..(8 * n - 1)
    BY <2>1
  <2>4. QED BY <2>1, <2>2, <2>3
<1>5. QED BY <1>1, <1>2, <1>3, <1>4 DEF Positions, BS!ByteBits

LEMMA BitMin ==
  ASSUME NEW S \in SUBSET Nat, S # {}
  PROVE  BS!Min(S) \in S /\ \A y \in S : BS!Min(S) =< y
  BY LeastFact DEF BS!Min

LEMMA BitsAtFact ==
  ASSUME BitsAssumption, NEW run \in SUBSET Positions, NEW offset \in 0..(BS!NumBytes - 1)
  PROVE  /\ BS!BitsAt(run, offset) \subseteq BS!ByteBits
         /\ \A bit \in BS!ByteBits : bit \in BS!BitsAt(run, offset) <=> 8 * offset + bit \in run
<1>1. ASSUME NEW bit PROVE bit \in BS!BitsAt(run, offset) <=> \E pos \in run : pos \div 8 = offset /\ bit = pos % 8
  BY DEF BS!BitsAt
<1>2. ASSUME NEW pos \in run, pos \div 8 = offset PROVE pos % 8 \in BS!ByteBits /\ pos = 8 * offset + (pos % 8)
  BY <1>2, BytesFact
<1>3. ASSUME NEW bit \in BS!ByteBits, 8 * offset + bit \in run
      PROVE  \E pos \in run : pos \div 8 = offset /\ bit = pos % 8
  BY <1>3, BytesFact
<1>4. QED BY <1>1, <1>2, <1>3

(* Bits are set and cleared, and no others.                                        *)
LEMMA BitsSet ==
  ASSUME BitsAssumption, BitsInv, NEW run \in SUBSET Positions, BS!Set_Bit(run)
  PROVE  /\ bitSet' \in [0..(BS!NumBytes - 1) -> SUBSET BS!ByteBits]
         /\ \A pos \in Positions : BS!Is_Bit_Set(pos)' <=> BS!Is_Bit_Set(pos) \/ pos \in run
<1> USE BytesFact
<1>1. ASSUME NEW offset \in 0..(BS!NumBytes - 1)
      PROVE  /\ BS!BitsAt(run, offset) \subseteq BS!ByteBits
             /\ \A bit \in BS!ByteBits : bit \in BS!BitsAt(run, offset) <=> 8 * offset + bit \in run
  BY BitsAtFact
<1>2. /\ DOMAIN bitSet = 0..(BS!NumBytes - 1)
      /\ bitSet' = [offset \in 0..(BS!NumBytes - 1) |-> bitSet[offset] \cup BS!BitsAt(run, offset)]
  BY DEF BitsInv, BS!Set_Bit
<1>3. bitSet' \in [0..(BS!NumBytes - 1) -> SUBSET BS!ByteBits]
  BY <1>1, <1>2 DEF BitsInv
<1>4. ASSUME NEW pos \in Positions PROVE BS!Is_Bit_Set(pos)' <=> BS!Is_Bit_Set(pos) \/ pos \in run
  <2>1. PICK offset \in 0..(BS!NumBytes - 1), bit \in BS!ByteBits :
          offset = pos \div 8 /\ bit = pos % 8 /\ pos = 8 * offset + bit
    OBVIOUS
  <2>2. bit \in BS!BitsAt(run, offset) <=> pos \in run
    <3>1. bit \in BS!BitsAt(run, offset) <=> 8 * offset + bit \in run
      BY <1>1, Zenon
    <3>2. pos = 8 * offset + bit
      BY <2>1, Zenon
    <3>3. QED BY <3>1, <3>2, Zenon
  <2>3. bitSet'[offset] = bitSet[offset] \cup BS!BitsAt(run, offset)
    BY <1>2
  <2>4. QED BY <2>1, <2>2, <2>3 DEF BS!Is_Bit_Set
<1>5. QED BY <1>3, <1>4

LEMMA BitsCleared ==
  ASSUME BitsAssumption, BitsInv, NEW run \in SUBSET Positions, BS!Clear_Bit(run)
  PROVE  /\ bitSet' \in [0..(BS!NumBytes - 1) -> SUBSET BS!ByteBits]
         /\ \A pos \in Positions : BS!Is_Bit_Set(pos)' <=> BS!Is_Bit_Set(pos) /\ pos \notin run
<1> USE BytesFact
<1>1. ASSUME NEW offset \in 0..(BS!NumBytes - 1), NEW bit \in BS!ByteBits
      PROVE  bit \in BS!BitsAt(run, offset) <=> 8 * offset + bit \in run
  BY BitsAtFact
<1>2. /\ DOMAIN bitSet = 0..(BS!NumBytes - 1)
      /\ bitSet' = [offset \in 0..(BS!NumBytes - 1) |-> bitSet[offset] \ BS!BitsAt(run, offset)]
  BY DEF BitsInv, BS!Clear_Bit
<1>3. bitSet' \in [0..(BS!NumBytes - 1) -> SUBSET BS!ByteBits]
  BY <1>2 DEF BitsInv
<1>4. ASSUME NEW pos \in Positions PROVE BS!Is_Bit_Set(pos)' <=> BS!Is_Bit_Set(pos) /\ pos \notin run
  <2>1. PICK offset \in 0..(BS!NumBytes - 1), bit \in BS!ByteBits :
          offset = pos \div 8 /\ bit = pos % 8 /\ pos = 8 * offset + bit
    OBVIOUS
  <2>2. bit \in BS!BitsAt(run, offset) <=> pos \in run
    <3>1. bit \in BS!BitsAt(run, offset) <=> 8 * offset + bit \in run
      BY <1>1, ZenonT(40)
    <3>2. pos = 8 * offset + bit
      BY <2>1, Zenon
    <3>3. QED BY <3>1, <3>2, Zenon
  <2>3. bitSet'[offset] = bitSet[offset] \ BS!BitsAt(run, offset)
    BY <1>2
  <2>4. QED BY <2>1, <2>2, <2>3 DEF BS!Is_Bit_Set
<1>5. QED BY <1>3, <1>4

(* What the searches find is free (bitset.c:64, 84).                                *)
LEMMA FreeBitFound ==
  ASSUME BitsAssumption, BitsInv, BS!Find_First_Free_Bit # -1
  PROVE  BS!Find_First_Free_Bit \in Positions /\ ~BS!Is_Bit_Set(BS!Find_First_Free_Bit)
<1> DEFINE offsets == {offset \in DOMAIN bitSet : bitSet[offset] # BS!ByteBits}
<1>1. offsets \subseteq Nat /\ offsets \subseteq 0..(BS!NumBytes - 1) /\ offsets # {}
  BY BytesFact DEF BitsInv, BS!Find_First_Free_Bit
<1>2. PICK offset \in offsets : offset = BS!Min(offsets)
  BY <1>1, BitMin
<1>3. BS!Find_First_Free_Bit = offset * 8 + BS!Min(BS!ByteBits \ bitSet[offset])
  BY <1>1, <1>2 DEF BS!Find_First_Free_Bit
<1>4. offset \in 0..(BS!NumBytes - 1) /\ bitSet[offset] \subseteq BS!ByteBits /\ bitSet[offset] # BS!ByteBits
  BY <1>1, <1>2 DEF BitsInv
<1> HIDE DEF offsets
<1>5. PICK bit \in BS!ByteBits \ bitSet[offset] : bit = BS!Min(BS!ByteBits \ bitSet[offset])
  BY <1>4, BitMin DEF BS!ByteBits
<1>6. BS!Find_First_Free_Bit = 8 * offset + bit
  BY <1>3, <1>4, <1>5, BytesFact DEF BS!ByteBits
<1>7. QED BY <1>4, <1>5, <1>6, BytesFact DEF BS!Is_Bit_Set

LEMMA FreeRunFound ==
  ASSUME BitsAssumption, BitsInv, NEW length \in Lengths, BS!Find_First_N_Free(length) # -1
  PROVE  \E first \in Nat : /\ first = BS!Find_First_N_Free(length)
                            /\ first..(first + length - 1) \subseteq Positions
                            /\ \A pos \in first..(first + length - 1) : ~BS!Is_Bit_Set(pos)
<1> DEFINE found == {i \in 0..(TotalBits - length - 1) :
                       ~BS!Is_Bit_Set(i) /\ \A j \in 1..(length - 1) : ~BS!Is_Bit_Set(i + j)}
<1>1. length \in 1..TotalBits /\ TotalBits \in Nat
  BY DEF BitsAssumption
<1>2. found # {} /\ found \subseteq Nat /\ BS!Find_First_N_Free(length) = BS!Min(found)
  BY DEF BS!Find_First_N_Free
<1>3. PICK first \in found : first = BS!Find_First_N_Free(length)
  BY <1>2, BitMin
<1>4. first \in 0..(TotalBits - length - 1) /\ ~BS!Is_Bit_Set(first) /\ \A j \in 1..(length - 1) : ~BS!Is_Bit_Set(first + j)
  BY <1>3
<1> HIDE DEF found
<1>5. ASSUME NEW pos \in first..(first + length - 1) PROVE pos \in Positions /\ ~BS!Is_Bit_Set(pos)
  <2>1. pos \in Positions
    BY <1>1, <1>4, BytesFact DEF Positions
  <2>2. pos = first \/ (pos - first \in 1..(length - 1) /\ first + (pos - first) = pos)
    BY <1>1, <1>4
  <2>3. QED BY <1>4, <2>1, <2>2
<1>6. QED BY <1>3, <1>4, <1>5

(* Bits that are free are taken, those of an owner are given back.                   *)
LEMMA RunTaken ==
  ASSUME BitsAssumption, BitsInv, NEW o \in Owners, NEW run \in SUBSET Positions,
         \A pos \in run : ~BS!Is_Bit_Set(pos),
         taken[o] = {}, BS!Set_Bit(run), taken' = [taken EXCEPT ![o] = run]
  PROVE  BitsInv'
<1>1. /\ bitSet' \in [0..(BS!NumBytes - 1) -> SUBSET BS!ByteBits]
      /\ \A pos \in Positions : BS!Is_Bit_Set(pos)' <=> BS!Is_Bit_Set(pos) \/ pos \in run
  BY BitsSet
<1>2. /\ taken' \in [Owners -> SUBSET Positions] /\ taken'[o] = run
      /\ \A p \in Owners \ {o} : taken'[p] = taken[p]
  BY DEF BitsInv
<1>3. \A p \in Owners : taken[p] \cap run = {}
  BY DEF BitsInv
<1>4. ASSUME NEW pos \in Positions PROVE BS!Is_Bit_Set(pos)' <=> \E p \in Owners : pos \in taken'[p]
  BY <1>1, <1>2 DEF BitsInv
<1>5. ASSUME NEW p \in Owners, NEW q \in Owners, p # q PROVE taken'[p] \cap taken'[q] = {}
  BY <1>2, <1>3, <1>5 DEF BitsInv
<1>6. Positions' = Positions /\ BS!NumBytes' = BS!NumBytes
  BY DEF Positions, BS!NumBytes
<1>7. QED BY <1>1, <1>2, <1>4, <1>5, <1>6 DEF BitsInv, BS!ByteBits

LEMMA BitsInit == ASSUME BitsAssumption, BS!Init PROVE BitsInv
<1>1. bitSet = [offset \in 0..(BS!NumBytes - 1) |-> {}] /\ taken = [o \in Owners |-> {}]
  BY DEF BS!Init, BS!Create_Bit_Set
<1>2. ASSUME NEW pos \in Positions PROVE ~BS!Is_Bit_Set(pos)
  BY <1>1, BytesFact DEF BS!Is_Bit_Set
<1>3. QED BY <1>1, <1>2 DEF BitsInv

LEMMA BitsNext == ASSUME BitsAssumption, BitsInv, [BS!Next]_(BS!vars) PROVE BitsInv'
<1>1. ASSUME NEW o \in Owners, BS!TakeBit(o) PROVE BitsInv'
  <2>1. PICK first \in Positions : first = BS!Find_First_Free_Bit /\ ~BS!Is_Bit_Set(first)
    BY <1>1, FreeBitFound DEF BS!TakeBit, BS!TakeRun
  <2>2. first..(first + 1 - 1) = {first}
    <3>1. first \in Nat
      BY BytesFact
    <3>2. QED BY <3>1
  <2>3. taken[o] = {} /\ BS!Set_Bit({first}) /\ taken' = [taken EXCEPT ![o] = {first}]
    BY <1>1, <2>1, <2>2 DEF BS!TakeBit, BS!TakeRun
  <2>4. QED BY <2>1, <2>3, RunTaken
<1>2. ASSUME NEW o \in Owners, NEW length \in Lengths, BS!TakeRun(o, BS!Find_First_N_Free(length), length)
      PROVE  BitsInv'
  <2>1. PICK first \in Nat : /\ first = BS!Find_First_N_Free(length)
                             /\ first..(first + length - 1) \subseteq Positions
                             /\ \A pos \in first..(first + length - 1) : ~BS!Is_Bit_Set(pos)
    BY <1>2, FreeRunFound DEF BS!TakeRun
  <2>2. PICK run \in SUBSET Positions : run = first..(first + length - 1)
    BY <2>1
  <2>3. taken[o] = {} /\ BS!Set_Bit(run) /\ taken' = [taken EXCEPT ![o] = run]
    BY <1>2, <2>1, <2>2 DEF BS!TakeRun
  <2>4. QED BY <2>1, <2>2, <2>3, RunTaken
<1>3. ASSUME NEW o \in Owners, BS!GiveBack(o) PROVE BitsInv'
  <2>1. taken[o] \in SUBSET Positions
    BY DEF BitsInv
  <2>2. /\ bitSet' \in [0..(BS!NumBytes - 1) -> SUBSET BS!ByteBits]
        /\ \A pos \in Positions : BS!Is_Bit_Set(pos)' <=> BS!Is_Bit_Set(pos) /\ pos \notin taken[o]
    BY <1>3, <2>1, BitsCleared DEF BS!GiveBack
  <2>3. /\ taken' \in [Owners -> SUBSET Positions] /\ taken'[o] = {}
        /\ \A p \in Owners \ {o} : taken'[p] = taken[p]
    BY <1>3 DEF BitsInv, BS!GiveBack
  <2>4. ASSUME NEW pos \in Positions PROVE BS!Is_Bit_Set(pos)' <=> \E p \in Owners : pos \in taken'[p]
    BY <2>2, <2>3 DEF BitsInv
  <2>5. ASSUME NEW p \in Owners, NEW q \in Owners, p # q PROVE taken'[p] \cap taken'[q] = {}
    BY <2>3, <2>5 DEF BitsInv
  <2>6. QED BY <2>2, <2>3, <2>4, <2>5 DEF BitsInv, Positions, BS!NumBytes, BS!ByteBits
<1>4. ASSUME UNCHANGED BS!vars PROVE BitsInv'
  BY <1>4 DEF BS!vars, BitsInv, Positions, BS!NumBytes, BS!ByteBits, BS!Is_Bit_Set
<1>5. QED BY <1>1, <1>2, <1>3, <1>4 DEF BS!Next, BS!TakeBits

(* The bits counted as free are those nobody has.                                    *)
LEMMA BitsCounted ==
  ASSUME BitsAssumption, BitsInv
  PROVE  BS!Get_Count_Of_ALL_Free_Bit + BS!Cardinality(UNION {taken[o] : o \in Owners}) = 8 * BS!NumBytes
<1> DEFINE all    == UNION {taken[o] : o \in Owners}
           spares == {spare \in (DOMAIN bitSet) \X BS!ByteBits : spare[2] \notin bitSet[spare[1]]}
           place  == [pos \in Positions \ all |-> <<pos \div 8, pos % 8>>]
<1>1. \A S : BS!Cardinality(S) = Cardinality(S)
  BY DEF BS!Cardinality, Cardinality
<1>2. IsFiniteSet(Positions) /\ Cardinality(Positions) = 8 * BS!NumBytes
  <2>1. PICK n \in Nat \ {0} : n = 8 * BS!NumBytes
    BY BytesFact
  <2>2. IsFiniteSet(0..(n - 1)) /\ Cardinality(0..(n - 1)) = n
    BY FS_Interval
  <2>3. QED BY <2>1, <2>2 DEF Positions
<1>3. all \subseteq Positions /\ DOMAIN bitSet = 0..(BS!NumBytes - 1)
  BY DEF BitsInv
<1>4. \A pos \in Positions : pos \in Positions \ all <=> ~BS!Is_Bit_Set(pos)
  BY DEF BitsInv
<1>5. place \in Bijection(Positions \ all, spares)
  <2>1. ASSUME NEW pos \in Positions \ all PROVE place[pos] \in spares
    BY <1>3, <1>4, BytesFact DEF BS!Is_Bit_Set
  <2>2. ASSUME NEW a \in Positions \ all, NEW b \in Positions \ all, place[a] = place[b] PROVE a = b
    <3>1. a \div 8 = b \div 8 /\ a % 8 = b % 8
      BY <2>2
    <3>2. a = 8 * (a \div 8) + (a % 8) /\ b = 8 * (b \div 8) + (b % 8)
      BY BytesFact
    <3>3. QED BY <3>1, <3>2
  <2>3. ASSUME NEW spare \in spares PROVE \E pos \in Positions \ all : place[pos] = spare
    <3>1. PICK offset \in 0..(BS!NumBytes - 1), bit \in BS!ByteBits :
            spare = <<offset, bit>> /\ bit \notin bitSet[offset]
      BY <1>3
    <3>2. PICK pos \in Positions : pos \div 8 = offset /\ pos % 8 = bit
      BY BytesFact
    <3>3. pos \in Positions \ all
      BY <1>4, <3>1, <3>2 DEF BS!Is_Bit_Set
    <3>4. QED BY <3>1, <3>2, <3>3
  <2> HIDE DEF all, spares
  <2>4. place \in [Positions \ all -> spares]
    BY <2>1
  <2>5. place \in Injection(Positions \ all, spares)
    BY <2>2, <2>4 DEF Injection, IsInjective
  <2>6. place \in Surjection(Positions \ all, spares)
    BY <2>3, <2>4 DEF Surjection
  <2>7. QED BY <2>5, <2>6 DEF Bijection
<1>6. IsFiniteSet(all) /\ IsFiniteSet(Positions \ all)
  BY <1>2, <1>3, FS_Subset
<1>7. Cardinality(spares) = Cardinality(Positions \ all)
  <2> HIDE DEF all, spares, place
  <2>1. ExistsBijection(Positions \ all, spares)
    BY <1>5 DEF ExistsBijection
  <2>2. QED BY <1>6, <2>1, FS_Bijection
<1>8. Cardinality(Positions) = Cardinality(Positions \ all) + Cardinality(all)
  <2> HIDE DEF all
  <2>1. (Positions \ all) \cup all = Positions /\ (Positions \ all) \cap all = {}
    BY <1>3
  <2>2. Cardinality({}) = 0
    BY FS_EmptySet
  <2>3. Cardinality((Positions \ all) \cup all) = Cardinality(Positions \ all) + Cardinality(all) - Cardinality((Positions \ all) \cap all)
    BY <1>6, FS_Union
  <2>4. Cardinality(Positions \ all) \in Nat /\ Cardinality(all) \in Nat
    BY <1>6, FS_CardinalityType
  <2>5. Cardinality(Positions) = Cardinality(Positions \ all) + Cardinality(all) - 0
    BY <2>1, <2>2, <2>3, Zenon
  <2>6. QED BY <2>4, <2>5
<1>9. BS!Get_Count_Of_ALL_Free_Bit = Cardinality(spares)
  BY <1>1 DEF BS!Get_Count_Of_ALL_Free_Bit
<1>10. QED
  <2> HIDE DEF all, spares, place
  <2>1. Cardinality(Positions \ all) + Cardinality(all) = 8 * BS!NumBytes
    BY <1>2, <1>8
  <2>2. BS!Get_Count_Of_ALL_Free_Bit + BS!Cardinality(all) = 8 * BS!NumBytes
    BY <1>1, <1>7, <1>9, <2>1
  <2>3. QED BY <2>2 DEF all

LEMMA OwnersApart == ASSUME BitsAssumption, BitsInv PROVE BS!BitsApart
<1>1. {pos \in Positions : BS!Is_Bit_Set(pos)} = UNION {taken[o] : o \in Owners}
  BY DEF BitsInv
<1>2. QED BY <1>1, BitsCounted DEF BitsInv, BS!BitsApart, Positions

LEMMA BitsRun == MemorySpec => BS!Spec
<1>1. MemoryInit => BS!Init
  BY DEF MemoryInit
<1>2. [MemoryNext]_memoryVars => [BS!Next]_(BS!vars)
  BY DEF MemoryNext, PageStep, HeapStep, BitsStep, memoryVars, bitVars, BS!vars
<1> QED  BY <1>1, <1>2, PTL DEF MemorySpec, BS!Spec

LEMMA BitsAlways == BS!Spec => []BitsInv
<1>1. BitsAssumption
  BY BitsAssumption
<1>2. BS!Init => BitsInv
  BY <1>1, BitsInit
<1>3. BitsInv /\ [BS!Next]_(BS!vars) => BitsInv'
  BY <1>1, BitsNext
<1> QED  BY <1>2, <1>3, PTL DEF BS!Spec

(* However bits and runs of them are taken and given back, no bit of a set has two   *)
(* owners, the bits that are set are those somebody has, and the count of the free  *)
(* ones is the rest (bitset.c:64, 84, 106).                                        *)
THEOREM BitsHaveOneOwner == MemorySpec => []BitsApart
<1>1. BitsInv => BitsApart
  BY BitsAssumption, OwnersApart DEF BitsApart
<1> QED  BY <1>1, BitsRun, BitsAlways, PTL
=============================================================================
