-------------------------------- MODULE GOSFS --------------------------------
(***************************************************************************)
(* The file system GOSFS: a bitmap of the blocks in use in block 0, the     *)
(* root directory in block 1, and directories of one block each.           *)
(*                                                                         *)
(* Processes run the operations at once.  A step is what one process does  *)
(* between taking a buffer of the cache (module BufCache) and taking the   *)
(* next: only a held buffer keeps others out.  The buffer of block 0 is     *)
(* held by the mount for ever.  A file has the block it was created with   *)
(* and no data: reading and writing are not implemented.                   *)
(***************************************************************************)
EXTENDS Integers, Sequences, FiniteSets, FiniteSetsExt, TLC

CONSTANTS
  Procs, Writers,   (* processes; those that create and delete, and do no more *)
  Names,            (* names of files and directories                        *)
  NumBlocks, NumEntries, (* blocks of the disk, entries of a directory        *)
  ByteBits,         (* bits of a byte of the bitmap                          *)
  MaxPath,          (* bound: components of a path                           *)
  NoName, Nobody, Mounted

ASSUME GOSFSAssumption ==
  /\ Writers \subseteq Procs /\ {Nobody, Mounted} \cap Procs = {} /\ Nobody # Mounted
  /\ NoName \notin Names \cup {".", ".."} /\ {".", ".."} \cap Names = {}
  /\ NumBlocks \in Nat /\ NumBlocks > 2 /\ NumEntries \in Nat /\ NumEntries > 2
  /\ ByteBits \in Nat \ {0} /\ MaxPath \in Nat

Super   == 0
Root    == 1
Blocks  == 0..(NumBlocks - 1)
Offsets == 0..(NumEntries - 1)
PrevDir == 1                     (* the entry of a directory that is ".."     *)
Full    == -1                    (* no entry of the directory is free         *)

VARIABLES
  dir,      (* the entries of each block                                     *)
  bitmap,   (* the blocks whose bit is set                                   *)
  held,     (* who has the buffer of a block                                 *)
  job,      (* what each process is doing                                    *)
  dentry,   (* the directory entry a process works in, and its block then     *)
  broken    (* an assertion failed or the next access is undefined           *)

vars == <<dir, bitmap, held, job, dentry, broken>>

Paths == UNION {[1..n -> Names \cup {".", ".."}] : n \in 0..MaxPath}

Entry(name, kind, block) == [name |-> name, kind |-> kind, block |-> block]
Free   == Entry(NoName, "free", 0)
Junk   == Entry(NoName, "junk", 0)    (* flags that are neither free nor valid *)
Zeroed == [i \in Offsets |-> Free]

(* A directory as it is created.                                              *)
NewDirectory(self, parent) ==
  [Zeroed EXCEPT ![0] = Entry(".", "dir", self), ![1] = Entry("..", "dir", parent)]

Idle == [path |-> <<>>, base |-> 0, offset |-> 0, name |-> NoName,
         found |-> "no", stage |-> "idle", block |-> 0]

(* The mount keeps the buffer of the superblock.                               *)
MountBuffers == [b \in Blocks |-> IF b = Super THEN Mounted ELSE Nobody]

(* The disk as Format leaves it: the entries of the root directory behind "."   *)
(* and ".." are written as they are found on its stack.                        *)
Init ==
  /\ \E rest \in [2..(NumEntries - 1) -> {Free, Junk}] :
       dir = [b \in Blocks |->
                IF b = Root
                THEN [i \in Offsets |-> IF i < 2 THEN NewDirectory(Root, Root)[i] ELSE rest[i]]
                ELSE Zeroed]
  /\ bitmap = {Super, Root}
  /\ held = MountBuffers
  /\ job = [p \in Procs |-> Idle]
  /\ dentry = [p \in Procs |-> [base |-> Super, offset |-> 0, block |-> Root]]
  /\ broken = FALSE

-----------------------------------------------------------------------------
(* Do_GOSFS_Lookup *)

(* The entry a component names: only the last may name a file.                 *)
Matches(b, name, last) ==
  {i \in Offsets : /\ dir[b][i].name = name
                   /\ dir[b][i].kind = "dir" \/ (last /\ dir[b][i].kind = "file")}

(* Mutant of FirstFree: a directory's entry counts as free.                    *)
FirstUnused(b) ==
  LET free == {i \in 2..(NumEntries - 1) : dir[b][i].kind \notin {"file", "junk"}}
  IN IF free = {} THEN Full ELSE Min(free)

FirstFree(b) ==
  LET free == {i \in Offsets : dir[b][i].kind = "free"}
  IN IF free = {} THEN Full ELSE Min(free)

(* What a process does next when it is at the end of its path.                 *)
Onward(path) == IF path = <<>> THEN "looked" ELSE "walk"

(* Get_FS_Buffer waits for a block; nothing else does.                         *)
Available(b) == b \in Blocks /\ held[b] = Nobody

Goto(p, next) == job' = [job EXCEPT ![p] = next]
                 /\ UNCHANGED <<dir, bitmap, held, dentry, broken>>

Break == broken' = TRUE /\ UNCHANGED <<dir, bitmap, held, job, dentry>>

(* An operation begins with its path; which it is shows when the path is looked *)
(* up.  The path "/" is found at once, as entry 0 of the superblock.            *)
Start(p) ==
  /\ job[p].stage = "idle"
  /\ \E path \in Paths :
       Goto(p, [Idle EXCEPT !.path = path, !.stage = Onward(path), !.found = "yes",
                            !.base = IF path = <<>> THEN Super ELSE Root])

(* KASSERT(base != 0).                                                         *)
AssertBase(p) == job[p].stage = "walk" /\ job[p].base = Super /\ Break

(* A component is searched in the directory base.  The block is always read:    *)
(* after a failed transfer (gosfs.c:289) the lookup answers as for a name that  *)
(* is missing, and a creation would then use a place in the directory that      *)
(* nobody has set.                                                             *)
Missing(p) ==
  LET j == job[p] IN
  /\ j.stage = "walk" /\ j.base # Super /\ Available(j.base)
  /\ Matches(j.base, Head(j.path), Len(j.path) = 1) = {}
  /\ Goto(p, IF Len(j.path) = 1
             THEN [j EXCEPT !.offset = FirstFree(j.base), !.name = Head(j.path), !.path = <<>>,
                            !.found = "no", !.stage = "looked"]
             ELSE [Idle EXCEPT !.found = "wrong path", !.stage = "looked"])

(* The entry's block is read after the buffer was released.                    *)
Found(p) ==
  LET j == job[p]
      m == Matches(j.base, Head(j.path), Len(j.path) = 1)
  IN
  /\ j.stage = "walk" /\ j.base # Super /\ Available(j.base)
  /\ m # {} /\ Min(m) # PrevDir
  /\ Goto(p, [j EXCEPT !.offset = Min(m), !.path = Tail(j.path),
                       !.stage = IF Len(j.path) = 1 THEN "looked" ELSE "descend"])

Descend(p) ==
  LET j == job[p] IN
  /\ j.stage = "descend"
  /\ Goto(p, [j EXCEPT !.base = dir[j.base][j.offset].block, !.offset = 0, !.stage = "walk"])

(* "..": the parent is named by its entry in its own parent.                   *)
FoundParent(p) ==
  LET j == job[p]
      m == Matches(j.base, Head(j.path), Len(j.path) = 1)
  IN
  /\ j.stage = "walk" /\ j.base # Super /\ Available(j.base)
  /\ m # {} /\ Min(m) = PrevDir
  /\ Goto(p, [j EXCEPT !.block = dir[j.base][PrevDir].block, !.path = Tail(j.path), !.stage = "up"])

Grandparent(p) ==
  LET j == job[p] IN
  /\ j.stage = "up" /\ Available(j.block)
  /\ Goto(p, [j EXCEPT !.base = dir[j.block][PrevDir].block, !.stage = "name"])

EntriesOf(b, block) == {i \in Offsets : dir[b][i].block = block}

(* Without an entry, or with a base that was cleared, the search runs on       *)
(* through memory.                                                             *)
NameParent(p) ==
  LET j == job[p] IN
  /\ j.stage = "name"
  /\ IF j.base = Super \/ EntriesOf(j.base, j.block) = {} THEN Break
     ELSE /\ Available(j.base)
          /\ Goto(p, IF j.path = <<>>
                     THEN [j EXCEPT !.offset = Min(EntriesOf(j.base, j.block)), !.block = 0,
                                    !.stage = "looked"]
                     ELSE [j EXCEPT !.base = j.block, !.block = 0, !.stage = "walk"])

Lookup(p) == AssertBase(p) \/ Missing(p) \/ Found(p) \/ Descend(p)
             \/ FoundParent(p) \/ Grandparent(p) \/ NameParent(p)

-----------------------------------------------------------------------------
(* The operations, once the path is looked up *)

(* Writers create and delete, the others look.                                 *)
ReadOps  == {"stat", "chdir", "readdir", "open"}
WriteOps == {"create", "mkdir", "delete"}

Looked(p, ops) == job[p].stage = "looked" /\ ops \cap (IF p \in Writers THEN WriteOps ELSE ReadOps) # {}

End(p) == Goto(p, Idle)

(* The entry of a pointer: the instance's own for the superblock.              *)
At(base, offset) == IF base = Super THEN Entry(NoName, "dir", Root) ELSE dir[base][offset]
Reachable(base)  == base = Super \/ Available(base)

(* A path whose last component is missing ends every operation but creation    *)
(* and opening, a wrong path all of them.                                      *)
NotFound(p) ==
  /\ \/ Looked(p, {"stat", "chdir", "readdir", "delete"}) /\ job[p].found # "yes"
     \/ Looked(p, {"mkdir"}) /\ job[p].found # "no"
  /\ End(p)

(* GOSFS_Open then releases a buffer it never took.                            *)
OpenWrongPath(p) == Looked(p, {"open", "create"}) /\ job[p].found = "wrong path" /\ Break

(* GOSFS_Stat, and GOSFS_Open of what exists or, without O_CREATE, of the free *)
(* entry: the entry is read under its buffer.                                  *)
ReadEntry(p) ==
  LET j == job[p] IN
  /\ \/ Looked(p, {"stat"}) /\ j.found = "yes" /\ Reachable(j.base)
     \/ Looked(p, {"open"}) /\ j.found # "wrong path" /\ Available(j.base)
     \/ Looked(p, {"create"}) /\ j.found = "yes" /\ Available(j.base)
  /\ End(p)

(* GOSFS_Open_Directory, and a first GOSFS_Read_Entry.                         *)
OpenDirectory(p) ==
  LET j == job[p] IN
  /\ Looked(p, {"readdir"}) /\ j.found = "yes" /\ Reachable(j.base)
  /\ IF At(j.base, j.offset).kind # "dir" THEN End(p) ELSE Goto(p, [j EXCEPT !.stage = "list"])

ListDirectory(p) ==
  LET j == job[p] IN
  /\ j.stage = "list" /\ Reachable(j.base)
  /\ Goto(p, [j EXCEPT !.block = At(j.base, j.offset).block, !.stage = "read"])

ReadDirectory(p) == job[p].stage = "read" /\ Available(job[p].block) /\ End(p)

(* GOSFS_Lookup, for a change of the working directory.                        *)
ChangeDirectory(p) ==
  LET j == job[p] IN
  /\ Looked(p, {"chdir"}) /\ j.found = "yes"
  /\ dentry' = [dentry EXCEPT ![p] = [base |-> j.base, offset |-> j.offset,
                                      block |-> At(j.base, j.offset).block]]
  /\ job' = [job EXCEPT ![p] = Idle]
  /\ UNCHANGED <<dir, bitmap, held, broken>>

(* The bits searched: the disk's blocks, rounded up to bytes.                  *)
FreeBits == (0..(((NumBlocks + ByteBits - 1) \div ByteBits) * ByteBits - 1)) \ bitmap

(* The entry is written, with the first block that is free.                    *)
FillEntry(p, op, kind) ==
  LET j == job[p] IN
  /\ Looked(p, {op}) /\ j.found = "no" /\ Available(j.base)
  /\ IF j.offset = Full \/ FreeBits = {} THEN Break
     ELSE /\ dir' = [dir EXCEPT ![j.base][j.offset] = Entry(j.name, kind, Min(FreeBits))]
          /\ held' = [held EXCEPT ![j.base] = p]
          /\ job' = [job EXCEPT ![p].block = Min(FreeBits), ![p].stage = "mark"]
          /\ UNCHANGED <<bitmap, dentry, broken>>

CreateFile(p)      == FillEntry(p, "create", "file")
CreateDirectory(p) == FillEntry(p, "mkdir", "dir")

(* Its bit is set, the cache synced, and the buffer released.                  *)
MarkBlock(p) ==
  LET j == job[p] IN
  /\ j.stage = "mark"
  /\ bitmap' = bitmap \cup {j.block}
  /\ held' = [held EXCEPT ![j.base] = Nobody]
  /\ job' = [job EXCEPT ![p] = IF dir[j.base][j.offset].kind = "dir"
                              THEN [Idle EXCEPT !.base = j.base, !.block = j.block, !.stage = "fill"]
                              ELSE Idle]
  /\ UNCHANGED <<dir, dentry, broken>>

(* Mutant of FillDirectory: ".." names the new directory.                      *)
FillOrphan(p) ==
  LET j == job[p] IN
  /\ j.stage = "fill" /\ Available(j.block)
  /\ dir' = [dir EXCEPT ![j.block] = NewDirectory(j.block, j.block)]
  /\ job' = [job EXCEPT ![p] = Idle]
  /\ UNCHANGED <<bitmap, held, dentry, broken>>

(* The new directory's block.  A block that is not on the disk cannot be read. *)
FillDirectory(p) ==
  LET j == job[p] IN
  /\ j.stage = "fill" /\ (Available(j.block) \/ j.block \notin Blocks)
  /\ dir' = IF j.block \in Blocks
            THEN [dir EXCEPT ![j.block] = NewDirectory(j.block, j.base)] ELSE dir
  /\ job' = [job EXCEPT ![p] = Idle]
  /\ UNCHANGED <<bitmap, held, dentry, broken>>

(* GOSFS_Delete takes the buffer of the entry ...                              *)
TakeEntry(p) ==
  LET j == job[p] IN
  /\ Looked(p, {"delete"}) /\ j.found = "yes" /\ Available(j.base)
  /\ held' = [held EXCEPT ![j.base] = p]
  /\ job' = [job EXCEPT ![p].block = dir[j.base][j.offset].block,
                        ![p].stage = IF dir[j.base][j.offset].kind = "dir" THEN "empty?" ELSE "clear"]
  /\ UNCHANGED <<dir, bitmap, dentry, broken>>

(* ... refuses a directory that is not empty ...                               *)
CheckEmpty(p) ==
  LET j == job[p]
      empty == \A i \in Offsets : i >= 2 => dir[j.block][i].kind = "free"
  IN
  /\ j.stage = "empty?"
  /\ IF j.block = Super THEN Break
     ELSE /\ Available(j.block)
          /\ held' = IF empty THEN held ELSE [held EXCEPT ![j.base] = Nobody]
          /\ job' = [job EXCEPT ![p] = IF empty THEN [@ EXCEPT !.stage = "clear"] ELSE Idle]
          /\ UNCHANGED <<dir, bitmap, dentry, broken>>

(* ... clears the bit ...                                                      *)
ClearBit(p) ==
  LET j == job[p] IN
  /\ j.stage = "clear"
  /\ bitmap' = bitmap \ {j.block}
  /\ job' = [job EXCEPT ![p].stage = "erase"]
  /\ UNCHANGED <<dir, held, dentry, broken>>

(* Mutant of EraseEntry: the block keeps the entries of the directory.          *)
EraseEntryOnly(p) ==
  LET j == job[p] IN
  /\ j.stage = "erase" /\ Available(j.block)
  /\ dir' = [dir EXCEPT ![j.base][j.offset] = Free]
  /\ held' = [held EXCEPT ![j.base] = Nobody]
  /\ job' = [job EXCEPT ![p] = Idle]
  /\ UNCHANGED <<bitmap, dentry, broken>>

(* ... and fills block and entry with zeros.  When the block cannot be read     *)
(* it returns with the first buffer in use and the bit cleared.                *)
EraseEntry(p) ==
  LET j == job[p] IN
  /\ j.stage = "erase" /\ (Available(j.block) \/ j.block \notin Blocks)
  /\ IF j.block \in Blocks
     THEN /\ dir' = [dir EXCEPT ![j.block] = Zeroed, ![j.base][j.offset] = Free]
          /\ held' = [held EXCEPT ![j.base] = Nobody]
     ELSE UNCHANGED <<dir, held>>
  /\ job' = [job EXCEPT ![p] = Idle]
  /\ UNCHANGED <<bitmap, dentry, broken>>

Operation(p) == NotFound(p) \/ OpenWrongPath(p) \/ ReadEntry(p) \/ OpenDirectory(p) \/ ListDirectory(p)
                \/ ReadDirectory(p) \/ ChangeDirectory(p) \/ CreateFile(p)
                \/ CreateDirectory(p) \/ MarkBlock(p)
                \/ FillDirectory(p) \/ TakeEntry(p) \/ CheckEmpty(p) \/ ClearBit(p) \/ EraseEntry(p)

Next == ~broken /\ \E p \in Procs : Start(p) \/ Lookup(p) \/ Operation(p)

Spec == Init /\ [][Next]_vars

-----------------------------------------------------------------------------
(* Properties *)

TypeOK ==
  /\ dir \in [Blocks -> [Offsets -> [name : Names \cup {".", "..", NoName},
                                    kind : {"free", "junk", "file", "dir"}, block : Nat]]]
  /\ bitmap \subseteq Nat
  /\ held \in [Blocks -> Procs \cup {Nobody, Mounted}]
  /\ dentry \in [Procs -> [base : Nat, offset : Offsets, block : Nat]]
  /\ broken \in BOOLEAN

InUse == {e \in Blocks \X (2..(NumEntries - 1)) : dir[e[1]][e[2]].kind \in {"file", "dir"}}
BlockOf(e) == dir[e[1]][e[2]].block

(* No operation is between writing an entry and writing what it points to.     *)
Quiet == \A p \in Procs : job[p].stage \notin {"mark", "fill", "erase"}

(* However files and directories were created and deleted, the bitmap has      *)
(* exactly the blocks that the superblock, the root directory and one entry    *)
(* each use: no block is lost and none is in two entries (gosfs.c:452, 720).    *)
BlocksAccounted ==
  Quiet => /\ bitmap = {Super, Root} \cup {BlockOf(e) : e \in InUse}
           /\ \A e, f \in InUse : BlockOf(e) = BlockOf(f) => e = f

(* The entries form a tree: the block of a directory's entry names itself and  *)
(* the directory of the entry, names in a directory differ, and no block that   *)
(* is not a directory has entries (gosfs.c:555, 730).                           *)
TreeSound ==
  Quiet =>
    LET dirs == {e \in InUse : dir[e[1]][e[2]].kind = "dir"} IN
    /\ \A e \in dirs : \A i \in {0, PrevDir} :
         dir[BlockOf(e)][i] = NewDirectory(BlockOf(e), e[1])[i]
    /\ \A e, f \in InUse : e[1] = f[1] /\ e # f => dir[e[1]][e[2]].name # dir[f[1]][f[2]].name
    /\ \A b \in Blocks \ ({Root} \cup {BlockOf(e) : e \in dirs}) : dir[b] = Zeroed

(* GOSFS_Get_Path: the names on the way up from a block.                        *)
ClimbFrom(block) ==
  LET up[n \in 0..NumBlocks] ==
        [b \in Blocks |->
           LET parent == dir[b][PrevDir].block IN
           IF n = 0 \/ parent = b THEN <<>>
           ELSE IF parent = Super \/ EntriesOf(parent, b) = {} THEN <<NoName>>
           ELSE Append(up[n - 1][parent], dir[parent][Min(EntriesOf(parent, b))].name)]
  IN up[NumBlocks][block]

GetPath(base, offset) ==
  LET e == At(base, offset) IN
  IF e.block = Root THEN <<>>
  ELSE IF e.name = ".." THEN ClimbFrom(dir[base][PrevDir].block)
  ELSE IF e.name = "." THEN ClimbFrom(dir[base][0].block)
  ELSE Append(ClimbFrom(base), e.name)

(* The block a path leads to from the root directory.                           *)
Leads(path) ==
  LET to[n \in 0..Len(path)] ==
        IF n = 0 THEN Root
        ELSE LET m == Matches(to[n - 1], path[n], TRUE) IN
             IF m = {} THEN Super ELSE dir[to[n - 1]][Min(m)].block
  IN to[Len(path)]

(* As long as the directory a process works in exists, the path that is shown  *)
(* for it leads to it, whether it was reached by its name, by "." or by ".."    *)
(* (gosfs.c:331, 823).                                                          *)
CwdNamed ==
  \A p \in Procs :
    LET d == dentry[p] IN
    At(d.base, d.offset) \in [name : Names \cup {".", "..", NoName}, kind : {"dir"}, block : {d.block}]
      => Leads(GetPath(d.base, d.offset)) = d.block
=============================================================================
