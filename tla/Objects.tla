------------------------------- MODULE Objects -------------------------------
(***************************************************************************)
(* What processes share and what the kernel keeps for them, side by side:  *)
(* semaphores (SemTable), files and mounts (VFS), the files of a PFAT file  *)
(* system (PFAT), user contexts (Process), the keys pressed (Keyboard), and *)
(* the line that is typed with them (LineEditor).  The parts do not touch   *)
(* each other's state: a behaviour is one of a single part, chosen at the   *)
(* start.                                                                 *)
(***************************************************************************)
EXTENDS SemTable

CONSTANTS
  Users, UserShell,                (* VFS: the processes, and the first of them *)
  Devs, RootDev, PageFiles, Prefixes, RootPrefix,
  NumFds, ClearedFds, MaxFiles, MaxDentries, None,
  Threads, Files, First, Size, Fat, EndOfFile,                          (* PFAT *)
  Junk, NoOne, NoFile, Freed,
  Programs, ProgramShell,         (* Process: the processes, and the first      *)
  Kernel, Reaper, NumDescriptors, NumFrames,
  Readers, QUEUE_SIZE, MaxKeys, Shifts,                             (* Keyboard *)
  Letters, Lines, Blank, Nul,                                     (* LineEditor *)
  BufSize, Boundary, ClearedTo, NumCols, HISTORY_SIZE

VARIABLES
  part,
  inUse, disk, mounts, pager, prefix, cwd, dentries, fds, files, call, alive, broken,
  objects, listLock, open, reader, result, ruined,
  current, at, child, exe, context, threadPage, owner, refs, gdt, freeFrames,
  pages, graveyard, dying, cpu, crashed,
  shiftState, ring, head, tail, keys, waitQueue, keyReader, got,
  lineBuf, lineLen, lineRow, lineCol, history, slipped, lost

V == INSTANCE VFS WITH Procs <- Users, Shell <- UserShell
P == INSTANCE PFAT
U == INSTANCE Process WITH Procs <- Programs, Shell <- ProgramShell, NumEntries <- NumDescriptors
K == INSTANCE Keyboard WITH queue <- ring, reader <- keyReader
L == INSTANCE LineEditor WITH Programs <- Lines, buf <- lineBuf, n <- lineLen, row <- lineRow, col <- lineCol

ASSUME FilesAssumption ==
  /\ UserShell \in Users /\ RootDev \in Devs /\ None \notin Devs /\ RootPrefix \in Prefixes
  /\ NumFds \in Nat /\ MaxFiles \in Nat

(* The FAT leads from a block of a file to the next one, or there is none.        *)
ASSUME PfatAssumption ==
  /\ Size \in [Files -> Nat] /\ NoOne \notin Threads /\ EndOfFile \notin DOMAIN Fat
  /\ First \in [Files -> DOMAIN Fat \cup {EndOfFile}]
  /\ Fat \in [DOMAIN Fat -> DOMAIN Fat \cup {EndOfFile}]

(* The shell has a descriptor and two page frames when the machine has started.   *)
ASSUME ProgramsAssumption ==
  /\ IsFiniteSet(Programs) /\ ProgramShell \in Programs
  /\ Kernel # Reaper /\ {Kernel, Reaper, None} \cap Programs = {}
  /\ NumDescriptors \in Nat \ {0} /\ NumFrames \in Nat /\ NumFrames >= 2

ASSUME KeyboardAssumption == QUEUE_SIZE \in Nat \ {0}

(* The commands the shell runs fit in the array a line is typed into.             *)
ASSUME LineAssumption ==
  /\ Lines \subseteq Seq(Letters) /\ \A command \in Lines : Len(command) <= BufSize
  /\ BufSize \in Nat /\ Boundary \in Nat /\ HISTORY_SIZE \in Nat \ {0}

vfsVars  == <<inUse, disk, mounts, pager, prefix, cwd, dentries, fds, files, call, alive, broken>>
pfatVars == <<objects, listLock, open, reader, result, ruined>>
processVars == <<current, at, child, exe, context, threadPage, owner, refs, gdt, freeFrames,
                 pages, graveyard, dying, cpu, crashed>>
keyboardVars == <<shiftState, ring, head, tail, keys, waitQueue, keyReader, got>>
lineVars == <<lineBuf, lineLen, lineRow, lineCol, history, slipped, lost>>
objectsVars == <<part, vars, vfsVars, pfatVars, processVars, keyboardVars, lineVars>>

ObjectsInit == /\ part \in {"semaphores", "files", "pfat", "processes", "keyboard", "line"}
               /\ Init /\ V!Init /\ P!Init /\ U!Init /\ K!Init /\ L!Init

SemaphoreStep == /\ part = "semaphores" /\ Next
                 /\ UNCHANGED <<part, vfsVars, pfatVars, processVars, keyboardVars, lineVars>>
FileStep      == /\ part = "files" /\ V!Next
                 /\ UNCHANGED <<part, vars, pfatVars, processVars, keyboardVars, lineVars>>
PfatStep      == /\ part = "pfat" /\ P!Next
                 /\ UNCHANGED <<part, vars, vfsVars, processVars, keyboardVars, lineVars>>
ProcessStep   == /\ part = "processes" /\ U!Next
                 /\ UNCHANGED <<part, vars, vfsVars, pfatVars, keyboardVars, lineVars>>
KeyStep       == /\ part = "keyboard" /\ K!Next
                 /\ UNCHANGED <<part, vars, vfsVars, pfatVars, processVars, lineVars>>
LineStep      == /\ part = "line" /\ L!Next
                 /\ UNCHANGED <<part, vars, vfsVars, pfatVars, processVars, keyboardVars>>

ObjectsNext == SemaphoreStep \/ FileStep \/ PfatStep \/ ProcessStep \/ KeyStep
               \/ LineStep

ObjectsSpec == ObjectsInit /\ [][ObjectsNext]_objectsVars

(* A device in use has one user, a mount or a call that mounts or formats, and an *)
(* open file one entry of one table (vfs.c:303, 344, syscall.c:342).             *)
OneUserEach == V!OneUserEach
(* A process runs on its own page directory, descriptor and stack, and a kernel  *)
(* thread on none that is given to another (lowlevel.asm:400, user.c:152).       *)
RunsOnItsOwn == U!RunsOnItsOwn
(* A reader gets the blocks of the file it opened from its position to the end   *)
(* it asked for (pfat.c:155).                                                   *)
ReadsTheFile == P!ReadsTheFile
(* A file has one object, and each of its blocks is fetched once (pfat.c:338).    *)
FetchedOnce == P!FetchedOnce
(* The key codes that found room in the ring reach the readers, once and in      *)
(* order, and nobody sleeps beside one (keyboard.c:144, 259, 338).              *)
KeysReachReaders == K!KeysReachReaders
(* A key edits the line at the cursor, and the arrows recall the last commands   *)
(* (conio.c:101, history.c:29).                                               *)
EditsAsAsked == [][part = "line" => L!EditsTheLine]_lineVars
=============================================================================
