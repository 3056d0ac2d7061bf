--------------------------------- MODULE VFS ---------------------------------
(***************************************************************************)
(* The virtual file system: mount points and the devices they keep open,    *)
(* the paging file a mount may bring, the working directories and the files *)
(* that processes have open, and the system calls on them.                  *)
(*                                                                         *)
(* A system call runs with interrupts enabled while it is in the file       *)
(* system: its steps are separated by the lock of the mount list, by that   *)
(* of the device list and by disk transfers.  What a file system finds is    *)
(* left open here; modules GOSFS and PFAT say it.                           *)
(***************************************************************************)
EXTENDS Integers, Sequences, FiniteSets, FiniteSetsExt

CONSTANTS
  Procs, Shell,         (* processes, and the one that init starts            *)
  Devs, RootDev,        (* block devices, and the one mounted at start-up      *)
  PageFiles,            (* devices whose PFAT root directory has a paging file *)
  Prefixes, RootPrefix, (* where file systems are mounted                      *)
  NumFds, ClearedFds,   (* entries of a file table, and those a new one clears *)
  MaxFiles,             (* bound: File objects at a time                      *)
  MaxDentries,          (* dentry objects at a time, one more than Procs      *)
  None

Null  == 0      (* entries of a file table that are no file                   *)
Wild  == -1
Fds   == 1..NumFds

VARIABLES
  inUse,      (* the devices that are in use                                   *)
  disk,       (* the file system on each device                                *)
  mounts,     (* s_mountPointList                                              *)
  pager,      (* the device of s_pagingDevice                                  *)
  prefix,     (* what pwd.pathPrefix of every process points to                *)
  cwd,        (* pwd.dentry of each process: a dentry object                   *)
  dentries,   (* the dentry objects: their file system, or "freed"             *)
  fds,        (* fileList of each process                                      *)
  files,      (* the File objects: "file" or "gosfs directory", or NoObject    *)
  call,       (* the system call of each process                               *)
  alive,      (* the processes there are                                       *)
  broken      (* an assertion failed or the next access is undefined           *)

tables == <<inUse, disk, mounts, pager>>
dirs   == <<prefix, cwd, dentries>>
open   == <<fds, files>>
vars == <<tables, dirs, open, call, alive, broken>>

NoObject == "none"
NoCall == [at |-> "user", dev |-> None, fs |-> None, prefix |-> None]

(* Main has mounted the root file system, made it the working directory and     *)
(* started the shell.                                                           *)
Init ==
  /\ inUse = {RootDev}
  /\ disk \in [Devs -> {"pfat", "gosfs", "nothing"}] /\ disk[RootDev] = "pfat"
  /\ mounts = <<[prefix |-> RootPrefix, fs |-> "pfat", dev |-> RootDev]>>
  /\ pager \in {IF RootDev \in PageFiles THEN RootDev ELSE None}
  /\ prefix = RootPrefix
  /\ cwd = [p \in Procs |-> IF p = Shell THEN 1 ELSE 0]
  /\ dentries = [i \in 1..MaxDentries |-> IF i = 1 THEN "pfat" ELSE "freed"]
  /\ fds = [p \in Procs |-> [fd \in Fds |-> Null]]
  /\ files = [f \in 1..MaxFiles |-> NoObject]
  /\ call = [p \in Procs |-> NoCall]
  /\ alive = {Shell}
  /\ broken = FALSE

At(p, where)   == p \in alive /\ call[p].at = where
Goto(p, where) == call' = [call EXCEPT ![p].at = where]
Return(p)      == call' = [call EXCEPT ![p] = NoCall]
Enter(p, new) == At(p, "user") /\ call' = [call EXCEPT ![p] = new]

Break == broken' = TRUE /\ UNCHANGED <<tables, dirs, open, call, alive>>

-----------------------------------------------------------------------------
(* Mount and Format *)

(* An unknown file system, and Format of one that cannot, end at once.          *)
EnterMount(p) ==
  /\ \E d \in Devs, x \in Prefixes, fs \in {"pfat", "gosfs"} :
       Enter(p, [at |-> "mount: open", dev |-> d, prefix |-> x, fs |-> fs])
  /\ UNCHANGED <<tables, dirs, open, alive, broken>>

EnterFormat(p) ==
  /\ \E d \in Devs : Enter(p, [at |-> "format: open", dev |-> d, fs |-> "gosfs", prefix |-> None])
  /\ UNCHANGED <<tables, dirs, open, alive, broken>>

(* Mutant of OpenDevice: a device in use is opened.                             *)
OpenDeviceAgain(p, from, to) ==
  /\ At(p, from)
  /\ inUse' = inUse \cup {call[p].dev}
  /\ Goto(p, to)
  /\ UNCHANGED <<disk, mounts, pager, dirs, open, alive, broken>>

(* Open_Block_Device: EBUSY when it is in use.                                  *)
OpenDevice(p, from, to) ==
  /\ At(p, from)
  /\ inUse' = inUse \cup {call[p].dev}
  /\ IF call[p].dev \in inUse THEN Return(p) ELSE Goto(p, to)
  /\ UNCHANGED <<disk, mounts, pager, dirs, open, alive, broken>>

(* The file system's Mount: it reads the disk, which may fail, and looks for    *)
(* its magic number.  PFAT brings its paging file when there is none yet.       *)
MountFileSystem(p) ==
  LET c == call[p] IN
  /\ At(p, "mount: read")
  /\ \/ Goto(p, "close")
     \/ /\ disk[c.dev] = c.fs
        /\ Goto(p, IF c.fs = "pfat" /\ c.dev \in PageFiles /\ pager = None
                   THEN "mount: page file" ELSE "mount: add")
  /\ UNCHANGED <<tables, dirs, open, alive, broken>>

(* Register_Paging_Device asserts that there is still none.                     *)
RegisterPager(p) ==
  /\ At(p, "mount: page file")
  /\ IF pager # None THEN Break
     ELSE /\ pager' = call[p].dev
          /\ Goto(p, "mount: add")
          /\ UNCHANGED <<inUse, disk, mounts, dirs, open, alive, broken>>

AddMount(p) ==
  /\ At(p, "mount: add")
  /\ mounts' = Append(mounts, [prefix |-> call[p].prefix, fs |-> call[p].fs, dev |-> call[p].dev])
  /\ Return(p)
  /\ UNCHANGED <<inUse, disk, pager, dirs, open, alive, broken>>

(* GOSFS_Format writes the disk; when a write fails there is no file system.    *)
FormatDevice(p) ==
  /\ At(p, "format: write")
  /\ \E has \in {"gosfs", "nothing"} : disk' = [disk EXCEPT ![call[p].dev] = has]
  /\ Goto(p, "close")
  /\ UNCHANGED <<inUse, mounts, pager, dirs, open, alive, broken>>

CloseDevice(p) ==
  /\ At(p, "close")
  /\ inUse' = inUse \ {call[p].dev}
  /\ Return(p)
  /\ UNCHANGED <<disk, mounts, pager, dirs, open, alive, broken>>

Mounting(p) ==
  \/ EnterMount(p) \/ EnterFormat(p)
  \/ OpenDevice(p, "mount: open", "mount: read") \/ OpenDevice(p, "format: open", "format: write")
  \/ MountFileSystem(p) \/ RegisterPager(p) \/ AddMount(p) \/ FormatDevice(p) \/ CloseDevice(p)

-----------------------------------------------------------------------------
(* System calls with a path *)

(* Lookup_Mount_Point: the first with the prefix.                               *)
MountOf(x) == {i \in DOMAIN mounts : mounts[i].prefix = x}
FileSystem(x) == mounts[Min(MountOf(x))].fs

(* Convert_To_Abs_Path: the file system at the prefix is given the dentry.  One  *)
(* that was freed, or is another's, is read as what it is not: the path goes on  *)
(* at random or the machine stops.                                              *)
ReadsDentry(p) == /\ MountOf(prefix) # {} /\ cwd[p] # 0
                  /\ dentries[cwd[p]] # FileSystem(prefix)

(* Open, Open_Directory, Stat, Create_Directory, Delete and Lookup begin so: the   *)
(* path names its prefix, or is relative.                                        *)
PathPrefixes == Prefixes \cup {prefix}
EnterPath(p) == At(p, "user") /\ ReadsDentry(p) /\ Break

(* Without a mount point a call fails.                                          *)
NoMount(x) == MountOf(x) = {}

UnusedFiles == {f \in DOMAIN files : files[f] = NoObject}
FreeFds(p) == {fd \in Fds : fds[p][fd] = Null}

(* Do_Open: the Files that the mount point at x may return; every file system     *)
(* opens files, GOSFS directories too.                                           *)
Do_Open(x) == IF NoMount(x) THEN {}
              ELSE {"file"} \cup (IF FileSystem(x) = "gosfs" THEN {"gosfs directory"} ELSE {})

(* Sys_Open and Sys_OpenDirectory need a free entry of the file table.            *)
OpenFile(p) ==
  /\ At(p, "user") /\ FreeFds(p) # {} /\ UnusedFiles # {}
  /\ \E x \in PathPrefixes : \E kind \in Do_Open(x) :
       files' = [files EXCEPT ![Min(UnusedFiles)] = kind]
  /\ fds' = [fds EXCEPT ![p][Min(FreeFds(p))] = Min(UnusedFiles)]
  /\ UNCHANGED <<tables, dirs, call, alive, broken>>

(* A call that fails, Stat, Create_Directory and Delete change nothing of what     *)
(* is modelled here; PFAT has only Stat.                                        *)
AskFileSystem(p) == At(p, "user") /\ UNCHANGED vars

EnterChangeDir(p) ==
  /\ \E x \in PathPrefixes : /\ ~NoMount(x)
                            /\ Enter(p, [at |-> "chdir", dev |-> None, fs |-> None, prefix |-> x])
  /\ UNCHANGED <<tables, dirs, open, alive, broken>>

(* Lookup changes the prefix before it knows that the directory is there.        *)
ChangePrefix(p) ==
  /\ At(p, "chdir")
  /\ prefix' = call[p].prefix
  /\ call' = [call EXCEPT ![p] = [at |-> "chdir: look up", dev |-> None,
                                  fs |-> FileSystem(call[p].prefix), prefix |-> None]]
  /\ UNCHANGED <<tables, cwd, dentries, open, alive, broken>>

UnusedDentries == (1..MaxDentries) \ {cwd[p] : p \in alive}

(* PFAT_Lookup never fails; GOSFS_Lookup may.  The old dentry is freed, a second  *)
(* time when another process had it too.                                        *)
ChangeDentry(p) ==
  /\ At(p, "chdir: look up")
  /\ \/ /\ call[p].fs = "gosfs"
        /\ Return(p)
        /\ UNCHANGED <<tables, dirs, open, alive, broken>>
     \/ IF cwd[p] # 0 /\ dentries[cwd[p]] = "freed" THEN Break
        ELSE /\ dentries' = [i \in 1..MaxDentries |->
                                IF i = Min(UnusedDentries) THEN call[p].fs
                                ELSE IF i = cwd[p] THEN "freed" ELSE dentries[i]]
             /\ cwd' = [cwd EXCEPT ![p] = Min(UnusedDentries)]
             /\ Return(p)
             /\ UNCHANGED <<tables, prefix, open, alive, broken>>

(* Sys_Close, Sys_ReadEntry: the number is not checked.                          *)
UseBadFd(p) == At(p, "user") /\ (\E fd \in Fds : fds[p][fd] \in {Null, Wild}) /\ Break

(* Read, FStat, Seek and Sync are not written: they stop the machine.            *)
Unfinished(p) == At(p, "user") /\ Break

(* GOSFS_Close_Directory returns no value: the File is freed when what the       *)
(* caller finds is 0.                                                           *)
Close(f) == \/ files' = [files EXCEPT ![f] = NoObject]
            \/ files[f] = "gosfs directory" /\ files' = files

CloseFile(p) ==
  /\ At(p, "user")
  /\ \E fd \in Fds : /\ fds[p][fd] \notin {Null, Wild}
                     /\ Close(fds[p][fd])
                     /\ fds' = [fds EXCEPT ![p][fd] = Null]
  /\ UNCHANGED <<tables, dirs, call, alive, broken>>

(* Load_User_Program: the file table is cleared by bytes, and the working        *)
(* directory is the parent's.  A process ends without closing anything.          *)
Spawn(p) ==
  /\ At(p, "user")
  /\ \E q \in Procs \ alive, rest \in [Fds -> {Null, Wild}] :
       /\ alive' = alive \cup {q}
       /\ cwd' = [cwd EXCEPT ![q] = cwd[p]]
       /\ fds' = [fds EXCEPT ![q] = [fd \in Fds |-> IF fd <= ClearedFds THEN Null ELSE rest[fd]]]
  /\ UNCHANGED <<tables, prefix, dentries, files, call, broken>>

Exit(p) ==
  /\ p # Shell /\ At(p, "user")
  /\ alive' = alive \ {p}
  /\ fds' = [fds EXCEPT ![p] = [fd \in Fds |-> Null]]
  /\ cwd' = [cwd EXCEPT ![p] = 0]
  /\ UNCHANGED <<tables, prefix, dentries, files, call, broken>>

WithPath(p) == EnterPath(p) \/ OpenFile(p) \/ AskFileSystem(p)
               \/ EnterChangeDir(p) \/ ChangePrefix(p) \/ ChangeDentry(p)

Next ==
  ~broken /\ \E p \in Procs : Mounting(p) \/ WithPath(p) \/ UseBadFd(p) \/ Unfinished(p)
                              \/ CloseFile(p) \/ Spawn(p) \/ Exit(p)

Spec == Init /\ [][Next]_vars

-----------------------------------------------------------------------------
(* Properties *)

HoldsDevice(p, d) == call[p].dev = d /\ call[p].at \notin {"user", "mount: open", "format: open"}

DeviceHasOneUser ==
  \A d \in Devs :
    Cardinality({i \in DOMAIN mounts : mounts[i].dev = d}) + Cardinality({p \in alive : HoldsDevice(p, d)})
      = IF d \in inUse THEN 1 ELSE 0

FileHasOneUser ==
  \A p, q \in alive : \A i, j \in Fds :
    fds[p][i] \notin {Null, Wild} =>
      files[fds[p][i]] # NoObject /\ (fds[p][i] = fds[q][j] => p = q /\ i = j)

(* A device that is in use has one user, a mount or a call that mounts or        *)
(* formats, and one that is not has none: no device is mounted twice or          *)
(* formatted while it is mounted, and one is closed by who opened it; and a File  *)
(* that some process has open is in one entry of one table, and has not been      *)
(* closed (vfs.c:303, 344, 386, syscall.c:342, 420).                             *)
OneUserEach == DeviceHasOneUser /\ FileHasOneUser
=============================================================================
