------------------------------- MODULE BufCache -------------------------------
(***************************************************************************)
(* The buffer cache of a file system: src/geekos/bufcache.c.               *)
(*                                                                         *)
(* The cache's mutex is held over the disk transfers, so while one thread  *)
(* does a transfer the others can only do what needs no mutex: change the  *)
(* data of a buffer they have and mark it modified.  Between a transfer    *)
(* and the next, and wherever the mutex is free, threads interleave; what  *)
(* runs under the mutex without a transfer is one action (Synch shows that *)
(* the mutex excludes).  A thread has at most one buffer.                  *)
(***************************************************************************)
EXTENDS Naturals, Sequences, SequencesExt

CONSTANTS
  Threads,      (* the users of the cache                                   *)
  NoThread,
  Blocks,       (* the blocks of the file system                            *)
  NoBlock,
  MaxBlocks,    (* FS_BUFFER_CACHE_MAX_BLOCKS, the most buffers there can be *)
  NumSectors,   (* the sectors of a block                                   *)
  Values,       (* contents of a sector                                     *)
  Zero, Junk,   (* ... of a new disk, and of a page just allocated          *)
  Failures,     (* what may fail: "read", "write", "memory"                 *)
  SyncsCache    (* the users call Sync_FS_Buffer_Cache                      *)

Buffers == 1 .. MaxBlocks
NoBuffer == 0
Sectors == 1 .. NumSectors

ASSUME BufCacheAssumption ==
  /\ NoThread \notin Threads /\ NoBlock \notin Blocks
  /\ MaxBlocks \in Nat \ {0} /\ NumSectors \in Nat \ {0}
  /\ Zero \in Values /\ Junk \notin Values
  /\ Failures \subseteq {"read", "write", "memory"} /\ SyncsCache \in BOOLEAN

VARIABLES
  disk,         (* the contents of the disk                                 *)
  bufferList,   (* the buffers, most recently referenced first              *)
  fsBlockNum, data,     (* the block of each buffer, and its data           *)
  dirty, inUse, (* the buffers with FS_BUFFER_DIRTY, FS_BUFFER_INUSE        *)
  lock,         (* the thread that has the mutex                            *)
  cond,         (* the threads waiting on the condition                     *)
  pc,           (* where each thread stands                                 *)
  want,         (* the block it has asked for, until it releases it         *)
  buf,          (* the buffer it works on, waits for or has                 *)
  touched,      (* it has changed the data and not yet called Modify        *)
  sector, pos   (* progress of the mutex's owner: in a transfer, in a walk  *)

bufVars == <<bufferList, fsBlockNum, data, dirty, inUse>>
threadVars == <<pc, want, buf, touched>>
vars == <<disk, bufVars, lock, cond, threadVars, sector, pos>>

Init ==
  /\ disk = [b \in Blocks |-> [s \in Sectors |-> Zero]]
  /\ bufferList = << >>
  /\ fsBlockNum = [u \in Buffers |-> NoBlock]
  /\ data = [u \in Buffers |-> [s \in Sectors |-> Junk]]
  /\ dirty = {} /\ inUse = {}
  /\ lock = NoThread /\ cond = {}
  /\ pc = [t \in Threads |-> "out"]
  /\ want = [t \in Threads |-> NoBlock]
  /\ buf = [t \in Threads |-> NoBuffer]
  /\ touched = {}
  /\ sector = 1 /\ pos = 1

(* The labels: "out" and "has" a buffer; "get", "sync", "sync cache" and    *)
(* "release" called and the mutex still to be taken; "wait" in Cond_Wait;   *)
(* "evict", "read", "flush", "walk" and "flush one" under the mutex.        *)
Goto(t, label) == pc' = [pc EXCEPT ![t] = label]

(* Mutex_Lock by a thread at this label, Mutex_Lock not yet unlocked. *)
Enter(t, label) == pc[t] = label /\ lock = NoThread
Inside(t, label) == pc[t] = label /\ lock = t

(* Move_To_Front, of the buffer at the k-th place. *)
MoveToFront(k) == <<bufferList[k]>> \o RemoveAt(bufferList, k)
-----------------------------------------------------------------------------
(* Get_Buffer, done: the buffer is in use. *)
Acquire(t, u) ==
  /\ inUse' = inUse \cup {u}
  /\ buf' = [buf EXCEPT ![t] = u]
  /\ Goto(t, "has")

(* Return an error from Get_FS_Buffer. *)
GiveUp(t) ==
  /\ want' = [want EXCEPT ![t] = NoBlock]
  /\ buf' = [buf EXCEPT ![t] = NoBuffer]
  /\ Goto(t, "out")

CallGet(t, b) ==
  /\ pc[t] = "out"
  /\ want' = [want EXCEPT ![t] = b]
  /\ Goto(t, "get")
  /\ UNCHANGED <<disk, bufVars, lock, cond, buf, touched, sector, pos>>

Listed == ToSet(bufferList)

(* Mutant of Cached: the search skips the buffers in use. *)
CachedUnused(b) == {u \in Listed : fsBlockNum[u] = b /\ u \notin inUse}

(* The buffers of a block: at most one, says OneBufferPerBlock. *)
Cached(b) == {u \in Listed : fsBlockNum[u] = b}

(* The k-th buffer of the list is the least recently used one not in use. *)
IsLRU(k) ==
  /\ k \in 1 .. Len(bufferList) /\ bufferList[k] \notin inUse
  /\ \A j \in k + 1 .. Len(bufferList) : bufferList[j] \in inUse

(* Cond_Wait gives the mutex away for the time of the wait. *)
GetWait(t) ==
  /\ Enter(t, "get")
  /\ \E u \in Cached(want[t]) \cap inUse : buf' = [buf EXCEPT ![t] = u]
  /\ cond' = cond \cup {t}
  /\ Goto(t, "wait")
  /\ UNCHANGED <<disk, bufVars, lock, want, touched, sector, pos>>

GetCached(t) ==
  /\ Enter(t, "get")
  /\ \E u \in Cached(want[t]) \ inUse : Acquire(t, u)
  /\ UNCHANGED <<disk, bufferList, fsBlockNum, data, dirty, lock, cond, want, touched, sector, pos>>

(* Mutant of GetWoken: "if" for "while". *)
GetWokenTakes(t) ==
  /\ Enter(t, "wait") /\ t \notin cond
  /\ Acquire(t, buf[t])
  /\ UNCHANGED <<disk, bufferList, fsBlockNum, data, dirty, lock, cond, want, touched, sector, pos>>

(* Woken, and the mutex taken again: the same buffer is tested again. *)
GetWoken(t) ==
  /\ Enter(t, "wait") /\ t \notin cond
  /\ \/ /\ buf[t] \in inUse
        /\ cond' = cond \cup {t}
        /\ UNCHANGED <<inUse, buf, pc>>
     \/ /\ buf[t] \notin inUse
        /\ Acquire(t, buf[t])
        /\ UNCHANGED cond
  /\ UNCHANGED <<disk, bufferList, fsBlockNum, data, dirty, lock, want, touched, sector, pos>>

(* A new buffer, at the front of the list, to be read into. *)
GetNew(t) ==
  /\ Enter(t, "get") /\ Cached(want[t]) = {} /\ Len(bufferList) < MaxBlocks
  /\ LET u == Len(bufferList) + 1
     IN  /\ bufferList' = <<u>> \o bufferList
         /\ fsBlockNum' = [fsBlockNum EXCEPT ![u] = want[t]]
         /\ buf' = [buf EXCEPT ![t] = u]
  /\ lock' = t /\ sector' = 1
  /\ Goto(t, "read")
  /\ UNCHANGED <<disk, data, dirty, inUse, cond, want, touched, pos>>

(* No new buffer can be had. *)
NoNewBuffer == Len(bufferList) = MaxBlocks \/ "memory" \in Failures

(* Mutant of GetNoBuffer: the buffer found is not tested for null. *)
GetNoBufferUnchecked(t) ==
  /\ Enter(t, "get") /\ Cached(want[t]) = {} /\ NoNewBuffer /\ Listed \subseteq inUse
  /\ Acquire(t, NoBuffer)
  /\ UNCHANGED <<disk, bufferList, fsBlockNum, data, dirty, lock, cond, want, touched, sector, pos>>

GetNoBuffer(t) ==
  /\ Enter(t, "get") /\ Cached(want[t]) = {} /\ NoNewBuffer /\ Listed \subseteq inUse
  /\ GiveUp(t)
  /\ UNCHANGED <<disk, bufVars, lock, cond, touched, sector, pos>>

(* Mutant of GetLRU: a dirty buffer is not written back. *)
GetLRUDirty(t) ==
  /\ Enter(t, "get") /\ Cached(want[t]) = {} /\ NoNewBuffer
  /\ \E k \in 1 .. Len(bufferList) :
       /\ IsLRU(k)
       /\ buf' = [buf EXCEPT ![t] = bufferList[k]]
       /\ bufferList' = MoveToFront(k)
       /\ dirty' = dirty \ {bufferList[k]}
  /\ Goto(t, "read")
  /\ lock' = t /\ sector' = 1
  /\ UNCHANGED <<disk, fsBlockNum, data, inUse, cond, want, touched, pos>>

(* The least recently used buffer is taken, written back first if dirty.    *)
(* Its fsBlockNum stays what it was.                                        *)
GetLRU(t) ==
  /\ Enter(t, "get") /\ Cached(want[t]) = {} /\ NoNewBuffer
  /\ \E k \in 1 .. Len(bufferList) :
       /\ IsLRU(k)
       /\ buf' = [buf EXCEPT ![t] = bufferList[k]]
       /\ \/ /\ bufferList[k] \in dirty
             /\ Goto(t, "evict")
             /\ UNCHANGED bufferList
          \/ /\ bufferList[k] \notin dirty
             /\ bufferList' = MoveToFront(k)
             /\ Goto(t, "read")
  /\ lock' = t /\ sector' = 1
  /\ UNCHANGED <<disk, fsBlockNum, data, dirty, inUse, cond, want, touched, pos>>
-----------------------------------------------------------------------------
(* Do_Buffer_IO: one sector after another.  What the caller does after the  *)
(* last is a step of its own, since the thread sleeps during a transfer.    *)
Target(t) == IF pc[t] = "flush" THEN bufferList[pos] ELSE buf[t]
Writes == {"evict", "flush one", "flush"}
Transferring(t, labels) == lock = t /\ pc[t] \in labels /\ sector <= NumSectors
Transferred(t, label) == Inside(t, label) /\ sector > NumSectors

WriteSector(u) ==
  disk' = [disk EXCEPT ![fsBlockNum[u]][sector] = data[u][sector]]

BlockWrite(t) ==
  /\ Transferring(t, Writes)
  /\ WriteSector(Target(t))
  /\ sector' = sector + 1
  /\ UNCHANGED <<bufVars, lock, cond, threadVars, pos>>

BlockRead(t) ==
  /\ Transferring(t, {"read"})
  /\ data' = [data EXCEPT ![buf[t]][sector] = disk[fsBlockNum[buf[t]]][sector]]
  /\ sector' = sector + 1
  /\ UNCHANGED <<disk, bufferList, fsBlockNum, dirty, inUse, lock, cond, threadVars, pos>>

(* Mutant of BlockFails: the buffer is clean whatever the result. *)
BlockFailsClean(t) ==
  /\ Transferring(t, Writes) /\ "write" \in Failures
  /\ dirty' = dirty \ {Target(t)}
  /\ lock' = NoThread
  /\ IF pc[t] = "evict" THEN GiveUp(t) ELSE Goto(t, "has") /\ UNCHANGED <<want, buf>>
  /\ UNCHANGED <<disk, bufferList, fsBlockNum, data, inUse, cond, touched, sector, pos>>

(* A transfer that fails ends the call; a synchronised buffer stays dirty,  *)
(* one being read into stays in the list with its block number.             *)
BlockFails(t) ==
  /\ \/ /\ Transferring(t, Writes) /\ "write" \in Failures
        /\ UNCHANGED disk \/ WriteSector(Target(t))
     \/ Transferring(t, {"read"}) /\ "read" \in Failures /\ UNCHANGED disk
  /\ lock' = NoThread
  /\ IF pc[t] \in {"evict", "read"} THEN GiveUp(t)
     ELSE Goto(t, "has") /\ UNCHANGED <<want, buf>>
  /\ UNCHANGED <<bufVars, cond, touched, sector, pos>>

(* The old data of the buffer is on the disk: it is clean, and read into. *)
EvictDone(t) ==
  /\ Transferred(t, "evict")
  /\ dirty' = dirty \ {buf[t]}
  /\ \E k \in 1 .. Len(bufferList) : bufferList[k] = buf[t] /\ bufferList' = MoveToFront(k)
  /\ sector' = 1
  /\ Goto(t, "read")
  /\ UNCHANGED <<disk, fsBlockNum, data, inUse, lock, cond, want, buf, touched, pos>>

(* Mutant of ReadDone: the buffer is not marked in use. *)
ReadDoneUnmarked(t) ==
  /\ Transferred(t, "read")
  /\ Goto(t, "has")
  /\ lock' = NoThread
  /\ UNCHANGED <<disk, bufVars, cond, want, buf, touched, sector, pos>>

ReadDone(t) ==
  /\ Transferred(t, "read")
  /\ Acquire(t, buf[t])
  /\ lock' = NoThread
  /\ UNCHANGED <<disk, bufferList, fsBlockNum, data, dirty, cond, want, touched, sector, pos>>
-----------------------------------------------------------------------------
(* A user changes the data of its buffer, and then says so. *)
Change(t, s, v) ==
  /\ pc[t] = "has" /\ data[buf[t]][s] # v
  /\ data' = [data EXCEPT ![buf[t]][s] = v]
  /\ touched' = touched \cup {t}
  /\ UNCHANGED <<disk, bufferList, fsBlockNum, dirty, inUse, lock, cond, pc, want, buf, sector, pos>>

Modify(t) ==
  /\ pc[t] = "has" /\ t \in touched
  /\ dirty' = dirty \cup {buf[t]}
  /\ touched' = touched \ {t}
  /\ UNCHANGED <<disk, bufferList, fsBlockNum, data, inUse, lock, cond, pc, want, buf, sector, pos>>

(* Call one of the functions that take the mutex, changes marked. *)
Call(t, label) ==
  /\ pc[t] = "has" /\ t \notin touched
  /\ Goto(t, label)
  /\ UNCHANGED <<disk, bufVars, lock, cond, want, buf, touched, sector, pos>>

(* Sync_FS_Buffer. *)
Sync(t) ==
  /\ Enter(t, "sync")
  /\ \/ buf[t] \notin dirty /\ Goto(t, "has") /\ UNCHANGED <<lock, sector>>
     \/ buf[t] \in dirty /\ Goto(t, "flush one") /\ lock' = t /\ sector' = 1
  /\ UNCHANGED <<disk, bufVars, cond, want, buf, touched, pos>>

SyncDone(t) ==
  /\ Transferred(t, "flush one")
  /\ dirty' = dirty \ {buf[t]}
  /\ lock' = NoThread
  /\ Goto(t, "has")
  /\ UNCHANGED <<disk, bufferList, fsBlockNum, data, inUse, cond, want, buf, touched, sector, pos>>

(* Sync_FS_Buffer_Cache: Sync_Buffer of one buffer after another. *)
SyncCache(t) ==
  /\ Enter(t, "sync cache")
  /\ lock' = t /\ pos' = 1
  /\ Goto(t, "walk")
  /\ UNCHANGED <<disk, bufVars, cond, want, buf, touched, sector>>

WalkNext(t) ==
  /\ Inside(t, "walk")
  /\ \/ /\ pos > Len(bufferList)
        /\ lock' = NoThread
        /\ Goto(t, "has")
        /\ UNCHANGED <<sector, pos>>
     \/ /\ pos <= Len(bufferList) /\ bufferList[pos] \in dirty
        /\ sector' = 1
        /\ Goto(t, "flush")
        /\ UNCHANGED <<lock, pos>>
     \/ /\ pos <= Len(bufferList) /\ bufferList[pos] \notin dirty
        /\ pos' = pos + 1
        /\ UNCHANGED <<lock, pc, sector>>
  /\ UNCHANGED <<disk, bufVars, cond, want, buf, touched>>

(* Mutant of FlushDone: the walk starts again after every transfer. *)
FlushDoneAgain(t) ==
  /\ Transferred(t, "flush")
  /\ dirty' = dirty \ {bufferList[pos]}
  /\ pos' = 1
  /\ Goto(t, "walk")
  /\ UNCHANGED <<disk, bufferList, fsBlockNum, data, inUse, lock, cond, want, buf, touched, sector>>

FlushDone(t) ==
  /\ Transferred(t, "flush")
  /\ dirty' = dirty \ {bufferList[pos]}
  /\ pos' = pos + 1
  /\ Goto(t, "walk")
  /\ UNCHANGED <<disk, bufferList, fsBlockNum, data, inUse, lock, cond, want, buf, touched, sector>>

(* Mutant of Release: nobody is woken. *)
ReleaseSilently(t) ==
  /\ Enter(t, "release")
  /\ inUse' = inUse \ {buf[t]}
  /\ GiveUp(t)
  /\ UNCHANGED <<disk, bufferList, fsBlockNum, data, dirty, lock, cond, touched, sector, pos>>

(* Release_FS_Buffer: everyone waiting for any buffer is woken. *)
Release(t) ==
  /\ Enter(t, "release")
  /\ inUse' = inUse \ {buf[t]}
  /\ cond' = {}
  /\ GiveUp(t)
  /\ UNCHANGED <<disk, bufferList, fsBlockNum, data, dirty, lock, touched, sector, pos>>
-----------------------------------------------------------------------------
(* What a thread does once it has the mutex, to the end of the call. *)
Step(t) ==
  \/ BlockWrite(t) \/ BlockRead(t) \/ BlockFails(t)
  \/ EvictDone(t) \/ ReadDone(t) \/ SyncDone(t) \/ WalkNext(t) \/ FlushDone(t)

Lock(t) ==
  \/ GetWait(t) \/ GetCached(t) \/ GetWoken(t) \/ GetNew(t) \/ GetNoBuffer(t) \/ GetLRU(t)
  \/ Sync(t) \/ SyncCache(t) \/ Release(t)

User(t) ==
  \/ \E b \in Blocks : CallGet(t, b)
  \/ \E s \in Sectors, v \in Values : Change(t, s, v)
  \/ Modify(t)
  \/ Call(t, "sync") \/ Call(t, "release")
  \/ SyncsCache /\ Call(t, "sync cache")

Next == \E t \in Threads : Step(t) \/ Lock(t) \/ User(t)

Spec == Init /\ [][Next]_vars
-----------------------------------------------------------------------------
Has(t) == pc[t] \in {"has", "sync", "flush one", "sync cache", "walk", "flush", "release"}

(* Every variable stays in its range. *)
TypeOK ==
  /\ disk \in [Blocks -> [Sectors -> Values \cup {Junk}]]
  /\ bufferList \in Seq(Buffers) /\ Len(bufferList) <= MaxBlocks
  /\ fsBlockNum \in [Buffers -> Blocks \cup {NoBlock}]
  /\ data \in [Buffers -> [Sectors -> Values \cup {Junk}]]
  /\ dirty \subseteq Buffers /\ inUse \subseteq Buffers
  /\ lock \in Threads \cup {NoThread} /\ cond \subseteq Threads
  /\ pc \in [Threads -> {"out", "get", "wait", "evict", "read", "has", "sync", "flush one",
                         "sync cache", "walk", "flush", "release"}]
  /\ want \in [Threads -> Blocks \cup {NoBlock}]
  /\ buf \in [Threads -> Buffers \cup {NoBuffer}]
  /\ touched \subseteq Threads
  /\ sector \in 1 .. NumSectors + 1 /\ pos \in 1 .. MaxBlocks + 1

(* A block is never in two buffers, so two users of a block never work on   *)
(* different copies of it.                                                  *)
OneBufferPerBlock ==
  /\ IsInjective(bufferList)
  /\ \A u, v \in Listed : fsBlockNum[u] = fsBlockNum[v] => u = v

(* A buffer is marked in use exactly while some thread has it, and only one *)
(* thread has it, however many were woken by the broadcast.                 *)
ExclusiveUse ==
  /\ inUse = {buf[t] : t \in {t \in Threads : Has(t)}}
  /\ \A t, t2 \in Threads : Has(t) /\ Has(t2) /\ buf[t] = buf[t2] => t = t2

(* Nobody waits for a buffer that is free. *)
WaitersHaveAUser == \A t \in cond : buf[t] \in inUse

(* A buffer that is clean and not being read into is on the disk, changes   *)
(* its user has not yet marked excepted: no acknowledged change is dropped. *)
CleanIsOnDisk ==
  \A u \in Listed :
    \/ u \in dirty
    \/ \E t \in Threads : buf[t] = u /\ (pc[t] = "read" \/ t \in touched)
    \/ data[u] = disk[fsBlockNum[u]]

(* A buffer nobody uses stops being dirty only when its data are on the     *)
(* disk: eviction and synchronisation drop no change, failures included.    *)
ChangesReachDisk ==
  [][\A u \in (dirty \ dirty') \ inUse : data[u] = disk[fsBlockNum[u]]]_vars

(* A thread that has a buffer has the buffer of the block it asked for.     *)
HasWhatItWanted == \A t \in Threads : Has(t) => fsBlockNum[buf[t]] = want[t]

(* The data a thread is given has been read from the disk. *)
NoJunk == \A t \in Threads : Has(t) => \A s \in Sectors : data[buf[t]][s] # Junk

(* The buffer of a block that is not being read, if there is one. *)
Current(b) == {u \in Listed : /\ fsBlockNum[u] = b
                 /\ \A t \in Threads : buf[t] = u => pc[t] # "read"}

Abs == INSTANCE AbstractCache WITH
  content <- [b \in Blocks |-> IF Current(b) = {} THEN disk[b]
                               ELSE data[CHOOSE u \in Current(b) : TRUE]],
  user <- [b \in Blocks |->
    LET users == {t \in Threads : Has(t) /\ fsBlockNum[buf[t]] = b}
    IN  IF users = {} THEN NoThread ELSE CHOOSE t \in users : TRUE]

(* To its users the cache is the blocks of the disk, each used by one       *)
(* thread at a time and changed by nobody else.                             *)
ImplementsCache == Abs!Spec
-----------------------------------------------------------------------------
(* The thread that has the mutex is scheduled and its transfers end. *)
FairSpec == Spec /\ \A t \in Threads : WF_vars(Step(t))

(* Every transfer ends and every walk over the list too, though the users   *)
(* keep changing buffers: the mutex is released.                            *)
MutexReleased == \A t \in Threads : lock = t ~> lock # t
-----------------------------------------------------------------------------
(* The inductive invariant.  The labels under the mutex, and those at which *)
(* a thread has chosen a buffer: *)
InsidePC == {"evict", "read", "flush one", "walk", "flush"}
ChosenPC == {"wait", "evict", "read", "has", "sync", "flush one", "sync cache", "walk", "flush",
             "release"}

(* The buffers in the list are those made so far, each of some block, and   *)
(* no other is dirty: *)
ListInv ==
  /\ \A u \in Buffers : Contains(bufferList, u) <=> u <= Len(bufferList)
  /\ \A u \in Listed : fsBlockNum[u] \in Blocks
  /\ dirty \subseteq Listed

(* The mutex is with the thread that is at a label under it: *)
LockInv == \A t \in Threads : lock = t <=> pc[t] \in InsidePC

(* A thread has chosen a buffer of the list; one to be read into is free: *)
ChoiceOK(t) ==
  /\ pc[t] \in ChosenPC => buf[t] \in Listed
  /\ pc[t] = "get" => want[t] \in Blocks
  /\ pc[t] \in {"evict", "read"} => buf[t] \notin inUse
  /\ pc[t] = "flush" => pos <= Len(bufferList)
  /\ t \in touched => pc[t] = "has"
  /\ t \in cond => pc[t] = "wait"

ChoiceInv == \A t \in Threads : ChoiceOK(t)

(* The transfer under way has brought the disk and the buffer together as   *)
(* far as it has come, unless a user of the buffer may be changing it: *)
Matches(u, s) == data[u][s] = disk[fsBlockNum[u]][s]

TransferOK(t) ==
  /\ pc[t] \in Writes => Target(t) \in dirty
  /\ pc[t] = "read" => buf[t] \notin dirty
  /\ pc[t] \in {"evict", "read", "flush one"} \/ (pc[t] = "flush" /\ Target(t) \notin inUse)
       => \A s \in 1 .. sector - 1 : Matches(Target(t), s)

TransferInv == \A t \in Threads : TransferOK(t)

IInv ==
  /\ TypeOK /\ ListInv /\ LockInv /\ ChoiceInv /\ TransferInv
  /\ OneBufferPerBlock /\ ExclusiveUse /\ WaitersHaveAUser
=============================================================================
