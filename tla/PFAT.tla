--------------------------------- MODULE PFAT ---------------------------------
(***************************************************************************)
(* Reading the files of a PFAT file system, which is read-only.  All who    *)
(* open a file share one object with a cache of the file's blocks, which    *)
(* stays for ever; a block is read from the disk when it is first needed.  *)
(* A step is what a thread does up to the next lock or disk transfer.       *)
(* Positions and lengths count blocks.                                      *)
(***************************************************************************)
EXTENDS Integers, Sequences

CONSTANTS
  Threads,
  Files,          (* the entries of the root directory                       *)
  First, Size,    (* their first block and length, by file                   *)
  Fat,            (* the next block of each block                            *)
  EndOfFile,      (* what Fat has behind the last block                      *)
  Junk, NoOne, NoFile, Freed

VARIABLES
  objects,        (* instance->fileList: file, data and valid blocks, lock   *)
  listLock,       (* who has instance->lock                                  *)
  open,           (* the File of a thread: its object and position           *)
  reader,         (* what a thread is doing                                  *)
  result,         (* what its last read from that position gave it            *)
  ruined          (* freed memory was used, or a pointer nobody has set        *)

vars == <<objects, listLock, open, reader, result, ruined>>

Nothing == [end |-> 0, data |-> <<>>]
AtRest == [at |-> "rest", file |-> NoFile, end |-> 0, i |-> 0, block |-> EndOfFile]

Init ==
  /\ objects = <<>>
  /\ listLock = NoOne
  /\ open = [t \in Threads |-> NoFile]
  /\ reader = [t \in Threads |-> AtRest]
  /\ result = [t \in Threads |-> Nothing]
  /\ ruined = FALSE

Object(f) == [file |-> f, data |-> [i \in 1..Size[f] |-> Junk], valid |-> {}, lock |-> NoOne]
Indexes(f) == {o \in DOMAIN objects : objects[o].file = f}

Proceed(t, where) == reader' = [reader EXCEPT ![t].at = where]
Return(t, value) == reader' = [reader EXCEPT ![t] = AtRest] /\ result' = [result EXCEPT ![t] = value]

-----------------------------------------------------------------------------
(* PFAT_Open *)

(* A name that is not there, a directory or a mode for writing is refused.      *)
StartOpen(t) ==
  /\ reader[t].at = "rest" /\ open[t] = NoFile
  /\ \E f \in Files : reader' = [reader EXCEPT ![t].at = "get", ![t].file = f]
  /\ result' = [result EXCEPT ![t] = Nothing]
  /\ UNCHANGED <<objects, listLock, open, ruined>>

(* Mutant of LockList: the list is searched without the lock.                  *)
SearchList(t) == Proceed(t, IF Indexes(reader[t].file) = {} THEN "add" ELSE "found")
                 /\ reader[t].at = "get" /\ UNCHANGED <<objects, listLock, open, result, ruined>>

(* Get_PFAT_File: an object of the file is used when there is one.             *)
LockList(t) ==
  /\ reader[t].at = "get" /\ listLock = NoOne
  /\ listLock' = t
  /\ Proceed(t, IF Indexes(reader[t].file) = {} THEN "add" ELSE "found")
  /\ UNCHANGED <<objects, open, result, ruined>>

AddObject(t) ==
  /\ reader[t].at = "add"
  /\ objects' = Append(objects, Object(reader[t].file))
  /\ Proceed(t, "found")
  /\ UNCHANGED <<listLock, open, result, ruined>>

(* When memory for the cache is short the object is freed, and returned all     *)
(* the same.  When it is short for the object itself PFAT_Open reports success  *)
(* and gives no File: Do_Open writes through what its caller's pointer holds.   *)
FailToAdd(t) ==
  /\ reader[t].at = "add"
  /\ \/ /\ open' = [open EXCEPT ![t] = [object |-> Freed, pos |-> 0]]
        /\ listLock' = NoOne
        /\ Return(t, Nothing)
        /\ UNCHANGED ruined
     \/ /\ ruined' = TRUE
        /\ UNCHANGED <<listLock, open, reader, result>>
  /\ UNCHANGED objects

(* The thread gets a File, unless there is no memory for one.                  *)
UnlockList(t) ==
  LET file == [object |-> CHOOSE o \in Indexes(reader[t].file) : TRUE, pos |-> 0] IN
  /\ reader[t].at = "found"
  /\ open' \in {open, [open EXCEPT ![t] = file]}
  /\ listLock' = NoOne
  /\ Return(t, Nothing)
  /\ UNCHANGED <<objects, ruined>>

-----------------------------------------------------------------------------
(* PFAT_Seek, PFAT_Close and PFAT_Read of an open file *)

HasOpen(t) == reader[t].at = "rest" /\ open[t] # NoFile
Length(t)  == Size[objects[open[t].object].file]

(* The file data of a file whose object was freed is anything.                 *)
UseFreed(t) ==
  /\ HasOpen(t) /\ open[t].object = Freed
  /\ ruined' = TRUE
  /\ UNCHANGED <<objects, listLock, open, reader, result>>

Seek(t) ==
  /\ HasOpen(t) /\ open[t].object # Freed
  /\ \E pos \in 0..(Length(t) - 1) : open' = [open EXCEPT ![t] = [object |-> @.object, pos |-> pos]]
  /\ result' = [result EXCEPT ![t] = Nothing]
  /\ UNCHANGED <<objects, listLock, reader, ruined>>

Close(t) ==
  /\ HasOpen(t)
  /\ open' = [open EXCEPT ![t] = NoFile]
  /\ UNCHANGED <<objects, listLock, reader, result, ruined>>

StartRead(t) ==
  /\ HasOpen(t) /\ open[t].object # Freed
  /\ \E end \in (open[t].pos + 1)..Length(t) :
       reader' = [reader EXCEPT ![t] = [at |-> "block", file |-> @.file, end |-> end, i |-> 1,
                                        block |-> First[objects[open[t].object].file]]]
  /\ result' = [result EXCEPT ![t] = Nothing]
  /\ UNCHANGED <<objects, listLock, open, ruined>>

(* Every block from the first of the file on is made valid: startBlock is 0.    *)
Reading(t) == reader[t].at = "block" /\ reader[t].i <= reader[t].end
Mine(t)    == objects[open[t].object]
Change(t, object) == objects' = [objects EXCEPT ![open[t].object] = object]

EndOfChain(t) ==
  /\ Reading(t) /\ reader[t].block = EndOfFile
  /\ Return(t, Nothing)
  /\ UNCHANGED <<objects, listLock, open, ruined>>

(* Mutant of LockFile: whether a block is valid is seen before the lock.        *)
LookThenLock(t) ==
  /\ Reading(t) /\ reader[t].block # EndOfFile
  /\ reader[t].i \in Mine(t).valid \/ Mine(t).lock = NoOne
  /\ Proceed(t, IF reader[t].i \in Mine(t).valid THEN "unlock" ELSE "transfer")
  /\ UNCHANGED <<objects, listLock, open, result, ruined>>

(* One thread at a time looks whether a block is valid.                        *)
LockFile(t) ==
  /\ Reading(t) /\ reader[t].block # EndOfFile /\ Mine(t).lock = NoOne
  /\ Change(t, [Mine(t) EXCEPT !.lock = t])
  /\ Proceed(t, IF reader[t].i \in Mine(t).valid THEN "unlock" ELSE "transfer")
  /\ UNCHANGED <<listLock, open, result, ruined>>

(* Mutant of Transfer: a block is valid whether or not it could be read.        *)
TransferAnyhow(t) ==
  /\ reader[t].at = "transfer"
  /\ \E failed \in BOOLEAN :
       Change(t, [Mine(t) EXCEPT !.data[reader[t].i] = IF failed THEN @ ELSE reader[t].block,
                                 !.valid = @ \cup {reader[t].i}])
  /\ Proceed(t, "unlock")
  /\ UNCHANGED <<listLock, open, result, ruined>>

(* Block_Read.  A transfer that fails may have left anything in the cache.      *)
Transfer(t) ==
  /\ reader[t].at = "transfer"
  /\ Change(t, [Mine(t) EXCEPT !.data[reader[t].i] = reader[t].block,
                               !.valid = @ \cup {reader[t].i}])
  /\ Proceed(t, "unlock")
  /\ UNCHANGED <<listLock, open, result, ruined>>

FailTransfer(t) ==
  /\ reader[t].at = "transfer"
  /\ Change(t, [Mine(t) EXCEPT !.data[reader[t].i] = Junk, !.lock = NoOne])
  /\ Return(t, Nothing)
  /\ UNCHANGED <<listLock, open, ruined>>

NextBlock(t) ==
  /\ reader[t].at = "unlock"
  /\ Change(t, [Mine(t) EXCEPT !.lock = NoOne])
  /\ reader' = [reader EXCEPT ![t].at = "block", ![t].i = @ + 1, ![t].block = Fat[@]]
  /\ UNCHANGED <<listLock, open, result, ruined>>

(* The data is copied from the cache, without the lock.  The position stays.    *)
CopyData(t) ==
  /\ reader[t].at = "block" /\ ~Reading(t)
  /\ Return(t, [end  |-> reader[t].end,
                data |-> SubSeq(Mine(t).data, open[t].pos + 1, reader[t].end)])
  /\ UNCHANGED <<objects, listLock, open, ruined>>

Open(t) == StartOpen(t) \/ LockList(t) \/ AddObject(t) \/ FailToAdd(t) \/ UnlockList(t)
Read(t) == StartRead(t) \/ EndOfChain(t) \/ LockFile(t) \/ Transfer(t) \/ FailTransfer(t)
           \/ NextBlock(t) \/ CopyData(t)

Next == ~ruined /\ \E t \in Threads : Open(t) \/ Read(t) \/ Seek(t) \/ Close(t) \/ UseFreed(t)

Spec == Init /\ [][Next]_vars

-----------------------------------------------------------------------------
(* Properties *)

(* The first n blocks of a file, along the FAT, when it has as many.             *)
Chains(f, n) == {c \in [1..n -> DOMAIN Fat] :
                   \A i \in 1..n : c[i] = IF i = 1 THEN First[f] ELSE Fat[c[i - 1]]}

(* A read that succeeds gives the blocks of the file it is open on, from its    *)
(* position to the end that was asked for, all of them and no others, however   *)
(* many others opened and read meanwhile and whatever transfers failed          *)
(* (pfat.c:155).                                                               *)
ReadsTheFile ==
  \A t \in Threads :
    (open[t] # NoFile /\ open[t].object # Freed /\ result[t] # Nothing) =>
      \E c \in Chains(Mine(t).file, result[t].end) :
        result[t].data = SubSeq(c, open[t].pos + 1, result[t].end)

(* The cache of a file is one: a file has one object, and a block is fetched    *)
(* by one thread, and never again once it is valid (pfat.c:338, 153).           *)
FetchedOnce ==
  /\ \A o, q \in DOMAIN objects : objects[o].file = objects[q].file => o = q
  /\ \A t \in Threads : reader[t].at = "transfer" =>
       /\ reader[t].i \notin Mine(t).valid
       /\ \A u \in Threads \ {t} : reader[u].at = "transfer" => open[u].object # open[t].object
=============================================================================
