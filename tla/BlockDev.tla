------------------------------- MODULE BlockDev -------------------------------
(***************************************************************************)
(* Block device requests: src/geekos/blockdev.c and the request threads of *)
(* ide.c and floppy.c.  A client posts a request and waits; the device's   *)
(* driver thread takes it, does the transfer and notifies the client.  The *)
(* two IDE drives share one queue and one thread.                          *)
(*                                                                         *)
(* Threads interleave at will; what runs with interrupts disabled is one   *)
(* action.  A client has one request at a time and the request is named by *)
(* it; the request whose allocation fails is never posted and not seen.    *)
(***************************************************************************)
EXTENDS Naturals, Sequences, SequencesExt

CONSTANTS
  Clients,      (* the threads that read and write                          *)
  NoClient,
  IDEDrives,    (* the IDE drives                                           *)
  Floppies,     (* the floppy drives                                        *)
  Blocks,       (* the blocks of every drive                                *)
  BadBlocks,    (* block numbers past the end of a drive, asked of IDE ones *)
  Values,       (* contents of a block                                      *)
  Poison,       (* the contents of a drive and of a buffer before any I/O    *)
  NoRequest,
  Faulty        (* the drives whose transfers may fail                      *)

Devices == IDEDrives \cup Floppies
Drivers == {"ide", "floppy"}
DriverOf(d) == IF d \in IDEDrives THEN "ide" ELSE "floppy"
SeekAttempts == 4

ASSUME BlockDevAssumption ==
  /\ IDEDrives \cap Floppies = {} /\ Blocks \cap BadBlocks = {}
  /\ NoClient \notin Clients /\ Poison \in Values
  /\ NoRequest \notin [dev : Devices, type : {"read", "write"}, block : Blocks \cup BadBlocks,
                       buf : Values]
  /\ Faulty \subseteq Devices

(* A buffer to be read into holds Poison, the contents of a fresh drive.    *)
Request(devs, blocks) ==
  [dev : devs, type : {"write"}, block : blocks, buf : Values \ {Poison}]
    \cup [dev : devs, type : {"read"}, block : blocks, buf : {Poison}]

Requests == Request(Devices, Blocks) \cup Request(IDEDrives, BadBlocks)

VARIABLES
  disk,       (* the contents of the drives                                 *)
  req,        (* the request of each client                                 *)
  state,      (* its state field: "PENDING", "COMPLETED", "ERROR"           *)
  waiting,    (* the clients on their request's wait queue                  *)
  queue,      (* the request queue of each driver                           *)
  asleep,     (* the drivers waiting for a request, on waitQueue            *)
  dpc,        (* where each driver thread stands                            *)
  serving,    (* the client whose request it has taken                      *)
  rc,         (* the result of its transfer                                 *)
  attempts,   (* numAttempts of Floppy_Seek                                 *)
  command,    (* the floppy controller is executing a command               *)
  irqWait,    (* the floppy thread is on s_floppyInterruptWaitQueue         *)
  panic       (* a KASSERT failed                                           *)

clientVars == <<req, state, waiting>>
floppyVars == <<attempts, command, irqWait>>
vars == <<disk, clientVars, queue, asleep, dpc, serving, rc, floppyVars, panic>>

Init ==
  /\ disk = [d \in Devices |-> [b \in Blocks |-> Poison]]
  /\ req = [c \in Clients |-> NoRequest]
  /\ state = [c \in Clients |-> "PENDING"]
  /\ waiting = {}
  /\ queue = [k \in Drivers |-> << >>]
  /\ asleep = {}
  /\ dpc = [k \in Drivers |-> "dequeue"]
  /\ serving = [k \in Drivers |-> NoClient]
  /\ rc = [k \in Drivers |-> "none"]
  /\ attempts = 0
  /\ command = FALSE
  /\ irqWait = FALSE
  /\ panic = FALSE
-----------------------------------------------------------------------------
(* Mutant of Post: the driver is not woken. *)
PostSilently(c, r) ==
  /\ req[c] = NoRequest
  /\ req' = [req EXCEPT ![c] = r]
  /\ state' = [state EXCEPT ![c] = "PENDING"]
  /\ queue' = [queue EXCEPT ![DriverOf(r.dev)] = Append(@, c)]
  /\ UNCHANGED <<disk, waiting, asleep, dpc, serving, rc, floppyVars, panic>>

(* Create_Request and the first half of Post_Request_And_Wait. *)
Post(c, r) ==
  /\ req[c] = NoRequest
  /\ req' = [req EXCEPT ![c] = r]
  /\ state' = [state EXCEPT ![c] = "PENDING"]
  /\ LET k == DriverOf(r.dev)
     IN  /\ queue'  = [queue EXCEPT ![k] = Append(@, c)]
         /\ asleep' = asleep \ {k}
  /\ UNCHANGED <<disk, waiting, dpc, serving, rc, floppyVars, panic>>

(* Mutant of AwaitCompletion: the state is not tested before waiting. *)
AwaitAlways(c) ==
  /\ req[c] # NoRequest /\ c \notin waiting
  /\ \/ waiting' = waiting \cup {c} /\ UNCHANGED <<req, state>>
     \/ /\ state[c] # "PENDING" /\ UNCHANGED waiting
        /\ req' = [req EXCEPT ![c] = NoRequest]
        /\ state' = [state EXCEPT ![c] = "PENDING"]
  /\ UNCHANGED <<disk, queue, asleep, dpc, serving, rc, floppyVars, panic>>

(* The second half, entered and on every wakeup, with interrupts disabled:  *)
(* wait while the request is pending, else Do_Request frees it and returns  *)
(* (the state of a freed request is reset here, it means nothing any more). *)
AwaitCompletion(c) ==
  /\ req[c] # NoRequest /\ c \notin waiting
  /\ \/ /\ state[c] = "PENDING"
        /\ waiting' = waiting \cup {c}
        /\ UNCHANGED <<req, state>>
     \/ /\ state[c] # "PENDING"
        /\ req' = [req EXCEPT ![c] = NoRequest]
        /\ state' = [state EXCEPT ![c] = "PENDING"]
        /\ UNCHANGED waiting
  /\ UNCHANGED <<disk, queue, asleep, dpc, serving, rc, floppyVars, panic>>
-----------------------------------------------------------------------------
DriverAt(k, label) == k \notin asleep /\ dpc[k] = label

(* Mutant of DequeueRequest: the request stays at the front of the queue. *)
DequeueKeeps(k) ==
  /\ DriverAt(k, "dequeue")
  /\ \/ /\ queue[k] = << >>
        /\ asleep' = asleep \cup {k}
        /\ UNCHANGED <<dpc, serving>>
     \/ /\ queue[k] # << >>
        /\ serving' = [serving EXCEPT ![k] = Head(queue[k])]
        /\ dpc' = [dpc EXCEPT ![k] = "start"]
        /\ UNCHANGED asleep
  /\ UNCHANGED <<disk, clientVars, queue, rc, floppyVars, panic>>

(* Dequeue_Request: wait for a request and take the first. *)
DequeueRequest(k) ==
  /\ DriverAt(k, "dequeue")
  /\ \/ /\ queue[k] = << >>
        /\ asleep' = asleep \cup {k}
        /\ UNCHANGED <<queue, dpc, serving>>
     \/ /\ queue[k] # << >>
        /\ serving' = [serving EXCEPT ![k] = Head(queue[k])]
        /\ queue' = [queue EXCEPT ![k] = Tail(@)]
        /\ dpc' = [dpc EXCEPT ![k] = "start"]
        /\ UNCHANGED asleep
  /\ UNCHANGED <<disk, clientVars, rc, floppyVars, panic>>

(* The transfer of client c's request to or from the drive. *)
Transfer(c) ==
  LET r == req[c]
  IN  IF r.type = "read"
      THEN /\ req' = [req EXCEPT ![c].buf = disk[r.dev][r.block]]
           /\ UNCHANGED disk
      ELSE /\ disk' = [disk EXCEPT ![r.dev][r.block] = r.buf]
           /\ UNCHANGED req

(* A transfer that fails; the data of a write may have reached the disk. *)
FailedTransfer(c) ==
  \/ UNCHANGED <<disk, req>>
  \/ req[c].type = "write" /\ Transfer(c)

Finish(k, result) ==
  /\ rc' = [rc EXCEPT ![k] = result]
  /\ dpc' = [dpc EXCEPT ![k] = "notify"]

(* Mutant of IDETransfer: the drive number is not used. *)
IDETransferFirstDrive ==
  /\ DriverAt("ide", "start")
  /\ LET c == serving["ide"]
         d == CHOOSE d \in IDEDrives : TRUE
     IN  \/ /\ req[c].block \in BadBlocks
            /\ Finish("ide", "error")
            /\ UNCHANGED <<disk, req>>
         \/ /\ req[c].block \in Blocks
            /\ IF req[c].type = "read"
               THEN /\ req' = [req EXCEPT ![c].buf = disk[d][req[c].block]]
                    /\ UNCHANGED disk
               ELSE /\ disk' = [disk EXCEPT ![d][req[c].block] = req[c].buf]
                    /\ UNCHANGED req
            /\ Finish("ide", "ok")
  /\ UNCHANGED <<state, waiting, queue, asleep, serving, floppyVars, panic>>

(* IDE_Read and IDE_Write, with interrupts disabled: the drive is polled.   *)
(* After a drive error they return with interrupts still disabled.          *)
IDETransfer ==
  /\ DriverAt("ide", "start")
  /\ LET c == serving["ide"]
     IN  \/ /\ req[c].block \in BadBlocks
            /\ Finish("ide", "error")
            /\ UNCHANGED <<disk, req>>
         \/ /\ req[c].block \in Blocks
            /\ Transfer(c)
            /\ Finish("ide", "ok")
         \/ /\ req[c].block \in Blocks /\ req[c].dev \in Faulty
            /\ FailedTransfer(c)
            /\ Finish("ide", "interrupts disabled")
  /\ UNCHANGED <<state, waiting, queue, asleep, serving, floppyVars, panic>>
-----------------------------------------------------------------------------
(* Mutant of FloppyStart: one attempt too many. *)
FloppyStartFive ==
  /\ DriverAt("floppy", "start")
  /\ attempts' = SeekAttempts + 1
  /\ dpc' = [dpc EXCEPT !["floppy"] = "seek"]
  /\ UNCHANGED <<disk, clientVars, queue, asleep, serving, rc, command, irqWait, panic>>

(* Floppy_Read and Floppy_Write, up to the seek. *)
FloppyStart ==
  /\ DriverAt("floppy", "start")
  /\ attempts' = SeekAttempts
  /\ dpc' = [dpc EXCEPT !["floppy"] = "seek"]
  /\ UNCHANGED <<disk, clientVars, queue, asleep, serving, rc, command, irqWait, panic>>

(* Issue a command and wait for the controller's interrupt, with interrupts *)
(* disabled in between.                                                     *)
FloppyIssue(from, to) ==
  /\ DriverAt("floppy", from)
  /\ command' = TRUE
  /\ irqWait' = TRUE
  /\ dpc' = [dpc EXCEPT !["floppy"] = to]
  /\ UNCHANGED <<disk, clientVars, queue, asleep, serving, rc, panic>>

FloppySeek ==
  /\ attempts > 0
  /\ FloppyIssue("seek", "sought")
  /\ attempts' = attempts - 1

(* Floppy_Interrupt_Handler wakes the driver. *)
FloppyInterrupt ==
  /\ command
  /\ command' = FALSE
  /\ irqWait' = FALSE
  /\ UNCHANGED <<disk, clientVars, queue, asleep, dpc, serving, rc, attempts, panic>>

(* The head has arrived, or not: four attempts, then an error. *)
FloppySought ==
  /\ DriverAt("floppy", "sought") /\ ~irqWait
  /\ \/ /\ dpc' = [dpc EXCEPT !["floppy"] = "transfer"]
        /\ UNCHANGED rc
     \/ /\ req[serving["floppy"]].dev \in Faulty
        /\ IF attempts = 0 THEN Finish("floppy", "error")
           ELSE dpc' = [dpc EXCEPT !["floppy"] = "seek"] /\ UNCHANGED rc
  /\ UNCHANGED <<disk, clientVars, queue, asleep, serving, floppyVars, panic>>

FloppyTransfer ==
  FloppyIssue("transfer", "transferred") /\ UNCHANGED attempts

FloppyTransferred ==
  /\ DriverAt("floppy", "transferred") /\ ~irqWait
  /\ LET c == serving["floppy"]
     IN  \/ Transfer(c) /\ Finish("floppy", "ok")
         \/ /\ req[c].dev \in Faulty
            /\ FailedTransfer(c) /\ Finish("floppy", "error")
  /\ UNCHANGED <<state, waiting, queue, asleep, serving, floppyVars, panic>>
-----------------------------------------------------------------------------
(* Mutant of NotifyCompletion: the state is set after the wakeup. *)
NotifyOnlyIfWaiting(k) ==
  /\ DriverAt(k, "notify")
  /\ state' = [state EXCEPT ![serving[k]] =
                 IF serving[k] \in waiting
                 THEN (IF rc[k] = "ok" THEN "COMPLETED" ELSE "ERROR") ELSE @]
  /\ waiting' = waiting \ {serving[k]}
  /\ serving' = [serving EXCEPT ![k] = NoClient]
  /\ rc' = [rc EXCEPT ![k] = "none"]
  /\ dpc' = [dpc EXCEPT ![k] = "dequeue"]
  /\ UNCHANGED <<disk, req, queue, asleep, floppyVars, panic>>

(* Notify_Request_Completion.  Its Disable_Interrupts is a failed KASSERT   *)
(* if interrupts already are disabled.                                      *)
NotifyCompletion(k) ==
  /\ DriverAt(k, "notify")
  /\ IF rc[k] = "interrupts disabled"
     THEN panic' = TRUE /\ UNCHANGED <<state, waiting, serving, rc, dpc>>
     ELSE /\ state' = [state EXCEPT ![serving[k]] =
                         IF rc[k] = "ok" THEN "COMPLETED" ELSE "ERROR"]
          /\ waiting' = waiting \ {serving[k]}
          /\ serving' = [serving EXCEPT ![k] = NoClient]
          /\ rc' = [rc EXCEPT ![k] = "none"]
          /\ dpc' = [dpc EXCEPT ![k] = "dequeue"]
          /\ UNCHANGED panic
  /\ UNCHANGED <<disk, req, queue, asleep, floppyVars>>
-----------------------------------------------------------------------------
Driver(k) ==
  \/ DequeueRequest(k) \/ NotifyCompletion(k)
  \/ k = "ide" /\ IDETransfer
  \/ k = "floppy" /\ (\/ FloppyStart \/ FloppySeek \/ FloppySought
                      \/ FloppyTransfer \/ FloppyTransferred)

Next ==
  /\ ~panic
  /\ \/ \E c \in Clients :
           \/ \E r \in Requests : Post(c, r)
           \/ AwaitCompletion(c)
     \/ \E k \in Drivers : Driver(k)
     \/ FloppyInterrupt

Spec == Init /\ [][Next]_vars
-----------------------------------------------------------------------------
(* Every variable stays in its range. *)
TypeOK ==
  /\ disk \in [Devices -> [Blocks -> Values]]
  /\ req \in [Clients -> {NoRequest} \cup
       [dev : Devices, type : {"read", "write"}, block : Blocks \cup BadBlocks, buf : Values]]
  /\ state \in [Clients -> {"PENDING", "COMPLETED", "ERROR"}]
  /\ waiting \subseteq Clients
  /\ queue \in [Drivers -> Seq(Clients)]
  /\ asleep \subseteq Drivers
  /\ dpc \in [Drivers -> {"dequeue", "start", "seek", "sought", "transfer",
                          "transferred", "notify"}]
  /\ serving \in [Drivers -> Clients \cup {NoClient}]
  /\ rc \in [Drivers -> {"none", "ok", "error", "interrupts disabled"}]
  /\ attempts \in 0 .. SeekAttempts
  /\ command \in BOOLEAN /\ irqWait \in BOOLEAN
  /\ panic \in BOOLEAN

(* The request c is known to driver k: queued, or being served. *)
Holds(k, c) == Contains(queue[k], c) \/ serving[k] = c

(* A pending request is in exactly one place, its drive's queue or thread,  *)
(* and one that is complete or freed is in none: no driver ever touches a   *)
(* request that Do_Request has freed.                                       *)
RequestInOnePlace ==
  /\ \A k \in Drivers : IsInjective(queue[k]) /\ ~Contains(queue[k], serving[k])
  /\ \A c \in Clients, k \in Drivers :
       Holds(k, c) <=> /\ req[c] # NoRequest /\ state[c] = "PENDING"
                       /\ k = DriverOf(req[c].dev)

(* No wakeup is lost: a waiting client's request is still pending, a driver *)
(* that sleeps for a request has none queued, and the floppy thread sleeps  *)
(* for an interrupt only while the controller still has to raise it.        *)
NobodySleepsInVain ==
  /\ \A c \in waiting : req[c] # NoRequest /\ state[c] = "PENDING"
  /\ \A k \in asleep : dpc[k] = "dequeue" /\ queue[k] = << >>
  /\ irqWait => command

(* No KASSERT fails. *)
NoPanic == ~panic

(* To the clients the queues and the driver threads are a disk. *)
Finished(c) == {k \in Drivers : serving[k] = c /\ dpc[k] = "notify"}

AbsState(c) ==
  IF req[c] = NoRequest THEN "none"
  ELSE IF state[c] = "COMPLETED" \/ \E k \in Finished(c) : rc[k] = "ok" THEN "done"
  ELSE IF state[c] = "ERROR" \/ Finished(c) # {} THEN "failed"
  ELSE "pending"

AbsDisk(d) == [b \in Blocks \cup BadBlocks |-> IF b \in Blocks THEN disk[d][b] ELSE Poison]

Abs == INSTANCE AbstractDisk WITH
  Blocks <- Blocks \cup BadBlocks,
  disk <- [d \in Devices |-> AbsDisk(d)],
  state <- [c \in Clients |-> AbsState(c)]

(* Reads return what was last written and an error is returned as one, with *)
(* two drives behind one queue and the clients preempted anywhere.          *)
ImplementsDisk == Abs!Spec
-----------------------------------------------------------------------------
(* The scheduler runs every ready thread, and the floppy controller         *)
(* finishes every command.                                                  *)
FairSpec ==
  /\ Spec
  /\ \A c \in Clients : WF_vars(AwaitCompletion(c))
  /\ \A k \in Drivers : WF_vars(Driver(k))
  /\ WF_vars(FloppyInterrupt)

(* Post_Request_And_Wait "returns when the driver completes the requests or *)
(* signals an error" (blockdev.c:181): it does return.                      *)
RequestsComplete == \A c \in Clients : req[c] # NoRequest ~> req[c] = NoRequest
-----------------------------------------------------------------------------
(* The inductive invariant.  A driver has a request from Dequeue_Request to *)
(* Notify_Request_Completion, and a result from the end of the transfer:    *)
DriverInv ==
  /\ \A k \in Drivers : /\ dpc[k] = "dequeue" <=> serving[k] = NoClient
                        /\ dpc[k] = "notify" <=> rc[k] # "none"
  /\ dpc["ide"] \in {"dequeue", "start", "notify"}

(* The floppy driver is asked only for blocks that exist: *)
FloppyInv ==
  \A c \in Clients : req[c] # NoRequest /\ req[c].dev \in Floppies => req[c].block \in Blocks

IInv == TypeOK /\ DriverInv /\ FloppyInv /\ RequestInOnePlace /\ NobodySleepsInVain
=============================================================================
