----------------------------- MODULE AbstractDisk -----------------------------
(***************************************************************************)
(* What Block_Read and Block_Write promise (blockdev.c): each takes effect *)
(* at one instant between the call and the return, or returns an error.    *)
(***************************************************************************)
CONSTANTS Clients, Devices, Blocks, Values, NoRequest

VARIABLES
  disk,    (* the value of each block of each device                        *)
  req,     (* the request each client is waiting for: dev, type, block, buf *)
  state    (* "none", "pending", "done" or "failed"                         *)

vars == <<disk, req, state>>

Requests == [dev : Devices, type : {"read", "write"}, block : Blocks, buf : Values]

Init ==
  /\ disk \in [Devices -> [Blocks -> Values]]
  /\ req = [c \in Clients |-> NoRequest]
  /\ state = [c \in Clients |-> "none"]

Invoke(c, r) ==
  /\ state[c] = "none"
  /\ req' = [req EXCEPT ![c] = r]
  /\ state' = [state EXCEPT ![c] = "pending"]
  /\ UNCHANGED disk

Transfer(c) ==
  /\ state[c] = "pending"
  /\ IF req[c].type = "read"
     THEN /\ req' = [req EXCEPT ![c].buf = disk[req[c].dev][req[c].block]]
          /\ UNCHANGED disk
     ELSE /\ disk' = [disk EXCEPT ![req[c].dev][req[c].block] = req[c].buf]
          /\ UNCHANGED req
  /\ state' = [state EXCEPT ![c] = "done"]

(* A failed read leaves anything in the buffer; a failed write may have     *)
(* reached the disk.                                                        *)
Fail(c) ==
  /\ state[c] = "pending"
  /\ \/ /\ req[c].type = "read"
        /\ \E v \in Values : req' = [req EXCEPT ![c].buf = v]
        /\ UNCHANGED disk
     \/ /\ req[c].type = "write"
        /\ disk' = [disk EXCEPT ![req[c].dev][req[c].block] = req[c].buf]
        /\ UNCHANGED req
     \/ UNCHANGED <<disk, req>>
  /\ state' = [state EXCEPT ![c] = "failed"]

Return(c) ==
  /\ state[c] \in {"done", "failed"}
  /\ req' = [req EXCEPT ![c] = NoRequest]
  /\ state' = [state EXCEPT ![c] = "none"]
  /\ UNCHANGED disk

Next ==
  \E c \in Clients :
    \/ \E r \in Requests : Invoke(c, r)
    \/ Transfer(c) \/ Fail(c) \/ Return(c)

Spec == Init /\ [][Next]_vars
=============================================================================
