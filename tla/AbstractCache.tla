---------------------------- MODULE AbstractCache ----------------------------
(***************************************************************************)
(* What a buffer cache promises its users: the blocks of the disk, each    *)
(* used by one thread at a time.  Only the thread that has a block changes *)
(* it; no transfer, eviction or synchronisation does.                      *)
(***************************************************************************)
CONSTANTS Threads, NoThread, Blocks, NoBlock, Sectors, Values

VARIABLES
  content,  (* what a user of the block would find in it                    *)
  user,     (* the thread that has the block                                *)
  want      (* the block each thread has asked for                          *)

vars == <<content, user, want>>

Init ==
  /\ content \in [Blocks -> [Sectors -> Values]]
  /\ user = [b \in Blocks |-> NoThread]
  /\ want = [t \in Threads |-> NoBlock]

Ask(t, b) ==
  /\ want[t] = NoBlock
  /\ want' = [want EXCEPT ![t] = b]
  /\ UNCHANGED <<content, user>>

Get(t) ==
  /\ want[t] # NoBlock /\ user[want[t]] = NoThread
  /\ user' = [user EXCEPT ![want[t]] = t]
  /\ UNCHANGED <<content, want>>

Change(t) ==
  /\ want[t] # NoBlock /\ user[want[t]] = t
  /\ \E s \in Sectors, v \in Values :
       content' = [content EXCEPT ![want[t]][s] = v]
  /\ UNCHANGED <<user, want>>

(* The block is released, or could not be had. *)
Leave(t) ==
  /\ want[t] # NoBlock
  /\ user' = [b \in Blocks |-> IF user[b] = t THEN NoThread ELSE user[b]]
  /\ want' = [want EXCEPT ![t] = NoBlock]
  /\ UNCHANGED content

Next == \E t \in Threads : Get(t) \/ Change(t) \/ Leave(t) \/ \E b \in Blocks : Ask(t, b)

Spec == Init /\ [][Next]_vars
=============================================================================
