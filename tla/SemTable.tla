------------------------------- MODULE SemTable -------------------------------
(***************************************************************************)
(* The table of semaphores: Create_Semaphore and Destroy_Semaphore of      *)
(* synch.c, the list of semaphores in every user context, and the end of a *)
(* process, whose semaphores the reaper destroys for it.  What P and V do  *)
(* to one semaphore is in Synch; here a process is inside P or it is not.  *)
(*                                                                         *)
(* System calls create and destroy with interrupts disabled, so each is    *)
(* one step; the reaper is preempted between two semaphores.  Memory from  *)
(* Malloc holds what it held before: refCount of a new semaphore starts    *)
(* from there, and of the list of semaphores only the first entries are    *)
(* cleared.                                                                *)
(***************************************************************************)
EXTENDS Naturals, Sequences, FiniteSets, FiniteSetsExt

CONSTANTS
  Procs,          (* the processes                                           *)
  Names,          (* names of semaphores                                     *)
  MaxSid,         (* bound: semaphores made in all                            *)
  MaxRefs,        (* bound: refCount of one; who dies leaves references behind *)
  NumEntries,     (* entries of a context's list                              *)
  Cleared,        (* those that are cleared when it is made                   *)
  Leftovers       (* what refCount of a new semaphore may start from          *)

ASSUME SemTableAssumption ==
  /\ MaxSid \in Nat /\ MaxRefs \in Nat /\ NumEntries \in Nat /\ Cleared \in 0..NumEntries
  /\ Leftovers \subseteq Nat

Sids     == 1..MaxSid
Entries  == 1..NumEntries
Free     == 0               (* an entry that is null                          *)
Leftover == MaxSid + 1      (* an entry nobody cleared: not the id of any     *)

VARIABLES
  sema,       (* s_semaphoreList, in order: records of sid, name, refCount   *)
  nextSid,    (* the static variable sid                                     *)
  semaphores, (* the list of each user context                               *)
  life,       (* "none", "alive", "dead"                                     *)
  todo,       (* the next entry of a dead context to be destroyed             *)
  holds,      (* how often each process created each semaphore and has not    *)
              (* destroyed it since                                          *)
  inP         (* the semaphore each process is inside P of, or Free           *)

vars == <<sema, nextSid, semaphores, life, todo, holds, inP>>

TypeOK ==
  /\ sema \in Seq([sid : Sids, name : Names, refCount : Nat])
  /\ nextSid \in 1..(MaxSid + 1)
  /\ semaphores \in [Procs -> [Entries -> Sids \cup {Free, Leftover}]]
  /\ life \in [Procs -> {"none", "alive", "dead"}]
  /\ todo \in [Procs -> 1..(NumEntries + 1)]
  /\ holds \in [Procs -> [Sids -> Nat]]
  /\ inP \in [Procs -> Sids \cup {Free}]

NewList == [e \in Entries |-> IF e <= Cleared THEN Free ELSE Leftover]

Init ==
  /\ sema = <<>> /\ nextSid = 1
  /\ semaphores = [p \in Procs |-> NewList]
  /\ life = [p \in Procs |-> "none"]
  /\ todo = [p \in Procs |-> 1]
  /\ holds = [p \in Procs |-> [s \in Sids |-> 0]]
  /\ inP = [p \in Procs |-> Free]

Named(n)  == {i \in DOMAIN sema : sema[i].name = n}
WithId(s) == {i \in DOMAIN sema : sema[i].sid = s}
Exists(s) == WithId(s) # {}
Runs(p)   == life[p] = "alive" /\ inP[p] = Free

-----------------------------------------------------------------------------
(* The first entry of a list that holds x is set to y, if there is one.       *)
Replace(list, x, y) ==
  LET at == {e \in Entries : list[e] = x}
  IN IF at = {} THEN list ELSE [list EXCEPT ![Min(at)] = y]

Reference(i) == sema' = [sema EXCEPT ![i].refCount = @ + 1]

(* Create_Semaphore of a name that exists: its creator's list is left alone.  *)
OpenSemaphore(p, n) ==
  /\ Runs(p) /\ Named(n) # {}
  /\ LET i == Min(Named(n)) IN
     /\ sema[i].refCount < MaxRefs                             \* bound
     /\ Reference(i)
     /\ holds' = [holds EXCEPT ![p][sema[i].sid] = @ + 1]
  /\ UNCHANGED <<nextSid, semaphores, life, todo, inP>>

NewSid == nextSid

(* Create_Semaphore of a new name.                                            *)
Create_Semaphore(p, n, leftover) ==
  /\ Runs(p) /\ Named(n) = {} /\ nextSid <= MaxSid             \* bound
  /\ sema' = Append(sema, [sid |-> NewSid, name |-> n, refCount |-> leftover + 1])
  /\ nextSid' = nextSid + 1
  /\ semaphores' = [semaphores EXCEPT ![p] = Replace(@, Free, NewSid)]
  /\ holds' = [holds EXCEPT ![p][NewSid] = 1]
  /\ UNCHANGED <<life, todo, inP>>

(* Destroy_Semaphore: the last reference frees it.  Processes are well        *)
(* behaved, here and in EnterP: they destroy and use what they hold.  The code *)
(* looks at the id alone (synch.c:78, 112), and takes any process's word.      *)
Unreference(s) ==
  LET i == Min(WithId(s)) IN
  sema' = IF sema[i].refCount = 1
          THEN SubSeq(sema, 1, i - 1) \o SubSeq(sema, i + 1, Len(sema))
          ELSE [sema EXCEPT ![i].refCount = @ - 1]

(* Mutant of Destroy_Semaphore: the caller's list keeps the semaphore.        *)
Destroy_Unlisted_Semaphore(p, s) ==
  /\ Runs(p) /\ holds[p][s] > 0
  /\ IF Exists(s) THEN Unreference(s) ELSE UNCHANGED sema
  /\ holds' = [holds EXCEPT ![p][s] = @ - 1]
  /\ UNCHANGED <<nextSid, semaphores, life, todo, inP>>

Destroy_Semaphore(p, s) ==
  /\ Runs(p) /\ holds[p][s] > 0
  /\ IF Exists(s)
     THEN /\ Unreference(s)
          /\ semaphores' = [semaphores EXCEPT ![p] = Replace(@, s, Free)]
     ELSE UNCHANGED <<sema, semaphores>>
  /\ holds' = [holds EXCEPT ![p][s] = @ - 1]
  /\ UNCHANGED <<nextSid, life, todo, inP>>

EnterP(p, s) ==
  /\ Runs(p) /\ holds[p][s] > 0
  /\ inP' = [inP EXCEPT ![p] = s]
  /\ UNCHANGED <<sema, nextSid, semaphores, life, todo, holds>>

LeaveP(p) ==
  /\ life[p] = "alive" /\ inP[p] # Free
  /\ inP' = [inP EXCEPT ![p] = Free]
  /\ UNCHANGED <<sema, nextSid, semaphores, life, todo, holds>>

-----------------------------------------------------------------------------
Start(p) ==
  /\ life[p] = "none"
  /\ life' = [life EXCEPT ![p] = "alive"]
  /\ UNCHANGED <<sema, nextSid, semaphores, todo, holds, inP>>

Exit(p) ==
  /\ Runs(p)
  /\ life' = [life EXCEPT ![p] = "dead"]
  /\ todo' = [todo EXCEPT ![p] = 1]
  /\ holds' = [holds EXCEPT ![p] = [s \in Sids |-> 0]]
  /\ UNCHANGED <<sema, nextSid, semaphores, inP>>

(* Destroy_User_Context, by the reaper: its own user context is the one whose *)
(* list Destroy_Semaphore looks at, and it has none.                          *)
DestroyEntry(p) ==
  /\ life[p] = "dead" /\ todo[p] \in Entries
  /\ IF Exists(semaphores[p][todo[p]]) THEN Unreference(semaphores[p][todo[p]])
                                       ELSE UNCHANGED sema
  /\ todo' = [todo EXCEPT ![p] = @ + 1]
  /\ UNCHANGED <<nextSid, semaphores, life, holds, inP>>

FreeContext(p) ==
  /\ life[p] = "dead" /\ todo[p] \notin Entries
  /\ life' = [life EXCEPT ![p] = "none"]
  /\ semaphores' = [semaphores EXCEPT ![p] = NewList]
  /\ todo' = [todo EXCEPT ![p] = 1]
  /\ UNCHANGED <<sema, nextSid, holds, inP>>

Next == \E p \in Procs :
  \/ Start(p) \/ Exit(p) \/ DestroyEntry(p) \/ FreeContext(p) \/ LeaveP(p)
  \/ \E n \in Names : OpenSemaphore(p, n) \/ \E v \in Leftovers : Create_Semaphore(p, n, v)
  \/ \E s \in Sids : Destroy_Semaphore(p, s) \/ EnterP(p, s)

Spec == Init /\ [][Next]_vars

-----------------------------------------------------------------------------
(* Properties *)

(* A semaphore that a process holds, or is inside P of, exists: destroying it *)
(* for others, and the reaper, which destroys what a dead process had made,    *)
(* never take a reference that somebody else counts on.                       *)
HeldExists ==
  \A p \in Procs : /\ \A s \in Sids : holds[p][s] > 0 => Exists(s)
                   /\ inP[p] # Free => Exists(inP[p])
=============================================================================
