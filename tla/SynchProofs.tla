----------------------------- MODULE SynchProofs -----------------------------
(***************************************************************************)
(* Proofs about Synch for any set of processes and semaphores.             *)
(***************************************************************************)
EXTENDS Synch, ListFacts, TLAPS

-----------------------------------------------------------------------------
(* Queues *)

LEMMA DistinctBridge ==
  ASSUME NEW S, NEW s \in Seq(S)
  PROVE  IsInjective(s) <=> Distinct(s)
  BY DEF IsInjective, Distinct

(* A process that is on no queue of semaphore s may be added to one. *)
LEMMA AddFact ==
  ASSUME NEW q \in Seq(Procs), NEW p \in Procs
  PROVE  /\ Append(q, p) \in Seq(Procs) /\ Append(q, p) # << >>
         /\ \A u : Contains(Append(q, p), u) <=> Contains(q, u) \/ u = p
         /\ IsInjective(q) /\ ~Contains(q, p) => IsInjective(Append(q, p))
<1>1. /\ Append(q, p) \in Seq(Procs)
      /\ \A u : Contains(Append(q, p), u) <=> Contains(q, u) \/ u = p
      /\ Distinct(q) /\ ~Contains(q, p) => Distinct(Append(q, p))
  BY AppendFact
<1>2. Append(q, p) # << >>
  <2>1. Len(Append(q, p)) = Len(q) + 1 /\ Len(q) \in Nat
    OBVIOUS
  <2>2. QED BY <2>1
<1>3. QED BY <1>1, <1>2, DistinctBridge

(* Taking the first process off a queue. *)
LEMMA TakeFact ==
  ASSUME NEW q \in Seq(Procs), q # << >>
  PROVE  /\ Tail(q) \in Seq(Procs) /\ Head(q) \in Procs /\ Contains(q, Head(q))
         /\ IsInjective(q) => /\ IsInjective(Tail(q))
                              /\ \A u : Contains(Tail(q), u)
                                          <=> Contains(q, u) /\ u # Head(q)
<1>1. /\ Tail(q) \in Seq(Procs) /\ Head(q) \in Procs /\ Contains(q, Head(q))
      /\ Distinct(q) => /\ Distinct(Tail(q))
                        /\ \A u : Contains(Tail(q), u) <=> Contains(q, u) /\ u # Head(q)
  BY TailFact
<1>2. QED BY <1>1, DistinctBridge

LEMMA EmptyFact ==
  << >> \in Seq(Procs) /\ \A u : ~Contains(<< >>, u)
  BY DEF Contains
-----------------------------------------------------------------------------
(* What Init establishes *)

LEMMA InitInv == Init => IInv
<1> SUFFICES ASSUME Init PROVE IInv
  OBVIOUS
<1> USE DEF Init
<1>1. TypeOK
  <2>1. count \in [Sems -> Nat]
    BY DEF Init
  <2>2. lockQueue \in [Sems -> Seq(Procs)] /\ condQueue \in [Sems -> Seq(Procs)]
    BY EmptyFact
  <2>3. QED BY <2>1, <2>2 DEF TypeOK, PC, HolderPC, NoPreemptPC, WaitPC
<1>2. CpuInv
  BY EmptyFact DEF CpuInv, Queued, NoPreemptPC, WaitPC
<1>3. IsInjective(<< >>)
  BY DEF IsInjective
<1>4. QueueInv
  BY EmptyFact, <1>3 DEF QueueInv
<1>5. ASSUME NEW p \in Procs PROVE CallAt(p) /\ TestedAt(p)
  BY DEF CallAt, TestedAt
<1>6. MutualExclusion
  BY SynchAssumption DEF MutualExclusion, HolderPC
<1>7. NoMissedNotification /\ NoStrandedWaiter
  BY DEF NoMissedNotification, NoStrandedWaiter
<1>8. QED BY <1>1, <1>2, <1>4, <1>5, <1>6, <1>7 DEF IInv
-----------------------------------------------------------------------------
(* Steps of the process that has the CPU, without a queue *)

LEMMA LockEnterStep ==
  ASSUME IInv, NEW p \in Procs, LockEnter(p)
  PROVE  IInv'
<1> USE DEF LockEnter, At, Goto, cpuVars, callVars
<1>1. TypeOK'
  BY DEF IInv, TypeOK, CallAt, TestedAt, PC, HolderPC, NoPreemptPC, WaitPC
<1>2. CpuInv'
  BY DEF IInv, TypeOK, CpuInv, QueueInv, Queued, NoPreemptPC, WaitPC
<1>3. QueueInv'
  BY DEF IInv, TypeOK, QueueInv
<1>4. \A q \in Procs : CallAt(q)' /\ TestedAt(q)'
  BY DEF IInv, TypeOK, CpuInv, CallAt, TestedAt, NoPreemptPC, MutualExclusion, HolderPC
<1>5. MutualExclusion'
  BY DEF IInv, TypeOK, CallAt, TestedAt, MutualExclusion, HolderPC
<1>6. NoMissedNotification'
  BY DEF IInv, TypeOK, CallAt, NoMissedNotification
<1>7. NoStrandedWaiter'
  BY DEF IInv, TypeOK, NoStrandedWaiter, Rouses, Ready, Queued, WaitPC
<1>8. QED BY <1>1, <1>2, <1>3, <1>4, <1>5, <1>6, <1>7 DEF IInv

LEMMA LockTakeStep ==
  ASSUME IInv, NEW p \in Procs, LockTake(p)
  PROVE  IInv'
<1> USE DEF LockTake, At, Goto, cpuVars, callVars
<1>1. TypeOK'
  BY DEF IInv, TypeOK, CallAt, TestedAt, PC, HolderPC, NoPreemptPC, WaitPC
<1>2. CpuInv'
  BY DEF IInv, TypeOK, CpuInv, QueueInv, Queued, NoPreemptPC, WaitPC
<1>3. QueueInv'
  BY DEF IInv, TypeOK, QueueInv
<1>4. \A q \in Procs : CallAt(q)' /\ TestedAt(q)'
  BY DEF IInv, TypeOK, CpuInv, CallAt, TestedAt, NoPreemptPC, MutualExclusion, HolderPC
<1>5. MutualExclusion'
  BY SynchAssumption DEF IInv, TypeOK, CallAt, TestedAt, MutualExclusion, HolderPC
<1>6. NoMissedNotification'
  BY DEF IInv, TypeOK, CallAt, NoMissedNotification
<1>7. NoStrandedWaiter'
  <2> SUFFICES ASSUME NEW s \in Sems, owner'[s] = NoProc, lockQueue'[s] # << >>
               PROVE  \E q \in Procs : Rouses(q, s)'
    BY DEF NoStrandedWaiter
  <2>1. s # sem[p] /\ owner[s] = NoProc
    BY SynchAssumption DEF IInv, TypeOK
  <2>2. PICK q \in Procs : Rouses(q, s)
    BY <2>1 DEF IInv, NoStrandedWaiter
  <2>3. Rouses(q, s)'
    BY <2>1, <2>2 DEF IInv, TypeOK, Rouses, Ready, Queued
  <2>4. QED BY <2>2, <2>3
<1>8. QED BY <1>1, <1>2, <1>3, <1>4, <1>5, <1>6, <1>7 DEF IInv

LEMMA LockLeaveStep ==
  ASSUME IInv, NEW p \in Procs, LockLeave(p)
  PROVE  IInv'
<1> USE DEF LockLeave, At, Goto, cpuVars, callVars
<1>1. TypeOK'
  BY DEF IInv, TypeOK, CallAt, TestedAt, PC, HolderPC, NoPreemptPC, WaitPC
<1>2. CpuInv'
  BY DEF IInv, TypeOK, CpuInv, QueueInv, Queued, NoPreemptPC, WaitPC
<1>3. QueueInv'
  BY DEF IInv, TypeOK, QueueInv
<1>4. \A q \in Procs : CallAt(q)' /\ TestedAt(q)'
  BY DEF IInv, TypeOK, CpuInv, CallAt, TestedAt, NoPreemptPC, MutualExclusion, HolderPC
<1>5. MutualExclusion'
  BY DEF IInv, TypeOK, CallAt, TestedAt, MutualExclusion, HolderPC
<1>6. NoMissedNotification'
  BY DEF IInv, TypeOK, CallAt, NoMissedNotification
<1>7. NoStrandedWaiter'
  BY DEF IInv, TypeOK, NoStrandedWaiter, Rouses, Ready, Queued, WaitPC
<1>8. QED BY <1>1, <1>2, <1>3, <1>4, <1>5, <1>6, <1>7 DEF IInv

LEMMA PTestStep ==
  ASSUME IInv, NEW p \in Procs, PTest(p)
  PROVE  IInv'
<1> USE DEF PTest, At, Goto, cpuVars, callVars
<1>1. TypeOK'
  BY DEF IInv, TypeOK, CallAt, TestedAt, PC, HolderPC, NoPreemptPC, WaitPC
<1>2. CpuInv'
  BY DEF IInv, TypeOK, CpuInv, QueueInv, Queued, NoPreemptPC, WaitPC
<1>3. QueueInv'
  BY DEF IInv, TypeOK, QueueInv
<1>4. \A q \in Procs : CallAt(q)' /\ TestedAt(q)'
  BY DEF IInv, TypeOK, CpuInv, CallAt, TestedAt, NoPreemptPC, MutualExclusion, HolderPC
<1>5. MutualExclusion'
  BY DEF IInv, TypeOK, CallAt, TestedAt, MutualExclusion, HolderPC
<1>6. NoMissedNotification'
  BY DEF IInv, TypeOK, CallAt, NoMissedNotification
<1>7. NoStrandedWaiter'
  <2> SUFFICES ASSUME NEW s \in Sems, owner'[s] = NoProc, lockQueue'[s] # << >>
               PROVE  \E q \in Procs : Rouses(q, s)'
    BY DEF NoStrandedWaiter
  <2>1. PICK q \in Procs : Rouses(q, s)
    BY SynchAssumption DEF IInv, TypeOK, NoStrandedWaiter
  <2>2. q # p
    BY <2>1 DEF IInv, TypeOK, Rouses, WaitPC
  <2>3. Rouses(q, s)'
    BY <2>1, <2>2 DEF IInv, TypeOK, Rouses, Ready, Queued
  <2>4. QED BY <2>1, <2>3
<1>8. QED BY <1>1, <1>2, <1>3, <1>4, <1>5, <1>6, <1>7 DEF IInv

LEMMA PDecrementStep ==
  ASSUME IInv, NEW p \in Procs, PDecrement(p)
  PROVE  IInv'
<1> USE DEF PDecrement, At, Goto, cpuVars, callVars
<1>1. TypeOK'
  BY DEF IInv, TypeOK, CallAt, TestedAt, PC, HolderPC, NoPreemptPC, WaitPC
<1>2. CpuInv'
  BY DEF IInv, TypeOK, CpuInv, QueueInv, Queued, NoPreemptPC, WaitPC
<1>3. QueueInv'
  BY DEF IInv, TypeOK, QueueInv
<1>4. \A q \in Procs : CallAt(q)' /\ TestedAt(q)'
  BY DEF IInv, TypeOK, CpuInv, CallAt, TestedAt, NoPreemptPC, MutualExclusion, HolderPC
<1>5. MutualExclusion'
  BY DEF IInv, TypeOK, CallAt, TestedAt, MutualExclusion, HolderPC
<1>6. NoMissedNotification'
  BY DEF IInv, TypeOK, CallAt, NoMissedNotification
<1>7. NoStrandedWaiter'
  BY DEF IInv, TypeOK, NoStrandedWaiter, Rouses, Ready, Queued, WaitPC
<1>8. QED BY <1>1, <1>2, <1>3, <1>4, <1>5, <1>6, <1>7 DEF IInv

LEMMA VIncrementStep ==
  ASSUME IInv, NEW p \in Procs, VIncrement(p)
  PROVE  IInv'
<1> USE DEF VIncrement, At, Goto, cpuVars, callVars
<1>1. TypeOK'
  BY DEF IInv, TypeOK, CallAt, TestedAt, PC, HolderPC, NoPreemptPC, WaitPC
<1>2. CpuInv'
  BY DEF IInv, TypeOK, CpuInv, QueueInv, Queued, NoPreemptPC, WaitPC
<1>3. QueueInv'
  BY DEF IInv, TypeOK, QueueInv
<1>4. \A q \in Procs : CallAt(q)' /\ TestedAt(q)'
  BY DEF IInv, TypeOK, CpuInv, CallAt, TestedAt, NoPreemptPC, MutualExclusion, HolderPC
<1>5. MutualExclusion'
  BY DEF IInv, TypeOK, CallAt, TestedAt, MutualExclusion, HolderPC
<1>6. NoMissedNotification'
  BY DEF IInv, TypeOK, CallAt, NoMissedNotification
<1>7. NoStrandedWaiter'
  BY DEF IInv, TypeOK, NoStrandedWaiter, Rouses, Ready, Queued, WaitPC
<1>8. QED BY <1>1, <1>2, <1>3, <1>4, <1>5, <1>6, <1>7 DEF IInv

LEMMA UnlockEnterStep ==
  ASSUME IInv, NEW p \in Procs, UnlockEnter(p)
  PROVE  IInv'
<1> USE DEF UnlockEnter, At, Goto, cpuVars, callVars
<1>1. TypeOK'
  BY DEF IInv, TypeOK, CallAt, TestedAt, PC, HolderPC, NoPreemptPC, WaitPC
<1>2. CpuInv'
  BY DEF IInv, TypeOK, CpuInv, QueueInv, Queued, NoPreemptPC, WaitPC
<1>3. QueueInv'
  BY DEF IInv, TypeOK, QueueInv
<1>4. \A q \in Procs : CallAt(q)' /\ TestedAt(q)'
  BY DEF IInv, TypeOK, CpuInv, CallAt, TestedAt, NoPreemptPC, MutualExclusion, HolderPC
<1>5. MutualExclusion'
  BY DEF IInv, TypeOK, CallAt, TestedAt, MutualExclusion, HolderPC
<1>6. NoMissedNotification'
  BY DEF IInv, TypeOK, CallAt, NoMissedNotification
<1>7. NoStrandedWaiter'
  BY DEF IInv, TypeOK, NoStrandedWaiter, Rouses, Ready, Queued, WaitPC
<1>8. QED BY <1>1, <1>2, <1>3, <1>4, <1>5, <1>6, <1>7 DEF IInv

LEMMA UnlockReleaseStep ==
  ASSUME IInv, NEW p \in Procs, UnlockRelease(p)
  PROVE  IInv'
<1> USE DEF UnlockRelease, At, Goto, cpuVars, callVars
<1>1. TypeOK'
  BY DEF IInv, TypeOK, CallAt, TestedAt, PC, HolderPC, NoPreemptPC, WaitPC
<1>2. CpuInv'
  BY DEF IInv, TypeOK, CpuInv, QueueInv, Queued, NoPreemptPC, WaitPC
<1>3. QueueInv'
  BY DEF IInv, TypeOK, QueueInv
<1>4. \A q \in Procs : CallAt(q)' /\ TestedAt(q)'
  BY DEF IInv, TypeOK, CpuInv, CallAt, TestedAt, NoPreemptPC, MutualExclusion, HolderPC
<1>5. MutualExclusion'
  BY SynchAssumption DEF IInv, TypeOK, CallAt, TestedAt, MutualExclusion, HolderPC
<1>6. NoMissedNotification'
  BY DEF IInv, TypeOK, CallAt, NoMissedNotification
<1>7. NoStrandedWaiter'
  <2> SUFFICES ASSUME NEW s \in Sems, owner'[s] = NoProc, lockQueue'[s] # << >>
               PROVE  \E q \in Procs : Rouses(q, s)'
    BY DEF NoStrandedWaiter
  <2>1. CASE s = sem[p]
    <3>1. Rouses(p, s)'
      BY <2>1 DEF IInv, TypeOK, CpuInv, Rouses, Ready, Queued
    <3>2. QED BY <3>1
  <2>2. CASE s # sem[p]
    <3>1. PICK q \in Procs : Rouses(q, s)
      BY <2>2 DEF IInv, TypeOK, NoStrandedWaiter
    <3>2. Rouses(q, s)'
      BY <2>2, <3>1 DEF IInv, TypeOK, Rouses, Ready, Queued
    <3>3. QED BY <3>1, <3>2
  <2>3. QED BY <2>1, <2>2
<1>8. QED BY <1>1, <1>2, <1>3, <1>4, <1>5, <1>6, <1>7 DEF IInv

LEMMA ReturnStep ==
  ASSUME IInv, NEW p \in Procs, Return(p)
  PROVE  IInv'
<1> USE DEF Return, At, Goto, cpuVars, callVars
<1>1. TypeOK'
  BY DEF IInv, TypeOK, CallAt, TestedAt, PC, HolderPC, NoPreemptPC, WaitPC
<1>2. CpuInv'
  BY DEF IInv, TypeOK, CpuInv, QueueInv, Queued, NoPreemptPC, WaitPC
<1>3. QueueInv'
  BY DEF IInv, TypeOK, QueueInv
<1>4. \A q \in Procs : CallAt(q)' /\ TestedAt(q)'
  BY DEF IInv, TypeOK, CpuInv, CallAt, TestedAt, NoPreemptPC, MutualExclusion, HolderPC
<1>5. MutualExclusion'
  BY DEF IInv, TypeOK, CallAt, TestedAt, MutualExclusion, HolderPC
<1>6. NoMissedNotification'
  BY DEF IInv, TypeOK, CallAt, NoMissedNotification
<1>7. NoStrandedWaiter'
  BY DEF IInv, TypeOK, NoStrandedWaiter, Rouses, Ready, Queued, WaitPC
<1>8. QED BY <1>1, <1>2, <1>3, <1>4, <1>5, <1>6, <1>7 DEF IInv

LEMMA BroadcastStep ==
  ASSUME IInv, NEW p \in Procs, Broadcast(p)
  PROVE  IInv'
<1>0. condQueue' \in [Sems -> Seq(Procs)] /\ \A s \in Sems : \A u : Contains(condQueue'[s], u) => Contains(condQueue[s], u)
  BY EmptyFact DEF Broadcast, IInv, TypeOK
<1> USE DEF Broadcast, At, Goto, cpuVars, callVars
<1>1. TypeOK'
  BY DEF IInv, TypeOK, CallAt, TestedAt, PC, HolderPC, NoPreemptPC, WaitPC
<1>2. CpuInv'
  BY <1>0 DEF IInv, TypeOK, CpuInv, Queued, NoPreemptPC, WaitPC
<1>3. QueueInv'
  BY <1>0 DEF IInv, TypeOK, QueueInv
<1>4. \A q \in Procs : CallAt(q)' /\ TestedAt(q)'
  BY DEF IInv, TypeOK, CpuInv, CallAt, TestedAt, NoPreemptPC, MutualExclusion, HolderPC
<1>5. MutualExclusion'
  BY DEF IInv, TypeOK, CallAt, TestedAt, MutualExclusion, HolderPC
<1>6. NoMissedNotification'
  BY DEF IInv, TypeOK, CallAt, NoMissedNotification
<1>7. NoStrandedWaiter'
  <2> SUFFICES ASSUME NEW s \in Sems, owner'[s] = NoProc, lockQueue'[s] # << >>
               PROVE  \E q \in Procs : Rouses(q, s)'
    BY DEF NoStrandedWaiter
  <2>1. PICK q \in Procs : Rouses(q, s)
    BY SynchAssumption DEF IInv, TypeOK, NoStrandedWaiter
  <2>2. q # p
    BY <2>1 DEF IInv, TypeOK, Rouses, WaitPC
  <2>3. Rouses(q, s)'
    BY <1>0, <2>1, <2>2 DEF IInv, TypeOK, Rouses, Ready, Queued
  <2>4. QED BY <2>1, <2>3
<1>8. QED BY <1>1, <1>2, <1>3, <1>4, <1>5, <1>6, <1>7 DEF IInv

LEMMA CallStep ==
  ASSUME IInv, NEW p \in Procs, NEW c \in {"P", "V"}, NEW s \in Sems, Call(p, c, s)
  PROVE  IInv'
<1> USE DEF Call, At, Goto, cpuVars
<1>1. TypeOK'
  BY DEF IInv, TypeOK, PC, HolderPC, NoPreemptPC, WaitPC
<1>2. CpuInv'
  BY DEF IInv, TypeOK, CpuInv, Queued, NoPreemptPC, WaitPC
<1>3. QueueInv'
  BY DEF IInv, TypeOK, QueueInv
<1>4. \A q \in Procs : CallAt(q)' /\ TestedAt(q)'
  BY DEF IInv, TypeOK, CallAt, TestedAt
<1>5. MutualExclusion'
  BY DEF IInv, TypeOK, MutualExclusion, HolderPC
<1>6. NoMissedNotification'
  BY DEF IInv, TypeOK, NoMissedNotification
<1>7. NoStrandedWaiter'
  BY DEF IInv, TypeOK, NoStrandedWaiter, Rouses, Ready, Queued, WaitPC
<1>8. QED BY <1>1, <1>2, <1>3, <1>4, <1>5, <1>6, <1>7 DEF IInv
-----------------------------------------------------------------------------
(* Steps that give the CPU to another process *)

LEMMA PreemptStep ==
  ASSUME IInv, NEW q \in Procs, Preempt(q)
  PROVE  IInv'
<1> USE DEF Preempt, Resume, callVars
<1>1. TypeOK'
  BY DEF IInv, TypeOK
<1>2. CpuInv'
  <2>1. \A r \in Procs : pc[r] \notin NoPreemptPC
    BY DEF IInv, CpuInv
  <2>2. q # NoProc /\ ~Queued(q)
    BY SynchAssumption DEF Ready
  <2>3. current' = q /\ (preemptionDisabled' <=> pc[q] \in WaitPC)
    BY <2>2
  <2>4. \A r \in Procs : Queued(r)' <=> Queued(r)
    BY DEF Queued
  <2> HIDE DEF Preempt, Resume
  <2>5. pc' = pc
    BY DEF Preempt
  <2>6. QED BY <2>1, <2>2, <2>3, <2>4, <2>5 DEF CpuInv
<1>3. QueueInv'
  BY DEF IInv, QueueInv
<1>4. \A r \in Procs : CallAt(r)' /\ TestedAt(r)'
  BY DEF IInv, CallAt, TestedAt
<1>5. MutualExclusion'
  BY DEF IInv, MutualExclusion
<1>6. NoMissedNotification' /\ NoStrandedWaiter'
  BY DEF IInv, NoMissedNotification, NoStrandedWaiter, Rouses, Ready, Queued
<1>7. QED BY <1>1, <1>2, <1>3, <1>4, <1>5, <1>6 DEF IInv

(* Whoever gets the CPU was ready. *)
LEMMA GiveUpFact ==
  ASSUME NEW p \in Procs, GiveUp(p)
  PROVE  /\ preemptionDisabled' \in BOOLEAN
         /\ \/ current' = NoProc /\ ~preemptionDisabled'
            \/ /\ current' \in Procs \ {p} /\ Ready(current')
               /\ preemptionDisabled' <=> pc[current'] \in WaitPC
  BY SynchAssumption DEF GiveUp, Resume

LEMMA LockTestStep ==
  ASSUME IInv, NEW p \in Procs, LockTest(p)
  PROVE  IInv'
<1> USE DEF cpuVars, callVars, Goto
<1>1. CASE /\ current = p /\ pc[p] \in {"test"} \cup WaitPC
           /\ owner[sem[p]] = NoProc
           /\ Goto(p, "take")
           /\ UNCHANGED <<cpuVars, lockQueue, owner, condQueue, count, callVars>>
  <2>1. TypeOK'
    BY <1>1 DEF IInv, TypeOK, PC, HolderPC, NoPreemptPC, WaitPC
  <2>2. CpuInv'
    BY <1>1 DEF IInv, TypeOK, CpuInv, Queued, NoPreemptPC, WaitPC
  <2>3. QueueInv'
    BY <1>1 DEF IInv, TypeOK, CpuInv, Queued, QueueInv, CallAt, WaitPC
  <2>4. \A q \in Procs : CallAt(q)' /\ TestedAt(q)'
    BY <1>1 DEF IInv, TypeOK, CallAt, TestedAt, WaitPC
  <2>5. MutualExclusion'
    BY <1>1 DEF IInv, TypeOK, MutualExclusion, HolderPC, WaitPC
  <2>6. NoMissedNotification'
    BY <1>1 DEF IInv, TypeOK, NoMissedNotification, WaitPC
  <2>7. NoStrandedWaiter'
    BY <1>1 DEF IInv, TypeOK, CpuInv, NoStrandedWaiter, Rouses, Ready, Queued, WaitPC
  <2>8. QED BY <2>1, <2>2, <2>3, <2>4, <2>5, <2>6, <2>7 DEF IInv
<1>2. CASE /\ current = p /\ pc[p] \in {"test"} \cup WaitPC
           /\ owner[sem[p]] # NoProc
           /\ lockQueue' = [lockQueue EXCEPT ![sem[p]] = Append(@, p)]
           /\ Goto(p, "lock-wait") /\ GiveUp(p)
           /\ UNCHANGED <<owner, condQueue, count, callVars>>
  <2>0. /\ sem[p] \in Sems /\ lockQueue' \in [Sems -> Seq(Procs)]
        /\ \A s \in Sems : \A u : Contains(lockQueue'[s], u)
                                <=> Contains(lockQueue[s], u) \/ (s = sem[p] /\ u = p)
        /\ \A s \in Sems : IsInjective(lockQueue'[s])
    <3>1. sem[p] \in Sems
      BY <1>2 DEF IInv, CallAt, WaitPC
    <3>2. lockQueue[sem[p]] \in Seq(Procs) /\ ~Contains(lockQueue[sem[p]], p)
      BY <1>2, <3>1 DEF IInv, TypeOK, CpuInv, Queued
    <3>3. /\ lockQueue'[sem[p]] \in Seq(Procs) /\ IsInjective(lockQueue'[sem[p]])
          /\ \A u : Contains(lockQueue'[sem[p]], u) <=> Contains(lockQueue[sem[p]], u) \/ u = p
      BY <1>2, <3>1, <3>2, AddFact DEF IInv, TypeOK, QueueInv
    <3>4. \A s \in Sems : s # sem[p] => lockQueue'[s] = lockQueue[s]
      BY <1>2 DEF IInv, TypeOK
    <3>5. lockQueue' \in [Sems -> Seq(Procs)]
      BY <1>2, <3>1, <3>3, <3>4 DEF IInv, TypeOK
    <3>6. ASSUME NEW s \in Sems, NEW u
          PROVE  Contains(lockQueue'[s], u) <=> Contains(lockQueue[s], u) \/ (s = sem[p] /\ u = p)
      <4>1. CASE s = sem[p]
        BY <3>3, <4>1
      <4>2. CASE s # sem[p]
        BY <3>4, <4>2
      <4>3. QED BY <4>1, <4>2
    <3>7. \A s \in Sems : IsInjective(lockQueue'[s])
      BY <3>3, <3>4 DEF IInv, QueueInv
    <3>8. QED BY <3>1, <3>5, <3>6, <3>7
  <2>1. TypeOK'
    BY <1>2, <2>0, GiveUpFact DEF IInv, TypeOK, PC, HolderPC, NoPreemptPC, WaitPC
  <2>2. CpuInv'
    BY <1>2, <2>0, GiveUpFact, SynchAssumption DEF IInv, TypeOK, CpuInv, Ready, Queued, NoPreemptPC, WaitPC
  <2>3. QueueInv'
    BY <1>2, <2>0 DEF IInv, TypeOK, CpuInv, Queued, QueueInv
  <2>4. \A q \in Procs : CallAt(q)' /\ TestedAt(q)'
    BY <1>2 DEF IInv, TypeOK, CallAt, TestedAt, WaitPC
  <2>5. MutualExclusion'
    BY <1>2 DEF IInv, TypeOK, MutualExclusion, HolderPC, WaitPC
  <2>6. NoMissedNotification'
    BY <1>2 DEF IInv, TypeOK, NoMissedNotification, WaitPC
  <2>7. NoStrandedWaiter'
    <3> SUFFICES ASSUME NEW s \in Sems, owner'[s] = NoProc, lockQueue'[s] # << >>
                 PROVE  \E q \in Procs : Rouses(q, s)'
      BY DEF NoStrandedWaiter
    <3>1. s # sem[p] /\ owner[s] = NoProc /\ lockQueue[s] # << >>
      BY <1>2, <2>0 DEF IInv, TypeOK
    <3>2. PICK q \in Procs : Rouses(q, s)
      BY <3>1 DEF IInv, NoStrandedWaiter
    <3>3. Rouses(q, s)'
      BY <1>2, <2>0, <3>1, <3>2 DEF IInv, TypeOK, Rouses, Ready, Queued
    <3>4. QED BY <3>3
  <2>8. QED BY <2>1, <2>2, <2>3, <2>4, <2>5, <2>6, <2>7 DEF IInv
<1>3. QED BY <1>1, <1>2 DEF LockTest

LEMMA CondWaitStep ==
  ASSUME IInv, NEW p \in Procs, CondWait(p)
  PROVE  IInv'
<1> USE DEF CondWait, At, Goto, callVars
<1>0. /\ sem[p] \in Sems /\ condQueue' \in [Sems -> Seq(Procs)]
      /\ \A s \in Sems : \A u : Contains(condQueue'[s], u)
                              <=> Contains(condQueue[s], u) \/ (s = sem[p] /\ u = p)
      /\ \A s \in Sems : s # sem[p] => condQueue'[s] = condQueue[s]
  <2>1. sem[p] \in Sems
    BY DEF IInv, CallAt, WaitPC
  <2>2. /\ condQueue'[sem[p]] \in Seq(Procs)
        /\ \A u : Contains(condQueue'[sem[p]], u) <=> Contains(condQueue[sem[p]], u) \/ u = p
    BY <2>1, AddFact DEF IInv, TypeOK
  <2>3. \A s \in Sems : s # sem[p] => condQueue'[s] = condQueue[s]
    BY DEF IInv, TypeOK
  <2>4. condQueue' \in [Sems -> Seq(Procs)]
    BY <2>1, <2>2, <2>3 DEF IInv, TypeOK
  <2>5. ASSUME NEW s \in Sems, NEW u
        PROVE  Contains(condQueue'[s], u) <=> Contains(condQueue[s], u) \/ (s = sem[p] /\ u = p)
    <3>1. CASE s = sem[p]
      BY <2>2, <3>1
    <3>2. CASE s # sem[p]
      BY <2>3, <3>2
    <3>3. QED BY <3>1, <3>2
  <2>6. QED BY <2>1, <2>3, <2>4, <2>5
<1>1. TypeOK'
  BY <1>0, GiveUpFact DEF IInv, TypeOK, PC, HolderPC, NoPreemptPC, WaitPC
<1>2. CpuInv'
  BY <1>0, GiveUpFact, SynchAssumption DEF IInv, TypeOK, CpuInv, Ready, Queued, NoPreemptPC, WaitPC
<1>3. QueueInv'
  BY <1>0 DEF IInv, TypeOK, CpuInv, Queued, QueueInv
<1>4. \A q \in Procs : CallAt(q)' /\ TestedAt(q)'
  BY DEF IInv, TypeOK, CallAt, TestedAt
<1>5. MutualExclusion'
  BY DEF IInv, TypeOK, MutualExclusion, HolderPC
<1>6. NoMissedNotification'
  <2>1. count[sem[p]] = 0
    BY DEF IInv, TestedAt
  <2>2. QED BY <1>0, <2>1 DEF IInv, TypeOK, NoMissedNotification
<1>7. NoStrandedWaiter'
  <2> SUFFICES ASSUME NEW s \in Sems, owner'[s] = NoProc, lockQueue'[s] # << >>
               PROVE  \E q \in Procs : Rouses(q, s)'
    BY DEF NoStrandedWaiter
  <2>1. PICK q \in Procs : Rouses(q, s)
    BY DEF IInv, NoStrandedWaiter
  <2>2. q # p
    BY <2>1 DEF Rouses, WaitPC
  <2>3. Rouses(q, s)'
    BY <1>0, <2>1, <2>2 DEF IInv, TypeOK, Rouses, Ready, Queued
  <2>4. QED BY <2>3
<1>8. QED BY <1>1, <1>2, <1>3, <1>4, <1>5, <1>6, <1>7 DEF IInv
-----------------------------------------------------------------------------
(* The step that wakes a process waiting for the mutex *)

LEMMA UnlockWakeStep ==
  ASSUME IInv, NEW p \in Procs, UnlockWake(p)
  PROVE  IInv'
<1> USE DEF UnlockWake, Goto, cpuVars, callVars
<1>0. /\ sem[p] \in Sems /\ lockQueue' \in [Sems -> Seq(Procs)]
      /\ \A s \in Sems : IsInjective(lockQueue'[s]) /\ (s # sem[p] => lockQueue'[s] = lockQueue[s])
      /\ \A s \in Sems : \A u : Contains(lockQueue'[s], u) => Contains(lockQueue[s], u)
      /\ lockQueue'[sem[p]] # << >> =>
           \E h \in Procs : Contains(lockQueue[sem[p]], h) /\ ~Contains(lockQueue'[sem[p]], h)
  <2>1. sem[p] \in Sems
    BY DEF IInv, CallAt
  <2>2. CASE lockQueue[sem[p]] = << >>
    <3>1. lockQueue' = lockQueue
      BY <2>1, <2>2 DEF IInv, TypeOK
    <3>2. QED BY <2>1, <2>2, <3>1 DEF IInv, TypeOK, QueueInv
  <2>3. CASE lockQueue[sem[p]] # << >>
    <3> DEFINE q == lockQueue[sem[p]]
    <3>1. q \in Seq(Procs) /\ IsInjective(q) /\ lockQueue'[sem[p]] = Tail(q)
      BY <2>1, <2>3 DEF IInv, TypeOK, QueueInv
    <3>2. /\ Tail(q) \in Seq(Procs) /\ Head(q) \in Procs /\ Contains(q, Head(q))
          /\ IsInjective(Tail(q))
          /\ \A u : Contains(Tail(q), u) <=> Contains(q, u) /\ u # Head(q)
      BY <2>3, <3>1, TakeFact
    <3>3. \A s \in Sems : s # sem[p] => lockQueue'[s] = lockQueue[s]
      BY DEF IInv, TypeOK
    <3>4. lockQueue' \in [Sems -> Seq(Procs)]
      BY <2>1, <3>1, <3>2, <3>3 DEF IInv, TypeOK
    <3>5. QED BY <2>1, <3>1, <3>2, <3>3, <3>4 DEF IInv, QueueInv
  <2>4. QED BY <2>2, <2>3
<1>1. TypeOK'
  BY <1>0 DEF IInv, TypeOK, PC, HolderPC, NoPreemptPC, WaitPC
<1>2. CpuInv'
  BY <1>0 DEF IInv, TypeOK, CpuInv, Queued, NoPreemptPC, WaitPC
<1>3. QueueInv'
  BY <1>0 DEF IInv, TypeOK, QueueInv
<1>4. \A q \in Procs : CallAt(q)' /\ TestedAt(q)'
  BY DEF IInv, TypeOK, CallAt, TestedAt
<1>5. MutualExclusion'
  BY DEF IInv, TypeOK, MutualExclusion, HolderPC
<1>6. NoMissedNotification'
  BY DEF IInv, TypeOK, NoMissedNotification
<1>7. NoStrandedWaiter'
  <2> SUFFICES ASSUME NEW s \in Sems, owner'[s] = NoProc, lockQueue'[s] # << >>
               PROVE  \E q \in Procs : Rouses(q, s)'
    BY DEF NoStrandedWaiter
  <2>1. CASE s = sem[p]
    <3>1. PICK h \in Procs : Contains(lockQueue[s], h) /\ ~Contains(lockQueue'[s], h)
      BY <1>0, <2>1
    <3>2. pc[h] = "lock-wait" /\ sem[h] = s /\ h # p
      BY <3>1 DEF IInv, QueueInv
    <3>3. Ready(h)'
      BY <1>0, <3>1, <3>2 DEF IInv, QueueInv, Ready, Queued
    <3>4. Rouses(h, s)'
      BY <3>2, <3>3 DEF IInv, TypeOK, Rouses, WaitPC
    <3>5. QED BY <3>4
  <2>2. CASE s # sem[p]
    <3>1. PICK q \in Procs : Rouses(q, s)
      BY <1>0, <2>2 DEF IInv, NoStrandedWaiter
    <3>2. Rouses(q, s)'
      BY <1>0, <2>2, <3>1 DEF IInv, TypeOK, Rouses, Ready, Queued
    <3>3. QED BY <3>2
  <2>3. QED BY <2>1, <2>2
<1>8. QED BY <1>1, <1>2, <1>3, <1>4, <1>5, <1>6, <1>7 DEF IInv
-----------------------------------------------------------------------------
(* The invariant, and what follows from it *)

LEMMA NextInv == IInv /\ [Next]_vars => IInv'
<1> SUFFICES ASSUME IInv, [Next]_vars PROVE IInv'
  OBVIOUS
<1>1. CASE UNCHANGED vars
  BY <1>1 DEF vars, cpuVars, callVars, IInv, TypeOK, CpuInv, QueueInv, CallAt, TestedAt,
     MutualExclusion, NoMissedNotification, NoStrandedWaiter, Rouses, Ready, Queued
<1>2. ASSUME NEW p \in Procs, Preempt(p) PROVE IInv'
  BY <1>2, PreemptStep
<1>3. ASSUME NEW p \in Procs, NEW c \in {"P", "V"}, NEW s \in Sems, Call(p, c, s) PROVE IInv'
  BY <1>3, CallStep
<1>4. ASSUME NEW p \in Procs, Run(p) PROVE IInv'
  BY <1>4, LockEnterStep, LockTestStep, LockTakeStep, LockLeaveStep, PTestStep, PDecrementStep,
     VIncrementStep, BroadcastStep, UnlockEnterStep, UnlockReleaseStep, UnlockWakeStep,
     ReturnStep, CondWaitStep DEF Run
<1>5. QED BY <1>1, <1>2, <1>3, <1>4 DEF Next

(* The inductive invariant holds throughout: synch.c's mutexes, conditions  *)
(* and counts under any schedule.                                           *)
THEOREM Invariance == Spec => []IInv
<1>1. Init => IInv
  BY InitInv
<1>2. IInv /\ [Next]_vars => IInv'
  BY NextInv
<1>3. QED BY <1>1, <1>2, PTL DEF Spec

(* Every variable keeps its type; in particular P never takes a count below *)
(* 0.                                                                       *)
THEOREM TypeCorrect == Spec => []TypeOK
<1>1. IInv => TypeOK
  BY DEF IInv
<1>2. QED BY <1>1, Invariance, PTL

(* A mutex has at most one holder, the process between Mutex_Lock and       *)
(* Mutex_Unlock, for any number of processes and semaphores.                *)
THEOREM MutexExcludes == Spec => []MutualExclusion
<1>1. IInv => MutualExclusion
  BY DEF IInv
<1>2. QED BY <1>1, Invariance, PTL

(* The KASSERTs of Mutex_Lock_Imp, Mutex_Unlock_Imp and Cond_Wait hold.     *)
THEOREM AssertionsHold == Spec => []AssertsHold
<1>1. IInv => AssertsHold
  BY SynchAssumption DEF IInv, AssertsHold, CpuInv, TestedAt, CallAt, MutualExclusion, HolderPC,
     NoPreemptPC, WaitPC
<1>2. QED BY <1>1, Invariance, PTL

(* Cond_Wait misses no Cond_Broadcast: nobody sleeps beside units unless    *)
(* the broadcast is still to come.                                          *)
THEOREM NotificationsArrive == Spec => []NoMissedNotification
<1>1. IInv => NoMissedNotification
  BY DEF IInv
<1>2. QED BY <1>1, Invariance, PTL

(* Mutex_Unlock, which tests for waiters with interrupts enabled, strands   *)
(* nobody.                                                                  *)
THEOREM NobodyIsStranded == Spec => []NoStrandedWaiter
<1>1. IInv => NoStrandedWaiter
  BY DEF IInv
<1>2. QED BY <1>1, Invariance, PTL
-----------------------------------------------------------------------------
(* The semaphore *)

(* A step of Synch is a step of AbstractSemaphore, or changes nothing of it. *)
LEMMA StepRefines ==
  ASSUME IInv, [Next]_vars
  PROVE  [Abs!Next]_(Abs!vars)
<1> DEFINE Done == {"broadcast", "leave", "unlock", "wake", "unlocked"}
           done == [q \in Procs |-> call[q] # "none" /\ pc[q] \in Done]
<1>1. ASSUME NEW p \in Procs, NEW c \in {"P", "V"}, NEW s \in Sems, Call(p, c, s)
      PROVE  Abs!Call(p, c, s)
  <2>1. call[p] = "none" /\ count' = count /\ call' = [call EXCEPT ![p] = c]
        /\ sem' = [sem EXCEPT ![p] = s]
    BY <1>1 DEF Call, At, IInv, CallAt
  <2>2. done' = done
    BY <1>1, <2>1 DEF Call, At, Goto, IInv, TypeOK
  <2>3. QED BY <2>1, <2>2 DEF Abs!Call
<1>2. ASSUME NEW p \in Procs, PDecrement(p) PROVE Abs!Take(p)
  <2>1. call[p] = "P" /\ count[sem[p]] > 0
    BY <1>2 DEF PDecrement, At, IInv, CallAt, TestedAt
  <2>2. ~done[p] /\ done' = [done EXCEPT ![p] = TRUE]
    BY <1>2, <2>1 DEF PDecrement, At, Goto, callVars, IInv, TypeOK
  <2>3. QED BY <1>2, <2>1, <2>2 DEF PDecrement, callVars, Abs!Take
<1>3. ASSUME NEW p \in Procs, VIncrement(p) PROVE Abs!Give(p)
  <2>1. ~done[p] /\ done' = [done EXCEPT ![p] = TRUE]
    BY <1>3 DEF VIncrement, At, Goto, callVars, IInv, TypeOK
  <2>2. QED BY <1>3, <2>1 DEF VIncrement, At, callVars, Abs!Give
<1>4. ASSUME NEW p \in Procs, Return(p) PROVE Abs!Return(p)
  <2>1. call[p] # "none"
    BY <1>4 DEF Return, At, IInv, CallAt
  <2>2. done[p] /\ done' = [done EXCEPT ![p] = FALSE]
    BY <1>4, <2>1 DEF Return, At, Goto, IInv, TypeOK
  <2>3. QED BY <1>4, <2>1, <2>2 DEF Return, Abs!Return
<1>5. ASSUME NEW p \in Procs,
             \/ LockEnter(p) \/ LockTest(p) \/ LockTake(p) \/ LockLeave(p)
             \/ PTest(p) \/ Broadcast(p) \/ UnlockEnter(p) \/ UnlockRelease(p)
             \/ UnlockWake(p) \/ CondWait(p)
      PROVE  UNCHANGED Abs!vars
  <2>1. UNCHANGED <<count, call, sem>>
    BY <1>5 DEF LockEnter, LockTest, LockTake, LockLeave, PTest, Broadcast, UnlockEnter,
                UnlockRelease, UnlockWake, CondWait, callVars
  <2>2. \E l \in PC : pc' = [pc EXCEPT ![p] = l] /\ (l \in Done <=> pc[p] \in Done)
    BY <1>5 DEF LockEnter, LockTest, LockTake, LockLeave, PTest, Broadcast, UnlockEnter,
                UnlockRelease, UnlockWake, CondWait, At, Goto, WaitPC, PC, HolderPC, NoPreemptPC
  <2>3. done' = done
    BY <2>1, <2>2 DEF IInv, TypeOK
  <2>4. QED BY <2>1, <2>3 DEF Abs!vars
<1>6. ASSUME NEW p \in Procs, Preempt(p) PROVE UNCHANGED Abs!vars
  BY <1>6 DEF Preempt, callVars, Abs!vars
<1>7. CASE UNCHANGED vars
  BY <1>7 DEF vars, callVars, Abs!vars
<1>8. QED
  BY <1>1, <1>2, <1>3, <1>4, <1>5, <1>6, <1>7 DEF Next, Run, Abs!Next

(* P and V implement the abstract semaphore: a unit is taken by one P, once *)
(* there is one, and given by one V (synch.c, P and V).                     *)
THEOREM SemaphoreImplemented == Spec => ImplementsSemaphore
<1>1. Init => Abs!Init
  BY DEF Init, Abs!Init
<1>2. IInv /\ [Next]_vars => [Abs!Next]_(Abs!vars)
  BY StepRefines
<1>3. QED BY <1>1, <1>2, Invariance, PTL DEF Spec, ImplementsSemaphore, Abs!Spec
=============================================================================
