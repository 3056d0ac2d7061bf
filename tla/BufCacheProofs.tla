---------------------------- MODULE BufCacheProofs ----------------------------
(***************************************************************************)
(* Proofs about BufCache for any threads, blocks, sizes and failures.      *)
(***************************************************************************)
EXTENDS BufCache, ListFacts, FiniteSetTheorems, TLAPS

HasPC == {"has", "sync", "flush one", "sync cache", "walk", "flush", "release"}
TransferPC == {"evict", "read", "flush one", "flush"}

-----------------------------------------------------------------------------
(* The list of buffers *)

LEMMA ListedFact ==
  ASSUME TypeOK
  PROVE  /\ Listed \subseteq Buffers
         /\ \A u : u \in Listed <=> Contains(bufferList, u)
         /\ \A k \in 1 .. Len(bufferList) : bufferList[k] \in Listed
  BY ToSetFact DEF TypeOK, Listed

(* What depends on the list and the block numbers alone. *)
LEMMA ListKept ==
  ASSUME IInv, UNCHANGED <<bufferList, fsBlockNum>>, dirty' \subseteq Listed \cup dirty
  PROVE  ListInv' /\ OneBufferPerBlock'
  BY DEF IInv, ListInv, OneBufferPerBlock, Listed

(* Move_To_Front keeps the buffers of the list and their number. *)
LEMMA MoveToFrontFact ==
  ASSUME IInv, NEW k \in 1 .. Len(bufferList)
  PROVE  /\ MoveToFront(k) \in Seq(Buffers) /\ Len(MoveToFront(k)) = Len(bufferList)
         /\ IsInjective(MoveToFront(k))
         /\ \A u : Contains(MoveToFront(k), u) <=> Contains(bufferList, u)
<1> DEFINE u0 == bufferList[k]
           r == RemoveAt(bufferList, k)
<1>1. /\ bufferList \in Seq(Buffers) /\ Distinct(bufferList) /\ Len(bufferList) \in Nat
      /\ u0 \in Buffers /\ Contains(bufferList, u0)
  <2>1. bufferList \in Seq(Buffers) /\ IsInjective(bufferList)
    BY DEF IInv, TypeOK, OneBufferPerBlock
  <2>2. Distinct(bufferList)
    BY <2>1 DEF IsInjective, Distinct
  <2>3. QED BY <2>1, <2>2 DEF Contains
<1>2. /\ r \in Seq(Buffers) /\ Len(r) = Len(bufferList) - 1 /\ Distinct(r)
      /\ \A u : Contains(r, u) <=> Contains(bufferList, u) /\ u # u0
  BY <1>1, RemoveAtFact
<1>3. /\ <<u0>> \in Seq(Buffers) /\ Len(<<u0>>) = 1 /\ Distinct(<<u0>>)
      /\ \A u : Contains(<<u0>>, u) <=> u = u0
  BY <1>1 DEF Distinct, Contains
<1>4. MoveToFront(k) = <<u0>> \o r
  BY DEF MoveToFront
<1> HIDE DEF u0, r
<1>5. <<u0>> \o r \in Seq(Buffers) /\ Len(<<u0>> \o r) = Len(bufferList)
  BY <1>1, <1>2, <1>3, ConcatElements
<1>6. /\ \A u : Contains(<<u0>> \o r, u) <=> Contains(bufferList, u)
      /\ Distinct(<<u0>> \o r)
  BY <1>1, <1>2, <1>3, ConcatFact
<1>7. QED BY <1>4, <1>5, <1>6, SMTT(30) DEF IsInjective, Distinct

LEMMA ListMoved ==
  ASSUME IInv, NEW k \in 1 .. Len(bufferList), bufferList' = MoveToFront(k),
         fsBlockNum' = fsBlockNum, dirty' \subseteq dirty
  PROVE  /\ ListInv' /\ OneBufferPerBlock' /\ Listed' = Listed
         /\ bufferList' \in Seq(Buffers) /\ Len(bufferList') = Len(bufferList)
<1>1. /\ bufferList' \in Seq(Buffers) /\ Len(bufferList') = Len(bufferList)
      /\ IsInjective(bufferList')
      /\ \A u : Contains(bufferList', u) <=> Contains(bufferList, u)
  BY MoveToFrontFact
<1>2. \A u : (u \in Listed <=> Contains(bufferList, u))
             /\ (u \in Listed' <=> Contains(bufferList', u))
  BY <1>1, ToSetFact DEF IInv, TypeOK, Listed
<1>3. Listed' = Listed
  BY <1>1, <1>2
<1>4. QED BY <1>1, <1>3 DEF IInv, ListInv, OneBufferPerBlock
-----------------------------------------------------------------------------
(* Who uses the buffers *)

LEMMA UseKept ==
  ASSUME ExclusiveUse, inUse' = inUse,
         \A t \in Threads : (Has(t)' <=> Has(t)) /\ (Has(t) => buf'[t] = buf[t])
  PROVE  ExclusiveUse'
<1>1. \A u : u \in inUse' <=> \E t \in Threads : Has(t)' /\ u = buf'[t]
  BY DEF ExclusiveUse
<1>2. inUse' = {buf[t] : t \in {t \in Threads : Has(t)}}'
  BY <1>1
<1>3. QED BY <1>2 DEF ExclusiveUse

(* Acquire, of a buffer that nobody uses. *)
LEMMA UseTaken ==
  ASSUME TypeOK, ExclusiveUse, NEW t \in Threads, pc[t] \notin HasPC,
         NEW u, u \notin inUse, Acquire(t, u)
  PROVE  ExclusiveUse'
<1>1. /\ ~Has(t) /\ Has(t)' /\ buf'[t] = u
      /\ \A t2 \in Threads : t2 # t => (Has(t2)' <=> Has(t2)) /\ buf'[t2] = buf[t2]
  BY DEF TypeOK, Acquire, Goto, Has, HasPC
<1>2. \A v : v \in inUse' <=> \E t2 \in Threads : Has(t2)' /\ v = buf'[t2]
  BY <1>1 DEF ExclusiveUse, Acquire
<1>3. inUse' = {buf[t2] : t2 \in {t2 \in Threads : Has(t2)}}'
  BY <1>2
<1>4. \A t2 \in Threads : Has(t2) => buf[t2] # u
  BY DEF ExclusiveUse
<1>5. QED BY <1>1, <1>3, <1>4 DEF ExclusiveUse

(* Release_FS_Buffer. *)
LEMMA UseGiven ==
  ASSUME TypeOK, ExclusiveUse, NEW t \in Threads, pc[t] \in HasPC,
         inUse' = inUse \ {buf[t]}, GiveUp(t)
  PROVE  ExclusiveUse'
<1>1. /\ Has(t) /\ ~Has(t)'
      /\ \A t2 \in Threads : t2 # t => (Has(t2)' <=> Has(t2)) /\ buf'[t2] = buf[t2]
  BY DEF TypeOK, GiveUp, Goto, Has, HasPC
<1>2. \A t2 \in Threads : t2 # t /\ Has(t2) => buf[t2] # buf[t]
  BY <1>1 DEF ExclusiveUse
<1>3. \A v : v \in inUse' <=> \E t2 \in Threads : Has(t2)' /\ v = buf'[t2]
  BY <1>1, <1>2 DEF ExclusiveUse
<1>4. inUse' = {buf[t2] : t2 \in {t2 \in Threads : Has(t2)}}'
  BY <1>3
<1>5. QED BY <1>1, <1>4 DEF ExclusiveUse

(* Who has the mutex, or finds it free, is alone inside. *)
LEMMA OthersOutside ==
  ASSUME IInv, NEW t \in Threads, lock \in {t, NoThread}
  PROVE  \A t2 \in Threads : t2 # t => pc[t2] \notin InsidePC
  BY BufCacheAssumption DEF IInv, LockInv

(* A step under the mutex that leaves no transfer under way. *)
LEMMA NoTransfer ==
  ASSUME IInv, NEW t \in Threads, lock \in {t, NoThread}, pc' = [pc EXCEPT ![t] = pc'[t]],
         pc'[t] \notin TransferPC
  PROVE  TransferInv'
<1>1. \A t2 \in Threads : pc'[t2] \notin TransferPC
  BY OthersOutside DEF IInv, TypeOK, InsidePC, TransferPC
<1>2. QED BY <1>1 DEF TransferInv, TransferOK, TransferPC, Writes

(* One that starts a transfer. *)
LEMMA TransferStarts ==
  ASSUME IInv, NEW t \in Threads, lock \in {t, NoThread}, NEW l \in TransferPC,
         pc' = [pc EXCEPT ![t] = l], sector' = 1,
         l # "read" => Target(t)' \in dirty', l = "read" => buf'[t] \notin dirty'
  PROVE  TransferInv'
<1>1. pc'[t] = l /\ \A t2 \in Threads : t2 # t => pc'[t2] \notin TransferPC
  BY OthersOutside DEF IInv, TypeOK, InsidePC, TransferPC
<1>2. 1 .. sector' - 1 = {}
  OBVIOUS
<1>3. QED BY <1>1, <1>2 DEF TransferInv, TransferOK, TransferPC, Writes
(* A thread that takes no part in a step keeps its choice, if the list and  *)
(* the buffers in use do.                                                   *)
LEMMA ChoiceKept ==
  ASSUME IInv, NEW t \in Threads, pc'[t] = pc[t], buf'[t] = buf[t], want'[t] = want[t],
         Listed \subseteq Listed', t \in touched' => t \in touched, t \in cond' => t \in cond,
         \/ pc[t] \notin InsidePC
         \/ inUse' = inUse /\ pos' = pos /\ Len(bufferList') = Len(bufferList)
  PROVE  ChoiceOK(t)'
<1>1. ChoiceOK(t)
  BY DEF IInv, ChoiceInv
<1>2. QED BY <1>1 DEF ChoiceOK, InsidePC

(* So does its transfer, if the buffers that nobody uses are left alone. *)
LEMMA TransferKept ==
  ASSUME IInv, NEW t \in Threads, pc'[t] = pc[t], buf'[t] = buf[t],
         pc[t] \in TransferPC => Target(t)' = Target(t), sector' = sector,
         dirty \subseteq dirty', \A u : u \notin inUse /\ u \in dirty' => u \in dirty,
         inUse' = inUse,
         \/ pc[t] \notin TransferPC \/ (pc[t] = "flush" /\ Target(t) \in inUse)
         \/ \A s : Matches(Target(t), s) => Matches(Target(t), s)'
  PROVE  TransferOK(t)'
<1>1. TransferOK(t) /\ (pc[t] = "read" => buf[t] \notin inUse)
  BY DEF IInv, TransferInv, ChoiceInv, ChoiceOK
<1>2. pc[t] \in Writes => Target(t)' \in dirty'
  BY <1>1 DEF TransferOK, TransferPC, Writes
<1>3. pc[t] = "read" => buf'[t] \notin dirty'
  BY <1>1 DEF TransferOK
<1>4. ASSUME pc[t] \in {"evict", "read", "flush one"} \/ (pc[t] = "flush" /\ Target(t) \notin inUse),
             NEW s \in 1 .. sector - 1
      PROVE  Matches(Target(t), s)'
  BY <1>1, <1>4 DEF TransferOK, TransferPC
<1>5. pc'[t] \in {"evict", "read", "flush one"} \/ (pc'[t] = "flush" /\ Target(t)' \notin inUse')
        => \A s \in 1 .. sector' - 1 : Matches(Target(t), s)'
  BY <1>4 DEF TransferPC
<1>6. QED BY <1>2, <1>3, <1>5 DEF TransferOK, Writes

(* The buffer a thread has chosen, and that of its transfer. *)
LEMMA ChosenFact ==
  ASSUME IInv, NEW t \in Threads, pc[t] \in ChosenPC
  PROVE  buf[t] \in Listed /\ buf[t] \in Buffers /\ fsBlockNum[buf[t]] \in Blocks
  BY ListedFact DEF IInv, ChoiceInv, ChoiceOK, ListInv

LEMMA TargetFact ==
  ASSUME IInv, NEW t \in Threads, pc[t] \in TransferPC
  PROVE  Target(t) \in Listed /\ Target(t) \in Buffers /\ fsBlockNum[Target(t)] \in Blocks
<1>1. CASE pc[t] = "flush"
  <2>1. pos \in 1 .. Len(bufferList)
    <3>1. pos <= Len(bufferList)
      BY <1>1 DEF IInv, ChoiceInv, ChoiceOK
    <3>2. pos \in 1 .. MaxBlocks + 1
      BY DEF IInv, TypeOK
    <3>3. pos \in Nat /\ pos >= 1
      BY <3>2, BufCacheAssumption
    <3>4. Len(bufferList) \in Nat
      <4>1. bufferList \in Seq(Buffers)
        BY DEF IInv, TypeOK
      <4>2. QED BY <4>1
    <3>5. QED BY <3>1, <3>3, <3>4
  <2>2. QED BY <1>1, <2>1, ListedFact DEF Target, IInv, ListInv
<1>2. CASE pc[t] # "flush"
  BY <1>2, ChosenFact DEF Target, TransferPC, ChosenPC
<1>3. QED BY <1>1, <1>2
-----------------------------------------------------------------------------
(* Get_FS_Buffer *)

LEMMA CallGetStep ==
  ASSUME IInv, NEW t \in Threads, NEW b \in Blocks, CallGet(t, b)
  PROVE  IInv'
<1> USE DEF CallGet, Goto, bufVars
<1>1. TypeOK'
  BY DEF IInv, TypeOK
<1>2. ListInv' /\ OneBufferPerBlock'
  BY ListKept
<1>3. LockInv'
  BY DEF IInv, TypeOK, LockInv, InsidePC
<1>4. ChoiceInv'
  BY DEF IInv, TypeOK, ChoiceInv, ChoiceOK, ChosenPC, Listed
<1>5. TransferInv'
  BY ZenonT(40) DEF IInv, TypeOK, TransferInv, TransferOK, Target, Matches, Writes
<1>6. ExclusiveUse'
  BY UseKept DEF IInv, TypeOK, Has
<1>7. WaitersHaveAUser'
  BY DEF IInv, WaitersHaveAUser
<1>8. QED BY <1>1, <1>2, <1>3, <1>4, <1>5, <1>6, <1>7 DEF IInv

LEMMA GetWaitStep ==
  ASSUME IInv, NEW t \in Threads, GetWait(t)
  PROVE  IInv'
<1> USE DEF GetWait, Enter, Goto, bufVars
<1>0. PICK u \in Listed : /\ u \in inUse /\ u \in Buffers
                          /\ buf' = [buf EXCEPT ![t] = u]
  BY ListedFact DEF Cached, IInv
<1>1. TypeOK'
  BY <1>0 DEF IInv, TypeOK
<1>2. ListInv' /\ OneBufferPerBlock'
  BY ListKept
<1>3. LockInv'
  BY DEF IInv, TypeOK, LockInv, InsidePC
<1>4. ChoiceInv'
  BY <1>0 DEF IInv, TypeOK, ChoiceInv, ChoiceOK, ChosenPC, Listed
<1>5. TransferInv'
  BY NoTransfer DEF IInv, TypeOK, TransferPC
<1>6. ExclusiveUse'
  BY <1>0, UseKept DEF IInv, TypeOK, Has
<1>7. WaitersHaveAUser'
  BY <1>0, ZenonT(40) DEF IInv, TypeOK, WaitersHaveAUser
<1>8. QED BY <1>1, <1>2, <1>3, <1>4, <1>5, <1>6, <1>7 DEF IInv

(* A free buffer is taken, from the cache or after a wait. *)
LEMMA AcquireStep ==
  ASSUME IInv, NEW t \in Threads, lock \in {t, NoThread}, pc[t] \in {"get", "wait", "read"},
         t \notin cond, NEW u \in Listed, u \notin inUse, Acquire(t, u), lock' = NoThread,
         UNCHANGED <<disk, bufferList, fsBlockNum, data, dirty, cond, want, touched, sector, pos>>
  PROVE  IInv'
<1> USE DEF Acquire, Goto
<1>1. TypeOK'
  BY ListedFact DEF IInv, TypeOK
<1>2. ListInv' /\ OneBufferPerBlock'
  BY ListKept
<1>3. LockInv'
  BY BufCacheAssumption DEF IInv, TypeOK, LockInv, InsidePC
<1>4. ChoiceInv'
  <2>1. Listed' = Listed
    BY DEF Listed
  <2>2. \A t2 \in Threads : t2 # t => pc'[t2] = pc[t2] /\ pc[t2] \notin InsidePC /\ buf'[t2] = buf[t2]
    BY OthersOutside DEF IInv, TypeOK
  <2>3. pc'[t] = "has" /\ buf'[t] = u
    BY DEF IInv, TypeOK
  <2>4. ASSUME NEW t2 \in Threads, t2 # t PROVE ChoiceOK(t2)'
    BY <2>1, <2>2, <2>4, ChoiceKept
  <2>5. ChoiceOK(t)'
    BY <2>1, <2>3 DEF IInv, ChoiceInv, ChoiceOK
  <2>6. QED BY <2>4, <2>5 DEF ChoiceInv
<1>5. TransferInv'
  BY NoTransfer DEF IInv, TypeOK, TransferPC
<1>6. ExclusiveUse'
  BY UseTaken DEF IInv, HasPC
<1>7. WaitersHaveAUser'
  BY DEF IInv, TypeOK, WaitersHaveAUser
<1>8. QED BY <1>1, <1>2, <1>3, <1>4, <1>5, <1>6, <1>7 DEF IInv

LEMMA GetCachedStep ==
  ASSUME IInv, NEW t \in Threads, GetCached(t)
  PROVE  IInv'
<1>1. t \notin cond
  BY DEF IInv, ChoiceInv, ChoiceOK, GetCached, Enter
<1>2. QED BY <1>1, AcquireStep DEF GetCached, Enter, Cached

LEMMA GetWokenStep ==
  ASSUME IInv, NEW t \in Threads, GetWoken(t)
  PROVE  IInv'
<1>1. CASE buf[t] \notin inUse
  <2>1. buf[t] \in Listed
    BY ChosenFact DEF GetWoken, Enter, ChosenPC
  <2>2. QED BY <1>1, <2>1, AcquireStep DEF GetWoken, Enter
<1>2. CASE buf[t] \in inUse
  <2> USE <1>2 DEF GetWoken, Enter
  <2>1. /\ cond' = cond \cup {t} /\ pc[t] = "wait"
        /\ UNCHANGED <<disk, bufferList, fsBlockNum, data, dirty, inUse, lock, pc, want, buf,
                       touched, sector, pos>>
    OBVIOUS
  <2>2. TypeOK'
    BY <2>1 DEF IInv, TypeOK
  <2>3. ListInv' /\ OneBufferPerBlock'
    BY <2>1, ListKept
  <2>4. LockInv' /\ TransferInv'
    <3>1. LockInv'
      BY <2>1 DEF IInv, LockInv
    <3>2. \A t2 \in Threads : Target(t2)' = Target(t2)
      BY <2>1 DEF Target
    <3>3. ASSUME NEW t2 \in Threads PROVE TransferOK(t2)'
      BY <2>1, <3>2, TransferKept DEF Matches
    <3>4. QED BY <3>1, <3>3 DEF TransferInv
  <2>5. ChoiceInv'
    BY <2>1 DEF IInv, ChoiceInv, ChoiceOK, Listed
  <2>6. ExclusiveUse'
    BY <2>1, UseKept DEF IInv, Has
  <2>7. WaitersHaveAUser'
    BY <2>1 DEF IInv, WaitersHaveAUser
  <2>8. QED BY <2>2, <2>3, <2>4, <2>5, <2>6, <2>7 DEF IInv
<1>3. QED BY <1>1, <1>2

(* An error is returned, before or after the end of a transfer. *)
LEMMA GiveUpStep ==
  ASSUME IInv, NEW t \in Threads, lock \in {t, NoThread}, pc[t] \in {"get", "evict", "read"},
         GiveUp(t), lock' = NoThread, disk' \in [Blocks -> [Sectors -> Values \cup {Junk}]],
         UNCHANGED <<bufVars, cond, touched, sector, pos>>
  PROVE  IInv'
<1> USE DEF GiveUp, Goto, bufVars
<1>1. TypeOK'
  BY DEF IInv, TypeOK
<1>2. ListInv' /\ OneBufferPerBlock'
  BY ListKept
<1>3. /\ pc'[t] = "out"
      /\ \A t2 \in Threads : t2 # t => /\ pc'[t2] = pc[t2] /\ buf'[t2] = buf[t2]
                                       /\ want'[t2] = want[t2] /\ pc[t2] \notin InsidePC
  BY OthersOutside DEF IInv, TypeOK
<1>4. LockInv'
  BY <1>3, BufCacheAssumption DEF LockInv, InsidePC
<1>5. ChoiceInv'
  <2>1. ASSUME NEW t2 \in Threads, t2 # t PROVE ChoiceOK(t2)'
    BY <1>3, <2>1, ChoiceKept DEF Listed
  <2>2. ChoiceOK(t)'
    BY <1>3 DEF IInv, ChoiceInv, ChoiceOK, ChosenPC
  <2>3. QED BY <2>1, <2>2 DEF ChoiceInv
<1>6. TransferInv'
  BY NoTransfer DEF IInv, TypeOK, TransferPC
<1>7. ExclusiveUse'
  BY <1>3, UseKept DEF IInv, Has
<1>8. WaitersHaveAUser'
  BY <1>3 DEF IInv, ChoiceInv, ChoiceOK, WaitersHaveAUser
<1>9. QED BY <1>1, <1>2, <1>4, <1>5, <1>6, <1>7, <1>8 DEF IInv

LEMMA GetNoBufferStep ==
  ASSUME IInv, NEW t \in Threads, GetNoBuffer(t)
  PROVE  IInv'
  BY GiveUpStep DEF GetNoBuffer, Enter, bufVars, IInv, TypeOK

(* The next buffer, not yet in the list, is put at its front. *)
LEMMA NewBufferFact ==
  ASSUME IInv, NEW t \in Threads, GetNew(t), NEW u, u = Len(bufferList) + 1
  PROVE  /\ u \in Buffers /\ u \in Nat /\ u \notin Listed /\ Listed' = Listed \cup {u}
         /\ bufferList' \in Seq(Buffers) /\ Len(bufferList') = Len(bufferList) + 1
         /\ IsInjective(bufferList')
         /\ \A v : Contains(bufferList', v) <=> Contains(bufferList, v) \/ v = u
<1>1. bufferList \in Seq(Buffers) /\ bufferList' = <<u>> \o bufferList /\ Len(bufferList) < MaxBlocks
  BY DEF IInv, TypeOK, GetNew
<1>2. u \in Buffers /\ u \in Nat
  BY <1>1, BufCacheAssumption DEF Buffers
<1>3. ~Contains(bufferList, u)
  BY <1>1, <1>2 DEF IInv, ListInv
<1>4. /\ <<u>> \in Seq(Buffers) /\ Len(<<u>>) = 1 /\ Distinct(<<u>>)
      /\ \A v : Contains(<<u>>, v) <=> v = u
  BY <1>2 DEF Distinct, Contains
<1>5. Distinct(bufferList)
  BY <1>1 DEF IInv, OneBufferPerBlock, IsInjective, Distinct
<1>6. \A v \in Buffers : ~(Contains(<<u>>, v) /\ Contains(bufferList, v))
  BY <1>3, <1>4
<1>7. /\ bufferList' \in Seq(Buffers) /\ Distinct(bufferList')
      /\ \A v : Contains(bufferList', v) <=> Contains(bufferList, v) \/ v = u
  BY <1>1, <1>4, <1>5, <1>6, ConcatFact
<1>8. Len(bufferList') = Len(bufferList) + 1
  BY <1>1, <1>4, ConcatElements
<1>9. Listed' = Listed \cup {u} /\ u \notin Listed
  BY <1>1, <1>3, <1>7, ToSetFact DEF Listed
<1>10. QED BY <1>2, <1>7, <1>8, <1>9 DEF IsInjective, Distinct

LEMMA GetNewStep ==
  ASSUME IInv, NEW t \in Threads, GetNew(t)
  PROVE  IInv'
<1>1. PICK u : u = Len(bufferList) + 1
  OBVIOUS
<1>2. /\ lock = NoThread /\ pc[t] = "get" /\ Cached(want[t]) = {}
      /\ fsBlockNum' = [fsBlockNum EXCEPT ![u] = want[t]]
      /\ buf' = [buf EXCEPT ![t] = u] /\ pc' = [pc EXCEPT ![t] = "read"]
      /\ lock' = t /\ sector' = 1 /\ bufferList \in Seq(Buffers)
      /\ UNCHANGED <<disk, data, dirty, inUse, cond, want, touched, pos>>
  BY <1>1 DEF GetNew, Enter, Goto, IInv, TypeOK
<1>3. want[t] \in Blocks /\ t \notin cond /\ t \notin touched
  BY <1>2 DEF IInv, ChoiceInv, ChoiceOK
<1>4. /\ u \in Buffers /\ u \in Nat /\ u \notin Listed /\ Listed' = Listed \cup {u}
      /\ bufferList' \in Seq(Buffers) /\ Len(bufferList') = Len(bufferList) + 1
      /\ IsInjective(bufferList') /\ Listed \subseteq Buffers
      /\ \A v : Contains(bufferList', v) <=> Contains(bufferList, v) \/ v = u
  BY <1>1, NewBufferFact, ListedFact DEF IInv
<1>5. TypeOK'
  <2>1. Len(bufferList') <= MaxBlocks
    <3>1. Len(bufferList) \in Nat /\ Len(bufferList) < MaxBlocks
      BY <1>2, <1>3 DEF GetNew
    <3>2. QED BY <1>4, <3>1, BufCacheAssumption
  <2>2. sector' \in 1 .. NumSectors + 1
    BY <1>2, <1>3, BufCacheAssumption
  <2>3. QED BY <1>2, <1>3, <1>4, <2>1, <2>2 DEF IInv, TypeOK
<1>6. ListInv'
  <2>1. ASSUME NEW v \in Buffers PROVE Contains(bufferList', v) <=> v <= Len(bufferList')
    <3>1. v \in Nat /\ Len(bufferList) \in Nat
      BY <1>2, BufCacheAssumption DEF Buffers
    <3>2. Contains(bufferList, v) <=> v <= Len(bufferList)
      BY DEF IInv, ListInv
    <3>3. QED BY <1>1, <1>4, <3>1, <3>2
  <2>2. \A v \in Listed' : fsBlockNum'[v] \in Blocks
    BY <1>2, <1>3, <1>4 DEF IInv, TypeOK, ListInv
  <2>3. dirty' \subseteq Listed'
    BY <1>2, <1>3, <1>4 DEF IInv, ListInv
  <2>4. QED BY <2>1, <2>2, <2>3 DEF ListInv
<1>7. OneBufferPerBlock'
  <2>1. \A v \in Listed : fsBlockNum'[v] = fsBlockNum[v] /\ fsBlockNum[v] # want[t]
    BY <1>2, <1>3, <1>4 DEF IInv, TypeOK, Cached
  <2>2. fsBlockNum'[u] = want[t]
    BY <1>2, <1>3, <1>4 DEF IInv, TypeOK
  <2>3. QED BY <1>4, <2>1, <2>2 DEF IInv, OneBufferPerBlock
<1>8. LockInv'
  BY <1>2, <1>3, BufCacheAssumption DEF IInv, TypeOK, LockInv, InsidePC
<1>9. u \notin inUse /\ u \notin dirty
  <2>1. \A t2 \in Threads : Has(t2) => buf[t2] \in Listed
    BY ChosenFact DEF Has, ChosenPC
  <2>2. u \notin inUse
    BY <1>4, <2>1 DEF IInv, ExclusiveUse
  <2>3. QED BY <1>4, <2>2 DEF IInv, ListInv
<1>10. ChoiceInv'
  <2>1. ASSUME NEW t2 \in Threads, t2 # t PROVE ChoiceOK(t2)'
    <3>1. pc[t2] \notin InsidePC /\ pc'[t2] = pc[t2] /\ buf'[t2] = buf[t2]
      BY <1>2, <1>3, <2>1, OthersOutside DEF IInv, TypeOK
    <3>2. QED BY <1>2, <1>3, <1>4, <3>1, ChoiceKept
  <2>2. ChoiceOK(t)'
    BY <1>2, <1>3, <1>4, <1>9 DEF IInv, TypeOK, ChoiceOK
  <2>3. QED BY <2>1, <2>2 DEF ChoiceInv
<1>11. TransferInv'
  BY <1>2, <1>3, <1>9, TransferStarts DEF IInv, TypeOK, TransferPC
<1>12. ExclusiveUse'
  BY <1>2, <1>3, UseKept DEF IInv, TypeOK, Has
<1>13. WaitersHaveAUser'
  BY <1>2, <1>3 DEF IInv, TypeOK, WaitersHaveAUser
<1>14. QED BY <1>5, <1>6, <1>7, <1>8, <1>10, <1>11, <1>12, <1>13 DEF IInv

(* The start of the transfer of a buffer u that nobody uses, which a thread *)
(* takes under the mutex; it is moved to the front of the list, or not.     *)
LEMMA TransferStartStep ==
  ASSUME IInv, NEW t \in Threads, lock \in {t, NoThread}, pc[t] \in {"get", "evict"},
         NEW k \in 1 .. Len(bufferList), bufferList[k] \notin inUse,
         buf' = [buf EXCEPT ![t] = bufferList[k]],
         NEW l \in {"evict", "read"}, pc' = [pc EXCEPT ![t] = l],
         bufferList' = bufferList \/ bufferList' = MoveToFront(k), dirty' \subseteq dirty,
         bufferList[k] \in dirty' <=> l = "evict", lock' = t, sector' = 1,
         UNCHANGED <<disk, fsBlockNum, data, inUse, cond, want, touched, pos>>
  PROVE  IInv'
<1>1. bufferList[k] \in Listed /\ Listed \subseteq Buffers
  BY ListedFact DEF IInv
<1>2. /\ ListInv' /\ OneBufferPerBlock' /\ Listed' = Listed
      /\ bufferList' \in Seq(Buffers) /\ Len(bufferList') = Len(bufferList)
  <2>1. CASE bufferList' = bufferList
    BY <2>1, ListKept DEF IInv, TypeOK, Listed
  <2>2. CASE bufferList' = MoveToFront(k)
    BY <2>2, ListMoved
  <2>3. QED BY <2>1, <2>2
<1>3. /\ pc'[t] = l /\ buf'[t] = bufferList[k]
      /\ \A t2 \in Threads : t2 # t => pc'[t2] = pc[t2] /\ buf'[t2] = buf[t2]
  BY DEF IInv, TypeOK
<1>4. TypeOK'
  <2>1. sector' \in 1 .. NumSectors + 1
    BY BufCacheAssumption
  <2>2. pc' \in [Threads -> {"out", "get", "wait", "evict", "read", "has", "sync", "flush one",
                             "sync cache", "walk", "flush", "release"}]
    BY DEF IInv, TypeOK
  <2>3. buf' \in [Threads -> Buffers \cup {NoBuffer}]
    BY <1>1 DEF IInv, TypeOK
  <2>4. QED BY <1>2, <2>1, <2>2, <2>3 DEF IInv, TypeOK
<1>5. LockInv'
  <2>1. \A t2 \in Threads : t2 # t => pc'[t2] \notin InsidePC
    BY <1>3, OthersOutside
  <2>2. QED BY <1>3, <2>1 DEF LockInv, InsidePC
<1>6. ChoiceInv'
  <2>1. ASSUME NEW t2 \in Threads, t2 # t PROVE ChoiceOK(t2)'
    BY <1>2, <1>3, <2>1, OthersOutside, ChoiceKept
  <2>2. ChoiceOK(t)
    BY DEF IInv, ChoiceInv
  <2>3. ChoiceOK(t)'
    BY <1>1, <1>2, <1>3, <2>2 DEF ChoiceOK
  <2>4. QED BY <2>1, <2>3 DEF ChoiceInv
<1>7. TransferInv'
  <2>1. Target(t)' = bufferList[k]
    BY <1>3 DEF Target
  <2>2. QED BY <1>3, <2>1, TransferStarts DEF TransferPC
<1>8. ExclusiveUse'
  BY <1>3, UseKept DEF IInv, Has
<1>9. WaitersHaveAUser'
  BY <1>3 DEF IInv, WaitersHaveAUser, ChoiceInv, ChoiceOK
<1>10. QED BY <1>2, <1>4, <1>5, <1>6, <1>7, <1>8, <1>9 DEF IInv

LEMMA GetLRUStep ==
  ASSUME IInv, NEW t \in Threads, GetLRU(t)
  PROVE  IInv'
<1>1. PICK k \in 1 .. Len(bufferList) :
        /\ bufferList[k] \notin inUse
        /\ buf' = [buf EXCEPT ![t] = bufferList[k]]
        /\ \/ /\ bufferList[k] \in dirty
              /\ Goto(t, "evict")
              /\ UNCHANGED bufferList
           \/ /\ bufferList[k] \notin dirty
              /\ bufferList' = MoveToFront(k)
              /\ Goto(t, "read")
  BY DEF GetLRU, IsLRU
<1>2. QED BY <1>1, TransferStartStep DEF GetLRU, Enter, Goto

LEMMA EvictDoneStep ==
  ASSUME IInv, NEW t \in Threads, EvictDone(t)
  PROVE  IInv'
<1>1. PICK k \in 1 .. Len(bufferList) : bufferList[k] = buf[t] /\ bufferList' = MoveToFront(k)
  BY DEF EvictDone
<1>2. buf[t] \notin inUse
  BY DEF EvictDone, Transferred, Inside, IInv, ChoiceInv, ChoiceOK
<1>3. buf' = [buf EXCEPT ![t] = bufferList[k]]
  BY <1>1 DEF EvictDone, IInv, TypeOK
<1>4. QED BY <1>1, <1>2, <1>3, TransferStartStep DEF EvictDone, Transferred, Inside, Goto
-----------------------------------------------------------------------------
(* The transfers *)

LEMMA BlockWriteStep ==
  ASSUME IInv, NEW t \in Threads, BlockWrite(t)
  PROVE  IInv'
<1> DEFINE u == Target(t)
           n == fsBlockNum[u]
<1>1. /\ lock = t /\ pc[t] \in TransferPC /\ pc[t] # "read" /\ sector \in Sectors
      /\ disk' = [disk EXCEPT ![n][sector] = data[u][sector]] /\ sector' = sector + 1
      /\ UNCHANGED <<bufVars, lock, cond, threadVars, pos>>
  <2>1. sector \in Sectors
    <3>1. sector \in 1 .. NumSectors + 1 /\ sector <= NumSectors
      BY DEF BlockWrite, Transferring, IInv, TypeOK
    <3>2. QED BY <3>1, BufCacheAssumption DEF Sectors
  <2>2. QED BY <2>1 DEF BlockWrite, Transferring, WriteSector, Writes, TransferPC
<1>2. n \in Blocks /\ u \in Buffers
  BY <1>1, TargetFact
<1> USE DEF bufVars, threadVars
<1>3. TypeOK'
  <2>1. sector' \in 1 .. NumSectors + 1
    BY <1>1, BufCacheAssumption DEF Sectors
  <2>2. data[u][sector] \in Values \cup {Junk}
    BY <1>1, <1>2, ZenonT(40) DEF IInv, TypeOK
  <2>3. disk' \in [Blocks -> [Sectors -> Values \cup {Junk}]]
    BY <1>1, <1>2, <2>2 DEF IInv, TypeOK
  <2>4. QED BY <1>1, <2>1, <2>3 DEF IInv, TypeOK
<1>4. ListInv' /\ OneBufferPerBlock'
  BY <1>1, ListKept
<1>5. LockInv' /\ WaitersHaveAUser'
  BY <1>1 DEF IInv, LockInv, WaitersHaveAUser
<1>6. ChoiceInv'
  BY <1>1 DEF IInv, ChoiceInv, ChoiceOK, Listed
<1>7. ExclusiveUse'
  BY <1>1, UseKept DEF IInv, Has
<1>8. TransferInv'
  <2>1. \A t2 \in Threads : t2 # t => pc'[t2] \notin TransferPC
    BY <1>1, OthersOutside DEF InsidePC, TransferPC
  <2>2. Target(t)' = u
    BY <1>1 DEF Target
  <2>3. TransferOK(t)
    BY DEF IInv, TransferInv
  <2>4. ASSUME pc[t] \in {"evict", "read", "flush one"} \/ (pc[t] = "flush" /\ u \notin inUse),
               NEW s \in 1 .. sector' - 1
        PROVE  Matches(u, s)'
    <3>1. disk'[n][sector] = data[u][sector] /\ \A r \in Sectors : r # sector => disk'[n][r] = disk[n][r]
      BY <1>1, <1>2 DEF IInv, TypeOK
    <3>2. s \in Sectors /\ (s = sector \/ s \in 1 .. sector - 1)
      BY <1>1, BufCacheAssumption DEF Sectors
    <3>3. s # sector => data[u][s] = disk[n][s]
      BY <2>3, <2>4, <3>2 DEF TransferOK, Matches
    <3>4. data[u][s] = disk'[n][s]
      BY <3>1, <3>2, <3>3
    <3>5. QED BY <1>1, <2>2, <3>4 DEF Matches, Target
  <2>5. TransferOK(t)'
    BY <1>1, <2>2, <2>3, <2>4 DEF TransferOK
  <2>6. QED BY <2>1, <2>5 DEF TransferInv, TransferOK, TransferPC, Writes
<1>9. QED BY <1>3, <1>4, <1>5, <1>6, <1>7, <1>8 DEF IInv

LEMMA BlockReadStep ==
  ASSUME IInv, NEW t \in Threads, BlockRead(t)
  PROVE  IInv'
<1> DEFINE u == buf[t]
           n == fsBlockNum[u]
<1>1. /\ lock = t /\ pc[t] = "read" /\ sector \in Sectors
      /\ data' = [data EXCEPT ![u][sector] = disk[n][sector]] /\ sector' = sector + 1
      /\ UNCHANGED <<disk, bufferList, fsBlockNum, dirty, inUse, lock, cond, threadVars, pos>>
  <2>1. sector \in Sectors
    <3>1. sector \in 1 .. NumSectors + 1 /\ sector <= NumSectors
      BY DEF BlockRead, Transferring, IInv, TypeOK
    <3>2. QED BY <3>1, BufCacheAssumption DEF Sectors
  <2>2. QED BY <2>1 DEF BlockRead, Transferring
<1>2. n \in Blocks /\ u \in Buffers
  BY <1>1, ChosenFact DEF ChosenPC
<1> USE DEF threadVars
<1>3. TypeOK'
  <2>1. sector' \in 1 .. NumSectors + 1
    BY <1>1, BufCacheAssumption DEF Sectors
  <2>2. disk[n][sector] \in Values \cup {Junk}
    BY <1>1, <1>2, ZenonT(40) DEF IInv, TypeOK
  <2>3. data' \in [Buffers -> [Sectors -> Values \cup {Junk}]]
    BY <1>1, <1>2, <2>2 DEF IInv, TypeOK
  <2>4. QED BY <1>1, <2>1, <2>3 DEF IInv, TypeOK
<1>4. ListInv' /\ OneBufferPerBlock'
  BY <1>1, ListKept
<1>5. LockInv' /\ WaitersHaveAUser'
  BY <1>1 DEF IInv, LockInv, WaitersHaveAUser
<1>6. ChoiceInv'
  BY <1>1 DEF IInv, ChoiceInv, ChoiceOK, Listed
<1>7. ExclusiveUse'
  BY <1>1, UseKept DEF IInv, Has
<1>8. TransferInv'
  <2>1. \A t2 \in Threads : t2 # t => pc'[t2] \notin TransferPC
    BY <1>1, OthersOutside DEF InsidePC, TransferPC
  <2>2. Target(t) = u /\ Target(t)' = u
    BY <1>1 DEF Target
  <2>3. TransferOK(t)
    BY DEF IInv, TransferInv
  <2>4. ASSUME NEW s \in 1 .. sector' - 1 PROVE Matches(u, s)'
    <3>1. data'[u][sector] = disk[n][sector] /\ \A r \in Sectors : r # sector => data'[u][r] = data[u][r]
      BY <1>1, <1>2 DEF IInv, TypeOK
    <3>2. s \in Sectors /\ (s = sector \/ s \in 1 .. sector - 1)
      BY <1>1, BufCacheAssumption DEF Sectors
    <3>3. s # sector => data[u][s] = disk[n][s]
      BY <1>1, <2>2, <2>3, <3>2 DEF TransferOK, Matches
    <3>4. data'[u][s] = disk[n][s]
      BY <3>1, <3>2, <3>3
    <3>5. QED BY <1>1, <3>4 DEF Matches
  <2>5. TransferOK(t)'
    BY <1>1, <2>2, <2>3, <2>4 DEF TransferOK, Writes
  <2>6. QED BY <2>1, <2>5 DEF TransferInv, TransferOK, TransferPC, Writes
<1>9. QED BY <1>3, <1>4, <1>5, <1>6, <1>7, <1>8 DEF IInv

LEMMA ReadDoneStep ==
  ASSUME IInv, NEW t \in Threads, ReadDone(t)
  PROVE  IInv'
<1>1. buf[t] \in Listed /\ buf[t] \notin inUse /\ t \notin cond
  BY ChosenFact DEF ReadDone, Transferred, Inside, ChosenPC, IInv, ChoiceInv, ChoiceOK
<1>2. QED BY <1>1, AcquireStep DEF ReadDone, Transferred, Inside
-----------------------------------------------------------------------------
(* Synchronisation, by a thread that has a buffer *)

(* A step under the mutex that ends the call, goes on with the walk over    *)
(* the list, or starts the transfer of a dirty buffer.                      *)
LEMMA HolderStep ==
  ASSUME IInv, NEW t \in Threads, lock \in {t, NoThread}, pc[t] \in HasPC \ {"has"},
         NEW l \in {"has", "walk", "flush one", "flush"}, pc' = [pc EXCEPT ![t] = l],
         lock' = IF l = "has" THEN NoThread ELSE t, dirty' \subseteq dirty,
         l \in Writes => sector' = 1 /\ Target(t)' \in dirty',
         l = "flush" => pos' <= Len(bufferList),
         sector' \in 1 .. NumSectors + 1, pos' \in 1 .. MaxBlocks + 1,
         disk' \in [Blocks -> [Sectors -> Values \cup {Junk}]],
         UNCHANGED <<bufferList, fsBlockNum, data, inUse, cond, want, buf, touched>>
  PROVE  IInv'
<1>1. /\ pc'[t] = l
      /\ \A t2 \in Threads : t2 # t => pc'[t2] = pc[t2] /\ pc[t2] \notin InsidePC
  BY OthersOutside DEF IInv, TypeOK
<1>2. pc' \in [Threads -> {"out", "get", "wait", "evict", "read", "has", "sync", "flush one",
                           "sync cache", "walk", "flush", "release"}]
  BY DEF IInv, TypeOK
<1>3. TypeOK'
  BY <1>2 DEF IInv, TypeOK
<1>4. ListInv' /\ OneBufferPerBlock'
  BY ListKept
<1>5. LockInv'
  BY <1>1, BufCacheAssumption DEF LockInv, InsidePC
<1>6. ChoiceInv'
  <2>1. ASSUME NEW t2 \in Threads, t2 # t PROVE ChoiceOK(t2)'
    BY <1>1, <2>1, ChoiceKept DEF Listed
  <2>2. ChoiceOK(t) /\ buf[t] \in Listed
    BY ChosenFact DEF IInv, ChoiceInv, HasPC, ChosenPC
  <2>3. ChoiceOK(t)'
    BY <1>1, <2>2 DEF ChoiceOK, HasPC, Listed
  <2>4. QED BY <2>1, <2>3 DEF ChoiceInv
<1>7. TransferInv'
  <2>1. CASE l \in {"has", "walk"}
    BY <1>1, <2>1, NoTransfer DEF TransferPC
  <2>2. CASE l \in {"flush one", "flush"}
    BY <1>1, <2>2, TransferStarts DEF TransferPC, Writes
  <2>3. QED BY <2>1, <2>2
<1>8. ExclusiveUse'
  BY <1>1, UseKept DEF IInv, Has, HasPC
<1>9. WaitersHaveAUser'
  BY DEF IInv, WaitersHaveAUser
<1>10. QED BY <1>3, <1>4, <1>5, <1>6, <1>7, <1>8, <1>9 DEF IInv

LEMMA TypeFact ==
  ASSUME IInv
  PROVE  /\ sector \in 1 .. NumSectors + 1 /\ pos \in 1 .. MaxBlocks + 1
         /\ disk \in [Blocks -> [Sectors -> Values \cup {Junk}]]
         /\ 1 \in 1 .. NumSectors + 1 /\ 1 \in 1 .. MaxBlocks + 1
         /\ pos <= Len(bufferList) => pos + 1 \in 1 .. MaxBlocks + 1
<1>1. /\ sector \in 1 .. NumSectors + 1 /\ pos \in 1 .. MaxBlocks + 1
      /\ disk \in [Blocks -> [Sectors -> Values \cup {Junk}]]
      /\ bufferList \in Seq(Buffers) /\ Len(bufferList) <= MaxBlocks
  BY DEF IInv, TypeOK
<1>2. Len(bufferList) \in Nat
  BY <1>1
<1>3. QED BY <1>1, <1>2, BufCacheAssumption

LEMMA SyncStep ==
  ASSUME IInv, NEW t \in Threads, Sync(t)
  PROVE  IInv'
<1> USE DEF Sync, Enter, Goto, bufVars
<1>1. CASE buf[t] \notin dirty
  BY <1>1, TypeFact, HolderStep DEF HasPC, Writes
<1>2. CASE buf[t] \in dirty
  <2>1. Target(t)' = buf[t]
    BY <1>2 DEF Target, IInv, TypeOK
  <2>2. QED BY <1>2, <2>1, TypeFact, HolderStep DEF HasPC
<1>3. QED BY <1>1, <1>2

LEMMA SyncDoneStep ==
  ASSUME IInv, NEW t \in Threads, SyncDone(t)
  PROVE  IInv'
  BY TypeFact, HolderStep DEF SyncDone, Transferred, Inside, Goto, HasPC, Writes

LEMMA SyncCacheStep ==
  ASSUME IInv, NEW t \in Threads, SyncCache(t)
  PROVE  IInv'
  BY TypeFact, HolderStep DEF SyncCache, Enter, Goto, bufVars, HasPC, Writes

LEMMA WalkNextStep ==
  ASSUME IInv, NEW t \in Threads, WalkNext(t)
  PROVE  IInv'
<1> USE DEF WalkNext, Inside, Goto, bufVars
<1>1. CASE pos > Len(bufferList) /\ lock' = NoThread /\ Goto(t, "has") /\ UNCHANGED <<sector, pos>>
  BY <1>1, TypeFact, HolderStep DEF HasPC, Writes
<1>2. CASE /\ pos <= Len(bufferList) /\ bufferList[pos] \in dirty
           /\ sector' = 1 /\ Goto(t, "flush") /\ UNCHANGED <<lock, pos>>
  <2>1. Target(t)' = bufferList[pos]
    BY <1>2 DEF Target, IInv, TypeOK
  <2>2. QED BY <1>2, <2>1, TypeFact, HolderStep DEF HasPC
<1>3. CASE pos <= Len(bufferList) /\ pos' = pos + 1 /\ UNCHANGED <<lock, pc, sector>>
  <2>1. pc' = [pc EXCEPT ![t] = "walk"]
    BY <1>3 DEF IInv, TypeOK
  <2>2. QED BY <1>3, <2>1, TypeFact, HolderStep DEF HasPC, Writes
<1>4. QED BY <1>1, <1>2, <1>3

LEMMA FlushDoneStep ==
  ASSUME IInv, NEW t \in Threads, FlushDone(t)
  PROVE  IInv'
<1>1. pos <= Len(bufferList)
  BY DEF FlushDone, Transferred, Inside, IInv, ChoiceInv, ChoiceOK
<1>2. QED BY <1>1, TypeFact, HolderStep DEF FlushDone, Transferred, Inside, Goto, HasPC, Writes

LEMMA BlockFailsStep ==
  ASSUME IInv, NEW t \in Threads, BlockFails(t)
  PROVE  IInv'
<1> USE DEF BlockFails, Transferring, bufVars
<1>1. disk' \in [Blocks -> [Sectors -> Values \cup {Junk}]]
  <2>1. CASE UNCHANGED disk
    BY <2>1, TypeFact
  <2>2. CASE pc[t] \in Writes /\ WriteSector(Target(t))
    <3>1. Target(t) \in Buffers /\ fsBlockNum[Target(t)] \in Blocks
      BY <2>2, TargetFact DEF Writes, TransferPC
    <3>2. sector \in Sectors
      BY TypeFact, BufCacheAssumption DEF Sectors
    <3>3. data[Target(t)][sector] \in Values \cup {Junk}
      BY <3>1, <3>2 DEF IInv, TypeOK
    <3>4. QED BY <2>2, <3>1, <3>2, <3>3, TypeFact DEF WriteSector
  <2>3. QED BY <2>1, <2>2
<1>2. CASE pc[t] \in {"evict", "read"}
  BY <1>1, <1>2, GiveUpStep
<1>3. CASE pc[t] \notin {"evict", "read"}
  BY <1>1, <1>3, TypeFact, HolderStep DEF Goto, HasPC, Writes
<1>4. QED BY <1>2, <1>3
-----------------------------------------------------------------------------
(* The users *)

(* A buffer in use is not the one of a transfer, a synchronisation of all   *)
(* buffers excepted.                                                        *)
LEMMA OwnBuffer ==
  ASSUME IInv, NEW t \in Threads, pc[t] = "has", NEW t2 \in Threads, t2 # t,
         pc[t2] \in TransferPC
  PROVE  /\ buf[t] \in inUse
         /\ pc[t2] # "flush" => Target(t2) # buf[t]
<1>1. buf[t] \in inUse
  BY DEF IInv, ExclusiveUse, Has
<1>2. CASE pc[t2] \in {"evict", "read"}
  BY <1>1, <1>2 DEF IInv, ChoiceInv, ChoiceOK, Target
<1>3. CASE pc[t2] = "flush one"
  BY <1>3 DEF IInv, ExclusiveUse, Has, Target
<1>4. QED BY <1>1, <1>2, <1>3 DEF TransferPC

LEMMA ChangeStep ==
  ASSUME IInv, NEW t \in Threads, NEW s \in Sectors, NEW v \in Values, Change(t, s, v)
  PROVE  IInv'
<1>1. /\ pc[t] = "has" /\ data' = [data EXCEPT ![buf[t]][s] = v] /\ touched' = touched \cup {t}
      /\ UNCHANGED <<disk, bufferList, fsBlockNum, dirty, inUse, lock, cond, pc, want, buf,
                     sector, pos>>
  BY DEF Change
<1>2. buf[t] \in Buffers
  BY <1>1, ChosenFact DEF ChosenPC
<1>3. TypeOK'
  <2>1. data' \in [Buffers -> [Sectors -> Values \cup {Junk}]]
    BY <1>1, <1>2 DEF IInv, TypeOK
  <2>2. QED BY <1>1, <2>1 DEF IInv, TypeOK
<1>4. ListInv' /\ OneBufferPerBlock'
  BY <1>1, ListKept
<1>5. LockInv' /\ WaitersHaveAUser'
  BY <1>1 DEF IInv, LockInv, WaitersHaveAUser
<1>6. ChoiceInv'
  BY <1>1 DEF IInv, ChoiceInv, ChoiceOK, Listed
<1>7. ExclusiveUse'
  BY <1>1, UseKept DEF IInv, Has
<1>8. ASSUME NEW t2 \in Threads PROVE TransferOK(t2)'
  <2>1. Target(t2)' = Target(t2)
    BY <1>1 DEF Target
  <2>2. CASE pc[t2] \notin TransferPC
    BY <1>1, <2>1, <2>2, TransferKept
  <2>3. CASE pc[t2] \in TransferPC /\ Target(t2) # buf[t]
    <3>1. data'[Target(t2)] = data[Target(t2)]
      BY <1>1, <1>2, <2>3, TargetFact DEF IInv, TypeOK
    <3>2. \A r : Matches(Target(t2), r) => Matches(Target(t2), r)'
      BY <1>1, <2>1, <3>1 DEF Matches
    <3>3. QED BY <1>1, <2>1, <3>2, TransferKept
  <2>4. CASE pc[t2] \in TransferPC /\ Target(t2) = buf[t]
    <3>1. pc[t2] = "flush" /\ Target(t2) \in inUse
      BY <1>1, <2>4, OwnBuffer DEF TransferPC
    <3>2. QED BY <1>1, <2>1, <3>1, TransferKept
  <2>5. QED BY <2>2, <2>3, <2>4
<1>9. QED BY <1>3, <1>4, <1>5, <1>6, <1>7, <1>8 DEF IInv, TransferInv

LEMMA ModifyStep ==
  ASSUME IInv, NEW t \in Threads, Modify(t)
  PROVE  IInv'
<1>1. /\ pc[t] = "has" /\ dirty' = dirty \cup {buf[t]} /\ touched' = touched \ {t}
      /\ UNCHANGED <<disk, bufferList, fsBlockNum, data, inUse, lock, cond, pc, want, buf,
                     sector, pos>>
  BY DEF Modify
<1>2. buf[t] \in Buffers /\ buf[t] \in Listed
  BY <1>1, ChosenFact DEF ChosenPC
<1>3. TypeOK'
  BY <1>1, <1>2 DEF IInv, TypeOK
<1>4. ListInv' /\ OneBufferPerBlock'
  BY <1>1, <1>2, ListKept
<1>5. LockInv' /\ WaitersHaveAUser'
  BY <1>1 DEF IInv, LockInv, WaitersHaveAUser
<1>6. ChoiceInv'
  BY <1>1 DEF IInv, ChoiceInv, ChoiceOK, Listed
<1>7. ExclusiveUse'
  BY <1>1, UseKept DEF IInv, Has
<1>8. ASSUME NEW t2 \in Threads PROVE TransferOK(t2)'
  <2>1. Target(t2)' = Target(t2) /\ \A r : Matches(Target(t2), r)' <=> Matches(Target(t2), r)
    BY <1>1 DEF Target, Matches
  <2>2. buf[t] \in inUse
    BY <1>1 DEF IInv, ExclusiveUse, Has
  <2>3. QED BY <1>1, <2>1, <2>2, TransferKept
<1>9. QED BY <1>3, <1>4, <1>5, <1>6, <1>7, <1>8 DEF IInv, TransferInv

LEMMA CallStep ==
  ASSUME IInv, NEW t \in Threads, NEW label \in {"sync", "release", "sync cache"}, Call(t, label)
  PROVE  IInv'
<1> USE DEF Call, Goto, bufVars
<1>1. TypeOK'
  BY DEF IInv, TypeOK
<1>2. ListInv' /\ OneBufferPerBlock'
  BY ListKept
<1>3. /\ pc'[t] = label /\ pc[t] = "has"
      /\ \A t2 \in Threads : t2 # t => pc'[t2] = pc[t2]
  BY DEF IInv, TypeOK
<1>4. LockInv' /\ WaitersHaveAUser'
  BY <1>3 DEF IInv, LockInv, InsidePC, WaitersHaveAUser
<1>5. ChoiceInv'
  BY <1>3 DEF IInv, ChoiceInv, ChoiceOK, ChosenPC, Listed
<1>6. ExclusiveUse'
  BY <1>3, UseKept DEF IInv, Has
<1>7. ASSUME NEW t2 \in Threads PROVE TransferOK(t2)'
  <2>1. CASE t2 = t
    BY <1>3, <2>1 DEF TransferOK, Writes
  <2>2. CASE t2 # t
    <3>1. Target(t2)' = Target(t2) /\ \A r : Matches(Target(t2), r)' <=> Matches(Target(t2), r)
      BY <1>3, <2>2 DEF Target, Matches
    <3>2. QED BY <1>3, <2>2, <3>1, TransferKept
  <2>3. QED BY <2>1, <2>2
<1>8. QED BY <1>1, <1>2, <1>4, <1>5, <1>6, <1>7 DEF IInv, TransferInv

LEMMA ReleaseStep ==
  ASSUME IInv, NEW t \in Threads, Release(t)
  PROVE  IInv'
<1> USE DEF Release, Enter, GiveUp, Goto
<1>1. TypeOK'
  BY DEF IInv, TypeOK
<1>2. ListInv' /\ OneBufferPerBlock'
  BY ListKept
<1>3. /\ pc'[t] = "out" /\ pc[t] = "release"
      /\ \A t2 \in Threads : t2 # t => /\ pc'[t2] = pc[t2] /\ buf'[t2] = buf[t2]
                                       /\ want'[t2] = want[t2] /\ pc[t2] \notin InsidePC
  BY OthersOutside DEF IInv, TypeOK
<1>4. LockInv' /\ WaitersHaveAUser'
  BY <1>3 DEF IInv, LockInv, InsidePC, WaitersHaveAUser
<1>5. ChoiceInv'
  <2>1. ASSUME NEW t2 \in Threads, t2 # t PROVE ChoiceOK(t2)'
    BY <1>3, <2>1, ChoiceKept DEF Listed
  <2>2. ChoiceOK(t)'
    BY <1>3 DEF IInv, ChoiceInv, ChoiceOK, ChosenPC
  <2>3. QED BY <2>1, <2>2 DEF ChoiceInv
<1>6. TransferInv'
  BY NoTransfer DEF IInv, TypeOK, TransferPC
<1>7. ExclusiveUse'
  BY UseGiven DEF IInv, HasPC
<1>8. QED BY <1>1, <1>2, <1>4, <1>5, <1>6, <1>7 DEF IInv
-----------------------------------------------------------------------------
(* The invariant, and what follows from it *)

LEMMA InitInv == Init => IInv
<1> SUFFICES ASSUME Init PROVE IInv
  OBVIOUS
<1> USE BufCacheAssumption DEF Init
<1>1. bufferList \in Seq(Buffers) /\ Len(bufferList) = 0 /\ IsInjective(bufferList) /\ Listed = {}
  BY DEF IsInjective, Listed, ToSet
<1>2. \A t \in Threads : ~Has(t)
  BY DEF Has
<1>3. TypeOK
  BY <1>1 DEF TypeOK
<1>4. ListInv /\ OneBufferPerBlock
  BY <1>1 DEF ListInv, OneBufferPerBlock, Contains, Buffers
<1>5. LockInv /\ ChoiceInv /\ WaitersHaveAUser
  BY DEF LockInv, InsidePC, ChoiceInv, ChoiceOK, ChosenPC, WaitersHaveAUser
<1>6. TransferInv
  BY DEF TransferInv, TransferOK, Writes
<1>7. ExclusiveUse
  BY <1>2 DEF ExclusiveUse
<1>8. QED BY <1>3, <1>4, <1>5, <1>6, <1>7 DEF IInv

LEMMA NextInv == IInv /\ [Next]_vars => IInv'
<1> SUFFICES ASSUME IInv, [Next]_vars PROVE IInv'
  OBVIOUS
<1>1. CASE UNCHANGED vars
  <2> USE <1>1 DEF vars, bufVars, threadVars
  <2>1. TypeOK'
    BY DEF IInv, TypeOK
  <2>2. ListInv' /\ OneBufferPerBlock'
    BY ListKept
  <2>3. LockInv' /\ WaitersHaveAUser'
    BY DEF IInv, LockInv, WaitersHaveAUser
  <2>4. ChoiceInv'
    BY DEF IInv, ChoiceInv, ChoiceOK, Listed
  <2>5. ExclusiveUse'
    BY UseKept DEF IInv, Has
  <2>6. ASSUME NEW t \in Threads PROVE TransferOK(t)'
    BY TransferKept DEF Target, Matches
  <2>7. QED BY <2>1, <2>2, <2>3, <2>4, <2>5, <2>6 DEF IInv, TransferInv
<1>2. ASSUME NEW t \in Threads, Step(t) PROVE IInv'
  BY <1>2, BlockWriteStep, BlockReadStep, BlockFailsStep, EvictDoneStep, ReadDoneStep,
     SyncDoneStep, WalkNextStep, FlushDoneStep DEF Step
<1>3. ASSUME NEW t \in Threads, Lock(t) PROVE IInv'
  BY <1>3, GetWaitStep, GetCachedStep, GetWokenStep, GetNewStep, GetNoBufferStep, GetLRUStep,
     SyncStep, SyncCacheStep, ReleaseStep DEF Lock
<1>4. ASSUME NEW t \in Threads, User(t) PROVE IInv'
  BY <1>4, CallGetStep, ChangeStep, ModifyStep, CallStep DEF User
<1>5. QED BY <1>1, <1>2, <1>3, <1>4 DEF Next

(* The inductive invariant holds throughout: the buffer cache of bufcache.c *)
(* under any schedule and any failures.                                     *)
THEOREM Invariance == Spec => []IInv
<1>1. Init => IInv
  BY InitInv
<1>2. IInv /\ [Next]_vars => IInv'
  BY NextInv
<1>3. QED BY <1>1, <1>2, PTL DEF Spec

(* Every variable keeps its type: no error path of Get_Buffer leaves a      *)
(* thread with a buffer that does not exist.                                *)
THEOREM TypeCorrect == Spec => []TypeOK
<1>1. IInv => TypeOK
  BY DEF IInv
<1>2. QED BY <1>1, Invariance, PTL

(* Get_Buffer never brings a block into two buffers, whatever fails.        *)
THEOREM BlocksHaveOneBuffer == Spec => []OneBufferPerBlock
<1>1. IInv => OneBufferPerBlock
  BY DEF IInv
<1>2. QED BY <1>1, Invariance, PTL

(* FS_BUFFER_INUSE is exclusive: a buffer has one user between              *)
(* Get_FS_Buffer and Release_FS_Buffer, however many waited for it.         *)
THEOREM BuffersHaveOneUser == Spec => []ExclusiveUse
<1>1. IInv => ExclusiveUse
  BY DEF IInv
<1>2. QED BY <1>1, Invariance, PTL

(* Release_FS_Buffer wakes all: nobody waits for a buffer that is free.     *)
THEOREM NobodyWaitsInVain == Spec => []WaitersHaveAUser
<1>1. IInv => WaitersHaveAUser
  BY DEF IInv
<1>2. QED BY <1>1, Invariance, PTL
-----------------------------------------------------------------------------
(* What is on the disk *)

LEMMA AllSectors ==
  ASSUME NEW m \in Nat, NEW n \in 1 .. m + 1, n > m
  PROVE  1 .. n - 1 = 1 .. m
  OBVIOUS

(* At the end of a transfer the buffer and the disk are the same. *)
LEMMA TransferredFact ==
  ASSUME IInv, NEW t \in Threads, sector > NumSectors,
         pc[t] \in {"evict", "read", "flush one"} \/ (pc[t] = "flush" /\ Target(t) \notin inUse)
  PROVE  data[Target(t)] = disk[fsBlockNum[Target(t)]]
<1> DEFINE u == Target(t)
           n == fsBlockNum[u]
<1>1. n \in Blocks /\ u \in Buffers
  BY TargetFact DEF TransferPC
<1>2. 1 .. sector - 1 = Sectors
  BY TypeFact, BufCacheAssumption, AllSectors DEF Sectors
<1>3. \A s \in Sectors : data[u][s] = disk[n][s]
  <2>1. TransferOK(t)
    BY DEF IInv, TransferInv
  <2>2. \A s \in 1 .. sector - 1 : Matches(u, s)
    BY <2>1 DEF TransferOK
  <2>3. QED BY <1>2, <2>2 DEF Matches
<1>4. data[u] \in [Sectors -> Values \cup {Junk}] /\ disk[n] \in [Sectors -> Values \cup {Junk}]
  BY <1>1 DEF IInv, TypeOK
<1>5. /\ data[u] = [s \in Sectors |-> data[u][s]]
      /\ disk[n] = [s \in Sectors |-> disk[n][s]]
  BY <1>4
<1>6. QED BY <1>3, <1>5

(* No step but the end of a transfer cleans a buffer. *)
LEMMA CleansOnlyAtEnd ==
  ASSUME IInv, [Next]_vars, NEW u \in dirty \ dirty', u \notin inUse
  PROVE  data[u] = disk[fsBlockNum[u]]
<1>1. ASSUME NEW t \in Threads, EvictDone(t) PROVE data[u] = disk[fsBlockNum[u]]
  <2>1. u = Target(t) /\ pc[t] = "evict" /\ sector > NumSectors
    BY <1>1 DEF EvictDone, Transferred, Inside, Target
  <2>2. QED BY <2>1, TransferredFact
<1>2. ASSUME NEW t \in Threads, SyncDone(t) PROVE FALSE
  BY <1>2 DEF SyncDone, Transferred, Inside, IInv, ExclusiveUse, Has
<1>3. ASSUME NEW t \in Threads, FlushDone(t) PROVE data[u] = disk[fsBlockNum[u]]
  <2>1. u = Target(t) /\ pc[t] = "flush" /\ sector > NumSectors
    BY <1>3 DEF FlushDone, Transferred, Inside, Target
  <2>2. QED BY <2>1, TransferredFact
<1>4. ASSUME NEW t \in Threads,
             BlockWrite(t) \/ BlockRead(t) \/ BlockFails(t) \/ ReadDone(t) \/ WalkNext(t)
      PROVE  FALSE
  BY <1>4 DEF BlockWrite, BlockRead, BlockFails, ReadDone, WalkNext, bufVars
<1>5. ASSUME NEW t \in Threads, Lock(t) PROVE FALSE
  BY <1>5 DEF Lock, GetWait, GetCached, GetWoken, GetNew, GetNoBuffer, GetLRU, Sync, SyncCache,
     Release, bufVars
<1>6. ASSUME NEW t \in Threads, User(t) PROVE FALSE
  BY <1>6 DEF User, CallGet, Change, Modify, Call, bufVars
<1>7. CASE UNCHANGED vars
  BY <1>7 DEF vars, bufVars
<1>8. QED BY <1>1, <1>2, <1>3, <1>4, <1>5, <1>6, <1>7 DEF Next, Step

(* Sync_Buffer and the eviction of Get_Buffer reset FS_BUFFER_DIRTY of a    *)
(* buffer nobody uses only with its data on the disk, whatever fails.       *)
THEOREM ChangesKept == Spec => ChangesReachDisk
<1>1. IInv /\ [Next]_vars
        => [\A u \in (dirty \ dirty') \ inUse : data[u] = disk[fsBlockNum[u]]]_vars
  BY CleansOnlyAtEnd
<1>2. QED BY <1>1, Invariance, PTL DEF Spec, ChangesReachDisk

(* Without Sync_FS_Buffer_Cache and failing reads clean buffers stay clean. *)
Clean(u) ==
  \/ u \in dirty
  \/ \E t \in Threads : buf[t] = u /\ (pc[t] = "read" \/ t \in touched)
  \/ data[u] = disk[fsBlockNum[u]]

CleanInv == IInv /\ CleanIsOnDisk /\ \A t \in Threads : pc[t] \notin {"sync cache", "walk", "flush"}

(* A step that changes no data and cleans nothing. *)
LEMMA CleanKept ==
  ASSUME NEW u, Clean(u), UNCHANGED <<disk, fsBlockNum, data>>, dirty \subseteq dirty',
         \A t \in Threads : pc[t] = "read" \/ t \in touched =>
           buf'[t] = buf[t] /\ (pc'[t] = "read" \/ t \in touched' \/ buf[t] \in dirty')
  PROVE  Clean(u)'
  BY DEF Clean

(* A transfer to the disk changes only the block of a dirty buffer. *)
LEMMA CleanBesideWrite ==
  ASSUME IInv, NEW t \in Threads, pc[t] \in Writes, NEW u \in Listed, Clean(u),
         disk' = disk \/ WriteSector(Target(t)), UNCHANGED <<fsBlockNum, data, dirty, touched>>,
         \A t2 \in Threads : pc[t2] = "read" \/ t2 \in touched =>
           buf'[t2] = buf[t2] /\ pc'[t2] = pc[t2]
  PROVE  Clean(u)'
<1>1. CASE u = Target(t)
  BY <1>1 DEF IInv, TransferInv, TransferOK, Clean
<1>2. CASE u # Target(t)
  <2>1. fsBlockNum[u] # fsBlockNum[Target(t)]
    BY <1>2, TargetFact DEF IInv, OneBufferPerBlock, Writes, TransferPC
  <2>2. fsBlockNum[u] \in Blocks
    BY DEF IInv, ListInv
  <2>3. disk'[fsBlockNum[u]] = disk[fsBlockNum[u]]
    BY <2>1, <2>2 DEF WriteSector, IInv, TypeOK
  <2>4. QED BY <2>3 DEF Clean
<1>3. QED BY <1>1, <1>2
LEMMA CleanStep ==
  ASSUME SyncsCache = FALSE, "read" \notin Failures, CleanInv, [Next]_vars
  PROVE  CleanInv'
<1> USE DEF CleanInv
<1>1. IInv /\ IInv' /\ \A u \in Listed : Clean(u)
  BY NextInv DEF CleanIsOnDisk, Clean
<1>2. /\ Listed \subseteq Buffers /\ \A t \in Threads : t \in touched => pc[t] = "has"
      /\ bufferList' = bufferList => Listed' = Listed
      /\ \A t \in Threads : pc[t] \notin {"sync cache", "walk", "flush"}
  BY <1>1, ListedFact DEF IInv, ChoiceInv, ChoiceOK, Listed
<1> DEFINE Labels == {"out", "get", "wait", "evict", "read", "has", "sync", "flush one", "release"}
           Others(t) == \A t2 \in Threads : t2 # t => pc'[t2] = pc[t2] /\ buf'[t2] = buf[t2]
           Goal == /\ \A u \in Listed' : Clean(u)'
                   /\ \A t \in Threads : pc'[t] \notin {"sync cache", "walk", "flush"}
<1>3. ASSUME NEW t \in Threads, NEW l \in Labels, pc' = [pc EXCEPT ![t] = l],
             buf' = buf \/ \E v : buf' = [buf EXCEPT ![t] = v]
      PROVE  /\ pc'[t] = l /\ Others(t)
             /\ \A t2 \in Threads : pc'[t2] \notin {"sync cache", "walk", "flush"}
  BY <1>1, <1>3 DEF IInv, TypeOK
<1>4. ASSUME NEW t \in Threads, pc[t] # "read", t \notin touched, NEW l \in Labels,
             pc' = [pc EXCEPT ![t] = l], buf' = buf \/ \E v : buf' = [buf EXCEPT ![t] = v],
             Listed' \subseteq Listed, UNCHANGED <<disk, fsBlockNum, data, dirty, touched>>
      PROVE  Goal
  <2>1. Others(t) /\ \A t2 \in Threads : pc'[t2] \notin {"sync cache", "walk", "flush"}
    BY <1>3, <1>4
  <2>2. \A u \in Listed : Clean(u)'
    BY <1>1, <1>4, <2>1, CleanKept
  <2>3. QED BY <1>4, <2>1, <2>2
<1>5. ASSUME NEW t \in Threads,
             \/ \E b \in Blocks : CallGet(t, b)
             \/ Call(t, "sync") \/ Call(t, "release")
             \/ GetWait(t) \/ GetCached(t) \/ GetNoBuffer(t) \/ Sync(t) \/ Release(t)
      PROVE  Goal
  BY <1>2, <1>4, <1>5 DEF CallGet, Call, GetWait, GetCached, GetNoBuffer, Sync, Release,
     Enter, Acquire, GiveUp, Goto, bufVars
<1>6. ASSUME NEW t \in Threads, GetWoken(t) PROVE Goal
  <2>1. CASE UNCHANGED <<inUse, buf, pc>>
    BY <1>1, <1>2, <1>6, <2>1, CleanKept DEF GetWoken
  <2>2. CASE Acquire(t, buf[t])
    BY <1>2, <1>4, <1>6, <2>2 DEF GetWoken, Enter, Acquire, Goto
  <2>3. QED BY <1>6, <2>1, <2>2 DEF GetWoken
<1>7. ASSUME NEW t \in Threads, GetLRU(t) PROVE Goal
  <2>1. PICK k \in 1 .. Len(bufferList) :
          /\ buf' = [buf EXCEPT ![t] = bufferList[k]]
          /\ \/ Goto(t, "evict") /\ bufferList' = bufferList
             \/ Goto(t, "read") /\ bufferList' = MoveToFront(k)
    BY <1>7 DEF GetLRU
  <2>2. Listed' = Listed
    BY <1>1, <1>2, <1>7, <2>1, ListMoved DEF GetLRU
  <2>3. QED BY <1>2, <1>4, <1>7, <2>1, <2>2 DEF GetLRU, Enter, Goto
<1>8. ASSUME NEW t \in Threads, GetNew(t) PROVE Goal
  <2>1. PICK n : n = Len(bufferList) + 1 /\ n \notin Listed /\ Listed' = Listed \cup {n}
    BY <1>1, <1>8, NewBufferFact
  <2>2. /\ fsBlockNum' = [fsBlockNum EXCEPT ![n] = want[t]] /\ buf' = [buf EXCEPT ![t] = n]
        /\ pc' = [pc EXCEPT ![t] = "read"] /\ pc[t] = "get"
        /\ UNCHANGED <<disk, data, dirty, touched>>
    BY <1>8, <2>1 DEF GetNew, Enter, Goto
  <2>3. /\ pc'[t] = "read" /\ buf'[t] = n /\ Others(t)
        /\ \A t2 \in Threads : pc'[t2] \notin {"sync cache", "walk", "flush"}
    BY <1>1, <1>3, <2>2, ZenonT(40) DEF IInv, TypeOK
  <2>4. ASSUME NEW v \in Listed PROVE Clean(v)'
    <3>1. fsBlockNum'[v] = fsBlockNum[v]
      BY <1>1, <1>2, <2>1, <2>2 DEF IInv, TypeOK
    <3>2. \A t2 \in Threads : pc[t2] = "read" \/ t2 \in touched => t2 # t
      BY <1>2, <2>2
    <3>3. QED BY <1>1, <2>2, <2>3, <3>1, <3>2, ZenonT(40) DEF Clean
  <2>5. Clean(n)'
    BY <2>3 DEF Clean
  <2>6. QED BY <2>1, <2>3, <2>4, <2>5
<1>9. ASSUME NEW t \in Threads, EvictDone(t) PROVE Goal
  <2>1. /\ pc[t] = "evict" /\ pc' = [pc EXCEPT ![t] = "read"] /\ dirty' = dirty \ {buf[t]}
        /\ UNCHANGED <<disk, fsBlockNum, data, buf, touched>> /\ Listed' = Listed
    BY <1>1, <1>9, ListMoved DEF EvictDone, Transferred, Inside, Goto
  <2>2. /\ pc'[t] = "read" /\ Others(t)
        /\ \A t2 \in Threads : pc'[t2] \notin {"sync cache", "walk", "flush"}
    BY <1>3, <2>1
  <2>3. \A u \in Listed : Clean(u)'
    BY <1>1, <2>1, <2>2, ZenonT(40) DEF Clean
  <2>4. QED BY <2>1, <2>2, <2>3
<1>10. ASSUME NEW t \in Threads, BlockWrite(t) PROVE Goal
  <2>1. pc[t] \in Writes
    BY <1>10 DEF BlockWrite, Transferring
  <2>2. \A u \in Listed : Clean(u)'
    BY <1>1, <1>10, <2>1, CleanBesideWrite DEF BlockWrite, bufVars, threadVars
  <2>3. QED BY <1>2, <1>10, <2>2 DEF BlockWrite, bufVars, threadVars
<1>11. ASSUME NEW t \in Threads, BlockRead(t) PROVE Goal
  <2>1. /\ pc[t] = "read" /\ data' = [data EXCEPT ![buf[t]][sector] = disk[fsBlockNum[buf[t]]][sector]]
        /\ Listed' = Listed /\ UNCHANGED <<disk, fsBlockNum, dirty, pc, buf, touched>>
    BY <1>2, <1>11 DEF BlockRead, Transferring, threadVars
  <2>2. \A u \in Listed : u # buf[t] => data'[u] = data[u]
    BY <1>1, <1>2, <2>1 DEF IInv, TypeOK
  <2>3. \A u \in Listed : Clean(u)'
    BY <1>1, <2>1, <2>2 DEF Clean
  <2>4. QED BY <2>1, <2>3
<1>12. ASSUME NEW t \in Threads, BlockFails(t) PROVE Goal
  <2>1. /\ pc[t] \in Writes /\ (disk' = disk \/ WriteSector(Target(t)))
        /\ UNCHANGED <<bufVars, touched>> /\ t \notin touched
    BY <1>2, <1>12 DEF BlockFails, Transferring, Writes
  <2>2. PICK l \in {"out", "has"} : /\ pc' = [pc EXCEPT ![t] = l]
                                    /\ \/ buf' = buf
                                       \/ \E v : buf' = [buf EXCEPT ![t] = v]
    BY <1>12 DEF BlockFails, GiveUp, Goto
  <2>3. Others(t) /\ \A t2 \in Threads : pc'[t2] \notin {"sync cache", "walk", "flush"}
    BY <1>3, <2>2
  <2>4. \A u \in Listed : Clean(u)'
    BY <1>1, <2>1, <2>3, CleanBesideWrite DEF bufVars, Writes
  <2>5. QED BY <1>2, <2>1, <2>3, <2>4 DEF bufVars
<1>13. ASSUME NEW t \in Threads, ReadDone(t) \/ SyncDone(t) PROVE Goal
  <2>1. /\ pc[t] \in {"read", "flush one"} /\ pc' = [pc EXCEPT ![t] = "has"] /\ t \notin touched
        /\ sector > NumSectors /\ buf' = buf /\ dirty \ {buf[t]} \subseteq dirty'
        /\ UNCHANGED <<disk, bufferList, fsBlockNum, data, touched>>
    BY <1>1, <1>2, <1>13, ZenonT(40) DEF ReadDone, SyncDone, Transferred, Inside, Acquire, Goto, IInv, TypeOK
  <2>2. Others(t) /\ \A t2 \in Threads : pc'[t2] \notin {"sync cache", "walk", "flush"}
    BY <1>3, <2>1
  <2>3. data[buf[t]] = disk[fsBlockNum[buf[t]]]
    BY <1>1, <2>1, TransferredFact DEF Target
  <2>4. ASSUME NEW u \in Listed PROVE Clean(u)'
    <3>1. CASE u = buf[t]
      BY <2>1, <2>3, <3>1 DEF Clean
    <3>2. CASE u # buf[t]
      BY <1>1, <2>1, <2>2, <3>2, ZenonT(40) DEF Clean
    <3>3. QED BY <3>1, <3>2
  <2>5. QED BY <1>2, <2>1, <2>2, <2>4
<1>14. ASSUME NEW t \in Threads, NEW s \in Sectors, NEW v \in Values, Change(t, s, v) PROVE Goal
  <2>1. \A u \in Listed : u # buf[t] => data'[u] = data[u]
    BY <1>1, <1>2, <1>14 DEF Change, IInv, TypeOK
  <2>2. \A u \in Listed : Clean(u)'
    BY <1>1, <1>14, <2>1 DEF Change, Clean
  <2>3. QED BY <1>2, <1>14, <2>2 DEF Change
<1>15. ASSUME NEW t \in Threads, Modify(t) PROVE Goal
  <2>1. \A u \in Listed : Clean(u)'
    BY <1>1, <1>15, CleanKept DEF Modify
  <2>2. QED BY <1>2, <1>15, <2>1 DEF Modify
<1>16. ASSUME UNCHANGED vars PROVE Goal
  <2>1. \A u \in Listed : Clean(u)'
    BY <1>1, <1>16, CleanKept DEF vars, bufVars, threadVars
  <2>2. Listed' = Listed /\ pc' = pc
    BY <1>2, <1>16 DEF vars, bufVars, threadVars
  <2>3. \A u \in Listed' : Clean(u)'
    BY <2>1, <2>2
  <2>4. \A t \in Threads : pc'[t] \notin {"sync cache", "walk", "flush"}
    BY <1>2, <2>2
  <2>5. QED BY <2>3, <2>4
<1>17. \A t \in Threads : ~WalkNext(t) /\ ~FlushDone(t) /\ ~SyncCache(t)
  BY DEF WalkNext, FlushDone, SyncCache, Transferred, Inside, Enter
<1>18. Goal
  <2>1. ASSUME NEW t \in Threads, Step(t) PROVE Goal
    BY <1>9, <1>10, <1>11, <1>12, <1>13, <1>17, <2>1 DEF Step
  <2>2. ASSUME NEW t \in Threads, Lock(t) PROVE Goal
    BY <1>5, <1>6, <1>7, <1>8, <1>17, <2>2 DEF Lock
  <2>3. ASSUME NEW t \in Threads, User(t) PROVE Goal
    BY <1>5, <1>14, <1>15, <2>3 DEF User
  <2>4. ASSUME Next PROVE Goal
    <3> HIDE DEF Goal
    <3>1. QED BY <2>1, <2>2, <2>3, <2>4 DEF Next
  <2>5. QED BY <1>16, <2>4
<1>19. QED BY <1>1, <1>18 DEF CleanIsOnDisk, Clean

(* Without Sync_FS_Buffer_Cache and failing reads, clean buffers are on the *)
(* disk: no acknowledged change is lost, failing writes and evictions       *)
(* included.                                                                *)
THEOREM CleanBuffersOnDisk ==
  ASSUME SyncsCache = FALSE, "read" \notin Failures
  PROVE  Spec => []CleanIsOnDisk
<1>1. Init => CleanInv
  BY InitInv DEF Init, CleanInv, CleanIsOnDisk, Listed, ToSet
<1>2. CleanInv /\ [Next]_vars => CleanInv'
  BY CleanStep
<1>3. CleanInv => CleanIsOnDisk
  BY DEF CleanInv
<1>4. QED BY <1>1, <1>2, <1>3, PTL DEF Spec
-----------------------------------------------------------------------------
(* The refinement of AbstractCache, where there is a buffer for each block  *)
(* and only writes fail: otherwise GetLRU gives the buffer of one block to  *)
(* who asked for another (bufcache.c:164), and a buffer whose read failed   *)
(* is found in the cache.                                                   *)
EnoughBuffers ==
  IsFiniteSet(Blocks) /\ Cardinality(Blocks) <= MaxBlocks /\ Failures \subseteq {"write"}

(* A thread has chosen the buffer of the block it asked for.                *)
AskedOK(t) ==
  /\ pc[t] = "out" <=> want[t] = NoBlock
  /\ pc[t] \in ChosenPC => fsBlockNum[buf[t]] = want[t]
  /\ pc[t] # "evict"

AskedInv == \A t \in Threads : AskedOK(t)

RInv == IInv /\ AskedInv

(* As long as a block is in no buffer there is one more to be made. *)
LEMMA NeverFull ==
  ASSUME IInv, EnoughBuffers, NEW b \in Blocks, Cached(b) = {}
  PROVE  ~NoNewBuffer
<1> SUFFICES ASSUME NoNewBuffer PROVE FALSE
  OBVIOUS
<1>1. Len(bufferList) = MaxBlocks
  BY DEF NoNewBuffer, EnoughBuffers
<1>2. \A u \in Buffers : u \in Listed
  BY <1>1, ListedFact DEF IInv, ListInv, Buffers
<1> DEFINE f == [u \in Buffers |-> fsBlockNum[u]]
           others == Blocks \ {b}
<1>3. f \in [Buffers -> others]
  BY <1>2 DEF IInv, ListInv, Cached
<1>4. IsFiniteSet(others) /\ Cardinality(others) = Cardinality(Blocks) - 1 /\ Cardinality(Blocks) \in Nat
  BY FS_RemoveElement, FS_CardinalityType DEF EnoughBuffers
<1>5. IsFiniteSet(Buffers) /\ Cardinality(Buffers) = MaxBlocks
  BY FS_Interval, BufCacheAssumption DEF Buffers
<1>6. Cardinality(others) < Cardinality(Buffers)
  BY <1>4, <1>5, BufCacheAssumption DEF EnoughBuffers
<1> HIDE DEF f, others
<1>7. PICK u \in Buffers, v \in Buffers : u # v /\ f[u] = f[v]
  BY <1>3, <1>4, <1>5, <1>6, FS_PigeonHole
<1>8. QED BY <1>2, <1>7 DEF f, IInv, OneBufferPerBlock

(* So no buffer is taken from a block, and nobody is refused one. *)
LEMMA NoSteal ==
  ASSUME RInv, EnoughBuffers, NEW t \in Threads
  PROVE  ~GetLRU(t) /\ ~GetNoBuffer(t) /\ ~EvictDone(t)
<1>1. ASSUME Enter(t, "get"), Cached(want[t]) = {}, NoNewBuffer PROVE FALSE
  <2>1. want[t] \in Blocks
    BY <1>1 DEF RInv, IInv, ChoiceInv, ChoiceOK, Enter
  <2>2. QED BY <1>1, <2>1, NeverFull DEF RInv
<1>2. ~EvictDone(t)
  BY DEF RInv, AskedInv, AskedOK, EvictDone, Transferred, Inside
<1>3. QED BY <1>1, <1>2 DEF GetLRU, GetNoBuffer

(* A step of t that leaves the numbers of the buffers in the list alone. *)
LEMMA AskedKept ==
  ASSUME RInv, NEW t \in Threads, \A u \in Listed : fsBlockNum'[u] = fsBlockNum[u],
         \A t2 \in Threads \ {t} : pc'[t2] = pc[t2] /\ buf'[t2] = buf[t2] /\ want'[t2] = want[t2],
         AskedOK(t)'
  PROVE  AskedInv'
<1>1. ASSUME NEW t2 \in Threads \ {t} PROVE AskedOK(t2)'
  <2>1. pc[t2] \in ChosenPC => fsBlockNum'[buf[t2]] = fsBlockNum[buf[t2]]
    BY ChosenFact DEF RInv
  <2>2. QED BY <1>1, <2>1 DEF RInv, AskedInv, AskedOK
<1>2. QED BY <1>1 DEF AskedInv

(* Every step keeps it. *)
LEMMA AskedStep ==
  ASSUME RInv, EnoughBuffers, NEW t \in Threads, Step(t) \/ Lock(t) \/ User(t)
  PROVE  AskedInv'
<1> USE DEF Goto
<1>1. /\ pc \in [Threads -> {"out", "get", "wait", "evict", "read", "has", "sync", "flush one",
                             "sync cache", "walk", "flush", "release"}]
      /\ want \in [Threads -> Blocks \cup {NoBlock}] /\ buf \in [Threads -> Buffers \cup {NoBuffer}]
      /\ fsBlockNum \in [Buffers -> Blocks \cup {NoBlock}]
      /\ IInv /\ AskedOK(t) /\ NoBlock \notin Blocks
  BY BufCacheAssumption DEF RInv, IInv, TypeOK, AskedInv
<1>2. ASSUME NEW b \in Blocks, CallGet(t, b) PROVE AskedInv'
  <2>1. AskedOK(t)'
    BY <1>1, <1>2 DEF CallGet, bufVars, AskedOK, ChosenPC
  <2>2. QED BY <1>1, <1>2, <2>1, AskedKept DEF CallGet, bufVars
<1>3. ASSUME GetWait(t) \/ GetCached(t) PROVE AskedInv'
  <2>1. PICK u \in Cached(want[t]), l \in {"wait", "has"} :
          /\ buf' = [buf EXCEPT ![t] = u] /\ pc' = [pc EXCEPT ![t] = l] /\ pc[t] = "get"
          /\ UNCHANGED <<fsBlockNum, want>>
    BY <1>3 DEF GetWait, GetCached, Enter, Acquire, bufVars
  <2>2. AskedOK(t)'
    BY <1>1, <2>1 DEF AskedOK, Cached
  <2>3. QED BY <1>1, <2>1, <2>2, AskedKept
<1>4. ASSUME GetWoken(t) \/ ReadDone(t) PROVE AskedInv'
  <2>1. /\ buf' = buf /\ pc[t] \in {"wait", "read"} /\ UNCHANGED <<fsBlockNum, want>>
        /\ pc' = pc \/ pc' = [pc EXCEPT ![t] = "has"]
    BY <1>1, <1>4 DEF GetWoken, ReadDone, Enter, Transferred, Inside, Acquire
  <2>2. AskedOK(t)'
    BY <1>1, <2>1 DEF AskedOK, ChosenPC
  <2>3. QED BY <1>1, <2>1, <2>2, AskedKept
<1>5. ASSUME GetNew(t) PROVE AskedInv'
  <2>1. PICK u : u = Len(bufferList) + 1
    OBVIOUS
  <2>2. u \in Buffers /\ u \notin Listed
    BY <1>1, <1>5, <2>1, NewBufferFact
  <2>3. /\ fsBlockNum' = [fsBlockNum EXCEPT ![u] = want[t]] /\ buf' = [buf EXCEPT ![t] = u]
        /\ pc' = [pc EXCEPT ![t] = "read"] /\ pc[t] = "get" /\ want' = want
    BY <1>5, <2>1 DEF GetNew, Enter
  <2>4. AskedOK(t)'
    BY <1>1, <2>2, <2>3 DEF AskedOK
  <2>5. \A v \in Listed : fsBlockNum'[v] = fsBlockNum[v]
    BY <1>1, <2>2, <2>3, ListedFact DEF IInv
  <2>6. QED BY <1>1, <2>3, <2>4, <2>5, AskedKept
<1>6. ASSUME NEW s \in Sectors, NEW v \in Values,
             BlockWrite(t) \/ BlockRead(t) \/ Modify(t) \/ Change(t, s, v)
      PROVE  AskedInv'
  <2>1. UNCHANGED <<fsBlockNum, pc, buf, want>>
    BY <1>6 DEF BlockWrite, BlockRead, Modify, Change, bufVars, threadVars
  <2>2. QED BY <2>1 DEF RInv, AskedInv, AskedOK
<1>7. ASSUME NEW l \in HasPC, pc[t] \in HasPC, pc' = [pc EXCEPT ![t] = l] \/ pc' = pc,
             UNCHANGED <<fsBlockNum, buf, want>>
      PROVE  AskedInv'
  <2>1. AskedOK(t)'
    BY <1>1, <1>7 DEF AskedOK, ChosenPC, HasPC
  <2>2. QED BY <1>1, <1>7, <2>1, AskedKept
<1>8. ASSUME BlockFails(t) PROVE AskedInv'
  <2>1. pc[t] \in {"flush one", "flush"}
    BY <1>1, <1>8 DEF BlockFails, Transferring, Writes, EnoughBuffers, AskedOK
  <2>2. pc' = [pc EXCEPT ![t] = "has"] /\ UNCHANGED <<fsBlockNum, buf, want>>
    BY <1>8, <2>1 DEF BlockFails, bufVars
  <2>3. QED BY <1>7, <2>1, <2>2 DEF HasPC
<1>9. ASSUME SyncDone(t) \/ WalkNext(t) \/ FlushDone(t) \/ Sync(t) \/ SyncCache(t)
      PROVE  AskedInv'
  BY <1>7, <1>9 DEF SyncDone, WalkNext, FlushDone, Sync, SyncCache, Enter, Inside, Transferred,
     HasPC, bufVars
<1>10. ASSUME NEW l \in {"sync", "release", "sync cache"}, Call(t, l) PROVE AskedInv'
  BY <1>7, <1>10 DEF Call, HasPC, bufVars
<1>11. ASSUME Release(t) PROVE AskedInv'
  <2>1. /\ pc' = [pc EXCEPT ![t] = "out"] /\ want' = [want EXCEPT ![t] = NoBlock]
        /\ buf' = [buf EXCEPT ![t] = NoBuffer] /\ fsBlockNum' = fsBlockNum
    BY <1>11 DEF Release, GiveUp
  <2>2. AskedOK(t)'
    BY <1>1, <2>1 DEF AskedOK, ChosenPC
  <2>3. QED BY <1>1, <2>1, <2>2, AskedKept
<1>12. CASE Step(t)
  <2>1. PICK s : s \in Sectors
    BY BufCacheAssumption DEF Sectors
  <2>2. Zero \in Values
    BY BufCacheAssumption
  <2>3. QED BY <1>4, <1>6, <1>8, <1>9, <1>12, <2>1, <2>2, NoSteal DEF Step
<1>13. CASE Lock(t)
  BY <1>3, <1>4, <1>5, <1>9, <1>11, <1>13, NoSteal DEF Lock
<1>14. CASE User(t)
  <2>1. PICK s : s \in Sectors
    BY BufCacheAssumption DEF Sectors
  <2>2. Zero \in Values
    BY BufCacheAssumption
  <2>3. QED BY <1>2, <1>6, <1>10, <1>14, <2>1, <2>2 DEF User
<1>15. QED BY <1>12, <1>13, <1>14

LEMMA RNext == ASSUME EnoughBuffers, RInv, [Next]_vars PROVE RInv'
<1>1. IInv'
  BY NextInv DEF RInv
<1>2. ASSUME UNCHANGED vars PROVE AskedInv'
  BY <1>2 DEF vars, bufVars, threadVars, RInv, AskedInv, AskedOK
<1>3. ASSUME Next PROVE AskedInv'
  BY <1>3, AskedStep DEF Next
<1>4. AskedInv'
  BY <1>2, <1>3
<1>5. QED BY <1>1, <1>4 DEF RInv

(* What the mapping shows: the contents of the blocks, and their users.     *)
Contents == [b \in Blocks |-> IF Current(b) = {} THEN disk[b]
                              ELSE data[CHOOSE u \in Current(b) : TRUE]]
Users == [b \in Blocks |->
  LET users == {t \in Threads : Has(t) /\ fsBlockNum[buf[t]] = b}
  IN  IF users = {} THEN NoThread ELSE CHOOSE t \in users : TRUE]

LEMMA ContentFact ==
  RInv => \A b \in Blocks :
    /\ Current(b) = {} => Contents[b] = disk[b]
    /\ \A w \in Current(b) : Contents[b] = data[w]
<1> SUFFICES ASSUME RInv, NEW b \in Blocks
             PROVE  /\ Current(b) = {} => Contents[b] = disk[b]
                    /\ \A w \in Current(b) : Contents[b] = data[w]
  OBVIOUS
<1>1. \A u, v \in Current(b) : u = v
  BY DEF Current, RInv, IInv, OneBufferPerBlock
<1>2. QED BY <1>1 DEF Contents

LEMMA UsersFact ==
  RInv => \A b \in Blocks :
    /\ Users[b] \in Threads \cup {NoThread}
    /\ \A t \in Threads : Users[b] = t <=> Has(t) /\ want[t] = b
<1> SUFFICES ASSUME RInv, NEW b \in Blocks
             PROVE  /\ Users[b] \in Threads \cup {NoThread}
                    /\ \A t \in Threads : Users[b] = t <=> Has(t) /\ want[t] = b
  OBVIOUS
<1> DEFINE users == {t \in Threads : Has(t) /\ fsBlockNum[buf[t]] = b}
<1>1. \A t \in Threads : Has(t) => buf[t] \in Listed /\ fsBlockNum[buf[t]] = want[t]
  BY ChosenFact DEF RInv, AskedInv, AskedOK, Has, ChosenPC
<1>2. \A t \in Threads : t \in users <=> Has(t) /\ want[t] = b
  BY <1>1
<1>3. ASSUME NEW t \in users, NEW t2 \in users PROVE t = t2
  <2>1. buf[t] = buf[t2]
    BY <1>1, <1>3 DEF RInv, IInv, OneBufferPerBlock
  <2>2. QED BY <2>1, <1>3 DEF RInv, IInv, ExclusiveUse
<1>4. Users[b] = IF users = {} THEN NoThread ELSE CHOOSE t \in users : TRUE
  BY DEF Users
<1>5. NoThread \notin Threads /\ users \subseteq Threads
  BY BufCacheAssumption
<1> HIDE DEF users
<1>6. QED BY <1>2, <1>3, <1>4, <1>5

LEMMA ContentsPrimed ==
  ASSUME RInv'
  PROVE  \A b \in Blocks : /\ Current(b)' = {} => Contents'[b] = disk'[b]
                           /\ \A w \in Current(b)' : Contents'[b] = data'[w]
<1>1. (\A b \in Blocks :
         /\ Current(b) = {} => Contents[b] = disk[b]
         /\ \A w \in Current(b) : Contents[b] = data[w])'
  BY ContentFact, PTL
<1>2. QED BY <1>1

(* A block keeps its contents if its buffer does, or it is in none and the  *)
(* disk does.                                                               *)
LEMMA ContentsKept ==
  ASSUME \A b \in Blocks : /\ Current(b)' = Current(b)
                           /\ Current(b) = {} => disk'[b] = disk[b]
                           /\ \A u \in Current(b) : data'[u] = data[u]
  PROVE  Contents' = Contents
<1>1. ASSUME NEW b \in Blocks
      PROVE  (IF Current(b)' = {} THEN disk'[b] ELSE data'[CHOOSE u \in Current(b)' : TRUE])
             = (IF Current(b) = {} THEN disk[b] ELSE data[CHOOSE u \in Current(b) : TRUE])
  <2>1. CASE Current(b) = {}
    BY <2>1
  <2>2. CASE Current(b) # {}
    <3>1. (CHOOSE u \in Current(b) : TRUE) \in Current(b)
      BY <2>2
    <3>2. QED BY <2>2, <3>1
  <2>3. QED BY <2>1, <2>2
<1>2. QED BY <1>1 DEF Contents

(* A block has its current buffer while the buffers being read are the same. *)
LEMMA CurrentKept ==
  ASSUME UNCHANGED <<bufferList, fsBlockNum>>,
         \A t \in Threads : /\ pc'[t] = "read" <=> pc[t] = "read"
                            /\ pc[t] = "read" => buf'[t] = buf[t]
  PROVE  \A b : Current(b)' = Current(b)
<1>1. Listed' = Listed
  BY DEF Listed
<1>2. \A u : (\A t \in Threads : buf'[t] = u => pc'[t] # "read")
             <=> (\A t \in Threads : buf[t] = u => pc[t] # "read")
  OBVIOUS
<1>3. ASSUME NEW b PROVE Current(b)' = Current(b)
  <2>1. \A u : u \in Current(b)' <=> u \in Current(b)
    BY <1>1, <1>2 DEF Current
  <2>2. QED BY <2>1
<1>4. QED BY <1>3

LEMMA UsersPrimed ==
  ASSUME RInv'
  PROVE  \A b \in Blocks :
           /\ Users'[b] \in Threads \cup {NoThread}
           /\ \A t \in Threads : Users'[b] = t <=> Has(t)' /\ want'[t] = b
<1>1. (\A b \in Blocks :
         /\ Users[b] \in Threads \cup {NoThread}
         /\ \A t \in Threads : Users[b] = t <=> Has(t) /\ want[t] = b)'
  BY UsersFact, PTL
<1>2. QED BY <1>1

LEMMA UsersKept ==
  ASSUME RInv, RInv',
         \A t \in Threads : (Has(t)' <=> Has(t)) /\ (Has(t) => want'[t] = want[t])
  PROVE  Users' = Users
<1>1. \A b \in Blocks : Users'[b] = Users[b]
  BY UsersPrimed, UsersFact
<1>2. QED BY <1>1 DEF Users

(* The actions of AbstractCache in these terms. *)
LEMMA AbstractActions ==
  ASSUME NEW t \in Threads
  PROVE  /\ UNCHANGED <<Contents, Users, want>> => UNCHANGED Abs!vars
         /\ \A b \in Blocks :
              /\ want[t] = NoBlock /\ want' = [want EXCEPT ![t] = b] /\ UNCHANGED <<Contents, Users>>
              => Abs!Ask(t, b)
         /\ /\ want[t] # NoBlock /\ Users[want[t]] = NoThread
            /\ Users' = [Users EXCEPT ![want[t]] = t] /\ UNCHANGED <<Contents, want>>
            => Abs!Get(t)
         /\ \A s \in Sectors, v \in Values :
              /\ want[t] # NoBlock /\ Users[want[t]] = t
              /\ Contents' = [Contents EXCEPT ![want[t]][s] = v] /\ UNCHANGED <<Users, want>>
              => Abs!Change(t)
         /\ /\ want[t] # NoBlock /\ want' = [want EXCEPT ![t] = NoBlock] /\ UNCHANGED Contents
            /\ Users' = [b \in Blocks |-> IF Users[b] = t THEN NoThread ELSE Users[b]]
            => Abs!Leave(t)
<1> USE DEF Contents, Users
<1>1. UNCHANGED <<Contents, Users, want>> => UNCHANGED Abs!vars
  BY DEF Abs!vars
<1>2. ASSUME NEW b \in Blocks, want[t] = NoBlock, want' = [want EXCEPT ![t] = b],
             UNCHANGED <<Contents, Users>>
      PROVE  Abs!Ask(t, b)
  BY <1>2 DEF Abs!Ask
<1>3. ASSUME want[t] # NoBlock, Users[want[t]] = NoThread,
             Users' = [Users EXCEPT ![want[t]] = t], UNCHANGED <<Contents, want>>
      PROVE  Abs!Get(t)
  BY <1>3 DEF Abs!Get
<1>4. ASSUME NEW s \in Sectors, NEW v \in Values, want[t] # NoBlock, Users[want[t]] = t,
             Contents' = [Contents EXCEPT ![want[t]][s] = v], UNCHANGED <<Users, want>>
      PROVE  Abs!Change(t)
  BY <1>4 DEF Abs!Change
<1>5. ASSUME want[t] # NoBlock, want' = [want EXCEPT ![t] = NoBlock], UNCHANGED Contents,
             Users' = [b \in Blocks |-> IF Users[b] = t THEN NoThread ELSE Users[b]]
      PROVE  Abs!Leave(t)
  BY <1>5 DEF Abs!Leave
<1> HIDE DEF Contents, Users
<1>6. QED BY <1>1, <1>2, <1>3, <1>4, <1>5

(* A thread that has found the buffer of its block free gets the block. *)
LEMMA GetImplemented ==
  ASSUME RInv, RInv', NEW t \in Threads, pc[t] \in {"get", "wait", "read"}, NEW u \in Listed,
         fsBlockNum[u] = want[t], u \notin inUse, Acquire(t, u),
         UNCHANGED <<want, Contents>>
  PROVE  Abs!Get(t)
<1>1. /\ want[t] \in Blocks /\ want[t] # NoBlock /\ ~Has(t) /\ Has(t)'
      /\ \A t2 \in Threads \ {t} : Has(t2)' <=> Has(t2)
  <2>1. want[t] # NoBlock /\ want[t] \in Blocks \cup {NoBlock}
    BY DEF RInv, AskedInv, AskedOK, IInv, TypeOK
  <2>2. QED BY <2>1 DEF RInv, IInv, TypeOK, Has, Acquire, Goto
<1>2. \A t2 \in Threads : Has(t2) => want[t2] # want[t]
  <2>1. ASSUME NEW t2 \in Threads, Has(t2), want[t2] = want[t] PROVE FALSE
    <3>1. buf[t2] \in Listed /\ fsBlockNum[buf[t2]] = want[t2]
      BY <2>1, ChosenFact DEF RInv, AskedInv, AskedOK, Has, ChosenPC
    <3>2. buf[t2] = u
      BY <2>1, <3>1 DEF RInv, IInv, OneBufferPerBlock
    <3>3. buf[t2] \in inUse
      BY <2>1 DEF RInv, IInv, ExclusiveUse
    <3>4. QED BY <3>2, <3>3
  <2>2. QED BY <2>1
<1>3. \A b \in Blocks :
        /\ Users[b] \in Threads \cup {NoThread}
        /\ \A t2 \in Threads : Users[b] = t2 <=> Has(t2) /\ want[t2] = b
  BY UsersFact
<1>4. \A b \in Blocks :
        /\ Users'[b] \in Threads \cup {NoThread}
        /\ \A t2 \in Threads : Users'[b] = t2 <=> Has(t2)' /\ want'[t2] = b
  BY UsersPrimed
<1>5. Users[want[t]] = NoThread
  BY <1>1, <1>2, <1>3
<1>6. \A b \in Blocks : Users'[b] = IF b = want[t] THEN t ELSE Users[b]
  BY <1>1, <1>3, <1>4
<1>7. Users = [b \in Blocks |-> Users[b]] /\ Users' = [b \in Blocks |-> Users'[b]]
  BY DEF Users
<1>8. Users' = [Users EXCEPT ![want[t]] = t]
  BY <1>6, <1>7
<1>9. QED BY <1>1, <1>5, <1>8, AbstractActions

LEMMA LeaveImplemented ==
  ASSUME RInv, RInv', NEW t \in Threads, Release(t), UNCHANGED Contents
  PROVE  Abs!Leave(t)
<1>1. /\ Has(t) /\ ~Has(t)' /\ \A t2 \in Threads \ {t} : (Has(t2)' <=> Has(t2)) /\ want'[t2] = want[t2]
      /\ want' = [want EXCEPT ![t] = NoBlock]
  BY DEF RInv, IInv, TypeOK, Has, Release, Enter, GiveUp, Goto
<1>2. want[t] # NoBlock
  BY <1>1 DEF RInv, AskedInv, AskedOK, Has
<1>3. \A b \in Blocks :
        /\ Users[b] \in Threads \cup {NoThread}
        /\ \A t2 \in Threads : Users[b] = t2 <=> Has(t2) /\ want[t2] = b
  BY UsersFact
<1>4. \A b \in Blocks :
        /\ Users'[b] \in Threads \cup {NoThread}
        /\ \A t2 \in Threads : Users'[b] = t2 <=> Has(t2)' /\ want'[t2] = b
  BY UsersPrimed
<1>5. \A b \in Blocks : Users'[b] = IF Users[b] = t THEN NoThread ELSE Users[b]
  <2>1. ASSUME NEW b \in Blocks PROVE Users'[b] = IF Users[b] = t THEN NoThread ELSE Users[b]
    <3>1. \A t2 \in Threads : Users'[b] = t2 <=> t2 # t /\ Users[b] = t2
      BY <1>1, <1>3, <1>4
    <3>2. NoThread \notin Threads
      BY BufCacheAssumption
    <3>3. QED BY <1>3, <1>4, <3>1, <3>2
  <2>2. QED BY <2>1
<1>6. Users' = [b \in Blocks |-> Users'[b]]
  BY DEF Users
<1>7. Users' = [b \in Blocks |-> IF Users[b] = t THEN NoThread ELSE Users[b]]
  BY <1>5, <1>6
<1>8. QED BY <1>1, <1>2, <1>7, AbstractActions

(* A step of t that reads nothing and makes no buffer leaves the contents   *)
(* alone, also if it writes a buffer to the disk.                           *)
LEMMA NothingRead ==
  ASSUME RInv, NEW t \in Threads, pc[t] # "read", NEW l, l # "read",
         pc' = [pc EXCEPT ![t] = l] \/ pc' = pc,
         \A t2 \in Threads \ {t} : buf'[t2] = buf[t2],
         disk' = disk \/ (pc[t] \in Writes /\ lock = t /\ WriteSector(Target(t))),
         UNCHANGED <<data, bufferList, fsBlockNum>>
  PROVE  Contents' = Contents
<1>1. \A b : Current(b)' = Current(b)
  <2>1. \A t2 \in Threads : /\ pc'[t2] = "read" <=> pc[t2] = "read"
                            /\ pc[t2] = "read" => buf'[t2] = buf[t2]
    BY DEF RInv, IInv, TypeOK
  <2>2. QED BY <2>1, CurrentKept
<1>2. ASSUME NEW b \in Blocks, Current(b) = {} PROVE disk'[b] = disk[b]
  <2>1. ASSUME pc[t] \in Writes, lock = t, WriteSector(Target(t)) PROVE disk'[b] = disk[b]
    <3>1. Target(t) \in Listed /\ fsBlockNum[Target(t)] \in Blocks
      BY <2>1, TargetFact DEF RInv, Writes, TransferPC
    <3>2. \A t2 \in Threads : pc[t2] # "read"
      BY <2>1, OthersOutside DEF RInv, InsidePC
    <3>3. fsBlockNum[Target(t)] # b
      BY <1>2, <3>1, <3>2 DEF Current
    <3>4. QED BY <2>1, <3>1, <3>3 DEF WriteSector, RInv, IInv, TypeOK
  <2>2. QED BY <2>1
<1>3. QED BY <1>1, <1>2, ContentsKept

(* Nor can anybody see the reading of a block.                              *)
LEMMA ReadUnseen ==
  ASSUME RInv, NEW t \in Threads, BlockRead(t)
  PROVE  Contents' = Contents
<1>1. /\ pc[t] = "read" /\ data' = [data EXCEPT ![buf[t]][sector] = disk[fsBlockNum[buf[t]]][sector]]
      /\ UNCHANGED <<disk, bufferList, fsBlockNum, pc, buf>>
  BY DEF BlockRead, Transferring, threadVars
<1>2. \A b : Current(b)' = Current(b)
  BY <1>1, CurrentKept
<1>3. ASSUME NEW b \in Blocks, NEW u \in Current(b) PROVE data'[u] = data[u]
  <2>1. u # buf[t] /\ u \in Buffers
    BY <1>1, ListedFact DEF Current, RInv, IInv
  <2>2. QED BY <1>1, <2>1 DEF RInv, IInv, TypeOK
<1>4. QED BY <1>1, <1>2, <1>3, ContentsKept

(* The contents do not change when the buffer takes the place of the disk.  *)
LEMMA ReadShown ==
  ASSUME RInv, RInv', NEW t \in Threads, ReadDone(t)
  PROVE  Contents' = Contents
<1> DEFINE u == buf[t]
<1>1. /\ pc[t] = "read" /\ pc' = [pc EXCEPT ![t] = "has"] /\ buf' = buf /\ sector > NumSectors
      /\ lock = t /\ UNCHANGED <<disk, bufferList, fsBlockNum, data>>
  BY DEF ReadDone, Transferred, Inside, Acquire, Goto, RInv, IInv, TypeOK
<1>2. u \in Listed /\ fsBlockNum[u] \in Blocks /\ Target(t) = u
  BY <1>1, ChosenFact DEF RInv, ChosenPC, Target
<1>3. data[u] = disk[fsBlockNum[u]]
  BY <1>1, <1>2, TransferredFact DEF RInv
<1>4. \A t2 \in Threads : (pc[t2] = "read" <=> t2 = t) /\ pc'[t2] # "read"
  BY <1>1, OthersOutside DEF RInv, InsidePC, IInv, TypeOK
<1>5. Listed' = Listed
  BY <1>1 DEF Listed
<1>6. \A b \in Blocks : \A v \in Current(b) : v \in Current(b)' /\ v # u
  BY <1>1, <1>4, <1>5 DEF Current
<1>7. \A b \in Blocks : \A v \in Current(b)' : v = u \/ v \in Current(b)
  BY <1>1, <1>4, <1>5 DEF Current
<1>8. \A b \in Blocks :
        /\ Current(b)' = {} => Contents'[b] = disk'[b]
        /\ \A v \in Current(b)' : Contents'[b] = data'[v]
  BY ContentsPrimed
<1>9. ASSUME NEW b \in Blocks PROVE Contents'[b] = Contents[b]
  <2>1. CASE Current(b) # {}
    BY <1>1, <1>6, <1>8, <2>1, ContentFact
  <2>2. CASE Current(b) = {} /\ Current(b)' = {}
    BY <1>1, <1>8, <2>2, ContentFact
  <2>3. CASE Current(b) = {} /\ Current(b)' # {}
    <3>1. u \in Current(b)'
      BY <1>7, <2>3
    <3>2. fsBlockNum[u] = b
      BY <1>1, <3>1 DEF Current
    <3>3. Contents'[b] = data[u] /\ Contents[b] = disk[b]
      BY <1>1, <1>8, <2>3, <3>1, ContentFact
    <3>4. QED BY <1>3, <3>2, <3>3
  <2>4. QED BY <2>1, <2>2, <2>3
<1>10. QED BY <1>9 DEF Contents

(* A new buffer is not looked at before it is filled. *)
LEMMA NewUnseen ==
  ASSUME RInv, NEW t \in Threads, GetNew(t)
  PROVE  Contents' = Contents
<1>1. PICK u : u = Len(bufferList) + 1
  OBVIOUS
<1>2. u \in Buffers /\ u \notin Listed /\ Listed' = Listed \cup {u}
  BY <1>1, NewBufferFact DEF RInv
<1>3. /\ fsBlockNum' = [fsBlockNum EXCEPT ![u] = want[t]] /\ buf' = [buf EXCEPT ![t] = u]
      /\ pc' = [pc EXCEPT ![t] = "read"] /\ pc[t] = "get" /\ UNCHANGED <<disk, data>>
  BY <1>1 DEF GetNew, Enter, Goto
<1>4. /\ pc'[t] = "read" /\ buf'[t] = u
      /\ \A t2 \in Threads \ {t} : pc'[t2] = pc[t2] /\ buf'[t2] = buf[t2]
      /\ \A v \in Listed : fsBlockNum'[v] = fsBlockNum[v]
  BY <1>2, <1>3, ListedFact DEF RInv, IInv, TypeOK
<1>5. ASSUME NEW b, NEW v PROVE v \in Current(b)' <=> v \in Current(b)
  <2>1. CASE v = u
    BY <1>2, <1>4, <2>1 DEF Current
  <2>2. CASE v # u
    BY <1>2, <1>3, <1>4, <2>2 DEF Current
  <2>3. QED BY <2>1, <2>2
<1>6. \A b : Current(b)' = Current(b)
  BY <1>5
<1>7. QED BY <1>3, <1>6, ContentsKept

(* A user changes what is in its block.                                     *)
LEMMA ChangeImplemented ==
  ASSUME RInv, RInv', NEW t \in Threads, NEW s \in Sectors, NEW v \in Values, Change(t, s, v)
  PROVE  Abs!Change(t)
<1> DEFINE u == buf[t]
           c == want[t]
<1>1. /\ pc[t] = "has" /\ data' = [data EXCEPT ![u][s] = v]
      /\ UNCHANGED <<disk, bufferList, fsBlockNum, pc, buf, want, inUse>>
  BY DEF Change
<1>2. /\ u \in Listed /\ u \in Buffers /\ fsBlockNum[u] = c /\ c \in Blocks /\ Has(t)
      /\ c # NoBlock /\ u \in inUse
  <2>1. u \in Listed /\ u \in Buffers /\ fsBlockNum[u] = c /\ fsBlockNum[u] \in Blocks /\ Has(t)
    BY <1>1, ChosenFact DEF RInv, AskedInv, AskedOK, ChosenPC, Has
  <2>2. u \in inUse
    BY <2>1 DEF RInv, IInv, ExclusiveUse
  <2>3. QED BY <2>1, <2>2, BufCacheAssumption
<1>3. u \in Current(c)
  <2>1. \A t2 \in Threads : buf[t2] = u => pc[t2] # "read"
    BY <1>2 DEF RInv, IInv, ChoiceInv, ChoiceOK
  <2>2. QED BY <1>2, <2>1 DEF Current
<1>4. \A b : Current(b)' = Current(b)
  BY <1>1, CurrentKept
<1>5. \A b \in Blocks :
        /\ Current(b) = {} => Contents'[b] = disk[b]
        /\ \A w \in Current(b) : Contents'[b] = data'[w]
  BY <1>1, <1>4, ContentsPrimed
<1>6. Contents'[c] = [data[u] EXCEPT ![s] = v] /\ Contents[c] = data[u]
  BY <1>1, <1>2, <1>3, <1>5, ContentFact, ZenonT(40) DEF RInv, IInv, TypeOK
<1>7. ASSUME NEW b \in Blocks \ {c} PROVE Contents'[b] = Contents[b]
  <2>1. ASSUME NEW w \in Current(b) PROVE data'[w] = data[w]
    BY <1>1, <1>2, ListedFact DEF Current, RInv, IInv, TypeOK
  <2>2. QED BY <1>5, <2>1, ContentFact
<1>8. Contents = [b \in Blocks |-> Contents[b]] /\ Contents' = [b \in Blocks |-> Contents'[b]]
  BY DEF Contents
<1>9. Contents' = [Contents EXCEPT ![c][s] = v]
  BY <1>2, <1>6, <1>7, <1>8
<1>10. Users' = Users
  BY <1>1, UsersKept DEF Has
<1>11. Users[c] = t
  BY <1>2, UsersFact
<1>12. QED BY <1>1, <1>2, <1>9, <1>10, <1>11, AbstractActions

LEMMA StepImplemented ==
  ASSUME EnoughBuffers, RInv, NEW t \in Threads, Step(t) \/ Lock(t) \/ User(t)
  PROVE  [Abs!Next]_(Abs!vars)
<1>1. RInv' /\ IInv /\ AskedOK(t)
  BY RNext DEF RInv, AskedInv, Next
<1>2. /\ pc \in [Threads -> {"out", "get", "wait", "evict", "read", "has", "sync", "flush one",
                             "sync cache", "walk", "flush", "release"}]
      /\ want \in [Threads -> Blocks \cup {NoBlock}] /\ buf \in [Threads -> Buffers \cup {NoBuffer}]
  BY <1>1 DEF IInv, TypeOK
<1> DEFINE Quiet == UNCHANGED Abs!vars
<1> USE DEF Goto
<1>3. ASSUME NEW l, l \in HasPC, pc[t] \in HasPC, pc' = [pc EXCEPT ![t] = l] \/ pc' = pc,
             disk' = disk \/ (pc[t] \in Writes /\ lock = t /\ WriteSector(Target(t))),
             UNCHANGED <<data, bufferList, fsBlockNum, buf, want>>
      PROVE  Quiet
  <2>1. Contents' = Contents
    BY <1>3, NothingRead DEF HasPC
  <2>2. \A t2 \in Threads : Has(t2)' <=> Has(t2)
    BY <1>2, <1>3 DEF Has, HasPC
  <2>3. QED BY <1>1, <1>3, <2>1, <2>2, UsersKept, AbstractActions
<1>4. ASSUME SyncDone(t) \/ WalkNext(t) \/ FlushDone(t) \/ Sync(t) \/ SyncCache(t)
      PROVE  Quiet
  BY <1>3, <1>4 DEF SyncDone, WalkNext, FlushDone, Sync, SyncCache, Enter, Inside, Transferred,
     HasPC, bufVars
<1>5. ASSUME NEW l \in {"sync", "release", "sync cache"}, Call(t, l) PROVE Quiet
  BY <1>3, <1>5 DEF Call, HasPC, bufVars
<1>6. ASSUME BlockFails(t) PROVE Quiet
  <2>1. pc[t] \in {"flush one", "flush"} /\ lock = t /\ (disk' = disk \/ WriteSector(Target(t)))
    BY <1>1, <1>6 DEF BlockFails, Transferring, Writes, EnoughBuffers, AskedOK
  <2>2. pc' = [pc EXCEPT ![t] = "has"] /\ UNCHANGED <<data, bufferList, fsBlockNum, buf, want>>
    BY <1>6, <2>1 DEF BlockFails, bufVars
  <2>3. QED BY <1>3, <2>1, <2>2 DEF HasPC, Writes
<1>7. ASSUME BlockWrite(t) PROVE Quiet
  <2>1. pc[t] \in {"flush one", "flush"} /\ lock = t /\ WriteSector(Target(t))
    BY <1>1, <1>7 DEF BlockWrite, Transferring, Writes, AskedOK
  <2>2. UNCHANGED <<data, bufferList, fsBlockNum, buf, want, pc>>
    BY <1>7 DEF BlockWrite, bufVars, threadVars
  <2>3. QED BY <1>3, <2>1, <2>2 DEF HasPC, Writes
<1>8. ASSUME Modify(t) PROVE Quiet
  BY <1>3, <1>8 DEF Modify, HasPC
<1>9. ASSUME BlockRead(t) PROVE Quiet
  <2>1. Users' = Users /\ want' = want
    BY <1>1, <1>9, UsersKept DEF BlockRead, threadVars, Has
  <2>2. QED BY <1>9, <2>1, ReadUnseen, AbstractActions
<1>10. ASSUME GetNew(t) \/ GetWait(t) PROVE Quiet
  <2>1. PICK l \in {"read", "wait"} : pc' = [pc EXCEPT ![t] = l] /\ pc[t] = "get" /\ want' = want
    BY <1>10 DEF GetNew, GetWait, Enter
  <2>2. Users' = Users
    BY <1>1, <1>2, <2>1, UsersKept DEF Has
  <2>3. Contents' = Contents
    <3>1. ASSUME GetWait(t) PROVE Contents' = Contents
      <4>1. pc[t] = "get" /\ pc' = [pc EXCEPT ![t] = "wait"]
        BY <3>1 DEF GetWait, Enter
      <4>2. \A t2 \in Threads \ {t} : buf'[t2] = buf[t2]
        BY <1>2, <3>1 DEF GetWait
      <4>3. UNCHANGED <<disk, data, bufferList, fsBlockNum>>
        BY <3>1 DEF GetWait, bufVars
      <4>4. QED BY <4>1, <4>2, <4>3, NothingRead
    <3>2. QED BY <1>10, <3>1, NewUnseen
  <2>4. QED BY <2>1, <2>2, <2>3, AbstractActions
<1>11. ASSUME NEW b \in Blocks, CallGet(t, b) PROVE Abs!Ask(t, b)
  <2>1. /\ pc[t] = "out" /\ pc' = [pc EXCEPT ![t] = "get"] /\ want' = [want EXCEPT ![t] = b]
        /\ UNCHANGED <<disk, data, bufferList, fsBlockNum, buf>>
    BY <1>11 DEF CallGet, bufVars
  <2>2. Contents' = Contents
    BY <2>1, NothingRead
  <2>3. Users' = Users
    BY <1>1, <1>2, <2>1, UsersKept DEF Has
  <2>4. want[t] = NoBlock
    BY <1>1, <2>1 DEF AskedOK
  <2>5. QED BY <2>1, <2>2, <2>3, <2>4, AbstractActions
<1>12. ASSUME NEW u \in Listed, pc[t] \in {"get", "wait"}, fsBlockNum[u] = want[t], u \notin inUse,
              Acquire(t, u), UNCHANGED <<disk, data, bufferList, fsBlockNum, want>>
       PROVE  Abs!Get(t)
  <2>1. pc' = [pc EXCEPT ![t] = "has"] /\ \A t2 \in Threads \ {t} : buf'[t2] = buf[t2]
    BY <1>2, <1>12 DEF Acquire
  <2>2. Contents' = Contents
    BY <1>12, <2>1, NothingRead
  <2>3. QED BY <1>1, <1>12, <2>2, GetImplemented
<1>13. ASSUME GetCached(t) PROVE Abs!Get(t)
  BY <1>12, <1>13 DEF GetCached, Enter, Cached
<1>14. ASSUME GetWoken(t) PROVE Quiet \/ Abs!Get(t)
  <2>1. CASE UNCHANGED <<inUse, buf, pc>>
    <3>1. Users' = Users /\ UNCHANGED want
      BY <1>1, <1>14, <2>1, UsersKept DEF GetWoken, Has
    <3>2. pc[t] = "wait" /\ UNCHANGED <<disk, data, bufferList, fsBlockNum>>
      BY <1>14 DEF GetWoken, Enter
    <3>3. Contents' = Contents
      BY <2>1, <3>2, NothingRead
    <3>4. QED BY <3>1, <3>3, AbstractActions
  <2>2. CASE buf[t] \notin inUse /\ Acquire(t, buf[t])
    <3>1. pc[t] = "wait" /\ UNCHANGED <<disk, data, bufferList, fsBlockNum, want>>
      BY <1>14 DEF GetWoken, Enter
    <3>2. buf[t] \in Listed /\ fsBlockNum[buf[t]] = want[t]
      BY <1>1, <3>1, ChosenFact DEF AskedOK, ChosenPC
    <3>3. QED BY <1>12, <2>2, <3>1, <3>2
  <2>3. QED BY <1>14, <2>1, <2>2 DEF GetWoken
<1>15. ASSUME ReadDone(t) PROVE Abs!Get(t)
  <2>1. pc[t] = "read" /\ Acquire(t, buf[t]) /\ want' = want
    BY <1>15 DEF ReadDone, Transferred, Inside
  <2>2. buf[t] \in Listed /\ fsBlockNum[buf[t]] = want[t] /\ buf[t] \notin inUse
    BY <1>1, <2>1, ChosenFact DEF AskedOK, ChosenPC, IInv, ChoiceInv, ChoiceOK
  <2>3. QED BY <1>1, <1>15, <2>1, <2>2, ReadShown, GetImplemented
<1>16. ASSUME Release(t) PROVE Abs!Leave(t)
  <2>1. /\ pc[t] = "release" /\ pc' = [pc EXCEPT ![t] = "out"]
        /\ \A t2 \in Threads \ {t} : buf'[t2] = buf[t2]
        /\ UNCHANGED <<disk, data, bufferList, fsBlockNum>>
    BY <1>2, <1>16 DEF Release, Enter, GiveUp
  <2>2. QED BY <1>1, <1>16, <2>1, NothingRead, LeaveImplemented
<1>17. ASSUME NEW s \in Sectors, NEW v \in Values, Change(t, s, v) PROVE Abs!Change(t)
  BY <1>1, <1>17, ChangeImplemented
<1> HIDE DEF Quiet
<1>18. Quiet \/ Abs!Next
  <2>1. CASE Step(t)
    BY <1>4, <1>6, <1>7, <1>9, <1>15, <2>1, NoSteal DEF Step, Abs!Next
  <2>2. CASE Lock(t)
    BY <1>4, <1>10, <1>13, <1>14, <1>16, <2>2, NoSteal DEF Lock, Abs!Next
  <2>3. CASE User(t)
    BY <1>5, <1>8, <1>11, <1>17, <2>3 DEF User, Abs!Next
  <2>4. QED BY <2>1, <2>2, <2>3
<1>19. QED BY <1>18 DEF Quiet

LEMMA InitImplemented == Init => RInv /\ Abs!Init
<1> SUFFICES ASSUME Init PROVE RInv /\ Abs!Init
  OBVIOUS
<1>1. RInv
  BY InitInv, BufCacheAssumption DEF RInv, AskedInv, AskedOK, Init, ChosenPC
<1>2. \A b \in Blocks : Current(b) = {}
  BY DEF Init, Current, Listed, ToSet
<1>3. Contents \in [Blocks -> [Sectors -> Values]]
  BY <1>2, BufCacheAssumption DEF Contents, Init
<1>4. Users = [b \in Blocks |-> NoThread]
  BY DEF Users, Init, Has
<1>5. Abs!Init
  BY <1>3, <1>4 DEF Abs!Init, Contents, Users, Init
<1>6. QED BY <1>1, <1>5

(* The buffer cache implements the abstract one where there are as many     *)
(* buffers as blocks and only writes fail (bufcache.c: Get_Buffer,          *)
(* Sync_Buffer and Release_FS_Buffer), whole-cache synchronisation included. *)
THEOREM CacheImplemented ==
  ASSUME IsFiniteSet(Blocks), Cardinality(Blocks) <= MaxBlocks, Failures \subseteq {"write"}
  PROVE  Spec => ImplementsCache
<1>1. EnoughBuffers
  BY DEF EnoughBuffers
<1>2. Init => RInv /\ Abs!Init
  BY InitImplemented
<1>3. RInv /\ [Next]_vars => RInv'
  BY <1>1, RNext
<1>4. RInv /\ [Next]_vars => [Abs!Next]_(Abs!vars)
  <2>1. ASSUME RInv, Next PROVE [Abs!Next]_(Abs!vars)
    BY <1>1, <2>1, StepImplemented DEF Next
  <2>2. ASSUME RInv, UNCHANGED vars PROVE UNCHANGED Abs!vars
    BY <2>2 DEF vars, bufVars, threadVars, Abs!vars, Current, Listed, Has
  <2>3. QED BY <2>1, <2>2
<1>5. QED BY <1>2, <1>3, <1>4, PTL DEF Spec, ImplementsCache, Abs!Spec

=============================================================================
