---------------------------- MODULE KThreadProofs ----------------------------
(***************************************************************************)
(* Proofs about KThread for any set of threads, priorities and quanta.     *)
(***************************************************************************)
EXTENDS KThread, ListFacts, TLAPS

-----------------------------------------------------------------------------
(* Families of lists *)

Lists == [Queues -> Seq(Thread)]

Apart(qs) ==
  /\ \A q \in Queues : Distinct(qs[q])
  /\ \A p, q \in Queues : \A t \in Thread :
       Contains(qs[p], t) /\ Contains(qs[q], t) => p = q

Absent(qs, t) == \A q \in Queues : ~Contains(qs[q], t)

(* Adding an absent thread at the end of list q. *)
LEMMA EnqueueFact ==
  ASSUME NEW qs \in Lists, Apart(qs), NEW q \in Queues, NEW t \in Thread, Absent(qs, t),
         NEW rs, rs = Enqueue(qs, q, t)
  PROVE  /\ rs \in Lists /\ Apart(rs)
         /\ \A p \in Queues : \A u : Contains(rs[p], u)
                                      <=> Contains(qs[p], u) \/ (p = q /\ u = t)
<1>1. qs[q] \in Seq(Thread) /\ rs[q] = Append(qs[q], t)
  BY DEF Lists, Enqueue
<1>2. /\ rs[q] \in Seq(Thread) /\ Distinct(rs[q])
      /\ \A u : Contains(rs[q], u) <=> Contains(qs[q], u) \/ u = t
  BY <1>1, AppendFact DEF Apart, Absent
<1>3. \A p \in Queues : p # q => rs[p] = qs[p]
  BY DEF Lists, Enqueue
<1>4. rs \in Lists
  BY <1>1, <1>2 DEF Lists, Enqueue
<1>5. \A p \in Queues : \A u : Contains(rs[p], u)
                                <=> Contains(qs[p], u) \/ (p = q /\ u = t)
  BY <1>2, <1>3
<1>6. Apart(rs)
  BY <1>2, <1>3, <1>5 DEF Apart, Absent
<1>7. QED BY <1>4, <1>5, <1>6

(* Taking the thread at position k out of list q. *)
LEMMA DequeueFact ==
  ASSUME NEW qs \in Lists, Apart(qs), NEW q \in Queues, NEW k \in 1 .. Len(qs[q]),
         NEW rs, rs = Dequeue(qs, q, k)
  PROVE  /\ rs \in Lists /\ Apart(rs)
         /\ qs[q][k] \in Thread /\ Contains(qs[q], qs[q][k])
         /\ Absent(rs, qs[q][k])
         /\ \A p \in Queues : \A u \in Thread :
              Contains(rs[p], u) <=> Contains(qs[p], u) /\ u # qs[q][k]
<1>1. /\ qs[q] \in Seq(Thread) /\ rs[q] = RemoveAt(qs[q], k)
      /\ qs[q][k] \in Thread /\ Contains(qs[q], qs[q][k])
  BY DEF Lists, Contains, Dequeue
<1>2. /\ rs[q] \in Seq(Thread) /\ Distinct(rs[q])
      /\ \A u : Contains(rs[q], u) <=> Contains(qs[q], u) /\ u # qs[q][k]
  BY <1>1, RemoveAtFact DEF Apart
<1>3. \A p \in Queues : p # q => rs[p] = qs[p]
  BY DEF Lists, Dequeue
<1>4. rs \in Lists
  BY <1>1, <1>2 DEF Lists, Dequeue
<1>5. \A p \in Queues : \A u \in Thread :
        Contains(rs[p], u) <=> Contains(qs[p], u) /\ u # qs[q][k]
  BY <1>1, <1>2, <1>3 DEF Apart
<1>6. Apart(rs)
  BY <1>2, <1>3, <1>5 DEF Apart
<1>7. QED BY <1>1, <1>4, <1>5, <1>6 DEF Absent

(* Taking the front thread out of list q. *)
LEMMA PopFact ==
  ASSUME NEW qs \in Lists, Apart(qs), NEW q \in Queues, qs[q] # << >>,
         NEW rs, rs = Pop(qs, q)
  PROVE  /\ rs \in Lists /\ Apart(rs)
         /\ Head(qs[q]) \in Thread /\ Contains(qs[q], Head(qs[q]))
         /\ Absent(rs, Head(qs[q]))
         /\ Len(qs[q]) = 1 <=> rs[q] = << >>
         /\ \A p \in Queues : \A u \in Thread :
              Contains(rs[p], u) <=> Contains(qs[p], u) /\ u # Head(qs[q])
<1>1. /\ qs[q] \in Seq(Thread) /\ rs[q] = Tail(qs[q])
  BY DEF Lists, Pop
<1>2. /\ rs[q] \in Seq(Thread) /\ Distinct(rs[q])
      /\ Head(qs[q]) \in Thread /\ Contains(qs[q], Head(qs[q]))
      /\ Len(qs[q]) = 1 <=> rs[q] = << >>
      /\ \A u : Contains(rs[q], u) <=> Contains(qs[q], u) /\ u # Head(qs[q])
  BY <1>1, TailFact DEF Apart
<1>3. \A p \in Queues : p # q => rs[p] = qs[p]
  BY DEF Lists, Pop
<1>4. rs \in Lists
  BY <1>1, <1>2 DEF Lists, Pop
<1>5. \A p \in Queues : \A u \in Thread :
        Contains(rs[p], u) <=> Contains(qs[p], u) /\ u # Head(qs[q])
  BY <1>2, <1>3 DEF Apart
<1>6. Apart(rs)
  BY <1>2, <1>3, <1>5 DEF Apart
<1>7. QED BY <1>2, <1>4, <1>5, <1>6 DEF Absent

(* The lists are different lists. *)
LEMMA QueueIds ==
  /\ \A i, j \in Levels : RunQ(i) = RunQ(j) => i = j
  /\ \A s, t \in Thread : JoinQ(s) = JoinQ(t) => s = t
  /\ \A i \in Levels, t \in Thread : RunQ(i) # JoinQ(t)
  /\ \A i \in Levels : RunQ(i) \notin {ReaperQ, EventQ, Grave, Taken, NoQueue}
  /\ \A t \in Thread : JoinQ(t) \notin {ReaperQ, EventQ, Grave, Taken, NoQueue}
  /\ ReaperQ \notin {EventQ, Grave, Taken, NoQueue}
  /\ EventQ \notin {Grave, Taken, NoQueue}
  /\ Grave \notin {Taken, NoQueue} /\ Taken # NoQueue
  /\ \A i \in Levels : RunQ(i) \in Queues /\ RunQ(i) \in RunQs
  /\ \A t \in Thread : JoinQ(t) \in Queues /\ JoinQ(t) \in WaitQs
  /\ ReaperQ \in Queues /\ EventQ \in Queues /\ Grave \in Queues /\ Taken \in Queues
  /\ ReaperQ \in WaitQs /\ EventQ \in WaitQs
  /\ RunQs \cap WaitQs = {} /\ Grave \notin RunQs \cup WaitQs
  /\ Taken \notin RunQs \cup WaitQs /\ RunQs \cup WaitQs \subseteq Queues
  BY DEF RunQ, JoinQ, ReaperQ, EventQ, Grave, Taken, NoQueue, Queues, RunQs, WaitQs

(* Get_Next_Runnable takes a thread from a run queue of the current policy. *)
LEMMA SwitchFact ==
  ASSUME NEW qs \in Lists, Apart(qs), maxLevel \in {1, MLFLevels}, SwitchFrom(qs)
  PROVE  /\ current' \in Thread /\ queues' \in Lists /\ Apart(queues')
         /\ numTicks' = 0
         /\ \E i \in Levels : i < maxLevel /\ Contains(qs[RunQ(i)], current')
         /\ Absent(queues', current')
         /\ \A p \in Queues : \A u \in Thread :
              Contains(queues'[p], u) <=> Contains(qs[p], u) /\ u # current'
<1>1. PICK i \in 0 .. maxLevel - 1 : \E k \in DOMAIN qs[RunQ(i)] :
        /\ current' = qs[RunQ(i)][k]
        /\ queues'  = Dequeue(qs, RunQ(i), k)
        /\ numTicks' = 0
  BY DEF SwitchFrom, SwitchTo
<1>2. i \in Levels /\ i < maxLevel
  BY DEF Levels, MLFLevels
<1>3. RunQ(i) \in Queues /\ qs[RunQ(i)] \in Seq(Thread)
  BY <1>2, QueueIds DEF Lists
<1>4. PICK k \in DOMAIN qs[RunQ(i)] :
        /\ current' = qs[RunQ(i)][k]
        /\ queues'  = Dequeue(qs, RunQ(i), k)
        /\ numTicks' = 0
  BY <1>1
<1>5. k \in 1 .. Len(qs[RunQ(i)])
  BY <1>3
<1> DEFINE q == RunQ(i)
<1>6. /\ queues' \in Lists /\ Apart(queues')
      /\ qs[q][k] \in Thread /\ Contains(qs[q], qs[q][k])
      /\ Absent(queues', qs[q][k])
      /\ \A p \in Queues : \A u \in Thread :
           Contains(queues'[p], u) <=> Contains(qs[p], u) /\ u # qs[q][k]
  <2>1. q \in Queues /\ k \in 1 .. Len(qs[q])
    BY <1>3, <1>5
  <2>2. queues' = Dequeue(qs, q, k)
    BY <1>4
  <2> HIDE DEF q
  <2>3. QED BY <2>1, <2>2, DequeueFact
<1>7. QED
  BY <1>2, <1>4, <1>6
-----------------------------------------------------------------------------
(* The inductive invariant *)

(* LinkExclusive is Apart of the current lists, and of the next ones. *)
LEMMA ApartBridge ==
  ASSUME NEW qs \in Lists
  PROVE  (\A q \in Queues : IsInjective(qs[q])) <=> (\A q \in Queues : Distinct(qs[q]))
<1>1. ASSUME NEW q \in Queues PROVE IsInjective(qs[q]) <=> Distinct(qs[q])
  <2>1. qs[q] \in Seq(Thread)
    BY DEF Lists
  <2>2. QED BY <2>1 DEF IsInjective, Distinct
<1>2. QED BY <1>1

(* LinkExclusive, said of queues by the lemmas' own predicate. *)
LEMMA ApartQueues ==
  ASSUME queues \in Lists
  PROVE  LinkExclusive <=> Apart(queues)
  BY ApartBridge DEF LinkExclusive, Apart

(* The same in the next state. *)
LEMMA ApartQueuesNext ==
  ASSUME queues' \in Lists
  PROVE  LinkExclusive' <=> Apart(queues')
<1> DEFINE qs == queues'
<1>1. qs \in Lists
  OBVIOUS
<1>2. LinkExclusive' <=> /\ \A q \in Queues : IsInjective(qs[q])
                         /\ \A p, q \in Queues : \A t \in Thread :
                              Contains(qs[p], t) /\ Contains(qs[q], t) => p = q
  BY DEF LinkExclusive
<1> HIDE DEF qs
<1>3. (\A q \in Queues : IsInjective(qs[q])) <=> (\A q \in Queues : Distinct(qs[q]))
  BY <1>1, ApartBridge
<1>4. LinkExclusive' <=> Apart(qs)
  BY <1>2, <1>3 DEF Apart
<1>5. QED BY <1>4 DEF qs

(* The level Make_Runnable computes exists under the current policy. *)
LEMMA ReadyLevelFact ==
  ASSUME TypeOK, NEW t \in Thread
  PROVE  /\ ReadyLevel(t) \in Levels /\ ReadyLevel(t) < maxLevel
         /\ t = Idle => ReadyLevel(t) = maxLevel - 1
<1>1. level[t] \in 0 .. 3 /\ maxLevel \in {1, 4} /\ blocked[t] \in BOOLEAN
  BY DEF TypeOK, Levels, MLFLevels
<1>2. Prio[t] = 0 <=> t = Idle
  BY ThreadAssumption
<1>3. QED BY <1>1, <1>2 DEF ReadyLevel, Levels, MLFLevels

(* A step of the current thread that moves nothing on any list. *)
LEMMA FrameStep ==
  ASSUME IInv, NEW l \in OpenPC \cup {"exit"}, pc[current] \in OpenPC,
         pc' = [pc EXCEPT ![current] = l],
         UNCHANGED <<current, queues, blocked, refCount, maxLevel, arg>>,
         \A u \in Thread : u # current => level'[u] = level[u],
         \A c, u \in Thread : Contains(queues[JoinQ(c)], u) =>
           alive'[c] \/ pc'[c] = "destructor" \/ waking' = JoinQ(c)
  PROVE  WhereInv'
<1> USE DEF IInv, TypeOK
<1>1. /\ current \in Thread /\ pc'[current] = l
      /\ \A u \in Thread : u # current => pc'[u] = pc[u]
      /\ l \notin {"none", "new", "gone", "zombie", "join", "check"}
      /\ pc[current] \notin {"none", "new", "gone", "zombie", "join", "check"}
  BY DEF OpenPC
<1>2. Unlinked(current) /\ ~blocked[current]
  BY <1>1 DEF WhereInv, CurrentInv
<1>3. CurrentInv'
  BY <1>1, <1>2 DEF WhereInv, CurrentInv, Unlinked
<1>4. ASSUME NEW u \in Thread
      PROVE  FreshAt(u)' /\ GraveAt(u)' /\ BlockedAt(u)' /\ ReadyAt(u)'
  <2>1. FreshAt(u) /\ GraveAt(u) /\ BlockedAt(u) /\ ReadyAt(u)
    BY DEF WhereInv
  <2>2. FreshAt(u)'
    BY <1>1, <2>1 DEF FreshAt, Unlinked
  <2>3. GraveAt(u)'
    BY <1>1, <2>1 DEF GraveAt
  <2>4. BlockedAt(u)'
    BY <2>1 DEF BlockedAt, On
  <2>5. ReadyAt(u)'
    BY <1>1, <2>1 DEF ReadyAt, On, Live
  <2>6. QED BY <2>2, <2>3, <2>4, <2>5
<1>5. ASSUME NEW u \in Thread PROVE LevelAt(u)' /\ WaiterAt(u)'
  <2>1. CASE u = current
    BY <1>2, <2>1, QueueIds DEF Unlinked, LevelAt, WaiterAt
  <2>2. CASE u # current
    <3>1. LevelAt(u) /\ WaiterAt(u)
      BY DEF WhereInv
    <3>2. LevelAt(u)'
      BY <2>2, <3>1 DEF LevelAt
    <3>3. WaiterAt(u)'
      BY <1>1, <2>2, <3>1 DEF WaiterAt
    <3>4. QED BY <3>2, <3>3
  <2>3. QED BY <2>1, <2>2
<1>6. QED BY <1>3, <1>4, <1>5 DEF WhereInv

(* The current thread goes to a list and Get_Next_Runnable chooses. *)
LEMMA LeaveFact ==
  ASSUME IInv, pc[current] # "gone", NEW q \in Queues, SwitchFrom(Enqueue(queues, q, current))
  PROVE  /\ current' \in Thread /\ queues' \in Lists /\ LinkExclusive' /\ numTicks' = 0
         /\ Absent(queues', current')
         /\ \A p \in Queues : \A u \in Thread : Contains(queues'[p], u)
              <=> (Contains(queues[p], u) \/ (p = q /\ u = current)) /\ u # current'
         /\ \E i \in Levels : /\ i < maxLevel
                              /\ \/ Contains(queues[RunQ(i)], current')
                                 \/ RunQ(i) = q /\ current' = current
<1> DEFINE rs == Enqueue(queues, q, current)
<1>1. queues \in Lists /\ Apart(queues) /\ Absent(queues, current)
      /\ current \in Thread /\ maxLevel \in {1, MLFLevels}
  BY ApartQueues DEF IInv, TypeOK, Lists, WhereInv, CurrentInv, Unlinked, Absent
<1>2. SwitchFrom(rs) /\ rs = Enqueue(queues, q, current)
  OBVIOUS
<1> HIDE DEF rs
<1>3. /\ rs \in Lists /\ Apart(rs)
      /\ \A p \in Queues : \A u : Contains(rs[p], u)
                                    <=> Contains(queues[p], u) \/ (p = q /\ u = current)
  BY <1>1, <1>2, EnqueueFact
<1>4. /\ current' \in Thread /\ queues' \in Lists /\ Apart(queues') /\ numTicks' = 0
      /\ \E i \in Levels : i < maxLevel /\ Contains(rs[RunQ(i)], current')
      /\ Absent(queues', current')
      /\ \A p \in Queues : \A u \in Thread :
           Contains(queues'[p], u) <=> Contains(rs[p], u) /\ u # current'
  BY <1>1, <1>2, <1>3, SwitchFact
<1>5. LinkExclusive'
  BY <1>4, ApartQueuesNext
<1>6. Absent(queues', current')
  BY <1>4
<1>7. \A p \in Queues : \A u \in Thread : Contains(queues'[p], u)
              <=> (Contains(queues[p], u) \/ (p = q /\ u = current)) /\ u # current'
  BY <1>3, <1>4
<1>8. PICK i \in Levels : i < maxLevel /\ Contains(rs[RunQ(i)], current')
  BY <1>4
<1>9. RunQ(i) \in Queues
  BY QueueIds
<1>10. Contains(queues[RunQ(i)], current') \/ (RunQ(i) = q /\ current' = current)
  BY <1>3, <1>8, <1>9
<1>11. QED
  BY <1>4, <1>5, <1>6, <1>7, <1>8, <1>10

(* A list is empty if it contains nothing. *)
LEMMA EmptyFact ==
  ASSUME NEW S, NEW s \in Seq(S)
  PROVE  s = << >> <=> \A u \in S : ~Contains(s, u)
<1>1. ASSUME s # << >> PROVE \E u \in S : Contains(s, u)
  <2>1. 1 \in 1 .. Len(s) /\ s[1] \in S
    BY <1>1
  <2>2. QED BY <2>1 DEF Contains
<1>2. ASSUME s = << >>, NEW u PROVE ~Contains(s, u)
  BY <1>2 DEF Contains
<1>3. QED BY <1>1, <1>2

(* Lists with the same elements are both empty or both not. *)
LEMMA SameEmpty ==
  ASSUME NEW qs \in Lists, NEW rs \in Lists, NEW p \in Queues,
         \A u \in Thread : Contains(rs[p], u) <=> Contains(qs[p], u)
  PROVE  rs[p] = << >> <=> qs[p] = << >>
<1>1. qs[p] \in Seq(Thread) /\ rs[p] \in Seq(Thread)
  BY DEF Lists
<1>2. QED BY <1>1, EmptyFact

(* The current thread goes to the ready or wait queue q, its code to l with *)
(* argument a, and another thread is chosen. *)
Leaves(q, l, a) ==
  /\ SwitchFrom(Enqueue(queues, q, current))
  /\ pc' = [pc EXCEPT ![current] = l]
  /\ arg' = [arg EXCEPT ![current] = a]
  /\ UNCHANGED <<refCount, maxLevel, alive, waking>>
  /\ waking = NoQueue
  /\ \A u \in Thread : u # current => level'[u] = level[u] /\ blocked'[u] = blocked[u]
  /\ blocked'[current] <=> q \in WaitQs
  /\ \A i \in Levels : q = RunQ(i) =>
       level'[current] = i /\ i < maxLevel /\ (current = Idle => i = maxLevel - 1)
  /\ q = ReaperQ => current = Reaper /\ l = "check"
  /\ q = EventQ => current \in Workers /\ l = "body"

(* The current thread leaves the CPU for the queue q and the best ready thread
   gets it: what stays true of where the threads are. *)
LEMMA SwitchStep ==
  ASSUME IInv, NEW q \in RunQs \cup WaitQs, NEW l \in OpenPC \cup {"join", "check"},
         NEW a \in Workers \cup {NoThread}, Leaves(q, l, a),
         pc[current] \in OpenPC \cup {"join", "check"},
         pc[current] = "destructor" => l = "destructor",
         \A c \in Thread : q = JoinQ(c) =>
           current \in Workers /\ l = "join" /\ a = c /\ alive[c]
  PROVE  /\ WhereInv' /\ LinkExclusive' /\ queues' \in Lists
         /\ current' \in Thread /\ numTicks' = 0
         /\ pc'[current'] \notin {"none", "new", "zombie", "exit", "gone"}
         /\ queues'[Taken] = << >> <=> queues[Taken] = << >>
<1> USE DEF Leaves
<1>1. /\ current \in Thread /\ pc \in [Thread -> PC] /\ arg \in [Thread -> Workers \cup {NoThread}]
      /\ queues \in Lists
  BY DEF IInv, TypeOK, Lists
<1>2. /\ q \in Queues
      /\ pc[current] \notin {"none", "new", "zombie", "exit", "gone"}
      /\ l \notin {"none", "new", "zombie", "exit", "gone"}
  BY DEF Queues, OpenPC
<1>3. /\ current' \in Thread /\ queues' \in Lists /\ LinkExclusive' /\ numTicks' = 0
      /\ Absent(queues', current')
      /\ \A p \in Queues : \A u \in Thread : Contains(queues'[p], u)
           <=> (Contains(queues[p], u) \/ (p = q /\ u = current)) /\ u # current'
      /\ \E i \in Levels : /\ i < maxLevel
                           /\ \/ Contains(queues[RunQ(i)], current')
                              \/ RunQ(i) = q /\ current' = current
  BY <1>2, LeaveFact
<1>4. /\ pc'[current] = l /\ arg'[current] = a
      /\ \A u \in Thread : u # current => pc'[u] = pc[u] /\ arg'[u] = arg[u]
  BY <1>1
<1>5. Absent(queues, current) /\ ~blocked[current]
  BY <1>2 DEF IInv, WhereInv, CurrentInv, Unlinked, Absent
<1>6. \A u \in Thread : /\ FreshAt(u) /\ GraveAt(u) /\ BlockedAt(u)
                       /\ ReadyAt(u) /\ LevelAt(u) /\ WaiterAt(u)
  BY DEF IInv, WhereInv
<1>7. q \in RunQs => q \notin WaitQs
  BY QueueIds
<1>8. /\ \A p \in RunQs \cup WaitQs : p \in Queues /\ p # Grave /\ p # Taken
      /\ Grave \in Queues /\ Taken \in Queues
  BY QueueIds
<1>9. current' # current =>
        /\ \E i \in Levels : Contains(queues[RunQ(i)], current')
        /\ On(current', RunQs) /\ Live(current') /\ ~blocked[current']
  <2>1. SUFFICES ASSUME current' # current
                 PROVE  /\ \E i \in Levels : Contains(queues[RunQ(i)], current')
                        /\ On(current', RunQs) /\ ReadyAt(current')
    BY DEF ReadyAt
  <2>2. ReadyAt(current')
    BY <1>3, <1>6
  <2>3. QED BY <1>3, <2>1, <2>2, QueueIds DEF On
<1>10. current' = current => q \in RunQs
  BY <1>3, <1>5, QueueIds DEF Absent
<1>11. ~blocked'[current'] /\ pc'[current'] \notin {"none", "new", "zombie", "exit", "gone"}
  <2>1. CASE current' = current
    BY <1>2, <1>4, <1>7, <1>10, <2>1
  <2>2. CASE current' # current
    <3>1. Live(current') /\ ~blocked[current'] /\ pc'[current'] = pc[current']
      BY <1>3, <1>4, <1>9, <2>2
    <3>2. pc[current'] \notin {"exit", "gone"}
      BY <1>3, <2>2 DEF IInv, CodeInv, CodeAt
    <3>3. QED BY <1>3, <2>2, <3>1, <3>2 DEF Live
  <2>3. QED BY <2>1, <2>2
<1>12. ASSUME NEW u \in Thread
       PROVE  FreshAt(u)' /\ GraveAt(u)' /\ BlockedAt(u)' /\ ReadyAt(u)'
  <2>1. CASE u = current'
    <3>1. \A p \in Queues : ~Contains(queues'[p], u)
      BY <1>3, <2>1 DEF Absent
    <3>2. FreshAt(u)'
      BY <1>11, <2>1 DEF FreshAt
    <3>3. GraveAt(u)'
      BY <1>8, <1>11, <2>1, <3>1 DEF GraveAt
    <3>4. BlockedAt(u)'
      BY <1>8, <1>11, <2>1, <3>1 DEF BlockedAt, On
    <3>5. ReadyAt(u)'
      BY <1>8, <2>1, <3>1 DEF ReadyAt, On
    <3>6. QED BY <3>2, <3>3, <3>4, <3>5
  <2>2. CASE u # current' /\ u = current
    <3>1. \A p \in Queues : Contains(queues'[p], u) <=> p = q
      BY <1>3, <1>5, <2>2 DEF Absent
    <3>2. pc'[u] = l /\ (blocked'[u] <=> q \in WaitQs)
      BY <1>4, <2>2
    <3>3. FreshAt(u)'
      BY <1>2, <3>2 DEF FreshAt
    <3>4. GraveAt(u)'
      BY <1>2, <1>8, <3>1, <3>2 DEF GraveAt
    <3>5. BlockedAt(u)'
      BY <1>2, <1>8, <3>1, <3>2 DEF BlockedAt, On
    <3>6. On(u, RunQs)' <=> q \in RunQs
      BY <1>2, <1>8, <3>1 DEF On
    <3>7. Live(u)'
      BY <1>2, <3>2 DEF Live
    <3>8. ReadyAt(u)'
      BY <1>7, <2>2, <3>2, <3>6, <3>7 DEF ReadyAt
    <3>9. QED BY <3>3, <3>4, <3>5, <3>8
  <2>3. CASE u # current' /\ u # current
    <3>1. /\ \A p \in Queues : Contains(queues'[p], u) <=> Contains(queues[p], u)
          /\ pc'[u] = pc[u] /\ blocked'[u] = blocked[u] /\ refCount'[u] = refCount[u]
      BY <1>3, <1>4, <2>3
    <3>2. FreshAt(u)'
      BY <1>6, <3>1 DEF FreshAt, Unlinked
    <3>3. GraveAt(u)'
      BY <1>6, <1>8, <3>1 DEF GraveAt
    <3>4. BlockedAt(u)'
      BY <1>6, <1>8, <3>1 DEF BlockedAt, On
    <3>5. ReadyAt(u)'
      BY <1>6, <1>8, <2>3, <3>1 DEF ReadyAt, On, Live
    <3>6. QED BY <3>2, <3>3, <3>4, <3>5
  <2>4. QED BY <2>1, <2>2, <2>3
<1>13. ASSUME NEW u \in Thread PROVE LevelAt(u)' /\ WaiterAt(u)'
  <2>1. CASE u = current'
    BY <1>3, <2>1, QueueIds DEF Absent, LevelAt, WaiterAt
  <2>2. CASE u # current' /\ u = current
    <3>1. \A p \in Queues : Contains(queues'[p], u) <=> p = q
      BY <1>3, <1>5, <2>2 DEF Absent
    <3>2. LevelAt(u)'
      BY <2>2, <3>1, QueueIds DEF LevelAt
    <3>3. WaiterAt(u)'
      BY <1>4, <2>2, <3>1, QueueIds DEF WaiterAt
    <3>4. QED BY <3>2, <3>3
  <2>3. CASE u # current' /\ u # current
    <3>1. /\ \A p \in Queues : Contains(queues'[p], u) <=> Contains(queues[p], u)
          /\ pc'[u] = pc[u] /\ level'[u] = level[u] /\ arg'[u] = arg[u]
      BY <1>3, <1>4, <2>3
    <3>2. LevelAt(u)'
      BY <1>6, <3>1, QueueIds DEF LevelAt
    <3>3. \A c \in Thread : pc[c] = "destructor" => pc'[c] = "destructor"
      BY <1>4
    <3>4. WaiterAt(u)'
      BY <1>6, <3>1, <3>3, QueueIds DEF WaiterAt
    <3>5. QED BY <3>2, <3>4
  <2>4. QED BY <2>1, <2>2, <2>3
<1>14. CurrentInv'
  BY <1>3, <1>8, <1>11 DEF CurrentInv, Unlinked, Absent
<1>15. WhereInv'
  BY <1>12, <1>13, <1>14 DEF WhereInv
<1>16. queues'[Taken] = << >> <=> queues[Taken] = << >>
  <2>1. \A u \in Thread : Contains(queues'[Taken], u) <=> Contains(queues[Taken], u)
    <3>1. ~Contains(queues[Taken], current')
      <4>1. CASE current' = current
        BY <1>5, <1>8, <4>1 DEF Absent
      <4>2. CASE current' # current
        BY <1>3, <1>8, <1>9, <4>2, QueueIds DEF IInv, LinkExclusive
      <4>3. QED BY <4>1, <4>2
    <3>2. QED BY <1>3, <1>8, <3>1
  <2>2. queues[Taken] \in Seq(Thread) /\ queues'[Taken] \in Seq(Thread)
    BY <1>1, <1>3, <1>8 DEF Lists
  <2>3. /\ queues[Taken] = << >> <=> \A u \in Thread : ~Contains(queues[Taken], u)
        /\ queues'[Taken] = << >> <=> \A u \in Thread : ~Contains(queues'[Taken], u)
    BY <2>2, EmptyFact
  <2>4. QED BY <2>1, <2>3
<1>17. QED BY <1>3, <1>11, <1>15, <1>16

(* Such a step keeps the invariant. *)
LEMMA SwitchInv ==
  ASSUME IInv, NEW q \in RunQs \cup WaitQs, NEW l, NEW a, Leaves(q, l, a),
         \/ l = pc[current] /\ a = arg[current] /\ l \in OpenPC \cup {"check"}
         \/ /\ current = Reaper /\ pc[current] = "taken"
            /\ l = "dispose" /\ a = arg[current]
         \/ /\ current \in Workers /\ pc[current] \in {"body", "join"}
            /\ l = "join" /\ a \in Workers /\ q = JoinQ(a)
            /\ owner[a] = current /\ held[a] = "owned" /\ alive[a],
         UNCHANGED <<owner, held, quantum, panic>>,
         inIRQ' = FALSE, preemptionDisabled' = FALSE, needReschedule' \in BOOLEAN,
         level' \in [Thread -> Levels], blocked' \in [Thread -> BOOLEAN],
         \A c \in Thread : q = JoinQ(c) => l = "join"
  PROVE  IInv'
<1>1. /\ current \in Thread /\ pc \in [Thread -> PC] /\ arg \in [Thread -> Workers \cup {NoThread}]
      /\ alive \in [Thread -> BOOLEAN] /\ owner \in [Thread -> Workers \cup {NoThread}]
      /\ held \in [Thread -> RefStates]
  BY DEF IInv, TypeOK
<1>2. /\ l \in OpenPC \cup {"join", "check"} /\ a \in Workers \cup {NoThread}
      /\ pc[current] \in OpenPC \cup {"join", "check"}
      /\ pc[current] = "destructor" => l = "destructor"
  BY <1>1 DEF OpenPC
<1>3. /\ pc'[current] = l /\ arg'[current] = a
      /\ \A u \in Thread : u # current => pc'[u] = pc[u] /\ arg'[u] = arg[u]
  BY <1>1 DEF Leaves
<1>4. UNCHANGED <<refCount, maxLevel, alive, waking, owner, held, quantum, panic>>
  BY DEF Leaves
<1>5. \A c \in Thread : q = JoinQ(c) =>
        current \in Workers /\ l = "join" /\ a = c /\ alive[c]
  <2>1. SUFFICES ASSUME NEW c \in Thread, q = JoinQ(c)
                 PROVE  current \in Workers /\ l = "join" /\ a = c /\ alive[c]
    OBVIOUS
  <2>2. l = "join" /\ l \notin OpenPC \cup {"check"}
    BY <2>1 DEF OpenPC
  <2>3. QED BY <2>1, <2>2, QueueIds DEF Thread
<1>6. /\ WhereInv' /\ LinkExclusive' /\ queues' \in Lists
      /\ current' \in Thread /\ numTicks' = 0
      /\ pc'[current'] \notin {"none", "new", "zombie", "exit", "gone"}
      /\ queues'[Taken] = << >> <=> queues[Taken] = << >>
  BY <1>2, <1>5, SwitchStep
<1>7. TypeOK'
  <2>1. pc' \in [Thread -> PC] /\ arg' \in [Thread -> Workers \cup {NoThread}]
    BY <1>1, <1>2 DEF PC, Leaves
  <2>2. queues' \in [Queues -> Seq(Thread)] /\ numTicks' \in 0 .. TickCap
    BY <1>6, ThreadAssumption DEF Lists
  <2>3. QED BY <1>4, <1>6, <2>1, <2>2 DEF IInv, TypeOK
<1>8. Roles'
  <2>1. Roles
    BY DEF IInv, CodeInv
  <2>2. pc'[Idle] = "body"
    BY <1>3, <2>1, ThreadAssumption DEF Roles, Thread
  <2>3. pc'[Reaper] \in {"check", "taken", "dispose"}
    BY <1>3, <2>1, ThreadAssumption DEF Roles, Thread
  <2>4. \A t \in Workers : pc'[t] \notin {"check", "taken", "dispose"}
    BY <1>3, <2>1, ThreadAssumption DEF Roles, Thread
  <2>5. QED BY <1>6, <2>2, <2>3, <2>4 DEF Roles
<1>9. ASSUME NEW t \in Thread PROVE CodeAt(t)'
  <2>1. CodeAt(t)
    BY DEF IInv, CodeInv
  <2>2. CASE t # current
    <3>1. pc'[t] = pc[t] /\ arg'[t] = arg[t]
      BY <1>3, <2>2
    <3>2. pc[t] = "start" => pc'[arg[t]] = "new"
      <4>1. pc[t] = "start" => arg[t] \in Workers /\ pc[arg[t]] = "new"
        BY <2>1 DEF CodeAt
      <4>2. pc[current] # "new"
        BY <1>2 DEF OpenPC
      <4>3. QED BY <1>3, <4>1, <4>2 DEF Thread
    <3>3. QED BY <1>4, <2>1, <2>2, <3>1, <3>2 DEF CodeAt
  <2>3. CASE t = current
    <3>1. l \notin {"exit", "gone"}
      BY <1>2 DEF OpenPC
    <3>2. l = "start" => a = arg[current] /\ pc[current] = "start"
      OBVIOUS
    <3>3. l = "start" => a \in Workers /\ pc'[a] = "new"
      <4>1. l = "start" => a \in Workers /\ pc[a] = "new" /\ a # current
        BY <2>1, <2>3, <3>2 DEF CodeAt
      <4>2. QED BY <1>3, <4>1 DEF Thread
    <3>4. l = "join" => a \in Workers /\ owner[a] = current /\ held[a] = "owned"
      BY DEF OpenPC
    <3>5. alive[current] <=> l \notin {"none", "destructor", "exit", "gone", "zombie"}
      BY <2>1, <2>3 DEF CodeAt, OpenPC
    <3>6. QED BY <1>3, <1>4, <2>3, <3>1, <3>3, <3>4, <3>5 DEF CodeAt
  <2>4. QED BY <2>2, <2>3
<1>10. OneStarter'
  <2>1. \A t \in Thread : pc'[t] = "start" => pc[t] = "start" /\ arg'[t] = arg[t]
    BY <1>3
  <2>2. QED BY <2>1 DEF OneStarter, IInv, CodeInv
<1>11. CodeInv'
  BY <1>8, <1>9, <1>10 DEF CodeInv
<1>12. RefInv'
  <2>1. pc[current] \notin {"none", "gone", "zombie"} /\ l \notin {"none", "gone", "zombie"}
    BY <1>2 DEF OpenPC
  <2>2. ASSUME NEW t \in Thread PROVE RefAt(t)'
    <3>1. RefAt(t) /\ refCount'[t] = refCount[t] /\ held'[t] = held[t]
      BY <1>4 DEF IInv, RefInv
    <3>2. CASE t = current
      BY <1>3, <2>1, <3>1, <3>2 DEF RefAt
    <3>3. CASE t # current
      <4>1. pc'[t] = pc[t]
        BY <1>3, <3>3
      <4>2. QED BY <3>1, <4>1 DEF RefAt
    <3>4. QED BY <3>2, <3>3
  <2>3. QED BY <2>2 DEF RefInv
<1>13. WakeInv'
  <2>1. pc'[Reaper] \in {"taken", "dispose"} => pc[Reaper] \in {"taken", "dispose"}
    BY <1>3 DEF Thread
  <2>2. pc'[Reaper] = "check" => pc[Reaper] = "check"
    BY <1>3 DEF Thread
  <2>3. WakeInv /\ waking' = NoQueue /\ \A c \in Thread : JoinQ(c) # NoQueue
    BY <1>4, QueueIds DEF IInv, Leaves
  <2>4. QED BY <1>6, <2>1, <2>2, <2>3 DEF WakeInv
<1>14. CriticalIsWorker' /\ NoPanic'
  BY <1>4 DEF CriticalIsWorker, NoPanic, IInv
<1>15. QED BY <1>6, <1>7, <1>11, <1>12, <1>13, <1>14 DEF IInv

(* Yielding puts the current thread on a run queue; waiting, on a wait queue. *)
LEMMA YieldLeaves ==
  ASSUME TypeOK, SetRunnable(current), SwitchFrom(MakeRunnable(queues, current)),
         NEW l, NEW a, pc' = [pc EXCEPT ![current] = l], arg' = [arg EXCEPT ![current] = a],
         UNCHANGED <<refCount, maxLevel, alive, waking>>, waking = NoQueue
  PROVE  /\ RunQ(ReadyLevel(current)) \in RunQs
         /\ Leaves(RunQ(ReadyLevel(current)), l, a)
         /\ level' \in [Thread -> Levels] /\ blocked' \in [Thread -> BOOLEAN]
<1> DEFINE i == ReadyLevel(current)
<1>1. /\ current \in Thread /\ level \in [Thread -> Levels] /\ blocked \in [Thread -> BOOLEAN]
      /\ i \in Levels /\ i < maxLevel /\ (current = Idle => i = maxLevel - 1)
  BY ReadyLevelFact DEF TypeOK
<1>2. /\ level' = [level EXCEPT ![current] = i]
      /\ blocked' = [blocked EXCEPT ![current] = FALSE]
      /\ SwitchFrom(Enqueue(queues, RunQ(i), current))
  BY DEF SetRunnable, MakeRunnable
<1> HIDE DEF i
<1>3. /\ RunQ(i) \in RunQs /\ RunQ(i) \notin WaitQs /\ RunQ(i) # ReaperQ /\ RunQ(i) # EventQ
      /\ \A j \in Levels : RunQ(i) = RunQ(j) => i = j
  BY <1>1, QueueIds
<1>4. Leaves(RunQ(i), l, a)
  BY <1>1, <1>2, <1>3 DEF Leaves
<1>5. level' \in [Thread -> Levels] /\ blocked' \in [Thread -> BOOLEAN]
  BY <1>1, <1>2
<1>6. QED BY <1>3, <1>4, <1>5 DEF i

(* Wait is such a step, to a wait queue. *)
LEMMA WaitLeaves ==
  ASSUME TypeOK, NEW q \in WaitQs, WaitOn(q),
         NEW l, NEW a, pc' = [pc EXCEPT ![current] = l], arg' = [arg EXCEPT ![current] = a],
         UNCHANGED <<refCount, maxLevel, alive, waking>>, waking = NoQueue,
         q = ReaperQ => current = Reaper /\ l = "check",
         q = EventQ => current \in Workers /\ l = "body"
  PROVE  /\ Leaves(q, l, a)
         /\ level' \in [Thread -> Levels] /\ blocked' \in [Thread -> BOOLEAN]
<1>1. /\ current \in Thread /\ level \in [Thread -> Levels] /\ blocked \in [Thread -> BOOLEAN]
  BY DEF TypeOK
<1>2. /\ level' = level
      /\ blocked' = [blocked EXCEPT ![current] = TRUE]
      /\ SwitchFrom(Enqueue(queues, q, current))
  BY DEF WaitOn
<1>3. \A i \in Levels : q # RunQ(i)
  BY QueueIds
<1>4. QED BY <1>1, <1>2, <1>3 DEF Leaves

(* Yield preserves the invariant. *)
LEMMA YieldStep ==
  ASSUME IInv, Yield
  PROVE  IInv'
<1>1. /\ SetRunnable(current) /\ SwitchFrom(MakeRunnable(queues, current))
      /\ pc[current] = "body" /\ waking = NoQueue /\ inIRQ = FALSE /\ preemptionDisabled = FALSE
      /\ UNCHANGED <<refCount, alive, owner, held, pc, arg, maxLevel, quantum,
                     needReschedule, preemptionDisabled, inIRQ, waking, panic>>
  BY DEF Yield, Running, objectVars, codeVars, policyVars, irqVars, IInv, TypeOK
<1>2. /\ pc' = [pc EXCEPT ![current] = pc[current]] /\ arg' = [arg EXCEPT ![current] = arg[current]]
      /\ needReschedule' \in BOOLEAN /\ TypeOK
  BY <1>1 DEF IInv, TypeOK
<1>3. /\ RunQ(ReadyLevel(current)) \in RunQs
      /\ Leaves(RunQ(ReadyLevel(current)), pc[current], arg[current])
      /\ level' \in [Thread -> Levels] /\ blocked' \in [Thread -> BOOLEAN]
  BY <1>1, <1>2, YieldLeaves
<1>4. \A c \in Thread : RunQ(ReadyLevel(current)) # JoinQ(c)
  BY <1>3, QueueIds
<1>5. pc[current] \in OpenPC \cup {"check"}
  BY <1>1 DEF OpenPC
<1>6. QED BY <1>1, <1>2, <1>3, <1>4, <1>5, SwitchInv

(* ReaperYield preserves the invariant. *)
LEMMA ReaperYieldStep ==
  ASSUME IInv, ReaperYield
  PROVE  IInv'
<1>1. /\ SetRunnable(current) /\ SwitchFrom(MakeRunnable(queues, current))
      /\ current = Reaper /\ pc[current] = "taken" /\ waking = NoQueue /\ inIRQ = FALSE
      /\ pc' = [pc EXCEPT ![current] = "dispose"]
      /\ UNCHANGED <<refCount, alive, owner, held, arg, maxLevel, quantum,
                     needReschedule, preemptionDisabled, inIRQ, waking, panic>>
  BY DEF ReaperYield, Running, Goto, objectVars, policyVars, irqVars, IInv, TypeOK
<1>2. /\ arg' = [arg EXCEPT ![current] = arg[current]]
      /\ needReschedule' \in BOOLEAN /\ TypeOK
  BY <1>1 DEF IInv, TypeOK
<1>3. preemptionDisabled = FALSE
  BY <1>1, ThreadAssumption DEF IInv, TypeOK, CriticalIsWorker
<1>4. /\ RunQ(ReadyLevel(current)) \in RunQs
      /\ Leaves(RunQ(ReadyLevel(current)), "dispose", arg[current])
      /\ level' \in [Thread -> Levels] /\ blocked' \in [Thread -> BOOLEAN]
  BY <1>1, <1>2, YieldLeaves
<1>5. \A c \in Thread : RunQ(ReadyLevel(current)) # JoinQ(c)
  BY <1>4, QueueIds
<1>6. QED BY <1>1, <1>2, <1>3, <1>4, <1>5, SwitchInv

(* Preempt preserves the invariant. *)
LEMMA PreemptStep ==
  ASSUME IInv, InterruptReturn, needReschedule, ~preemptionDisabled
  PROVE  IInv'
<1>1. /\ SetRunnable(current) /\ SwitchFrom(MakeRunnable(queues, current))
      /\ waking = NoQueue /\ inIRQ /\ inIRQ' = FALSE /\ preemptionDisabled' = FALSE
      /\ needReschedule' = FALSE
      /\ UNCHANGED <<refCount, alive, owner, held, pc, arg, maxLevel, quantum, waking, panic>>
  BY DEF InterruptReturn, objectVars, codeVars, policyVars, IInv, TypeOK
<1>2. /\ pc' = [pc EXCEPT ![current] = pc[current]] /\ arg' = [arg EXCEPT ![current] = arg[current]]
      /\ TypeOK
  BY <1>1 DEF IInv, TypeOK
<1>3. /\ RunQ(ReadyLevel(current)) \in RunQs
      /\ Leaves(RunQ(ReadyLevel(current)), pc[current], arg[current])
      /\ level' \in [Thread -> Levels] /\ blocked' \in [Thread -> BOOLEAN]
  BY <1>1, <1>2, YieldLeaves
<1>4. \A c \in Thread : RunQ(ReadyLevel(current)) # JoinQ(c)
  BY <1>3, QueueIds
<1>5. pc[current] \in OpenPC \cup {"check"}
  BY <1>1 DEF IInv, CodeInv, Roles
<1>6. QED BY <1>1, <1>2, <1>3, <1>4, <1>5, SwitchInv

(* Block preserves the invariant. *)
LEMMA BlockStep ==
  ASSUME IInv, Block
  PROVE  IInv'
<1>1. /\ WaitOn(EventQ) /\ current \in Workers
      /\ pc[current] = "body" /\ waking = NoQueue /\ inIRQ = FALSE /\ preemptionDisabled' = FALSE
      /\ UNCHANGED <<refCount, alive, owner, held, pc, arg, maxLevel, quantum,
                     needReschedule, inIRQ, waking, panic>>
  BY DEF Block, WorkerAt, Running, objectVars, codeVars, policyVars, IInv, TypeOK
<1>2. /\ pc' = [pc EXCEPT ![current] = pc[current]] /\ arg' = [arg EXCEPT ![current] = arg[current]]
      /\ needReschedule' \in BOOLEAN /\ TypeOK
  BY <1>1 DEF IInv, TypeOK
<1>3. EventQ \in WaitQs /\ EventQ # ReaperQ /\ \A c \in Thread : EventQ # JoinQ(c)
  BY QueueIds
<1>4. /\ Leaves(EventQ, pc[current], arg[current])
      /\ level' \in [Thread -> Levels] /\ blocked' \in [Thread -> BOOLEAN]
  BY <1>1, <1>2, <1>3, WaitLeaves
<1>5. pc[current] \in OpenPC \cup {"check"}
  BY <1>1 DEF OpenPC
<1>6. QED BY <1>1, <1>2, <1>3, <1>4, <1>5, SwitchInv

(* ReaperWait preserves the invariant. *)
LEMMA ReaperWaitStep ==
  ASSUME IInv, ReaperCheck, queues[Grave] = << >>
  PROVE  IInv'
<1>1. /\ WaitOn(ReaperQ) /\ current = Reaper
      /\ pc[current] = "check" /\ waking = NoQueue /\ inIRQ = FALSE
      /\ UNCHANGED <<refCount, alive, owner, held, pc, arg, maxLevel, quantum,
                     needReschedule, preemptionDisabled, inIRQ, waking, panic>>
  BY DEF ReaperCheck, Running, objectVars, policyVars, irqVars, IInv, TypeOK
<1>2. /\ pc' = [pc EXCEPT ![current] = pc[current]] /\ arg' = [arg EXCEPT ![current] = arg[current]]
      /\ needReschedule' \in BOOLEAN /\ TypeOK
  BY <1>1 DEF IInv, TypeOK
<1>3. preemptionDisabled = FALSE
  BY <1>1, ThreadAssumption DEF IInv, TypeOK, CriticalIsWorker
<1>4. ReaperQ \in WaitQs /\ EventQ # ReaperQ /\ \A c \in Thread : ReaperQ # JoinQ(c)
  BY QueueIds
<1>5. /\ Leaves(ReaperQ, pc[current], arg[current])
      /\ level' \in [Thread -> Levels] /\ blocked' \in [Thread -> BOOLEAN]
  BY <1>1, <1>2, <1>4, WaitLeaves
<1>6. pc[current] \in OpenPC \cup {"check"}
  BY <1>1
<1>7. QED BY <1>1, <1>2, <1>3, <1>4, <1>5, <1>6, SwitchInv

(* Join, of a child that lives. *)
LEMMA JoinWaitStep ==
  ASSUME IInv, NEW t \in Workers, current \in Workers, pc[current] \in {"body", "join"},
         waking = NoQueue, inIRQ = FALSE, preemptionDisabled = FALSE,
         owner[t] = current, held[t] = "owned", alive[t],
         JoinLoop(t), UNCHANGED <<policyVars, irqVars>>
  PROVE  IInv'
<1>1. /\ WaitOn(JoinQ(t))
      /\ pc' = [pc EXCEPT ![current] = "join"] /\ arg' = [arg EXCEPT ![current] = t]
      /\ UNCHANGED <<refCount, alive, owner, held, maxLevel, quantum,
                     needReschedule, preemptionDisabled, inIRQ, waking, panic>>
  BY DEF JoinLoop, objectVars, policyVars, irqVars
<1>2. needReschedule' \in BOOLEAN /\ TypeOK
  BY <1>1 DEF IInv, TypeOK
<1>3. JoinQ(t) \in WaitQs /\ JoinQ(t) # ReaperQ /\ JoinQ(t) # EventQ
  BY QueueIds DEF Thread
<1>4. /\ Leaves(JoinQ(t), "join", t)
      /\ level' \in [Thread -> Levels] /\ blocked' \in [Thread -> BOOLEAN]
  BY <1>1, <1>2, <1>3, WaitLeaves
<1>5. QED BY <1>1, <1>2, <1>3, <1>4, SwitchInv

(* A thread t that is new or waits becomes ready; rs is the lists without it. *)
Readies(rs, t) ==
  /\ queues' = MakeRunnable(rs, t) /\ SetRunnable(t)
  /\ UNCHANGED <<current, refCount, maxLevel, alive>>
  /\ pc'[t] \notin {"none", "new", "gone", "zombie"}
  /\ \A u \in Thread : u # t =>
       pc'[u] = pc[u] \/ (u = current /\ pc[u] = "start" /\ pc'[u] = "body")
  /\ \A u \in Thread : u # current => arg'[u] = arg[u]
  /\ \A c, u \in Thread : Contains(queues[JoinQ(c)], u) /\ u # t =>
       alive'[c] \/ pc'[c] = "destructor" \/ waking' = JoinQ(c)

(* A thread other than the current one is made runnable, from wherever it was. *)
LEMMA ReadyStep ==
  ASSUME IInv, NEW t \in Thread, t # current, NEW rs \in Lists, Apart(rs), Absent(rs, t),
         \A p \in Queues : \A u \in Thread :
           Contains(rs[p], u) <=> Contains(queues[p], u) /\ u # t,
         Readies(rs, t)
  PROVE  /\ WhereInv' /\ LinkExclusive' /\ queues' \in Lists
         /\ level' \in [Thread -> Levels] /\ blocked' \in [Thread -> BOOLEAN]
         /\ \A p \in Queues : \A u \in Thread : Contains(queues'[p], u)
              <=> (Contains(queues[p], u) /\ u # t) \/ (p = RunQ(ReadyLevel(t)) /\ u = t)
<1> DEFINE i == ReadyLevel(t)
<1>1. /\ current \in Thread /\ level \in [Thread -> Levels] /\ blocked \in [Thread -> BOOLEAN]
      /\ i \in Levels /\ i < maxLevel /\ (t = Idle => i = maxLevel - 1)
  BY ReadyLevelFact DEF IInv, TypeOK
<1>2. /\ level' = [level EXCEPT ![t] = i] /\ blocked' = [blocked EXCEPT ![t] = FALSE]
      /\ queues' = Enqueue(rs, RunQ(i), t)
      /\ UNCHANGED <<current, refCount, maxLevel, alive>>
  BY DEF Readies, SetRunnable, MakeRunnable
<1> HIDE DEF i
<1>3. /\ RunQ(i) \in Queues /\ RunQ(i) \in RunQs /\ RunQ(i) \notin WaitQs
      /\ RunQ(i) # Grave /\ RunQ(i) # Taken /\ RunQ(i) # ReaperQ /\ RunQ(i) # EventQ
      /\ \A c \in Thread : RunQ(i) # JoinQ(c)
      /\ \A j \in Levels : RunQ(i) = RunQ(j) => i = j
  BY <1>1, QueueIds
<1>4. /\ queues' \in Lists /\ Apart(queues')
      /\ \A p \in Queues : \A u : Contains(queues'[p], u)
                                   <=> Contains(rs[p], u) \/ (p = RunQ(i) /\ u = t)
  BY <1>2, <1>3, EnqueueFact
<1>5. LinkExclusive'
  BY <1>4, ApartQueuesNext
<1>6. \A p \in Queues : \A u \in Thread : Contains(queues'[p], u)
        <=> (Contains(queues[p], u) /\ u # t) \/ (p = RunQ(i) /\ u = t)
  BY <1>4
<1>7. \A u \in Thread : /\ FreshAt(u) /\ GraveAt(u) /\ BlockedAt(u)
                       /\ ReadyAt(u) /\ LevelAt(u) /\ WaiterAt(u)
  BY DEF IInv, WhereInv
<1>8. /\ pc'[t] \notin {"none", "new", "gone", "zombie"}
      /\ \A u \in Thread : u # t =>
           pc'[u] = pc[u] \/ (u = current /\ pc[u] = "start" /\ pc'[u] = "body")
  BY DEF Readies
<1>9. /\ \A p \in RunQs \cup WaitQs : p \in Queues
      /\ Grave \in Queues /\ Taken \in Queues
  BY QueueIds
<1>10. ASSUME NEW u \in Thread
       PROVE  FreshAt(u)' /\ GraveAt(u)' /\ BlockedAt(u)' /\ ReadyAt(u)'
  <2>1. CASE u = t
    <3>1. /\ \A p \in Queues : Contains(queues'[p], u) <=> p = RunQ(i)
          /\ ~blocked'[u]
      BY <1>1, <1>2, <1>6, <2>1
    <3>2. FreshAt(u)'
      BY <1>8, <2>1 DEF FreshAt
    <3>3. GraveAt(u)'
      BY <1>3, <1>8, <1>9, <2>1, <3>1 DEF GraveAt
    <3>4. BlockedAt(u)'
      BY <1>3, <1>9, <3>1 DEF BlockedAt, On
    <3>5. On(u, RunQs)' /\ Live(u)'
      BY <1>3, <1>8, <2>1, <3>1 DEF On, Live
    <3>6. ReadyAt(u)'
      BY <1>2, <2>1, <3>1, <3>5 DEF ReadyAt
    <3>7. QED BY <3>2, <3>3, <3>4, <3>6
  <2>2. CASE u # t
    <3>1. /\ \A p \in Queues : Contains(queues'[p], u) <=> Contains(queues[p], u)
          /\ blocked'[u] = blocked[u] /\ refCount'[u] = refCount[u]
      BY <1>1, <1>2, <1>6, <2>2
    <3>2. /\ pc'[u] \in {"none", "new"} <=> pc[u] \in {"none", "new"}
          /\ pc'[u] \in {"gone", "zombie"} <=> pc[u] \in {"gone", "zombie"}
          /\ pc'[u] = "zombie" <=> pc[u] = "zombie"
      BY <1>8, <2>2
    <3>3. FreshAt(u)'
      BY <1>7, <3>1, <3>2 DEF FreshAt, Unlinked
    <3>4. GraveAt(u)'
      BY <1>7, <1>9, <3>1, <3>2 DEF GraveAt
    <3>5. BlockedAt(u)'
      BY <1>7, <1>9, <3>1 DEF BlockedAt, On
    <3>6. On(u, RunQs)' <=> On(u, RunQs)
      BY <1>9, <3>1 DEF On
    <3>7. Live(u)' <=> Live(u)
      BY <3>2 DEF Live
    <3>8. ReadyAt(u)'
      BY <1>2, <1>7, <3>1, <3>6, <3>7 DEF ReadyAt
    <3>9. QED BY <3>3, <3>4, <3>5, <3>8
  <2>3. QED BY <2>1, <2>2
<1>11. ASSUME NEW u \in Thread PROVE LevelAt(u)' /\ WaiterAt(u)'
  <2>1. CASE u = t
    <3>1. \A p \in Queues : Contains(queues'[p], u) <=> p = RunQ(i)
      BY <1>6, <2>1
    <3>2. LevelAt(u)'
      BY <1>1, <1>2, <1>3, <2>1, <3>1, QueueIds DEF LevelAt
    <3>3. WaiterAt(u)'
      BY <1>3, <3>1, QueueIds DEF WaiterAt
    <3>4. QED BY <3>2, <3>3
  <2>2. CASE u # t
    <3>1. \A p \in Queues : Contains(queues'[p], u) <=> Contains(queues[p], u)
      BY <1>6, <2>2
    <3>2. LevelAt(u)'
      BY <1>1, <1>2, <1>7, <2>2, <3>1, QueueIds DEF LevelAt
    <3>3. CASE u = current
      <4>1. ~On(u, WaitQs)
        BY <1>7, <3>3 DEF IInv, WhereInv, CurrentInv, BlockedAt
      <4>2. WaiterAt(u)'
        BY <3>1, <4>1, QueueIds DEF On, WaiterAt
      <4>3. QED BY <3>2, <4>2
    <3>4. CASE u # current
      <4>1. pc'[u] = pc[u] /\ arg'[u] = arg[u]
        BY <1>8, <2>2, <3>4 DEF Readies
      <4>2. \A c \in Thread : Contains(queues[JoinQ(c)], u) =>
              alive'[c] \/ pc'[c] = "destructor" \/ waking' = JoinQ(c)
        BY <2>2 DEF Readies
      <4>3. WaiterAt(u)
        BY <1>7
      <4>4. WaiterAt(u)'
        BY <3>1, <4>1, <4>2, <4>3, QueueIds DEF WaiterAt
      <4>5. QED BY <3>2, <4>4
    <3>5. QED BY <3>3, <3>4
  <2>3. QED BY <2>1, <2>2
<1>12. CurrentInv'
  <2>1. CurrentInv
    BY DEF IInv, WhereInv
  <2>2. \A p \in Queues : Contains(queues'[p], current) <=> Contains(queues[p], current)
    BY <1>1, <1>6
  <2>3. blocked'[current] = blocked[current] /\ (pc'[current] = "gone" <=> pc[current] = "gone")
    BY <1>1, <1>2, <1>8
  <2>4. QED BY <1>2, <1>9, <2>1, <2>2, <2>3 DEF CurrentInv, Unlinked
<1>13. WhereInv'
  BY <1>10, <1>11, <1>12 DEF WhereInv
<1>14. level' \in [Thread -> Levels] /\ blocked' \in [Thread -> BOOLEAN]
  BY <1>1, <1>2
<1>15. QED BY <1>4, <1>5, <1>6, <1>13, <1>14 DEF i

(* Start preserves the invariant. *)
LEMMA StartStep ==
  ASSUME IInv, Start
  PROVE  IInv'
<1> DEFINE t == arg[current]
<1>1. /\ current \in Workers /\ pc[current] = "start" /\ waking = NoQueue /\ ~inIRQ
      /\ queues' = MakeRunnable(queues, t) /\ SetRunnable(t)
      /\ pc' = [pc EXCEPT ![t] = "body", ![current] = "body"]
      /\ arg' = [arg EXCEPT ![current] = NoThread]
      /\ UNCHANGED <<current, numTicks, alive, refCount, owner, held, maxLevel, quantum,
                     needReschedule, preemptionDisabled, inIRQ, waking, panic>>
  BY DEF Start, WorkerAt, Running, objectVars, policyVars, irqVars
<1>2. /\ pc \in [Thread -> PC] /\ arg \in [Thread -> Workers \cup {NoThread}] /\ queues \in Lists
      /\ current \in Thread
  BY DEF IInv, TypeOK, Lists
<1>3. t \in Workers /\ pc[t] = "new" /\ t # current /\ t \in Thread
  BY <1>1, <1>2 DEF IInv, CodeInv, CodeAt, Thread
<1> HIDE DEF t
<1>4. /\ pc'[t] = "body" /\ pc'[current] = "body" /\ arg'[current] = NoThread
      /\ \A u \in Thread : u # current /\ u # t => pc'[u] = pc[u]
      /\ \A u \in Thread : u # current => arg'[u] = arg[u]
  BY <1>1, <1>2, <1>3
<1>5. Absent(queues, t)
  BY <1>3 DEF IInv, WhereInv, FreshAt, Unlinked, Absent
<1>6. \A p \in Queues : \A u \in Thread :
        Contains(queues[p], u) <=> Contains(queues[p], u) /\ u # t
  BY <1>5 DEF Absent
<1>7. Readies(queues, t)
  <2>1. \A c, u \in Thread : Contains(queues[JoinQ(c)], u) =>
          alive'[c] \/ pc'[c] = "destructor" \/ waking' = JoinQ(c)
    <3>1. \A c, u \in Thread : Contains(queues[JoinQ(c)], u) =>
            alive[c] \/ pc[c] = "destructor" \/ waking = JoinQ(c)
      BY DEF IInv, WhereInv, WaiterAt
    <3>2. \A c \in Thread : pc[c] = "destructor" => pc'[c] = "destructor"
      BY <1>1, <1>3, <1>4
    <3>3. QED BY <1>1, <3>1, <3>2
  <2>2. QED BY <1>1, <1>3, <1>4, <2>1 DEF Readies
<1>8. Apart(queues)
  BY <1>2, ApartQueues DEF IInv
<1>9. /\ WhereInv' /\ LinkExclusive' /\ queues' \in Lists
      /\ level' \in [Thread -> Levels] /\ blocked' \in [Thread -> BOOLEAN]
      /\ \A p \in Queues : \A u \in Thread : Contains(queues'[p], u)
           <=> (Contains(queues[p], u) /\ u # t) \/ (p = RunQ(ReadyLevel(t)) /\ u = t)
  BY <1>2, <1>3, <1>5, <1>6, <1>7, <1>8, ReadyStep
<1>10. TypeOK'
  <2>1. pc' \in [Thread -> PC] /\ arg' \in [Thread -> Workers \cup {NoThread}]
    BY <1>1, <1>2 DEF PC, OpenPC
  <2>2. QED BY <1>1, <1>9, <2>1 DEF IInv, TypeOK, Lists
<1>11. CodeInv'
  <2>1. Roles /\ OneStarter /\ \A u \in Thread : CodeAt(u)
    BY DEF IInv, CodeInv
  <2>2. Roles'
    BY <1>1, <1>3, <1>4, <2>1, ThreadAssumption DEF Roles, Thread, OpenPC
  <2>3. ASSUME NEW u \in Thread PROVE CodeAt(u)'
    <3>1. CASE u = current \/ u = t
      BY <1>1, <1>2, <1>3, <1>4, <2>1, <3>1 DEF CodeAt
    <3>2. CASE u # current /\ u # t
      <4>1. pc'[u] = pc[u] /\ arg'[u] = arg[u] /\ CodeAt(u)
        BY <1>4, <2>1, <3>2
      <4>2. pc[u] = "start" => arg[u] # t /\ arg[u] # current
        BY <1>1, <1>2, <1>3, <2>1, <3>2, <4>1 DEF OneStarter, CodeAt, t
      <4>3. pc[u] = "start" => pc'[arg[u]] = "new"
        BY <1>4, <4>1, <4>2 DEF CodeAt, Thread
      <4>4. QED BY <1>1, <4>1, <4>3 DEF CodeAt
    <3>3. QED BY <3>1, <3>2
  <2>4. OneStarter'
    BY <1>4, <2>1 DEF OneStarter
  <2>5. QED BY <2>2, <2>3, <2>4 DEF CodeInv
<1>12. RefInv'
  <2>1. ASSUME NEW u \in Thread PROVE RefAt(u)'
    <3>1. RefAt(u) /\ refCount'[u] = refCount[u] /\ held'[u] = held[u]
      BY <1>1 DEF IInv, RefInv
    <3>2. CASE u = current \/ u = t
      BY <1>1, <1>3, <1>4, <3>1, <3>2 DEF RefAt
    <3>3. CASE u # current /\ u # t
      <4>1. pc'[u] = pc[u]
        BY <1>4, <3>3
      <4>2. QED BY <3>1, <4>1 DEF RefAt
    <3>4. QED BY <3>2, <3>3
  <2>2. QED BY <2>1 DEF RefInv
<1>13. WakeInv'
  <2>1. Taken \in Queues /\ RunQ(ReadyLevel(t)) # Taken /\ \A c \in Thread : JoinQ(c) # NoQueue
    BY <1>3, ReadyLevelFact, QueueIds DEF IInv
  <2>2. queues'[Taken] = << >> <=> queues[Taken] = << >>
    BY <1>2, <1>5, <1>9, <2>1, SameEmpty DEF Absent
  <2>3. pc'[Reaper] = pc[Reaper]
    BY <1>1, <1>3, <1>4, ThreadAssumption DEF Thread
  <2>4. QED BY <1>1, <2>1, <2>2, <2>3 DEF WakeInv, IInv
<1>14. CriticalIsWorker' /\ NoPanic'
  BY <1>1, <1>4 DEF CriticalIsWorker, NoPanic, IInv
<1>15. QED BY <1>9, <1>10, <1>11, <1>12, <1>13, <1>14 DEF IInv

(* Wake_Up and Wake_Up_One move t from a wait queue to its run queue. *)
LEMMA WokenStep ==
  ASSUME IInv, NEW q \in WaitQs, NEW t \in Thread, Contains(queues[q], t),
         NEW rs \in Lists, Apart(rs), Absent(rs, t),
         \A p \in Queues : \A u \in Thread :
           Contains(rs[p], u) <=> Contains(queues[p], u) /\ u # t,
         queues' = MakeRunnable(rs, t), SetRunnable(t),
         UNCHANGED <<current, numTicks, objectVars, codeVars, policyVars, irqVars, panic>>,
         \/ waking = NoQueue /\ waking' = NoQueue
         \/ waking = q /\ rs[q] = << >> /\ waking' = NoQueue
         \/ waking = q /\ rs[q] # << >> /\ waking' = q
  PROVE  IInv'
<1>1. /\ q \in Queues /\ \A i \in Levels : RunQ(i) # q
      /\ q # Taken /\ q # NoQueue
  BY QueueIds, Zenon DEF WaitQs
<1>2. /\ UNCHANGED <<current, numTicks, alive, refCount, owner, held, pc, arg, maxLevel, quantum,
                     needReschedule, preemptionDisabled, inIRQ, panic>>
  BY DEF objectVars, codeVars, policyVars, irqVars
<1>3. t # current /\ pc[t] \notin {"none", "new", "gone", "zombie"}
  <2>1. On(t, WaitQs)
    BY DEF On
  <2>2. blocked[t] /\ ~blocked[current]
    BY <2>1 DEF IInv, WhereInv, BlockedAt, CurrentInv
  <2>3. pc[t] \notin {"none", "new"}
    BY <2>2 DEF IInv, WhereInv, FreshAt
  <2>4. pc[t] \notin {"gone", "zombie"}
    BY <2>1, QueueIds DEF IInv, WhereInv, WaiterAt, On, WaitQs
  <2>5. QED BY <2>2, <2>3, <2>4
<1>4. Readies(rs, t)
  <2>1. ASSUME NEW c \in Thread, NEW u \in Thread, Contains(queues[JoinQ(c)], u), u # t
        PROVE  alive'[c] \/ pc'[c] = "destructor" \/ waking' = JoinQ(c)
    <3>1. alive[c] \/ pc[c] = "destructor" \/ waking = JoinQ(c)
      BY <2>1 DEF IInv, WhereInv, WaiterAt
    <3>2. rs[JoinQ(c)] # << >>
      <4>1. JoinQ(c) \in Queues /\ rs[JoinQ(c)] \in Seq(Thread)
        BY QueueIds DEF Lists
      <4>2. Contains(rs[JoinQ(c)], u)
        BY <2>1, <4>1
      <4>3. QED BY <4>1, <4>2, EmptyFact
    <3>3. waking = JoinQ(c) => waking' = JoinQ(c)
      BY <3>2, QueueIds
    <3>4. QED BY <1>2, <3>1, <3>3
  <2>2. QED BY <1>2, <1>3, <2>1 DEF Readies
<1>5. /\ WhereInv' /\ LinkExclusive' /\ queues' \in Lists
      /\ level' \in [Thread -> Levels] /\ blocked' \in [Thread -> BOOLEAN]
      /\ \A p \in Queues : \A u \in Thread : Contains(queues'[p], u)
           <=> (Contains(queues[p], u) /\ u # t) \/ (p = RunQ(ReadyLevel(t)) /\ u = t)
  BY <1>3, <1>4, ReadyStep
<1>6. TypeOK'
  BY <1>2, <1>5 DEF IInv, TypeOK, Lists
<1>7. CodeInv'
  BY <1>2 DEF IInv, CodeInv, Roles, OneStarter, CodeAt
<1>8. RefInv'
  BY <1>2 DEF IInv, RefInv, RefAt
<1>9. RunQ(ReadyLevel(t)) \in Queues /\ RunQ(ReadyLevel(t)) # Taken /\ RunQ(ReadyLevel(t)) # q
  BY <1>1, ReadyLevelFact, QueueIds DEF IInv
<1>10. queues'[Taken] = << >> <=> queues[Taken] = << >>
  <2>1. queues \in Lists /\ Taken \in Queues
    BY QueueIds DEF IInv, TypeOK, Lists
  <2>2. ~Contains(queues[Taken], t)
    BY <1>1, <2>1 DEF IInv, LinkExclusive
  <2>3. \A u \in Thread : Contains(queues'[Taken], u) <=> Contains(queues[Taken], u)
    BY <1>5, <1>9, <2>1, <2>2
  <2>4. QED BY <1>5, <2>1, <2>3, SameEmpty
<1>11. queues'[q] = << >> <=> rs[q] = << >>
  <2>1. \A u \in Thread : Contains(queues'[q], u) <=> Contains(rs[q], u)
    BY <1>1, <1>5, <1>9
  <2>2. QED BY <1>1, <1>5, <2>1, SameEmpty
<1>12. WakeInv'
  BY <1>1, <1>2, <1>10, <1>11, QueueIds DEF IInv, WakeInv
<1>13. CriticalIsWorker' /\ NoPanic'
  BY <1>2 DEF CriticalIsWorker, NoPanic, IInv
<1>14. QED BY <1>5, <1>6, <1>7, <1>8, <1>12, <1>13 DEF IInv

(* WakeNext preserves the invariant. *)
LEMMA WakeNextStep ==
  ASSUME IInv, WakeNext
  PROVE  IInv'
<1> DEFINE t == Head(queues[waking])
           rs == Pop(queues, waking)
<1>1. /\ waking # NoQueue /\ queues[waking] # << >>
      /\ queues' = MakeRunnable(rs, t) /\ SetRunnable(t)
      /\ waking' = IF Len(queues[waking]) = 1 THEN NoQueue ELSE waking
      /\ UNCHANGED <<current, numTicks, objectVars, codeVars, policyVars, irqVars, panic>>
  BY DEF WakeNext, IInv, WakeInv
<1>2. waking \in WaitQs /\ waking \in Queues
  BY <1>1, QueueIds DEF IInv, TypeOK, Thread
<1>3. queues \in Lists /\ Apart(queues)
  BY ApartQueues DEF IInv, TypeOK, Lists
<1>4. rs = Pop(queues, waking) /\ t = Head(queues[waking])
  OBVIOUS
<1> HIDE DEF rs, t
<1>5. /\ rs \in Lists /\ Apart(rs) /\ t \in Thread /\ Contains(queues[waking], t)
      /\ Absent(rs, t)
      /\ Len(queues[waking]) = 1 <=> rs[waking] = << >>
      /\ \A p \in Queues : \A u \in Thread :
           Contains(rs[p], u) <=> Contains(queues[p], u) /\ u # t
  BY <1>1, <1>2, <1>3, <1>4, PopFact
<1>6. \/ waking = waking /\ rs[waking] = << >> /\ waking' = NoQueue
      \/ waking = waking /\ rs[waking] # << >> /\ waking' = waking
  BY <1>1, <1>5
<1>7. QED BY <1>1, <1>2, <1>5, <1>6, WokenStep

(* WakeOne preserves the invariant. *)
LEMMA WakeOneStep ==
  ASSUME IInv, WakeOne
  PROVE  IInv'
<1>1. PICK k \in DOMAIN queues[EventQ] :
        /\ queues' = MakeRunnable(Dequeue(queues, EventQ, k), queues[EventQ][k])
        /\ SetRunnable(queues[EventQ][k])
  BY DEF WakeOne
<1>2. /\ waking = NoQueue /\ waking' = NoQueue
      /\ UNCHANGED <<current, numTicks, objectVars, codeVars, policyVars, irqVars, panic>>
  BY DEF WakeOne, WorkerAt, Running
<1>3. queues \in Lists /\ Apart(queues) /\ EventQ \in Queues /\ EventQ \in WaitQs
  BY ApartQueues, QueueIds DEF IInv, TypeOK, Lists
<1>4. k \in 1 .. Len(queues[EventQ])
  BY <1>3 DEF Lists
<1> DEFINE t == queues[EventQ][k]
           rs == Dequeue(queues, EventQ, k)
<1>5. queues' = MakeRunnable(rs, t) /\ SetRunnable(t)
  BY <1>1
<1>6. rs = Dequeue(queues, EventQ, k) /\ t = queues[EventQ][k]
  OBVIOUS
<1> HIDE DEF rs, t
<1>7. /\ rs \in Lists /\ Apart(rs) /\ t \in Thread /\ Contains(queues[EventQ], t)
      /\ Absent(rs, t)
      /\ \A p \in Queues : \A u \in Thread :
           Contains(rs[p], u) <=> Contains(queues[p], u) /\ u # t
  BY <1>3, <1>4, <1>6, DequeueFact
<1>8. QED BY <1>2, <1>3, <1>5, <1>7, WokenStep

(* Detach_Thread of thread t: by itself in Exit, or by its owner in Join. *)
OwnDetach(t) ==
  /\ t = current /\ pc[current] = "exit" /\ pc' = [pc EXCEPT ![current] = "gone"]
  /\ UNCHANGED <<held, arg>>

OwnerDetach(t) ==
  /\ t # current /\ current \in Workers /\ pc[current] \in {"body", "join"}
  /\ owner[t] = current /\ held[t] = "owned" /\ ~alive[t]
  /\ pc' = [pc EXCEPT ![current] = "body"]
  /\ held' = [held EXCEPT ![t] = "none"]
  /\ arg' = [arg EXCEPT ![current] = NoThread]

(* Dropping a reference, in Exit or in Join, preserves the invariant. *)
LEMMA DetachStep ==
  ASSUME IInv, NEW t \in Workers, Detach(t), OwnDetach(t) \/ OwnerDetach(t),
         UNCHANGED <<current, level, blocked, numTicks, alive, owner, policyVars, irqVars>>,
         waking = NoQueue, ~inIRQ
  PROVE  IInv'
<1>1. /\ UNCHANGED <<current, level, blocked, numTicks, alive, owner, maxLevel, quantum,
                     needReschedule, preemptionDisabled, inIRQ>>
  BY DEF policyVars, irqVars
<1>2. /\ current \in Thread /\ t \in Thread /\ pc \in [Thread -> PC] /\ held \in [Thread -> RefStates]
      /\ arg \in [Thread -> Workers \cup {NoThread}] /\ refCount \in [Thread -> 0 .. 2]
      /\ queues \in Lists /\ Apart(queues)
  BY ApartQueues DEF IInv, TypeOK, Lists, Thread
<1>3. \A u \in Thread : /\ FreshAt(u) /\ GraveAt(u) /\ BlockedAt(u) /\ ReadyAt(u)
                       /\ LevelAt(u) /\ WaiterAt(u) /\ RefAt(u) /\ CodeAt(u)
  BY DEF IInv, WhereInv, RefInv, CodeInv
<1>4. refCount[t] \in {1, 2}
  BY <1>2, <1>3 DEF RefAt, OwnDetach, OwnerDetach
<1>5. /\ refCount' = [refCount EXCEPT ![t] = @ - 1] /\ panic' = panic
      /\ refCount[t] = 1 => queues' = Enqueue(queues, Grave, t) /\ WakeUp(ReaperQ, queues)
      /\ refCount[t] = 2 => UNCHANGED <<queues, waking>>
  BY <1>4 DEF Detach
<1>6. /\ refCount'[t] = refCount[t] - 1
      /\ \A u \in Thread : u # t => refCount'[u] = refCount[u]
      /\ refCount' \in [Thread -> 0 .. 2]
  BY <1>2, <1>4, <1>5
<1>7. /\ \A u \in Thread : u # current => pc'[u] = pc[u] /\ arg'[u] = arg[u]
      /\ \A u \in Thread : u # t => held'[u] = held[u]
      /\ pc'[current] \in {"body", "gone"} /\ pc[current] \in {"exit", "body", "join"}
      /\ pc' \in [Thread -> PC] /\ held' \in [Thread -> RefStates]
      /\ arg' \in [Thread -> Workers \cup {NoThread}]
  BY <1>2 DEF OwnDetach, OwnerDetach, PC, OpenPC, RefStates
<1>8. refCount[t] = 1 => /\ Absent(queues, t)
                         /\ pc'[t] \in {"gone", "zombie"} /\ ~blocked[t]
  <2>1. SUFFICES ASSUME refCount[t] = 1
                 PROVE  Absent(queues, t) /\ pc'[t] \in {"gone", "zombie"} /\ ~blocked[t]
    OBVIOUS
  <2>2. CASE OwnDetach(t)
    <3>1. Unlinked(t) /\ ~blocked[t]
      BY <2>2 DEF OwnDetach, IInv, WhereInv, CurrentInv
    <3>2. pc'[t] = "gone"
      BY <1>2, <2>2 DEF OwnDetach
    <3>3. QED BY <3>1, <3>2 DEF Unlinked, Absent
  <2>3. CASE OwnerDetach(t)
    <3>1. pc[t] = "zombie" /\ pc'[t] = "zombie" /\ t # current
      BY <1>2, <1>3, <1>7, <2>1, <2>3 DEF OwnerDetach, RefAt, CodeAt
    <3>a. GraveAt(t) /\ ReadyAt(t)
      BY <1>2, <1>3
    <3>2. ~Contains(queues[Grave], t) /\ ~Contains(queues[Taken], t)
      BY <2>1, <3>a DEF GraveAt
    <3>3. ~On(t, RunQs)
      BY <3>1, <3>a DEF ReadyAt, Live
    <3>4. ~On(t, WaitQs)
      BY <1>2, <1>3, <3>1, QueueIds DEF WaiterAt, On, WaitQs
    <3>5. Absent(queues, t)
      BY <3>2, <3>3, <3>4 DEF On, Absent, Queues
    <3>6. QED BY <1>2, <1>3, <3>1, <3>4, <3>5 DEF BlockedAt
  <2>4. QED BY <2>2, <2>3
<1>9. /\ queues' \in Lists /\ LinkExclusive'
      /\ \A p \in Queues : \A u \in Thread : Contains(queues'[p], u)
           <=> Contains(queues[p], u) \/ (refCount[t] = 1 /\ p = Grave /\ u = t)
  <2>1. CASE refCount[t] = 1
    <3>1. Grave \in Queues /\ t \in Thread /\ queues \in Lists /\ Apart(queues)
      BY <1>2, QueueIds
    <3>2. queues' = Enqueue(queues, Grave, t) /\ Absent(queues, t)
      BY <1>5, <1>8, <2>1
    <3>3. /\ queues' \in Lists /\ Apart(queues')
          /\ \A p \in Queues : \A u : Contains(queues'[p], u)
                                       <=> Contains(queues[p], u) \/ (p = Grave /\ u = t)
      BY <3>1, <3>2, EnqueueFact
    <3>4. QED BY <2>1, <3>3, ApartQueuesNext
  <2>2. CASE refCount[t] = 2
    BY <1>2, <1>5, <2>2 DEF IInv, LinkExclusive
  <2>3. QED BY <1>4, <2>1, <2>2
<1>10. \A p \in RunQs \cup WaitQs : /\ p \in Queues /\ p # Grave
  BY QueueIds
<1>11. /\ \A p \in RunQs \cup WaitQs : \A u \in Thread :
            Contains(queues'[p], u) <=> Contains(queues[p], u)
       /\ Taken \in Queues /\ Taken # Grave /\ Grave \in Queues
  BY <1>9, <1>10, QueueIds
<1>12. /\ waking' \in {NoQueue, ReaperQ}
       /\ waking' # NoQueue => queues[waking'] # << >>
  BY <1>4, <1>5 DEF WakeUp
<1>13. TypeOK'
  <2>1. panic' \in BOOLEAN /\ waking' \in {NoQueue, EventQ, ReaperQ} \cup {JoinQ(c) : c \in Workers}
    BY <1>5, <1>12 DEF IInv, TypeOK
  <2>2. QED BY <1>1, <1>6, <1>7, <1>9, <2>1 DEF IInv, TypeOK, Lists
<1>14. ASSUME NEW u \in Thread
       PROVE  FreshAt(u)' /\ GraveAt(u)' /\ BlockedAt(u)' /\ ReadyAt(u)'
  <2>1. /\ On(u, WaitQs)' <=> On(u, WaitQs)
        /\ On(u, RunQs)' <=> On(u, RunQs)
    BY <1>11 DEF On
  <2>2. BlockedAt(u)'
    BY <1>1, <1>3, <2>1 DEF BlockedAt
  <2>3. Live(u)' <=> Live(u)
    BY <1>7 DEF Live
  <2>4. ReadyAt(u)'
    BY <1>1, <1>3, <2>1, <2>3 DEF ReadyAt
  <2>5. pc'[u] \in {"none", "new"} => pc[u] \in {"none", "new"} /\ u # current
    BY <1>7
  <2>6. FreshAt(u)'
    <3>1. pc'[u] \in {"none", "new"} => u # t \/ refCount[t] # 1
      BY <1>8
    <3>2. QED BY <1>1, <1>3, <1>9, <2>5, <3>1 DEF FreshAt, Unlinked
  <2>7. GraveAt(u)'
    <3>1. CASE u = t
      <4>1. ~Contains(queues[Grave], t) /\ ~Contains(queues[Taken], t)
        BY <1>3, <1>4, <1>2 DEF GraveAt
      <4>2. QED BY <1>2, <1>4, <1>6, <1>8, <1>9, <1>11, <3>1, <4>1 DEF GraveAt
    <3>2. CASE u # t
      <4>1. refCount'[u] = refCount[u]
        BY <1>6, <3>2
      <4>2. pc'[u] \in {"gone", "zombie"} <=> pc[u] \in {"gone", "zombie"}
        BY <1>2, <1>7, <3>2 DEF OwnDetach, OwnerDetach
      <4>3. QED BY <1>3, <1>9, <1>11, <3>2, <4>1, <4>2 DEF GraveAt
    <3>3. QED BY <3>1, <3>2
  <2>8. QED BY <2>2, <2>4, <2>6, <2>7
<1>15. ASSUME NEW u \in Thread PROVE LevelAt(u)' /\ WaiterAt(u)'
  <2>1. LevelAt(u)'
    BY <1>1, <1>3, <1>11, QueueIds DEF LevelAt
  <2>2. CASE u = current
    <3>1. ~On(u, WaitQs)
      BY <1>3, <2>2 DEF IInv, WhereInv, CurrentInv, BlockedAt
    <3>2. WaiterAt(u)'
      BY <1>11, <3>1, QueueIds DEF On, WaiterAt
    <3>3. QED BY <2>1, <3>2
  <2>3. CASE u # current
    <3>1. pc'[u] = pc[u] /\ arg'[u] = arg[u] /\ WaiterAt(u)
      BY <1>3, <1>7, <2>3
    <3>2. \A c \in Thread : waking # JoinQ(c)
      BY QueueIds
    <3>3. \A c \in Thread : pc[c] = "destructor" => pc'[c] = "destructor"
      BY <1>7
    <3>4. WaiterAt(u)'
      BY <1>1, <1>11, <3>1, <3>2, <3>3, QueueIds DEF WaiterAt
    <3>5. QED BY <2>1, <3>4
  <2>4. QED BY <2>2, <2>3
<1>16. CurrentInv'
  <2>1. CurrentInv /\ pc[current] # "gone"
    BY <1>7 DEF IInv, WhereInv
  <2>2. pc'[current] # "gone" => t # current
    BY <1>2 DEF OwnDetach, OwnerDetach
  <2>3. QED BY <1>1, <1>2, <1>9, <1>11, <2>1, <2>2 DEF CurrentInv, Unlinked
<1>17. WhereInv'
  BY <1>14, <1>15, <1>16 DEF WhereInv
<1>18. CodeInv'
  <2>1. Roles /\ OneStarter
    BY DEF IInv, CodeInv
  <2>2. Roles'
    <3>1. current \in Workers
      BY DEF OwnDetach, OwnerDetach
    <3>2. QED BY <1>1, <1>7, <2>1, <3>1, ThreadAssumption DEF Roles, Thread
  <2>3. ASSUME NEW u \in Thread PROVE CodeAt(u)'
    <3>1. CodeAt(u) /\ owner' = owner /\ alive' = alive
      BY <1>1, <1>3
    <3>2. CASE u = current
      <4>1. /\ pc'[u] = "gone" => pc[u] = "exit"
            /\ pc'[u] = "body" => pc[u] \in {"body", "join"}
        BY <1>2, <3>2 DEF OwnDetach, OwnerDetach
      <4>2. QED BY <1>1, <1>7, <3>1, <3>2, <4>1 DEF CodeAt
    <3>3. CASE u # current
      <4>1. pc'[u] = pc[u] /\ arg'[u] = arg[u]
        BY <1>7, <3>3
      <4>2. pc[u] = "start" => arg[u] \in Workers /\ pc'[arg[u]] = "new"
        BY <1>7, <3>1 DEF CodeAt, Thread
      <4>3. pc[u] = "join" => arg[u] # t \/ held' = held
        <5>1. CASE OwnDetach(t)
          BY <5>1 DEF OwnDetach
        <5>2. CASE OwnerDetach(t)
          <6>1. owner[t] = current
            BY <5>2 DEF OwnerDetach
          <6>2. QED BY <3>1, <3>3, <6>1 DEF CodeAt
        <5>3. QED BY <5>1, <5>2
      <4>4. QED BY <1>1, <1>7, <3>1, <4>1, <4>2, <4>3 DEF CodeAt, Thread
    <3>4. QED BY <3>2, <3>3
  <2>4. OneStarter'
    BY <1>7, <2>1 DEF OneStarter
  <2>5. QED BY <2>2, <2>3, <2>4 DEF CodeInv
<1>19. RefInv'
  <2>1. ASSUME NEW u \in Thread PROVE RefAt(u)'
    <3>1. RefAt(u)
      BY <1>3
    <3>2. CASE OwnDetach(t)
      <4>1. held' = held /\ pc[t] = "exit" /\ pc'[t] = "gone" /\ \A v \in Thread : v # t => pc'[v] = pc[v]
        BY <1>2, <3>2 DEF OwnDetach
      <4>2. CASE u = t
        BY <1>4, <1>6, <3>1, <4>1, <4>2 DEF RefAt
      <4>3. CASE u # t
        BY <1>6, <3>1, <4>1, <4>3 DEF RefAt
      <4>4. QED BY <4>2, <4>3
    <3>3. CASE OwnerDetach(t)
      <4>1. /\ t # current /\ pc'[t] = pc[t] /\ held[t] = "owned" /\ held'[t] = "none"
            /\ pc'[current] = "body" /\ pc[current] \in {"body", "join"}
        BY <1>2, <3>3 DEF OwnerDetach
      <4>2. CASE u = t
        BY <1>4, <1>6, <3>1, <4>1, <4>2 DEF RefAt
      <4>3. CASE u = current
        BY <1>6, <1>7, <3>1, <4>1, <4>3 DEF RefAt
      <4>4. CASE u # t /\ u # current
        <5>1. pc'[u] = pc[u] /\ held'[u] = held[u] /\ refCount'[u] = refCount[u]
          BY <1>6, <1>7, <4>4
        <5>2. QED BY <3>1, <5>1 DEF RefAt
      <4>5. QED BY <4>2, <4>3, <4>4
    <3>4. QED BY <3>2, <3>3
  <2>2. QED BY <2>1 DEF RefInv
<1>20. WakeInv'
  <2>1. WakeInv
    BY DEF IInv
  <2>2. /\ ReaperQ \in Queues /\ ReaperQ \in WaitQs /\ ReaperQ # Taken
        /\ \A c \in Thread : JoinQ(c) # ReaperQ /\ JoinQ(c) # NoQueue
    BY QueueIds
  <2>3. /\ queues'[Taken] = << >> <=> queues[Taken] = << >>
        /\ queues'[ReaperQ] = << >> <=> queues[ReaperQ] = << >>
    BY <1>2, <1>9, <1>11, <2>2, SameEmpty
  <2>4. pc'[Reaper] = pc[Reaper]
    <3>1. current \in Workers
      BY DEF OwnDetach, OwnerDetach
    <3>2. QED BY <1>7, <3>1, ThreadAssumption DEF Thread
  <2>5. QED BY <1>12, <2>1, <2>2, <2>3, <2>4 DEF WakeInv
<1>21. CriticalIsWorker' /\ NoPanic'
  <2>1. preemptionDisabled => pc'[current] = "body" /\ current \in Workers
    <3>1. preemptionDisabled => pc[current] # "exit" /\ current \in Workers
      BY DEF IInv, CriticalIsWorker
    <3>2. QED BY <1>2, <3>1 DEF OwnDetach, OwnerDetach
  <2>2. QED BY <1>1, <1>5, <2>1 DEF CriticalIsWorker, NoPanic, IInv
<1>22. QED BY <1>9, <1>13, <1>17, <1>18, <1>19, <1>20, <1>21 DEF IInv

(* Join's loop preserves the invariant, entered or resumed. *)
LEMMA JoinLoopStep ==
  ASSUME IInv, NEW t \in Workers, current \in Workers, pc[current] \in {"body", "join"},
         waking = NoQueue, ~inIRQ, ~preemptionDisabled,
         owner[t] = current, held[t] = "owned",
         JoinLoop(t), UNCHANGED <<policyVars, irqVars>>
  PROVE  IInv'
<1>1. inIRQ = FALSE /\ preemptionDisabled = FALSE
  BY DEF IInv, TypeOK
<1>2. CASE alive[t]
  BY <1>1, <1>2, JoinWaitStep
<1>3. CASE ~alive[t]
  <2>1. /\ Detach(t) /\ held' = [held EXCEPT ![t] = "none"]
        /\ pc' = [pc EXCEPT ![current] = "body"] /\ arg' = [arg EXCEPT ![current] = NoThread]
        /\ UNCHANGED <<current, level, blocked, numTicks, alive, owner>>
    BY <1>3 DEF JoinLoop
  <2>2. t # current
    <3>1. alive[current]
      BY DEF IInv, TypeOK, CodeInv, CodeAt
    <3>2. QED BY <1>3, <3>1
  <2>3. OwnerDetach(t)
    BY <1>3, <2>1, <2>2 DEF OwnerDetach
  <2>4. UNCHANGED <<current, level, blocked, numTicks, alive, owner, policyVars, irqVars>>
    BY <2>1
  <2>5. QED BY <2>1, <2>3, <2>4, DetachStep
<1>4. QED BY <1>2, <1>3

(* Processes wait only for children they still have a reference to. *)
LEMMA JoinStep ==
  ASSUME IInv, Waitable \subseteq {"owned"}, NEW t \in Workers, Join(t)
  PROVE  IInv'
<1>1. /\ current \in Workers /\ pc[current] = "body" /\ waking = NoQueue /\ ~inIRQ
      /\ ~preemptionDisabled /\ owner[t] = current /\ held[t] = "owned"
      /\ JoinLoop(t) /\ UNCHANGED <<policyVars, irqVars>>
  BY DEF Join, WorkerAt, Running
<1>2. QED BY <1>1, JoinLoopStep

(* JoinResume preserves the invariant. *)
LEMMA JoinResumeStep ==
  ASSUME IInv, JoinResume
  PROVE  IInv'
<1>1. /\ current \in Workers /\ pc[current] = "join" /\ waking = NoQueue /\ ~inIRQ
      /\ JoinLoop(arg[current]) /\ UNCHANGED <<policyVars, irqVars>>
  BY DEF JoinResume, WorkerAt, Running
<1>2. /\ arg[current] \in Workers /\ owner[arg[current]] = current
      /\ held[arg[current]] = "owned"
  BY <1>1 DEF IInv, CodeInv, CodeAt, Thread
<1>3. ~preemptionDisabled
  BY <1>1 DEF IInv, CriticalIsWorker
<1>4. QED BY <1>1, <1>2, <1>3, JoinLoopStep

(* ExitDetach preserves the invariant. *)
LEMMA ExitDetachStep ==
  ASSUME IInv, ExitDetach
  PROVE  IInv'
<1>1. /\ current \in Workers /\ pc[current] = "exit" /\ waking = NoQueue /\ ~inIRQ
      /\ Detach(current) /\ pc' = [pc EXCEPT ![current] = "gone"]
      /\ UNCHANGED <<held, arg>>
      /\ UNCHANGED <<current, level, blocked, numTicks, alive, owner, policyVars, irqVars>>
  BY DEF ExitDetach, WorkerAt, Running, Goto
<1>2. OwnDetach(current)
  BY <1>1 DEF OwnDetach
<1>3. QED BY <1>1, <1>2, DetachStep

(* ExitSchedule preserves the invariant. *)
LEMMA ExitScheduleStep ==
  ASSUME IInv, ExitSchedule
  PROVE  IInv'
<1>1. /\ current \in Workers /\ pc[current] = "gone" /\ waking = NoQueue /\ ~inIRQ
      /\ SwitchFrom(queues) /\ pc' = [pc EXCEPT ![current] = "zombie"]
      /\ UNCHANGED <<level, blocked, alive, refCount, owner, held, arg, maxLevel, quantum,
                     needReschedule, preemptionDisabled, inIRQ, waking, panic>>
  BY DEF ExitSchedule, WorkerAt, Running, Goto, objectVars, policyVars, irqVars
<1>2. /\ current \in Thread /\ queues \in Lists /\ Apart(queues) /\ maxLevel \in {1, MLFLevels}
      /\ pc \in [Thread -> PC]
  BY ApartQueues DEF IInv, TypeOK, Lists
<1>3. /\ current' \in Thread /\ queues' \in Lists /\ Apart(queues') /\ numTicks' = 0
      /\ \E i \in Levels : i < maxLevel /\ Contains(queues[RunQ(i)], current')
      /\ Absent(queues', current')
      /\ \A p \in Queues : \A u \in Thread :
           Contains(queues'[p], u) <=> Contains(queues[p], u) /\ u # current'
  BY <1>1, <1>2, SwitchFact
<1>4. LinkExclusive'
  BY <1>3, ApartQueuesNext
<1>5. \A u \in Thread : /\ FreshAt(u) /\ GraveAt(u) /\ BlockedAt(u) /\ ReadyAt(u)
                       /\ LevelAt(u) /\ WaiterAt(u) /\ RefAt(u) /\ CodeAt(u)
  BY DEF IInv, WhereInv, RefInv, CodeInv
<1>6. /\ On(current', RunQs) /\ Live(current') /\ current' # current /\ ~blocked[current']
  <2>1. On(current', RunQs)
    BY <1>3, QueueIds DEF On
  <2>2. ReadyAt(current')
    BY <1>3, <1>5
  <2>3. QED BY <2>1, <2>2 DEF ReadyAt
<1>7. pc[current'] \notin {"none", "new", "zombie", "exit", "gone"}
  BY <1>3, <1>5, <1>6 DEF Live, CodeAt
<1>8. /\ pc'[current] = "zombie" /\ \A u \in Thread : u # current => pc'[u] = pc[u]
      /\ pc' \in [Thread -> PC]
  BY <1>1, <1>2 DEF PC
<1>9. /\ \A p \in RunQs \cup WaitQs : p \in Queues
      /\ Grave \in Queues /\ Taken \in Queues
  BY QueueIds
<1>10. \A p \in Queues : p \notin RunQs => ~Contains(queues[p], current')
  BY <1>3, QueueIds DEF IInv, LinkExclusive
<1>11. ASSUME NEW u \in Thread
       PROVE  FreshAt(u)' /\ GraveAt(u)' /\ BlockedAt(u)' /\ ReadyAt(u)'
  <2>1. FreshAt(u) /\ GraveAt(u) /\ BlockedAt(u) /\ ReadyAt(u)
    BY <1>5
  <2>2. FreshAt(u)'
    BY <1>1, <1>3, <1>8, <2>1 DEF FreshAt, Unlinked
  <2>3. GraveAt(u)'
    <3>1. /\ Contains(queues'[Grave], u) <=> Contains(queues[Grave], u)
          /\ Contains(queues'[Taken], u) <=> Contains(queues[Taken], u)
      BY <1>3, <1>9, <1>10, QueueIds
    <3>2. pc'[u] \in {"gone", "zombie"} <=> pc[u] \in {"gone", "zombie"}
      BY <1>1, <1>8
    <3>3. QED BY <1>1, <2>1, <3>1, <3>2 DEF GraveAt
  <2>4. BlockedAt(u)'
    <3>1. On(u, WaitQs)' <=> On(u, WaitQs)
      BY <1>3, <1>9, <1>10, QueueIds DEF On
    <3>2. QED BY <1>1, <2>1, <3>1 DEF BlockedAt
  <2>5. ReadyAt(u)'
    <3>1. On(u, RunQs)' <=> On(u, RunQs) /\ u # current'
      BY <1>3, <1>9 DEF On
    <3>2. Live(u)' <=> Live(u) /\ u # current
      BY <1>1, <1>8 DEF Live
    <3>3. QED BY <1>1, <2>1, <3>1, <3>2 DEF ReadyAt
  <2>6. QED BY <2>2, <2>3, <2>4, <2>5
<1>12. ASSUME NEW u \in Thread PROVE LevelAt(u)' /\ WaiterAt(u)'
  <2>1. LevelAt(u) /\ WaiterAt(u) /\ CodeAt(u)
    BY <1>5
  <2>2. LevelAt(u)'
    BY <1>1, <1>3, <2>1, QueueIds DEF LevelAt
  <2>3. u = current => ~On(u, WaitQs)
    BY <1>1, <2>1, QueueIds DEF WaiterAt, On, WaitQs
  <2>4. CASE u = current
    BY <1>3, <2>2, <2>3, <2>4, QueueIds DEF On, WaiterAt
  <2>5. CASE u # current
    <3>1. pc'[u] = pc[u] /\ \A c \in Thread : pc[c] = "destructor" => pc'[c] = "destructor"
      BY <1>1, <1>8, <2>5
    <3>2. WaiterAt(u)'
      BY <1>1, <1>3, <2>1, <3>1, QueueIds DEF WaiterAt
    <3>3. QED BY <2>2, <3>2
  <2>6. QED BY <2>2, <2>4, <2>5
<1>13. CurrentInv'
  BY <1>1, <1>3, <1>6, <1>9 DEF CurrentInv, Unlinked, Absent
<1>14. WhereInv'
  BY <1>11, <1>12, <1>13 DEF WhereInv
<1>15. TypeOK'
  BY <1>1, <1>3, <1>8, ThreadAssumption DEF IInv, TypeOK, Lists
<1>16. CodeInv'
  <2>1. Roles /\ OneStarter
    BY DEF IInv, CodeInv
  <2>2. Roles'
    BY <1>1, <1>3, <1>6, <1>7, <1>8, <2>1, ThreadAssumption DEF Roles, Thread
  <2>3. ASSUME NEW u \in Thread PROVE CodeAt(u)'
    <3>1. CASE u = current
      BY <1>1, <1>2, <1>5, <1>8, <3>1 DEF CodeAt
    <3>2. CASE u # current
      BY <1>1, <1>2, <1>5, <1>8, <3>2 DEF CodeAt, Thread
    <3>3. QED BY <3>1, <3>2
  <2>4. OneStarter'
    BY <1>1, <1>8, <2>1 DEF OneStarter
  <2>5. QED BY <2>2, <2>3, <2>4 DEF CodeInv
<1>17. RefInv'
  <2>1. ASSUME NEW u \in Thread PROVE RefAt(u)'
    BY <1>1, <1>5, <1>8 DEF RefAt
  <2>2. QED BY <2>1 DEF RefInv
<1>18. WakeInv'
  <2>1. \A u \in Thread : Contains(queues'[Taken], u) <=> Contains(queues[Taken], u)
    BY <1>3, <1>9, <1>10, QueueIds
  <2>2. queues'[Taken] = << >> <=> queues[Taken] = << >>
    BY <1>2, <1>3, <1>9, <2>1, SameEmpty
  <2>3. pc'[Reaper] = pc[Reaper]
    BY <1>1, <1>8, ThreadAssumption DEF Thread
  <2>4. QED BY <1>1, <2>2, <2>3, QueueIds DEF IInv, WakeInv
<1>19. CriticalIsWorker' /\ NoPanic'
  BY <1>1 DEF CriticalIsWorker, NoPanic, IInv
<1>20. QED BY <1>4, <1>14, <1>15, <1>16, <1>17, <1>18, <1>19 DEF IInv

(* The reaper takes the whole graveyard. *)
LEMMA ReaperTakeStep ==
  ASSUME IInv, ReaperCheck, queues[Grave] # << >>
  PROVE  IInv'
<1>1. /\ current = Reaper /\ pc[current] = "check" /\ waking = NoQueue /\ ~inIRQ
      /\ queues' = [queues EXCEPT ![Taken] = queues[Grave], ![Grave] = << >>]
      /\ pc' = [pc EXCEPT ![current] = "taken"]
      /\ UNCHANGED <<current, level, blocked, numTicks, alive, refCount, owner, held, arg, maxLevel,
                     quantum, needReschedule, preemptionDisabled, inIRQ, waking, panic>>
  BY DEF ReaperCheck, Running, Goto, objectVars, policyVars, irqVars
<1>2. /\ current \in Thread /\ queues \in Lists /\ pc \in [Thread -> PC]
      /\ queues[Taken] = << >>
  BY <1>1 DEF IInv, TypeOK, Lists, WakeInv
<1>3. /\ Grave \in Queues /\ Taken \in Queues /\ Grave # Taken
      /\ \A p \in RunQs \cup WaitQs : p \in Queues /\ p # Grave /\ p # Taken
      /\ \A p \in Queues : p \in RunQs \cup WaitQs \/ p = Grave \/ p = Taken
  BY QueueIds DEF Queues
<1>4. /\ queues'[Taken] = queues[Grave] /\ queues'[Grave] = << >>
      /\ \A p \in Queues : p # Grave /\ p # Taken => queues'[p] = queues[p]
      /\ queues' \in Lists
  <2>1. queues[Grave] \in Seq(Thread) /\ << >> \in Seq(Thread)
    BY <1>2, <1>3 DEF Lists
  <2>2. QED BY <1>1, <1>2, <1>3, <2>1 DEF Lists
<1>5. /\ \A u : ~Contains(queues'[Grave], u) /\ ~Contains(queues[Taken], u)
      /\ IsInjective(queues'[Grave])
  BY <1>2, <1>4 DEF Contains, IsInjective
<1>6. LinkExclusive'
  BY <1>3, <1>4, <1>5 DEF IInv, LinkExclusive
<1>7. /\ pc'[current] = "taken" /\ \A u \in Thread : u # current => pc'[u] = pc[u]
      /\ pc' \in [Thread -> PC]
  BY <1>1, <1>2 DEF PC, OpenPC
<1>8. Absent(queues, current)
  BY <1>1 DEF IInv, WhereInv, CurrentInv, Unlinked, Absent
<1>9. \A u \in Thread : /\ FreshAt(u) /\ GraveAt(u) /\ BlockedAt(u) /\ ReadyAt(u)
                       /\ LevelAt(u) /\ WaiterAt(u) /\ RefAt(u) /\ CodeAt(u)
  BY DEF IInv, WhereInv, RefInv, CodeInv
<1>10. ASSUME NEW u \in Thread
       PROVE  FreshAt(u)' /\ GraveAt(u)' /\ BlockedAt(u)' /\ ReadyAt(u)'
  <2>1. FreshAt(u) /\ GraveAt(u) /\ BlockedAt(u) /\ ReadyAt(u)
    BY <1>9
  <2>2. FreshAt(u)'
    BY <1>1, <1>3, <1>4, <1>5, <1>7, <2>1 DEF FreshAt, Unlinked
  <2>3. GraveAt(u)'
    BY <1>1, <1>4, <1>5, <1>7, <2>1 DEF GraveAt
  <2>4. BlockedAt(u)'
    BY <1>1, <1>3, <1>4, <2>1 DEF BlockedAt, On
  <2>5. On(u, RunQs)' <=> On(u, RunQs)
    BY <1>3, <1>4 DEF On
  <2>6. ReadyAt(u)'
    BY <1>1, <1>7, <2>1, <2>5 DEF ReadyAt, Live
  <2>7. QED BY <2>2, <2>3, <2>4, <2>6
<1>11. ASSUME NEW u \in Thread PROVE LevelAt(u)' /\ WaiterAt(u)'
  <2>1. LevelAt(u) /\ WaiterAt(u)
    BY <1>9
  <2>2. LevelAt(u)'
    BY <1>1, <1>3, <1>4, <2>1, QueueIds DEF LevelAt
  <2>3. CASE u = current
    <3>1. WaiterAt(u)'
      BY <1>3, <1>4, <1>8, <2>3, QueueIds DEF WaiterAt, Absent
    <3>2. QED BY <2>2, <3>1
  <2>4. CASE u # current
    <3>1. pc'[u] = pc[u] /\ \A c \in Thread : pc[c] = "destructor" => pc'[c] = "destructor"
      BY <1>1, <1>7, <2>4
    <3>2. WaiterAt(u)'
      BY <1>1, <1>3, <1>4, <2>1, <3>1, QueueIds DEF WaiterAt
    <3>3. QED BY <2>2, <3>2
  <2>5. QED BY <2>3, <2>4
<1>12. CurrentInv'
  BY <1>1, <1>2, <1>3, <1>4, <1>5, <1>8 DEF CurrentInv, Unlinked, Absent, IInv, WhereInv
<1>13. WhereInv'
  BY <1>10, <1>11, <1>12 DEF WhereInv
<1>14. TypeOK'
  BY <1>1, <1>4, <1>7 DEF IInv, TypeOK, Lists
<1>15. CodeInv'
  <2>1. Roles /\ OneStarter
    BY DEF IInv, CodeInv
  <2>2. Roles'
    BY <1>1, <1>7, <2>1, ThreadAssumption DEF Roles, Thread
  <2>3. ASSUME NEW u \in Thread PROVE CodeAt(u)'
    BY <1>1, <1>2, <1>7, <1>9 DEF CodeAt, Thread
  <2>4. OneStarter'
    BY <1>1, <1>7, <2>1 DEF OneStarter
  <2>5. QED BY <2>2, <2>3, <2>4 DEF CodeInv
<1>16. RefInv'
  <2>1. ASSUME NEW u \in Thread PROVE RefAt(u)'
    BY <1>1, <1>7, <1>9 DEF RefAt
  <2>2. QED BY <2>1 DEF RefInv
<1>17. WakeInv'
  BY <1>1, <1>4, <1>7, QueueIds DEF WakeInv
<1>18. CriticalIsWorker' /\ NoPanic'
  BY <1>1, ThreadAssumption DEF CriticalIsWorker, NoPanic, IInv
<1>19. QED BY <1>6, <1>13, <1>14, <1>15, <1>16, <1>17, <1>18 DEF IInv

(* ReaperCheck preserves the invariant. *)
LEMMA ReaperCheckStep ==
  ASSUME IInv, ReaperCheck
  PROVE  IInv'
  BY ReaperTakeStep, ReaperWaitStep

(* ReaperDispose preserves the invariant. *)
LEMMA ReaperDisposeStep ==
  ASSUME IInv, ReaperDispose
  PROVE  IInv'
<1> DEFINE t == Head(queues[Taken])
<1>1. /\ current = Reaper /\ pc[current] = "dispose" /\ waking = NoQueue /\ ~inIRQ
      /\ queues' = Pop(queues, Taken)
      /\ pc' = [pc EXCEPT ![t] = "none",
                          ![Reaper] = IF Len(queues[Taken]) = 1 THEN "check" ELSE "dispose"]
      /\ owner' = [owner EXCEPT ![t] = NoThread]
      /\ level' = [level EXCEPT ![t] = 0]
      /\ blocked' = [blocked EXCEPT ![t] = FALSE]
      /\ UNCHANGED <<current, numTicks, alive, refCount, held, arg, maxLevel,
                     quantum, needReschedule, preemptionDisabled, inIRQ, waking, panic>>
  BY DEF ReaperDispose, Running, policyVars, irqVars
<1>2. /\ current \in Thread /\ queues \in Lists /\ Apart(queues) /\ pc \in [Thread -> PC]
      /\ owner \in [Thread -> Workers \cup {NoThread}] /\ level \in [Thread -> Levels]
      /\ blocked \in [Thread -> BOOLEAN] /\ 0 \in Levels
      /\ queues[Taken] # << >> /\ Taken \in Queues
  BY <1>1, ApartQueues, QueueIds DEF IInv, TypeOK, Lists, WakeInv, Levels, MLFLevels
<1>3. t = Head(queues[Taken])
  OBVIOUS
<1> HIDE DEF t
<1>4. /\ queues' \in Lists /\ Apart(queues')
      /\ t \in Thread /\ Contains(queues[Taken], t)
      /\ Absent(queues', t)
      /\ Len(queues[Taken]) = 1 <=> queues'[Taken] = << >>
      /\ \A p \in Queues : \A u \in Thread :
           Contains(queues'[p], u) <=> Contains(queues[p], u) /\ u # t
  BY <1>1, <1>2, <1>3, PopFact
<1>5. LinkExclusive'
  BY <1>4, ApartQueuesNext
<1>6. \A u \in Thread : /\ FreshAt(u) /\ GraveAt(u) /\ BlockedAt(u) /\ ReadyAt(u)
                       /\ LevelAt(u) /\ WaiterAt(u) /\ RefAt(u) /\ CodeAt(u)
  BY DEF IInv, WhereInv, RefInv, CodeInv
<1>7. /\ t # current /\ pc[t] = "zombie" /\ refCount[t] = 0 /\ held[t] = "none" /\ t \in Workers
  <2>1. t # current
    BY <1>4 DEF IInv, WhereInv, CurrentInv
  <2>2. GraveAt(t) /\ RefAt(t) /\ CodeAt(t)
    BY <1>4, <1>6
  <2>3. pc[t] = "zombie" /\ refCount[t] = 0
    BY <1>4, <2>1, <2>2 DEF GraveAt, CodeAt
  <2>4. held[t] = "none"
    BY <2>2, <2>3 DEF RefAt
  <2>5. t \in Workers
    BY <1>4, <2>3 DEF IInv, CodeInv, Roles, Thread
  <2>6. QED BY <2>1, <2>3, <2>4, <2>5
<1>8. /\ pc'[t] = "none" /\ pc'[current] \in {"check", "dispose"}
      /\ pc'[current] = "check" <=> queues'[Taken] = << >>
      /\ \A u \in Thread : u # t /\ u # current => pc'[u] = pc[u]
      /\ pc' \in [Thread -> PC]
  BY <1>1, <1>2, <1>4, <1>7 DEF PC, OpenPC
<1>9. /\ ~blocked'[t]
      /\ \A u \in Thread : u # t => /\ owner'[u] = owner[u] /\ level'[u] = level[u]
                                    /\ blocked'[u] = blocked[u]
      /\ owner' \in [Thread -> Workers \cup {NoThread}] /\ level' \in [Thread -> Levels]
      /\ blocked' \in [Thread -> BOOLEAN]
  BY <1>1, <1>2, <1>4
<1>10. /\ \A p \in RunQs \cup WaitQs : p \in Queues
       /\ Grave \in Queues
  BY QueueIds
<1>11. ASSUME NEW u \in Thread
       PROVE  FreshAt(u)' /\ GraveAt(u)' /\ BlockedAt(u)' /\ ReadyAt(u)'
  <2>1. FreshAt(u) /\ GraveAt(u) /\ BlockedAt(u) /\ ReadyAt(u)
    BY <1>6
  <2>2. CASE u = t
    <3>1. \A p \in Queues : ~Contains(queues'[p], u)
      BY <1>4, <2>2 DEF Absent
    <3>2. FreshAt(u)' /\ GraveAt(u)'
      BY <1>2, <1>8, <1>9, <1>10, <2>2, <3>1 DEF FreshAt, Unlinked, GraveAt
    <3>3. BlockedAt(u)'
      BY <1>9, <1>10, <2>2, <3>1 DEF BlockedAt, On
    <3>4. ReadyAt(u)'
      BY <1>8, <1>10, <2>2, <3>1 DEF ReadyAt, Live, On
    <3>5. QED BY <3>2, <3>3, <3>4
  <2>3. CASE u # t
    <3>1. \A p \in Queues : Contains(queues'[p], u) <=> Contains(queues[p], u)
      BY <1>4, <2>3
    <3>2. /\ pc'[u] \in {"none", "new"} <=> pc[u] \in {"none", "new"}
          /\ pc'[u] \in {"gone", "zombie"} <=> pc[u] \in {"gone", "zombie"}
          /\ pc'[u] = "zombie" <=> pc[u] = "zombie"
      BY <1>1, <1>8, <2>3
    <3>3. FreshAt(u)'
      BY <1>9, <2>1, <2>3, <3>1, <3>2 DEF FreshAt, Unlinked
    <3>4. GraveAt(u)'
      BY <1>1, <1>2, <1>10, <2>1, <3>1, <3>2 DEF GraveAt
    <3>5. BlockedAt(u)'
      BY <1>9, <1>10, <2>1, <2>3, <3>1 DEF BlockedAt, On
    <3>6. On(u, RunQs)' <=> On(u, RunQs)
      BY <1>10, <3>1 DEF On
    <3>7. Live(u)' <=> Live(u)
      BY <3>2 DEF Live
    <3>8. ReadyAt(u)'
      BY <1>1, <1>9, <2>1, <2>3, <3>6, <3>7 DEF ReadyAt
    <3>9. QED BY <3>3, <3>4, <3>5, <3>8
  <2>4. QED BY <2>2, <2>3
<1>12. ASSUME NEW u \in Thread PROVE LevelAt(u)' /\ WaiterAt(u)'
  <2>1. LevelAt(u) /\ WaiterAt(u)
    BY <1>6
  <2>2. CASE u = t
    BY <1>4, <2>2, QueueIds DEF Absent, LevelAt, WaiterAt
  <2>3. CASE u # t
    <3>1. LevelAt(u)'
      BY <1>1, <1>4, <1>9, <2>1, <2>3, QueueIds DEF LevelAt
    <3>2. pc[u] \in {"check", "body", "join"} /\ u # current => pc'[u] = pc[u]
      BY <1>8, <2>3
    <3>3. u = current => ~On(u, WaitQs)
      BY <1>6 DEF IInv, WhereInv, CurrentInv, BlockedAt
    <3>4. \A c \in Thread : pc[c] = "destructor" => pc'[c] = "destructor"
      BY <1>1, <1>7, <1>8
    <3>5. CASE u = current
      <4>1. WaiterAt(u)'
        BY <1>4, <3>3, <3>5, QueueIds DEF On, WaiterAt
      <4>2. QED BY <3>1, <4>1
    <3>6. CASE u # current
      <4>1. WaiterAt(u)'
        BY <1>1, <1>4, <1>8, <2>1, <2>3, <3>4, <3>6, QueueIds DEF WaiterAt
      <4>2. QED BY <3>1, <4>1
    <3>7. QED BY <3>5, <3>6
  <2>4. QED BY <2>2, <2>3
<1>13. CurrentInv'
  BY <1>1, <1>2, <1>4, <1>7, <1>9 DEF CurrentInv, Unlinked, IInv, WhereInv
<1>14. WhereInv'
  BY <1>11, <1>12, <1>13 DEF WhereInv
<1>15. TypeOK'
  BY <1>1, <1>4, <1>8, <1>9 DEF IInv, TypeOK, Lists
<1>16. CodeInv'
  <2>1. Roles /\ OneStarter
    BY DEF IInv, CodeInv
  <2>2. Roles'
    BY <1>1, <1>7, <1>8, <2>1, ThreadAssumption DEF Roles, Thread
  <2>3. ASSUME NEW u \in Thread PROVE CodeAt(u)'
    <3>1. CodeAt(u)
      BY <1>6
    <3>2. CASE u = t \/ u = current
      BY <1>1, <1>7, <1>8, <3>1, <3>2 DEF CodeAt
    <3>3. CASE u # t /\ u # current
      <4>1. pc'[u] = pc[u]
        BY <1>8, <3>3
      <4>2. pc[u] = "start" => pc'[arg[u]] = "new"
        BY <1>1, <1>7, <1>8, <3>1 DEF CodeAt, Thread
      <4>3. pc[u] = "join" => arg[u] # t /\ owner'[arg[u]] = owner[arg[u]]
        BY <1>7, <1>9, <3>1 DEF CodeAt, Thread
      <4>4. QED BY <1>1, <3>1, <4>1, <4>2, <4>3 DEF CodeAt
    <3>4. QED BY <3>2, <3>3
  <2>4. OneStarter'
    BY <1>1, <1>8, <2>1 DEF OneStarter
  <2>5. QED BY <2>2, <2>3, <2>4 DEF CodeInv
<1>17. RefInv'
  <2>1. ASSUME NEW u \in Thread PROVE RefAt(u)'
    BY <1>1, <1>6, <1>7, <1>8 DEF RefAt
  <2>2. QED BY <2>1 DEF RefInv
<1>18. WakeInv'
  BY <1>1, <1>8, QueueIds DEF WakeInv
<1>19. CriticalIsWorker' /\ NoPanic'
  BY <1>1, ThreadAssumption DEF CriticalIsWorker, NoPanic, IInv
<1>20. QED BY <1>5, <1>14, <1>15, <1>16, <1>17, <1>18, <1>19 DEF IInv

(* Steps that change neither the objects nor the code nor the lists. *)
LEMMA QuietStep ==
  ASSUME IInv, pc[current] \in OpenPC, waking = NoQueue, TypeOK',
         UNCHANGED <<current, queues, blocked, alive, refCount, owner, held, pc, arg, maxLevel, panic>>,
         \A u \in Thread : u # current => level'[u] = level[u],
         waking' = NoQueue \/ (waking' = EventQ /\ queues[EventQ] # << >>),
         preemptionDisabled' => current \in Workers /\ pc[current] \in {"body", "start"}
  PROVE  IInv'
<1>1. current \in Thread /\ pc \in [Thread -> PC]
  BY DEF IInv, TypeOK
<1>2. pc' = [pc EXCEPT ![current] = pc[current]]
  BY <1>1
<1>3. \A c, u \in Thread : Contains(queues[JoinQ(c)], u) =>
        alive'[c] \/ pc'[c] = "destructor" \/ waking' = JoinQ(c)
  <2>1. \A c \in Thread : JoinQ(c) # NoQueue
    BY QueueIds
  <2>2. QED BY <2>1 DEF IInv, WhereInv, WaiterAt
<1>4. WhereInv'
  BY <1>2, <1>3, FrameStep
<1>5. LinkExclusive'
  BY DEF IInv, LinkExclusive
<1>6. CodeInv'
  BY DEF IInv, CodeInv, Roles, OneStarter, CodeAt
<1>7. RefInv'
  BY DEF IInv, RefInv, RefAt
<1>8. WakeInv'
  BY QueueIds DEF IInv, WakeInv
<1>9. CriticalIsWorker' /\ NoPanic'
  BY DEF CriticalIsWorker, NoPanic, IInv
<1>10. QED BY <1>4, <1>5, <1>6, <1>7, <1>8, <1>9 DEF IInv

(* Timer preserves the invariant. *)
LEMMA TimerStep ==
  ASSUME IInv, TimerInterrupt
  PROVE  IInv'
<1>1. /\ waking = NoQueue /\ pc[current] \in OpenPC /\ inIRQ' = TRUE
      /\ numTicks' = IF numTicks < TickCap THEN numTicks + 1 ELSE numTicks
      /\ UNCHANGED <<current, queues, blocked, alive, refCount, owner, held, pc, arg, maxLevel,
                     quantum, preemptionDisabled, waking, panic>>
  BY DEF TimerInterrupt, InterruptsEnabled, objectVars, codeVars, policyVars
<1>2. /\ needReschedule' = (needReschedule \/ numTicks + 1 >= quantum)
      /\ level' = [level EXCEPT ![current] =
                     IF numTicks + 1 >= quantum /\ @ < maxLevel - 1 THEN @ + 1 ELSE @]
  BY DEF TimerInterrupt
<1>3. /\ current \in Thread /\ level \in [Thread -> 0 .. 3] /\ maxLevel \in {1, 4}
      /\ numTicks \in 0 .. TickCap /\ TickCap \in Nat
  BY ThreadAssumption DEF IInv, TypeOK, Levels, MLFLevels
<1>4. /\ level' \in [Thread -> Levels] /\ \A u \in Thread : u # current => level'[u] = level[u]
      /\ numTicks' \in 0 .. TickCap
  BY <1>1, <1>2, <1>3 DEF Levels, MLFLevels
<1>5. needReschedule' \in BOOLEAN
  BY <1>2
<1>6. TypeOK'
  BY <1>1, <1>4, <1>5 DEF IInv, TypeOK
<1>7. preemptionDisabled' => current \in Workers /\ pc[current] \in {"body", "start"}
  BY <1>1 DEF IInv, CriticalIsWorker
<1>8. QED BY <1>1, <1>4, <1>6, <1>7, QuietStep

(* Device preserves the invariant. *)
LEMMA DeviceStep ==
  ASSUME IInv, DeviceInterrupt
  PROVE  IInv'
<1>1. /\ waking = NoQueue /\ pc[current] \in OpenPC /\ inIRQ' = TRUE /\ needReschedule' = TRUE
      /\ WakeUp(EventQ, queues)
      /\ UNCHANGED <<current, queues, level, blocked, alive, refCount, owner, held, pc, arg, maxLevel,
                     quantum, numTicks, preemptionDisabled, panic>>
  BY DEF DeviceInterrupt, InterruptsEnabled, schedVars, objectVars, codeVars, policyVars
<1>2. waking' = NoQueue \/ (waking' = EventQ /\ queues[EventQ] # << >>)
  BY <1>1 DEF WakeUp
<1>3. TypeOK'
  BY <1>1, <1>2 DEF IInv, TypeOK
<1>4. preemptionDisabled' => current \in Workers /\ pc[current] \in {"body", "start"}
  BY <1>1 DEF IInv, CriticalIsWorker
<1>5. QED BY <1>1, <1>2, <1>3, <1>4, QuietStep

(* InterruptReturn preserves the invariant. *)
LEMMA InterruptReturnStep ==
  ASSUME IInv, InterruptReturn
  PROVE  IInv'
<1>1. CASE needReschedule /\ ~preemptionDisabled
  BY <1>1, PreemptStep
<1>2. CASE ~(needReschedule /\ ~preemptionDisabled)
  <2>1. /\ waking = NoQueue /\ inIRQ /\ inIRQ' = FALSE
        /\ UNCHANGED <<current, queues, level, blocked, alive, refCount, owner, held, pc, arg, maxLevel,
                       quantum, numTicks, needReschedule, preemptionDisabled, waking, panic>>
    BY <1>2 DEF InterruptReturn, schedVars, objectVars, codeVars, policyVars, IInv, TypeOK
  <2>2. pc[current] \in OpenPC
    BY <2>1 DEF IInv, CodeInv, Roles
  <2>3. TypeOK'
    BY <2>1 DEF IInv, TypeOK
  <2>4. preemptionDisabled' => current \in Workers /\ pc[current] \in {"body", "start"}
    BY <2>1 DEF IInv, CriticalIsWorker
  <2>5. QED BY <2>1, <2>2, <2>3, <2>4, QuietStep
<1>3. QED BY <1>1, <1>2

(* WakeAll preserves the invariant. *)
LEMMA WakeAllStep ==
  ASSUME IInv, WakeAll
  PROVE  IInv'
<1>1. /\ waking = NoQueue /\ pc[current] = "body" /\ WakeUp(EventQ, queues)
      /\ UNCHANGED <<current, queues, level, blocked, alive, refCount, owner, held, pc, arg, maxLevel,
                     quantum, numTicks, needReschedule, preemptionDisabled, inIRQ, panic>>
  BY DEF WakeAll, WorkerAt, Running, schedVars, objectVars, codeVars, policyVars, irqVars
<1>2. waking' = NoQueue \/ (waking' = EventQ /\ queues[EventQ] # << >>)
  BY <1>1 DEF WakeUp
<1>3. TypeOK'
  BY <1>1, <1>2 DEF IInv, TypeOK
<1>4. preemptionDisabled' => current \in Workers /\ pc[current] \in {"body", "start"}
  BY <1>1 DEF IInv, CriticalIsWorker
<1>5. pc[current] \in OpenPC
  BY <1>1 DEF OpenPC
<1>6. QED BY <1>1, <1>2, <1>3, <1>4, <1>5, QuietStep

(* SetPreemption preserves the invariant. *)
LEMMA SetPreemptionStep ==
  ASSUME IInv, SetPreemption
  PROVE  IInv'
<1>1. /\ waking = NoQueue /\ waking' = NoQueue /\ pc[current] = "body" /\ current \in Workers
      /\ preemptionDisabled' = ~preemptionDisabled
      /\ UNCHANGED <<current, queues, level, blocked, alive, refCount, owner, held, pc, arg, maxLevel,
                     quantum, numTicks, needReschedule, inIRQ, waking, panic>>
  BY DEF SetPreemption, WorkerAt, Running, schedVars, objectVars, codeVars, policyVars
<1>2. preemptionDisabled' \in BOOLEAN
  BY <1>1
<1>3. TypeOK'
  BY <1>1, <1>2 DEF IInv, TypeOK
<1>4. pc[current] \in OpenPC
  BY <1>1 DEF OpenPC
<1>5. QED BY <1>1, <1>3, <1>4, QuietStep

(* The exit of the current thread wakes every thread that joins it. *)
LEMMA ExitWakes ==
  ASSUME IInv, waking = NoQueue, WakeUp(JoinQ(current), queues),
         \A c \in Thread : c # current => alive'[c] = alive[c] /\ pc'[c] = pc[c]
  PROVE  /\ \A c, u \in Thread : Contains(queues[JoinQ(c)], u) =>
              alive'[c] \/ pc'[c] = "destructor" \/ waking' = JoinQ(c)
         /\ waking' \in {NoQueue, JoinQ(current)}
         /\ waking' # NoQueue => queues[waking'] # << >>
<1>1. waking' = IF queues[JoinQ(current)] = << >> THEN NoQueue ELSE JoinQ(current)
  BY DEF WakeUp
<1>2. ASSUME NEW c \in Thread, NEW u \in Thread, Contains(queues[JoinQ(c)], u)
      PROVE  alive'[c] \/ pc'[c] = "destructor" \/ waking' = JoinQ(c)
  <2>1. JoinQ(c) \in Queues /\ JoinQ(c) # NoQueue
    BY QueueIds
  <2>2. CASE c = current
    <3>1. queues[JoinQ(c)] # << >>
      BY <1>2, <2>1, EmptyFact DEF IInv, TypeOK
    <3>2. QED BY <1>1, <2>2, <3>1
  <2>3. CASE c # current
    <3>1. alive[c] \/ pc[c] = "destructor" \/ waking = JoinQ(c)
      BY <1>2 DEF IInv, WhereInv, WaiterAt
    <3>2. QED BY <2>1, <2>3, <3>1
  <2>4. QED BY <2>2, <2>3
<1>3. QED BY <1>1, <1>2

(* Exit preserves the invariant. *)
LEMMA ExitStep ==
  ASSUME IInv, Exit
  PROVE  IInv'
<1>1. /\ current \in Workers /\ pc[current] = "body" /\ waking = NoQueue /\ ~inIRQ /\ ~preemptionDisabled
      /\ alive' = [alive EXCEPT ![current] = FALSE]
      /\ held' = [t \in Thread |-> IF owner[t] = current /\ held[t] = "owned"
                                   THEN "orphan" ELSE held[t]]
      /\ UNCHANGED <<current, queues, level, blocked, numTicks, refCount, owner, arg, maxLevel,
                     quantum, needReschedule, preemptionDisabled, inIRQ, panic>>
  BY DEF Exit, WorkerAt, Running, schedVars, policyVars, irqVars
<1>2. PICK l \in {"exit", "destructor"} :
        /\ pc' = [pc EXCEPT ![current] = l]
        /\ l = "exit" => WakeUp(JoinQ(current), queues)
        /\ l = "destructor" => waking' = waking
  <2>1. \/ pc' = [pc EXCEPT ![current] = "exit"] /\ WakeUp(JoinQ(current), queues)
        \/ pc' = [pc EXCEPT ![current] = "destructor"] /\ waking' = waking
    BY DEF Exit, Goto
  <2>2. QED BY <2>1
<1>3. /\ current \in Thread /\ pc \in [Thread -> PC] /\ alive \in [Thread -> BOOLEAN]
      /\ held \in [Thread -> RefStates] /\ queues \in Lists
  BY DEF IInv, TypeOK, Lists
<1>4. /\ pc'[current] = l /\ ~alive'[current]
      /\ \A u \in Thread : u # current => pc'[u] = pc[u] /\ alive'[u] = alive[u]
      /\ pc' \in [Thread -> PC] /\ alive' \in [Thread -> BOOLEAN]
  BY <1>1, <1>2, <1>3 DEF PC, OpenPC
<1>5. /\ \A t \in Thread : /\ held'[t] = "none" <=> held[t] = "none"
                           /\ held[t] = "owned" /\ owner[t] # current => held'[t] = "owned"
      /\ held' \in [Thread -> RefStates]
  BY <1>1, <1>3 DEF RefStates
<1>6. /\ \A c, u \in Thread : Contains(queues[JoinQ(c)], u) =>
           alive'[c] \/ pc'[c] = "destructor" \/ waking' = JoinQ(c)
      /\ waking' \in {NoQueue, JoinQ(current)}
      /\ waking' # NoQueue => queues[waking'] # << >> /\ l = "exit"
  <2>1. CASE l = "exit"
    BY <1>1, <1>2, <1>4, <2>1, ExitWakes
  <2>2. CASE l = "destructor"
    <3>1. \A c, u \in Thread : Contains(queues[JoinQ(c)], u) =>
            alive[c] \/ pc[c] = "destructor" \/ waking = JoinQ(c)
      BY DEF IInv, WhereInv, WaiterAt
    <3>2. QED BY <1>1, <1>2, <1>4, <2>2, <3>1
  <2>3. QED BY <1>2, <2>1, <2>2
<1>7. pc[current] \in OpenPC /\ l \in OpenPC \cup {"exit"}
  BY <1>1, <1>2 DEF OpenPC
<1>8. WhereInv'
  BY <1>1, <1>2, <1>6, <1>7, FrameStep
<1>9. LinkExclusive'
  BY <1>1 DEF IInv, LinkExclusive
<1>10. TypeOK'
  <2>1. waking' \in {NoQueue, EventQ, ReaperQ} \cup {JoinQ(t) : t \in Workers}
    BY <1>1, <1>6
  <2>2. QED BY <1>1, <1>4, <1>5, <2>1 DEF IInv, TypeOK
<1>11. CodeInv'
  <2>1. Roles /\ OneStarter /\ \A u \in Thread : CodeAt(u)
    BY DEF IInv, CodeInv
  <2>2. Roles'
    BY <1>1, <1>2, <1>4, <2>1, ThreadAssumption DEF Roles, Thread
  <2>3. ASSUME NEW u \in Thread PROVE CodeAt(u)'
    <3>1. CASE u = current
      BY <1>1, <1>2, <1>4, <3>1 DEF CodeAt
    <3>2. CASE u # current
      <4>1. CodeAt(u) /\ pc'[u] = pc[u] /\ alive'[u] = alive[u]
        BY <1>4, <2>1, <3>2
      <4>2. pc[u] = "start" => pc'[arg[u]] = "new"
        BY <1>1, <1>4, <4>1 DEF CodeAt, Thread
      <4>3. pc[u] = "join" => held'[arg[u]] = "owned"
        BY <1>5, <3>2, <4>1 DEF CodeAt, Thread
      <4>4. QED BY <1>1, <4>1, <4>2, <4>3 DEF CodeAt
    <3>3. QED BY <3>1, <3>2
  <2>4. OneStarter'
    BY <1>1, <1>2, <1>4, <2>1 DEF OneStarter
  <2>5. QED BY <2>2, <2>3, <2>4 DEF CodeInv
<1>12. RefInv'
  <2>1. ASSUME NEW u \in Thread PROVE RefAt(u)'
    <3>1. RefAt(u) /\ (held'[u] = "none" <=> held[u] = "none") /\ refCount'[u] = refCount[u]
      BY <1>1, <1>5 DEF IInv, RefInv
    <3>2. CASE u = current
      BY <1>1, <1>2, <1>4, <3>1, <3>2 DEF RefAt
    <3>3. CASE u # current
      <4>1. pc'[u] = pc[u]
        BY <1>4, <3>3
      <4>2. QED BY <3>1, <4>1 DEF RefAt
    <3>4. QED BY <3>2, <3>3
  <2>2. QED BY <2>1 DEF RefInv
<1>13. WakeInv'
  <2>1. \A c \in Thread : waking' = JoinQ(c) => pc'[c] = "exit"
    BY <1>3, <1>4, <1>6, QueueIds
  <2>2. pc'[Reaper] = pc[Reaper]
    BY <1>1, <1>4, ThreadAssumption DEF Thread
  <2>3. QED BY <1>1, <1>6, <2>1, <2>2 DEF IInv, WakeInv
<1>14. CriticalIsWorker' /\ NoPanic'
  BY <1>1 DEF CriticalIsWorker, NoPanic, IInv
<1>15. QED BY <1>8, <1>9, <1>10, <1>11, <1>12, <1>13, <1>14 DEF IInv

(* DestructorDone preserves the invariant. *)
LEMMA DestructorDoneStep ==
  ASSUME IInv, DestructorDone
  PROVE  IInv'
<1>1. /\ current \in Workers /\ pc[current] = "destructor" /\ waking = NoQueue /\ ~inIRQ
      /\ pc' = [pc EXCEPT ![current] = "exit"] /\ WakeUp(JoinQ(current), queues)
      /\ UNCHANGED <<current, queues, level, blocked, numTicks, alive, refCount, owner, held, arg, maxLevel,
                     quantum, needReschedule, preemptionDisabled, inIRQ, panic>>
  BY DEF DestructorDone, WorkerAt, Running, Goto, schedVars, objectVars, policyVars, irqVars
<1>2. current \in Thread /\ pc \in [Thread -> PC]
  BY DEF IInv, TypeOK
<1>3. /\ pc'[current] = "exit" /\ \A u \in Thread : u # current => pc'[u] = pc[u]
      /\ pc' \in [Thread -> PC]
  BY <1>1, <1>2 DEF PC
<1>4. /\ \A c, u \in Thread : Contains(queues[JoinQ(c)], u) =>
           alive'[c] \/ pc'[c] = "destructor" \/ waking' = JoinQ(c)
      /\ waking' \in {NoQueue, JoinQ(current)}
      /\ waking' # NoQueue => queues[waking'] # << >>
  BY <1>1, <1>3, ExitWakes
<1>5. pc[current] \in OpenPC
  BY <1>1 DEF OpenPC
<1>6. WhereInv'
  BY <1>1, <1>4, <1>5, FrameStep
<1>7. LinkExclusive'
  BY <1>1 DEF IInv, LinkExclusive
<1>8. TypeOK'
  <2>1. waking' \in {NoQueue, EventQ, ReaperQ} \cup {JoinQ(t) : t \in Workers}
    BY <1>1, <1>4
  <2>2. QED BY <1>1, <1>3, <2>1 DEF IInv, TypeOK
<1>9. CodeInv'
  <2>1. Roles /\ OneStarter /\ \A u \in Thread : CodeAt(u)
    BY DEF IInv, CodeInv
  <2>2. Roles'
    BY <1>1, <1>3, <2>1, ThreadAssumption DEF Roles, Thread
  <2>3. ASSUME NEW u \in Thread PROVE CodeAt(u)'
    <3>1. CASE u = current
      BY <1>1, <1>3, <2>1, <3>1 DEF CodeAt
    <3>2. CASE u # current
      BY <1>1, <1>3, <2>1, <3>2 DEF CodeAt, Thread
    <3>3. QED BY <3>1, <3>2
  <2>4. OneStarter'
    BY <1>1, <1>3, <2>1 DEF OneStarter
  <2>5. QED BY <2>2, <2>3, <2>4 DEF CodeInv
<1>10. RefInv'
  <2>1. ASSUME NEW u \in Thread PROVE RefAt(u)'
    BY <1>1, <1>3 DEF RefAt, IInv, RefInv
  <2>2. QED BY <2>1 DEF RefInv
<1>11. WakeInv'
  <2>1. \A c \in Thread : waking' = JoinQ(c) => pc'[c] = "exit"
    BY <1>2, <1>3, <1>4, QueueIds
  <2>2. pc'[Reaper] = pc[Reaper]
    BY <1>1, <1>3, ThreadAssumption DEF Thread
  <2>3. QED BY <1>1, <1>4, <2>1, <2>2 DEF IInv, WakeInv
<1>12. CriticalIsWorker' /\ NoPanic'
  BY <1>1 DEF CriticalIsWorker, NoPanic, IInv
<1>13. QED BY <1>6, <1>7, <1>8, <1>9, <1>10, <1>11, <1>12 DEF IInv

(* A change of policy moves threads between run queues only. *)
LEMMA PolicyStep ==
  ASSUME IInv, pc[current] = "body", waking = NoQueue,
         UNCHANGED <<current, blocked, alive, refCount, owner, held, pc, arg, numTicks,
                     needReschedule, preemptionDisabled, inIRQ, waking, panic>>,
         quantum' \in Quanta, maxLevel' \in {1, MLFLevels}, level' \in [Thread -> Levels],
         queues' \in Lists, LinkExclusive',
         \A p \in Queues : p \notin RunQs => queues'[p] = queues[p],
         \A u \in Thread : On(u, RunQs)' <=> On(u, RunQs),
         \A u \in Thread : LevelAt(u)'
  PROVE  IInv'
<1>1. /\ \A p \in RunQs \cup WaitQs : p \in Queues
      /\ \A p \in WaitQs : queues'[p] = queues[p]
      /\ queues'[Grave] = queues[Grave] /\ queues'[Taken] = queues[Taken]
      /\ Grave \in Queues /\ Taken \in Queues
      /\ \A p \in Queues : p \in RunQs \/ p \in WaitQs \/ p = Grave \/ p = Taken
  BY QueueIds DEF Queues
<1>2. \A u \in Thread : Unlinked(u)' <=> Unlinked(u)
  BY <1>1 DEF Unlinked, On
<1>3. TypeOK'
  BY DEF IInv, TypeOK, Lists
<1>4. CodeInv' /\ RefInv'
  BY DEF IInv, CodeInv, Roles, OneStarter, CodeAt, RefInv, RefAt
<1>5. CurrentInv'
  BY <1>1, <1>2 DEF IInv, TypeOK, WhereInv, CurrentInv
<1>6. ASSUME NEW u \in Thread
      PROVE  FreshAt(u)' /\ GraveAt(u)' /\ BlockedAt(u)' /\ ReadyAt(u)' /\ WaiterAt(u)'
  <2>1. FreshAt(u) /\ GraveAt(u) /\ BlockedAt(u) /\ ReadyAt(u) /\ WaiterAt(u)
    BY DEF IInv, WhereInv
  <2>2. FreshAt(u)'
    BY <1>2, <2>1 DEF FreshAt
  <2>3. GraveAt(u)'
    BY <1>1, <2>1 DEF GraveAt
  <2>4. BlockedAt(u)'
    BY <1>1, <2>1 DEF BlockedAt, On
  <2>5. ReadyAt(u)'
    BY <2>1 DEF ReadyAt, Live
  <2>6. WaiterAt(u)'
    BY <1>1, <2>1, QueueIds DEF WaiterAt
  <2>7. QED BY <2>2, <2>3, <2>4, <2>5, <2>6
<1>7. WhereInv'
  BY <1>5, <1>6 DEF WhereInv
<1>8. WakeInv'
  BY <1>1, QueueIds DEF IInv, WakeInv
<1>9. CriticalIsWorker' /\ NoPanic'
  BY DEF CriticalIsWorker, NoPanic, IInv
<1>10. QED BY <1>3, <1>4, <1>7, <1>8, <1>9 DEF IInv

(* Switch_To_RR collects the run queues in the first one. *)
LEMMA SwitchToRRFact ==
  ASSUME IInv, SwitchToRR, maxLevel # 1
  PROVE  /\ maxLevel' = 1 /\ level' \in [Thread -> Levels] /\ queues' \in Lists /\ LinkExclusive'
         /\ \A p \in Queues : p \notin RunQs => queues'[p] = queues[p]
         /\ \A u \in Thread : On(u, RunQs)' <=> On(u, RunQs)
         /\ \A u \in Thread : LevelAt(u)'
<1> DEFINE q0 == queues[RunQ(0)]
           q1 == queues[RunQ(1)]
           q2 == queues[RunQ(2)]
           q3 == queues[RunQ(3)]
           lower == q1 \o q2 \o q3
<1>1. /\ queues' = [queues EXCEPT ![RunQ(0)] = Reverse(lower) \o @,
                       ![RunQ(1)] = << >>, ![RunQ(2)] = << >>, ![RunQ(3)] = << >>]
      /\ level' = [t \in Thread |-> IF Contains(lower, t) THEN 0 ELSE level[t]]
      /\ maxLevel' = 1
  BY DEF SwitchToRR
<1>2. queues \in Lists /\ Apart(queues) /\ level \in [Thread -> Levels]
  BY ApartQueues DEF IInv, TypeOK, Lists
<1>3. /\ 0 \in Levels /\ 1 \in Levels /\ 2 \in Levels /\ 3 \in Levels
      /\ \A i \in Levels : i = 0 \/ i = 1 \/ i = 2 \/ i = 3
  BY DEF Levels, MLFLevels
<1>4. /\ RunQ(0) \in Queues /\ RunQ(1) \in Queues /\ RunQ(2) \in Queues /\ RunQ(3) \in Queues
      /\ RunQ(0) # RunQ(1) /\ RunQ(0) # RunQ(2) /\ RunQ(0) # RunQ(3)
      /\ RunQ(1) # RunQ(2) /\ RunQ(1) # RunQ(3) /\ RunQ(2) # RunQ(3)
      /\ RunQ(0) \in RunQs /\ RunQ(1) \in RunQs /\ RunQ(2) \in RunQs /\ RunQ(3) \in RunQs
      /\ \A p \in RunQs : p = RunQ(0) \/ p = RunQ(1) \/ p = RunQ(2) \/ p = RunQ(3)
      /\ RunQs \subseteq Queues
  <2>1. \A p \in RunQs : p = RunQ(0) \/ p = RunQ(1) \/ p = RunQ(2) \/ p = RunQ(3)
    BY <1>3 DEF RunQs
  <2>2. QED BY <1>3, <2>1, QueueIds
<1>5. /\ q0 \in Seq(Thread) /\ q1 \in Seq(Thread) /\ q2 \in Seq(Thread) /\ q3 \in Seq(Thread)
      /\ Distinct(q0) /\ Distinct(q1) /\ Distinct(q2) /\ Distinct(q3)
  BY <1>2, <1>4 DEF Lists, Apart
<1>6. \A u \in Thread : /\ ~(Contains(q1, u) /\ Contains(q2, u))
                       /\ ~(Contains(q1, u) /\ Contains(q3, u))
                       /\ ~(Contains(q2, u) /\ Contains(q3, u))
                       /\ ~(Contains(q0, u) /\ (Contains(q1, u) \/ Contains(q2, u) \/ Contains(q3, u)))
  BY <1>2, <1>4 DEF Apart
<1> DEFINE q12 == q1 \o q2
           r0 == Reverse(lower) \o q0
<1>7. lower = q12 \o q3 /\ r0 = Reverse(lower) \o q0 /\ q12 = q1 \o q2
  OBVIOUS
<1>8. queues' = [queues EXCEPT ![RunQ(0)] = r0,
                   ![RunQ(1)] = << >>, ![RunQ(2)] = << >>, ![RunQ(3)] = << >>]
  BY <1>1
<1>9. level' = [t \in Thread |-> IF Contains(lower, t) THEN 0 ELSE level[t]] /\ maxLevel' = 1
  BY <1>1
<1>10. q0 = queues[RunQ(0)] /\ q1 = queues[RunQ(1)] /\ q2 = queues[RunQ(2)] /\ q3 = queues[RunQ(3)]
  OBVIOUS
<1> HIDE DEF q0, q1, q2, q3, q12, r0, lower
<1>11. /\ q12 \in Seq(Thread) /\ Distinct(q12)
       /\ \A u : Contains(q12, u) <=> Contains(q1, u) \/ Contains(q2, u)
  <2>1. \A u \in Thread : ~(Contains(q1, u) /\ Contains(q2, u))
    BY <1>6
  <2>2. QED BY <1>5, <1>7, <2>1, ConcatFact
<1>12. /\ lower \in Seq(Thread) /\ Distinct(lower)
       /\ \A u : Contains(lower, u) <=> Contains(q12, u) \/ Contains(q3, u)
  <2>1. \A u \in Thread : ~(Contains(q12, u) /\ Contains(q3, u))
    BY <1>6, <1>11
  <2>2. QED BY <1>5, <1>7, <1>11, <2>1, ConcatFact
<1>13. /\ Reverse(lower) \in Seq(Thread) /\ Distinct(Reverse(lower))
       /\ \A u : Contains(Reverse(lower), u) <=> Contains(lower, u)
  BY <1>12, ReverseFact
<1>14. /\ r0 \in Seq(Thread) /\ Distinct(r0)
       /\ \A u : Contains(r0, u) <=> Contains(lower, u) \/ Contains(q0, u)
  <2>1. \A u \in Thread : ~(Contains(Reverse(lower), u) /\ Contains(q0, u))
    BY <1>6, <1>11, <1>12, <1>13
  <2>2. QED BY <1>5, <1>7, <1>13, <2>1, ConcatFact
<1>15. /\ queues'[RunQ(0)] = r0 /\ queues'[RunQ(1)] = << >>
       /\ queues'[RunQ(2)] = << >> /\ queues'[RunQ(3)] = << >>
       /\ \A p \in Queues : p \notin RunQs => queues'[p] = queues[p]
       /\ queues' \in Lists
  <2>1. << >> \in Seq(Thread)
    OBVIOUS
  <2>2. \A p \in Queues : p \notin RunQs =>
          p # RunQ(0) /\ p # RunQ(1) /\ p # RunQ(2) /\ p # RunQ(3)
    BY <1>4
  <2>3. queues' \in Lists
    BY <1>2, <1>4, <1>8, <1>14, <2>1 DEF Lists
  <2>4. /\ queues'[RunQ(0)] = r0 /\ queues'[RunQ(1)] = << >>
        /\ queues'[RunQ(2)] = << >> /\ queues'[RunQ(3)] = << >>
    BY <1>2, <1>4, <1>8 DEF Lists
  <2>5. \A p \in Queues : p \notin RunQs => queues'[p] = queues[p]
    BY <1>2, <1>8, <2>2 DEF Lists
  <2>6. QED BY <2>3, <2>4, <2>5
<1>16. \A u : ~Contains(<< >>, u)
  BY DEF Contains
<1>17. \A u : Contains(r0, u) <=> \/ Contains(q0, u) \/ Contains(q1, u)
                                 \/ Contains(q2, u) \/ Contains(q3, u)
  BY <1>11, <1>12, <1>14
<1>18. \A u : /\ On(u, RunQs) <=> Contains(r0, u)
              /\ On(u, RunQs)' <=> Contains(r0, u)
  BY <1>4, <1>10, <1>15, <1>16, <1>17 DEF On
<1>19. Apart(queues')
  <2>1. Distinct(<< >>)
    BY DEF Distinct
  <2>2. \A p \in Queues : Distinct(queues'[p])
    BY <1>2, <1>4, <1>14, <1>15, <2>1 DEF Apart
  <2>3. ASSUME NEW p \in Queues, NEW q \in Queues, NEW u \in Thread,
               Contains(queues'[p], u), Contains(queues'[q], u)
        PROVE  p = q
    <3>1. ASSUME NEW r \in Queues, Contains(queues'[r], u)
          PROVE  \/ r = RunQ(0) /\ Contains(r0, u)
                 \/ r \notin RunQs /\ Contains(queues[r], u)
      BY <1>4, <1>15, <1>16, <3>1
    <3>2. Contains(r0, u) => \E i \in RunQs : Contains(queues[i], u)
      BY <1>4, <1>10, <1>17
    <3>3. CASE p = RunQ(0)
      BY <1>2, <1>4, <2>3, <3>1, <3>2, <3>3 DEF Apart
    <3>4. CASE p # RunQ(0)
      BY <1>2, <1>4, <2>3, <3>1, <3>2, <3>4 DEF Apart
    <3>5. QED BY <3>3, <3>4
  <2>4. QED BY <2>2, <2>3 DEF Apart
<1>20. LinkExclusive'
  BY <1>15, <1>19, ApartQueuesNext
<1>21. ASSUME NEW u \in Thread PROVE LevelAt(u)'
  <2>1. SUFFICES ASSUME NEW i \in Levels, Contains(queues'[RunQ(i)], u)
                 PROVE  level'[u] = i /\ i < maxLevel' /\ (u = Idle => i = maxLevel' - 1)
    BY DEF LevelAt
  <2>2. i = 0 /\ Contains(r0, u)
    BY <1>3, <1>15, <1>16, <2>1
  <2>3. level'[u] = 0
    <3>1. CASE Contains(lower, u)
      BY <1>9, <3>1
    <3>2. CASE ~Contains(lower, u)
      <4>1. Contains(queues[RunQ(0)], u)
        BY <1>10, <1>14, <2>2, <3>2
      <4>2. level[u] = 0
        BY <1>3, <4>1 DEF IInv, WhereInv, LevelAt
      <4>3. QED BY <1>9, <3>2, <4>2
    <3>3. QED BY <3>1, <3>2
  <2>4. QED BY <1>9, <2>2, <2>3
<1>22. level' \in [Thread -> Levels]
  BY <1>2, <1>3, <1>9
<1>23. ASSUME NEW u \in Thread PROVE On(u, RunQs)' <=> On(u, RunQs)
  BY <1>18
<1>24. QED BY <1>9, <1>15, <1>20, <1>21, <1>22, <1>23

(* Switch_To_MLF moves the idle thread from the first run queue to the last. *)
LEMMA SwitchToMLFFact ==
  ASSUME IInv, SwitchToMLF
  PROVE  /\ maxLevel' = MLFLevels /\ level' \in [Thread -> Levels] /\ queues' \in Lists /\ LinkExclusive'
         /\ \A p \in Queues : p \notin RunQs => queues'[p] = queues[p]
         /\ \A u \in Thread : On(u, RunQs)' <=> On(u, RunQs)
         /\ \A u \in Thread : LevelAt(u)'
<1>1. /\ queues \in Lists /\ Apart(queues) /\ level \in [Thread -> Levels] /\ Idle \in Thread
      /\ maxLevel \in {1, 4} /\ maxLevel' = 4
      /\ 0 \in Levels /\ 3 \in Levels /\ \A i \in Levels : i \in 0 .. 3
      /\ \A u \in Thread : LevelAt(u)
  BY ApartQueues DEF IInv, TypeOK, WhereInv, Lists, Thread, SwitchToMLF, Levels, MLFLevels
<1>2. /\ RunQ(0) \in Queues /\ RunQ(3) \in Queues /\ RunQ(0) # RunQ(3)
      /\ RunQ(0) \in RunQs /\ RunQ(3) \in RunQs /\ RunQs \subseteq Queues
  BY <1>1, QueueIds
<1>3. CASE Contains(queues[RunQ(0)], Idle)
  <2> DEFINE q0 == queues[RunQ(0)]
             q3 == queues[RunQ(3)]
  <2>1. PICK k \in DOMAIN q0 :
          /\ q0[k] = Idle
          /\ queues' = [queues EXCEPT ![RunQ(0)] = RemoveAt(q0, k), ![RunQ(3)] = <<Idle>> \o q3]
          /\ level' = [level EXCEPT ![Idle] = 3]
    BY <1>1, <1>2, <1>3 DEF SwitchToMLF, MLFLevels, Lists
  <2>2. /\ q0 \in Seq(Thread) /\ q3 \in Seq(Thread) /\ Distinct(q0) /\ Distinct(q3)
        /\ Contains(q0, Idle) /\ ~Contains(q3, Idle)
    BY <1>1, <1>2, <1>3 DEF Lists, Apart
  <2>3. k \in 1 .. Len(q0)
    BY <2>1, <2>2
  <2> DEFINE r0 == RemoveAt(q0, k)
             r3 == <<Idle>> \o q3
  <2>4. q0 = queues[RunQ(0)] /\ q3 = queues[RunQ(3)] /\ r0 = RemoveAt(q0, k) /\ r3 = <<Idle>> \o q3
    OBVIOUS
  <2>5. queues' = [queues EXCEPT ![RunQ(0)] = r0, ![RunQ(3)] = r3]
    BY <2>1
  <2> HIDE DEF q0, q3, r0, r3
  <2>6. /\ r0 \in Seq(Thread) /\ Distinct(r0)
        /\ \A u : Contains(r0, u) <=> Contains(q0, u) /\ u # Idle
    BY <2>1, <2>2, <2>3, <2>4, RemoveAtFact
  <2>7. /\ r3 \in Seq(Thread) /\ Distinct(r3)
        /\ \A u : Contains(r3, u) <=> u = Idle \/ Contains(q3, u)
    <3> DEFINE one == <<Idle>>
    <3>1. /\ one \in Seq(Thread) /\ Distinct(one)
          /\ \A u : Contains(one, u) <=> u = Idle
      BY <1>1 DEF Distinct, Contains
    <3>2. r3 = one \o q3
      BY <2>4
    <3> HIDE DEF one
    <3>3. QED BY <2>2, <3>1, <3>2, ConcatFact
  <2>8. /\ queues' \in Lists /\ queues'[RunQ(0)] = r0 /\ queues'[RunQ(3)] = r3
        /\ \A p \in Queues : p # RunQ(0) /\ p # RunQ(3) => queues'[p] = queues[p]
    BY <1>1, <1>2, <2>5, <2>6, <2>7 DEF Lists
  <2>9. \A p \in Queues : \A u \in Thread : Contains(queues'[p], u)
          <=> \/ Contains(queues[p], u) /\ u # Idle
              \/ p = RunQ(3) /\ u = Idle
    <3>1. \A p \in Queues : Contains(queues[p], Idle) => p = RunQ(0)
      BY <1>1, <1>2, <1>3 DEF Apart
    <3>2. QED BY <1>2, <2>2, <2>4, <2>6, <2>7, <2>8, <3>1
  <2>10. Apart(queues')
    <3>1. \A p \in Queues : Distinct(queues'[p])
      BY <1>1, <2>6, <2>7, <2>8 DEF Apart
    <3>2. QED BY <1>1, <2>9, <3>1 DEF Apart
  <2>11. LinkExclusive'
    BY <2>8, <2>10, ApartQueuesNext
  <2>12. ASSUME NEW u \in Thread PROVE On(u, RunQs)' <=> On(u, RunQs)
    BY <1>2, <1>3, <2>9 DEF On
  <2>13. ASSUME NEW u \in Thread PROVE LevelAt(u)'
    <3>1. CASE u = Idle
      <4>1. \A i \in Levels : Contains(queues'[RunQ(i)], u) => i = 3
        BY <1>1, <2>9, <3>1, QueueIds
      <4>2. level'[u] = 3
        BY <1>1, <2>1, <3>1
      <4>3. QED BY <1>1, <4>1, <4>2 DEF LevelAt
    <3>2. CASE u # Idle
      <4>1. \A i \in Levels : Contains(queues'[RunQ(i)], u) => Contains(queues[RunQ(i)], u)
        BY <2>9, <3>2, QueueIds
      <4>2. level'[u] = level[u]
        BY <1>1, <2>1, <3>2
      <4>3. QED BY <1>1, <3>2, <4>1, <4>2 DEF LevelAt
    <3>3. QED BY <3>1, <3>2
  <2>14. level' \in [Thread -> Levels]
    BY <1>1, <2>1
  <2>15. \A p \in Queues : p \notin RunQs => queues'[p] = queues[p]
    BY <1>2, <2>8
  <2>16. QED BY <1>1, <2>8, <2>11, <2>12, <2>13, <2>14, <2>15 DEF MLFLevels
<1>4. CASE ~Contains(queues[RunQ(0)], Idle)
  <2>1. queues' = queues /\ level' = level
    <3>1. \A k \in DOMAIN queues[RunQ(0)] : queues[RunQ(0)][k] # Idle
      BY <1>1, <1>2, <1>4 DEF Lists, Contains
    <3>2. QED BY <3>1 DEF SwitchToMLF
  <2>2. LinkExclusive'
    BY <2>1 DEF IInv, LinkExclusive
  <2>3. ASSUME NEW u \in Thread PROVE On(u, RunQs)' <=> On(u, RunQs)
    BY <2>1 DEF On
  <2>4. ASSUME NEW u \in Thread PROVE LevelAt(u)'
    <3>1. LevelAt(u)
      BY <1>1
    <3>2. \A i \in Levels : Contains(queues[RunQ(i)], u) =>
            level[u] = i /\ i < 4 /\ (u = Idle => i = 3)
      BY <1>1, <1>4, <3>1 DEF LevelAt
    <3>3. QED BY <1>1, <2>1, <3>2 DEF LevelAt
  <2>5. QED BY <1>1, <2>1, <2>2, <2>3, <2>4 DEF MLFLevels
<1>5. QED BY <1>3, <1>4

(* SetSchedulingPolicy preserves the invariant. *)
LEMMA SetSchedulingPolicyStep ==
  ASSUME IInv, NEW q \in Quanta, SetSchedulingPolicy(q)
  PROVE  IInv'
<1>1. /\ pc[current] = "body" /\ waking = NoQueue /\ quantum' \in Quanta
      /\ UNCHANGED <<current, blocked, alive, refCount, owner, held, pc, arg, numTicks,
                     needReschedule, preemptionDisabled, inIRQ, waking, panic>>
  BY DEF SetSchedulingPolicy, WorkerAt, Running, objectVars, codeVars, irqVars
<1>2. CASE SwitchToRR /\ maxLevel # 1
  <2>1. maxLevel' \in {1, MLFLevels}
    BY <1>2, SwitchToRRFact
  <2>2. QED BY <1>1, <1>2, <2>1, SwitchToRRFact, PolicyStep
<1>3. CASE SwitchToMLF
  <2>1. maxLevel' \in {1, MLFLevels}
    BY <1>3, SwitchToMLFFact
  <2>2. QED BY <1>1, <1>3, <2>1, SwitchToMLFFact, PolicyStep
<1>4. CASE UNCHANGED <<queues, level, maxLevel>>
  <2>1. TypeOK'
    BY <1>1, <1>4 DEF IInv, TypeOK
  <2>2. pc[current] \in OpenPC
    BY <1>1 DEF OpenPC
  <2>3. preemptionDisabled' => current \in Workers /\ pc[current] \in {"body", "start"}
    BY <1>1 DEF IInv, CriticalIsWorker
  <2>4. QED BY <1>1, <1>4, <2>1, <2>2, <2>3, QuietStep
<1>5. QED BY <1>2, <1>3, <1>4 DEF SetSchedulingPolicy, SwitchToRR

(* Create preserves the invariant. *)
LEMMA CreateStep ==
  ASSUME IInv, NEW t \in Workers, NEW detached \in BOOLEAN, Create(t, detached)
  PROVE  IInv'
<1> USE DEF IInv
<1>1. /\ WorkerAt("body") /\ pc[t] = "none"
      /\ alive'    = [alive EXCEPT ![t] = TRUE]
      /\ refCount' = [refCount EXCEPT ![t] = IF detached THEN 1 ELSE 2]
      /\ owner'    = [owner EXCEPT ![t] = IF detached THEN NoThread ELSE current]
      /\ held'     = [held EXCEPT ![t] = IF detached THEN "none" ELSE "owned"]
      /\ pc'       = [pc EXCEPT ![t] = "new", ![current] = "start"]
      /\ arg'      = [arg EXCEPT ![current] = t]
      /\ UNCHANGED <<schedVars, policyVars, irqVars, waking, panic>>
  BY DEF Create
<1>2. TypeOK'
  BY <1>1 DEF TypeOK, Thread, WorkerAt, Running, PC, OpenPC, RefStates, schedVars, policyVars, irqVars
<1>3. LinkExclusive'
  BY <1>1 DEF LinkExclusive, schedVars
<1> USE ThreadAssumption DEF TypeOK, Thread, WorkerAt, Running, schedVars, policyVars, irqVars
<1>4. CodeInv'
  <2>1. Roles'
    BY <1>1 DEF CodeInv, Roles, OpenPC
  <2>2. ASSUME NEW u \in Thread PROVE CodeAt(u)'
    BY <1>1 DEF CodeInv, CodeAt, RefInv, RefAt
  <2>3. OneStarter'
    BY <1>1, SMTT(30) DEF CodeInv, CodeAt, OneStarter
  <2>4. QED BY <2>1, <2>2, <2>3 DEF CodeInv
<1>5. RefInv'
  BY <1>1 DEF RefInv, RefAt
<1>6. WhereInv'
  <2>1. CurrentInv'
    BY <1>1 DEF WhereInv, CurrentInv, Unlinked
  <2>2. ASSUME NEW u \in Thread PROVE FreshAt(u)'
    BY <1>1 DEF WhereInv, FreshAt, Unlinked
  <2>3. ASSUME NEW u \in Thread PROVE GraveAt(u)'
    BY <1>1 DEF WhereInv, GraveAt, FreshAt, Unlinked
  <2>4. ASSUME NEW u \in Thread PROVE BlockedAt(u)'
    BY <1>1 DEF WhereInv, BlockedAt, On
  <2>5. ASSUME NEW u \in Thread PROVE ReadyAt(u)'
    BY <1>1 DEF WhereInv, ReadyAt, On, Live
  <2>6. ASSUME NEW u \in Thread PROVE LevelAt(u)'
    BY <1>1 DEF WhereInv, LevelAt
  <2>7. ASSUME NEW u \in Thread PROVE WaiterAt(u)'
    <3>1. WaiterAt(u) /\ (u = t \/ u = current => Unlinked(u))
      BY <1>1 DEF WhereInv, CurrentInv, FreshAt
    <3>2. /\ ReaperQ \in Queues /\ EventQ \in Queues
          /\ \A c \in Thread : JoinQ(c) \in Queues
      BY QueueIds
    <3>3. CASE u = t \/ u = current
      BY <1>1, <3>1, <3>2, <3>3 DEF WaiterAt, Unlinked
    <3>4. CASE ~(u = t \/ u = current)
      <4>1. pc'[u] = pc[u] /\ arg'[u] = arg[u] /\ queues' = queues /\ waking' = waking
        BY <1>1, <3>4
      <4>2. \A c \in Thread : /\ alive[c] => alive'[c]
                              /\ pc[c] = "destructor" => pc'[c] = "destructor"
        BY <1>1
      <4>3. QED BY <3>1, <4>1, <4>2 DEF WaiterAt
    <3>5. QED BY <3>3, <3>4
  <2>8. QED BY <2>1, <2>2, <2>3, <2>4, <2>5, <2>6, <2>7 DEF WhereInv
<1>7. WakeInv'
  BY <1>1 DEF WakeInv
<1>8. CriticalIsWorker' /\ NoPanic'
  BY <1>1 DEF CriticalIsWorker, NoPanic
<1>9. QED BY <1>2, <1>3, <1>4, <1>5, <1>6, <1>7, <1>8

-----------------------------------------------------------------------------
(* The invariant holds initially and every step keeps it. *)
LEMMA InitInv ==
  ASSUME Init
  PROVE  IInv
<1>1. /\ Main \in Thread /\ Idle \in Thread /\ Reaper \in Thread
      /\ Main # Idle /\ Main # Reaper /\ Idle # Reaper
      /\ Reaper \notin Workers /\ Idle \notin Workers /\ Main \in Workers
  BY ThreadAssumption DEF Thread
<1>2. /\ 0 \in Levels /\ 3 \in Levels /\ MLFLevels = 4 /\ RunQ(0) \in Queues /\ RunQ(3) \in Queues
      /\ RunQ(0) # RunQ(3)
  BY QueueIds DEF Levels, MLFLevels
<1>3. queues = [q \in Queues |-> IF q = RunQ(3) THEN <<Idle>>
                                ELSE IF q = RunQ(0) THEN <<Reaper>> ELSE << >>]
  BY DEF Init, MLFLevels
<1>4. /\ queues \in Lists
      /\ \A q \in Queues : Distinct(queues[q])
      /\ \A q \in Queues : \A u : Contains(queues[q], u) <=>
           \/ q = RunQ(3) /\ u = Idle
           \/ q = RunQ(0) /\ u = Reaper
  <2>1. /\ <<Idle>> \in Seq(Thread) /\ <<Reaper>> \in Seq(Thread) /\ << >> \in Seq(Thread)
        /\ Distinct(<<Idle>>) /\ Distinct(<<Reaper>>) /\ Distinct(<< >>)
        /\ \A u : Contains(<<Idle>>, u) <=> u = Idle
        /\ \A u : Contains(<<Reaper>>, u) <=> u = Reaper
        /\ \A u : ~Contains(<< >>, u)
    BY <1>1 DEF Distinct, Contains
  <2>2. queues \in Lists
    BY <1>3, <2>1 DEF Lists
  <2>3. ASSUME NEW q \in Queues
        PROVE  /\ Distinct(queues[q])
               /\ \A u : Contains(queues[q], u) <=> \/ q = RunQ(3) /\ u = Idle
                                                    \/ q = RunQ(0) /\ u = Reaper
    <3>1. CASE q = RunQ(3)
      BY <1>2, <1>3, <2>1, <3>1
    <3>2. CASE q = RunQ(0)
      BY <1>2, <1>3, <2>1, <3>2
    <3>3. CASE q # RunQ(3) /\ q # RunQ(0)
      BY <1>3, <2>1, <3>3
    <3>4. QED BY <3>1, <3>2, <3>3
  <2>4. QED BY <2>2, <2>3
<1>5. LinkExclusive
  <2>1. Apart(queues)
    BY <1>1, <1>4 DEF Apart
  <2>2. QED BY <1>4, <2>1, ApartQueues
<1>6. TypeOK
  <2>1. /\ level \in [Thread -> Levels] /\ refCount \in [Thread -> 0 .. 2]
        /\ held \in [Thread -> RefStates] /\ pc \in [Thread -> PC]
        /\ alive \in [Thread -> BOOLEAN] /\ blocked \in [Thread -> BOOLEAN]
    BY <1>1, <1>2 DEF Init, RefStates, PC, OpenPC
  <2>2. numTicks \in 0 .. TickCap
    BY ThreadAssumption DEF Init
  <2>3. QED BY <1>1, <1>4, <2>1, <2>2 DEF Init, TypeOK, Lists
<1>7. CodeInv
  BY <1>1, ThreadAssumption DEF Init, CodeInv, Roles, OneStarter, CodeAt, OpenPC, Thread
<1>8. RefInv
  BY DEF Init, RefInv, RefAt
<1>9. /\ \A p \in WaitQs : p \in Queues /\ p # RunQ(0) /\ p # RunQ(3)
      /\ Grave \in Queues /\ Grave # RunQ(0) /\ Grave # RunQ(3)
      /\ Taken \in Queues /\ Taken # RunQ(0) /\ Taken # RunQ(3)
      /\ RunQ(0) \in RunQs /\ RunQ(3) \in RunQs /\ RunQs \subseteq Queues
  BY <1>2, QueueIds
<1>10. CurrentInv
  BY <1>1, <1>4, <1>9 DEF Init, CurrentInv, Unlinked
<1>11. ASSUME NEW u \in Thread
       PROVE  FreshAt(u) /\ GraveAt(u) /\ BlockedAt(u) /\ ReadyAt(u) /\ LevelAt(u) /\ WaiterAt(u)
  <2>1. /\ current = Main /\ maxLevel = 4 /\ blocked[u] = FALSE
        /\ pc[u] = IF u \in {Main, Idle} THEN "body" ELSE IF u = Reaper THEN "check" ELSE "none"
        /\ level[u] = IF u = Idle THEN 3 ELSE 0
    BY DEF Init, MLFLevels
  <2>2. FreshAt(u)
    BY <1>4, <2>1 DEF FreshAt, Unlinked
  <2>3. GraveAt(u)
    BY <1>4, <1>9, <2>1 DEF GraveAt
  <2>4. BlockedAt(u)
    BY <1>4, <1>9, <2>1 DEF BlockedAt, On
  <2>5. On(u, RunQs) <=> u \in {Idle, Reaper}
    BY <1>4, <1>9 DEF On
  <2>6. ReadyAt(u)
    BY <1>1, <2>1, <2>5 DEF ReadyAt, Live
  <2>7. LevelAt(u)
    <3>1. SUFFICES ASSUME NEW i \in Levels, Contains(queues[RunQ(i)], u)
                   PROVE  level[u] = i /\ i < maxLevel /\ (u = Idle => i = maxLevel - 1)
      BY DEF LevelAt
    <3>2. \/ RunQ(i) = RunQ(3) /\ u = Idle
          \/ RunQ(i) = RunQ(0) /\ u = Reaper
      BY <1>4, <3>1, QueueIds
    <3>3. \/ i = 3 /\ u = Idle
          \/ i = 0 /\ u = Reaper
      BY <1>2, <3>2, QueueIds
    <3>4. QED BY <1>1, <2>1, <3>3
  <2>8. WaiterAt(u)
    BY <1>4, <1>9, QueueIds DEF WaiterAt
  <2>9. QED BY <2>2, <2>3, <2>4, <2>6, <2>7, <2>8
<1>12. WhereInv
  BY <1>10, <1>11 DEF WhereInv
<1>13. WakeInv
  <2>1. queues[Taken] = << >>
    BY <1>3, <1>9
  <2>2. QED BY <1>1, <2>1, QueueIds DEF Init, WakeInv
<1>14. CriticalIsWorker /\ NoPanic
  BY DEF Init, CriticalIsWorker, NoPanic
<1>15. QED BY <1>5, <1>6, <1>7, <1>8, <1>12, <1>13, <1>14 DEF IInv

(* Every step preserves the inductive invariant. *)
LEMMA NextInv ==
  ASSUME Waitable \subseteq {"owned"}, IInv, [Next]_vars
  PROVE  IInv'
<1>1. CASE UNCHANGED vars
  <2>1. UNCHANGED <<current, queues, level, blocked, numTicks, alive, refCount, owner, held, pc, arg,
                    maxLevel, quantum, needReschedule, preemptionDisabled, inIRQ, waking, panic>>
    BY <1>1 DEF vars, schedVars, objectVars, codeVars, policyVars, irqVars
  <2>2. TypeOK' /\ LinkExclusive' /\ CriticalIsWorker' /\ NoPanic'
    BY <2>1 DEF IInv, TypeOK, LinkExclusive, CriticalIsWorker, NoPanic
  <2>3. CodeInv' /\ RefInv' /\ WakeInv'
    BY <2>1 DEF IInv, CodeInv, Roles, OneStarter, CodeAt, RefInv, RefAt, WakeInv
  <2>4. CurrentInv'
    BY <2>1 DEF IInv, WhereInv, CurrentInv, Unlinked
  <2>5. ASSUME NEW t \in Thread
        PROVE  FreshAt(t)' /\ GraveAt(t)' /\ BlockedAt(t)' /\ ReadyAt(t)' /\ LevelAt(t)' /\ WaiterAt(t)'
    <3>1. FreshAt(t) /\ GraveAt(t) /\ BlockedAt(t) /\ ReadyAt(t) /\ LevelAt(t) /\ WaiterAt(t)
      BY DEF IInv, WhereInv
    <3>2. FreshAt(t)' /\ GraveAt(t)'
      BY <2>1, <3>1 DEF FreshAt, GraveAt, Unlinked
    <3>3. BlockedAt(t)' /\ ReadyAt(t)'
      BY <2>1, <3>1 DEF BlockedAt, ReadyAt, On, Live
    <3>4. LevelAt(t)' /\ WaiterAt(t)'
      BY <2>1, <3>1 DEF LevelAt, WaiterAt
    <3>5. QED BY <3>2, <3>3, <3>4
  <2>6. QED BY <2>2, <2>3, <2>4, <2>5 DEF IInv, WhereInv
<1>2. CASE WakeNext
  BY <1>2, WakeNextStep
<1>3. CASE \E t \in Workers, detached \in BOOLEAN : Create(t, detached)
  BY <1>3, CreateStep
<1>4. CASE Start
  BY <1>4, StartStep
<1>5. CASE Yield
  BY <1>5, YieldStep
<1>6. CASE \E t \in Workers : Join(t)
  BY <1>6, JoinStep
<1>7. CASE JoinResume
  BY <1>7, JoinResumeStep
<1>8. CASE Exit \/ DestructorDone \/ ExitDetach \/ ExitSchedule
  BY <1>8, ExitStep, DestructorDoneStep, ExitDetachStep, ExitScheduleStep
<1>9. CASE ReaperCheck \/ ReaperYield \/ ReaperDispose
  BY <1>9, ReaperCheckStep, ReaperYieldStep, ReaperDisposeStep
<1>10. CASE Block \/ WakeAll \/ WakeOne \/ SetPreemption
  BY <1>10, BlockStep, WakeAllStep, WakeOneStep, SetPreemptionStep
<1>11. CASE \E q \in Quanta : SetSchedulingPolicy(q)
  BY <1>11, SetSchedulingPolicyStep
<1>12. CASE TimerInterrupt \/ DeviceInterrupt \/ InterruptReturn
  BY <1>12, TimerStep, DeviceStep, InterruptReturnStep
<1>13. QED
  BY <1>1, <1>2, <1>3, <1>4, <1>5, <1>6, <1>7, <1>8, <1>9, <1>10, <1>11, <1>12 DEF Next

-----------------------------------------------------------------------------
(* What the inductive invariant implies *)

(* NoThreadLost follows from the inductive invariant. *)
LEMMA InvNoThreadLost ==
  ASSUME IInv
  PROVE  NoThreadLost
<1>1. ASSUME NEW t \in Thread
      PROVE  /\ blocked[t] <=> On(t, WaitQs)
             /\ Live(t) /\ t # current /\ ~blocked[t] <=> On(t, RunQs)
             /\ \A i \in Levels : On(t, {RunQ(i)}) => level[t] = i /\ i < maxLevel
  <2>1. BlockedAt(t) /\ ReadyAt(t) /\ LevelAt(t)
    BY DEF IInv, WhereInv
  <2>2. \A i \in Levels : On(t, {RunQ(i)}) <=> Contains(queues[RunQ(i)], t)
    BY DEF On
  <2>3. QED BY <2>1, <2>2 DEF BlockedAt, ReadyAt, LevelAt
<1>2. QED BY <1>1 DEF NoThreadLost

(* RefCountExact follows from the inductive invariant. *)
LEMMA InvRefCountExact ==
  ASSUME IInv
  PROVE  RefCountExact
<1>1. ASSUME NEW t \in Thread
      PROVE  /\ refCount[t] = (IF pc[t] \in {"none", "gone", "zombie"} THEN 0 ELSE 1)
                              + (IF held[t] = "none" THEN 0 ELSE 1)
             /\ pc[t] \in {"gone", "zombie"} /\ refCount[t] = 0 <=> On(t, {Grave, Taken})
  <2>1. RefAt(t) /\ GraveAt(t)
    BY DEF IInv, RefInv, WhereInv
  <2>2. On(t, {Grave, Taken}) <=> Contains(queues[Grave], t) \/ Contains(queues[Taken], t)
    BY DEF On
  <2>3. QED BY <2>1, <2>2 DEF RefAt, GraveAt
<1>2. QED BY <1>1 DEF RefCountExact

(* ReapedNotInUse follows from the inductive invariant. *)
LEMMA InvReapedNotInUse ==
  ASSUME IInv
  PROVE  ReapedNotInUse
<1>1. ASSUME NEW t \in Thread, On(t, {Taken})
      PROVE  /\ pc[t] = "zombie" /\ t # current /\ held[t] = "none"
             /\ queues[JoinQ(t)] = << >>
  <2>1. Contains(queues[Taken], t)
    BY <1>1 DEF On
  <2>2. GraveAt(t) /\ CodeAt(t) /\ RefAt(t) /\ t # current
    BY <2>1 DEF IInv, WhereInv, CurrentInv, CodeInv, RefInv
  <2>3. pc[t] = "zombie" /\ refCount[t] = 0
    BY <2>1, <2>2 DEF GraveAt, CodeAt
  <2>4. held[t] = "none"
    BY <2>2, <2>3 DEF RefAt
  <2>5. ASSUME NEW u \in Thread PROVE ~Contains(queues[JoinQ(t)], u)
    <3>1. Contains(queues[JoinQ(t)], u) => pc[u] = "join" /\ arg[u] = t
      BY DEF IInv, WhereInv, WaiterAt
    <3>2. pc[u] = "join" => held[arg[u]] = "owned"
      BY DEF IInv, CodeInv, CodeAt
    <3>3. QED BY <2>4, <3>1, <3>2
  <2>6. queues[JoinQ(t)] = << >>
    BY <2>5, EmptyFact, QueueIds DEF IInv, TypeOK
  <2>7. QED BY <2>2, <2>3, <2>4, <2>6
<1>2. QED BY <1>1 DEF ReapedNotInUse

(* IdleReady follows from the inductive invariant. *)
LEMMA InvIdleReady ==
  ASSUME IInv
  PROVE  IdleReady
<1>1. SUFFICES ASSUME current # Idle PROVE On(Idle, {RunQ(maxLevel - 1)})
  BY DEF IdleReady
<1>2. /\ Idle \in Thread /\ Idle \notin Workers /\ Idle # Reaper /\ Live(Idle)
  BY ThreadAssumption DEF Thread, IInv, CodeInv, Roles, Live
<1>3. ReadyAt(Idle) /\ LevelAt(Idle) /\ BlockedAt(Idle) /\ WaiterAt(Idle)
  BY <1>2 DEF IInv, WhereInv
<1>4. ~On(Idle, WaitQs)
  BY <1>2, <1>3 DEF WaiterAt, On, WaitQs
<1>5. On(Idle, RunQs)
  BY <1>1, <1>2, <1>3, <1>4 DEF ReadyAt, BlockedAt
<1>6. PICK i \in Levels : Contains(queues[RunQ(i)], Idle)
  BY <1>5 DEF On, RunQs
<1>7. QED BY <1>3, <1>6 DEF LevelAt, On

(* JoinNotMissed follows from the inductive invariant. *)
LEMMA InvJoinNotMissed ==
  ASSUME IInv
  PROVE  JoinNotMissed /\ OnlyOwnerJoins
<1>1. ASSUME NEW c \in Thread, NEW t \in Thread, Contains(queues[JoinQ(c)], t)
      PROVE  /\ owner[c] = t /\ held[c] = "owned"
             /\ alive[c] \/ pc[c] = "destructor" \/ waking = JoinQ(c)
  <2>1. /\ pc[t] = "join" /\ arg[t] = c
        /\ alive[c] \/ pc[c] = "destructor" \/ waking = JoinQ(c)
    BY <1>1 DEF IInv, WhereInv, WaiterAt
  <2>2. owner[c] = t /\ held[c] = "owned"
    BY <2>1 DEF IInv, CodeInv, CodeAt
  <2>3. QED BY <2>1, <2>2
<1>2. JoinNotMissed
  BY <1>1 DEF JoinNotMissed, On
<1>3. ASSUME NEW c \in Thread, queues[JoinQ(c)] # << >> PROVE held[c] = "owned"
  <2>1. PICK t \in Thread : Contains(queues[JoinQ(c)], t)
    BY <1>3, EmptyFact, QueueIds DEF IInv, TypeOK
  <2>2. QED BY <1>1, <2>1
<1>4. QED BY <1>2, <1>3 DEF OnlyOwnerJoins

(* Only Wait, Yield, the last Schedule of Exit and an interrupt that may    *)
(* preempt take the CPU away from a thread. *)
LEMMA SwitchEnablesPreemption ==
  ASSUME IInv, Next, preemptionDisabled, current' # current
  PROVE  ~preemptionDisabled'
<1>1. current \in Workers /\ pc[current] \in {"body", "start"}
  BY DEF IInv, CriticalIsWorker
<1>2. Block \/ InterruptReturn
  <2>1. ~Yield /\ ~JoinResume /\ ~ExitSchedule /\ ~ReaperCheck /\ ~ReaperYield
    BY <1>1 DEF Yield, JoinResume, ExitSchedule, ReaperCheck, ReaperYield, WorkerAt, Running
  <2>2. \A t \in Workers : ~Join(t)
    BY DEF Join
  <2>3. /\ ~WakeNext /\ ~Start /\ ~Exit /\ ~DestructorDone /\ ~ExitDetach /\ ~ReaperDispose
        /\ ~WakeAll /\ ~WakeOne /\ ~SetPreemption /\ ~TimerInterrupt /\ ~DeviceInterrupt
    BY DEF WakeNext, Start, Exit, DestructorDone, ExitDetach, ReaperDispose, WakeAll, WakeOne,
           SetPreemption, TimerInterrupt, DeviceInterrupt, schedVars
  <2>4. /\ \A t \in Workers, detached \in BOOLEAN : ~Create(t, detached)
        /\ \A q \in Quanta : ~SetSchedulingPolicy(q)
    BY DEF Create, SetSchedulingPolicy, schedVars
  <2>5. QED BY <2>1, <2>2, <2>3, <2>4 DEF Next
<1>3. ~InterruptReturn
  BY DEF InterruptReturn, schedVars
<1>4. QED BY <1>2, <1>3 DEF Block
(* Find_Best returns the idle thread only from run queues it is alone in. *)
LEMMA IdleIsLast ==
  ASSUME NEW qs \in Lists, Apart(qs), maxLevel \in {1, MLFLevels}, SwitchFrom(qs), current' = Idle,
         \A i \in Levels : \A u \in Thread : Contains(qs[RunQ(i)], u) =>
           i < maxLevel /\ (u = Idle => i = maxLevel - 1)
  PROVE  \A q \in RunQs : queues'[q] = << >>
<1>1. PICK i \in 0 .. maxLevel - 1 : \E k \in DOMAIN qs[RunQ(i)] :
        /\ \A j \in 0 .. i - 1 : qs[RunQ(j)] = << >>
        /\ IsBest(qs[RunQ(i)], k)
        /\ current' = qs[RunQ(i)][k]
  BY DEF SwitchFrom, SwitchTo
<1>2. i \in Levels /\ i \in Nat
  BY DEF Levels, MLFLevels
<1>3. RunQ(i) \in Queues /\ qs[RunQ(i)] \in Seq(Thread)
  BY <1>2, QueueIds DEF Lists
<1>4. PICK k \in 1 .. Len(qs[RunQ(i)]) :
        /\ \A j \in 0 .. i - 1 : qs[RunQ(j)] = << >>
        /\ IsBest(qs[RunQ(i)], k)
        /\ qs[RunQ(i)][k] = Idle
  BY <1>1, <1>3
<1>5. i = maxLevel - 1
  BY <1>2, <1>3, <1>4 DEF Contains, Thread
<1>6. \A u \in Thread : Contains(qs[RunQ(i)], u) => u = Idle
  <2>1. ASSUME NEW j \in 1 .. Len(qs[RunQ(i)]) PROVE qs[RunQ(i)][j] = Idle
    <3>1. qs[RunQ(i)][j] \in Thread /\ j \in DOMAIN qs[RunQ(i)]
      BY <1>3
    <3>2. Prio[qs[RunQ(i)][j]] <= Prio[Idle] /\ Prio[Idle] = 0
      BY <1>4, <3>1, ThreadAssumption DEF IsBest, Thread
    <3>3. QED BY <3>1, <3>2, ThreadAssumption
  <2>2. QED BY <2>1 DEF Contains
<1>7. /\ queues' \in Lists
      /\ \A p \in Queues : \A u \in Thread :
           Contains(queues'[p], u) <=> Contains(qs[p], u) /\ u # Idle
  BY SwitchFact
<1>8. ASSUME NEW j \in Levels PROVE queues'[RunQ(j)] = << >>
  <2>1. RunQ(j) \in Queues /\ queues'[RunQ(j)] \in Seq(Thread)
    BY <1>7, QueueIds DEF Lists
  <2>2. ASSUME NEW u \in Thread PROVE ~Contains(queues'[RunQ(j)], u)
    <3>1. SUFFICES ASSUME Contains(qs[RunQ(j)], u), u # Idle PROVE FALSE
      BY <1>7, <2>1
    <3>2. j < maxLevel
      BY <3>1
    <3>3. CASE j = i
      BY <1>6, <3>1, <3>3
    <3>4. CASE j # i
      <4>1. j \in 0 .. i - 1
        BY <1>2, <1>5, <3>2, <3>4 DEF Levels, MLFLevels
      <4>2. qs[RunQ(j)] = << >>
        BY <1>4, <4>1
      <4>3. QED BY <3>1, <4>2 DEF Contains
    <3>5. QED BY <3>3, <3>4
  <2>3. QED BY <2>1, <2>2, EmptyFact
<1>9. QED BY <1>8 DEF RunQs

(* Every switch of Next is of one of three forms. *)
LEMMA IdleLastStep ==
  ASSUME IInv, Next, current' = Idle, current # Idle
  PROVE  \A q \in RunQs : queues'[q] = << >>
<1>1. /\ queues \in Lists /\ Apart(queues) /\ maxLevel \in {1, MLFLevels} /\ current \in Thread
      /\ TypeOK
      /\ \A i \in Levels : \A u \in Thread : Contains(queues[RunQ(i)], u) =>
           i < maxLevel /\ (u = Idle => i = maxLevel - 1)
  BY ApartQueues DEF IInv, TypeOK, Lists, WhereInv, LevelAt
<1>2. ASSUME NEW q \in Queues, pc[current] # "gone", SwitchFrom(Enqueue(queues, q, current)),
             \A i \in Levels : q = RunQ(i) => i < maxLevel
      PROVE  \A p \in RunQs : queues'[p] = << >>
  <2> DEFINE rs == Enqueue(queues, q, current)
  <2>1. Absent(queues, current)
    BY <1>2 DEF IInv, WhereInv, CurrentInv, Unlinked, Absent
  <2>2. rs = Enqueue(queues, q, current) /\ SwitchFrom(rs)
    BY <1>2
  <2> HIDE DEF rs
  <2>3. /\ rs \in Lists /\ Apart(rs)
        /\ \A p \in Queues : \A u : Contains(rs[p], u)
                                      <=> Contains(queues[p], u) \/ (p = q /\ u = current)
    BY <1>1, <2>1, <2>2, EnqueueFact
  <2>4. \A i \in Levels : \A u \in Thread : Contains(rs[RunQ(i)], u) =>
          i < maxLevel /\ (u = Idle => i = maxLevel - 1)
    BY <1>1, <1>2, <2>3, QueueIds
  <2>5. QED BY <1>1, <2>2, <2>3, <2>4, IdleIsLast
<1>3. ASSUME pc[current] # "gone", SwitchFrom(MakeRunnable(queues, current))
      PROVE  \A p \in RunQs : queues'[p] = << >>
  <2> DEFINE i == ReadyLevel(current)
  <2>1. i \in Levels /\ i < maxLevel /\ SwitchFrom(Enqueue(queues, RunQ(i), current))
    BY <1>1, <1>3, ReadyLevelFact DEF MakeRunnable
  <2> HIDE DEF i
  <2>2. QED BY <1>2, <1>3, <2>1, QueueIds
<1>4. ASSUME pc[current] # "gone", NEW q \in WaitQs, WaitOn(q)
      PROVE  \A p \in RunQs : queues'[p] = << >>
  BY <1>2, <1>4, QueueIds DEF WaitOn
<1>5. ASSUME NEW t \in Workers, pc[current] # "gone", JoinLoop(t)
      PROVE  \A p \in RunQs : queues'[p] = << >>
  <2>1. WaitOn(JoinQ(t)) /\ JoinQ(t) \in WaitQs
    BY <1>5, QueueIds DEF JoinLoop, Thread
  <2>2. QED BY <1>4, <1>5, <2>1
<1>6. CASE Yield
  BY <1>3, <1>6 DEF Yield, Running
<1>7. CASE ReaperYield
  BY <1>3, <1>7 DEF ReaperYield, Running
<1>8. CASE InterruptReturn
  <2>1. SwitchFrom(MakeRunnable(queues, current))
    BY <1>8 DEF InterruptReturn, schedVars
  <2>2. pc[current] # "gone"
    BY <1>8 DEF InterruptReturn, IInv, CodeInv, Roles, OpenPC
  <2>3. QED BY <1>3, <2>1, <2>2
<1>9. CASE Block
  BY <1>4, <1>9, QueueIds DEF Block, WorkerAt, Running
<1>10. CASE ReaperCheck
  BY <1>4, <1>10, QueueIds DEF ReaperCheck, Running
<1>11. CASE \E t \in Workers : Join(t)
  BY <1>5, <1>11 DEF Join, WorkerAt, Running
<1>12. CASE JoinResume
  <2>1. /\ pc[current] = "join" /\ JoinLoop(arg[current]) /\ arg[current] \in Workers
    BY <1>1, <1>12 DEF JoinResume, WorkerAt, Running, IInv, CodeInv, CodeAt
  <2>2. QED BY <1>5, <2>1
<1>13. CASE ExitSchedule
  <2>1. SwitchFrom(queues)
    BY <1>13 DEF ExitSchedule
  <2>2. QED BY <1>1, <2>1, IdleIsLast
<1>14. ~(Yield \/ ReaperYield \/ InterruptReturn \/ Block \/ ReaperCheck
         \/ (\E t \in Workers : Join(t)) \/ JoinResume \/ ExitSchedule) => FALSE
  <2>1. /\ ~WakeNext /\ ~Start /\ ~Exit /\ ~DestructorDone /\ ~ExitDetach /\ ~ReaperDispose
        /\ ~WakeAll /\ ~WakeOne /\ ~SetPreemption /\ ~TimerInterrupt /\ ~DeviceInterrupt
    BY DEF WakeNext, Start, Exit, DestructorDone, ExitDetach, ReaperDispose, WakeAll, WakeOne,
           SetPreemption, TimerInterrupt, DeviceInterrupt, schedVars
  <2>2. /\ \A t \in Workers, detached \in BOOLEAN : ~Create(t, detached)
        /\ \A q \in Quanta : ~SetSchedulingPolicy(q)
    BY DEF Create, SetSchedulingPolicy, schedVars
  <2>3. QED BY <2>1, <2>2 DEF Next
<1>15. QED BY <1>6, <1>7, <1>8, <1>9, <1>10, <1>11, <1>12, <1>13, <1>14
-----------------------------------------------------------------------------
(* The theorems assume that processes wait only for children they have a    *)
(* reference to; the runs show what the code does when they do not.         *)

(* The inductive invariant is an invariant. *)
THEOREM Invariance ==
  ASSUME Waitable \subseteq {"owned"}
  PROVE  Spec => []IInv
<1>1. Init => IInv
  BY InitInv
<1>2. IInv /\ [Next]_vars => IInv'
  BY NextInv
<1>3. QED BY <1>1, <1>2, PTL DEF Spec

(* Every variable of the scheduler keeps its type: levels stay inside the   *)
(* four run queues, reference counts between 0 and 2 (kthread.c).           *)
THEOREM TypeCorrect ==
  ASSUME Waitable \subseteq {"owned"}
  PROVE  Spec => []TypeOK
<1>1. IInv => TypeOK
  BY DEF IInv
<1>2. QED BY <1>1, Invariance, PTL

(* A thread is linked on one list at a time, at most once: the single link  *)
(* of Kernel_Thread suffices for every queue of kthread.c.                  *)
THEOREM LinkExclusiveAlways ==
  ASSUME Waitable \subseteq {"owned"}
  PROVE  Spec => []LinkExclusive
<1>1. IInv => LinkExclusive
  BY DEF IInv
<1>2. QED BY <1>1, Invariance, PTL

(* No thread is lost or scheduled twice: the lists and the blocked, level   *)
(* and current variables always agree.                                      *)
THEOREM NoThreadIsLost ==
  ASSUME Waitable \subseteq {"owned"}
  PROVE  Spec => []NoThreadLost
<1>1. IInv => NoThreadLost
  BY InvNoThreadLost
<1>2. QED BY <1>1, Invariance, PTL

(* refCount is exact, and exactly the unreferenced dead threads are with    *)
(* the reaper (Detach_Thread, Reap_Thread).                                 *)
THEOREM RefCountIsExact ==
  ASSUME Waitable \subseteq {"owned"}
  PROVE  Spec => []RefCountExact
<1>1. IInv => RefCountExact
  BY InvRefCountExact
<1>2. QED BY <1>1, Invariance, PTL

(* The reaper never frees a thread that still runs, is waited for or has an *)
(* owner (Reaper, Destroy_Thread).                                          *)
THEOREM NothingFreedInUse ==
  ASSUME Waitable \subseteq {"owned"}
  PROVE  Spec => []ReapedNotInUse
<1>1. IInv => ReapedNotInUse
  BY InvReapedNotInUse
<1>2. QED BY <1>1, Invariance, PTL

(* Get_Next_Runnable always finds a thread: its KASSERT cannot fail. *)
THEOREM AlwaysARunnableThread ==
  ASSUME Waitable \subseteq {"owned"}
  PROVE  Spec => []IdleReady
<1>1. IInv => IdleReady
  BY InvIdleReady
<1>2. QED BY <1>1, Invariance, PTL

(* A thread blocked in Join has not missed the exit of its child, and it is *)
(* the child's owner (Join, Exit).                                          *)
THEOREM NoExitIsMissed ==
  ASSUME Waitable \subseteq {"owned"}
  PROVE  Spec => [](JoinNotMissed /\ OnlyOwnerJoins)
<1>1. IInv => JoinNotMissed /\ OnlyOwnerJoins
  BY InvJoinNotMissed
<1>2. QED BY <1>1, Invariance, PTL

(* No reference is dropped twice: KASSERT(refCount > 0) in Detach_Thread    *)
(* holds.                                                                   *)
THEOREM NoAssertionFails ==
  ASSUME Waitable \subseteq {"owned"}
  PROVE  Spec => []NoPanic
<1>1. IInv => NoPanic
  BY DEF IInv
<1>2. QED BY <1>1, Invariance, PTL

(* Preemption is only disabled while a worker runs its own code: Schedule   *)
(* is never entered with it disabled.                                       *)
THEOREM CriticalSectionsAreWorkers ==
  ASSUME Waitable \subseteq {"owned"}
  PROVE  Spec => []CriticalIsWorker
<1>1. IInv => CriticalIsWorker
  BY DEF IInv
<1>2. QED BY <1>1, Invariance, PTL

(* g_preemptionDisabled keeps the CPU: nothing but the thread itself gives  *)
(* it away (Handle_Interrupt).                                              *)
THEOREM CriticalSectionsAreNotPreempted ==
  ASSUME Waitable \subseteq {"owned"}
  PROVE  Spec => NoPreemptionInCritical
<1>1. IInv /\ [Next]_vars => [preemptionDisabled /\ current' # current => ~preemptionDisabled']_vars
  BY SwitchEnablesPreemption
<1>2. QED BY <1>1, Invariance, PTL DEF Spec, NoPreemptionInCritical

(* The idle thread takes the CPU only when nothing else is ready            *)
(* (Find_Best, Get_Next_Runnable), under both policies.                     *)
THEOREM IdleRunsLast ==
  ASSUME Waitable \subseteq {"owned"}
  PROVE  Spec => IdleLast
<1>1. IInv /\ [Next]_vars =>
        [current' = Idle /\ current # Idle => \A q \in RunQs : queues'[q] = << >>]_vars
  BY IdleLastStep
<1>2. QED BY <1>1, Invariance, PTL DEF Spec, IdleLast

=============================================================================
