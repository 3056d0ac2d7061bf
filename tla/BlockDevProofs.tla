---------------------------- MODULE BlockDevProofs ----------------------------
(***************************************************************************)
(* Proofs about BlockDev for any clients, drives, blocks and values.       *)
(***************************************************************************)
EXTENDS BlockDev, ListFacts, TLAPS

RequestType == [dev : Devices, type : {"read", "write"}, block : Blocks \cup BadBlocks,
                buf : Values]

-----------------------------------------------------------------------------
(* Queues *)

(* Enqueue_Request: a client not in the queue. *)
LEMMA AddFact ==
  ASSUME NEW q \in Seq(Clients), NEW c \in Clients
  PROVE  /\ Append(q, c) \in Seq(Clients)
         /\ \A u : Contains(Append(q, c), u) <=> Contains(q, u) \/ u = c
         /\ IsInjective(q) /\ ~Contains(q, c) => IsInjective(Append(q, c))
<1>1. /\ Append(q, c) \in Seq(Clients)
      /\ \A u : Contains(Append(q, c), u) <=> Contains(q, u) \/ u = c
      /\ Distinct(q) /\ ~Contains(q, c) => Distinct(Append(q, c))
  BY AppendFact
<1>2. QED BY <1>1 DEF IsInjective, Distinct

(* Dequeue_Request: the first client. *)
LEMMA TakeFact ==
  ASSUME NEW q \in Seq(Clients), q # << >>, IsInjective(q)
  PROVE  /\ Tail(q) \in Seq(Clients) /\ Head(q) \in Clients /\ Contains(q, Head(q))
         /\ IsInjective(Tail(q))
         /\ \A u : Contains(Tail(q), u) <=> Contains(q, u) /\ u # Head(q)
<1>1. Distinct(q)
  BY DEF IsInjective, Distinct
<1>2. /\ Tail(q) \in Seq(Clients) /\ Head(q) \in Clients /\ Contains(q, Head(q))
      /\ Distinct(Tail(q))
      /\ \A u : Contains(Tail(q), u) <=> Contains(q, u) /\ u # Head(q)
  BY <1>1, TailFact
<1>3. QED BY <1>2 DEF IsInjective, Distinct

LEMMA EmptyFact ==
  << >> \in Seq(Clients) /\ IsInjective(<< >>) /\ \A u : ~Contains(<< >>, u)
  BY DEF Contains, IsInjective

(* The drive of a request decides its driver. *)
LEMMA DriverFact ==
  /\ \A d \in Devices : DriverOf(d) \in Drivers
  /\ \A d \in Devices : DriverOf(d) = "floppy" <=> d \in Floppies
  BY BlockDevAssumption DEF DriverOf, Drivers, Devices

LEMMA InitInv == Init => IInv
<1> SUFFICES ASSUME Init PROVE IInv
  OBVIOUS
<1> USE BlockDevAssumption DEF Init, Drivers
<1>1. TypeOK
  <2>1. queue \in [Drivers -> Seq(Clients)]
    BY EmptyFact
  <2>2. disk \in [Devices -> [Blocks -> Values]]
    OBVIOUS
  <2>3. req \in [Clients -> {NoRequest} \cup RequestType]
    OBVIOUS
  <2>4. attempts \in 0 .. SeekAttempts
    BY DEF SeekAttempts
  <2>5. QED BY <2>1, <2>2, <2>3, <2>4 DEF TypeOK, RequestType
<1>2. DriverInv /\ FloppyInv
  BY DEF DriverInv, FloppyInv
<1>3. RequestInOnePlace
  BY EmptyFact DEF RequestInOnePlace, Holds
<1>4. NobodySleepsInVain
  BY DEF NobodySleepsInVain
<1>5. QED BY <1>1, <1>2, <1>3, <1>4 DEF IInv
-----------------------------------------------------------------------------
(* The client's steps *)

LEMMA PostStep ==
  ASSUME IInv, NEW c \in Clients, NEW r \in Requests, Post(c, r)
  PROVE  IInv'
<1> DEFINE k == DriverOf(r.dev)
<1>1. /\ r \in RequestType /\ r # NoRequest /\ k \in Drivers
      /\ r.dev \in Floppies => r.block \in Blocks
  BY BlockDevAssumption DEF Requests, Request, RequestType, Devices, DriverOf, Drivers
<1>2. \A j \in Drivers : ~Holds(j, c)
  BY DEF IInv, RequestInOnePlace, Post
<1>3. /\ queue' \in [Drivers -> Seq(Clients)]
      /\ \A j \in Drivers : j # k => queue'[j] = queue[j]
      /\ IsInjective(queue'[k])
      /\ \A u : Contains(queue'[k], u) <=> Contains(queue[k], u) \/ u = c
  <2>1. queue[k] \in Seq(Clients) /\ IsInjective(queue[k]) /\ ~Contains(queue[k], c)
    BY <1>1, <1>2 DEF IInv, TypeOK, RequestInOnePlace, Holds
  <2>2. queue' = [queue EXCEPT ![k] = Append(@, c)]
    BY DEF Post
  <2>3. QED BY <1>1, <2>1, <2>2, AddFact DEF IInv, TypeOK
<1>4. /\ req' = [req EXCEPT ![c] = r] /\ state' = [state EXCEPT ![c] = "PENDING"]
      /\ asleep' = asleep \ {k}
      /\ UNCHANGED <<disk, waiting, dpc, serving, rc, floppyVars, panic>>
  BY DEF Post
<1> HIDE DEF k
<1>5. TypeOK'
  BY <1>1, <1>3, <1>4 DEF IInv, TypeOK, RequestType, floppyVars
<1>6. DriverInv' /\ FloppyInv'
  BY <1>1, <1>4 DEF IInv, TypeOK, DriverInv, FloppyInv
<1>7. RequestInOnePlace'
  <2>1. ASSUME NEW j \in Drivers
        PROVE  IsInjective(queue'[j]) /\ ~Contains(queue'[j], serving'[j])
    BY <1>2, <1>3, <1>4, <2>1 DEF IInv, RequestInOnePlace, Holds
  <2>2. ASSUME NEW d \in Clients, NEW j \in Drivers
        PROVE  Holds(j, d)' <=> /\ req'[d] # NoRequest /\ state'[d] = "PENDING"
                                /\ j = DriverOf(req'[d].dev)
    <3>1. Holds(j, d)' <=> Holds(j, d) \/ (j = k /\ d = c)
      BY <1>3, <1>4 DEF Holds
    <3>2. CASE d = c
      BY <1>1, <1>2, <1>4, <3>1, <3>2 DEF IInv, TypeOK, k
    <3>3. CASE d # c
      BY <1>4, <3>1, <3>3 DEF IInv, TypeOK, RequestInOnePlace
    <3>4. QED BY <3>2, <3>3
  <2>3. QED BY <2>1, <2>2 DEF RequestInOnePlace
<1>8. NobodySleepsInVain'
  BY <1>1, <1>3, <1>4 DEF IInv, TypeOK, NobodySleepsInVain, floppyVars
<1>9. QED BY <1>5, <1>6, <1>7, <1>8 DEF IInv

LEMMA AwaitCompletionStep ==
  ASSUME IInv, NEW c \in Clients, AwaitCompletion(c)
  PROVE  IInv'
<1> USE DEF AwaitCompletion, floppyVars
<1>1. TypeOK'
  BY DEF IInv, TypeOK
<1>2. DriverInv' /\ FloppyInv'
  BY ZenonT(40) DEF IInv, TypeOK, DriverInv, FloppyInv
<1>3. RequestInOnePlace'
  <2>1. CASE UNCHANGED <<req, state>>
    BY <2>1 DEF IInv, RequestInOnePlace, Holds
  <2>2. CASE /\ state[c] # "PENDING" /\ req' = [req EXCEPT ![c] = NoRequest]
             /\ state' = [state EXCEPT ![c] = "PENDING"]
    <3>1. \A k \in Drivers : ~Holds(k, c)
      BY <2>2 DEF IInv, RequestInOnePlace
    <3>2. \A k \in Drivers, d \in Clients : Holds(k, d)' <=> Holds(k, d)
      BY DEF Holds
    <3>3. ASSUME NEW k \in Drivers, NEW d \in Clients
          PROVE  Holds(k, d)' <=> /\ req'[d] # NoRequest /\ state'[d] = "PENDING"
                                  /\ k = DriverOf(req'[d].dev)
      BY <2>2, <3>1, <3>2, ZenonT(40) DEF IInv, TypeOK, RequestInOnePlace
    <3>4. QED BY <3>3 DEF IInv, RequestInOnePlace
  <2>3. QED BY <2>1, <2>2
<1>4. NobodySleepsInVain'
  BY ZenonT(40) DEF IInv, TypeOK, NobodySleepsInVain
<1>5. QED BY <1>1, <1>2, <1>3, <1>4 DEF IInv
-----------------------------------------------------------------------------
(* The driver's steps *)

LEMMA DequeueRequestStep ==
  ASSUME IInv, NEW k \in Drivers, DequeueRequest(k)
  PROVE  IInv'
<1> USE DEF floppyVars, clientVars
<1>1. CASE queue[k] = << >>
  <2>1. /\ DriverAt(k, "dequeue") /\ asleep' = asleep \cup {k}
        /\ UNCHANGED <<queue, dpc, serving, disk, clientVars, rc, floppyVars, panic>>
    BY <1>1 DEF DequeueRequest
  <2>2. TypeOK'
    BY <2>1 DEF IInv, TypeOK
  <2>3. DriverInv' /\ FloppyInv'
    BY <2>1 DEF IInv, DriverInv, FloppyInv
  <2>4. RequestInOnePlace'
    BY <2>1 DEF IInv, RequestInOnePlace, Holds
  <2>5. NobodySleepsInVain'
    BY <1>1, <2>1 DEF IInv, NobodySleepsInVain, DriverAt
  <2>6. QED BY <2>2, <2>3, <2>4, <2>5 DEF IInv
<1>2. CASE queue[k] # << >>
  <2> DEFINE c == Head(queue[k])
  <2>1. /\ serving' = [serving EXCEPT ![k] = c] /\ queue' = [queue EXCEPT ![k] = Tail(@)]
        /\ dpc' = [dpc EXCEPT ![k] = "start"] /\ dpc[k] = "dequeue" /\ k \notin asleep
        /\ UNCHANGED <<asleep, disk, clientVars, rc, floppyVars, panic>>
    BY <1>2 DEF DequeueRequest, DriverAt
  <2>2. queue[k] \in Seq(Clients) /\ IsInjective(queue[k])
    BY DEF IInv, TypeOK, RequestInOnePlace
  <2>3. /\ c \in Clients /\ Contains(queue[k], c) /\ IsInjective(Tail(queue[k]))
        /\ Tail(queue[k]) \in Seq(Clients)
        /\ \A u : Contains(Tail(queue[k]), u) <=> Contains(queue[k], u) /\ u # c
    BY <1>2, <2>2, TakeFact
  <2> HIDE DEF c
  <2>4. TypeOK'
    BY <2>1, <2>3 DEF IInv, TypeOK
  <2>5. DriverInv' /\ FloppyInv'
    <3>1. c # NoClient
      BY <2>3, BlockDevAssumption
    <3>2. ASSUME NEW j \in Drivers
          PROVE  /\ dpc'[j] = "dequeue" <=> serving'[j] = NoClient
                 /\ dpc'[j] = "notify" <=> rc'[j] # "none"
      BY <2>1, <3>1 DEF IInv, TypeOK, DriverInv
    <3>3. dpc'["ide"] \in {"dequeue", "start", "notify"}
      BY <2>1 DEF IInv, TypeOK, DriverInv, Drivers
    <3>4. QED BY <2>1, <3>2, <3>3 DEF IInv, DriverInv, FloppyInv
  <2>6. RequestInOnePlace'
    <3>1. serving[k] = NoClient
      BY <2>1 DEF IInv, DriverInv
    <3>2. ASSUME NEW j \in Drivers, NEW d \in Clients PROVE Holds(j, d)' <=> Holds(j, d)
      BY <2>1, <2>3, <3>1, BlockDevAssumption DEF IInv, TypeOK, Holds
    <3>3. ASSUME NEW j \in Drivers
          PROVE  IsInjective(queue'[j]) /\ ~Contains(queue'[j], serving'[j])
      BY <2>1, <2>3 DEF IInv, TypeOK, RequestInOnePlace
    <3>4. QED BY <2>1, <3>2, <3>3 DEF IInv, RequestInOnePlace
  <2>7. NobodySleepsInVain'
    BY <2>1 DEF IInv, TypeOK, NobodySleepsInVain
  <2>8. QED BY <2>4, <2>5, <2>6, <2>7 DEF IInv
<1>3. QED BY <1>1, <1>2

(* A driver that stands at a label has a client whose request is pending.   *)
LEMMA ServedFact ==
  ASSUME IInv, NEW k \in Drivers, dpc[k] # "dequeue"
  PROVE  /\ serving[k] \in Clients /\ req[serving[k]] \in RequestType
         /\ req[serving[k]] # NoRequest /\ state[serving[k]] = "PENDING"
         /\ DriverOf(req[serving[k]].dev) = k
<1>1. serving[k] \in Clients
  BY DEF IInv, TypeOK, DriverInv
<1>2. Holds(k, serving[k])
  BY DEF Holds
<1>3. QED BY <1>1, <1>2 DEF IInv, TypeOK, RequestInOnePlace, RequestType

(* A transfer changes neither the client's drive nor its block. *)
LEMMA TransferFact ==
  ASSUME IInv, NEW c \in Clients, req[c] \in RequestType, req[c].block \in Blocks,
         Transfer(c) \/ UNCHANGED <<disk, req>>
  PROVE  /\ disk' \in [Devices -> [Blocks -> Values]]
         /\ \A d \in Clients : d # c => req'[d] = req[d]
         /\ req' \in [Clients -> {NoRequest} \cup RequestType] /\ req'[c] \in RequestType
         /\ req'[c].dev = req[c].dev /\ req'[c].block = req[c].block
<1>1. CASE UNCHANGED <<disk, req>>
  BY <1>1 DEF IInv, TypeOK, RequestType
<1>2. CASE Transfer(c) /\ req[c].type = "read"
  <2>1. req' = [req EXCEPT ![c].buf = disk[req[c].dev][req[c].block]] /\ disk' = disk
    BY <1>2 DEF Transfer
  <2>2. disk[req[c].dev][req[c].block] \in Values
    <3>1. disk \in [Devices -> [Blocks -> Values]]
      BY DEF IInv, TypeOK
    <3>2. req[c].dev \in Devices
      BY DEF RequestType
    <3>3. disk[req[c].dev] \in [Blocks -> Values]
      BY <3>1, <3>2
    <3>4. QED BY <3>3
  <2>3. /\ [req[c] EXCEPT !.buf = disk[req[c].dev][req[c].block]] \in RequestType
        /\ [req[c] EXCEPT !.buf = disk[req[c].dev][req[c].block]].dev = req[c].dev
        /\ [req[c] EXCEPT !.buf = disk[req[c].dev][req[c].block]].block = req[c].block
    <3> DEFINE v == disk[req[c].dev][req[c].block]
    <3>1. v \in Values
      BY <2>2
    <3> HIDE DEF v
    <3>2. [req[c] EXCEPT !.buf = v] \in RequestType
      BY <3>1 DEF RequestType
    <3>3. [req[c] EXCEPT !.buf = v].dev = req[c].dev /\ [req[c] EXCEPT !.buf = v].block = req[c].block
      BY DEF RequestType
    <3>4. QED BY <3>2, <3>3 DEF v
  <2>4. /\ req'[c] = [req[c] EXCEPT !.buf = disk[req[c].dev][req[c].block]]
        /\ \A d \in Clients : d # c => req'[d] = req[d]
        /\ req' \in [Clients -> {NoRequest} \cup RequestType]
    BY <2>1, <2>3 DEF IInv, TypeOK, RequestType
  <2>5. QED BY <2>1, <2>3, <2>4 DEF IInv, TypeOK
<1>3. CASE Transfer(c) /\ req[c].type # "read"
  <2>1. req' = req /\ disk' = [disk EXCEPT ![req[c].dev][req[c].block] = req[c].buf]
    BY <1>3 DEF Transfer
  <2>2. QED BY <2>1 DEF IInv, TypeOK, RequestType
<1>4. QED BY <1>1, <1>2, <1>3

(* The end of a transfer: a result is there, and nothing else has moved. *)
LEMMA FinishStep ==
  ASSUME IInv, NEW k \in Drivers, k \notin asleep, dpc[k] \notin {"dequeue", "notify"},
         NEW result \in {"ok", "error", "interrupts disabled"}, Finish(k, result),
         \/ req[serving[k]].block \in Blocks /\ Transfer(serving[k])
         \/ UNCHANGED <<disk, req>>,
         UNCHANGED <<state, waiting, queue, asleep, serving, floppyVars, panic>>
  PROVE  IInv'
<1> DEFINE c == serving[k]
<1> USE DEF floppyVars
<1>1. /\ c \in Clients /\ req[c] \in RequestType /\ req[c] # NoRequest
      /\ state[c] = "PENDING" /\ DriverOf(req[c].dev) = k
  BY ServedFact
<1>2. /\ disk' \in [Devices -> [Blocks -> Values]]
      /\ \A d \in Clients : d # c => req'[d] = req[d]
      /\ req' \in [Clients -> {NoRequest} \cup RequestType] /\ req'[c] \in RequestType
      /\ req'[c].dev = req[c].dev /\ req'[c].block = req[c].block
  <2>1. CASE UNCHANGED <<disk, req>>
    BY <1>1, <2>1 DEF IInv, TypeOK, RequestType
  <2>2. CASE req[c].block \in Blocks /\ Transfer(c)
    BY <1>1, <2>2, TransferFact
  <2>3. QED BY <2>1, <2>2
<1>3. req'[c] # NoRequest
  BY <1>2, BlockDevAssumption DEF RequestType
<1> HIDE DEF c
<1>4. TypeOK'
  BY <1>2 DEF IInv, TypeOK, RequestType, Finish
<1>5. DriverInv' /\ FloppyInv'
  <2>1. ASSUME NEW j \in Drivers
        PROVE  /\ dpc'[j] = "dequeue" <=> serving'[j] = NoClient
               /\ dpc'[j] = "notify" <=> rc'[j] # "none"
    BY DEF IInv, TypeOK, DriverInv, Finish
  <2>2. dpc'["ide"] \in {"dequeue", "start", "notify"}
    BY DEF IInv, TypeOK, DriverInv, Finish, Drivers
  <2>3. FloppyInv'
    BY <1>1, <1>2 DEF IInv, FloppyInv
  <2>4. QED BY <2>1, <2>2, <2>3 DEF DriverInv
<1>6. RequestInOnePlace'
  <2>1. \A j \in Drivers, d \in Clients : Holds(j, d)' <=> Holds(j, d)
    BY DEF Holds
  <2>2. ASSUME NEW j \in Drivers, NEW d \in Clients
        PROVE  Holds(j, d)' <=> /\ req'[d] # NoRequest /\ state'[d] = "PENDING"
                                /\ j = DriverOf(req'[d].dev)
    <3>1. CASE d = c
      BY <1>1, <1>2, <1>3, <2>1, <3>1 DEF IInv, RequestInOnePlace
    <3>2. CASE d # c
      BY <1>2, <2>1, <3>2 DEF IInv, RequestInOnePlace
    <3>3. QED BY <3>1, <3>2
  <2>3. QED BY <2>2 DEF IInv, RequestInOnePlace
<1>7. NobodySleepsInVain'
  BY <1>1, <1>2, <1>3, ZenonT(40) DEF IInv, TypeOK, NobodySleepsInVain, Finish
<1>8. QED BY <1>4, <1>5, <1>6, <1>7 DEF IInv
LEMMA IDETransferStep ==
  ASSUME IInv, IDETransfer
  PROVE  IInv'
<1> DEFINE c == serving["ide"]
<1>1. /\ "ide" \notin asleep /\ dpc["ide"] \notin {"dequeue", "notify"}
      /\ UNCHANGED <<state, waiting, queue, asleep, serving, floppyVars, panic>>
  BY DEF IDETransfer, DriverAt
<1>2. PICK result \in {"ok", "error", "interrupts disabled"} :
        /\ Finish("ide", result)
        /\ \/ req[c].block \in Blocks /\ Transfer(c)
           \/ UNCHANGED <<disk, req>>
  BY DEF IDETransfer, FailedTransfer
<1>3. "ide" \in Drivers
  BY DEF Drivers
<1>4. QED BY <1>1, <1>2, <1>3, FinishStep

LEMMA FloppyTransferredStep ==
  ASSUME IInv, FloppyTransferred
  PROVE  IInv'
<1> DEFINE c == serving["floppy"]
<1>1. /\ "floppy" \in Drivers /\ "floppy" \notin asleep
      /\ dpc["floppy"] \notin {"dequeue", "notify"}
      /\ UNCHANGED <<state, waiting, queue, asleep, serving, floppyVars, panic>>
  BY DEF FloppyTransferred, DriverAt, Drivers
<1>2. req[c].block \in Blocks
  BY <1>1, ServedFact, DriverFact DEF IInv, FloppyInv, RequestType
<1>3. PICK result \in {"ok", "error", "interrupts disabled"} :
        Finish("floppy", result) /\ (Transfer(c) \/ UNCHANGED <<disk, req>>)
  BY DEF FloppyTransferred, FailedTransfer
<1>4. QED BY <1>1, <1>2, <1>3, FinishStep

(* The steps of the floppy thread between two requests' ends. *)
LEMMA FloppyStep ==
  ASSUME IInv, NEW from \in {"start", "seek", "sought", "transfer"}, DriverAt("floppy", from),
         NEW to \in {"seek", "sought", "transfer", "transferred"},
         dpc' = [dpc EXCEPT !["floppy"] = to],
         UNCHANGED <<disk, clientVars, queue, asleep, serving, rc, panic>>,
         attempts' \in 0 .. SeekAttempts, command' \in BOOLEAN, irqWait' \in BOOLEAN,
         irqWait' => command'
  PROVE  IInv'
<1> USE DEF clientVars
<1>1. "floppy" \in Drivers /\ "floppy" \notin asleep /\ dpc["floppy"] = from
  BY DEF DriverAt, Drivers
<1>2. TypeOK'
  BY DEF IInv, TypeOK
<1>3. DriverInv' /\ FloppyInv'
  <2>1. ASSUME NEW j \in Drivers
        PROVE  /\ dpc'[j] = "dequeue" <=> serving'[j] = NoClient
               /\ dpc'[j] = "notify" <=> rc'[j] # "none"
    BY <1>1 DEF IInv, TypeOK, DriverInv
  <2>2. dpc'["ide"] \in {"dequeue", "start", "notify"}
    BY <1>1 DEF IInv, TypeOK, DriverInv, Drivers
  <2>3. QED BY <2>1, <2>2 DEF IInv, DriverInv, FloppyInv
<1>4. RequestInOnePlace'
  BY DEF IInv, RequestInOnePlace, Holds
<1>5. NobodySleepsInVain'
  BY <1>1 DEF IInv, TypeOK, NobodySleepsInVain
<1>6. QED BY <1>2, <1>3, <1>4, <1>5 DEF IInv

LEMMA FloppySoughtStep ==
  ASSUME IInv, FloppySought
  PROVE  IInv'
<1>1. /\ "floppy" \in Drivers /\ DriverAt("floppy", "sought")
      /\ UNCHANGED <<disk, clientVars, queue, asleep, serving, floppyVars, panic>>
  BY DEF FloppySought, Drivers
<1>2. CASE Finish("floppy", "error")
  BY <1>1, <1>2, FinishStep DEF DriverAt, clientVars
<1>3. ASSUME NEW to \in {"seek", "transfer"}, dpc' = [dpc EXCEPT !["floppy"] = to], rc' = rc
      PROVE  IInv'
  <2>1. /\ attempts' \in 0 .. SeekAttempts /\ command' \in BOOLEAN /\ irqWait' \in BOOLEAN
        /\ irqWait' => command'
    BY <1>1 DEF IInv, TypeOK, NobodySleepsInVain, floppyVars
  <2>2. QED BY <1>1, <1>3, <2>1, FloppyStep
<1>4. QED BY <1>2, <1>3 DEF FloppySought

LEMMA FloppyIssueStep ==
  ASSUME IInv, FloppyStart \/ FloppySeek \/ FloppyTransfer
  PROVE  IInv'
<1>1. attempts \in 0 .. SeekAttempts /\ SeekAttempts \in Nat
  BY DEF IInv, TypeOK, SeekAttempts
<1>2. CASE FloppyStart
  <2>1. command \in BOOLEAN /\ irqWait \in BOOLEAN /\ (irqWait => command)
    BY DEF IInv, TypeOK, NobodySleepsInVain
  <2>2. QED BY <1>1, <1>2, <2>1, FloppyStep DEF FloppyStart
<1>3. CASE FloppySeek
  BY <1>1, <1>3, FloppyStep DEF FloppySeek, FloppyIssue
<1>4. CASE FloppyTransfer
  BY <1>1, <1>4, FloppyStep DEF FloppyTransfer, FloppyIssue
<1>5. QED BY <1>2, <1>3, <1>4

LEMMA FloppyInterruptStep ==
  ASSUME IInv, FloppyInterrupt
  PROVE  IInv'
<1> USE DEF FloppyInterrupt, clientVars
<1>1. TypeOK'
  BY DEF IInv, TypeOK
<1>2. DriverInv' /\ FloppyInv'
  BY DEF IInv, DriverInv, FloppyInv
<1>3. RequestInOnePlace'
  BY DEF IInv, RequestInOnePlace, Holds
<1>4. NobodySleepsInVain'
  BY DEF IInv, NobodySleepsInVain
<1>5. QED BY <1>1, <1>2, <1>3, <1>4 DEF IInv

LEMMA NotifyCompletionStep ==
  ASSUME IInv, NEW k \in Drivers, NotifyCompletion(k)
  PROVE  IInv'
<1> USE DEF floppyVars
<1>1. CASE rc[k] = "interrupts disabled"
  <2>1. /\ panic' = TRUE
        /\ UNCHANGED <<state, waiting, serving, rc, dpc, disk, req, queue, asleep, floppyVars>>
    BY <1>1 DEF NotifyCompletion
  <2>2. TypeOK'
    BY <2>1 DEF IInv, TypeOK
  <2>3. DriverInv' /\ FloppyInv' /\ NobodySleepsInVain'
    BY <2>1 DEF IInv, DriverInv, FloppyInv, NobodySleepsInVain
  <2>4. RequestInOnePlace'
    BY <2>1 DEF IInv, RequestInOnePlace, Holds
  <2>5. QED BY <2>2, <2>3, <2>4 DEF IInv
<1>2. CASE rc[k] # "interrupts disabled"
  <2> DEFINE c == serving[k]
             result == IF rc[k] = "ok" THEN "COMPLETED" ELSE "ERROR"
  <2>1. /\ state' = [state EXCEPT ![c] = result] /\ waiting' = waiting \ {c}
        /\ serving' = [serving EXCEPT ![k] = NoClient] /\ rc' = [rc EXCEPT ![k] = "none"]
        /\ dpc' = [dpc EXCEPT ![k] = "dequeue"] /\ dpc[k] = "notify" /\ k \notin asleep
        /\ UNCHANGED <<disk, req, queue, asleep, floppyVars, panic>>
    BY <1>2 DEF NotifyCompletion, DriverAt
  <2>2. /\ c \in Clients /\ req[c] # NoRequest /\ state[c] = "PENDING"
        /\ DriverOf(req[c].dev) = k
    BY <2>1, ServedFact
  <2>3. result \in {"COMPLETED", "ERROR"}
    OBVIOUS
  <2>4. serving[k] = c
    OBVIOUS
  <2> HIDE DEF c, result
  <2>5. TypeOK'
    BY <2>1, <2>3 DEF IInv, TypeOK
  <2>6. DriverInv' /\ FloppyInv'
    <3>1. ASSUME NEW j \in Drivers
          PROVE  /\ dpc'[j] = "dequeue" <=> serving'[j] = NoClient
                 /\ dpc'[j] = "notify" <=> rc'[j] # "none"
      BY <2>1 DEF IInv, TypeOK, DriverInv
    <3>2. dpc'["ide"] \in {"dequeue", "start", "notify"}
      BY <2>1 DEF IInv, TypeOK, DriverInv, Drivers
    <3>3. QED BY <2>1, <3>1, <3>2 DEF IInv, DriverInv, FloppyInv
  <2>7. RequestInOnePlace'
    <3>1. \A j \in Drivers : Holds(j, c) <=> j = k
      BY <2>2 DEF IInv, RequestInOnePlace
    <3>2. ~Contains(queue[k], c)
      BY <2>4 DEF IInv, RequestInOnePlace
    <3>3. ASSUME NEW j \in Drivers, NEW d \in Clients
          PROVE  Holds(j, d)' <=> Holds(j, d) /\ d # c
      <4>1. CASE j = k
        BY <2>1, <2>4, <3>2, <4>1, BlockDevAssumption DEF IInv, TypeOK, Holds
      <4>2. CASE j # k
        BY <2>1, <3>1, <4>2 DEF IInv, TypeOK, Holds
      <4>3. QED BY <4>1, <4>2
    <3>4. ASSUME NEW j \in Drivers
          PROVE  IsInjective(queue'[j]) /\ ~Contains(queue'[j], serving'[j])
      <4>1. NoClient \notin Clients /\ queue[j] \in Seq(Clients)
        BY BlockDevAssumption DEF IInv, TypeOK
      <4>2. ~Contains(queue[j], NoClient)
        BY <4>1 DEF Contains
      <4>3. QED BY <2>1, <4>2 DEF IInv, TypeOK, RequestInOnePlace
    <3>5. ASSUME NEW j \in Drivers, NEW d \in Clients
          PROVE  Holds(j, d)' <=> /\ req'[d] # NoRequest /\ state'[d] = "PENDING"
                                  /\ j = DriverOf(req'[d].dev)
      BY <2>1, <2>2, <2>3, <3>3 DEF IInv, TypeOK, RequestInOnePlace
    <3>6. QED BY <3>4, <3>5 DEF RequestInOnePlace
  <2>8. NobodySleepsInVain'
    BY <2>1 DEF IInv, TypeOK, NobodySleepsInVain
  <2>9. QED BY <2>5, <2>6, <2>7, <2>8 DEF IInv
<1>3. QED BY <1>1, <1>2
-----------------------------------------------------------------------------
(* The invariant, and what follows from it *)

LEMMA NextInv == IInv /\ [Next]_vars => IInv'
<1> SUFFICES ASSUME IInv, [Next]_vars PROVE IInv'
  OBVIOUS
<1>1. CASE UNCHANGED vars
  <2> USE <1>1 DEF vars, clientVars, floppyVars
  <2>1. TypeOK'
    BY DEF IInv, TypeOK
  <2>2. DriverInv' /\ FloppyInv' /\ NobodySleepsInVain'
    BY DEF IInv, DriverInv, FloppyInv, NobodySleepsInVain
  <2>3. RequestInOnePlace'
    BY DEF IInv, RequestInOnePlace, Holds
  <2>4. QED BY <2>1, <2>2, <2>3 DEF IInv
<1>2. ASSUME NEW c \in Clients, NEW r \in Requests, Post(c, r) PROVE IInv'
  BY <1>2, PostStep
<1>3. ASSUME NEW c \in Clients, AwaitCompletion(c) PROVE IInv'
  BY <1>3, AwaitCompletionStep
<1>4. ASSUME NEW k \in Drivers, Driver(k) PROVE IInv'
  BY <1>4, DequeueRequestStep, NotifyCompletionStep, IDETransferStep, FloppyIssueStep,
     FloppySoughtStep, FloppyTransferredStep DEF Driver
<1>5. CASE FloppyInterrupt
  BY <1>5, FloppyInterruptStep
<1>6. QED BY <1>1, <1>2, <1>3, <1>4, <1>5 DEF Next

(* The inductive invariant holds throughout: the request queues and driver  *)
(* threads of blockdev.c, ide.c and floppy.c under any schedule.            *)
THEOREM Invariance == Spec => []IInv
<1>1. Init => IInv
  BY InitInv
<1>2. IInv /\ [Next]_vars => IInv'
  BY NextInv
<1>3. QED BY <1>1, <1>2, PTL DEF Spec

(* Every variable keeps its type. *)
THEOREM TypeCorrect == Spec => []TypeOK
<1>1. IInv => TypeOK
  BY DEF IInv
<1>2. QED BY <1>1, Invariance, PTL

(* A driver touches a request only between its posting and its completion,  *)
(* for any number of clients and drives: never one that Do_Request freed.   *)
THEOREM RequestsInOnePlace == Spec => []RequestInOnePlace
<1>1. IInv => RequestInOnePlace
  BY DEF IInv
<1>2. QED BY <1>1, Invariance, PTL

(* No wakeup is lost: Post_Request_And_Wait, Dequeue_Request and            *)
(* Floppy_Interrupt_Handler leave nobody asleep with work to do.            *)
THEOREM NobodySleeps == Spec => []NobodySleepsInVain
<1>1. IInv => NobodySleepsInVain
  BY DEF IInv
<1>2. QED BY <1>1, Invariance, PTL
-----------------------------------------------------------------------------
(* The disk *)

(* The abstract state of a request: a driver that has transferred it and    *)
(* not yet notified its client is the one that holds it.                    *)
LEMMA AbsStateFact ==
  ASSUME IInv, NEW c \in Clients
  PROVE  /\ req[c] # NoRequest /\ state[c] = "COMPLETED" => AbsState(c) = "done"
         /\ req[c] # NoRequest /\ state[c] = "ERROR" => AbsState(c) = "failed"
         /\ \A k \in Drivers : k \in Finished(c) =>
              AbsState(c) = IF rc[k] = "ok" THEN "done" ELSE "failed"
         /\ req[c] # NoRequest /\ state[c] = "PENDING" /\ Finished(c) = {}
              => AbsState(c) = "pending"
<1>1. \A k \in Finished(c) : /\ k \in Drivers /\ req[c] # NoRequest /\ state[c] = "PENDING"
                             /\ k = DriverOf(req[c].dev)
  BY DEF IInv, RequestInOnePlace, Holds, Finished
<1>2. QED BY <1>1 DEF AbsState

(* Where no driver takes or gives up a finished request, requests whose     *)
(* fields stay keep their abstract state.                                   *)
LEMMA AbsStateKept ==
  ASSUME NEW c \in Clients, Finished(c)' = Finished(c), \A k \in Finished(c) : rc'[k] = rc[k],
         (req'[c] = NoRequest) <=> (req[c] = NoRequest), state'[c] = state[c]
  PROVE  AbsState(c)' = AbsState(c)
  BY DEF AbsState

LEMMA PostRefines ==
  ASSUME IInv, NEW c \in Clients, NEW r \in Requests, Post(c, r)
  PROVE  Abs!Invoke(c, r)
<1> DEFINE st == [d \in Clients |-> AbsState(d)]
<1>1. /\ req[c] = NoRequest /\ req' = [req EXCEPT ![c] = r] /\ r # NoRequest
      /\ state' = [state EXCEPT ![c] = "PENDING"] /\ UNCHANGED <<disk, dpc, serving, rc>>
  BY BlockDevAssumption DEF Post, Requests, Request, Devices
<1>2. \A d : Finished(d)' = Finished(d)
  BY <1>1 DEF Finished
<1>3. Finished(c) = {}
  BY <1>1 DEF IInv, RequestInOnePlace, Holds, Finished
<1>4. req'[c] = r /\ state'[c] = "PENDING"
  BY <1>1 DEF IInv, TypeOK
<1>5. st[c] = "none" /\ AbsState(c)' = "pending"
  BY <1>1, <1>2, <1>3, <1>4 DEF AbsState
<1>6. ASSUME NEW d \in Clients, d # c PROVE AbsState(d)' = AbsState(d)
  BY <1>1, <1>2, <1>6, AbsStateKept DEF IInv, TypeOK
<1>7. st' = [st EXCEPT ![c] = "pending"]
  BY <1>5, <1>6
<1>8. QED BY <1>1, <1>5, <1>7 DEF Abs!Invoke, AbsDisk

LEMMA ReturnRefines ==
  ASSUME IInv, NEW c \in Clients, AwaitCompletion(c)
  PROVE  Abs!Return(c) \/ UNCHANGED Abs!vars
<1> DEFINE st == [d \in Clients |-> AbsState(d)]
<1>1. /\ UNCHANGED <<disk, dpc, serving, rc>> /\ req[c] # NoRequest
      /\ \A d : Finished(d)' = Finished(d)
  BY DEF AwaitCompletion, Finished
<1>2. CASE UNCHANGED <<req, state>>
  BY <1>1, <1>2 DEF Abs!vars, AbsDisk, AbsState
<1>3. CASE /\ state[c] # "PENDING" /\ req' = [req EXCEPT ![c] = NoRequest]
           /\ state' = [state EXCEPT ![c] = "PENDING"]
  <2>1. st[c] \in {"done", "failed"}
    BY <1>1, <1>3, AbsStateFact DEF IInv, TypeOK
  <2>2. AbsState(c)' = "none"
    BY <1>3 DEF AbsState, IInv, TypeOK
  <2>3. ASSUME NEW d \in Clients, d # c PROVE AbsState(d)' = AbsState(d)
    BY <1>1, <1>3, <2>3, AbsStateKept DEF IInv, TypeOK
  <2>4. st' = [st EXCEPT ![c] = "none"]
    BY <2>2, <2>3
  <2>5. QED BY <1>1, <1>3, <2>1, <2>4 DEF Abs!Return, AbsDisk
<1>4. QED BY <1>2, <1>3 DEF AwaitCompletion

(* The driver's transfer is the instant at which the request takes effect,  *)
(* or fails.                                                                *)
LEMMA FinishState ==
  ASSUME IInv, NEW k \in Drivers, dpc[k] \notin {"dequeue", "notify"},
         NEW c, serving[k] = c,
         NEW result \in {"ok", "error", "interrupts disabled"}, Finish(k, result),
         (req[c].block \in Blocks /\ Transfer(c)) \/ UNCHANGED <<disk, req>>,
         UNCHANGED <<state, serving>>
  PROVE  /\ c \in Clients /\ req[c] \in RequestType /\ AbsState(c) = "pending"
         /\ [d \in Clients |-> AbsState(d)]' =
              [[d \in Clients |-> AbsState(d)]
                 EXCEPT ![c] = IF result = "ok" THEN "done" ELSE "failed"]
<1>1. /\ c \in Clients /\ req[c] \in RequestType /\ req[c] # NoRequest
      /\ state[c] = "PENDING" /\ DriverOf(req[c].dev) = k
  BY ServedFact
<1>2. /\ \A d \in Clients : d # c => req'[d] = req[d]
      /\ req'[c] \in RequestType
  BY <1>1, TransferFact
<1>3. serving[k] = c
  OBVIOUS
<1>4. Finished(c) = {}
  <2>1. \A j \in Finished(c) : j = k
    BY <1>1 DEF IInv, RequestInOnePlace, Holds, Finished
  <2>2. QED BY <2>1 DEF Finished
<1>5. /\ rc'[k] = result /\ dpc'[k] = "notify"
      /\ \A j \in Drivers : j # k => rc'[j] = rc[j] /\ dpc'[j] = dpc[j]
  BY DEF Finish, IInv, TypeOK
<1>6. Finished(c)' = {k}
  <2>1. \A j \in Drivers : j \in Finished(c)' <=> j = k
    BY <1>3, <1>4, <1>5 DEF Finished
  <2>2. QED BY <2>1 DEF Finished
<1>7. AbsState(c)' = IF result = "ok" THEN "done" ELSE "failed"
  <2>1. req'[c] # NoRequest /\ state'[c] = "PENDING"
    BY <1>1, <1>2, BlockDevAssumption DEF RequestType
  <2>2. QED BY <1>5, <1>6, <2>1 DEF AbsState
<1>8. ASSUME NEW d \in Clients, d # c PROVE AbsState(d)' = AbsState(d)
  <2>1. Finished(d)' = Finished(d) /\ \A j \in Finished(d) : rc'[j] = rc[j]
    BY <1>3, <1>5, <1>8 DEF Finished
  <2>2. QED BY <1>2, <1>8, <2>1, AbsStateKept
<1>9. AbsState(c) = "pending"
  BY <1>1, <1>4, AbsStateFact
<1> DEFINE st == [d \in Clients |-> AbsState(d)]
<1>10. st' = [st EXCEPT ![c] = IF result = "ok" THEN "done" ELSE "failed"]
  BY <1>7, <1>8
<1>11. QED BY <1>1, <1>9, <1>10
LEMMA TransferRefines ==
  ASSUME IInv, NEW k \in Drivers, dpc[k] \notin {"dequeue", "notify"},
         NEW c, serving[k] = c, req[c].block \in Blocks, Transfer(c),
         NEW result \in {"ok", "error", "interrupts disabled"}, Finish(k, result),
         UNCHANGED <<state, serving>>
  PROVE  /\ result = "ok" => Abs!Transfer(c)
         /\ result # "ok" /\ req[c].type = "write" => Abs!Fail(c)
<1> DEFINE st == [d \in Clients |-> AbsState(d)]
           ds == [d \in Devices |-> AbsDisk(d)]
<1>1. /\ c \in Clients /\ req[c] \in RequestType /\ st[c] = "pending"
      /\ st' = [st EXCEPT ![c] = IF result = "ok" THEN "done" ELSE "failed"]
  BY FinishState, ZenonT(40)
<1>2. req[c].dev \in Devices /\ req[c].type \in {"read", "write"}
  BY <1>1 DEF RequestType
<1> HIDE DEF st
<1>3. CASE req[c].type = "read"
  <2>1. req' = [req EXCEPT ![c].buf = disk[req[c].dev][req[c].block]] /\ disk' = disk
    BY <1>3 DEF Transfer
  <2>2. ds[req[c].dev][req[c].block] = disk[req[c].dev][req[c].block] /\ ds' = ds
    BY <1>2, <2>1 DEF AbsDisk
  <2>3. QED BY <1>1, <1>3, <2>1, <2>2 DEF Abs!Transfer, st
<1>4. CASE req[c].type = "write"
  <2>1. req' = req /\ disk' = [disk EXCEPT ![req[c].dev][req[c].block] = req[c].buf]
    BY <1>4 DEF Transfer
  <2>2. ds' = [ds EXCEPT ![req[c].dev][req[c].block] = req[c].buf]
    <3>1. disk \in [Devices -> [Blocks -> Values]]
      BY DEF IInv, TypeOK
    <3>2. \A d \in Devices : d # req[c].dev => ds'[d] = ds[d]
      BY <1>2, <2>1, <3>1 DEF AbsDisk
    <3>3. ds'[req[c].dev] = [ds[req[c].dev] EXCEPT ![req[c].block] = req[c].buf]
      BY <1>2, <2>1, <3>1 DEF AbsDisk
    <3>4. ds' = [d \in Devices |-> ds'[d]] /\ ds = [d \in Devices |-> ds[d]]
      OBVIOUS
    <3> HIDE DEF ds
    <3>5. QED BY <1>2, <3>2, <3>3, <3>4
  <2>3. QED BY <1>1, <1>4, <2>1, <2>2 DEF Abs!Transfer, Abs!Fail, st
<1>5. QED BY <1>2, <1>3, <1>4

LEMMA FailRefines ==
  ASSUME IInv, NEW k \in Drivers, dpc[k] \notin {"dequeue", "notify"},
         NEW c, serving[k] = c, UNCHANGED <<disk, req>>,
         NEW result \in {"error", "interrupts disabled"}, Finish(k, result),
         UNCHANGED <<state, serving>>
  PROVE  c \in Clients /\ Abs!Fail(c)
<1> DEFINE st == [d \in Clients |-> AbsState(d)]
<1>1. c \in Clients /\ st[c] = "pending" /\ st' = [st EXCEPT ![c] = "failed"]
  BY FinishState, ZenonT(40)
<1> HIDE DEF st
<1>2. QED BY <1>1 DEF Abs!Fail, AbsDisk, st

LEMMA DriverRefines ==
  ASSUME IInv, NEW k \in Drivers, Driver(k)
  PROVE  (\E c \in Clients : Abs!Transfer(c) \/ Abs!Fail(c)) \/ UNCHANGED Abs!vars
<1> DEFINE Q == (\E c \in Clients : Abs!Transfer(c) \/ Abs!Fail(c)) \/ UNCHANGED Abs!vars
<1> USE DEF clientVars, floppyVars
<1>1. ASSUME UNCHANGED <<disk, req, state, rc>>, \A c : Finished(c)' = Finished(c) PROVE Q
  BY <1>1 DEF Abs!vars, AbsDisk, AbsState
<1>2. CASE DequeueRequest(k)
  <2>1. ASSUME NEW j \in Drivers, NEW c \in Clients
        PROVE  (serving'[j] = c /\ dpc'[j] = "notify") <=> (serving[j] = c /\ dpc[j] = "notify")
    BY <1>2 DEF DequeueRequest, DriverAt, IInv, TypeOK
  <2>2. UNCHANGED <<disk, req, state, rc>>
    BY <1>2 DEF DequeueRequest
  <2>3. ASSUME NEW c \in Clients PROVE AbsState(c)' = AbsState(c)
    <3>1. Finished(c)' = Finished(c)
      BY <2>1 DEF Finished
    <3>2. QED BY <2>2, <3>1, AbsStateKept
  <2>4. QED BY <2>2, <2>3 DEF Abs!vars, AbsDisk
<1>3. CASE k = "ide" /\ IDETransfer
  <2> DEFINE c == serving[k]
  <2>1. /\ dpc[k] \notin {"dequeue", "notify"} /\ UNCHANGED <<state, serving>>
        /\ c \in Clients /\ req[c] \in RequestType
    BY <1>3, ServedFact DEF IDETransfer, DriverAt
  <2>2. CASE Finish(k, "ok") /\ req[c].block \in Blocks /\ Transfer(c)
    BY <2>1, <2>2, TransferRefines
  <2>3. CASE /\ Finish(k, "interrupts disabled") /\ req[c].block \in Blocks
             /\ req[c].type = "write" /\ Transfer(c)
    BY <2>1, <2>3, TransferRefines
  <2>4. ASSUME NEW result \in {"error", "interrupts disabled"}, Finish(k, result),
               UNCHANGED <<disk, req>>
        PROVE  Q
    BY <2>1, <2>4, FailRefines
  <2>5. QED BY <1>3, <2>2, <2>3, <2>4 DEF IDETransfer, FailedTransfer
<1>4. CASE k = "floppy" /\ FloppyTransferred
  <2> DEFINE c == serving[k]
  <2>1. /\ dpc[k] \notin {"dequeue", "notify"} /\ UNCHANGED <<state, serving>>
        /\ c \in Clients /\ req[c] \in RequestType /\ req[c] # NoRequest
        /\ DriverOf(req[c].dev) = "floppy"
    BY <1>4, ServedFact DEF FloppyTransferred, DriverAt
  <2>2. req[c].block \in Blocks
    BY <2>1, DriverFact DEF IInv, FloppyInv, RequestType
  <2>3. CASE Finish(k, "ok") /\ Transfer(c)
    BY <2>1, <2>2, <2>3, TransferRefines
  <2>4. CASE Finish(k, "error") /\ req[c].type = "write" /\ Transfer(c)
    BY <2>1, <2>2, <2>4, TransferRefines
  <2>5. CASE Finish(k, "error") /\ UNCHANGED <<disk, req>>
    BY <2>1, <2>5, FailRefines
  <2>6. QED BY <1>4, <2>3, <2>4, <2>5 DEF FloppyTransferred, FailedTransfer
<1>5. ASSUME k = "floppy", dpc[k] # "notify",
             NEW to \in {"seek", "sought", "transfer", "transferred"},
             dpc' = [dpc EXCEPT !["floppy"] = to], UNCHANGED <<disk, req, state, rc, serving>>
      PROVE  Q
  <2>1. \A j \in Drivers : dpc'[j] = "notify" <=> dpc[j] = "notify"
    BY <1>5 DEF IInv, TypeOK
  <2>2. \A c : Finished(c)' = Finished(c)
    BY <1>5, <2>1 DEF Finished
  <2>3. QED BY <1>1, <1>5, <2>2
<1>6. CASE k = "floppy" /\ (FloppyStart \/ FloppySeek \/ FloppyTransfer)
  BY <1>5, <1>6 DEF FloppyStart, FloppySeek, FloppyTransfer, FloppyIssue, DriverAt
<1>7. CASE k = "floppy" /\ FloppySought
  <2>1. /\ dpc[k] \notin {"dequeue", "notify"} /\ UNCHANGED <<disk, req, state, serving>>
    BY <1>7 DEF FloppySought, DriverAt
  <2>2. CASE Finish(k, "error")
    BY <2>1, <2>2, FailRefines
  <2>3. QED BY <1>5, <1>7, <2>1, <2>2 DEF FloppySought
<1>8. CASE NotifyCompletion(k) /\ rc[k] = "interrupts disabled"
  <2>1. UNCHANGED <<disk, req, state, rc, serving, dpc>>
    BY <1>8 DEF NotifyCompletion
  <2>2. QED BY <1>1, <2>1 DEF Finished
<1>9. CASE NotifyCompletion(k) /\ rc[k] # "interrupts disabled"
  <2>1. PICK c \in Clients : /\ serving[k] = c /\ state[c] = "PENDING" /\ req[c] # NoRequest
    BY <1>9, ServedFact DEF NotifyCompletion, DriverAt
  <2>2. /\ state' = [state EXCEPT ![c] = IF rc[k] = "ok" THEN "COMPLETED" ELSE "ERROR"]
        /\ serving' = [serving EXCEPT ![k] = NoClient] /\ rc' = [rc EXCEPT ![k] = "none"]
        /\ dpc' = [dpc EXCEPT ![k] = "dequeue"] /\ dpc[k] = "notify"
        /\ UNCHANGED <<disk, req>>
    BY <1>9, <2>1 DEF NotifyCompletion, DriverAt
  <2>3. \A j \in Drivers : j # k => /\ serving'[j] = serving[j] /\ dpc'[j] = dpc[j]
                                    /\ rc'[j] = rc[j]
    BY <2>2 DEF IInv, TypeOK
  <2>4. serving'[k] = NoClient /\ NoClient \notin Clients /\ dpc'[k] = "dequeue"
    BY <2>2, BlockDevAssumption DEF IInv, TypeOK
  <2>5. AbsState(c)' = AbsState(c)
    <3>1. AbsState(c) = IF rc[k] = "ok" THEN "done" ELSE "failed"
      BY <2>1, <2>2, AbsStateFact DEF Finished
    <3>2. state'[c] = IF rc[k] = "ok" THEN "COMPLETED" ELSE "ERROR"
      BY <2>2 DEF IInv, TypeOK
    <3>3. Finished(c)' = {}
      <4>1. ASSUME NEW j \in Drivers PROVE j \notin Finished(c)'
        <5>1. CASE j = k
          BY <2>4, <5>1 DEF Finished
        <5>2. CASE j # k
          <6>1. serving[j] # c
            BY <2>1, <5>2 DEF IInv, RequestInOnePlace, Holds
          <6>2. QED BY <2>3, <5>2, <6>1 DEF Finished
        <5>3. QED BY <5>1, <5>2
      <4>2. QED BY <4>1 DEF Finished
    <3>4. QED BY <2>1, <2>2, <3>1, <3>2, <3>3 DEF AbsState
  <2>6. ASSUME NEW d \in Clients, d # c PROVE AbsState(d)' = AbsState(d)
    <3>1. Finished(d)' = Finished(d) /\ \A j \in Finished(d) : rc'[j] = rc[j]
      BY <2>1, <2>3, <2>4, <2>6 DEF Finished
    <3>2. state'[d] = state[d]
      BY <2>2, <2>6 DEF IInv, TypeOK
    <3>3. QED BY <2>2, <3>1, <3>2, AbsStateKept
  <2>7. QED BY <2>2, <2>5, <2>6 DEF Abs!vars, AbsDisk
<1>10. QED BY <1>2, <1>3, <1>4, <1>6, <1>7, <1>8, <1>9 DEF Driver

LEMMA StepRefines ==
  ASSUME IInv, [Next]_vars
  PROVE  [Abs!Next]_(Abs!vars)
<1>1. ASSUME NEW c \in Clients, NEW r \in Requests, Post(c, r) PROVE Abs!Next
  <2>1. r \in Abs!Requests
    BY BlockDevAssumption DEF Requests, Request, Abs!Requests, Devices
  <2>2. QED BY <1>1, <2>1, PostRefines DEF Abs!Next
<1>2. ASSUME NEW c \in Clients, AwaitCompletion(c) PROVE [Abs!Next]_(Abs!vars)
  BY <1>2, ReturnRefines DEF Abs!Next
<1>3. ASSUME NEW k \in Drivers, Driver(k) PROVE [Abs!Next]_(Abs!vars)
  BY <1>3, DriverRefines DEF Abs!Next
<1>4. ASSUME UNCHANGED <<disk, req, state, dpc, serving, rc>> PROVE UNCHANGED Abs!vars
  BY <1>4 DEF Abs!vars, AbsDisk, AbsState, Finished
<1>5. CASE FloppyInterrupt \/ UNCHANGED vars
  BY <1>4, <1>5 DEF FloppyInterrupt, vars, clientVars
<1>6. QED BY <1>1, <1>2, <1>3, <1>5 DEF Next

(* The queues and driver threads implement a disk: each Block_Read and      *)
(* Block_Write takes effect at one instant between the call and the return, *)
(* or returns an error (blockdev.c, ide.c, floppy.c).                       *)
THEOREM DiskImplemented == Spec => ImplementsDisk
<1>1. Init => Abs!Init
  BY BlockDevAssumption DEF Init, Abs!Init, AbsDisk, AbsState
<1>2. IInv /\ [Next]_vars => [Abs!Next]_(Abs!vars)
  BY StepRefines
<1>3. QED BY <1>1, <1>2, Invariance, PTL DEF Spec, ImplementsDisk, Abs!Spec
=============================================================================
