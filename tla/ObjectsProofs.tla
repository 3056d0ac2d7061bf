---------------------------- MODULE ObjectsProofs ----------------------------
(***************************************************************************)
(* Proofs about SemTable, VFS, PFAT, Process, Keyboard and LineEditor, the  *)
(* parts of Objects, for any processes, devices, files, FAT and sizes.      *)
(* Every part has its own inductive invariant: SemInv, FilesInv, PfatInv,   *)
(* ProcessInv, KeyboardInv and LineInv.                                    *)
(***************************************************************************)
EXTENDS Objects, FiniteSetTheorems, SequenceTheorems, WellFoundedInduction, TLAPS

LEMMA LeastFact ==
  ASSUME NEW S \in SUBSET Nat, S # {}
  PROVE  \E x \in S : \A y \in S : x =< y
<1> DEFINE R == {ss \in Nat \X Nat : ss[1] < ss[2]}
<1>1. IsWellFoundedOn(R, Nat)
  <2>1. R = OpToRel(<, Nat)
    BY Zenon DEF OpToRel
  <2>2. QED BY <2>1, NatLessThanWellFounded, Zenon
<1>2. PICK x \in S : \A y \in S : ~ (<<y, x>> \in R)
  <2> HIDE DEF R
  <2>1. QED BY <1>1, WFMin
<1>3. ASSUME NEW y \in S PROVE x =< y
  <2>1. x \in Nat /\ y \in Nat /\ <<y, x>> \in Nat \X Nat
    OBVIOUS
  <2>2. ~ (y < x)
    BY <1>2, <2>1, Zenon
  <2>3. QED BY <2>1, <2>2
<1>4. QED BY <1>3

LEMMA MinFact ==
  ASSUME NEW S \in SUBSET Nat, S # {}
  PROVE  /\ Min(S) \in S /\ V!Min(S) \in S /\ U!Min(S) \in S
         /\ \A y \in S : Min(S) =< y /\ U!Min(S) =< y
  BY LeastFact DEF Min, V!Min, U!Min

LEMMA AppendEntry ==
  ASSUME NEW S, NEW q \in Seq(S), NEW x \in S
  PROVE  /\ Append(q, x) \in Seq(S) /\ Len(Append(q, x)) = Len(q) + 1 /\ Len(q) \in Nat
         /\ Append(q, x)[Len(q) + 1] = x
         /\ \A i \in 1..Len(q) : Append(q, x)[i] = q[i]
  OBVIOUS

LEMMA CountFact == \A S : V!Cardinality(S) = Cardinality(S) /\ U!Cardinality(S) = Cardinality(S)
  BY DEF V!Cardinality, U!Cardinality, Cardinality, U!IsFiniteSet, V!IsFiniteSet, IsFiniteSet

-----------------------------------------------------------------------------
(* Files and mounts *)

FileSystems == {"pfat", "gosfs"}
Transit     == {"mount: open", "mount: read", "mount: page file", "mount: add",
                "format: open", "format: write", "close"}
Inside      == Transit \ {"mount: open", "format: open"}
CallType    == [at : {"user", "chdir", "chdir: look up"} \cup Transit, dev : Devs \cup {None},
                fs : FileSystems \cup {None}, prefix : Prefixes \cup {None}]
MountType   == [prefix : Prefixes, fs : FileSystems, dev : Devs]

FilesTypeOK ==
  /\ inUse \subseteq Devs
  /\ mounts \in Seq(MountType)
  /\ prefix \in Prefixes
  /\ call \in [Users -> CallType]
  /\ alive \subseteq Users
  /\ fds \in [Users -> [V!Fds -> (1..MaxFiles) \cup {V!Null, V!Wild}]]
  /\ files \in [1..MaxFiles -> {"file", "gosfs directory", V!NoObject}]

(* What a call has, by the place it is at. *)
CallInv ==
  \A p \in Users :
    /\ p \notin alive => call[p].at = "user"
    /\ call[p].at \in Transit => call[p].dev \in Devs
    /\ call[p].at \in Transit \ {"format: open", "format: write", "close"} =>
         call[p].fs \in FileSystems /\ call[p].prefix \in Prefixes
    /\ call[p].at \in {"chdir", "chdir: look up"} => call[p].dev = None
    /\ call[p].at = "chdir" => \E i \in 1..Len(mounts) : mounts[i].prefix = call[p].prefix

(* The device that p has open. *)
Has(p) == IF call[p].at \in Inside THEN {call[p].dev} ELSE {}

DeviceInv ==
  /\ \A i \in 1..Len(mounts) : mounts[i].dev \in inUse
  /\ \A p \in Users : Has(p) \subseteq inUse
  /\ \A i, j \in 1..Len(mounts) : mounts[i].dev = mounts[j].dev => i = j
  /\ \A p, q \in Users : p # q => Has(p) \cap Has(q) = {}
  /\ \A i \in 1..Len(mounts), p \in Users : mounts[i].dev \notin Has(p)
  /\ \A d \in inUse : (\E i \in 1..Len(mounts) : mounts[i].dev = d) \/ (\E p \in Users : d \in Has(p))

FileInv ==
  /\ \A p \in Users : \A i \in V!Fds :
       fds[p][i] \notin {V!Null, V!Wild} => files[fds[p][i]] # V!NoObject
  /\ \A p, q \in Users : \A i, j \in V!Fds :
       fds[p][i] \notin {V!Null, V!Wild} => (fds[p][i] = fds[q][j] => p = q /\ i = j)

FilesInv == FilesTypeOK /\ CallInv /\ DeviceInv /\ FileInv
-----------------------------------------------------------------------------

LEMMA MountFact ==
  ASSUME FilesTypeOK
  PROVE  /\ mounts \in Seq(MountType) /\ Len(mounts) \in Nat /\ DOMAIN mounts = 1..Len(mounts)
         /\ \A i \in 1..Len(mounts) : /\ mounts[i].dev \in Devs /\ mounts[i].fs \in FileSystems
                                      /\ mounts[i].prefix \in Prefixes
<1>1. mounts \in Seq(MountType)
  BY DEF FilesTypeOK
<1>2. \A i \in 1..Len(mounts) : mounts[i] \in MountType
  BY <1>1
<1>3. QED BY <1>1, <1>2 DEF MountType

LEMMA FilesInit == V!Init => FilesInv
<1> SUFFICES ASSUME V!Init PROVE FilesInv
  OBVIOUS
<1> USE FilesAssumption
<1>1. /\ mounts = <<[prefix |-> RootPrefix, fs |-> "pfat", dev |-> RootDev]>>
      /\ inUse = {RootDev} /\ prefix = RootPrefix
      /\ call = [p \in Users |-> V!NoCall] /\ alive = {UserShell}
      /\ fds = [p \in Users |-> [fd \in V!Fds |-> V!Null]]
      /\ files = [f \in 1..MaxFiles |-> V!NoObject]
  BY DEF V!Init
<1>2. mounts \in Seq(MountType) /\ Len(mounts) = 1 /\ mounts[1].dev = RootDev
  BY <1>1 DEF MountType, FileSystems
<1>3. call \in [Users -> CallType] /\ \A p \in Users : call[p].at = "user"
  BY <1>1 DEF V!NoCall, CallType
<1>4. FilesTypeOK
  BY <1>1, <1>2, <1>3 DEF FilesTypeOK
<1>5. CallInv
  BY <1>3 DEF CallInv, Transit
<1>6. DeviceInv
  <2>1. \A p \in Users : Has(p) = {}
    BY <1>3 DEF Has, Inside, Transit
  <2>2. QED BY <1>1, <1>2, <2>1 DEF DeviceInv
<1>7. FileInv
  BY <1>1 DEF FileInv
<1>8. QED BY <1>4, <1>5, <1>6, <1>7 DEF FilesInv

(* A step that leaves the devices and the mounts, and who uses what. *)
LEMMA DevicesKept ==
  ASSUME FilesInv, UNCHANGED <<inUse, mounts>>,
         \A p \in Users : Has(p)' = Has(p)
  PROVE  DeviceInv'
<1>1. \A i \in 1..Len(mounts) : mounts[i].dev \in Devs
  BY MountFact DEF FilesInv
<1>2. inUse \subseteq Devs
  BY DEF FilesInv, FilesTypeOK
<1>3. QED BY <1>1, <1>2 DEF FilesInv, DeviceInv

LEMMA FileTablesKept == ASSUME FilesInv, UNCHANGED <<fds, files>> PROVE FileInv'
  BY DEF FilesInv, FileInv

(* Where a call goes on. *)
LEMMA GotoFact ==
  ASSUME FilesInv, NEW p \in Users, NEW where \in Transit, V!Goto(p, where)
  PROVE  /\ call' \in [Users -> CallType]
         /\ call'[p].at = where /\ call'[p].dev = call[p].dev
         /\ call'[p].fs = call[p].fs /\ call'[p].prefix = call[p].prefix
         /\ \A q \in Users \ {p} : call'[q] = call[q]
  BY DEF V!Goto, FilesInv, FilesTypeOK, CallType

LEMMA ReturnFact ==
  ASSUME FilesInv, NEW p \in Users, V!Return(p)
  PROVE  /\ call' \in [Users -> CallType]
         /\ call'[p].at = "user"
         /\ \A q \in Users \ {p} : call'[q] = call[q]
  BY DEF V!Return, V!NoCall, FilesInv, FilesTypeOK, CallType

(* A call that begins has no device yet. *)
LEMMA EnterCallStep ==
  ASSUME FilesInv, NEW p \in Users, V!EnterMount(p) \/ V!EnterFormat(p) \/ V!EnterChangeDir(p)
  PROVE  FilesInv'
<1>1. /\ p \in alive /\ call[p].at = "user"
      /\ UNCHANGED <<inUse, mounts, prefix, fds, files, alive>>
  BY DEF V!EnterMount, V!EnterFormat, V!EnterChangeDir, V!Enter, V!At, V!tables, V!dirs, V!open
<1>2. PICK new \in CallType :
        /\ call' = [call EXCEPT ![p] = new]
        /\ new.at \in {"mount: open", "format: open", "chdir"}
        /\ IF new.at = "chdir" THEN new.dev = None ELSE new.dev \in Devs
        /\ new.at = "mount: open" => new.fs \in FileSystems /\ new.prefix \in Prefixes
        /\ new.at = "chdir" => \E i \in 1..Len(mounts) : mounts[i].prefix = new.prefix
  <2>1. CASE V!EnterMount(p)
    BY <2>1, ZenonT(40) DEF V!EnterMount, V!Enter, CallType, FileSystems, Transit
  <2>2. CASE V!EnterFormat(p)
    <3>1. PICK d \in Devs :
            V!Enter(p, [at |-> "format: open", dev |-> d, fs |-> "gosfs", prefix |-> None])
      BY <2>2 DEF V!EnterFormat
    <3>2. [at |-> "format: open", dev |-> d, fs |-> "gosfs", prefix |-> None] \in CallType
      BY DEF CallType, FileSystems, Transit
    <3>3. QED BY <3>1, <3>2 DEF V!Enter
  <2>3. CASE V!EnterChangeDir(p)
    <3>1. PICK x \in V!PathPrefixes :
            ~V!NoMount(x) /\ V!Enter(p, [at |-> "chdir", dev |-> None, fs |-> None, prefix |-> x])
      BY <2>3 DEF V!EnterChangeDir
    <3>2. x \in Prefixes /\ \E i \in 1..Len(mounts) : mounts[i].prefix = x
      BY <3>1, MountFact DEF V!PathPrefixes, V!NoMount, V!MountOf, FilesInv, FilesTypeOK
    <3>3. [at |-> "chdir", dev |-> None, fs |-> None, prefix |-> x] \in CallType
      BY <3>2 DEF CallType
    <3>4. QED BY <3>1, <3>2, <3>3 DEF V!Enter
  <2>4. QED BY <2>1, <2>2, <2>3
<1>3. /\ call' \in [Users -> CallType]
      /\ call'[p] = new
      /\ \A q \in Users \ {p} : call'[q] = call[q]
  BY <1>2 DEF FilesInv, FilesTypeOK
<1>4. FilesTypeOK'
  BY <1>1, <1>3 DEF FilesInv, FilesTypeOK
<1>5. CallInv'
  BY <1>1, <1>2, <1>3 DEF FilesInv, CallInv, Transit
<1>6. \A q \in Users : Has(q)' = Has(q)
  BY <1>1, <1>2, <1>3 DEF Has, Inside, Transit
<1>7. QED BY <1>1, <1>4, <1>5, <1>6, DevicesKept, FileTablesKept DEF FilesInv

(* Open_Block_Device takes a device that nobody uses, or fails. *)
LEMMA OpenDeviceStep ==
  ASSUME FilesInv, NEW p \in Users,
         \/ V!OpenDevice(p, "mount: open", "mount: read")
         \/ V!OpenDevice(p, "format: open", "format: write")
  PROVE  FilesInv'
<1> DEFINE d == call[p].dev
<1>1. /\ p \in alive /\ call[p].at \in {"mount: open", "format: open"}
      /\ inUse' = inUse \cup {d}
      /\ UNCHANGED <<mounts, prefix, fds, files, alive>>
  BY DEF V!OpenDevice, V!At, V!dirs, V!open
<1>2. d \in Devs
  BY <1>1 DEF FilesInv, CallInv, Transit
<1>3. CASE d \in inUse
  <2>1. /\ call' \in [Users -> CallType]
        /\ call'[p].at = "user"
        /\ \A q \in Users \ {p} : call'[q] = call[q]
    BY <1>3, ReturnFact DEF V!OpenDevice
  <2>2. inUse' = inUse
    BY <1>1, <1>3
  <2>3. FilesTypeOK'
    BY <1>1, <2>1, <2>2 DEF FilesInv, FilesTypeOK
  <2>4. CallInv'
    BY <1>1, <2>1, ZenonT(40) DEF FilesInv, CallInv, Transit
  <2>5. \A q \in Users : Has(q)' = Has(q)
    BY <1>1, <2>1 DEF Has, Inside, Transit
  <2>6. QED BY <1>1, <2>2, <2>3, <2>4, <2>5, DevicesKept, FileTablesKept DEF FilesInv
<1>4. CASE d \notin inUse
  <2>1. \/ call[p].at = "mount: open" /\ V!Goto(p, "mount: read")
        \/ call[p].at = "format: open" /\ V!Goto(p, "format: write")
    BY <1>4 DEF V!OpenDevice, V!At
  <2>2. /\ call' \in [Users -> CallType]
        /\ \/ call[p].at = "mount: open" /\ call'[p].at = "mount: read"
           \/ call[p].at = "format: open" /\ call'[p].at = "format: write"
        /\ call'[p].dev = d
        /\ call'[p].fs = call[p].fs /\ call'[p].prefix = call[p].prefix
        /\ \A q \in Users \ {p} : call'[q] = call[q]
    BY <2>1, GotoFact DEF Transit
  <2>3. FilesTypeOK'
    BY <1>1, <1>2, <2>2 DEF FilesInv, FilesTypeOK
  <2>4. CallInv'
    BY <1>1, <1>2, <2>2, ZenonT(40) DEF FilesInv, CallInv, Transit
  <2>5. Has(p)' = {d} /\ \A q \in Users \ {p} : Has(q)' = Has(q)
    BY <1>1, <2>2 DEF Has, Inside, Transit
  <2>6. /\ \A i \in 1..Len(mounts) : mounts[i].dev \in Devs /\ mounts[i].dev # d
        /\ \A q \in Users : d \notin Has(q)
        /\ Has(p) = {}
        /\ inUse \subseteq Devs
    BY <1>1, <1>2, <1>4, MountFact DEF FilesInv, FilesTypeOK, DeviceInv, Has, Inside
  <2>7. DeviceInv'
    <3> HIDE DEF d
    <3>1. \A e \in inUse' : (\E i \in 1..Len(mounts) : mounts[i].dev = e) \/ (\E q \in Users : e \in Has(q)')
      <4> SUFFICES ASSUME NEW e \in inUse', \A i \in 1..Len(mounts) : mounts[i].dev # e
                   PROVE  \E q \in Users : e \in Has(q)'
        OBVIOUS
      <4>1. CASE e = d
        BY <2>5, <4>1
      <4>2. CASE e # d
        <5>1. PICK q \in Users : e \in Has(q)
          BY <1>1, <4>2 DEF FilesInv, DeviceInv
        <5>2. QED BY <2>5, <2>6, <5>1
      <4>3. QED BY <4>1, <4>2
    <3>2. /\ \A i \in 1..Len(mounts), q \in Users : mounts[i].dev \notin Has(q)
          /\ \A q, r \in Users : q # r => Has(q) \cap Has(r) = {}
          /\ \A q \in Users : Has(q) \subseteq inUse
      BY DEF FilesInv, DeviceInv
    <3>3. \A q \in Users : Has(q)' = IF q = p THEN {d} ELSE Has(q)
      BY <2>5
    <3>4. /\ \A i \in 1..Len(mounts), q \in Users : mounts[i].dev \notin Has(q)'
          /\ \A q, r \in Users : q # r => Has(q)' \cap Has(r)' = {}
          /\ \A q \in Users : Has(q)' \subseteq inUse'
      BY <1>1, <2>6, <3>2, <3>3
    <3>5. QED BY <1>1, <3>1, <3>4 DEF FilesInv, DeviceInv
  <2>8. QED BY <1>1, <2>3, <2>4, <2>7, FileTablesKept DEF FilesInv
<1>5. QED BY <1>3, <1>4

(* Within a call that has a device open. *)
LEMMA ReadDeviceStep ==
  ASSUME FilesInv, NEW p \in Users,
         V!MountFileSystem(p) \/ V!RegisterPager(p) \/ V!FormatDevice(p)
  PROVE  FilesInv'
<1> DEFINE d == call[p].dev
<1>1. UNCHANGED <<inUse, mounts, prefix, fds, files, alive>>
  BY DEF V!MountFileSystem, V!RegisterPager, V!FormatDevice, V!Break, V!tables, V!dirs, V!open
<1>2. CASE UNCHANGED call
  BY <1>1, <1>2, DevicesKept, FileTablesKept DEF FilesInv, FilesTypeOK, CallInv, Has
<1>3. CASE ~UNCHANGED call
  <2>1. /\ p \in alive /\ call[p].at \in {"mount: read", "mount: page file", "format: write"}
        /\ \/ V!Goto(p, "close")
           \/ /\ call[p].at \in {"mount: read", "mount: page file"}
              /\ V!Goto(p, "mount: page file") \/ V!Goto(p, "mount: add")
    BY <1>3 DEF V!MountFileSystem, V!RegisterPager, V!FormatDevice, V!At, V!Break
  <2>2. /\ call' \in [Users -> CallType]
        /\ call'[p].at \in {"close", "mount: page file", "mount: add"}
        /\ call[p].at = "format: write" => call'[p].at = "close"
        /\ call'[p].dev = d /\ call'[p].fs = call[p].fs /\ call'[p].prefix = call[p].prefix
        /\ \A q \in Users \ {p} : call'[q] = call[q]
    BY <2>1, GotoFact DEF Transit
  <2>3. FilesTypeOK'
    BY <1>1, <2>2 DEF FilesInv, FilesTypeOK
  <2>4. CallInv'
    BY <1>1, <2>1, <2>2, ZenonT(40) DEF FilesInv, CallInv, Transit
  <2>5. \A q \in Users : Has(q)' = Has(q)
    BY <2>1, <2>2 DEF Has, Inside, Transit
  <2>6. QED BY <1>1, <2>3, <2>4, <2>5, DevicesKept, FileTablesKept DEF FilesInv
<1>4. QED BY <1>2, <1>3

(* The end of a call that has a device: p has none any more. *)
LEMMA EndFact ==
  ASSUME FilesInv, NEW p \in Users, call[p].at \in Inside, V!Return(p)
  PROVE  /\ call[p].dev \in inUse /\ Has(p) = {call[p].dev}
         /\ call' \in [Users -> CallType] /\ call'[p].at = "user"
         /\ \A q \in Users \ {p} : call'[q] = call[q]
         /\ Has(p)' = {} /\ \A q \in Users \ {p} : Has(q)' = Has(q)
<1>1. Has(p) = {call[p].dev}
  BY DEF Has
<1>2. /\ call' \in [Users -> CallType] /\ call'[p].at = "user"
      /\ \A q \in Users \ {p} : call'[q] = call[q]
  BY ReturnFact
<1>3. Has(p)' = {} /\ \A q \in Users \ {p} : Has(q)' = Has(q)
  BY <1>2 DEF Has, Inside, Transit
<1>4. QED BY <1>1, <1>2, <1>3 DEF FilesInv, DeviceInv

(* The mount keeps the device that the call had. *)
LEMMA AddMountStep ==
  ASSUME FilesInv, NEW p \in Users, V!AddMount(p)
  PROVE  FilesInv'
<1> DEFINE d == call[p].dev
           n == Len(mounts) + 1
           new == [prefix |-> call[p].prefix, fs |-> call[p].fs, dev |-> d]
<1>1. /\ p \in alive /\ call[p].at = "mount: add"
      /\ mounts' = Append(mounts, new)
      /\ V!Return(p)
      /\ UNCHANGED <<inUse, prefix, fds, files, alive>>
  BY DEF V!AddMount, V!At, V!dirs, V!open
<1>2. new \in MountType
  BY <1>1 DEF FilesInv, CallInv, Transit, MountType
<1>3. mounts \in Seq(MountType)
  BY DEF FilesInv, FilesTypeOK
<1>4. /\ Len(mounts) \in Nat /\ mounts' \in Seq(MountType) /\ Len(mounts') = n
      /\ mounts'[n].dev = d
      /\ \A i \in 1..Len(mounts) : mounts'[i] = mounts[i]
  <2> HIDE DEF new
  <2>1. mounts' = Append(mounts, new)
    BY <1>1
  <2>2. /\ Len(mounts) \in Nat /\ Append(mounts, new) \in Seq(MountType)
        /\ Len(Append(mounts, new)) = n
        /\ Append(mounts, new)[n] = new
        /\ \A i \in 1..Len(mounts) : Append(mounts, new)[i] = mounts[i]
    BY <1>2, <1>3, AppendEntry
  <2>3. QED BY <2>1, <2>2 DEF new
<1>5. call[p].at \in Inside
  BY <1>1 DEF Inside, Transit
<1>6. FilesTypeOK'
  BY <1>1, <1>4, <1>5, EndFact DEF FilesInv, FilesTypeOK
<1>7. CallInv'
  <2> SUFFICES ASSUME NEW q \in Users PROVE CallInv!(q)'
    BY DEF CallInv
  <2>1. CASE q = p
    BY <1>1, <1>5, <2>1, EndFact DEF Transit
  <2>2. CASE q # p
    <3>1. call'[q] = call[q] /\ alive' = alive
      BY <1>1, <1>5, <2>2, EndFact
    <3>2. CallInv!(q)
      BY DEF FilesInv, CallInv
    <3>3. 1..Len(mounts) \subseteq 1..Len(mounts')
      BY <1>4
    <3>4. QED BY <1>4, <3>1, <3>2, <3>3
  <2>3. QED BY <2>1, <2>2
<1>8. DeviceInv'
  <2>1. \A i \in 1..n : mounts'[i].dev = IF i = n THEN d ELSE mounts[i].dev
    BY <1>4
  <2>2. /\ d \in inUse /\ Has(p) = {d} /\ Has(p)' = {}
        /\ \A q \in Users \ {p} : Has(q)' = Has(q)
    BY <1>1, <1>5, EndFact
  <2> HIDE DEF d
  <2> DEFINE devAt(i) == mounts[i].dev
  <2>3. /\ \A i \in 1..Len(mounts) : devAt(i) \in inUse /\ devAt(i) # d
        /\ \A i, j \in 1..Len(mounts) : devAt(i) = devAt(j) => i = j
        /\ \A i \in 1..Len(mounts), q \in Users : devAt(i) \notin Has(q)
        /\ \A e \in inUse : (\E i \in 1..Len(mounts) : devAt(i) = e) \/ (\E q \in Users : e \in Has(q))
    BY <2>2 DEF FilesInv, DeviceInv
  <2>4. /\ \A i \in 1..n : devAt(i)' = IF i = n THEN d ELSE devAt(i)
        /\ 1..Len(mounts') = 1..n /\ n \in 1..n /\ n \notin 1..Len(mounts) /\ \A i \in 1..n : i # n => i \in 1..Len(mounts)
        /\ 1..Len(mounts) \subseteq 1..n
    BY <1>4, <2>1
  <2>6. \A q, r \in Users : q # r => Has(q) \cap Has(r) = {}
    BY DEF FilesInv, DeviceInv
  <2> HIDE DEF devAt, n
  <2>7. \A e \in inUse : (\E i \in 1..n : devAt(i)' = e) \/ (\E q \in Users : e \in Has(q)')
    <3> SUFFICES ASSUME NEW e \in inUse PROVE (\E i \in 1..n : devAt(i)' = e) \/ (\E q \in Users : e \in Has(q)')
      OBVIOUS
    <3>1. CASE e = d
      BY <2>4, <3>1
    <3>2. CASE \E i \in 1..Len(mounts) : devAt(i) = e
      BY <2>3, <2>4, <3>2
    <3>3. CASE e # d /\ \E q \in Users : e \in Has(q)
      BY <2>2, <3>3
    <3>4. QED BY <2>3, <3>1, <3>2, <3>3
  <2>8. /\ \A i \in 1..n : devAt(i)' \in inUse
        /\ \A i, j \in 1..n : devAt(i)' = devAt(j)' => i = j
        /\ \A i \in 1..n, q \in Users : devAt(i)' \notin Has(q)'
        /\ \A q, r \in Users : q # r => Has(q)' \cap Has(r)' = {}
        /\ \A q \in Users : Has(q)' \subseteq inUse
    BY <2>2, <2>3, <2>4, <2>6 DEF FilesInv, DeviceInv
  <2>9. QED BY <1>1, <2>4, <2>7, <2>8 DEF DeviceInv, devAt
<1>9. QED BY <1>1, <1>6, <1>7, <1>8, FileTablesKept DEF FilesInv

LEMMA CloseDeviceStep ==
  ASSUME FilesInv, NEW p \in Users, V!CloseDevice(p)
  PROVE  FilesInv'
<1> DEFINE d == call[p].dev
<1>1. /\ p \in alive /\ call[p].at = "close"
      /\ inUse' = inUse \ {d}
      /\ V!Return(p)
      /\ UNCHANGED <<mounts, prefix, fds, files, alive>>
  BY DEF V!CloseDevice, V!At, V!dirs, V!open
<1>2. call[p].at \in Inside
  BY <1>1 DEF Inside, Transit
<1>3. FilesTypeOK'
  BY <1>1, <1>2, EndFact DEF FilesInv, FilesTypeOK
<1>4. CallInv'
  <2>1. call'[p].at = "user" /\ \A q \in Users \ {p} : call'[q] = call[q]
    BY <1>1, <1>2, EndFact
  <2>2. QED BY <1>1, <2>1 DEF FilesInv, CallInv, Transit
<1>5. DeviceInv'
  <2>1. /\ d \in inUse /\ Has(p) = {d} /\ Has(p)' = {}
        /\ \A q \in Users \ {p} : Has(q)' = Has(q)
    BY <1>1, <1>2, EndFact
  <2> HIDE DEF d
  <2>2. QED BY <1>1, <2>1 DEF FilesInv, DeviceInv
<1>6. QED BY <1>1, <1>3, <1>4, <1>5, FileTablesKept DEF FilesInv

(* A step that leaves everything the invariant looks at. *)
LEMMA FilesSame ==
  ASSUME FilesInv, UNCHANGED <<inUse, mounts, prefix, call, alive, fds, files>>
  PROVE  FilesInv'
  BY DevicesKept, FileTablesKept DEF FilesInv, FilesTypeOK, CallInv, Has

(* Lookup: the mount point is still there, and says which file system it is. *)
LEMMA ChangePrefixStep ==
  ASSUME FilesInv, NEW p \in Users, V!ChangePrefix(p)
  PROVE  FilesInv'
<1> DEFINE fs == V!FileSystem(call[p].prefix)
<1>1. /\ p \in alive /\ call[p].at = "chdir"
      /\ prefix' = call[p].prefix
      /\ call' = [call EXCEPT ![p] = [at |-> "chdir: look up", dev |-> None, fs |-> fs, prefix |-> None]]
      /\ UNCHANGED <<inUse, mounts, fds, files, alive>>
  BY DEF V!ChangePrefix, V!At, V!tables, V!open
<1>2. PICK k \in 1..Len(mounts) : mounts[k].prefix = call[p].prefix
  BY <1>1 DEF FilesInv, CallInv
<1>3. fs \in FileSystems /\ call[p].prefix \in Prefixes
  <2> DEFINE S == V!MountOf(call[p].prefix)
  <2>1. S \subseteq 1..Len(mounts) /\ k \in S
    BY <1>2, MountFact DEF V!MountOf, FilesInv
  <2>2. V!Min(S) \in 1..Len(mounts)
    <3> HIDE DEF S
    <3>1. S \in SUBSET Nat /\ S # {}
      BY <2>1, MountFact DEF FilesInv
    <3>2. QED BY <2>1, <3>1, MinFact
  <2>3. fs = mounts[V!Min(S)].fs
    BY DEF V!FileSystem
  <2>4. QED BY <1>2, <2>2, <2>3, MountFact DEF FilesInv
<1> HIDE DEF fs
<1>4. [at |-> "chdir: look up", dev |-> None, fs |-> fs, prefix |-> None] \in CallType
  BY <1>3 DEF CallType
<1>5. /\ call' \in [Users -> CallType] /\ call'[p].at = "chdir: look up" /\ call'[p].dev = None
      /\ \A q \in Users \ {p} : call'[q] = call[q]
  BY <1>1, <1>4 DEF FilesInv, FilesTypeOK
<1>6. FilesTypeOK'
  BY <1>1, <1>3, <1>5 DEF FilesInv, FilesTypeOK
<1>7. CallInv'
  BY <1>1, <1>5 DEF FilesInv, CallInv, Transit
<1>8. \A q \in Users : Has(q)' = Has(q)
  BY <1>1, <1>5 DEF Has, Inside, Transit
<1>9. QED BY <1>1, <1>6, <1>7, <1>8, DevicesKept, FileTablesKept DEF FilesInv

LEMMA ChangeDentryStep ==
  ASSUME FilesInv, NEW p \in Users, V!ChangeDentry(p)
  PROVE  FilesInv'
<1>1. /\ p \in alive /\ call[p].at = "chdir: look up"
      /\ V!Return(p) \/ UNCHANGED call
      /\ UNCHANGED <<inUse, mounts, prefix, fds, files, alive>>
  BY DEF V!ChangeDentry, V!At, V!Break, V!tables, V!dirs, V!open
<1>2. CASE UNCHANGED call
  BY <1>1, <1>2, FilesSame
<1>3. CASE V!Return(p)
  <2>1. /\ call' \in [Users -> CallType] /\ call'[p].at = "user"
        /\ \A q \in Users \ {p} : call'[q] = call[q]
    BY <1>3, ReturnFact
  <2>2. FilesTypeOK'
    BY <1>1, <2>1 DEF FilesInv, FilesTypeOK
  <2>3. CallInv'
    BY <1>1, <2>1, ZenonT(40) DEF FilesInv, CallInv, Transit
  <2>4. \A q \in Users : Has(q)' = Has(q)
    BY <1>1, <2>1 DEF Has, Inside, Transit
  <2>5. QED BY <1>1, <2>2, <2>3, <2>4, DevicesKept, FileTablesKept DEF FilesInv
<1>4. QED BY <1>1, <1>2, <1>3

LEMMA NumbersFact ==
  /\ 1..MaxFiles \subseteq Nat /\ V!Fds \subseteq Nat
  /\ \A f \in 1..MaxFiles : f \notin {V!Null, V!Wild}
  BY FilesAssumption DEF V!Fds, V!Null, V!Wild

(* Open gives the new entry a File that no other entry has. *)
LEMMA OpenFileStep ==
  ASSUME FilesInv, NEW p \in Users, V!OpenFile(p)
  PROVE  FilesInv'
<1> DEFINE f == V!Min(V!UnusedFiles)
           k == V!Min(V!FreeFds(p))
<1>1. /\ V!UnusedFiles # {} /\ V!FreeFds(p) # {}
      /\ fds' = [fds EXCEPT ![p][k] = f]
      /\ UNCHANGED <<inUse, mounts, prefix, call, alive>>
  BY DEF V!OpenFile, V!tables, V!dirs
<1>2. \E kind \in {"file", "gosfs directory"} : files' = [files EXCEPT ![f] = kind]
  BY DEF V!OpenFile, V!Do_Open
<1>3. /\ fds \in [Users -> [V!Fds -> (1..MaxFiles) \cup {V!Null, V!Wild}]]
      /\ files \in [1..MaxFiles -> {"file", "gosfs directory", V!NoObject}]
  BY DEF FilesInv, FilesTypeOK
<1>4. f \in 1..MaxFiles /\ files[f] = V!NoObject
  <2> DEFINE S == V!UnusedFiles
  <2>1. \A g \in S : g \in 1..MaxFiles /\ files[g] = V!NoObject
    BY <1>3 DEF V!UnusedFiles
  <2>2. S \in SUBSET Nat /\ S # {}
    BY <1>1, <2>1, NumbersFact
  <2> HIDE DEF S
  <2>3. V!Min(S) \in S
    BY <2>2, MinFact
  <2>4. QED BY <2>1, <2>3 DEF S
<1>5. k \in V!Fds
  <2> DEFINE S == V!FreeFds(p)
  <2>1. S \subseteq V!Fds
    BY DEF V!FreeFds
  <2>2. S \in SUBSET Nat /\ S # {}
    BY <1>1, <2>1, NumbersFact
  <2> HIDE DEF S
  <2>3. V!Min(S) \in S
    BY <2>2, MinFact
  <2>4. QED BY <2>1, <2>3 DEF S
<1> HIDE DEF f, k
<1>6. /\ \A q \in Users, i \in V!Fds : fds'[q][i] = IF q = p /\ i = k THEN f ELSE fds[q][i]
      /\ \A g \in 1..MaxFiles : g # f => files'[g] = files[g]
      /\ files'[f] # V!NoObject
  BY <1>1, <1>2, <1>3, <1>4 DEF V!NoObject
<1>7. \A q \in Users, i \in V!Fds : fds[q][i] # f
  BY <1>4, NumbersFact DEF FilesInv, FileInv
<1>8. \A q \in Users, i \in V!Fds : fds[q][i] \notin {V!Null, V!Wild} => fds[q][i] \in 1..MaxFiles
  BY <1>3
<1>9. FileInv'
  <2>1. /\ \A q \in Users : \A i \in V!Fds :
             fds[q][i] \notin {V!Null, V!Wild} => files[fds[q][i]] # V!NoObject
        /\ \A q, r \in Users : \A i, j \in V!Fds :
             fds[q][i] \notin {V!Null, V!Wild} => (fds[q][i] = fds[r][j] => q = r /\ i = j)
    BY DEF FilesInv, FileInv
  <2>2. \A q \in Users : \A i \in V!Fds :
             fds'[q][i] \notin {V!Null, V!Wild} => files'[fds'[q][i]] # V!NoObject
    <3> SUFFICES ASSUME NEW q \in Users, NEW i \in V!Fds, fds'[q][i] \notin {V!Null, V!Wild}
                 PROVE  files'[fds'[q][i]] # V!NoObject
      OBVIOUS
    <3>1. CASE q = p /\ i = k
      BY <1>4, <1>6, <3>1
    <3>2. CASE ~(q = p /\ i = k)
      <4>1. fds'[q][i] = fds[q][i] /\ fds[q][i] # f
        BY <1>6, <1>7, <3>2
      <4>2. fds[q][i] \notin {V!Null, V!Wild}
        BY <4>1
      <4>3. fds[q][i] \in 1..MaxFiles /\ files[fds[q][i]] # V!NoObject
        BY <1>8, <2>1, <4>2
      <4>4. QED BY <1>6, <4>1, <4>3
    <3>3. QED BY <3>1, <3>2
  <2>3. \A q, r \in Users : \A i, j \in V!Fds :
             fds'[q][i] \notin {V!Null, V!Wild} => (fds'[q][i] = fds'[r][j] => q = r /\ i = j)
    <3> SUFFICES ASSUME NEW q \in Users, NEW r \in Users, NEW i \in V!Fds, NEW j \in V!Fds,
                        fds'[q][i] \notin {V!Null, V!Wild}, fds'[q][i] = fds'[r][j]
                 PROVE  q = r /\ i = j
      OBVIOUS
    <3>1. CASE q = p /\ i = k
      BY <1>6, <1>7, <3>1
    <3>2. CASE ~(q = p /\ i = k)
      <4>1. fds'[q][i] = fds[q][i] /\ fds[q][i] # f
        BY <1>6, <1>7, <3>2
      <4>2. ~(r = p /\ j = k)
        BY <1>6, <4>1
      <4>3. fds[q][i] \notin {V!Null, V!Wild} /\ fds[q][i] = fds[r][j]
        BY <1>6, <4>1, <4>2
      <4>4. QED BY <4>3 DEF FilesInv, FileInv
    <3>3. QED BY <3>1, <3>2
  <2>4. QED BY <2>2, <2>3 DEF FileInv
<1>10. FilesTypeOK'
  BY <1>1, <1>2, <1>3, <1>4, <1>5 DEF FilesInv, FilesTypeOK
<1>11. QED BY <1>1, <1>9, <1>10, DevicesKept DEF FilesInv, CallInv, Has

(* An entry that is cleared no longer has its File, and no other entry has it. *)
LEMMA CloseFileStep ==
  ASSUME FilesInv, NEW p \in Users, V!CloseFile(p)
  PROVE  FilesInv'
<1>1. PICK k \in V!Fds : /\ fds[p][k] \notin {V!Null, V!Wild}
                         /\ V!Close(fds[p][k])
                         /\ fds' = [fds EXCEPT ![p][k] = V!Null]
  BY DEF V!CloseFile
<1>2. UNCHANGED <<inUse, mounts, prefix, call, alive>>
  BY DEF V!CloseFile, V!tables, V!dirs
<1>3. /\ fds \in [Users -> [V!Fds -> (1..MaxFiles) \cup {V!Null, V!Wild}]]
      /\ files \in [1..MaxFiles -> {"file", "gosfs directory", V!NoObject}]
  BY DEF FilesInv, FilesTypeOK
<1> DEFINE f == fds[p][k]
<1>4. f \in 1..MaxFiles
  BY <1>1, <1>3
<1>5. files' = [files EXCEPT ![f] = V!NoObject] \/ files' = files
  BY <1>1 DEF V!Close
<1> HIDE DEF f
<1>6. /\ \A q \in Users, i \in V!Fds : fds'[q][i] = IF q = p /\ i = k THEN V!Null ELSE fds[q][i]
      /\ \A g \in 1..MaxFiles : g # f => files'[g] = files[g]
  BY <1>1, <1>3, <1>4, <1>5
<1>7. \A q \in Users, i \in V!Fds : fds[q][i] \notin {V!Null, V!Wild} => fds[q][i] \in 1..MaxFiles
  BY <1>3
<1>8. FileInv'
  <2>1. /\ \A q \in Users : \A i \in V!Fds :
             fds[q][i] \notin {V!Null, V!Wild} => files[fds[q][i]] # V!NoObject
        /\ \A q, r \in Users : \A i, j \in V!Fds :
             fds[q][i] \notin {V!Null, V!Wild} => (fds[q][i] = fds[r][j] => q = r /\ i = j)
    BY DEF FilesInv, FileInv
  <2>2. f = fds[p][k] /\ f \notin {V!Null, V!Wild}
    BY <1>1 DEF f
  <2>3. \A q \in Users : \A i \in V!Fds :
             fds'[q][i] \notin {V!Null, V!Wild} => files'[fds'[q][i]] # V!NoObject
    BY <1>6, <1>7, <2>1, <2>2
  <2>4. \A q, r \in Users : \A i, j \in V!Fds :
             fds'[q][i] \notin {V!Null, V!Wild} => (fds'[q][i] = fds'[r][j] => q = r /\ i = j)
    BY <1>6, <2>1
  <2>5. QED BY <2>3, <2>4 DEF FileInv
<1>9. FilesTypeOK'
  BY <1>1, <1>2, <1>3, <1>4, <1>5 DEF FilesInv, FilesTypeOK
<1>10. QED BY <1>2, <1>8, <1>9, DevicesKept DEF FilesInv, CallInv, Has

(* A new process, and one that has ended, have no File. *)
LEMMA TableStep ==
  ASSUME FilesInv, NEW q \in Users, NEW table \in [V!Fds -> {V!Null, V!Wild}],
         fds' = [fds EXCEPT ![q] = table],
         alive' \subseteq Users, call[q].at = "user", alive \ {q} \subseteq alive',
         UNCHANGED <<inUse, mounts, prefix, call, files>>
  PROVE  FilesInv'
<1>1. fds \in [Users -> [V!Fds -> (1..MaxFiles) \cup {V!Null, V!Wild}]]
  BY DEF FilesInv, FilesTypeOK
<1>2. FilesTypeOK'
  BY <1>1 DEF FilesInv, FilesTypeOK
<1>3. FileInv'
  <2>1. \A r \in Users, i \in V!Fds : fds'[r][i] = IF r = q THEN table[i] ELSE fds[r][i]
    BY <1>1
  <2>2. \A r, s \in Users : \A i, j \in V!Fds :
          fds[r][i] \notin {V!Null, V!Wild} =>
            files[fds[r][i]] # V!NoObject /\ (fds[r][i] = fds[s][j] => r = s /\ i = j)
    BY DEF FilesInv, FileInv
  <2>3. \A i \in V!Fds : table[i] \in {V!Null, V!Wild}
    OBVIOUS
  <2>4. \A r, s \in Users : \A i, j \in V!Fds :
          fds'[r][i] \notin {V!Null, V!Wild} =>
            files[fds'[r][i]] # V!NoObject /\ (fds'[r][i] = fds'[s][j] => r = s /\ i = j)
    BY <2>1, <2>2, <2>3
  <2>5. QED BY <2>4 DEF FileInv
<1>4. CallInv'
  BY DEF FilesInv, CallInv
<1>5. QED BY <1>2, <1>3, <1>4, DevicesKept DEF FilesInv, Has

LEMMA SpawnStep ==
  ASSUME FilesInv, NEW p \in Users, V!Spawn(p)
  PROVE  FilesInv'
<1>1. PICK q \in Users \ alive, rest \in [V!Fds -> {V!Null, V!Wild}] :
        /\ alive' = alive \cup {q}
        /\ fds' = [fds EXCEPT ![q] = [fd \in V!Fds |-> IF fd <= ClearedFds THEN V!Null ELSE rest[fd]]]
  BY DEF V!Spawn
<1>2. UNCHANGED <<inUse, mounts, prefix, call, files>>
  BY DEF V!Spawn, V!tables
<1>3. call[q].at = "user" /\ alive \subseteq Users
  BY DEF FilesInv, FilesTypeOK, CallInv
<1>4. [fd \in V!Fds |-> IF fd <= ClearedFds THEN V!Null ELSE rest[fd]] \in [V!Fds -> {V!Null, V!Wild}]
  OBVIOUS
<1>5. QED BY <1>1, <1>2, <1>3, <1>4, TableStep

LEMMA EndProcessStep ==
  ASSUME FilesInv, NEW p \in Users, V!Exit(p)
  PROVE  FilesInv'
<1>1. /\ call[p].at = "user" /\ alive' = alive \ {p}
      /\ fds' = [fds EXCEPT ![p] = [fd \in V!Fds |-> V!Null]]
      /\ UNCHANGED <<inUse, mounts, prefix, call, files>>
  BY DEF V!Exit, V!At, V!tables
<1>2. alive' \subseteq Users
  BY <1>1 DEF FilesInv, FilesTypeOK
<1>3. [fd \in V!Fds |-> V!Null] \in [V!Fds -> {V!Null, V!Wild}]
  OBVIOUS
<1>4. QED BY <1>1, <1>2, <1>3, TableStep

LEMMA FilesStep == FilesInv /\ [V!Next]_V!vars => FilesInv'
<1> SUFFICES ASSUME FilesInv, [V!Next]_V!vars PROVE FilesInv'
  OBVIOUS
<1>1. CASE UNCHANGED V!vars
  BY <1>1, FilesSame DEF V!vars, V!tables, V!dirs, V!open
<1>2. CASE V!Next
  <2>1. PICK p \in Users : \/ V!Mounting(p) \/ V!WithPath(p) \/ V!UseBadFd(p) \/ V!Unfinished(p)
                           \/ V!CloseFile(p) \/ V!Spawn(p) \/ V!Exit(p)
    BY <1>2 DEF V!Next
  <2>2. CASE V!Mounting(p)
    BY <2>2, EnterCallStep, OpenDeviceStep, ReadDeviceStep, AddMountStep, CloseDeviceStep
       DEF V!Mounting
  <2>3. CASE V!WithPath(p)
    <3>1. CASE V!EnterPath(p) \/ V!AskFileSystem(p)
      BY <3>1, FilesSame DEF V!EnterPath, V!AskFileSystem, V!Break, V!vars, V!tables, V!dirs, V!open
    <3>2. QED BY <2>3, <3>1, OpenFileStep, EnterCallStep, ChangePrefixStep, ChangeDentryStep
              DEF V!WithPath
  <2>4. CASE V!UseBadFd(p) \/ V!Unfinished(p)
    BY <2>4, FilesSame DEF V!UseBadFd, V!Unfinished, V!Break, V!tables, V!dirs, V!open
  <2>5. QED BY <2>1, <2>2, <2>3, <2>4, CloseFileStep, SpawnStep, EndProcessStep
<1>3. QED BY <1>1, <1>2

(* What the invariant says of each device by the elements of two sets, the     *)
(* property says by their numbers.                                            *)
LEMMA FilesInvImplies == FilesInv => OneUserEach
<1> SUFFICES ASSUME FilesInv PROVE V!DeviceHasOneUser /\ V!FileHasOneUser
  BY DEF OneUserEach, V!OneUserEach
<1>1. V!FileHasOneUser
  <2>1. alive \subseteq Users
    BY DEF FilesInv, FilesTypeOK
  <2>2. QED BY <2>1 DEF FilesInv, FileInv, V!FileHasOneUser
<1>2. ASSUME NEW d \in Devs
      PROVE  Cardinality({i \in DOMAIN mounts : mounts[i].dev = d})
               + Cardinality({p \in alive : V!HoldsDevice(p, d)}) = IF d \in inUse THEN 1 ELSE 0
  <2> DEFINE M == {i \in DOMAIN mounts : mounts[i].dev = d}
             H == {p \in alive : V!HoldsDevice(p, d)}
  <2>1. M = {i \in 1..Len(mounts) : mounts[i].dev = d}
    BY MountFact DEF FilesInv
  <2>2. H = {p \in Users : d \in Has(p)}
    <3>1. ASSUME NEW p \in Users PROVE p \in alive /\ V!HoldsDevice(p, d) <=> d \in Has(p)
      <4>1. call[p].at \in {"user", "chdir", "chdir: look up"} \cup Transit
        BY DEF FilesInv, FilesTypeOK, CallType
      <4>2. /\ p \notin alive => call[p].at = "user"
            /\ call[p].at \in {"chdir", "chdir: look up"} => call[p].dev # d
        BY FilesAssumption DEF FilesInv, CallInv
      <4>3. QED BY <4>1, <4>2 DEF V!HoldsDevice, Has, Inside, Transit
    <3>2. alive \subseteq Users
      BY DEF FilesInv, FilesTypeOK
    <3>3. QED BY <3>1, <3>2
  <2> HIDE DEF M, H
  <2>3. CASE d \notin inUse
    <3>1. M = {} /\ H = {}
      BY <2>1, <2>2, <2>3 DEF FilesInv, DeviceInv
    <3>2. Cardinality(M) = 0 /\ Cardinality(H) = 0
      BY <3>1, FS_EmptySet
    <3>3. QED BY <2>3, <3>2 DEF M, H
  <2>4. CASE d \in inUse
    <3>1. \/ M = {} /\ \E p : H = {p}
          \/ H = {} /\ \E i : M = {i}
      <4>1. CASE \E i \in 1..Len(mounts) : mounts[i].dev = d
        <5>1. PICK i \in 1..Len(mounts) : mounts[i].dev = d
          BY <4>1
        <5>2. M = {i}
          BY <2>1, <5>1 DEF FilesInv, DeviceInv
        <5>3. H = {}
          BY <2>2, <5>1 DEF FilesInv, DeviceInv
        <5>4. QED BY <5>2, <5>3
      <4>2. CASE \A i \in 1..Len(mounts) : mounts[i].dev # d
        <5>1. PICK p \in Users : d \in Has(p)
          BY <2>4, <4>2 DEF FilesInv, DeviceInv
        <5>2. H = {p}
          BY <2>2, <5>1 DEF FilesInv, DeviceInv
        <5>3. QED BY <2>1, <4>2, <5>2
      <4>3. QED BY <4>1, <4>2
    <3>2. Cardinality({}) = 0 /\ \A x : Cardinality({x}) = 1
      BY FS_EmptySet, FS_Singleton
    <3>3. Cardinality(M) + Cardinality(H) = 1
      BY <3>1, <3>2
    <3>4. QED BY <2>4, <3>3 DEF M, H
  <2>5. QED BY <2>3, <2>4
<1>3. V!DeviceHasOneUser
  BY <1>2, CountFact DEF V!DeviceHasOneUser
<1>4. QED BY <1>1, <1>3

-----------------------------------------------------------------------------
(* The files of a PFAT file system *)

Blocks  == DOMAIN Fat
Opening == {"get", "add", "found"}
Reading == {"block", "transfer", "unlock"}
ReaderType == [at : {"rest"} \cup Opening \cup Reading, file : Files \cup {NoFile},
               end : Nat, i : Nat, block : Blocks \cup {EndOfFile}]
ObjectType == [file : Files, data : Seq(Blocks \cup {Junk}), valid : SUBSET Nat,
               lock : Threads \cup {NoOne}]
OpenType   == [object : Nat \cup {Freed}, pos : Nat]
Results    == [end : Nat, data : Seq(Blocks \cup {Junk})]

LEMMA NothingFact == P!Nothing \in Results
BY DEF P!Nothing, Results

PfatTypeOK ==
  /\ objects \in Seq(ObjectType)
  /\ reader \in [Threads -> ReaderType]
  /\ open \in [Threads -> {NoFile} \cup OpenType]
  /\ result \in [Threads -> Results]

(* What the FAT has as the i-th block of the file b caches.                     *)
BlockOf(b, i) == IF i = 1 THEN First[b.file] ELSE Fat[b.data[i - 1]]

(* The valid blocks of an object are a beginning of the file's chain.           *)
Along(b) ==
  /\ Len(b.data) = Size[b.file]
  /\ b.valid \subseteq 1..Size[b.file]
  /\ \A j \in b.valid : b.data[j] \in Blocks /\ b.data[j] = BlockOf(b, j)
  /\ \A j \in b.valid : j # 1 => j - 1 \in b.valid

ObjectsAlong == \A o \in DOMAIN objects : Along(objects[o])

(* A thread that reads has walked the chain up to i, and holds the lock of the   *)
(* object while it is at a block.                                               *)
Walking(r, f, b, t) ==
  /\ f.pos < r.end /\ r.end <= Size[b.file] /\ r.i \in 1..(r.end + 1)
  /\ 1..(r.i - 1) \subseteq b.valid
  /\ r.at = "block" => r.block = BlockOf(b, r.i)
  /\ r.at # "block" => b.lock = t /\ r.i <= r.end
  /\ r.at = "transfer" => r.i \notin b.valid /\ r.block \in Blocks /\ r.block = BlockOf(b, r.i)
  /\ r.at = "unlock" => r.i \in b.valid /\ r.block = b.data[r.i]

ReaderWalks(t) ==
  reader[t].at \in Reading =>
    /\ open[t] \in OpenType /\ open[t].object \in DOMAIN objects
    /\ Walking(reader[t], open[t], objects[open[t].object], t)

(* Who makes or takes an object has the list, and what it saw in it is so.      *)
ListHeld(t) ==
  /\ reader[t].at \in Opening => reader[t].file \in Files
  /\ reader[t].at = "add" => listLock = t /\ P!Indexes(reader[t].file) = {}
  /\ reader[t].at = "found" => listLock = t /\ P!Indexes(reader[t].file) # {}

(* What a read of the file f from block pos may give.                           *)
Parts(f, pos) ==
  {p \in Results : \E c \in P!Chains(f, p.end) : p.data = SubSeq(c, pos + 1, p.end)}

Gave(t) == (open[t] # NoFile /\ open[t] \in OpenType /\ open[t].object # Freed) =>
             /\ open[t].object \in DOMAIN objects
             /\ result[t] # P!Nothing => result[t] \in Parts(objects[open[t].object].file, open[t].pos)

OneObjectEach == \A o, q \in DOMAIN objects : objects[o].file = objects[q].file => o = q

PfatInv ==
  /\ PfatTypeOK
  /\ ObjectsAlong
  /\ OneObjectEach
  /\ \A t \in Threads : ReaderWalks(t)
  /\ \A t \in Threads : ListHeld(t)
  /\ \A t \in Threads : Gave(t)

(* What a step of others leaves as it was for u.                                *)
Kept(u) ==
  /\ reader'[u] = reader[u] /\ open'[u] = open[u] /\ result'[u] = result[u]
  /\ DOMAIN objects \subseteq DOMAIN objects'
  /\ \A o \in DOMAIN objects :
       /\ objects'[o].file = objects[o].file
       /\ objects[o].valid \subseteq objects'[o].valid
       /\ \A j \in objects[o].valid : objects'[o].data[j] = objects[o].data[j]
       /\ objects[o].lock = u => objects'[o] = objects[o]

LEMMA WalksOn ==
  ASSUME PfatInv, NEW u \in Threads, Kept(u)
  PROVE  ReaderWalks(u)'
<1> SUFFICES ASSUME reader[u].at \in Reading
             PROVE  /\ open[u] \in OpenType /\ open[u].object \in DOMAIN objects'
                    /\ Walking(reader[u], open[u], objects'[open[u].object], u)
  BY DEF ReaderWalks, Kept, OpenType, Reading
<1>1. /\ open[u] \in OpenType /\ open[u].object \in DOMAIN objects
      /\ Walking(reader[u], open[u], objects[open[u].object], u)
  BY DEF PfatInv, ReaderWalks
<1> DEFINE b == objects[open[u].object]  c == objects'[open[u].object]  r == reader[u]
<1>2. c.file = b.file /\ b.valid \subseteq c.valid /\ (\A j \in b.valid : c.data[j] = b.data[j])
      /\ (b.lock = u => c = b)
  BY <1>1 DEF Kept
<1>3. r.i \in Nat /\ r.end \in Nat
  BY DEF PfatInv, PfatTypeOK, ReaderType
<1>4. Walking(r, open[u], b, u)
  BY <1>1
<1>5. open[u].object \in DOMAIN objects'
  BY <1>1 DEF Kept
<1> HIDE DEF b, c, r
<1>6. CASE r.at # "block"
  <2>1. c = b
    BY <1>2, <1>4, <1>6 DEF Walking
  <2> QED  BY <2>1, <1>4, <1>1, <1>5 DEF c, r
<1>7. CASE r.at = "block"
  <2>1. r.i # 1 => r.i - 1 \in b.valid
    BY <1>4, <1>3 DEF Walking
  <2>2. BlockOf(c, r.i) = BlockOf(b, r.i)
    BY <2>1, <1>2 DEF BlockOf
  <2>3. Walking(r, open[u], c, u)
    BY <2>2, <1>2, <1>4, <1>7 DEF Walking
  <2> QED  BY <2>3, <1>1, <1>5 DEF c, r
<1> QED  BY <1>6, <1>7

LEMMA GaveStill ==
  ASSUME PfatInv, NEW u \in Threads, open'[u] = open[u], result'[u] = result[u],
         DOMAIN objects \subseteq DOMAIN objects',
         \A o \in DOMAIN objects : objects'[o].file = objects[o].file
  PROVE  Gave(u)'
<1>1. Gave(u)
  BY DEF PfatInv
<1>2. ASSUME open[u] # NoFile, open[u] \in OpenType, open[u].object # Freed
      PROVE  /\ open[u].object \in DOMAIN objects'
             /\ result[u] # P!Nothing =>
                  result[u] \in Parts(objects'[open[u].object].file, open[u].pos)
  BY <1>1, <1>2 DEF Gave
<1> QED  BY <1>2 DEF Gave, OpenType, Results, Parts, Blocks, P!Chains, P!Nothing

(* The object t has open is changed in nothing that others rely on.             *)
LEMMA OthersKept ==
  ASSUME PfatInv, NEW t \in Threads, NEW u \in Threads, u # t,
         open[t].object \in DOMAIN objects, NEW x,
         objects' = [objects EXCEPT ![open[t].object] = x],
         objects[open[t].object].lock # u,
         x.file = objects[open[t].object].file,
         objects[open[t].object].valid \subseteq x.valid,
         \A j \in objects[open[t].object].valid : x.data[j] = objects[open[t].object].data[j],
         reader'[u] = reader[u], open'[u] = open[u], result'[u] = result[u]
  PROVE  Kept(u)
<1> DEFINE o == open[t].object
<1>1. DOMAIN objects' = DOMAIN objects /\ objects'[o] = x
      /\ \A q \in DOMAIN objects : q # o => objects'[q] = objects[q]
  OBVIOUS
<1>2. ASSUME NEW q \in DOMAIN objects
      PROVE  /\ objects'[q].file = objects[q].file
             /\ objects[q].valid \subseteq objects'[q].valid
             /\ \A j \in objects[q].valid : objects'[q].data[j] = objects[q].data[j]
             /\ objects[q].lock = u => objects'[q] = objects[q]
  BY <1>1
<1> QED  BY <1>1, <1>2 DEF Kept

(* A step of a reader that is not in PFAT_Open: what has to be shown of it.     *)
LEMMA ReadStep ==
  ASSUME PfatInv, NEW t \in Threads,
         open' = open, listLock' = listLock,
         DOMAIN objects' = DOMAIN objects,
         \A o \in DOMAIN objects : objects'[o].file = objects[o].file,
         \A u \in Threads \ {t} : Kept(u),
         reader'[t].at \notin Opening,
         PfatTypeOK', ObjectsAlong', ReaderWalks(t)',
         result'[t] = result[t] \/ result'[t] = P!Nothing
  PROVE  PfatInv'
<1>1. ASSUME NEW u \in Threads PROVE ReaderWalks(u)'
  BY WalksOn
<1>2. ASSUME NEW u \in Threads PROVE ListHeld(u)'
  <2>1. CASE u = t
    BY <2>1 DEF ListHeld, Opening
  <2>2. CASE u # t
    <3>1. ListHeld(u) /\ reader'[u] = reader[u]
      BY <2>2 DEF PfatInv, Kept
    <3>2. \A f : P!Indexes(f)' = P!Indexes(f)
      BY DEF P!Indexes
    <3> QED  BY <3>1, <3>2 DEF ListHeld, P!Indexes
  <2> QED  BY <2>1, <2>2
<1>3. ASSUME NEW u \in Threads PROVE Gave(u)'
  <2>1. CASE result'[u] = result[u]
    BY <2>1, GaveStill
  <2>2. CASE u = t /\ result'[t] = P!Nothing
    <3>1. Gave(t)
      BY DEF PfatInv
    <3> QED  BY <2>2, <3>1 DEF Gave
  <2>3. u = t \/ result'[u] = result[u]
    BY DEF Kept
  <2> QED  BY <2>1, <2>2, <2>3
<1>4. OneObjectEach'
  BY DEF PfatInv, OneObjectEach
<1> QED  BY <1>1, <1>2, <1>3, <1>4 DEF PfatInv

LEMMA ReaderFields ==
  ASSUME PfatInv, NEW t \in Threads
  PROVE  reader[t] \in ReaderType
BY DEF PfatInv, PfatTypeOK

(* What is known of a thread that is reading.                                   *)
LEMMA WhileReading ==
  ASSUME PfatInv, NEW t \in Threads, reader[t].at \in Reading
  PROVE  /\ open[t] \in OpenType /\ open[t].object \in DOMAIN objects
         /\ objects[open[t].object] \in ObjectType /\ Along(objects[open[t].object])
         /\ Walking(reader[t], open[t], objects[open[t].object], t)
         /\ reader[t].end \in Nat /\ reader[t].i \in Nat /\ open[t].pos \in Nat
<1>1. ReaderWalks(t) /\ objects \in Seq(ObjectType) /\ ObjectsAlong /\ reader[t] \in ReaderType
  BY DEF PfatInv, PfatTypeOK
<1>2. /\ open[t] \in OpenType /\ open[t].object \in DOMAIN objects
      /\ Walking(reader[t], open[t], objects[open[t].object], t)
  BY <1>1 DEF ReaderWalks
<1> QED  BY <1>1, <1>2 DEF ObjectsAlong, ReaderType, OpenType

LEMMA SetReader ==
  ASSUME NEW f \in [Threads -> ReaderType], NEW t \in Threads, NEW r \in ReaderType,
         NEW g, g = [f EXCEPT ![t] = r]
  PROVE  g \in [Threads -> ReaderType] /\ g[t] = r /\ \A u \in Threads \ {t} : g[u] = f[u]
OBVIOUS

LEMMA ProceedFact ==
  ASSUME PfatInv, NEW t \in Threads, NEW w \in {"rest"} \cup Opening \cup Reading, P!Proceed(t, w)
  PROVE  /\ reader' \in [Threads -> ReaderType]
         /\ reader'[t] = [at |-> w, file |-> reader[t].file, end |-> reader[t].end,
                          i |-> reader[t].i, block |-> reader[t].block]
         /\ \A u \in Threads \ {t} : reader'[u] = reader[u]
<1>1. reader \in [Threads -> ReaderType]
  BY DEF PfatInv, PfatTypeOK
<1>2. reader' = [reader EXCEPT ![t].at = w]
  BY DEF P!Proceed
<1> QED  BY <1>1, <1>2 DEF ReaderType

LEMMA PfatReturnFact ==
  ASSUME PfatInv, NEW t \in Threads, NEW value \in Results, P!Return(t, value)
  PROVE  /\ reader' \in [Threads -> ReaderType] /\ result' \in [Threads -> Results]
         /\ reader'[t].at = "rest" /\ result'[t] = value
         /\ \A u \in Threads \ {t} : reader'[u] = reader[u] /\ result'[u] = result[u]
<1>1. reader \in [Threads -> ReaderType] /\ result \in [Threads -> Results]
  BY DEF PfatInv, PfatTypeOK
<1>2. P!AtRest \in ReaderType /\ P!AtRest.at = "rest"
  BY DEF P!AtRest, ReaderType
<1>3. reader' = [reader EXCEPT ![t] = P!AtRest] /\ result' = [result EXCEPT ![t] = value]
  BY DEF P!Return
<1> QED  BY <1>1, <1>2, <1>3

LEMMA ChangeFact ==
  ASSUME PfatInv, NEW t \in Threads, open[t].object \in DOMAIN objects, NEW x \in ObjectType,
         P!Change(t, x), Along(x), x.file = objects[open[t].object].file
  PROVE  /\ objects' = [objects EXCEPT ![open[t].object] = x]
         /\ objects' \in Seq(ObjectType) /\ ObjectsAlong'
         /\ objects'[open[t].object] = x
         /\ DOMAIN objects' = DOMAIN objects
         /\ \A o \in DOMAIN objects : objects'[o].file = objects[o].file
<1>1. objects \in Seq(ObjectType) /\ ObjectsAlong
  BY DEF PfatInv, PfatTypeOK
<1>2. objects' = [objects EXCEPT ![open[t].object] = x]
  BY DEF P!Change
<1>3. objects' \in Seq(ObjectType) /\ DOMAIN objects' = DOMAIN objects /\ objects'[open[t].object] = x
      /\ \A o \in DOMAIN objects : o # open[t].object => objects'[o] = objects[o]
  BY <1>1, <1>2
<1>4. ASSUME NEW q \in DOMAIN objects' PROVE Along(objects'[q])
  <2>1. CASE q = open[t].object
    BY <2>1, <1>3
  <2>2. CASE q # open[t].object
    BY <2>2, <1>1, <1>3 DEF ObjectsAlong
  <2> QED  BY <2>1, <2>2
<1>5. ObjectsAlong'
  BY <1>4 DEF ObjectsAlong, Along, BlockOf
<1> QED  BY <1>2, <1>3, <1>5

LEMMA LockFileFact ==
  ASSUME PfatInv, NEW t \in Threads, P!LockFile(t)
  PROVE  PfatInv'
<1> DEFINE o == open[t].object  b == objects[o]  r == reader[t]
           x == [file |-> b.file, data |-> b.data, valid |-> b.valid, lock |-> t]
           w == IF r.i \in b.valid THEN "unlock" ELSE "transfer"
<1>1. r.at = "block" /\ r.i <= r.end /\ r.block # EndOfFile /\ b.lock = NoOne
      /\ P!Change(t, [b EXCEPT !.lock = t]) /\ P!Proceed(t, w)
      /\ listLock' = listLock /\ open' = open /\ result' = result
  BY DEF P!LockFile, P!Reading, P!Mine
<1>2. /\ open[t] \in OpenType /\ o \in DOMAIN objects /\ b \in ObjectType /\ Along(b)
      /\ Walking(r, open[t], b, t) /\ r.end \in Nat /\ r.i \in Nat
  BY <1>1, WhileReading DEF Reading
<1>3. x = [b EXCEPT !.lock = t] /\ x \in ObjectType
  BY <1>2 DEF ObjectType
<1>4. Along(x)
  BY <1>2 DEF Along, BlockOf
<1>5. /\ objects' = [objects EXCEPT ![o] = x]
      /\ objects' \in Seq(ObjectType) /\ ObjectsAlong' /\ objects'[o] = x
      /\ DOMAIN objects' = DOMAIN objects
      /\ \A q \in DOMAIN objects : objects'[q].file = objects[q].file
  BY <1>1, <1>2, <1>3, <1>4, ChangeFact
<1>6. /\ reader' \in [Threads -> ReaderType]
      /\ reader'[t] = [at |-> w, file |-> r.file, end |-> r.end, i |-> r.i, block |-> r.block]
      /\ \A u \in Threads \ {t} : reader'[u] = reader[u]
  BY <1>1, ProceedFact DEF Reading
<1>7. ASSUME NEW u \in Threads \ {t} PROVE Kept(u)
  BY <1>1, <1>2, <1>5, <1>6, OthersKept, PfatAssumption
<1>8. ReaderWalks(t)'
  <2>1. r.block \in Blocks
    BY <1>1, ReaderFields DEF ReaderType
  <2>2. Walking(reader'[t], open[t], x, t)
    <3>1. reader'[t].at = w /\ reader'[t].end = r.end /\ reader'[t].i = r.i /\ reader'[t].block = r.block
      BY <1>6
    <3>2. x.file = b.file /\ x.data = b.data /\ x.valid = b.valid /\ x.lock = t
      OBVIOUS
    <3>3. /\ open[t].pos < r.end /\ r.end <= Size[b.file] /\ r.i \in 1..(r.end + 1)
          /\ 1..(r.i - 1) \subseteq b.valid /\ r.block = BlockOf(b, r.i)
      BY <1>1, <1>2 DEF Walking
    <3>4. BlockOf(x, r.i) = BlockOf(b, r.i)
      BY <3>2 DEF BlockOf
    <3>5. r.i \in b.valid => r.block = b.data[r.i]
      BY <1>2, <3>3 DEF Along
    <3>6. (w = "unlock" /\ r.i \in b.valid) \/ (w = "transfer" /\ r.i \notin b.valid)
      OBVIOUS
    <3> HIDE DEF r, b, x, w
    <3> QED BY <1>1, <2>1, <3>1, <3>2, <3>3, <3>4, <3>5, <3>6, Zenon DEF Walking
  <2> QED  BY <1>1, <1>2, <1>5, <2>2 DEF ReaderWalks
<1>9. PfatTypeOK'
  BY <1>1, <1>5, <1>6 DEF PfatInv, PfatTypeOK
<1> QED  BY <1>1, <1>5, <1>6, <1>7, <1>8, <1>9, ReadStep DEF Opening

(* An object after a transfer into its i-th block that succeeds or fails.       *)
Fill(b, i, d) == [file |-> b.file, data |-> [b.data EXCEPT ![i] = d],
                  valid |-> b.valid \cup {i}, lock |-> b.lock]
Spoil(b, i)   == [file |-> b.file, data |-> [b.data EXCEPT ![i] = Junk],
                  valid |-> b.valid, lock |-> NoOne]

LEMMA DataChange ==
  ASSUME NEW b \in ObjectType, NEW i \in 1..Len(b.data), NEW d \in Blocks \cup {Junk},
         NEW e, e = [b.data EXCEPT ![i] = d]
  PROVE  /\ e \in Seq(Blocks \cup {Junk}) /\ Len(e) = Len(b.data) /\ e[i] = d
         /\ \A j \in 1..Len(b.data) : j # i => e[j] = b.data[j]
<1>1. b.data \in Seq(Blocks \cup {Junk})
  BY DEF ObjectType
<1> QED  BY <1>1, ExceptSeq

(* The block fetched is the next one of the chain.                              *)
LEMMA AlongAfterTransfer ==
  ASSUME NEW b \in ObjectType, Along(b), NEW i \in Nat \ {0}, NEW d \in Blocks,
         NEW x, x = Fill(b, i, d),
         i <= Size[b.file], i \notin b.valid, 1..(i - 1) \subseteq b.valid, d = BlockOf(b, i)
  PROVE  /\ Along(x) /\ x \in ObjectType
         /\ \A j \in b.valid : x.data[j] = b.data[j]
         /\ x.data[i] = d
<1>0. Size[b.file] \in Nat /\ i \in 1..Size[b.file]
  BY PfatAssumption DEF ObjectType
<1>1. b.data \in Seq(Blocks \cup {Junk}) /\ b.file \in Files /\ b.valid \in SUBSET Nat
      /\ b.lock \in Threads \cup {NoOne} /\ Len(b.data) = Size[b.file]
      /\ b.valid \subseteq 1..Size[b.file] /\ Size[b.file] \in Nat
  BY PfatAssumption DEF ObjectType, Along
<1>2. /\ x.data \in Seq(Blocks \cup {Junk}) /\ Len(x.data) = Len(b.data)
      /\ x.data[i] = d /\ \A j \in 1..Len(b.data) : j # i => x.data[j] = b.data[j]
  BY <1>0, <1>1, DataChange DEF Fill
<1>3. x \in ObjectType
  BY <1>1, <1>2 DEF ObjectType, Fill
<1>4. /\ x.valid \subseteq 1..Size[x.file] /\ Len(x.data) = Size[x.file]
      /\ x.valid = b.valid \cup {i} /\ x.file = b.file
  BY <1>0, <1>1, <1>2 DEF Fill
<1>5. ASSUME NEW j \in x.valid, j # 1 PROVE j - 1 \in b.valid
  <2>1. CASE j = i
    BY <1>5, <2>1
  <2>2. CASE j \in b.valid
    BY <1>5, <2>2 DEF Along
  <2> QED  BY <2>1, <2>2, <1>4, <1>5
<1>6. ASSUME NEW j \in x.valid PROVE x.data[j] \in Blocks /\ x.data[j] = BlockOf(x, j)
  <2>1. j \in Nat /\ j \in 1..Len(b.data)
    BY <1>0, <1>1, <1>4
  <2>2. BlockOf(x, j) = BlockOf(b, j)
    <3>1. CASE j = 1
      BY <3>1, <1>4 DEF BlockOf
    <3>2. CASE j # 1
      <4>1. j - 1 \in b.valid
        BY <3>2, <1>5
      <4>2. x.data[j - 1] = b.data[j - 1]
        BY <4>1, <1>1, <1>2
      <4> QED  BY <3>2, <4>2 DEF BlockOf
    <3> QED  BY <3>1, <3>2
  <2>3. CASE j = i
    BY <2>2, <2>3, <1>2
  <2>4. CASE j # i
    <3>1. j \in b.valid /\ x.data[j] = b.data[j]
      BY <2>1, <2>4, <1>2, <1>4
    <3> QED  BY <3>1, <2>2 DEF Along
  <2> QED  BY <2>3, <2>4
<1>7. \A j \in x.valid : j # 1 => j - 1 \in x.valid
  BY <1>4, <1>5
<1>8. Along(x)
  BY <1>4, <1>6, <1>7 DEF Along
<1>9. \A j \in b.valid : x.data[j] = b.data[j]
  BY <1>1, <1>2
<1> QED  BY <1>2, <1>3, <1>8, <1>9

LEMMA Filled ==
  ASSUME NEW b \in ObjectType, NEW i \in Nat, NEW d \in Blocks
  PROVE  [b EXCEPT !.data[i] = d, !.valid = @ \cup {i}] = Fill(b, i, d)
<1> DEFINE x == [b EXCEPT !.data[i] = d, !.valid = @ \cup {i}]
<1>1. x = [b EXCEPT !.data[i] = d, !.valid = @ \cup {i}]
  OBVIOUS
<1> HIDE DEF x
<1>2. x = [file |-> b.file, data |-> [b.data EXCEPT ![i] = d],
           valid |-> b.valid \cup {i}, lock |-> b.lock]
  BY <1>1 DEF ObjectType
<1> QED  BY <1>1, <1>2 DEF Fill

LEMMA Spoilt ==
  ASSUME NEW b \in ObjectType, NEW i \in Nat
  PROVE  [b EXCEPT !.data[i] = Junk, !.lock = NoOne] = Spoil(b, i)
<1> DEFINE x == [b EXCEPT !.data[i] = Junk, !.lock = NoOne]
<1>1. x = [b EXCEPT !.data[i] = Junk, !.lock = NoOne]
  OBVIOUS
<1> HIDE DEF x
<1>2. x = [file |-> b.file, data |-> [b.data EXCEPT ![i] = Junk],
           valid |-> b.valid, lock |-> NoOne]
  BY <1>1 DEF ObjectType
<1> QED  BY <1>1, <1>2 DEF Spoil

LEMMA AlongWhenSpoilt ==
  ASSUME NEW b \in ObjectType, Along(b), NEW i \in 1..Len(b.data), i \notin b.valid,
         NEW x, x = Spoil(b, i)
  PROVE  /\ Along(x) /\ x \in ObjectType
         /\ \A j \in b.valid : x.data[j] = b.data[j]
<1>1. b.data \in Seq(Blocks \cup {Junk}) /\ b.file \in Files /\ b.valid \in SUBSET Nat
      /\ Len(b.data) = Size[b.file] /\ b.valid \subseteq 1..Len(b.data)
  BY DEF ObjectType, Along
<1>2. /\ x.data \in Seq(Blocks \cup {Junk}) /\ Len(x.data) = Len(b.data)
      /\ \A j \in 1..Len(b.data) : j # i => x.data[j] = b.data[j]
  <2> DEFINE e == x.data
  <2>1. e = [b.data EXCEPT ![i] = Junk] /\ Junk \in Blocks \cup {Junk}
    BY DEF Spoil
  <2> HIDE DEF e
  <2>2. /\ e \in Seq(Blocks \cup {Junk}) /\ Len(e) = Len(b.data) /\ e[i] = Junk
        /\ \A j \in 1..Len(b.data) : j # i => e[j] = b.data[j]
    BY <1>1, <2>1, ExceptSeq
  <2> QED  BY <2>2 DEF e
<1>3. x.valid = b.valid /\ x.file = b.file /\ x.lock = NoOne
  BY DEF Spoil
<1>4. x \in ObjectType
  BY <1>1, <1>2, <1>3 DEF ObjectType, Spoil
<1>5. \A j \in b.valid : x.data[j] = b.data[j]
  BY <1>1, <1>2
<1>6. \A j \in b.valid : BlockOf(x, j) = BlockOf(b, j)
  BY <1>3, <1>5 DEF Along, BlockOf
<1>7. Along(x)
  BY <1>1, <1>2, <1>3, <1>5, <1>6 DEF Along
<1> QED  BY <1>4, <1>5, <1>7

LEMMA ToNextBlock ==
  ASSUME NEW f \in [Threads -> ReaderType], NEW t \in Threads,
         NEW g, g = [f EXCEPT ![t].at = "block", ![t].i = @ + 1, ![t].block = Fat[@]]
  PROVE  g = [f EXCEPT ![t] = [at |-> "block", file |-> f[t].file, end |-> f[t].end,
                               i |-> f[t].i + 1, block |-> Fat[f[t].block]]]
BY DEF ReaderType

LEMMA TransferFact ==
  ASSUME PfatInv, NEW t \in Threads, P!Transfer(t)
  PROVE  PfatInv'
<1> DEFINE o == open[t].object  b == objects[o]  r == reader[t]  x == Fill(b, r.i, r.block)
<1>1. r.at = "transfer"
      /\ P!Change(t, [b EXCEPT !.data[r.i] = r.block, !.valid = @ \cup {r.i}]) /\ P!Proceed(t, "unlock")
      /\ listLock' = listLock /\ open' = open /\ result' = result
  BY DEF P!Transfer, P!Mine
<1>2. /\ open[t] \in OpenType /\ o \in DOMAIN objects /\ b \in ObjectType /\ Along(b)
      /\ Walking(r, open[t], b, t) /\ r.end \in Nat /\ r.i \in Nat
  BY <1>1, WhileReading DEF Reading
<1>3. /\ r.end <= Size[b.file] /\ r.i \in Nat \ {0} /\ r.i <= r.end /\ b.lock = t
      /\ r.i \notin b.valid /\ 1..(r.i - 1) \subseteq b.valid
      /\ r.block \in Blocks /\ r.block = BlockOf(b, r.i)
  BY <1>1, <1>2 DEF Walking
<1>4. Size[b.file] \in Nat /\ r.i <= Size[b.file]
  BY <1>2, <1>3, PfatAssumption DEF ObjectType
<1>5. /\ Along(x) /\ x \in ObjectType /\ (\A j \in b.valid : x.data[j] = b.data[j])
      /\ x.data[r.i] = r.block
  BY <1>2, <1>3, <1>4, AlongAfterTransfer
<1>6. x = [b EXCEPT !.data[r.i] = r.block, !.valid = @ \cup {r.i}]
  BY <1>2, <1>3, Filled, Zenon
<1>a. P!Change(t, x)
  BY <1>1, <1>6, Zenon
<1>b. x.file = b.file /\ x.valid = b.valid \cup {r.i} /\ x.lock = b.lock
  BY DEF Fill
<1>7. /\ objects' = [objects EXCEPT ![o] = x]
      /\ objects' \in Seq(ObjectType) /\ ObjectsAlong' /\ objects'[o] = x
      /\ DOMAIN objects' = DOMAIN objects
      /\ \A q \in DOMAIN objects : objects'[q].file = objects[q].file
  BY <1>2, <1>5, <1>a, <1>b, ChangeFact
<1>8. /\ reader' \in [Threads -> ReaderType]
      /\ reader'[t] = [at |-> "unlock", file |-> r.file, end |-> r.end, i |-> r.i, block |-> r.block]
      /\ \A u \in Threads \ {t} : reader'[u] = reader[u]
  BY <1>1, ProceedFact, SMTT(40) DEF Reading
<1>9. ASSUME NEW u \in Threads \ {t} PROVE Kept(u)
  BY <1>1, <1>2, <1>3, <1>5, <1>b, <1>7, <1>8, OthersKept
<1>10. ReaderWalks(t)'
  <2>1. Walking(reader'[t], open[t], x, t)
    BY <1>2, <1>3, <1>4, <1>5, <1>b, <1>8 DEF Walking
  <2> QED  BY <1>1, <1>2, <1>7, <2>1 DEF ReaderWalks
<1>11. PfatTypeOK'
  BY <1>1, <1>7, <1>8 DEF PfatInv, PfatTypeOK
<1> QED  BY <1>1, <1>7, <1>8, <1>9, <1>10, <1>11, ReadStep DEF Opening

LEMMA FailTransferFact ==
  ASSUME PfatInv, NEW t \in Threads, P!FailTransfer(t)
  PROVE  PfatInv'
<1> DEFINE o == open[t].object  b == objects[o]  r == reader[t]  x == Spoil(b, r.i)
<1>1. r.at = "transfer"
      /\ P!Change(t, [b EXCEPT !.data[r.i] = Junk, !.lock = NoOne]) /\ P!Return(t, P!Nothing)
      /\ listLock' = listLock /\ open' = open
  BY DEF P!FailTransfer, P!Mine
<1>2. /\ open[t] \in OpenType /\ o \in DOMAIN objects /\ b \in ObjectType /\ Along(b)
      /\ Walking(r, open[t], b, t) /\ r.end \in Nat /\ r.i \in Nat
  BY <1>1, WhileReading DEF Reading
<1>3. r.i \notin b.valid /\ b.lock = t /\ b.valid \subseteq Nat /\ r.i \in 1..r.end
      /\ r.end <= Size[b.file]
  BY <1>1, <1>2 DEF Walking, ObjectType
<1>4. r.i \in 1..Len(b.data)
  BY <1>2, <1>3, PfatAssumption DEF Along, ObjectType
<1>5. Along(x) /\ x \in ObjectType /\ \A j \in b.valid : x.data[j] = b.data[j]
  BY <1>2, <1>3, <1>4, AlongWhenSpoilt
<1>6. x = [b EXCEPT !.data[r.i] = Junk, !.lock = NoOne]
  BY <1>2, <1>3, Spoilt, Zenon
<1>a. P!Change(t, x)
  BY <1>1, <1>6, Zenon
<1>b. x.file = b.file /\ x.valid = b.valid
  BY DEF Spoil
<1>8. /\ objects' = [objects EXCEPT ![o] = x]
      /\ objects' \in Seq(ObjectType) /\ ObjectsAlong' /\ objects'[o] = x
      /\ DOMAIN objects' = DOMAIN objects
      /\ \A q \in DOMAIN objects : objects'[q].file = objects[q].file
  BY <1>2, <1>5, <1>a, <1>b, ChangeFact
<1>9. /\ reader' \in [Threads -> ReaderType] /\ result' \in [Threads -> Results]
      /\ reader'[t].at = "rest" /\ result'[t] = P!Nothing
      /\ \A u \in Threads \ {t} : reader'[u] = reader[u] /\ result'[u] = result[u]
  <2> QED  BY <1>1, NothingFact, PfatReturnFact
<1>10. ASSUME NEW u \in Threads \ {t} PROVE Kept(u)
  BY <1>1, <1>2, <1>3, <1>5, <1>b, <1>8, <1>9, OthersKept
<1>11. ReaderWalks(t)'
  BY <1>9 DEF ReaderWalks, Reading
<1>12. PfatTypeOK'
  BY <1>1, <1>8, <1>9 DEF PfatInv, PfatTypeOK
<1> QED  BY <1>1, <1>8, <1>9, <1>10, <1>11, <1>12, ReadStep DEF Opening

LEMMA NextBlockFact ==
  ASSUME PfatInv, NEW t \in Threads, P!NextBlock(t)
  PROVE  PfatInv'
<1> DEFINE o == open[t].object  b == objects[o]  r == reader[t]
           x == [file |-> b.file, data |-> b.data, valid |-> b.valid, lock |-> NoOne]
           n == [at |-> "block", file |-> r.file, end |-> r.end, i |-> r.i + 1, block |-> Fat[r.block]]
<1>1. r.at = "unlock"
      /\ P!Change(t, [b EXCEPT !.lock = NoOne])
      /\ reader' = [reader EXCEPT ![t].at = "block", ![t].i = @ + 1, ![t].block = Fat[@]]
      /\ listLock' = listLock /\ open' = open /\ result' = result
  BY DEF P!NextBlock, P!Mine
<1>2. /\ open[t] \in OpenType /\ o \in DOMAIN objects /\ b \in ObjectType /\ Along(b)
      /\ Walking(r, open[t], b, t) /\ r.end \in Nat /\ r.i \in Nat
  BY <1>1, WhileReading DEF Reading
<1>3. /\ r.i \in b.valid /\ r.block = b.data[r.i] /\ b.lock = t /\ r.i \in 1..r.end
      /\ 1..(r.i - 1) \subseteq b.valid
  BY <1>1, <1>2 DEF Walking
<1>4. x = [b EXCEPT !.lock = NoOne] /\ x \in ObjectType
  BY <1>2 DEF ObjectType
<1>5. Along(x)
  BY <1>2 DEF Along, BlockOf
<1>6. /\ objects' = [objects EXCEPT ![o] = x]
      /\ objects' \in Seq(ObjectType) /\ ObjectsAlong' /\ objects'[o] = x
      /\ DOMAIN objects' = DOMAIN objects
      /\ \A q \in DOMAIN objects : objects'[q].file = objects[q].file
  BY <1>1, <1>2, <1>4, <1>5, ChangeFact
<1>7. r.block \in Blocks
  BY <1>2, <1>3 DEF Along
<1>8. r \in ReaderType
  BY ReaderFields
<1>9. n \in ReaderType
  BY <1>2, <1>7, <1>8, PfatAssumption DEF ReaderType, Reading, Blocks
<1>10. reader' = [reader EXCEPT ![t] = n]
  <2>1. reader \in [Threads -> ReaderType]
    BY DEF PfatInv, PfatTypeOK
  <2> QED  BY <1>1, <2>1, ToNextBlock, ZenonT(40)
<1>11. /\ reader' \in [Threads -> ReaderType] /\ reader'[t] = n
       /\ \A u \in Threads \ {t} : reader'[u] = reader[u]
  BY <1>9, <1>10, SetReader, SMTT(40) DEF PfatInv, PfatTypeOK
<1>12. ASSUME NEW u \in Threads \ {t} PROVE Kept(u)
  BY <1>1, <1>2, <1>3, <1>6, <1>11, OthersKept, ZenonT(40)
<1>13. ReaderWalks(t)'
  <2>1. n.block = BlockOf(x, n.i)
    BY <1>2, <1>3 DEF BlockOf
  <2>2. 1..(n.i - 1) \subseteq x.valid /\ n.i \in 1..(n.end + 1)
    BY <1>2, <1>3
  <2>3. Walking(n, open[t], x, t)
    BY <1>2, <2>1, <2>2 DEF Walking
  <2> QED  BY <1>1, <1>2, <1>6, <1>11, <2>3 DEF ReaderWalks
<1>14. PfatTypeOK'
  BY <1>1, <1>6, <1>11 DEF PfatInv, PfatTypeOK
<1> QED  BY <1>1, <1>6, <1>11, <1>12, <1>13, <1>14, ReadStep DEF Opening

LEMMA LockListFact ==
  ASSUME PfatInv, NEW t \in Threads, P!LockList(t)
  PROVE  PfatInv'
<1> DEFINE r == reader[t]  w == IF P!Indexes(r.file) = {} THEN "add" ELSE "found"
<1>1. r.at = "get" /\ listLock = NoOne /\ listLock' = t /\ P!Proceed(t, w)
      /\ objects' = objects /\ open' = open /\ result' = result
  BY DEF P!LockList
<1>2. /\ reader' \in [Threads -> ReaderType]
      /\ reader'[t] = [at |-> w, file |-> r.file, end |-> r.end, i |-> r.i, block |-> r.block]
      /\ \A u \in Threads \ {t} : reader'[u] = reader[u]
  BY <1>1, ProceedFact DEF Opening
<1>3. ASSUME NEW u \in Threads \ {t} PROVE ReaderWalks(u)'
  <2>1. Kept(u)
    BY <1>1, <1>2 DEF Kept
  <2> QED  BY <2>1, WalksOn
<1>4. ReaderWalks(t)'
  BY <1>2 DEF ReaderWalks, Reading
<1>5. ASSUME NEW u \in Threads PROVE ListHeld(u)'
  <2>1. ListHeld(t) /\ ListHeld(u)
    BY DEF PfatInv
  <2>2. \A f : P!Indexes(f)' = P!Indexes(f)
    BY <1>1 DEF P!Indexes
  <2>3. CASE u = t
    BY <1>1, <1>2, <2>1, <2>2, <2>3 DEF ListHeld, Opening, P!Indexes
  <2>4. CASE u # t
    <3>1. reader[u].at \notin {"add", "found"}
      BY <1>1, <2>1, PfatAssumption DEF ListHeld
    <3> QED  BY <1>2, <2>1, <2>4, <3>1 DEF ListHeld
  <2> QED  BY <2>3, <2>4
<1>6. ASSUME NEW u \in Threads PROVE Gave(u)'
  BY <1>1, GaveStill
<1>7. PfatTypeOK' /\ ObjectsAlong' /\ OneObjectEach'
  BY <1>1, <1>2 DEF PfatInv, PfatTypeOK, ObjectsAlong, OneObjectEach, Along, BlockOf
<1> QED  BY <1>3, <1>4, <1>5, <1>6, <1>7 DEF PfatInv

LEMMA StartOpenFact ==
  ASSUME PfatInv, NEW t \in Threads, P!StartOpen(t)
  PROVE  PfatInv'
<1>1. PICK f \in Files : reader' = [reader EXCEPT ![t].at = "get", ![t].file = f]
  BY DEF P!StartOpen
<1>2. reader[t].at = "rest" /\ open[t] = NoFile /\ result' = [result EXCEPT ![t] = P!Nothing]
      /\ objects' = objects /\ open' = open /\ listLock' = listLock
  BY DEF P!StartOpen
<1>3. /\ reader' \in [Threads -> ReaderType] /\ reader'[t].at = "get" /\ reader'[t].file = f
      /\ \A u \in Threads \ {t} : reader'[u] = reader[u]
  BY <1>1 DEF PfatInv, PfatTypeOK, ReaderType, Opening
<1>4. /\ result' \in [Threads -> Results] /\ result'[t] = P!Nothing
      /\ \A u \in Threads \ {t} : result'[u] = result[u]
  BY <1>2, NothingFact DEF PfatInv, PfatTypeOK
<1>5. ASSUME NEW u \in Threads \ {t} PROVE ReaderWalks(u)'
  <2>1. Kept(u)
    BY <1>2, <1>3, <1>4 DEF Kept
  <2> QED  BY <2>1, WalksOn
<1>6. ReaderWalks(t)'
  BY <1>3 DEF ReaderWalks, Reading
<1>7. ASSUME NEW u \in Threads PROVE ListHeld(u)'
  <2>1. ListHeld(u)
    BY DEF PfatInv
  <2>2. \A g : P!Indexes(g)' = P!Indexes(g)
    BY <1>2 DEF P!Indexes
  <2> QED  BY <1>2, <1>3, <2>1, <2>2 DEF ListHeld, Opening, P!Indexes
<1>8. ASSUME NEW u \in Threads PROVE Gave(u)'
  <2>1. CASE u # t
    BY <1>2, <1>4, <2>1, GaveStill
  <2>2. CASE u = t
    <3>1. Gave(t)
      BY DEF PfatInv
    <3> QED  BY <1>2, <1>4, <2>2, <3>1 DEF Gave
  <2> QED  BY <2>1, <2>2
<1>9. PfatTypeOK' /\ ObjectsAlong' /\ OneObjectEach'
  BY <1>2, <1>3, <1>4 DEF PfatInv, PfatTypeOK, ObjectsAlong, OneObjectEach, Along, BlockOf
<1> QED  BY <1>5, <1>6, <1>7, <1>8, <1>9 DEF PfatInv

LEMMA AddObjectFact ==
  ASSUME PfatInv, NEW t \in Threads, P!AddObject(t)
  PROVE  PfatInv'
<1> DEFINE r == reader[t]  n == Len(objects) + 1  x == P!Object(r.file)
<1>1. r.at = "add" /\ objects' = Append(objects, x) /\ P!Proceed(t, "found")
      /\ listLock' = listLock /\ open' = open /\ result' = result
  BY DEF P!AddObject
<1>2. /\ reader' \in [Threads -> ReaderType]
      /\ reader'[t] = [at |-> "found", file |-> r.file, end |-> r.end, i |-> r.i, block |-> r.block]
      /\ \A u \in Threads \ {t} : reader'[u] = reader[u]
  BY <1>1, ProceedFact DEF Opening
<1>3. ListHeld(t) /\ objects \in Seq(ObjectType)
  BY DEF PfatInv, PfatTypeOK
<1>4. r.file \in Files /\ listLock = t /\ P!Indexes(r.file) = {}
  BY <1>1, <1>3 DEF ListHeld, Opening
<1>5. x \in ObjectType /\ Along(x) /\ x.file = r.file
  <2>1. Size[r.file] \in Nat
    BY <1>4, PfatAssumption
  <2>2. [i \in 1..Size[r.file] |-> Junk] \in Seq(Blocks \cup {Junk})
        /\ Len([i \in 1..Size[r.file] |-> Junk]) = Size[r.file]
    BY <2>1
  <2> QED  BY <1>4, <2>1, <2>2 DEF P!Object, ObjectType, Along
<1> HIDE DEF x
<1>6. /\ objects' \in Seq(ObjectType) /\ DOMAIN objects' = DOMAIN objects \cup {n} /\ objects'[n] = x
      /\ n \notin DOMAIN objects /\ \A o \in DOMAIN objects : objects'[o] = objects[o]
  BY <1>1, <1>3, <1>5, AppendEntry
<1>7. ASSUME NEW u \in Threads \ {t} PROVE ReaderWalks(u)'
  <2>1. Kept(u)
    BY <1>1, <1>2, <1>6 DEF Kept
  <2> QED  BY <2>1, WalksOn
<1>8. ReaderWalks(t)'
  BY <1>2 DEF ReaderWalks, Reading
<1>9. ASSUME NEW u \in Threads PROVE ListHeld(u)'
  <2>1. ListHeld(u)
    BY DEF PfatInv
  <2>2. CASE u = t
    <3>1. n \in P!Indexes(r.file)'
      <4>1. n \in DOMAIN objects' /\ objects'[n].file = r.file
        BY <1>5, <1>6
      <4> QED  BY <1>2, <4>1 DEF P!Indexes
    <3> QED  BY <1>1, <1>2, <1>4, <2>2, <3>1 DEF ListHeld, P!Indexes
  <2>3. CASE u # t
    <3>1. reader[u].at \notin {"add", "found"}
      BY <1>4, <2>1, <2>3 DEF ListHeld
    <3> QED  BY <1>2, <2>1, <2>3, <3>1 DEF ListHeld
  <2> QED  BY <2>2, <2>3
<1>10. ASSUME NEW u \in Threads PROVE Gave(u)'
  BY <1>1, <1>6, GaveStill
<1>11. PfatTypeOK'
  BY <1>1, <1>2, <1>6 DEF PfatInv, PfatTypeOK
<1>12. ObjectsAlong'
  <2>1. ASSUME NEW q \in DOMAIN objects' PROVE Along(objects'[q])
    BY <1>5, <1>6 DEF PfatInv, ObjectsAlong
  <2> QED  BY <2>1 DEF ObjectsAlong, Along, BlockOf
<1>13. OneObjectEach'
  <2>1. \A o \in DOMAIN objects : objects[o].file # r.file
    BY <1>4 DEF P!Indexes
  <2> QED  BY <1>5, <1>6, <2>1 DEF PfatInv, OneObjectEach
<1> QED  BY <1>7, <1>8, <1>9, <1>10, <1>11, <1>12, <1>13 DEF PfatInv

(* A thread that leaves PFAT_Open, with the File it is given.                   *)
LEMMA OpenedFact ==
  ASSUME PfatInv, NEW t \in Threads, NEW f \in {NoFile} \cup OpenType, listLock = t,
         reader[t].at \in {"add", "found"},
         (f # NoFile /\ f \in OpenType /\ f.object # Freed) => f.object \in DOMAIN objects,
         open' = [open EXCEPT ![t] = f], listLock' = NoOne, P!Return(t, P!Nothing), objects' = objects
  PROVE  PfatInv'
<1>1. /\ reader' \in [Threads -> ReaderType] /\ result' \in [Threads -> Results]
      /\ reader'[t].at = "rest" /\ result'[t] = P!Nothing
      /\ \A u \in Threads \ {t} : reader'[u] = reader[u] /\ result'[u] = result[u]
  <2> QED  BY NothingFact, PfatReturnFact
<1>2. /\ open' \in [Threads -> {NoFile} \cup OpenType] /\ open'[t] = f
      /\ \A u \in Threads \ {t} : open'[u] = open[u]
  BY DEF PfatInv, PfatTypeOK
<1>3. ASSUME NEW u \in Threads \ {t} PROVE ReaderWalks(u)'
  <2>1. Kept(u)
    BY <1>1, <1>2 DEF Kept
  <2> QED  BY <2>1, WalksOn
<1>4. ReaderWalks(t)'
  BY <1>1 DEF ReaderWalks, Reading
<1>5. ASSUME NEW u \in Threads PROVE ListHeld(u)'
  <2>1. ListHeld(u)
    BY DEF PfatInv
  <2>2. CASE u = t
    BY <1>1, <2>2 DEF ListHeld, Opening
  <2>3. CASE u # t
    <3>1. reader[u].at \notin {"add", "found"}
      BY <2>1, <2>3 DEF ListHeld
    <3> QED  BY <1>1, <2>1, <2>3, <3>1 DEF ListHeld
  <2> QED  BY <2>2, <2>3
<1>6. ASSUME NEW u \in Threads PROVE Gave(u)'
  <2>1. CASE u # t
    BY <1>1, <1>2, <2>1, GaveStill
  <2>2. CASE u = t
    BY <1>1, <1>2, <2>2 DEF Gave
  <2> QED  BY <2>1, <2>2
<1>7. PfatTypeOK' /\ ObjectsAlong' /\ OneObjectEach'
  BY <1>1, <1>2 DEF PfatInv, PfatTypeOK, ObjectsAlong, OneObjectEach, Along, BlockOf
<1> QED  BY <1>3, <1>4, <1>5, <1>6, <1>7 DEF PfatInv

LEMMA UseFreedFact ==
  ASSUME PfatInv, UNCHANGED <<objects, listLock, open, reader, result>>
  PROVE  PfatInv'
<1>1. ASSUME NEW u \in Threads PROVE ReaderWalks(u)' /\ Gave(u)' /\ ListHeld(u)'
  <2>1. Kept(u)
    BY DEF Kept
  <2> QED  BY <2>1, WalksOn, GaveStill DEF Kept, PfatInv, ListHeld, P!Indexes
<1>2. PfatTypeOK' /\ ObjectsAlong' /\ OneObjectEach'
  BY DEF PfatInv, PfatTypeOK, ObjectsAlong, OneObjectEach, Along, BlockOf
<1> QED  BY <1>1, <1>2 DEF PfatInv

LEMMA FailToAddFact ==
  ASSUME PfatInv, NEW t \in Threads, P!FailToAdd(t)
  PROVE  PfatInv'
<1>1. ListHeld(t) /\ reader[t].at = "add"
  BY DEF PfatInv, P!FailToAdd
<1>2. [object |-> Freed, pos |-> 0] \in OpenType
  BY DEF OpenType
<1>3. CASE UNCHANGED <<listLock, open, reader, result>>
  BY <1>3, UseFreedFact DEF P!FailToAdd
<1>4. CASE /\ open' = [open EXCEPT ![t] = [object |-> Freed, pos |-> 0]]
           /\ listLock' = NoOne /\ P!Return(t, P!Nothing)
  BY <1>1, <1>2, <1>4, OpenedFact DEF ListHeld, P!FailToAdd
<1> QED  BY <1>3, <1>4 DEF P!FailToAdd

LEMMA UnlockListFact ==
  ASSUME PfatInv, NEW t \in Threads, P!UnlockList(t)
  PROVE  PfatInv'
<1> DEFINE o == CHOOSE o \in P!Indexes(reader[t].file) : TRUE  f == [object |-> o, pos |-> 0]
<1>1. ListHeld(t) /\ reader[t].at = "found" /\ objects \in Seq(ObjectType)
  BY DEF PfatInv, PfatTypeOK, P!UnlockList
<1>2. o \in P!Indexes(reader[t].file)
  BY <1>1 DEF ListHeld
<1>3. o \in DOMAIN objects /\ o \in Nat
  BY <1>1, <1>2 DEF P!Indexes
<1>4. f \in OpenType /\ f.object \in DOMAIN objects
  BY <1>3 DEF OpenType
<1>5. /\ open' \in {open, [open EXCEPT ![t] = f]} /\ listLock' = NoOne
      /\ P!Return(t, P!Nothing) /\ objects' = objects
  BY DEF P!UnlockList
<1> HIDE DEF f
<1>6. CASE open' = [open EXCEPT ![t] = f]
  BY <1>1, <1>4, <1>5, <1>6, OpenedFact DEF ListHeld
<1>7. CASE open' = open
  <2>1. open[t] \in {NoFile} \cup OpenType /\ open' = [open EXCEPT ![t] = open[t]]
    BY <1>7 DEF PfatInv, PfatTypeOK
  <2>2. (open[t] # NoFile /\ open[t] \in OpenType /\ open[t].object # Freed)
          => open[t].object \in DOMAIN objects
    BY DEF PfatInv, Gave
  <2> QED  BY <1>1, <1>5, <2>1, <2>2, OpenedFact DEF ListHeld
<1> QED  BY <1>5, <1>6, <1>7

(* A thread at rest that changes its File only.                                 *)
LEMMA FileFact ==
  ASSUME PfatInv, NEW t \in Threads, reader[t].at = "rest",
         open' \in [Threads -> {NoFile} \cup OpenType],
         \A u \in Threads \ {t} : open'[u] = open[u],
         result' \in [Threads -> Results],
         \A u \in Threads \ {t} : result'[u] = result[u],
         Gave(t)', UNCHANGED <<objects, listLock, reader>>
  PROVE  PfatInv'
<1>1. ASSUME NEW u \in Threads \ {t} PROVE ReaderWalks(u)' /\ Gave(u)'
  <2>1. Kept(u)
    BY DEF Kept
  <2> QED  BY <2>1, WalksOn, GaveStill DEF Kept
<1>2. ReaderWalks(t)'
  BY DEF ReaderWalks, Reading
<1>3. ASSUME NEW u \in Threads PROVE ListHeld(u)'
  BY DEF PfatInv, ListHeld, P!Indexes
<1>4. PfatTypeOK' /\ ObjectsAlong' /\ OneObjectEach'
  BY DEF PfatInv, PfatTypeOK, ObjectsAlong, OneObjectEach, Along, BlockOf
<1> QED  BY <1>1, <1>2, <1>3, <1>4 DEF PfatInv

(* An object that is open and was not freed is there.                           *)
LEMMA OpenFact ==
  ASSUME PfatInv, NEW t \in Threads, P!HasOpen(t), open[t].object # Freed
  PROVE  /\ open[t] \in OpenType /\ open[t].object \in DOMAIN objects /\ Gave(t)
         /\ objects[open[t].object].file \in Files /\ P!Length(t) \in Nat
<1>1. open[t] \in OpenType /\ objects \in Seq(ObjectType) /\ Gave(t)
  BY DEF PfatInv, PfatTypeOK, P!HasOpen
<1>2. open[t].object \in DOMAIN objects
  BY <1>1 DEF Gave, P!HasOpen
<1>3. objects[open[t].object].file \in Files
  <2>1. objects[open[t].object] \in ObjectType
    BY <1>1, <1>2
  <2> QED  BY <2>1 DEF ObjectType
<1> QED  BY <1>1, <1>2, <1>3, PfatAssumption DEF P!Length

LEMMA SeekFact ==
  ASSUME PfatInv, NEW t \in Threads, P!Seek(t)
  PROVE  PfatInv'
<1>1. /\ open[t] \in OpenType /\ open[t].object \in DOMAIN objects /\ Gave(t)
      /\ P!Length(t) \in Nat /\ open[t].object # Freed
  BY OpenFact DEF P!Seek
<1>2. PICK pos \in 0..(P!Length(t) - 1) :
        open' = [open EXCEPT ![t] = [object |-> open[t].object, pos |-> pos]]
  BY DEF P!Seek, PfatInv, PfatTypeOK
<1>3. pos \in Nat
  BY <1>1, <1>2
<1>4. [object |-> open[t].object, pos |-> pos] \in OpenType
  BY <1>1, <1>3 DEF OpenType
<1>5. /\ open' \in [Threads -> {NoFile} \cup OpenType] /\ open'[t].object = open[t].object
      /\ \A u \in Threads \ {t} : open'[u] = open[u]
  BY <1>2, <1>4 DEF PfatInv, PfatTypeOK
<1>6. UNCHANGED <<objects, listLock, reader>> /\ reader[t].at = "rest"
      /\ result' = [result EXCEPT ![t] = P!Nothing]
  BY DEF P!Seek, P!HasOpen
<1>7. /\ result' \in [Threads -> Results] /\ result'[t] = P!Nothing
      /\ \A u \in Threads \ {t} : result'[u] = result[u]
  BY <1>6, NothingFact DEF PfatInv, PfatTypeOK
<1>8. Gave(t)'
  BY <1>1, <1>5, <1>6, <1>7 DEF Gave
<1> QED  BY <1>5, <1>6, <1>7, <1>8, FileFact

LEMMA CloseFact ==
  ASSUME PfatInv, NEW t \in Threads, P!Close(t)
  PROVE  PfatInv'
<1>1. open' = [open EXCEPT ![t] = NoFile] /\ UNCHANGED <<objects, listLock, reader, result>>
      /\ reader[t].at = "rest"
  BY DEF P!Close, P!HasOpen
<1>2. /\ open' \in [Threads -> {NoFile} \cup OpenType] /\ open'[t] = NoFile
      /\ \A u \in Threads \ {t} : open'[u] = open[u]
  BY <1>1 DEF PfatInv, PfatTypeOK
<1>3. Gave(t)' /\ result' \in [Threads -> Results]
  BY <1>1, <1>2 DEF Gave, PfatInv, PfatTypeOK
<1> QED  BY <1>1, <1>2, <1>3, FileFact

LEMMA StartReadFact ==
  ASSUME PfatInv, NEW t \in Threads, P!StartRead(t)
  PROVE  PfatInv'
<1> DEFINE o == open[t].object  b == objects[o]  r == reader[t]
<1>1. /\ open[t] \in OpenType /\ o \in DOMAIN objects /\ b.file \in Files /\ P!Length(t) \in Nat
      /\ P!Length(t) = Size[b.file]
  BY OpenFact DEF P!StartRead, P!Length
<1>2. PICK end \in (open[t].pos + 1)..P!Length(t) :
        reader' = [reader EXCEPT ![t] = [at |-> "block", file |-> r.file, end |-> end, i |-> 1,
                                         block |-> First[b.file]]]
  BY DEF P!StartRead
<1>3. /\ r.at = "rest" /\ result' = [result EXCEPT ![t] = P!Nothing]
      /\ objects' = objects /\ listLock' = listLock /\ open' = open
  BY DEF P!StartRead, P!HasOpen
<1>4. open[t].pos \in Nat /\ end \in Nat /\ open[t].pos < end /\ end <= Size[b.file]
  BY <1>1, <1>2 DEF OpenType
<1>5. First[b.file] \in Blocks \cup {EndOfFile}
  BY <1>1, PfatAssumption DEF Blocks
<1> DEFINE n == [at |-> "block", file |-> r.file, end |-> end, i |-> 1, block |-> First[b.file]]
<1>6. reader \in [Threads -> ReaderType] /\ r \in ReaderType
  BY DEF PfatInv, PfatTypeOK
<1>7. n \in ReaderType
  BY <1>4, <1>5, <1>6 DEF ReaderType, Reading
<1>8. reader' = [reader EXCEPT ![t] = n]
  BY <1>2
<1>9. /\ reader' \in [Threads -> ReaderType] /\ reader'[t] = n
      /\ \A u \in Threads \ {t} : reader'[u] = reader[u]
  BY <1>6, <1>7, <1>8, SetReader
<1>10. /\ result' \in [Threads -> Results] /\ result'[t] = P!Nothing
       /\ \A u \in Threads \ {t} : result'[u] = result[u]
  BY <1>3, NothingFact DEF PfatInv, PfatTypeOK
<1>11. ASSUME NEW u \in Threads \ {t} PROVE Kept(u)
  BY <1>3, <1>9, <1>10 DEF Kept
<1>12. ReaderWalks(t)'
  <2>1. Walking(n, open[t], b, t)
    BY <1>4 DEF Walking, BlockOf
  <2> QED  BY <1>1, <1>3, <1>9, <2>1 DEF ReaderWalks
<1>13. PfatTypeOK' /\ ObjectsAlong'
  BY <1>3, <1>9, <1>10 DEF PfatInv, PfatTypeOK, ObjectsAlong, Along, BlockOf
<1> QED  BY <1>3, <1>9, <1>10, <1>11, <1>12, <1>13, ReadStep DEF Opening

LEMMA EndOfChainFact ==
  ASSUME PfatInv, NEW t \in Threads, P!EndOfChain(t)
  PROVE  PfatInv'
<1>1. P!Return(t, P!Nothing) /\ objects' = objects /\ listLock' = listLock /\ open' = open
  BY DEF P!EndOfChain
<1>2. /\ reader' \in [Threads -> ReaderType] /\ result' \in [Threads -> Results]
      /\ reader'[t].at = "rest" /\ result'[t] = P!Nothing
      /\ \A u \in Threads \ {t} : reader'[u] = reader[u] /\ result'[u] = result[u]
  <2> QED  BY <1>1, NothingFact, PfatReturnFact
<1>3. ASSUME NEW u \in Threads \ {t} PROVE Kept(u)
  BY <1>1, <1>2 DEF Kept
<1>4. ReaderWalks(t)'
  BY <1>2 DEF ReaderWalks, Reading
<1>5. PfatTypeOK' /\ ObjectsAlong'
  BY <1>1, <1>2 DEF PfatInv, PfatTypeOK, ObjectsAlong, Along, BlockOf
<1> QED  BY <1>1, <1>2, <1>3, <1>4, <1>5, ReadStep DEF Opening

(* The copied blocks are a part of the file's chain.                            *)
LEMMA CopiedFact ==
  ASSUME NEW b \in ObjectType, Along(b), NEW m \in Nat, NEW e \in Nat, m < e,
         e <= Size[b.file], 1..e \subseteq b.valid
  PROVE  [end |-> e, data |-> SubSeq(b.data, m + 1, e)] \in Parts(b.file, m)
<1> DEFINE c == [j \in 1..e |-> b.data[j]]  s == SubSeq(b.data, m + 1, e)  q == SubSeq(c, m + 1, e)
<1>1. b.data \in Seq(Blocks \cup {Junk}) /\ Len(b.data) = Size[b.file] /\ Size[b.file] \in Nat
      /\ b.file \in Files
  BY PfatAssumption DEF ObjectType, Along
<1>2. \A j \in 1..e : b.data[j] \in Blocks /\ b.data[j] = BlockOf(b, j)
  BY DEF Along
<1>3. c \in Seq(Blocks) /\ Len(c) = e /\ c \in [1..e -> Blocks]
  BY <1>2
<1>4. ASSUME NEW j \in 1..e PROVE c[j] = IF j = 1 THEN First[b.file] ELSE Fat[c[j - 1]]
  <2>1. c[j] = b.data[j] /\ (j # 1 => j - 1 \in 1..e /\ c[j - 1] = b.data[j - 1])
    OBVIOUS
  <2> HIDE DEF c
  <2> QED  BY <1>2, <2>1 DEF BlockOf
<1>5. c \in P!Chains(b.file, e)
  <2> HIDE DEF c
  <2> QED  BY <1>3, <1>4 DEF P!Chains, Blocks
<1>6. m + 1 \in 1..(Len(b.data) + 1) /\ e \in m..Len(b.data) /\ e \in (m + 1)..Len(b.data)
      /\ m + 1 \in 1..e /\ e \in 1..Size[b.file]
  BY <1>1
<1>7. /\ s \in Seq(Blocks \cup {Junk}) /\ Len(s) = e - m
      /\ \A j \in 1..(e - m) : s[j] = b.data[m + j]
  BY <1>1, <1>6, SubSeqProperties
<1>8. /\ q \in Seq(Blocks \cup {Junk}) /\ Len(q) = e - m
      /\ \A j \in 1..(e - m) : q[j] = c[m + j]
  <2> HIDE DEF c
  <2>1. \A j \in (m + 1)..e : c[j] \in Blocks \cup {Junk}
    BY <1>3
  <2> QED  BY <2>1, SubSeqProperties
<1>9. s = q
  <2>1. \A j \in 1..(e - m) : m + j \in 1..e
    OBVIOUS
  <2>2. \A j \in 1..(e - m) : c[m + j] = b.data[m + j]
    BY <2>1
  <2> HIDE DEF s, q, c
  <2> QED  BY <1>7, <1>8, <2>2, SeqEqual
<1> HIDE DEF c, s, q
<1>10. [end |-> e, data |-> s] \in Results
  BY <1>7 DEF Results
<1>11. s = SubSeq(c, m + 1, e)
  BY <1>9 DEF q
<1> QED  BY <1>5, <1>10, <1>11 DEF Parts, s

LEMMA CopyDataFact ==
  ASSUME PfatInv, NEW t \in Threads, P!CopyData(t)
  PROVE  PfatInv'
<1> DEFINE o == open[t].object  b == objects[o]  r == reader[t]
           s == [end |-> r.end, data |-> SubSeq(b.data, open[t].pos + 1, r.end)]
<1>1. r.at = "block" /\ ~(r.i <= r.end) /\ P!Return(t, s)
      /\ objects' = objects /\ listLock' = listLock /\ open' = open
  BY DEF P!CopyData, P!Reading, P!Mine
<1>2. /\ open[t] \in OpenType /\ o \in DOMAIN objects /\ b \in ObjectType /\ Along(b)
      /\ Walking(r, open[t], b, t) /\ r.end \in Nat /\ r.i \in Nat /\ open[t].pos \in Nat
  BY <1>1, WhileReading DEF Reading
<1>3. open[t].pos < r.end /\ r.end <= Size[b.file] /\ 1..r.end \subseteq b.valid
  BY <1>1, <1>2 DEF Walking
<1>4. s \in Parts(b.file, open[t].pos)
  BY <1>2, <1>3, CopiedFact
<1>a. s \in Results
  <2> HIDE DEF s
  <2> QED  BY <1>4 DEF Parts
<1>5. /\ reader' \in [Threads -> ReaderType] /\ result' \in [Threads -> Results]
      /\ reader'[t].at = "rest" /\ result'[t] = s
      /\ \A u \in Threads \ {t} : reader'[u] = reader[u] /\ result'[u] = result[u]
  <2> HIDE DEF s
  <2> QED  BY <1>1, <1>a, PfatReturnFact
<1> HIDE DEF s
<1>6. ASSUME NEW u \in Threads PROVE ReaderWalks(u)' /\ ListHeld(u)' /\ Gave(u)'
  <2>1. CASE u # t
    <3>1. Kept(u)
      BY <1>1, <1>5, <2>1 DEF Kept
    <3> QED  BY <1>1, <3>1, WalksOn, GaveStill DEF Kept, PfatInv, ListHeld, P!Indexes
  <2>2. CASE u = t
    <3>1. ReaderWalks(t)' /\ ListHeld(t)'
      BY <1>5 DEF ReaderWalks, ListHeld, Reading, Opening
    <3>2. /\ open'[t].object \in DOMAIN objects'
          /\ result'[t] \in Parts(objects'[open'[t].object].file, open'[t].pos)
      BY <1>1, <1>2, <1>4, <1>5
    <3>3. Gave(t)'
      BY <3>2 DEF Gave, Parts, Results, Blocks, P!Chains, P!Nothing
    <3> QED  BY <2>2, <3>1, <3>3
  <2> QED  BY <2>1, <2>2
<1>7. PfatTypeOK' /\ ObjectsAlong' /\ OneObjectEach'
  BY <1>1, <1>5 DEF PfatInv, PfatTypeOK, ObjectsAlong, OneObjectEach, Along, BlockOf
<1> QED  BY <1>6, <1>7 DEF PfatInv

LEMMA PfatInit == P!Init => PfatInv
<1> SUFFICES ASSUME P!Init PROVE PfatInv
  OBVIOUS
<1>1. P!AtRest \in ReaderType /\ P!AtRest.at = "rest"
  BY DEF P!AtRest, ReaderType
<1>2. PfatTypeOK
  BY <1>1, NothingFact DEF P!Init, PfatTypeOK
<1>3. ObjectsAlong /\ OneObjectEach
  BY DEF P!Init, ObjectsAlong, OneObjectEach
<1>4. ASSUME NEW t \in Threads PROVE ReaderWalks(t) /\ ListHeld(t) /\ Gave(t)
  <2>1. reader[t].at = "rest" /\ open[t] = NoFile
    BY <1>1 DEF P!Init
  <2> QED  BY <2>1 DEF ReaderWalks, ListHeld, Gave, Reading, Opening
<1> QED  BY <1>2, <1>3, <1>4 DEF PfatInv

LEMMA PfatNext == PfatInv /\ P!Next => PfatInv'
<1> SUFFICES ASSUME PfatInv, P!Next PROVE PfatInv'
  OBVIOUS
<1>1. PICK t \in Threads : P!Open(t) \/ P!Read(t) \/ P!Seek(t) \/ P!Close(t) \/ P!UseFreed(t)
  BY DEF P!Next
<1>2. CASE P!Open(t)
  BY <1>2, StartOpenFact, LockListFact, AddObjectFact, FailToAddFact, UnlockListFact DEF P!Open
<1>3. CASE P!Read(t)
  BY <1>3, StartReadFact, EndOfChainFact, LockFileFact, TransferFact, FailTransferFact,
     NextBlockFact, CopyDataFact DEF P!Read
<1>4. CASE P!UseFreed(t)
  BY <1>4, UseFreedFact DEF P!UseFreed
<1> QED  BY <1>1, <1>2, <1>3, <1>4, SeekFact, CloseFact

LEMMA PfatAlways == P!Spec => []PfatInv
<1>1. PfatInv /\ UNCHANGED P!vars => PfatInv'
  BY UseFreedFact DEF P!vars
<1> QED  BY <1>1, PfatInit, PfatNext, PTL DEF P!Spec

(* A read gave the blocks of the file from its position to the end asked for.   *)
LEMMA GivesParts == PfatInv => P!ReadsTheFile
<1> SUFFICES ASSUME PfatInv, NEW t \in Threads, open[t] # NoFile, open[t].object # Freed,
                    result[t] # P!Nothing
             PROVE  \E c \in P!Chains(P!Mine(t).file, result[t].end) :
                      result[t].data = SubSeq(c, open[t].pos + 1, result[t].end)
  BY DEF P!ReadsTheFile
<1>1. result[t] \in Parts(objects[open[t].object].file, open[t].pos)
  BY DEF PfatInv, PfatTypeOK, Gave
<1> QED  BY <1>1 DEF Parts, P!Mine

LEMMA FetchesOnce == PfatInv => P!FetchedOnce
<1> SUFFICES ASSUME PfatInv PROVE P!FetchedOnce
  OBVIOUS
<1>1. ASSUME NEW t \in Threads, reader[t].at = "transfer"
      PROVE  /\ reader[t].i \notin P!Mine(t).valid
             /\ objects[open[t].object].lock = t
  BY <1>1, WhileReading DEF Reading, Walking, P!Mine
<1> QED  BY <1>1 DEF PfatInv, OneObjectEach, P!FetchedOnce

-----------------------------------------------------------------------------
(* The semaphore table *)

EntryType == [sid : Sids, name : Names, refCount : Nat]

Lists(p, s) == \E e \in Entries : semaphores[p][e] = s

(* The references of dead processes that the reaper still has to give back.     *)
Owed == {x \in Procs \X Sids : /\ life[x[1]] = "dead"
                               /\ \E e \in Entries : e >= todo[x[1]] /\ semaphores[x[1]][e] = x[2]}

(* Every use of a semaphore: one for each time a process holds it, and one for  *)
(* each reference the reaper gives back.                                        *)
UsesOf(held, owed, s) ==
  {x \in Procs \X Nat : IF x[2] = 0 THEN <<x[1], s>> \in owed ELSE x[2] <= held[x[1]][s]}
Uses(s) == UsesOf(holds, Owed, s)

SidsUnique ==
  /\ \A i, j \in DOMAIN sema : sema[i].sid = sema[j].sid => i = j
  /\ \A i \in DOMAIN sema : sema[i].sid < nextSid

UsesCounted ==
  /\ \A i \in DOMAIN sema : Cardinality(Uses(sema[i].sid)) <= sema[i].refCount
  /\ \A s \in Sids : IsFiniteSet(Uses(s)) /\ (Uses(s) # {} => Exists(s))

(* What a list has it has once, and its process holds it; nobody has a sid that  *)
(* was not given yet.                                                          *)
ListSound(p) ==
  /\ \A e, f \in Entries : semaphores[p][e] = semaphores[p][f] /\ semaphores[p][e] \in Sids => e = f
  /\ \A s \in Sids : s >= nextSid => ~Lists(p, s) /\ holds[p][s] = 0
  /\ life[p] = "alive" => \A s \in Sids : Lists(p, s) => holds[p][s] # 0
  /\ life[p] = "none" => \A s \in Sids : ~Lists(p, s)
  /\ life[p] # "alive" => inP[p] = Free /\ \A s \in Sids : holds[p][s] = 0
  /\ inP[p] # Free => holds[p][inP[p]] # 0

SemInv ==
  /\ TypeOK
  /\ SidsUnique
  /\ UsesCounted
  /\ \A p \in Procs : ListSound(p)

(* A list without its k-th entry.                                               *)
Without(q, k) == SubSeq(q, 1, k - 1) \o SubSeq(q, k + 1, Len(q))

Slots == Sids \cup {Free, Leftover}       (* what an entry of a list may be     *)

LEMMA RemoveEntry ==
  ASSUME NEW S, NEW q \in Seq(S), NEW k \in 1..Len(q), NEW r, r = Without(q, k)
  PROVE  /\ r \in Seq(S) /\ Len(r) = Len(q) - 1 /\ Len(q) \in Nat
         /\ \A j \in 1..Len(r) : r[j] = IF j < k THEN q[j] ELSE q[j + 1]
<1> DEFINE a == SubSeq(q, 1, k - 1)  b == SubSeq(q, k + 1, Len(q))
<1>1. Len(q) \in Nat /\ k \in Nat /\ k - 1 \in Int /\ k + 1 \in Int
  OBVIOUS
<1>2. (\A i \in 1..(k - 1) : q[i] \in S) /\ (\A i \in (k + 1)..Len(q) : q[i] \in S)
  OBVIOUS
<1>3. a \in Seq(S) /\ Len(a) = k - 1 /\ \A i \in 1..(k - 1) : a[i] = q[i]
  BY <1>1, <1>2, SubSeqProperties
<1>4. b \in Seq(S) /\ Len(b) = Len(q) - k /\ \A i \in 1..(Len(q) - k) : b[i] = q[k + i]
  BY <1>1, <1>2, SubSeqProperties
<1> HIDE DEF a, b
<1>5. r = a \o b
  BY DEF a, b, Without
<1>6. /\ r \in Seq(S) /\ Len(r) = Len(a) + Len(b)
      /\ \A i \in 1..(Len(a) + Len(b)) : r[i] = IF i <= Len(a) THEN a[i] ELSE b[i - Len(a)]
  <2>1. a \in Seq(S) /\ b \in Seq(S)
    BY <1>3, <1>4
  <2>2. /\ a \o b \in Seq(S) /\ Len(a \o b) = Len(a) + Len(b)
        /\ \A i \in 1..(Len(a) + Len(b)) : (a \o b)[i] = IF i <= Len(a) THEN a[i] ELSE b[i - Len(a)]
    BY <2>1, ConcatProperties
  <2> QED  BY <1>5, <2>2, Zenon
<1>7. Len(r) = Len(q) - 1
  BY <1>1, <1>3, <1>4, <1>6
<1>8. ASSUME NEW j \in 1..Len(r) PROVE r[j] = IF j < k THEN q[j] ELSE q[j + 1]
  <2>1. j \in Nat /\ j >= 1 /\ j <= Len(q) - 1
    BY <1>1, <1>7
  <2>2. r[j] = IF j <= k - 1 THEN a[j] ELSE b[j - (k - 1)]
    BY <1>1, <1>3, <1>4, <1>6
  <2>3. CASE j < k
    BY <1>1, <1>3, <2>1, <2>2, <2>3
  <2>4. CASE ~(j < k)
    <3>1. j - (k - 1) \in 1..(Len(q) - k) /\ k + (j - (k - 1)) = j + 1
      BY <1>1, <2>1, <2>4
    <3>2. b[j - (k - 1)] = q[j + 1]
      BY <1>4, <3>1
    <3> QED  BY <1>1, <2>1, <2>2, <2>4, <3>2
  <2> QED  BY <2>3, <2>4
<1> QED  BY <1>1, <1>6, <1>7, <1>8

LEMMA SetCount ==
  ASSUME NEW f \in Seq(EntryType), NEW i \in DOMAIN f, NEW n \in Nat,
         NEW g, g = [f EXCEPT ![i].refCount = n]
  PROVE  /\ g \in Seq(EntryType) /\ DOMAIN g = DOMAIN f
         /\ g[i].sid = f[i].sid /\ g[i].refCount = n
         /\ \A j \in DOMAIN f : j # i => g[j] = f[j]
<1>1. PICK x : x = f[i]
  OBVIOUS
<1>2. x \in EntryType
  BY <1>1
<1>3. PICK y : y = [x EXCEPT !.refCount = n]
  OBVIOUS
<1>4. y \in EntryType /\ y.sid = x.sid /\ y.refCount = n
  BY <1>2, <1>3 DEF EntryType
<1>5. g = [f EXCEPT ![i] = y]
  BY <1>1, <1>3, Zenon
<1> QED  BY <1>1, <1>4, <1>5

LEMMA ReferenceFact ==
  ASSUME TypeOK, NEW i \in DOMAIN sema, Reference(i)
  PROVE  /\ sema' \in Seq(EntryType) /\ DOMAIN sema' = DOMAIN sema
         /\ sema'[i].sid = sema[i].sid /\ sema'[i].refCount = sema[i].refCount + 1
         /\ \A j \in DOMAIN sema : j # i => sema'[j] = sema[j]
<1>1. sema \in Seq(EntryType)
  BY DEF TypeOK, EntryType
<1>2. sema[i].refCount + 1 \in Nat
  <2>1. sema[i] \in EntryType
    BY <1>1
  <2> QED  BY <2>1 DEF EntryType
<1>3. sema' = [sema EXCEPT ![i].refCount = sema[i].refCount + 1]
  BY DEF Reference
<1> QED  BY <1>1, <1>2, <1>3, SetCount

(* What is left after a reference to s was given back.                          *)
LEMMA UnreferenceFact ==
  ASSUME TypeOK, SidsUnique, NEW s \in Sids, Exists(s), Unreference(s),
         \A i \in WithId(s) : sema[i].refCount # 0
  PROVE  /\ sema' \in Seq(EntryType)
         /\ \A j \in DOMAIN sema' : \E i \in DOMAIN sema :
              /\ sema'[j].sid = sema[i].sid
              /\ sema'[j].refCount = IF sema[i].sid = s THEN sema[i].refCount - 1 ELSE sema[i].refCount
         /\ \A i, j \in DOMAIN sema' : sema'[i].sid = sema'[j].sid => i = j
         /\ \A t : t # s /\ Exists(t) => Exists(t)'
         /\ \A i \in WithId(s) : sema[i].refCount # 1 => Exists(s)'
         /\ \A i \in WithId(s) : sema[i].refCount = 1 => ~Exists(s)'
<1>0. PICK k : k = Min(WithId(s))
  OBVIOUS
<1>1. sema \in Seq(EntryType)
  BY DEF TypeOK, EntryType
<1>2. k \in WithId(s)
  <2>1. WithId(s) \in SUBSET Nat
    BY <1>1 DEF WithId
  <2> QED  BY <1>0, <2>1, MinFact DEF Exists
<1>3. k \in DOMAIN sema /\ sema[k].sid = s /\ sema[k].refCount \in Nat /\ sema[k].refCount # 0
  <2>1. k \in DOMAIN sema /\ sema[k].sid = s
    BY <1>2 DEF WithId
  <2>2. sema[k] \in EntryType
    BY <1>1, <2>1
  <2> QED  BY <1>2, <2>1, <2>2 DEF EntryType
<1>4. \A i \in WithId(s) : i = k
  BY <1>3 DEF WithId, SidsUnique
<1>5. \A i \in DOMAIN sema : sema[i].sid = s => i = k
  BY <1>3 DEF SidsUnique
<1>6. CASE sema[k].refCount = 1
  <2>1. sema' = Without(sema, k)
    BY <1>0, <1>6 DEF Unreference, Without
  <2>2. k \in 1..Len(sema)
    BY <1>1, <1>3
  <2>3. /\ sema' \in Seq(EntryType) /\ Len(sema') = Len(sema) - 1 /\ Len(sema) \in Nat
        /\ \A j \in 1..Len(sema') : sema'[j] = IF j < k THEN sema[j] ELSE sema[j + 1]
    BY <1>1, <2>1, <2>2, RemoveEntry
  <2>4. DOMAIN sema = 1..Len(sema) /\ DOMAIN sema' = 1..Len(sema')
    BY <1>1, <2>3
  <2>5. ASSUME NEW j \in DOMAIN sema'
        PROVE  \E i \in DOMAIN sema : i # k /\ sema'[j] = sema[i] /\ i = IF j < k THEN j ELSE j + 1
    BY <2>2, <2>3, <2>4
  <2>6. ASSUME NEW i \in DOMAIN sema, i # k
        PROVE  \E j \in DOMAIN sema' : sema'[j] = sema[i]
    <3>1. CASE i < k
      BY <2>2, <2>3, <2>4, <2>6, <3>1
    <3>2. CASE i > k
      <4>1. i - 1 \in 1..Len(sema') /\ ~(i - 1 < k) /\ (i - 1) + 1 = i
        BY <2>2, <2>3, <2>4, <3>2
      <4> QED  BY <2>3, <2>4, <4>1
    <3> QED  BY <2>2, <2>4, <2>6, <3>1, <3>2
  <2>7. \A i, j \in DOMAIN sema' : sema'[i].sid = sema'[j].sid => i = j
    <3> SUFFICES ASSUME NEW i \in DOMAIN sema', NEW j \in DOMAIN sema', sema'[i].sid = sema'[j].sid
                 PROVE  i = j
      OBVIOUS
    <3>1. PICK a \in DOMAIN sema : sema'[i] = sema[a] /\ a = IF i < k THEN i ELSE i + 1
      BY <2>5
    <3>2. PICK b \in DOMAIN sema : sema'[j] = sema[b] /\ b = IF j < k THEN j ELSE j + 1
      BY <2>5
    <3>3. a = b
      BY <3>1, <3>2 DEF SidsUnique
    <3> QED  BY <2>2, <2>4, <3>1, <3>2, <3>3
  <2>8. \A t : t # s /\ Exists(t) => Exists(t)'
    <3> SUFFICES ASSUME NEW t, t # s, Exists(t) PROVE Exists(t)'
      OBVIOUS
    <3>1. PICK i \in DOMAIN sema : sema[i].sid = t
      BY DEF Exists, WithId
    <3>2. PICK j \in DOMAIN sema' : sema'[j] = sema[i]
      BY <1>3, <2>6, <3>1
    <3> QED  BY <3>1, <3>2 DEF Exists, WithId
  <2>9. ~Exists(s)'
    <3>1. \A j \in DOMAIN sema' : sema'[j].sid # s
      BY <1>5, <2>5
    <3> QED  BY <3>1 DEF Exists, WithId
  <2>10. ASSUME NEW j \in DOMAIN sema'
         PROVE  \E i \in DOMAIN sema :
              /\ sema'[j].sid = sema[i].sid
              /\ sema'[j].refCount = IF sema[i].sid = s THEN sema[i].refCount - 1 ELSE sema[i].refCount
    BY <1>5, <2>5
  <2> QED  BY <1>4, <1>6, <2>3, <2>7, <2>8, <2>9, <2>10
<1>7. CASE sema[k].refCount # 1
  <2>1. sema' = [sema EXCEPT ![k].refCount = sema[k].refCount - 1]
    BY <1>0, <1>7 DEF Unreference
  <2>2. sema[k].refCount - 1 \in Nat
    BY <1>3
  <2>3. /\ sema' \in Seq(EntryType) /\ DOMAIN sema' = DOMAIN sema
        /\ sema'[k].sid = s /\ sema'[k].refCount = sema[k].refCount - 1
        /\ \A j \in DOMAIN sema : j # k => sema'[j] = sema[j]
    <3>1. /\ sema' \in Seq(EntryType) /\ DOMAIN sema' = DOMAIN sema
          /\ sema'[k].sid = sema[k].sid /\ sema'[k].refCount = sema[k].refCount - 1
          /\ \A j \in DOMAIN sema : j # k => sema'[j] = sema[j]
      <4>1. PICK n : n = sema[k].refCount - 1
        OBVIOUS
      <4>2. n \in Nat /\ k \in DOMAIN sema /\ sema' = [sema EXCEPT ![k].refCount = n]
        BY <1>3, <2>1, <2>2, <4>1, Zenon
      <4>3. /\ sema' \in Seq(EntryType) /\ DOMAIN sema' = DOMAIN sema
            /\ sema'[k].sid = sema[k].sid /\ sema'[k].refCount = n
            /\ \A j \in DOMAIN sema : j # k => sema'[j] = sema[j]
        BY <1>1, <4>2, SetCount
      <4> QED  BY <4>1, <4>3
    <3> QED  BY <1>3, <3>1
  <2>4. \A j \in DOMAIN sema : sema'[j].sid = sema[j].sid
    BY <1>3, <2>3
  <2>5. \A t : Exists(t) => Exists(t)'
    BY <2>3, <2>4 DEF Exists, WithId
  <2>6. ASSUME NEW j \in DOMAIN sema'
        PROVE  \E i \in DOMAIN sema :
              /\ sema'[j].sid = sema[i].sid
              /\ sema'[j].refCount = IF sema[i].sid = s THEN sema[i].refCount - 1 ELSE sema[i].refCount
    BY <1>3, <1>5, <2>3, <2>4
  <2> QED  BY <1>4, <1>7, <2>3, <2>4, <2>5, <2>6 DEF SidsUnique
<1> QED  BY <1>6, <1>7

HoldsType == [Procs -> [Sids -> Nat]]

(* held, but p holds s n times.                                                 *)
HeldAs(held, p, s, n) == [held EXCEPT ![p][s] = n]

LEMMA UseOnce ==
  ASSUME holds \in HoldsType, NEW p \in Procs, NEW s \in Sids, NEW n \in Nat,
         holds' = HeldAs(holds, p, s, n)
  PROVE  /\ holds' \in HoldsType /\ holds'[p][s] = n
         /\ \A q \in Procs, t \in Sids : q # p \/ t # s => holds'[q][t] = holds[q][t]
         /\ \A t \in Sids : t # s => UsesOf(holds', Owed, t) = UsesOf(holds, Owed, t)
         /\ n = holds[p][s] + 1 => UsesOf(holds', Owed, s) = UsesOf(holds, Owed, s) \cup {<<p, n>>}
         /\ n + 1 = holds[p][s] => UsesOf(holds', Owed, s) = UsesOf(holds, Owed, s) \ {<<p, n + 1>>}
<1>1. holds' \in HoldsType /\ holds'[p][s] = n
  BY DEF HeldAs, HoldsType
<1>2. \A q \in Procs, t \in Sids : q # p \/ t # s => holds'[q][t] = holds[q][t]
  BY DEF HeldAs, HoldsType
<1>3. ASSUME NEW t \in Sids, t # s PROVE UsesOf(holds', Owed, t) = UsesOf(holds, Owed, t)
  <2>1. \A q \in Procs : holds'[q][t] = holds[q][t]
    BY <1>2, <1>3
  <2> QED  BY <2>1 DEF UsesOf
<1>4. ASSUME n = holds[p][s] + 1
      PROVE  UsesOf(holds', Owed, s) = UsesOf(holds, Owed, s) \cup {<<p, n>>}
  <2>1. ASSUME NEW x \in Procs \X Nat
        PROVE  x \in UsesOf(holds', Owed, s) <=> x \in UsesOf(holds, Owed, s) \/ x = <<p, n>>
    <3>1. x[1] \in Procs /\ x[2] \in Nat /\ x = <<x[1], x[2]>> /\ holds[x[1]][s] \in Nat
      BY DEF HoldsType
    <3>2. CASE x[1] = p
      BY <1>1, <1>4, <3>1, <3>2 DEF UsesOf
    <3>3. CASE x[1] # p
      BY <1>2, <3>1, <3>3 DEF UsesOf
    <3> QED  BY <3>2, <3>3
  <2>2. UsesOf(holds', Owed, s) \subseteq Procs \X Nat /\ UsesOf(holds, Owed, s) \subseteq Procs \X Nat
    BY DEF UsesOf
  <2> QED  BY <2>1, <2>2
<1>5. ASSUME n + 1 = holds[p][s]
      PROVE  UsesOf(holds', Owed, s) = UsesOf(holds, Owed, s) \ {<<p, n + 1>>}
  <2>1. ASSUME NEW x \in Procs \X Nat
        PROVE  x \in UsesOf(holds', Owed, s) <=> x \in UsesOf(holds, Owed, s) /\ x # <<p, n + 1>>
    <3>1. x[1] \in Procs /\ x[2] \in Nat /\ x = <<x[1], x[2]>> /\ holds[x[1]][s] \in Nat
      BY DEF HoldsType
    <3>2. CASE x[1] = p
      BY <1>1, <1>5, <3>1, <3>2 DEF UsesOf
    <3>3. CASE x[1] # p
      BY <1>2, <3>1, <3>3 DEF UsesOf
    <3> QED  BY <3>2, <3>3
  <2>2. UsesOf(holds', Owed, s) \subseteq Procs \X Nat /\ UsesOf(holds, Owed, s) \subseteq Procs \X Nat
    BY DEF UsesOf
  <2> QED  BY <2>1, <2>2
<1> QED  BY <1>1, <1>2, <1>3, <1>4, <1>5

(* A use that ends and gives its reference back.                                *)
LEMMA GiveBack ==
  ASSUME SemInv, NEW s \in Sids, NEW x, x \in Uses(s), Unreference(s), nextSid' = nextSid,
         UsesOf(holds', Owed', s) = Uses(s) \ {x},
         \A t \in Sids : t # s => UsesOf(holds', Owed', t) = Uses(t)
  PROVE  sema' \in Seq(EntryType) /\ SidsUnique' /\ UsesCounted'
<1>1. sema \in Seq(EntryType) /\ TypeOK /\ SidsUnique /\ UsesCounted
  BY DEF SemInv, TypeOK, EntryType
<1>2. Exists(s) /\ IsFiniteSet(Uses(s)) /\ \A t \in Sids : IsFiniteSet(Uses(t))
  BY <1>1 DEF UsesCounted
<1>3. /\ IsFiniteSet(Uses(s) \ {x}) /\ Cardinality(Uses(s) \ {x}) = Cardinality(Uses(s)) - 1
      /\ Cardinality(Uses(s)) \in Nat /\ Cardinality(Uses(s)) # 0
  BY <1>2, FS_RemoveElement, FS_CardinalityType, FS_EmptySet
<1>4. \A i \in DOMAIN sema : sema[i].sid \in Sids /\ sema[i].refCount \in Nat
  <2>1. \A i \in DOMAIN sema : sema[i] \in EntryType
    BY <1>1
  <2> QED  BY <2>1 DEF EntryType
<1>5. \A i \in WithId(s) : Cardinality(Uses(s)) <= sema[i].refCount /\ sema[i].refCount \in Nat
                           /\ sema[i].refCount # 0
  <2>1. \A i \in WithId(s) : Cardinality(Uses(s)) <= sema[i].refCount /\ sema[i].refCount \in Nat
    BY <1>1, <1>4 DEF UsesCounted, WithId
  <2> QED  BY <1>3, <2>1
<1>6. /\ sema' \in Seq(EntryType)
      /\ \A j \in DOMAIN sema' : \E i \in DOMAIN sema :
           /\ sema'[j].sid = sema[i].sid
           /\ sema'[j].refCount = IF sema[i].sid = s THEN sema[i].refCount - 1 ELSE sema[i].refCount
      /\ \A i, j \in DOMAIN sema' : sema'[i].sid = sema'[j].sid => i = j
      /\ \A t : t # s /\ Exists(t) => Exists(t)'
      /\ \A i \in WithId(s) : sema[i].refCount # 1 => Exists(s)'
  BY <1>1, <1>2, <1>5, UnreferenceFact
<1>7. SidsUnique'
  <2>1. \A j \in DOMAIN sema' : sema'[j].sid < nextSid'
    BY <1>1, <1>6 DEF SidsUnique
  <2> QED  BY <1>6, <2>1 DEF SidsUnique
<1> DEFINE h == holds'  o == Owed'
<1>8. ASSUME NEW j \in DOMAIN sema' PROVE Cardinality(UsesOf(h, o, sema'[j].sid)) <= sema'[j].refCount
  <2>1. PICK i \in DOMAIN sema :
           /\ sema'[j].sid = sema[i].sid
           /\ sema'[j].refCount = IF sema[i].sid = s THEN sema[i].refCount - 1 ELSE sema[i].refCount
    BY <1>6
  <2>2. CASE sema[i].sid = s
    <3>1. i \in WithId(s)
      BY <2>2 DEF WithId
    <3>2. UsesOf(h, o, sema'[j].sid) = Uses(s) \ {x}
      BY <2>1, <2>2
    <3>3. Cardinality(Uses(s)) <= sema[i].refCount /\ sema[i].refCount \in Nat
      BY <1>5, <3>1
    <3>4. Cardinality(Uses(s) \ {x}) <= sema[i].refCount - 1
      BY <1>3, <3>3
    <3>5. sema'[j].refCount = sema[i].refCount - 1
      BY <2>1, <2>2
    <3> QED  BY <3>2, <3>4, <3>5, Zenon
  <2>3. CASE sema[i].sid # s
    <3>1. UsesOf(h, o, sema'[j].sid) = Uses(sema[i].sid)
      BY <1>4, <2>1, <2>3
    <3> QED  BY <1>1, <2>1, <2>3, <3>1 DEF UsesCounted
  <2> QED  BY <2>2, <2>3
<1>9. ASSUME NEW t \in Sids PROVE IsFiniteSet(UsesOf(h, o, t)) /\ (UsesOf(h, o, t) # {} => Exists(t)')
  <2>1. CASE t # s
    BY <1>1, <1>6, <2>1 DEF UsesCounted
  <2>2. CASE t = s
    <3>1. PICK i : i \in WithId(s)
      BY <1>2 DEF Exists
    <3>2. CASE sema[i].refCount # 1
      BY <1>3, <1>6, <2>2, <3>1, <3>2
    <3>3. CASE sema[i].refCount = 1
      <4>1. Cardinality(Uses(s) \ {x}) = 0
        BY <1>3, <1>5, <3>1, <3>3
      <4>2. Uses(s) \ {x} = {}
        BY <1>3, <4>1, FS_EmptySet
      <4> QED  BY <1>3, <2>2, <4>2
    <3> QED  BY <3>2, <3>3
  <2> QED  BY <2>1, <2>2
<1>10. UsesCounted'
  BY <1>8, <1>9 DEF UsesCounted, Uses
<1> QED  BY <1>6, <1>7, <1>10

(* Nobody's uses change, nor the table.                                         *)
LEMMA SameUses ==
  ASSUME SemInv, sema' = sema, nextSid' = nextSid, \A t \in Sids : UsesOf(holds', Owed', t) = Uses(t)
  PROVE  sema' \in Seq(EntryType) /\ SidsUnique' /\ UsesCounted'
<1>1. sema \in Seq(EntryType) /\ TypeOK /\ SidsUnique /\ UsesCounted
  BY DEF SemInv, TypeOK, EntryType
<1>2. \A i \in DOMAIN sema : sema[i].sid \in Sids
  <2>1. \A i \in DOMAIN sema : sema[i] \in EntryType
    BY <1>1
  <2> QED  BY <2>1 DEF EntryType
<1>3. SidsUnique'
  BY <1>1 DEF SidsUnique
<1> DEFINE h == holds'  o == Owed'
<1>4. \A i \in DOMAIN sema' : Cardinality(UsesOf(h, o, sema'[i].sid)) <= sema'[i].refCount
  BY <1>1, <1>2 DEF UsesCounted
<1>5. \A t \in Sids : IsFiniteSet(UsesOf(h, o, t)) /\ (UsesOf(h, o, t) # {} => Exists(t)')
  BY <1>1 DEF UsesCounted, Exists, WithId
<1>6. UsesCounted'
  BY <1>4, <1>5 DEF UsesCounted, Uses
<1> QED  BY <1>1, <1>3, <1>6

LEMMA SemTypes ==
  ASSUME SemInv
  PROVE  /\ sema \in Seq(EntryType) /\ TypeOK /\ SidsUnique /\ UsesCounted
         /\ holds \in [Procs -> [Sids -> Nat]] /\ inP \in [Procs -> Sids \cup {Free}]
         /\ semaphores \in [Procs -> [Entries -> Slots]]
         /\ life \in [Procs -> {"none", "alive", "dead"}]
         /\ todo \in [Procs -> 1..(NumEntries + 1)] /\ nextSid \in 1..(MaxSid + 1)
         /\ Free \in Slots /\ Sids \subseteq Slots
         /\ NumEntries \in Nat /\ MaxSid \in Nat /\ Free \notin Sids /\ Leftover \notin Sids
         /\ \A i \in DOMAIN sema : sema[i].sid \in Sids /\ sema[i].refCount \in Nat
<1>1. sema \in Seq(EntryType)
  BY DEF SemInv, TypeOK, EntryType
<1>2. \A i \in DOMAIN sema : sema[i].sid \in Sids /\ sema[i].refCount \in Nat
  <2>1. \A i \in DOMAIN sema : sema[i] \in EntryType
    BY <1>1
  <2> QED  BY <2>1 DEF EntryType
<1>3. Free \notin Sids /\ Leftover \notin Sids
  BY SemTableAssumption DEF Free, Leftover, Sids
<1> QED  BY <1>1, <1>2, <1>3, SemTableAssumption DEF SemInv, TypeOK, Slots

(* Steps of P and V and of the life of a process: nothing is given or taken.     *)
LEMMA EnterPFact ==
  ASSUME SemInv, NEW p \in Procs, NEW s \in Sids, EnterP(p, s) \/ LeaveP(p)
  PROVE  SemInv'
<1>1. /\ sema' = sema /\ nextSid' = nextSid /\ semaphores' = semaphores /\ life' = life /\ todo' = todo
      /\ holds' = holds
  BY DEF EnterP, LeaveP
<1>2. \A t \in Sids : UsesOf(holds', Owed', t) = Uses(t)
  BY <1>1 DEF Uses, Owed
<1>3. sema' \in Seq(EntryType) /\ SidsUnique' /\ UsesCounted'
  BY <1>1, <1>2, SameUses
<1>4. /\ inP' \in [Procs -> Sids \cup {Free}] /\ (\A q \in Procs \ {p} : inP'[q] = inP[q])
      /\ life[p] = "alive" /\ (inP'[p] = Free \/ (inP'[p] = s /\ holds[p][s] # 0))
  <2>1. CASE EnterP(p, s)
    <3>1. inP' = [inP EXCEPT ![p] = s] /\ life[p] = "alive" /\ holds[p][s] > 0
      BY <2>1 DEF EnterP, Runs
    <3>2. holds[p][s] \in Nat
      BY SemTypes
    <3> QED  BY <3>1, <3>2, SemTypes
  <2>2. CASE LeaveP(p)
    <3>1. inP' = [inP EXCEPT ![p] = Free] /\ life[p] = "alive"
      BY <2>2 DEF LeaveP
    <3>2. inP \in [Procs -> Sids \cup {Free}] /\ Free \in Sids \cup {Free}
      BY SemTypes
    <3> QED  BY <3>1, <3>2, SemTypes
  <2> QED  BY <2>1, <2>2
<1>5. TypeOK'
  BY <1>1, <1>3, <1>4, SemTypes DEF TypeOK, EntryType, Slots
<1>6. ASSUME NEW q \in Procs PROVE ListSound(q)'
  <2>1. ListSound(q)
    BY DEF SemInv
  <2>2. CASE q = p
    BY <1>1, <1>4, <2>1, <2>2 DEF ListSound, Lists
  <2>3. CASE q # p
    BY <1>1, <1>4, <2>1, <2>3 DEF ListSound, Lists
  <2> QED  BY <2>2, <2>3
<1> QED  BY <1>3, <1>5, <1>6 DEF SemInv

LEMMA StartFact ==
  ASSUME SemInv, NEW p \in Procs, Start(p)
  PROVE  SemInv'
<1>1. /\ sema' = sema /\ nextSid' = nextSid /\ semaphores' = semaphores /\ todo' = todo
      /\ holds' = holds /\ inP' = inP /\ life[p] = "none" /\ life' = [life EXCEPT ![p] = "alive"]
  BY DEF Start
<1>2. /\ life' \in [Procs -> {"none", "alive", "dead"}] /\ life'[p] = "alive"
      /\ \A q \in Procs \ {p} : life'[q] = life[q]
  BY <1>1, SemTypes
<1>3. Owed' = Owed
  BY <1>1, <1>2 DEF Owed
<1>4. \A t \in Sids : UsesOf(holds', Owed', t) = Uses(t)
  BY <1>1, <1>3 DEF Uses
<1>5. sema' \in Seq(EntryType) /\ SidsUnique' /\ UsesCounted'
  BY <1>1, <1>4, SameUses
<1>6. TypeOK'
  BY <1>1, <1>2, <1>5, SemTypes DEF TypeOK, EntryType, Slots
<1>7. ASSUME NEW q \in Procs PROVE ListSound(q)'
  <2>1. ListSound(q)
    BY DEF SemInv
  <2>2. CASE q = p
    BY <1>1, <1>2, <2>1, <2>2 DEF ListSound, Lists
  <2>3. CASE q # p
    BY <1>1, <1>2, <2>1, <2>3 DEF ListSound, Lists
  <2> QED  BY <2>2, <2>3
<1> QED  BY <1>5, <1>6, <1>7 DEF SemInv

LEMMA NewListFact ==
  /\ NewList \in [Entries -> Slots]
  /\ \A e \in Entries : NewList[e] \notin Sids
<1>1. Free \notin Sids /\ Leftover \notin Sids
  BY SemTableAssumption DEF Free, Leftover, Sids
<1> QED  BY <1>1 DEF NewList, Slots

LEMMA FreeContextFact ==
  ASSUME SemInv, NEW p \in Procs, FreeContext(p)
  PROVE  SemInv'
<1>1. /\ sema' = sema /\ nextSid' = nextSid /\ holds' = holds /\ inP' = inP /\ life[p] = "dead"
      /\ todo[p] \notin Entries /\ life' = [life EXCEPT ![p] = "none"]
      /\ semaphores' = [semaphores EXCEPT ![p] = NewList] /\ todo' = [todo EXCEPT ![p] = 1]
  BY DEF FreeContext
<1>2. /\ life' \in [Procs -> {"none", "alive", "dead"}] /\ life'[p] = "none"
      /\ semaphores' \in [Procs -> [Entries -> Slots]] /\ semaphores'[p] = NewList
      /\ todo' \in [Procs -> 1..(NumEntries + 1)]
      /\ \A q \in Procs \ {p} : life'[q] = life[q] /\ semaphores'[q] = semaphores[q] /\ todo'[q] = todo[q]
  BY <1>1, SemTypes, NewListFact
<1>3. Owed' = Owed
  <2>1. todo[p] \in 1..(NumEntries + 1) /\ NumEntries \in Nat
    BY SemTypes
  <2>2. \A e \in Entries : ~(e >= todo[p])
    BY <1>1, <2>1 DEF Entries
  <2> QED  BY <1>1, <1>2, <2>2 DEF Owed
<1>4. \A t \in Sids : UsesOf(holds', Owed', t) = Uses(t)
  BY <1>1, <1>3 DEF Uses
<1>5. sema' \in Seq(EntryType) /\ SidsUnique' /\ UsesCounted'
  BY <1>1, <1>4, SameUses
<1>6. TypeOK'
  BY <1>1, <1>2, <1>5, SemTypes DEF TypeOK, EntryType, Slots
<1>7. ASSUME NEW q \in Procs PROVE ListSound(q)'
  <2>1. ListSound(q)
    BY DEF SemInv
  <2>2. CASE q = p
    <3>1. \A s \in Sids : ~Lists(p, s)'
      BY <1>2, NewListFact DEF Lists
    <3> QED  BY <1>1, <1>2, <2>1, <2>2, <3>1, NewListFact DEF ListSound
  <2>3. CASE q # p
    BY <1>1, <1>2, <2>1, <2>3 DEF ListSound, Lists
  <2> QED  BY <2>2, <2>3
<1> QED  BY <1>5, <1>6, <1>7 DEF SemInv

LEMMA ReplaceFact ==
  ASSUME NEW list \in [Entries -> Slots], NEW x, NEW y \in Slots, NEW new, new = Replace(list, x, y)
  PROVE  /\ new \in [Entries -> Slots]
         /\ \/ new = list /\ \A e \in Entries : list[e] # x
            \/ \E k \in Entries : /\ list[k] = x /\ new[k] = y
                                  /\ \A e \in Entries : e # k => new[e] = list[e]
<1> DEFINE places == {e \in Entries : list[e] = x}
<1>1. CASE places = {}
  BY <1>1 DEF Replace
<1>2. CASE places # {}
  <2>1. places \in SUBSET Nat
    BY DEF Entries
  <2>2. Min(places) \in places
    BY <1>2, <2>1, MinFact
  <2>3. new = [list EXCEPT ![Min(places)] = y]
    BY <1>2 DEF Replace
  <2> HIDE DEF places
  <2>4. PICK k : k = Min(places) /\ k \in Entries /\ list[k] = x
    BY <2>2 DEF places
  <2> QED  BY <2>3, <2>4
<1> QED  BY <1>1, <1>2

(* The reaper gives the reference of an entry back, and goes on to the next.     *)
LEMMA DestroyEntryFact ==
  ASSUME SemInv, NEW p \in Procs, DestroyEntry(p)
  PROVE  SemInv'
<1>0. PICK s : s = semaphores[p][todo[p]]
  OBVIOUS
<1>1. /\ nextSid' = nextSid /\ holds' = holds /\ inP' = inP /\ semaphores' = semaphores /\ life' = life
      /\ life[p] = "dead" /\ todo[p] \in Entries /\ todo' = [todo EXCEPT ![p] = @ + 1]
      /\ (Exists(s) => Unreference(s)) /\ (~Exists(s) => sema' = sema)
  BY <1>0 DEF DestroyEntry
<1>2. /\ todo' \in [Procs -> 1..(NumEntries + 1)] /\ todo'[p] = todo[p] + 1
      /\ \A q \in Procs \ {p} : todo'[q] = todo[q]
  BY <1>1, SemTypes DEF Entries
<1>3. /\ ListSound(p)
      /\ \A e \in Entries : e \in Nat /\ todo[p] \in Nat /\ (e >= todo[p] <=> e = todo[p] \/ e >= todo[p] + 1)
  BY <1>1, SemTypes DEF SemInv, Entries
<1>4. s \in Sids => /\ <<p, s>> \in Owed
                    /\ \A e \in Entries : semaphores[p][e] = s => e = todo[p]
  BY <1>0, <1>1, <1>3, SemTypes DEF ListSound, Owed
<1>5. Owed' = Owed \ {<<p, s>>}
  <2>1. ASSUME NEW q \in Procs, NEW t \in Sids
        PROVE  <<q, t>> \in Owed' <=> <<q, t>> \in Owed /\ <<q, t>> # <<p, s>>
    <3>1. CASE q # p
      BY <1>1, <1>2, <3>1 DEF Owed
    <3>2. CASE q = p /\ t # s
      BY <1>0, <1>1, <1>2, <1>3, <3>2 DEF Owed
    <3>3. CASE q = p /\ t = s
      BY <1>1, <1>2, <1>3, <1>4, <3>3 DEF Owed
    <3> QED  BY <3>1, <3>2, <3>3
  <2>2. Owed \subseteq Procs \X Sids /\ Owed' \subseteq Procs \X Sids
    BY DEF Owed
  <2> QED  BY <2>1, <2>2
<1>6. sema' \in Seq(EntryType) /\ SidsUnique' /\ UsesCounted'
  <2>1. CASE s \in Sids
    <3>1. UsesOf(holds', Owed', s) = Uses(s) \ {<<p, 0>>} /\ <<p, 0>> \in Uses(s)
      BY <1>1, <1>4, <1>5, <2>1 DEF Uses, UsesOf
    <3>2. \A t \in Sids : t # s => UsesOf(holds', Owed', t) = Uses(t)
      BY <1>1, <1>5 DEF Uses, UsesOf
    <3>3. Exists(s)
      BY <2>1, <3>1, SemTypes DEF UsesCounted
    <3> QED  BY <1>1, <2>1, <3>1, <3>2, <3>3, GiveBack
  <2>2. CASE s \notin Sids
    <3>1. ~Exists(s)
      BY <2>2, SemTypes DEF Exists, WithId
    <3>2. Owed' = Owed
      BY <1>5, <2>2 DEF Owed
    <3> QED  BY <1>1, <3>1, <3>2, SameUses DEF Uses
  <2> QED  BY <2>1, <2>2
<1>7. TypeOK'
  BY <1>1, <1>2, <1>6, SemTypes DEF TypeOK, EntryType, Slots
<1>8. ASSUME NEW q \in Procs PROVE ListSound(q)'
  <2>1. ListSound(q)
    BY DEF SemInv
  <2> QED  BY <1>1, <2>1 DEF ListSound, Lists
<1> QED  BY <1>6, <1>7, <1>8 DEF SemInv

LEMMA DestroySemaphoreFact ==
  ASSUME SemInv, NEW p \in Procs, NEW s \in Sids, Destroy_Semaphore(p, s)
  PROVE  SemInv'
<1>1. /\ nextSid' = nextSid /\ inP' = inP /\ todo' = todo /\ life' = life
      /\ life[p] = "alive" /\ inP[p] = Free /\ holds[p][s] > 0
      /\ holds' = [holds EXCEPT ![p][s] = @ - 1]
      /\ (Exists(s) => Unreference(s) /\ semaphores' = [semaphores EXCEPT ![p] = Replace(semaphores[p], s, Free)])
  BY DEF Destroy_Semaphore, Runs
<1>2. PICK n \in Nat : n + 1 = holds[p][s]
  <2>1. holds[p][s] \in Nat
    BY SemTypes
  <2>2. holds[p][s] - 1 \in Nat /\ (holds[p][s] - 1) + 1 = holds[p][s]
    BY <1>1, <2>1
  <2> QED  BY <2>2, Zenon
<1>3. holds' = HeldAs(holds, p, s, n)
  <2>1. holds[p][s] - 1 = n
    BY <1>2, SemTypes
  <2>2. holds' = [holds EXCEPT ![p][s] = n]
    BY <1>1, <2>1, Zenon
  <2> QED  BY <2>2 DEF HeldAs
<1>4. /\ holds' \in [Procs -> [Sids -> Nat]] /\ holds'[p][s] = n
      /\ (\A q \in Procs, t \in Sids : q # p \/ t # s => holds'[q][t] = holds[q][t])
      /\ (\A t \in Sids : t # s => UsesOf(holds', Owed, t) = UsesOf(holds, Owed, t))
      /\ UsesOf(holds', Owed, s) = UsesOf(holds, Owed, s) \ {<<p, n + 1>>}
  <2>1. holds \in HoldsType
    BY SemTypes DEF HoldsType
  <2>2. /\ holds' \in HoldsType /\ holds'[p][s] = n
        /\ \A q \in Procs, t \in Sids : q # p \/ t # s => holds'[q][t] = holds[q][t]
        /\ \A t \in Sids : t # s => UsesOf(holds', Owed, t) = UsesOf(holds, Owed, t)
        /\ n + 1 = holds[p][s] => UsesOf(holds', Owed, s) = UsesOf(holds, Owed, s) \ {<<p, n + 1>>}
    BY <1>2, <1>3, <2>1, UseOnce
  <2> QED  BY <1>2, <2>2 DEF HoldsType
<1>5. <<p, n + 1>> \in Uses(s)
  BY <1>2 DEF Uses, UsesOf
<1>6. Exists(s)
  BY <1>5, SemTypes DEF UsesCounted
<1>7. PICK list :
        /\ list \in [Entries -> Slots] /\ list = Replace(semaphores[p], s, Free)
        /\ \/ list = semaphores[p] /\ \A e \in Entries : semaphores[p][e] # s
           \/ \E k \in Entries : /\ semaphores[p][k] = s /\ list[k] = Free
                                 /\ \A e \in Entries : e # k => list[e] = semaphores[p][e]
  <2>1. PICK list : list = Replace(semaphores[p], s, Free)
    OBVIOUS
  <2>2. PICK old : old = semaphores[p] /\ old \in [Entries -> Slots]
    BY SemTypes
  <2>3. Free \in Slots /\ list = Replace(old, s, Free)
    BY <2>1, <2>2, SemTypes
  <2>4. /\ list \in [Entries -> Slots]
        /\ \/ list = old /\ \A e \in Entries : old[e] # s
           \/ \E k \in Entries : /\ old[k] = s /\ list[k] = Free
                                 /\ \A e \in Entries : e # k => list[e] = old[e]
    BY <2>2, <2>3, ReplaceFact
  <2> QED  BY <2>1, <2>2, <2>4
<1>8. /\ semaphores' = [semaphores EXCEPT ![p] = list]
      /\ semaphores' \in [Procs -> [Entries -> Slots]] /\ semaphores'[p] = list
      /\ \A q \in Procs \ {p} : semaphores'[q] = semaphores[q]
  BY <1>1, <1>6, <1>7, SemTypes
<1>9. Owed' = Owed
  <2>1. \A q \in Procs : life[q] = "dead" => semaphores'[q] = semaphores[q]
    BY <1>1, <1>8
  <2> QED  BY <1>1, <2>1 DEF Owed
<1>10. sema' \in Seq(EntryType) /\ SidsUnique' /\ UsesCounted'
  BY <1>1, <1>4, <1>5, <1>6, <1>9, GiveBack DEF Uses
<1>11. TypeOK'
  BY <1>1, <1>4, <1>8, <1>10, SemTypes DEF TypeOK, EntryType, Slots
<1>12. ASSUME NEW q \in Procs PROVE ListSound(q)'
  <2>1. ListSound(q)
    BY DEF SemInv
  <2>2. CASE q # p
    BY <1>1, <1>4, <1>8, <2>1, <2>2, SemTypes DEF ListSound, Lists
  <2>3. CASE q = p
    <3>1. /\ \A e \in Entries : list[e] # s /\ (list[e] = semaphores[p][e] \/ list[e] = Free)
      <4>1. \/ list = semaphores[p] /\ \A e \in Entries : semaphores[p][e] # s
            \/ \E k \in Entries : /\ semaphores[p][k] = s /\ list[k] = Free
                                  /\ \A e \in Entries : e # k => list[e] = semaphores[p][e]
        BY <1>7
      <4>2. \A e, k \in Entries : semaphores[p][e] = s /\ semaphores[p][k] = s => e = k
        BY <2>1, <2>3 DEF ListSound
      <4>3. Free # s
        BY SemTypes
      <4> QED  BY <4>1, <4>2, <4>3
    <3>2. \A e, f \in Entries : list[e] = list[f] /\ list[e] \in Sids => e = f
      BY <2>1, <2>3, <3>1, SemTypes, ZenonT(40) DEF ListSound
    <3>3. \A t \in Sids : Lists(p, t)' => t # s /\ Lists(p, t)
      BY <1>8, <3>1, SemTypes DEF Lists
    <3>4. \A t \in Sids : holds[p][t] = 0 => t # s /\ holds'[p][t] = 0
      BY <1>2, <1>4, SemTypes, SMTT(40)
    <3>5. \A t \in Sids : t # s => holds'[p][t] = holds[p][t]
      BY <1>4
    <3> QED  BY <1>1, <1>8, <2>1, <2>3, <3>2, <3>3, <3>4, <3>5 DEF ListSound
  <2> QED  BY <2>2, <2>3
<1> QED  BY <1>10, <1>11, <1>12 DEF SemInv

LEMMA OpenSemaphoreFact ==
  ASSUME SemInv, NEW p \in Procs, NEW m \in Names, OpenSemaphore(p, m)
  PROVE  SemInv'
<1>0. PICK i : i = Min(Named(m))
  OBVIOUS
<1>1. /\ nextSid' = nextSid /\ inP' = inP /\ todo' = todo /\ life' = life /\ semaphores' = semaphores
      /\ life[p] = "alive" /\ Named(m) # {} /\ Reference(i)
      /\ holds' = [holds EXCEPT ![p][sema[i].sid] = @ + 1]
  BY <1>0 DEF OpenSemaphore, Runs
<1>2. i \in DOMAIN sema
  <2>1. Named(m) \in SUBSET Nat
    BY SemTypes DEF Named
  <2>2. i \in Named(m)
    BY <1>0, <1>1, <2>1, MinFact
  <2> QED  BY <2>2 DEF Named
<1>3. PICK s \in Sids : s = sema[i].sid
  BY <1>2, SemTypes
<1>4. /\ sema' \in Seq(EntryType) /\ DOMAIN sema' = DOMAIN sema
      /\ sema'[i].sid = s /\ sema'[i].refCount = sema[i].refCount + 1
      /\ \A j \in DOMAIN sema : j # i => sema'[j] = sema[j]
  BY <1>1, <1>2, <1>3, ReferenceFact, SemTypes
<1>5. PICK n \in Nat : n = holds[p][s] + 1
  BY SemTypes
<1>6. holds' = HeldAs(holds, p, s, n)
  <2>1. holds' = [holds EXCEPT ![p][s] = n]
    BY <1>1, <1>3, <1>5, Zenon
  <2> QED  BY <2>1 DEF HeldAs
<1>7. /\ holds' \in HoldsType /\ holds'[p][s] = n
      /\ \A q \in Procs, t \in Sids : q # p \/ t # s => holds'[q][t] = holds[q][t]
      /\ \A t \in Sids : t # s => UsesOf(holds', Owed, t) = UsesOf(holds, Owed, t)
      /\ UsesOf(holds', Owed, s) = UsesOf(holds, Owed, s) \cup {<<p, n>>}
  <2>1. holds \in HoldsType
    BY SemTypes DEF HoldsType
  <2> QED  BY <1>5, <1>6, <2>1, UseOnce
<1>8. Owed' = Owed
  BY <1>1 DEF Owed
<1>9. /\ \A t \in Sids : t # s => Uses(t)' = Uses(t)
      /\ Uses(s)' = Uses(s) \cup {<<p, n>>}
  BY <1>7, <1>8 DEF Uses
<1>10. SidsUnique'
  BY <1>1, <1>2, <1>3, <1>4, SemTypes DEF SidsUnique
<1>11. /\ IsFiniteSet(Uses(s)) /\ IsFiniteSet(Uses(s)') /\ Cardinality(Uses(s)) \in Nat
       /\ Cardinality(Uses(s)') <= Cardinality(Uses(s)) + 1
  <2>1. IsFiniteSet(Uses(s))
    BY SemTypes DEF UsesCounted
  <2>2. PICK x : x = <<p, n>>
    OBVIOUS
  <2>3. Cardinality(Uses(s)) \in Nat
    BY <2>1, FS_CardinalityType
  <2>4. /\ IsFiniteSet(Uses(s) \cup {x})
        /\ \/ Cardinality(Uses(s) \cup {x}) = Cardinality(Uses(s))
           \/ Cardinality(Uses(s) \cup {x}) = Cardinality(Uses(s)) + 1
    BY <2>1, FS_AddElement
  <2>5. PICK c : c = Cardinality(Uses(s) \cup {x})
    OBVIOUS
  <2>6. c <= Cardinality(Uses(s)) + 1
    BY <2>3, <2>4, <2>5
  <2>7. Uses(s)' = Uses(s) \cup {x}
    BY <1>9, <2>2
  <2>8. Cardinality(Uses(s)') = c /\ IsFiniteSet(Uses(s)')
    BY <2>4, <2>5, <2>7, Zenon
  <2> QED  BY <2>1, <2>3, <2>6, <2>8
<1> DEFINE h == holds'  o == Owed'
<1>12. ASSUME NEW j \in DOMAIN sema' PROVE Cardinality(UsesOf(h, o, sema'[j].sid)) <= sema'[j].refCount
  <2>1. Cardinality(Uses(sema[j].sid)) <= sema[j].refCount /\ sema[j].sid \in Sids /\ sema[j].refCount \in Nat
    BY <1>4, SemTypes DEF UsesCounted
  <2>2. CASE j = i
    <3>1. UsesOf(h, o, sema'[j].sid) = Uses(s)'
      BY <1>4, <2>2 DEF Uses
    <3>2. Cardinality(Uses(s)') <= sema[i].refCount + 1
      <4>1. PICK c \in Nat : c = Cardinality(Uses(s))
        BY <1>11
      <4>2. PICK r \in Nat : r = sema[i].refCount
        BY <2>1, <2>2
      <4>3. c <= r
        BY <1>3, <2>1, <2>2, <4>1, <4>2
      <4>4. PICK d \in Nat : d = Cardinality(Uses(s)')
        BY <1>11, FS_CardinalityType
      <4>5. d <= c + 1
        BY <1>11, <4>1, <4>4
      <4>6. d <= r + 1
        BY <4>3, <4>5
      <4> QED  BY <4>2, <4>4, <4>6
    <3> QED  BY <1>4, <2>2, <3>1, <3>2
  <2>3. CASE j # i
    <3>1. sema'[j] = sema[j] /\ sema[j].sid # s
      BY <1>2, <1>3, <1>4, <2>3, SemTypes DEF SidsUnique
    <3>2. UsesOf(h, o, sema'[j].sid) = Uses(sema[j].sid)
      BY <1>7, <1>8, <2>1, <3>1 DEF Uses
    <3> QED  BY <2>1, <3>1, <3>2
  <2> QED  BY <2>2, <2>3
<1>13. ASSUME NEW t \in Sids PROVE IsFiniteSet(UsesOf(h, o, t)) /\ (UsesOf(h, o, t) # {} => Exists(t)')
  <2>1. IsFiniteSet(Uses(t)) /\ (Uses(t) # {} => Exists(t))
    BY SemTypes DEF UsesCounted
  <2>2. \A j \in DOMAIN sema : sema'[j].sid = sema[j].sid
    BY <1>2, <1>3, <1>4
  <2>3. Exists(t) => Exists(t)'
    BY <1>4, <2>2 DEF Exists, WithId
  <2>4. CASE t # s
    BY <1>7, <1>8, <2>1, <2>3, <2>4 DEF Uses
  <2>5. CASE t = s
    <3>1. Exists(s)'
      BY <1>2, <1>4 DEF Exists, WithId
    <3> QED  BY <1>11, <2>5, <3>1 DEF Uses
  <2> QED  BY <2>4, <2>5
<1>14. UsesCounted'
  BY <1>12, <1>13 DEF UsesCounted, Uses
<1>15. TypeOK'
  BY <1>1, <1>4, <1>7, SemTypes DEF TypeOK, EntryType, Slots, HoldsType
<1>16. ASSUME NEW q \in Procs PROVE ListSound(q)'
  <2>1. ListSound(q) /\ s < nextSid
    BY <1>2, <1>3, SemTypes DEF SemInv, SidsUnique
  <2>2. CASE q # p
    BY <1>1, <1>7, <2>1, <2>2, SemTypes DEF ListSound, Lists
  <2>3. CASE q = p
    <3>1. n # 0 /\ \A t \in Sids : t >= nextSid => t # s
      BY <1>5, <2>1, SemTypes DEF Sids
    <3>2. \A t \in Sids : t # s => holds'[p][t] = holds[p][t]
      BY <1>7
    <3> QED  BY <1>1, <1>7, <2>1, <2>3, <3>1, <3>2, SemTypes DEF ListSound, Lists
  <2> QED  BY <2>2, <2>3
<1> QED  BY <1>4, <1>10, <1>14, <1>15, <1>16 DEF SemInv

(* A new semaphore is nobody's but its creator's.                               *)
LEMMA Create_SemaphoreFact ==
  ASSUME SemInv, NEW p \in Procs, NEW m \in Names, NEW v \in Leftovers, Create_Semaphore(p, m, v)
  PROVE  SemInv'
<1>0. PICK s : s = nextSid
  OBVIOUS
<1>1. /\ nextSid' = s + 1 /\ inP' = inP /\ todo' = todo /\ life' = life
      /\ life[p] = "alive" /\ s <= MaxSid
      /\ sema' = Append(sema, [sid |-> s, name |-> m, refCount |-> v + 1])
      /\ semaphores' = [semaphores EXCEPT ![p] = Replace(semaphores[p], Free, s)]
      /\ holds' = [holds EXCEPT ![p][s] = 1]
  BY <1>0 DEF Create_Semaphore, Runs, NewSid
<1>2. s \in Sids /\ s \in Nat /\ s = nextSid /\ s + 1 \in 1..(MaxSid + 1) /\ v + 1 \in Nat /\ v + 1 >= 1
  BY <1>0, <1>1, SemTypes, SemTableAssumption DEF Sids
<1>3. PICK x : /\ x = [sid |-> s, name |-> m, refCount |-> v + 1]
               /\ x \in EntryType /\ x.sid = s /\ x.refCount = v + 1
  <2>1. PICK r \in Nat : r = v + 1
    BY <1>2
  <2>2. PICK x : x = [sid |-> s, name |-> m, refCount |-> r]
    OBVIOUS
  <2>3. x \in EntryType /\ x.sid = s /\ x.refCount = r
    BY <1>2, <2>2 DEF EntryType
  <2> QED  BY <2>1, <2>2, <2>3, Zenon
<1>4. PICK k \in Nat : k = Len(sema)
  BY SemTypes
<1>5. /\ sema' \in Seq(EntryType) /\ DOMAIN sema = 1..k /\ DOMAIN sema' = 1..(k + 1)
      /\ sema'[k + 1] = x /\ \A i \in 1..k : sema'[i] = sema[i]
  <2>1. sema' = Append(sema, x) /\ sema \in Seq(EntryType)
    BY <1>1, <1>3, SemTypes
  <2>2. /\ sema' \in Seq(EntryType) /\ Len(sema') = Len(sema) + 1 /\ Len(sema) \in Nat
        /\ sema'[Len(sema) + 1] = x
        /\ \A i \in 1..Len(sema) : sema'[i] = sema[i]
    BY <1>3, <2>1, AppendEntry
  <2> QED  BY <1>4, <2>1, <2>2
<1>6. holds' = HeldAs(holds, p, s, 1)
  BY <1>1 DEF HeldAs
<1>7. ListSound(p) /\ holds[p][s] = 0 /\ \A q \in Procs : holds[q][s] = 0 /\ ~Lists(q, s)
  <2>1. s >= nextSid
    BY <1>2
  <2> QED  BY <1>2, <2>1 DEF SemInv, ListSound
<1>8. /\ holds' \in HoldsType /\ holds'[p][s] = 1
      /\ \A q \in Procs, t \in Sids : q # p \/ t # s => holds'[q][t] = holds[q][t]
      /\ \A t \in Sids : t # s => UsesOf(holds', Owed, t) = UsesOf(holds, Owed, t)
      /\ UsesOf(holds', Owed, s) = UsesOf(holds, Owed, s) \cup {<<p, 1>>}
  <2>1. PICK n \in Nat : n = 1 /\ n = holds[p][s] + 1
    BY <1>7, SemTypes DEF HoldsType
  <2>2. holds \in HoldsType /\ holds' = HeldAs(holds, p, s, n)
    BY <1>6, <2>1, SemTypes DEF HoldsType
  <2>3. /\ holds' \in HoldsType /\ holds'[p][s] = n
        /\ \A q \in Procs, t \in Sids : q # p \/ t # s => holds'[q][t] = holds[q][t]
        /\ \A t \in Sids : t # s => UsesOf(holds', Owed, t) = UsesOf(holds, Owed, t)
        /\ n = holds[p][s] + 1 => UsesOf(holds', Owed, s) = UsesOf(holds, Owed, s) \cup {<<p, n>>}
    BY <1>2, <2>2, UseOnce
  <2> QED  BY <2>1, <2>3
<1>9. PICK list :
        /\ list \in [Entries -> Slots] /\ list = Replace(semaphores[p], Free, s)
        /\ \/ list = semaphores[p] /\ \A e \in Entries : semaphores[p][e] # Free
           \/ \E e \in Entries : /\ semaphores[p][e] = Free /\ list[e] = s
                                 /\ \A f \in Entries : f # e => list[f] = semaphores[p][f]
  <2>1. PICK list : list = Replace(semaphores[p], Free, s)
    OBVIOUS
  <2>2. PICK old : old = semaphores[p] /\ old \in [Entries -> Slots]
    BY SemTypes
  <2>3. s \in Slots /\ list = Replace(old, Free, s)
    BY <1>2, <2>1, <2>2, SemTypes
  <2>4. /\ list \in [Entries -> Slots]
        /\ \/ list = old /\ \A e \in Entries : old[e] # Free
           \/ \E e \in Entries : /\ old[e] = Free /\ list[e] = s
                                 /\ \A f \in Entries : f # e => list[f] = old[f]
    BY <2>2, <2>3, ReplaceFact
  <2> QED  BY <2>1, <2>2, <2>4
<1>10. /\ semaphores' \in [Procs -> [Entries -> Slots]] /\ semaphores'[p] = list
       /\ \A q \in Procs \ {p} : semaphores'[q] = semaphores[q]
  BY <1>1, <1>9, SemTypes
<1>11. Owed' = Owed
  <2>1. \A q \in Procs : life[q] = "dead" => semaphores'[q] = semaphores[q]
    BY <1>1, <1>10
  <2> QED  BY <1>1, <2>1 DEF Owed
<1> DEFINE h == holds'  o == Owed'
<1>12. UsesOf(h, o, s) = {<<p, 1>>}
  <2>1. UsesOf(holds, Owed, s) = {}
    <3>1. \A q \in Procs : <<q, s>> \notin Owed
      BY <1>7 DEF Owed, Lists
    <3>2. \A q \in Procs, a \in Nat : a # 0 => ~(a <= holds[q][s])
      BY <1>7
    <3> QED  BY <3>1, <3>2 DEF UsesOf
  <2> QED  BY <1>8, <1>11, <2>1
<1>13. IsFiniteSet(UsesOf(h, o, s)) /\ Cardinality(UsesOf(h, o, s)) = 1
  <2>1. PICK y : y = <<p, 1>>
    OBVIOUS
  <2>2. IsFiniteSet({y}) /\ Cardinality({y}) = 1
    BY FS_Singleton
  <2> QED  BY <1>12, <2>1, <2>2, Zenon
<1>14. SidsUnique'
  <2>1. \A i, j \in 1..k : sema[i].sid = sema[j].sid => i = j
    BY <1>5, SemTypes DEF SidsUnique
  <2>2. \A i \in 1..k : sema[i].sid < s /\ sema[i].sid \in Nat
    BY <1>2, <1>5, SemTypes DEF SidsUnique, Sids
  <2>3. \A i \in 1..(k + 1) : i = k + 1 \/ (i \in 1..k /\ sema'[i].sid = sema[i].sid)
    BY <1>4, <1>5
  <2>4. sema'[k + 1].sid = s
    BY <1>3, <1>5
  <2>5. \A i, j \in 1..(k + 1) : sema'[i].sid = sema'[j].sid => i = j
    <3> SUFFICES ASSUME NEW i \in 1..(k + 1), NEW j \in 1..(k + 1), sema'[i].sid = sema'[j].sid
                 PROVE  i = j
      OBVIOUS
    <3>1. CASE i = k + 1 /\ j = k + 1
      BY <3>1
    <3>2. CASE i = k + 1 /\ j # k + 1
      <4>1. j \in 1..k /\ sema[j].sid = s
        BY <2>3, <2>4, <3>2
      <4> QED  BY <1>2, <2>2, <4>1
    <3>3. CASE i # k + 1 /\ j = k + 1
      <4>1. i \in 1..k /\ sema[i].sid = s
        BY <2>3, <2>4, <3>3
      <4> QED  BY <1>2, <2>2, <4>1
    <3>4. CASE i # k + 1 /\ j # k + 1
      BY <2>1, <2>3, <3>4
    <3> QED  BY <3>1, <3>2, <3>3, <3>4
  <2>6. \A i \in 1..(k + 1) : sema'[i].sid < s + 1
    BY <1>2, <2>2, <2>3, <2>4
  <2> QED  BY <1>1, <1>5, <2>5, <2>6 DEF SidsUnique
<1>15. UsesCounted'
  <2>1. ASSUME NEW j \in DOMAIN sema' PROVE Cardinality(UsesOf(h, o, sema'[j].sid)) <= sema'[j].refCount
    <3>1. CASE j = k + 1
      <4>1. sema'[j].sid = s /\ sema'[j].refCount = v + 1
        BY <1>3, <1>5, <3>1
      <4> QED  BY <1>2, <1>13, <4>1
    <3>2. CASE j # k + 1
      <4>1. j \in DOMAIN sema /\ sema'[j] = sema[j]
        BY <1>4, <1>5, <3>2
      <4>2. /\ Cardinality(Uses(sema[j].sid)) <= sema[j].refCount /\ sema[j].sid \in Sids
            /\ sema[j].sid # s
        BY <1>2, <4>1, SemTypes DEF UsesCounted, SidsUnique, Sids
      <4>3. UsesOf(h, o, sema[j].sid) = Uses(sema[j].sid)
        BY <1>8, <1>11, <4>2 DEF Uses
      <4> QED  BY <4>1, <4>2, <4>3
    <3> QED  BY <3>1, <3>2
  <2>2. ASSUME NEW t \in Sids PROVE IsFiniteSet(UsesOf(h, o, t)) /\ (UsesOf(h, o, t) # {} => Exists(t)')
    <3>1. CASE t = s
      <4>1. k + 1 \in DOMAIN sema' /\ sema'[k + 1].sid = s
        BY <1>3, <1>4, <1>5
      <4>2. Exists(s)'
        BY <4>1 DEF Exists, WithId
      <4> QED  BY <1>13, <3>1, <4>2
    <3>2. CASE t # s
      <4>1. IsFiniteSet(Uses(t)) /\ (Uses(t) # {} => Exists(t)) /\ UsesOf(h, o, t) = Uses(t)
        BY <1>8, <1>11, <3>2, SemTypes DEF UsesCounted, Uses
      <4>2. \A i \in DOMAIN sema : i \in DOMAIN sema' /\ sema'[i] = sema[i]
        BY <1>4, <1>5
      <4>3. Exists(t) => Exists(t)'
        BY <4>2 DEF Exists, WithId
      <4> QED  BY <4>1, <4>3
    <3> QED  BY <3>1, <3>2
  <2> QED  BY <2>1, <2>2 DEF UsesCounted, Uses
<1>16. TypeOK'
  BY <1>1, <1>2, <1>5, <1>8, <1>10, SemTypes DEF TypeOK, EntryType, Slots, HoldsType
<1>17. ASSUME NEW q \in Procs PROVE ListSound(q)'
  <2>1. ListSound(q) /\ \A t \in Sids : t >= s + 1 => t >= s /\ t # s
    BY <1>2, SemTypes DEF SemInv, Sids
  <2>2. CASE q # p
    BY <1>1, <1>2, <1>8, <1>10, <2>1, <2>2, SemTypes DEF ListSound, Lists
  <2>3. CASE q = p
    <3>1. \A e \in Entries : list[e] = s \/ list[e] = semaphores[p][e]
      BY <1>9
    <3>2. \A e \in Entries : semaphores[p][e] # s
      BY <1>7 DEF Lists
    <3>3. \A e, f \in Entries : list[e] = s /\ list[f] = s => e = f
      BY <1>9, <3>2
    <3>4. \A e, f \in Entries : list[e] = list[f] /\ list[e] \in Sids => e = f
      BY <2>1, <2>3, <3>1, <3>3 DEF ListSound
    <3>5. \A t \in Sids : Lists(p, t)' => t = s \/ Lists(p, t)
      BY <1>10, <3>1 DEF Lists
    <3>6. holds'[p][s] # 0 /\ \A t \in Sids : t # s => holds'[p][t] = holds[p][t]
      BY <1>8
    <3> QED  BY <1>1, <1>2, <1>10, <2>1, <2>3, <3>4, <3>5, <3>6, SemTypes DEF ListSound
  <2> QED  BY <2>2, <2>3
<1> QED  BY <1>5, <1>14, <1>15, <1>16, <1>17 DEF SemInv

(* A process that ends keeps what it made in its list, and the reaper gives that  *)
(* back for it: of the references it had itself, at least one goes.              *)
LEMMA ExitFact ==
  ASSUME SemInv, NEW p \in Procs, Exit(p)
  PROVE  SemInv'
<1>1. /\ sema' = sema /\ nextSid' = nextSid /\ semaphores' = semaphores /\ inP' = inP
      /\ life[p] = "alive" /\ inP[p] = Free
      /\ life' = [life EXCEPT ![p] = "dead"] /\ todo' = [todo EXCEPT ![p] = 1]
      /\ holds' = [holds EXCEPT ![p] = [s \in Sids |-> 0]]
  BY DEF Exit, Runs
<1>2. /\ life' \in [Procs -> {"none", "alive", "dead"}] /\ life'[p] = "dead"
      /\ todo' \in [Procs -> 1..(NumEntries + 1)] /\ todo'[p] = 1
      /\ holds' \in [Procs -> [Sids -> Nat]] /\ \A s \in Sids : holds'[p][s] = 0
      /\ \A q \in Procs \ {p} : life'[q] = life[q] /\ todo'[q] = todo[q] /\ holds'[q] = holds[q]
  BY <1>1, SemTypes
<1>3. \A q \in Procs, t \in Sids :
         <<q, t>> \in Owed' <=> IF q = p THEN Lists(p, t) ELSE <<q, t>> \in Owed
  <2>1. \A e \in Entries : e >= 1
    BY DEF Entries
  <2> QED  BY <1>1, <1>2, <2>1 DEF Owed, Lists
<1>4. \A t \in Sids : Lists(p, t) => holds[p][t] # 0
  BY <1>1 DEF SemInv, ListSound
<1>5. \A t \in Sids : <<p, t>> \notin Owed
  BY <1>1 DEF Owed
<1> DEFINE h == holds'  o == Owed'
<1>6. ASSUME NEW t \in Sids
      PROVE  /\ IsFiniteSet(UsesOf(h, o, t)) /\ Cardinality(UsesOf(h, o, t)) \in Nat
             /\ Cardinality(UsesOf(h, o, t)) <= Cardinality(Uses(t)) /\ Cardinality(Uses(t)) \in Nat
             /\ (UsesOf(h, o, t) # {} => Uses(t) # {})
  <2>1. IsFiniteSet(Uses(t)) /\ Cardinality(Uses(t)) \in Nat
    BY SemTypes, FS_CardinalityType DEF UsesCounted
  <2>2. \A q \in Procs, n \in Nat : q # p => (<<q, n>> \in UsesOf(h, o, t) <=> <<q, n>> \in Uses(t))
    BY <1>2, <1>3 DEF Uses, UsesOf
  <2>3. \A n \in Nat : <<p, n>> \in UsesOf(h, o, t) => n = 0 /\ Lists(p, t)
    BY <1>2, <1>3 DEF UsesOf
  <2>4. UsesOf(h, o, t) \subseteq Procs \X Nat /\ Uses(t) \subseteq Procs \X Nat
    BY DEF Uses, UsesOf
  <2> HIDE DEF h, o
  <2>5. CASE Lists(p, t)
    <3>1. PICK x, y : x = <<p, 1>> /\ y = <<p, 0>>
      OBVIOUS
    <3>2. x \in Uses(t)
      <4>1. holds[p][t] \in Nat /\ 1 <= holds[p][t]
        BY <1>4, <2>5, SemTypes
      <4> QED  BY <3>1, <4>1 DEF Uses, UsesOf
    <3>3. UsesOf(h, o, t) \subseteq (Uses(t) \ {x}) \cup {y}
      BY <2>2, <2>3, <2>4, <3>1
    <3>4. PICK a : a = Uses(t) \ {x}
      OBVIOUS
    <3>5. IsFiniteSet(a) /\ Cardinality(a) = Cardinality(Uses(t)) - 1
      BY <2>1, <3>2, <3>4, FS_RemoveElement
    <3>6. PICK b : b = a \cup {y}
      OBVIOUS
    <3>7. /\ IsFiniteSet(b) /\ Cardinality(b) \in Nat
          /\ Cardinality(b) = Cardinality(a) \/ Cardinality(b) = Cardinality(a) + 1
      BY <3>5, <3>6, FS_AddElement, FS_CardinalityType
    <3>8. UsesOf(h, o, t) \subseteq b
      BY <3>3, <3>4, <3>6
    <3>9. /\ IsFiniteSet(UsesOf(h, o, t)) /\ Cardinality(UsesOf(h, o, t)) \in Nat
          /\ Cardinality(UsesOf(h, o, t)) <= Cardinality(b)
      BY <3>7, <3>8, FS_Subset, FS_CardinalityType
    <3>10. Cardinality(b) <= Cardinality(Uses(t))
      BY <2>1, <3>5, <3>7
    <3>11. Cardinality(UsesOf(h, o, t)) <= Cardinality(Uses(t))
      BY <2>1, <3>7, <3>9, <3>10
    <3> QED  BY <2>1, <3>2, <3>9, <3>11
  <2>6. CASE ~Lists(p, t)
    <3>1. UsesOf(h, o, t) \subseteq Uses(t)
      BY <2>2, <2>3, <2>4, <2>6
    <3> QED  BY <2>1, <3>1, FS_Subset, FS_CardinalityType
  <2> QED  BY <2>5, <2>6
<1>7. SidsUnique'
  BY <1>1, SemTypes DEF SidsUnique
<1>8. UsesCounted'
  <2>1. ASSUME NEW i \in DOMAIN sema' PROVE Cardinality(UsesOf(h, o, sema'[i].sid)) <= sema'[i].refCount
    <3>1. PICK t \in Sids : t = sema[i].sid
      BY <1>1, SemTypes
    <3>2. sema'[i].sid = t /\ sema'[i].refCount = sema[i].refCount /\ sema[i].refCount \in Nat
      BY <1>1, <3>1, SemTypes
    <3>3. Cardinality(Uses(t)) <= sema[i].refCount
      BY <1>1, <3>1, SemTypes DEF UsesCounted
    <3>4. /\ Cardinality(UsesOf(h, o, t)) \in Nat /\ Cardinality(Uses(t)) \in Nat
          /\ Cardinality(UsesOf(h, o, t)) <= Cardinality(Uses(t))
      BY <1>6
    <3>5. Cardinality(UsesOf(h, o, t)) <= sema[i].refCount
      BY <3>2, <3>3, <3>4
    <3> QED  BY <3>2, <3>5
  <2>2. ASSUME NEW t \in Sids PROVE IsFiniteSet(UsesOf(h, o, t)) /\ (UsesOf(h, o, t) # {} => Exists(t)')
    BY <1>1, <1>6, SemTypes DEF UsesCounted, Exists, WithId
  <2> QED  BY <2>1, <2>2 DEF UsesCounted, Uses
<1>9. TypeOK'
  BY <1>1, <1>2, SemTypes DEF TypeOK
<1>10. ASSUME NEW q \in Procs PROVE ListSound(q)'
  <2>1. ListSound(q)
    BY DEF SemInv
  <2>2. CASE q = p
    BY <1>1, <1>2, <2>1, <2>2 DEF ListSound, Lists
  <2>3. CASE q # p
    BY <1>1, <1>2, <2>1, <2>3 DEF ListSound, Lists
  <2> QED  BY <2>2, <2>3
<1> QED  BY <1>7, <1>8, <1>9, <1>10 DEF SemInv

LEMMA SemInit == Init => SemInv
<1> SUFFICES ASSUME Init PROVE SemInv
  OBVIOUS
<1>1. /\ sema = <<>> /\ nextSid = 1 /\ (\A p \in Procs : semaphores[p] = NewList /\ life[p] = "none")
      /\ \A p \in Procs : inP[p] = Free /\ \A s \in Sids : holds[p][s] = 0
  BY DEF Init
<1>2. DOMAIN sema = {}
  BY <1>1
<1>3. \A p \in Procs, s \in Sids : ~Lists(p, s)
  BY <1>1, NewListFact DEF Lists
<1>4. Owed = {}
  BY <1>1 DEF Owed
<1>5. \A s \in Sids : Uses(s) = {}
  BY <1>1, <1>4 DEF Uses, UsesOf
<1>6. UsesCounted
  BY <1>2, <1>5, FS_EmptySet DEF UsesCounted
<1>7. TypeOK
  BY NewListFact, SemTableAssumption DEF Init, TypeOK, Slots
<1>8. SidsUnique
  BY <1>2 DEF SidsUnique
<1>9. \A p \in Procs : ListSound(p)
  <2>1. Free \notin Sids
    BY SemTableAssumption DEF Free, Sids
  <2> QED  BY <1>1, <1>3, <2>1, NewListFact DEF ListSound
<1> QED  BY <1>6, <1>7, <1>8, <1>9 DEF SemInv

LEMMA SemNext == SemInv /\ [Next]_vars => SemInv'
<1> SUFFICES ASSUME SemInv, [Next]_vars PROVE SemInv'
  OBVIOUS
<1>1. CASE UNCHANGED vars
  <2>1. /\ sema' = sema /\ nextSid' = nextSid /\ semaphores' = semaphores /\ life' = life
        /\ todo' = todo /\ holds' = holds /\ inP' = inP
    BY <1>1 DEF vars
  <2>2. \A t \in Sids : UsesOf(holds', Owed', t) = Uses(t)
    BY <2>1 DEF Uses, Owed
  <2>3. SidsUnique' /\ UsesCounted'
    BY <2>1, <2>2, SameUses
  <2>4. TypeOK'
    BY <2>1, SemTypes DEF TypeOK
  <2>5. \A p \in Procs : ListSound(p)'
    BY <2>1 DEF SemInv, ListSound, Lists
  <2> QED  BY <2>3, <2>4, <2>5 DEF SemInv
<1>2. ASSUME NEW p \in Procs, Start(p) \/ Exit(p) \/ DestroyEntry(p) \/ FreeContext(p) PROVE SemInv'
  BY <1>2, StartFact, ExitFact, DestroyEntryFact, FreeContextFact
<1>3. ASSUME NEW p \in Procs, LeaveP(p) PROVE SemInv'
  <2>1. CASE \E s \in Sids : TRUE
    BY <1>3, <2>1, EnterPFact
  <2>2. CASE Sids = {}
    BY <1>3, <2>2, SemTypes DEF LeaveP
  <2> QED  BY <2>1, <2>2
<1>4. ASSUME NEW p \in Procs, NEW s \in Sids, Destroy_Semaphore(p, s) \/ EnterP(p, s) PROVE SemInv'
  BY <1>4, DestroySemaphoreFact, EnterPFact
<1>5. ASSUME NEW p \in Procs, NEW n \in Names, OpenSemaphore(p, n) PROVE SemInv'
  BY <1>5, OpenSemaphoreFact
<1>6. ASSUME NEW p \in Procs, NEW n \in Names, NEW v \in Leftovers, Create_Semaphore(p, n, v) PROVE SemInv'
  BY <1>6, Create_SemaphoreFact
<1> QED  BY <1>1, <1>2, <1>3, <1>4, <1>5, <1>6 DEF Next

(* What the counts mean: a semaphore that a process holds has a use, and is there. *)
LEMMA SemHeld == SemInv => HeldExists
<1> SUFFICES ASSUME SemInv, NEW p \in Procs
             PROVE  /\ \A s \in Sids : holds[p][s] > 0 => Exists(s)
                    /\ inP[p] # Free => Exists(inP[p])
  BY DEF HeldExists
<1>1. ASSUME NEW s \in Sids, holds[p][s] # 0 PROVE Exists(s)
  <2>1. holds[p][s] \in Nat /\ 1 <= holds[p][s]
    BY <1>1, SemTypes
  <2>2. <<p, 1>> \in Uses(s)
    BY <2>1 DEF Uses, UsesOf
  <2> QED  BY <2>2, SemTypes DEF UsesCounted
<1>2. inP[p] # Free => inP[p] \in Sids /\ holds[p][inP[p]] # 0
  BY SemTypes DEF SemInv, ListSound
<1> QED  BY <1>1, <1>2

(* A semaphore that a process holds, or is inside P of, exists: what              *)
(* Destroy_Semaphore and the reaper take back was given (synch.c:399, user.c:116). *)
THEOREM HeldSemaphoresExist == Spec => []HeldExists
<1>1. Spec => []SemInv
  BY SemInit, SemNext, PTL DEF Spec
<1> QED  BY <1>1, SemHeld, PTL

-----------------------------------------------------------------------------
(* Processes *)

(* A thread that spawns is at one of these steps, and one that lives at one more. *)
Building == {"read", "load", "context", "start"}
Living   == Building \cup {"user", "name"}

ContextType == [dir : Nat, descriptor : Nat, refCount : Nat]
Descriptors == 1..NumDescriptors
InGrave     == graveyard.queue \cup graveyard.taken

ProcessTypes ==
  /\ current \in Programs \cup {Kernel, Reaper}
  /\ at \in [Programs -> Living \cup {"none", "new", "dead"}]
  /\ child \in [Programs -> Programs \cup {None}]
  /\ context \in [Programs -> ContextType]
  /\ threadPage \in [Programs -> Nat] /\ freeFrames \in SUBSET Nat /\ pages \in [Programs -> SUBSET Nat]
  /\ owner \in [Programs -> Programs \cup {None}] /\ refs \in [Programs -> Nat]
  /\ gdt \in [avail : SUBSET Descriptors, numAllocated : Int]
  /\ graveyard \in [queue : SUBSET Programs, taken : SUBSET Programs]
  /\ dying \in [proc : Programs \cup {None}, stage : {"none", "pages", "descriptor", "thread"}]

(* The processor runs the current process on its own, and else on a directory that *)
(* is somebody's, free or the kernel's.                                           *)
Loaded ==
  /\ current \in Programs =>
       /\ at[current] \in Living
       /\ cpu = [space |-> U!Switch_To_Address_Space(context[current]), stack |-> current]
  /\ cpu.space.dir \in freeFrames \cup {0} \cup {context[p].dir : p \in Programs}

(* What is built is built for one child, which has no descriptor before its own.  *)
Family ==
  /\ \A p, q \in Programs : child[p] = child[q] /\ child[p] # None => p = q
  /\ \A p \in Programs : at[p] \in Building =>
       /\ child[p] \in Programs /\ at[child[p]] = "new"
       /\ at[p] # "start" <=> context[child[p]].descriptor = 0

(* From its start to its end a process has a descriptor.                           *)
Holding ==
  \A p \in Programs :
    /\ at[p] = "none" => context[p].descriptor = 0
    /\ at[p] \in Living \cup {"dead"} =>
         (context[p].descriptor = 0 <=> dying.proc = p /\ dying.stage = "thread")

(* Nobody refers to a thread in the graveyard, and only to what has references:    *)
(* its own, while it lives, and that of its owner.                                 *)
Referred ==
  /\ \A p \in Programs : at[p] \in Living => refs[p] >= 1 /\ (owner[p] # None => refs[p] >= 2)
  /\ \A p \in Programs : at[p] = "dead" /\ owner[p] # None => refs[p] >= 1
  /\ \A p \in InGrave : at[p] = "dead" /\ refs[p] = 0
  /\ graveyard.queue \cap graveyard.taken = {}

(* The reaper destroys what it took out of the graveyard.                          *)
Dying ==
  /\ dying.stage = "none" <=> dying.proc = None
  /\ dying.stage # "none" => at[dying.proc] = "dead" /\ refs[dying.proc] = 0 /\ dying.proc \notin InGrave
  /\ dying.stage = "descriptor" => context[dying.proc].dir = 0

Table ==
  /\ \A p \in Programs : context[p].descriptor \in {0} \cup (Descriptors \ gdt.avail)
  /\ \A p, q \in Programs :
       context[p].descriptor = context[q].descriptor /\ context[p].descriptor # 0 => p = q
  /\ gdt.numAllocated = Cardinality(U!Built)
  /\ Cardinality(gdt.avail) = NumDescriptors - gdt.numAllocated

ProcessParts == ProcessTypes /\ Loaded /\ Family /\ Holding /\ Referred /\ Dying /\ Table
ProcessInv == crashed \/ ProcessParts

LEMMA ProcessFacts ==
  ASSUME ProcessParts
  PROVE  /\ ProcessTypes /\ Loaded /\ Family /\ Holding /\ Referred /\ Dying /\ Table
         /\ NumDescriptors \in Nat /\ NumDescriptors # 0 /\ IsFiniteSet(Programs) /\ ProgramShell \in Programs
         /\ Kernel # Reaper /\ Kernel \notin Programs /\ Reaper \notin Programs /\ None \notin Programs
  BY ProgramsAssumption DEF ProcessParts

LEMMA ContextField ==
  ASSUME context \in [Programs -> ContextType], NEW q \in Programs, NEW n \in Nat
  PROVE  /\ context' = [context EXCEPT ![q].dir = n] =>
              /\ context' \in [Programs -> ContextType]
              /\ context'[q].dir = n /\ context'[q].descriptor = context[q].descriptor
              /\ \A p \in Programs \ {q} : context'[p] = context[p]
         /\ context' = [context EXCEPT ![q].descriptor = n] =>
              /\ context' \in [Programs -> ContextType]
              /\ context'[q].dir = context[q].dir /\ context'[q].descriptor = n
              /\ \A p \in Programs \ {q} : context'[p] = context[p]
         /\ context' = [context EXCEPT ![q].refCount = n] =>
              /\ context' \in [Programs -> ContextType]
              /\ context'[q].dir = context[q].dir /\ context'[q].descriptor = context[q].descriptor
              /\ \A p \in Programs \ {q} : context'[p] = context[p]
<1>1. PICK x \in ContextType : x = context[q]
  OBVIOUS
<1>2. ASSUME context' = [context EXCEPT ![q].dir = n]
      PROVE  /\ context' \in [Programs -> ContextType]
             /\ context'[q].dir = n /\ context'[q].descriptor = context[q].descriptor
             /\ \A p \in Programs \ {q} : context'[p] = context[p]
  <2>1. PICK y : y = [x EXCEPT !.dir = n]
    OBVIOUS
  <2>2. y \in ContextType /\ y.dir = n /\ y.descriptor = x.descriptor
    BY <2>1 DEF ContextType
  <2>3. context' = [context EXCEPT ![q] = y]
    BY <1>1, <1>2, <2>1, Zenon
  <2> QED  BY <1>1, <2>2, <2>3
<1>3. ASSUME context' = [context EXCEPT ![q].descriptor = n]
      PROVE  /\ context' \in [Programs -> ContextType]
             /\ context'[q].dir = context[q].dir /\ context'[q].descriptor = n
             /\ \A p \in Programs \ {q} : context'[p] = context[p]
  <2>1. PICK y : y = [x EXCEPT !.descriptor = n]
    OBVIOUS
  <2>2. y \in ContextType /\ y.dir = x.dir /\ y.descriptor = n
    BY <2>1 DEF ContextType
  <2>3. context' = [context EXCEPT ![q] = y]
    BY <1>1, <1>3, <2>1, Zenon
  <2> QED  BY <1>1, <2>2, <2>3
<1>4. ASSUME context' = [context EXCEPT ![q].refCount = n]
      PROVE  /\ context' \in [Programs -> ContextType]
             /\ context'[q].dir = context[q].dir /\ context'[q].descriptor = context[q].descriptor
             /\ \A p \in Programs \ {q} : context'[p] = context[p]
  <2>1. PICK y : y = [x EXCEPT !.refCount = n]
    OBVIOUS
  <2>2. y \in ContextType /\ y.dir = x.dir /\ y.descriptor = x.descriptor
    BY <2>1 DEF ContextType
  <2>3. context' = [context EXCEPT ![q] = y]
    BY <1>1, <1>4, <2>1, Zenon
  <2> QED  BY <1>1, <2>2, <2>3
<1> QED  BY <1>2, <1>3, <1>4

LEMMA SameTable ==
  ASSUME ProcessParts, gdt' = gdt, \A p \in Programs : context'[p].descriptor = context[p].descriptor
  PROVE  Table'
<1>1. U!Built' = U!Built
  BY DEF U!Built
<1> QED  BY <1>1, ProcessFacts DEF Table

LEMMA PreemptFact ==
  ASSUME ProcessParts, U!Preempt
  PROVE  ProcessParts'
<1>1. PICK t \in (Programs \cup {Kernel, Reaper}) \ {current} :
         /\ U!Runnable(t) /\ current' = t /\ cpu' = U!Switch_To_User_Context(t)
  BY DEF U!Preempt, U!Switch_To_Thread, U!AllThreads
<1>2. /\ at' = at /\ child' = child /\ context' = context /\ threadPage' = threadPage
      /\ freeFrames' = freeFrames /\ pages' = pages /\ owner' = owner /\ refs' = refs /\ gdt' = gdt
      /\ graveyard' = graveyard /\ dying' = dying
  BY DEF U!Preempt, U!threadVars, U!spaceVars, U!reaperVars
<1>3. ProcessTypes'
  BY <1>1, <1>2, ProcessFacts DEF ProcessTypes
<1>4. t \in Programs => at[t] \in Living
  BY <1>1, ProcessFacts DEF U!Runnable, ProcessTypes
<1>5. Loaded'
  BY <1>1, <1>2, <1>4, ProcessFacts DEF Loaded, U!Switch_To_User_Context, U!Switch_To_Address_Space
<1>6. Family' /\ Holding' /\ Referred' /\ Dying'
  BY <1>2, ProcessFacts DEF Family, Holding, Referred, Dying, InGrave
<1>7. Table'
  BY <1>2, SameTable
<1> QED  BY <1>3, <1>5, <1>6, <1>7 DEF ProcessParts

LEMMA Sys_SpawnFact ==
  ASSUME ProcessParts, NEW p \in Programs, U!Sys_Spawn(p)
  PROVE  ProcessParts'
<1>1. PICK q \in U!Unused :
         child' = [child EXCEPT ![p] = q] /\ at' = [at EXCEPT ![p] = "read", ![q] = "new"]
  BY DEF U!Sys_Spawn
<1>2. /\ current' = current /\ cpu' = cpu /\ context' = context /\ threadPage' = threadPage
      /\ freeFrames' = freeFrames /\ pages' = pages /\ owner' = owner /\ refs' = refs /\ gdt' = gdt
      /\ graveyard' = graveyard /\ dying' = dying /\ current = p /\ at[p] = "user"
  BY DEF U!Sys_Spawn, U!spaceVars, U!reaperVars, U!In
<1>3. q \in Programs /\ at[q] = "none" /\ q # p /\ \A r \in Programs : child[r] # q
  BY <1>1, <1>2 DEF U!Unused
<1>4. ProcessTypes'
  BY <1>1, <1>2, <1>3, ProcessFacts DEF ProcessTypes, Living, Building
<1>5. /\ at'[p] = "read" /\ at'[q] = "new" /\ \A r \in Programs \ {p, q} : at'[r] = at[r]
      /\ child'[p] = q /\ \A r \in Programs \ {p} : child'[r] = child[r]
  BY <1>1, <1>3, ProcessFacts DEF ProcessTypes
<1>6. Loaded'
  BY <1>2, <1>5, ProcessFacts DEF Loaded, Living, Building
<1>7. context[q].descriptor = 0
  BY <1>3, ProcessFacts DEF Holding
<1>8. Family'
  <2>1. \A r, t \in Programs : child'[r] = child'[t] /\ child'[r] # None => r = t
    BY <1>3, <1>5, ProcessFacts DEF Family
  <2>2. ASSUME NEW r \in Programs, at'[r] \in Building
        PROVE  /\ child'[r] \in Programs /\ at'[child'[r]] = "new"
               /\ at'[r] # "start" <=> context'[child'[r]].descriptor = 0
    <3>1. CASE r = p
      BY <1>2, <1>3, <1>5, <1>7, <3>1
    <3>2. CASE r # p
      <4>1. r # q /\ at'[r] = at[r] /\ child'[r] = child[r]
        BY <1>5, <2>2, <3>2 DEF Building
      <4>2. child[r] # p /\ child[r] # q /\ child[r] \in Programs
        BY <1>2, <1>3, <2>2, <4>1, ProcessFacts DEF Family
      <4> QED  BY <1>2, <1>5, <2>2, <4>1, <4>2, ProcessFacts DEF Family
    <3> QED  BY <3>1, <3>2
  <2> QED  BY <2>1, <2>2 DEF Family
<1>9. Holding'
  BY <1>2, <1>3, <1>5, ProcessFacts DEF Holding, Living, Building
<1>10. Referred'
  <2>1. \A r \in InGrave : r \in Programs /\ r # p /\ r # q
    BY <1>2, <1>3, ProcessFacts DEF Referred, InGrave, ProcessTypes
  <2>2. \A r \in InGrave : at'[r] = "dead" /\ refs[r] = 0
    BY <1>5, <2>1, ProcessFacts DEF Referred
  <2>3. \A r \in Programs : at'[r] \in Living => at[r] \in Living
    BY <1>2, <1>5 DEF Living, Building
  <2>4. \A r \in Programs : at'[r] = "dead" => at[r] = "dead"
    BY <1>5
  <2> QED  BY <1>2, <2>2, <2>3, <2>4, ProcessFacts DEF Referred, InGrave
<1>11. Dying'
  BY <1>2, <1>3, <1>5, ProcessFacts DEF Dying, InGrave, ProcessTypes
<1>12. Table'
  BY <1>2, SameTable
<1> QED  BY <1>4, <1>6, <1>8, <1>9, <1>10, <1>11, <1>12 DEF ProcessParts

(* Nothing but the places of the parent and its child changes: at failure and at  *)
(* the steps that only go on.                                                     *)
LEMMA Read_FullyFact ==
  ASSUME ProcessParts, NEW p \in Programs, U!Read_Fully(p)
  PROVE  ProcessParts'
<1>1. /\ current' = current /\ cpu' = cpu /\ context' = context /\ threadPage' = threadPage
      /\ freeFrames' = freeFrames /\ pages' = pages /\ owner' = owner /\ refs' = refs /\ gdt' = gdt
      /\ graveyard' = graveyard /\ dying' = dying /\ current = p /\ at[p] = "read"
  BY DEF U!Read_Fully, U!reaperVars, U!In
<1>2. PICK q \in Programs : q = child[p] /\ at[q] = "new" /\ context[q].descriptor = 0 /\ q # p
  BY <1>1, ProcessFacts DEF Family, Building
<1>3. \/ /\ at' = [at EXCEPT ![p] = "user", ![q] = "none"] /\ child' = [child EXCEPT ![p] = None]
      \/ at' = [at EXCEPT ![p] = "load"] /\ child' = child
  BY <1>2 DEF U!Read_Fully, U!Goto
<1>4. ProcessTypes'
  BY <1>1, <1>2, <1>3, ProcessFacts DEF ProcessTypes, Living, Building
<1>5. /\ at'[p] \in {"user", "load"} /\ at'[q] \in {"none", "new"}
      /\ (at'[p] = "user" <=> child'[p] = None) /\ (at'[q] = "none" <=> child'[p] = None)
      /\ (at'[p] = "load" <=> child'[p] = q)
      /\ (\A r \in Programs \ {p, q} : at'[r] = at[r])
      /\ \A r \in Programs \ {p} : child'[r] = child[r]
  BY <1>2, <1>3, ProcessFacts DEF ProcessTypes
<1>6. Loaded'
  BY <1>1, <1>5, ProcessFacts DEF Loaded, Living, Building
<1>7. Family'
  <2>1. \A r, t \in Programs : child'[r] = child'[t] /\ child'[r] # None => r = t
    BY <1>2, <1>5, ProcessFacts DEF Family
  <2>2. ASSUME NEW r \in Programs, at'[r] \in Building
        PROVE  /\ child'[r] \in Programs /\ at'[child'[r]] = "new"
               /\ at'[r] # "start" <=> context'[child'[r]].descriptor = 0
    <3>1. CASE r = p
      BY <1>1, <1>2, <1>5, <2>2, <3>1 DEF Building
    <3>2. CASE r # p
      <4>1. r # q /\ at'[r] = at[r] /\ child'[r] = child[r]
        BY <1>5, <2>2, <3>2 DEF Building
      <4>2. child[r] # p /\ child[r] # q /\ child[r] \in Programs
        BY <1>1, <1>2, <2>2, <3>2, <4>1, ProcessFacts DEF Family
      <4> QED  BY <1>1, <1>5, <2>2, <4>1, <4>2, ProcessFacts DEF Family
    <3> QED  BY <3>1, <3>2
  <2> QED  BY <2>1, <2>2 DEF Family
<1>8. Holding'
  BY <1>1, <1>2, <1>5, ProcessFacts DEF Holding, Living, Building
<1>9. Referred'
  <2>1. \A r \in InGrave : r \in Programs /\ r # p /\ r # q
    BY <1>1, <1>2, ProcessFacts DEF Referred, InGrave, ProcessTypes
  <2>2. \A r \in InGrave : at'[r] = "dead" /\ refs[r] = 0
    BY <1>5, <2>1, ProcessFacts DEF Referred
  <2>3. \A r \in Programs : at'[r] \in Living => at[r] \in Living
    BY <1>1, <1>5 DEF Living, Building
  <2>4. \A r \in Programs : at'[r] = "dead" => at[r] = "dead"
    BY <1>5
  <2> QED  BY <1>1, <2>2, <2>3, <2>4, ProcessFacts DEF Referred, InGrave
<1>10. Dying'
  BY <1>1, <1>2, <1>5, ProcessFacts DEF Dying, InGrave, ProcessTypes
<1>11. Table'
  BY <1>1, SameTable
<1> QED  BY <1>4, <1>6, <1>7, <1>8, <1>9, <1>10, <1>11 DEF ProcessParts

(* A parent goes on from one step to another.                                      *)
LEMMA GoesOn ==
  ASSUME ProcessParts, NEW p \in Programs, NEW w \in Living, at[p] \in Living,
         at' = [at EXCEPT ![p] = w], child' = child \/ child' = [child EXCEPT ![p] = None],
         owner' = owner, refs' = refs, graveyard' = graveyard, dying' = dying,
         \A q \in Programs : at[q] # "new" => context'[q] = context[q],
         w \in Building => /\ at[p] \in Building /\ child' = child
                           /\ w # "start" <=> context'[child[p]].descriptor = 0,
         at[p] \in Building => \A q \in Programs \ {child[p]} : context'[q] = context[q],
         at[p] \notin Building => context' = context
  PROVE  /\ at' \in [Programs -> Living \cup {"none", "new", "dead"}]
         /\ child' \in [Programs -> Programs \cup {None}]
         /\ at'[p] = w /\ \A q \in Programs \ {p} : at'[q] = at[q]
         /\ Family' /\ Holding' /\ Referred' /\ Dying'
<1>1. /\ at' \in [Programs -> Living \cup {"none", "new", "dead"}]
      /\ child' \in [Programs -> Programs \cup {None}]
      /\ at'[p] = w /\ \A q \in Programs \ {p} : at'[q] = at[q]
      /\ \A q \in Programs : child'[q] = child[q] \/ (q = p /\ child'[q] = None)
  BY ProcessFacts DEF ProcessTypes
<1>2. Family'
  <2>1. \A r, t \in Programs : child'[r] = child'[t] /\ child'[r] # None => r = t
    BY <1>1, ProcessFacts DEF Family
  <2>2. ASSUME NEW r \in Programs, at'[r] \in Building
        PROVE  /\ child'[r] \in Programs /\ at'[child'[r]] = "new"
               /\ at'[r] # "start" <=> context'[child'[r]].descriptor = 0
    <3>1. CASE r = p
      <4>1. child'[p] = child[p] /\ child[p] \in Programs /\ at[child[p]] = "new" /\ child[p] # p
        BY <1>1, <2>2, <3>1, ProcessFacts DEF Family, Living, Building
      <4> QED  BY <1>1, <2>2, <3>1, <4>1
    <3>2. CASE r # p
      <4>1. at'[r] = at[r] /\ child'[r] = child[r]
        BY <1>1, <3>2
      <4>2. child[r] \in Programs /\ at[child[r]] = "new" /\ child[r] # p
        BY <2>2, <4>1, ProcessFacts DEF Family, Living, Building
      <4>3. at[p] \in Building => child[r] # child[p]
        BY <2>2, <3>2, <4>1, <4>2, ProcessFacts DEF Family
      <4>4. context'[child[r]] = context[child[r]]
        BY <4>2, <4>3
      <4> QED  BY <1>1, <2>2, <4>1, <4>2, <4>4, ProcessFacts DEF Family
    <3> QED  BY <3>1, <3>2
  <2> QED  BY <2>1, <2>2 DEF Family
<1>3. Holding'
  BY <1>1, ProcessFacts DEF Holding, Living, Building
<1>4. Referred'
  BY <1>1, ProcessFacts DEF Referred, InGrave, Living, Building
<1>5. Dying'
  BY <1>1, ProcessFacts DEF Dying, InGrave, ProcessTypes, Living, Building
<1> QED  BY <1>1, <1>2, <1>3, <1>4, <1>5

(* The child that a step of Spawn builds for.                                      *)
LEMMA ChildFact ==
  ASSUME ProcessParts, NEW p \in Programs, current = p, at[p] \in Building
  PROVE  \E q \in Programs : /\ q = child[p] /\ q # p /\ at[q] = "new"
                             /\ (at[p] # "start" <=> context[q].descriptor = 0)
                             /\ cpu.space.dir = context[p].dir
<1>1. cpu = [space |-> [dir |-> context[p].dir, ldt |-> context[p].descriptor], stack |-> p]
  BY ProcessFacts DEF Loaded, U!Switch_To_Address_Space
<1>2. cpu.space.dir = context[p].dir
  BY <1>1
<1> QED  BY <1>2, ProcessFacts DEF Family, Building

LEMMA NewDirectoryFact ==
  ASSUME ProcessParts, NEW p \in Programs, U!NewDirectory(p)
  PROVE  crashed' \/ ProcessParts'
<1> SUFFICES ASSUME ~crashed' PROVE ProcessParts'
  OBVIOUS
<1>0. current = p /\ at[p] = "load"
  BY DEF U!NewDirectory, U!In
<1>1. PICK q \in Programs : /\ q = child[p] /\ q # p /\ at[q] = "new" /\ context[q].descriptor = 0
                            /\ cpu.space.dir = context[p].dir
  BY <1>0, ChildFact DEF Building
<1>2. PICK f \in freeFrames : freeFrames' = freeFrames \ {f} /\ context' = [context EXCEPT ![q].dir = f]
  BY <1>1 DEF U!NewDirectory, U!Crash
<1>3. /\ current' = current /\ cpu' = cpu /\ child' = child /\ threadPage' = threadPage
      /\ pages' = pages /\ owner' = owner /\ refs' = refs /\ gdt' = gdt
      /\ graveyard' = graveyard /\ dying' = dying /\ at' = [at EXCEPT ![p] = "context"]
  BY DEF U!NewDirectory, U!Crash, U!reaperVars, U!Goto
<1>4. /\ context' \in [Programs -> ContextType] /\ context'[q].descriptor = 0
      /\ \A r \in Programs \ {q} : context'[r] = context[r]
  BY <1>1, <1>2, ContextField, ProcessFacts DEF ProcessTypes
<1>5. /\ at' \in [Programs -> Living \cup {"none", "new", "dead"}]
      /\ at'[p] = "context" /\ Family' /\ Holding' /\ Referred' /\ Dying'
  BY <1>0, <1>1, <1>3, <1>4, GoesOn DEF Living, Building
<1>6. ProcessTypes'
  BY <1>2, <1>3, <1>4, <1>5, ProcessFacts DEF ProcessTypes
<1>7. Loaded'
  BY <1>0, <1>1, <1>3, <1>4, <1>5, ProcessFacts DEF Loaded, Living, Building, U!Switch_To_Address_Space
<1>8. Table'
  BY <1>1, <1>3, <1>4, SameTable
<1> QED  BY <1>5, <1>6, <1>7, <1>8 DEF ProcessParts

LEMMA NewContextFact ==
  ASSUME ProcessParts, NEW p \in Programs, U!NewContext(p)
  PROVE  crashed' \/ ProcessParts'
<1> SUFFICES ASSUME ~crashed' PROVE ProcessParts'
  OBVIOUS
<1>0. current = p /\ at[p] = "context"
  BY DEF U!NewContext, U!In
<1>1. PICK q \in Programs : /\ q = child[p] /\ q # p /\ at[q] = "new" /\ context[q].descriptor = 0
                            /\ cpu.space.dir = context[p].dir
  BY <1>0, ChildFact DEF Building
<1>2. PICK i : i = U!Min(gdt.avail)
  OBVIOUS
<1>3. /\ gdt.avail # {}
      /\ gdt' = [avail |-> gdt.avail \ {i}, numAllocated |-> gdt.numAllocated + 1]
      /\ context' = [context EXCEPT ![q].descriptor = i]
  BY <1>1, <1>2 DEF U!NewContext, U!Crash, U!Allocate_Segment_Descriptor
<1>4. /\ current' = current /\ cpu' = cpu /\ child' = child /\ threadPage' = threadPage
      /\ freeFrames' = freeFrames /\ pages' = pages /\ owner' = owner /\ refs' = refs
      /\ graveyard' = graveyard /\ dying' = dying /\ at' = [at EXCEPT ![p] = "start"]
  BY DEF U!NewContext, U!Crash, U!reaperVars, U!Goto
<1>5. gdt \in [avail : SUBSET Descriptors, numAllocated : Int] /\ gdt.avail \subseteq Descriptors
  BY ProcessFacts DEF ProcessTypes
<1>6. i \in gdt.avail /\ i \in Nat /\ i # 0 /\ i \in Descriptors
  <2>1. gdt.avail \in SUBSET Nat
    BY <1>5 DEF Descriptors
  <2>2. i \in gdt.avail
    BY <1>2, <1>3, <2>1, MinFact
  <2> QED  BY <1>5, <2>2 DEF Descriptors
<1>7. /\ context' \in [Programs -> ContextType] /\ context'[q].descriptor = i /\ context'[q].dir = context[q].dir
      /\ \A r \in Programs \ {q} : context'[r] = context[r]
  BY <1>1, <1>3, <1>6, ContextField, ProcessFacts, ZenonT(60) DEF ProcessTypes
<1>8. /\ at' \in [Programs -> Living \cup {"none", "new", "dead"}]
      /\ at'[p] = "start" /\ Family' /\ Holding' /\ Referred' /\ Dying'
  BY <1>0, <1>1, <1>4, <1>6, <1>7, GoesOn DEF Living, Building
<1>9. gdt'.avail = gdt.avail \ {i} /\ gdt'.numAllocated = gdt.numAllocated + 1
  BY <1>3
<1>10. ProcessTypes'
  BY <1>3, <1>4, <1>5, <1>7, <1>8, ProcessFacts DEF ProcessTypes
<1>11. Loaded'
  BY <1>0, <1>1, <1>4, <1>7, <1>8, ProcessFacts DEF Loaded, Living, Building, U!Switch_To_Address_Space
<1>12. Table'
  <2>1. \A r \in Programs : context'[r].descriptor \in {0} \cup (Descriptors \ gdt'.avail)
    BY <1>6, <1>7, <1>9, ProcessFacts DEF Table
  <2>2. \A r \in Programs : context[r].descriptor # i
    BY <1>6, ProcessFacts DEF Table, Descriptors
  <2>3. \A r, t \in Programs :
          context'[r].descriptor = context'[t].descriptor /\ context'[r].descriptor # 0 => r = t
    BY <1>7, <2>2, ProcessFacts DEF Table
  <2>4. U!Built' = U!Built \cup {q} /\ q \notin U!Built /\ IsFiniteSet(U!Built)
    <3>1. U!Built \subseteq Programs
      BY DEF U!Built
    <3> QED  BY <1>1, <1>6, <1>7, <3>1, FS_Subset, ProcessFacts DEF U!Built
  <2>5. Cardinality(U!Built') = Cardinality(U!Built) + 1
    BY <2>4, FS_AddElement
  <2>6. IsFiniteSet(gdt.avail) /\ Cardinality(gdt'.avail) = Cardinality(gdt.avail) - 1
    <3>1. IsFiniteSet(Descriptors)
      BY FS_Interval, ProcessFacts DEF Descriptors
    <3>2. IsFiniteSet(gdt.avail)
      BY <1>5, <3>1, FS_Subset
    <3> QED  BY <1>6, <1>9, <3>2, FS_RemoveElement
  <2>7. /\ gdt.numAllocated = Cardinality(U!Built) /\ Cardinality(gdt.avail) = NumDescriptors - gdt.numAllocated
        /\ gdt.numAllocated \in Int
    BY <1>5, ProcessFacts DEF Table
  <2>8. /\ gdt'.numAllocated = Cardinality(U!Built')
        /\ Cardinality(gdt'.avail) = NumDescriptors - gdt'.numAllocated
    BY <1>9, <2>5, <2>6, <2>7, ProcessFacts
  <2> QED  BY <2>1, <2>3, <2>8 DEF Table
<1> QED  BY <1>8, <1>10, <1>11, <1>12 DEF ProcessParts

LEMMA Start_User_ThreadFact ==
  ASSUME ProcessParts, NEW p \in Programs, U!Start_User_Thread(p)
  PROVE  crashed' \/ ProcessParts'
<1> SUFFICES ASSUME ~crashed' PROVE ProcessParts'
  OBVIOUS
<1>0. current = p /\ at[p] = "start"
  BY DEF U!Start_User_Thread, U!In
<1>1. PICK q \in Programs : /\ q = child[p] /\ q # p /\ at[q] = "new" /\ context[q].descriptor # 0
                            /\ cpu.space.dir = context[p].dir
  BY <1>0, ChildFact DEF Building
<1>2. /\ current' = current /\ cpu' = cpu /\ child' = child /\ gdt' = gdt
      /\ pages' = pages /\ graveyard' = graveyard /\ dying' = dying
      /\ at' = [at EXCEPT ![p] = "name", ![q] = "user"]
      /\ \E f \in freeFrames : /\ freeFrames' = freeFrames \ {f}
                               /\ threadPage' = [threadPage EXCEPT ![q] = f]
      /\ U!Attach_User_Context(context[q])
      /\ \E detached \in BOOLEAN :
           /\ refs' = [refs EXCEPT ![q] = IF detached THEN 1 ELSE 2]
           /\ owner' = [owner EXCEPT ![q] = IF detached THEN None ELSE p]
  BY <1>1 DEF U!Start_User_Thread, U!Crash, U!reaperVars
<1>3. PICK y : y = [context[q] EXCEPT !.refCount = 1] /\ context' = [context EXCEPT ![q] = y]
  BY <1>0, <1>1, <1>2 DEF U!Attach_User_Context
<1>4. y \in ContextType /\ y.descriptor = context[q].descriptor
  <2>1. context[q] \in ContextType
    BY ProcessFacts DEF ProcessTypes
  <2> QED  BY <1>3, <2>1 DEF ContextType
<1>5. /\ context' \in [Programs -> ContextType] /\ context'[q].descriptor = context[q].descriptor
      /\ \A r \in Programs \ {q} : context'[r] = context[r]
  BY <1>3, <1>4, ProcessFacts DEF ProcessTypes
<1>6. /\ at' \in [Programs -> Living \cup {"none", "new", "dead"}]
      /\ at'[p] = "name" /\ at'[q] = "user" /\ \A r \in Programs \ {p, q} : at'[r] = at[r]
  BY <1>1, <1>2, ProcessFacts DEF ProcessTypes, Living, Building
<1>7. /\ refs' \in [Programs -> Nat] /\ owner' \in [Programs -> Programs \cup {None}]
      /\ refs'[q] >= 1 /\ (owner'[q] # None => refs'[q] >= 2)
      /\ \A r \in Programs \ {q} : refs'[r] = refs[r] /\ owner'[r] = owner[r]
  BY <1>2, ProcessFacts DEF ProcessTypes
<1>8. freeFrames' \in SUBSET Nat /\ threadPage' \in [Programs -> Nat]
  BY <1>2, ProcessFacts DEF ProcessTypes
<1>9. ProcessTypes'
  BY <1>2, <1>5, <1>6, <1>7, <1>8, ProcessFacts DEF ProcessTypes
<1>10. Loaded'
  BY <1>0, <1>1, <1>2, <1>5, <1>6, ProcessFacts DEF Loaded, Living, Building, U!Switch_To_Address_Space
<1>11. Family'
  <2>1. ASSUME NEW r \in Programs, at'[r] \in Building
        PROVE  /\ child'[r] \in Programs /\ at'[child'[r]] = "new"
               /\ at'[r] # "start" <=> context'[child'[r]].descriptor = 0
    <3>1. r # p /\ r # q /\ at'[r] = at[r] /\ child'[r] = child[r]
      BY <1>2, <1>6, <2>1 DEF Building
    <3>2. child[r] # p /\ child[r] # q /\ child[r] \in Programs
      BY <1>0, <1>1, <2>1, <3>1, ProcessFacts DEF Family
    <3> QED  BY <1>5, <1>6, <2>1, <3>1, <3>2, ProcessFacts DEF Family
  <2> QED  BY <1>2, <2>1, ProcessFacts DEF Family
<1>12. Holding'
  <2>1. dying.proc # q \/ dying.stage # "thread"
    BY <1>1, ProcessFacts DEF Dying
  <2> QED  BY <1>0, <1>1, <1>2, <1>5, <1>6, <2>1, ProcessFacts DEF Holding, Living, Building
<1>13. Referred'
  <2>1. \A r \in InGrave : r \in Programs /\ r # p /\ r # q
    BY <1>0, <1>1, ProcessFacts DEF Referred, InGrave, ProcessTypes
  <2>2. \A r \in InGrave : at'[r] = "dead" /\ refs'[r] = 0
    BY <1>6, <1>7, <2>1, ProcessFacts DEF Referred
  <2>3. \A r \in Programs : at'[r] \in Living => r = q \/ at[r] \in Living
    BY <1>0, <1>6 DEF Living, Building
  <2>4. \A r \in Programs : at'[r] = "dead" => r # q /\ at[r] = "dead"
    BY <1>6
  <2> QED  BY <1>2, <1>7, <2>2, <2>3, <2>4, ProcessFacts DEF Referred, InGrave
<1>14. Dying'
  BY <1>0, <1>1, <1>2, <1>5, <1>6, <1>7, ProcessFacts DEF Dying, InGrave, ProcessTypes
<1>15. Table'
  BY <1>2, <1>5, SameTable
<1> QED  BY <1>9, <1>10, <1>11, <1>12, <1>13, <1>14, <1>15 DEF ProcessParts

LEMMA NameThreadFact ==
  ASSUME ProcessParts, NEW p \in Programs, U!NameThread(p)
  PROVE  crashed' \/ ProcessParts'
<1> SUFFICES ASSUME ~crashed' PROVE ProcessParts'
  OBVIOUS
<1>0. current = p /\ at[p] = "name"
  BY DEF U!NameThread, U!In
<1>1. /\ current' = current /\ cpu' = cpu /\ context' = context /\ threadPage' = threadPage
      /\ freeFrames' = freeFrames /\ pages' = pages /\ owner' = owner /\ refs' = refs /\ gdt' = gdt
      /\ graveyard' = graveyard /\ dying' = dying
      /\ child' = [child EXCEPT ![p] = None] /\ at' = [at EXCEPT ![p] = "user"]
  BY DEF U!NameThread, U!Crash, U!spaceVars, U!reaperVars, U!Goto
<1>2. /\ at' \in [Programs -> Living \cup {"none", "new", "dead"}]
      /\ child' \in [Programs -> Programs \cup {None}]
      /\ at'[p] = "user" /\ Family' /\ Holding' /\ Referred' /\ Dying'
  BY <1>0, <1>1, GoesOn DEF Living, Building
<1>3. ProcessTypes' /\ Loaded'
  BY <1>0, <1>1, <1>2, ProcessFacts DEF ProcessTypes, Loaded, Living
<1>4. Table'
  BY <1>1, SameTable
<1> QED  BY <1>2, <1>3, <1>4 DEF ProcessParts

LEMMA TakePageFact ==
  ASSUME ProcessParts, NEW p \in Programs, U!TakePage(p)
  PROVE  ProcessParts'
<1>0. current = p
  BY DEF U!TakePage, U!In
<1>1. /\ current' = current /\ cpu' = cpu /\ context' = context /\ threadPage' = threadPage
      /\ at' = at /\ child' = child /\ owner' = owner /\ refs' = refs /\ gdt' = gdt
      /\ graveyard' = graveyard /\ dying' = dying
      /\ \E f \in freeFrames : freeFrames' = freeFrames \ {f} /\ pages' = [pages EXCEPT ![p] = @ \cup {f}]
  BY DEF U!TakePage, U!threadVars, U!reaperVars
<1>2. freeFrames' \in SUBSET Nat /\ pages' \in [Programs -> SUBSET Nat]
  <2>1. PICK f \in freeFrames : freeFrames' = freeFrames \ {f} /\ pages' = [pages EXCEPT ![p] = pages[p] \cup {f}]
    BY <1>1
  <2>2. pages[p] \cup {f} \in SUBSET Nat
    BY ProcessFacts DEF ProcessTypes
  <2> QED  BY <2>1, <2>2, ProcessFacts DEF ProcessTypes
<1>3. ProcessTypes'
  BY <1>1, <1>2, ProcessFacts DEF ProcessTypes
<1>4. Loaded'
  <2>1. cpu = [space |-> [dir |-> context[p].dir, ldt |-> context[p].descriptor], stack |-> p]
    BY <1>0, ProcessFacts DEF Loaded, U!Switch_To_Address_Space
  <2>2. cpu.space.dir = context[p].dir
    BY <2>1
  <2> QED  BY <1>0, <1>1, <2>2, ProcessFacts DEF Loaded
<1>5. Family' /\ Holding' /\ Referred' /\ Dying'
  BY <1>1, ProcessFacts DEF Family, Holding, Referred, Dying, InGrave
<1>6. Table'
  BY <1>1, SameTable
<1> QED  BY <1>3, <1>4, <1>5, <1>6 DEF ProcessParts

LEMMA ProcessExitFact ==
  ASSUME ProcessParts, NEW p \in Programs, U!Exit(p)
  PROVE  ProcessParts'
<1>1. /\ context' = context /\ threadPage' = threadPage /\ child' = child
      /\ freeFrames' = freeFrames /\ pages' = pages /\ owner' = owner /\ gdt' = gdt
      /\ dying' = dying /\ current = p /\ at[p] = "user"
      /\ at' = [at EXCEPT ![p] = "dead"] /\ refs' = [refs EXCEPT ![p] = refs[p] - 1]
      /\ graveyard' = IF refs[p] = 1 THEN [graveyard EXCEPT !.queue = graveyard.queue \cup {p}] ELSE graveyard
  BY DEF U!Exit, U!spaceVars, U!In, U!Goto, U!Detach_Thread
<1>2. PICK t \in (Programs \cup {Kernel, Reaper}) \ {p} :
         /\ U!Runnable(t) \/ t = Reaper
         /\ current' = t /\ cpu' = U!Switch_To_User_Context(t)
  BY DEF U!Exit, U!Switch_To_Thread, U!AllThreads
<1>3. /\ at' \in [Programs -> Living \cup {"none", "new", "dead"}]
      /\ at'[p] = "dead" /\ \A r \in Programs \ {p} : at'[r] = at[r]
  BY <1>1, ProcessFacts DEF ProcessTypes
<1>4. refs[p] \in Nat /\ refs[p] >= 1 /\ (owner[p] # None => refs[p] >= 2)
  BY <1>1, ProcessFacts DEF Referred, ProcessTypes, Living
<1>5. refs' \in [Programs -> Nat] /\ refs'[p] = refs[p] - 1 /\ \A r \in Programs \ {p} : refs'[r] = refs[r]
  <2>1. refs[p] - 1 \in Nat
    BY <1>4
  <2> QED  BY <1>1, <2>1, ProcessFacts DEF ProcessTypes
<1>6. p \notin InGrave /\ dying.proc # p
  BY <1>1, ProcessFacts DEF Referred, Dying
<1>7. /\ graveyard' \in [queue : SUBSET Programs, taken : SUBSET Programs]
      /\ graveyard'.taken = graveyard.taken
      /\ graveyard'.queue = graveyard.queue \/ (graveyard'.queue = graveyard.queue \cup {p} /\ refs[p] = 1)
  <2>1. graveyard \in [queue : SUBSET Programs, taken : SUBSET Programs]
    BY ProcessFacts DEF ProcessTypes
  <2> QED  BY <1>1, <2>1
<1>8. ProcessTypes'
  BY <1>1, <1>2, <1>3, <1>5, <1>7, ProcessFacts DEF ProcessTypes
<1>9. Loaded'
  <2>1. t \in Programs => at'[t] \in Living
    BY <1>2, <1>3, ProcessFacts DEF U!Runnable, ProcessTypes
  <2>2. p \in Programs /\ cpu.space.dir = context[p].dir
    <3>1. cpu = [space |-> [dir |-> context[p].dir, ldt |-> context[p].descriptor], stack |-> p]
      BY <1>1, ProcessFacts DEF Loaded, U!Switch_To_Address_Space
    <3> QED  BY <3>1
  <2> QED  BY <1>1, <1>2, <2>1, <2>2, ProcessFacts DEF Loaded, U!Switch_To_User_Context, U!Switch_To_Address_Space
<1>10. Family'
  BY <1>1, <1>3, ProcessFacts DEF Family, Building
<1>11. Holding'
  BY <1>1, <1>3, <1>6, ProcessFacts DEF Holding, Living, Building
<1>12. Referred'
  <2>1. \A r \in InGrave' : r \in Programs /\ (r \in InGrave \/ (r = p /\ refs[p] = 1))
    BY <1>7, ProcessFacts DEF InGrave, ProcessTypes
  <2>2. \A r \in InGrave' : at'[r] = "dead" /\ refs'[r] = 0
    BY <1>3, <1>4, <1>5, <1>6, <2>1, ProcessFacts DEF Referred
  <2>3. graveyard'.queue \cap graveyard'.taken = {}
    BY <1>6, <1>7, ProcessFacts DEF Referred, InGrave
  <2>4. \A r \in Programs : at'[r] \in Living => r # p /\ at[r] \in Living
    BY <1>3 DEF Living, Building
  <2>5. owner[p] # None => refs'[p] >= 1
    BY <1>4, <1>5
  <2> QED  BY <1>1, <1>3, <1>5, <2>2, <2>3, <2>4, <2>5, ProcessFacts DEF Referred
<1>13. Dying'
  <2>1. dying.proc # p /\ \A r \in InGrave' : r \in InGrave \/ r = p
    BY <1>6, <1>7 DEF InGrave
  <2> QED  BY <1>1, <1>3, <1>5, <2>1, ProcessFacts DEF Dying, ProcessTypes
<1>14. Table'
  BY <1>1, SameTable
<1> QED  BY <1>8, <1>9, <1>10, <1>11, <1>12, <1>13, <1>14 DEF ProcessParts

LEMMA JoinFact ==
  ASSUME ProcessParts, NEW p \in Programs, U!Join(p)
  PROVE  ProcessParts'
<1>1. /\ current' = current /\ cpu' = cpu /\ context' = context /\ threadPage' = threadPage
      /\ at' = at /\ child' = child /\ freeFrames' = freeFrames /\ pages' = pages /\ gdt' = gdt
      /\ dying' = dying
  BY DEF U!Join, U!spaceVars
<1>2. PICK q \in Programs :
        /\ owner[q] = p /\ at[q] = "dead" /\ owner' = [owner EXCEPT ![q] = None]
        /\ refs' = [refs EXCEPT ![q] = refs[q] - 1]
        /\ graveyard' = IF refs[q] = 1 THEN [graveyard EXCEPT !.queue = graveyard.queue \cup {q}] ELSE graveyard
  BY DEF U!Join, U!Detach_Thread
<1>3. refs[q] \in Nat /\ refs[q] >= 1
  BY <1>2, ProcessFacts DEF Referred, ProcessTypes
<1>4. refs' \in [Programs -> Nat] /\ refs'[q] = refs[q] - 1 /\ \A r \in Programs \ {q} : refs'[r] = refs[r]
  <2>1. refs[q] - 1 \in Nat
    BY <1>3
  <2> QED  BY <1>2, <2>1, ProcessFacts DEF ProcessTypes
<1>5. /\ owner' \in [Programs -> Programs \cup {None}] /\ owner'[q] = None
      /\ \A r \in Programs \ {q} : owner'[r] = owner[r]
  BY <1>2, ProcessFacts DEF ProcessTypes
<1>6. q \notin InGrave /\ (dying.proc = q => dying.stage = "none")
  BY <1>3, ProcessFacts DEF Referred, Dying
<1>7. dying.proc # q
  BY <1>6, ProcessFacts DEF Dying
<1>8. /\ graveyard' \in [queue : SUBSET Programs, taken : SUBSET Programs]
      /\ graveyard'.taken = graveyard.taken
      /\ graveyard'.queue = graveyard.queue \/ (graveyard'.queue = graveyard.queue \cup {q} /\ refs[q] = 1)
  <2>1. graveyard \in [queue : SUBSET Programs, taken : SUBSET Programs]
    BY ProcessFacts DEF ProcessTypes
  <2> QED  BY <1>2, <2>1
<1>9. ProcessTypes'
  BY <1>1, <1>4, <1>5, <1>8, ProcessFacts DEF ProcessTypes
<1>10. Loaded' /\ Family' /\ Holding'
  BY <1>1, ProcessFacts DEF Loaded, Family, Holding
<1>11. Referred'
  <2>1. \A r \in InGrave' : r \in Programs /\ (r \in InGrave \/ (r = q /\ refs[q] = 1))
    BY <1>8, ProcessFacts DEF InGrave, ProcessTypes
  <2>2. \A r \in InGrave' : at'[r] = "dead" /\ refs'[r] = 0
    BY <1>1, <1>2, <1>3, <1>4, <1>6, <2>1, ProcessFacts DEF Referred
  <2>3. graveyard'.queue \cap graveyard'.taken = {}
    BY <1>6, <1>8, ProcessFacts DEF Referred, InGrave
  <2>4. \A r \in Programs : at'[r] \in Living => r # q
    BY <1>1, <1>2 DEF Living, Building
  <2> QED  BY <1>1, <1>4, <1>5, <2>2, <2>3, <2>4, ProcessFacts DEF Referred
<1>12. Dying'
  <2>1. dying.proc # q /\ \A r \in InGrave' : r \in InGrave \/ r = q
    BY <1>7, <1>8 DEF InGrave
  <2> QED  BY <1>1, <1>4, <2>1, ProcessFacts DEF Dying, ProcessTypes
<1>13. Table'
  BY <1>1, SameTable
<1> QED  BY <1>9, <1>10, <1>11, <1>12, <1>13 DEF ProcessParts

LEMMA TakeGraveyardFact ==
  ASSUME ProcessParts, U!TakeGraveyard
  PROVE  ProcessParts'
<1>1. /\ current' = current /\ cpu' = cpu /\ context' = context /\ threadPage' = threadPage
      /\ at' = at /\ child' = child /\ freeFrames' = freeFrames /\ pages' = pages /\ gdt' = gdt
      /\ dying' = dying /\ refs' = refs /\ owner' = owner
      /\ graveyard.taken = {} /\ graveyard' = [queue |-> {}, taken |-> graveyard.queue]
  BY DEF U!TakeGraveyard, U!threadVars, U!spaceVars
<1>2. /\ graveyard' \in [queue : SUBSET Programs, taken : SUBSET Programs]
      /\ graveyard'.queue = {} /\ graveyard'.taken = graveyard.queue
  <2>1. graveyard.queue \in SUBSET Programs
    BY ProcessFacts DEF ProcessTypes
  <2> QED  BY <1>1, <2>1
<1>3. InGrave' = InGrave
  BY <1>1, <1>2 DEF InGrave
<1>4. ProcessTypes'
  BY <1>1, <1>2, ProcessFacts DEF ProcessTypes
<1>5. Loaded' /\ Family' /\ Holding'
  BY <1>1, ProcessFacts DEF Loaded, Family, Holding
<1>6. Referred'
  BY <1>1, <1>2, <1>3, ProcessFacts DEF Referred
<1>7. Dying'
  BY <1>1, <1>3, ProcessFacts DEF Dying
<1>8. Table'
  BY <1>1, SameTable
<1> QED  BY <1>4, <1>5, <1>6, <1>7, <1>8 DEF ProcessParts

LEMMA DetachContextFact ==
  ASSUME ProcessParts, U!DetachContext
  PROVE  ProcessParts'
<1>1. /\ current' = current /\ cpu' = cpu /\ threadPage' = threadPage
      /\ at' = at /\ child' = child /\ freeFrames' = freeFrames /\ pages' = pages /\ gdt' = gdt
      /\ refs' = refs /\ owner' = owner /\ current = Reaper /\ dying = U!Nobody
  BY DEF U!DetachContext, U!threadVars
<1>2. PICK q \in graveyard.taken :
        /\ graveyard' = [graveyard EXCEPT !.taken = graveyard.taken \ {q}]
        /\ dying' = [proc |-> q, stage |-> "pages"]
        /\ context' = [context EXCEPT ![q].refCount = 0]
  BY DEF U!DetachContext
<1>3. q \in Programs /\ at[q] = "dead" /\ refs[q] = 0 /\ q \notin graveyard.queue
  BY <1>2, ProcessFacts DEF ProcessTypes, Referred, InGrave
<1>4. /\ graveyard' \in [queue : SUBSET Programs, taken : SUBSET Programs]
      /\ graveyard'.queue = graveyard.queue /\ graveyard'.taken = graveyard.taken \ {q}
  <2>1. graveyard \in [queue : SUBSET Programs, taken : SUBSET Programs]
    BY ProcessFacts DEF ProcessTypes
  <2> QED  BY <1>2, <2>1
<1>5. InGrave' = InGrave \ {q}
  BY <1>3, <1>4 DEF InGrave
<1>6. /\ context' \in [Programs -> ContextType]
      /\ context'[q].dir = context[q].dir /\ context'[q].descriptor = context[q].descriptor
      /\ \A p \in Programs \ {q} : context'[p] = context[p]
  BY <1>2, <1>3, ContextField, ProcessFacts DEF ProcessTypes
<1>7. \A p \in Programs : context'[p].dir = context[p].dir /\ context'[p].descriptor = context[p].descriptor
  BY <1>6
<1>8. dying'.proc = q /\ dying'.stage = "pages" /\ dying.stage = "none" /\ dying.proc = None
  BY <1>1, <1>2 DEF U!Nobody
<1>9. ProcessTypes'
  <2>1. dying' \in [proc : Programs \cup {None}, stage : {"none", "pages", "descriptor", "thread"}]
    BY <1>2, <1>3
  <2> QED  BY <1>1, <1>4, <1>6, <2>1, ProcessFacts DEF ProcessTypes
<1>10. Loaded'
  BY <1>1, <1>7, ProcessFacts DEF Loaded
<1>11. Family'
  BY <1>1, <1>7, ProcessFacts DEF Family
<1>12. Holding'
  BY <1>1, <1>3, <1>7, <1>8, ProcessFacts DEF Holding
<1>13. Referred'
  BY <1>1, <1>4, <1>5, ProcessFacts DEF Referred
<1>14. Dying'
  BY <1>1, <1>3, <1>5, <1>8, ProcessFacts DEF Dying
<1>15. Table'
  BY <1>1, <1>7, SameTable
<1> QED  BY <1>9, <1>10, <1>11, <1>12, <1>13, <1>14, <1>15 DEF ProcessParts

LEMMA FreeMemoryFact ==
  ASSUME ProcessParts, U!FreeMemory
  PROVE  ProcessParts'
<1>0. PICK q : q = dying.proc
  OBVIOUS
<1>1. /\ current' = current /\ cpu' = cpu /\ threadPage' = threadPage
      /\ at' = at /\ child' = child /\ gdt' = gdt /\ graveyard' = graveyard
      /\ refs' = refs /\ owner' = owner /\ current = Reaper /\ dying.stage = "pages"
      /\ freeFrames' = freeFrames \cup pages[q] \cup {context[q].dir}
      /\ pages' = [pages EXCEPT ![q] = {}] /\ context' = [context EXCEPT ![q].dir = 0]
      /\ dying' = [dying EXCEPT !.stage = "descriptor"]
  BY <1>0 DEF U!FreeMemory, U!threadVars, U!Destroys
<1>2. q \in Programs /\ at[q] = "dead"
  BY <1>0, <1>1, ProcessFacts DEF Dying, ProcessTypes
<1>3. /\ context' \in [Programs -> ContextType]
      /\ context'[q].dir = 0 /\ context'[q].descriptor = context[q].descriptor
      /\ \A p \in Programs \ {q} : context'[p] = context[p]
  <2>1. 0 \in Nat
    OBVIOUS
  <2> QED  BY <1>1, <1>2, <2>1, ContextField, ProcessFacts DEF ProcessTypes
<1>4. \A p \in Programs : context'[p].descriptor = context[p].descriptor
  BY <1>3
<1>5. /\ dying' \in [proc : Programs \cup {None}, stage : {"none", "pages", "descriptor", "thread"}]
      /\ dying'.proc = q /\ dying'.stage = "descriptor"
  <2>1. dying \in [proc : Programs \cup {None}, stage : {"none", "pages", "descriptor", "thread"}]
    BY ProcessFacts DEF ProcessTypes
  <2> QED  BY <1>0, <1>1, <2>1
<1>6. /\ freeFrames' \in SUBSET Nat /\ pages' \in [Programs -> SUBSET Nat]
  <2>1. context[q].dir \in Nat /\ pages[q] \in SUBSET Nat
    BY <1>2, ProcessFacts DEF ProcessTypes, ContextType
  <2> QED  BY <1>1, <2>1, ProcessFacts DEF ProcessTypes
<1>7. ProcessTypes'
  BY <1>1, <1>3, <1>5, <1>6, ProcessFacts DEF ProcessTypes
<1>8. Loaded'
  BY <1>1, <1>2, <1>3, ProcessFacts DEF Loaded
<1>9. Family'
  BY <1>1, <1>4, ProcessFacts DEF Family
<1>10. Holding'
  BY <1>0, <1>1, <1>4, <1>5, ProcessFacts DEF Holding
<1>11. Referred'
  BY <1>1, ProcessFacts DEF Referred, InGrave
<1>12. Dying'
  BY <1>0, <1>1, <1>2, <1>3, <1>5, ProcessFacts DEF Dying, InGrave
<1>13. Table'
  BY <1>1, <1>4, SameTable
<1> QED  BY <1>7, <1>8, <1>9, <1>10, <1>11, <1>12, <1>13 DEF ProcessParts

LEMMA FreeDescriptorFact ==
  ASSUME ProcessParts, U!FreeDescriptor
  PROVE  crashed' \/ ProcessParts'
<1> SUFFICES ASSUME ~crashed' PROVE ProcessParts'
  OBVIOUS
<1>0. PICK q, i : q = dying.proc /\ i = context[q].descriptor
  OBVIOUS
<1>1. /\ current' = current /\ cpu' = cpu /\ threadPage' = threadPage
      /\ at' = at /\ child' = child /\ graveyard' = graveyard /\ freeFrames' = freeFrames /\ pages' = pages
      /\ refs' = refs /\ owner' = owner /\ current = Reaper /\ dying.stage = "descriptor"
      /\ i \notin gdt.avail
      /\ gdt' = [avail |-> gdt.avail \cup {i}, numAllocated |-> gdt.numAllocated - 1]
      /\ context' = [context EXCEPT ![q] = U!NoContext]
      /\ dying' = [dying EXCEPT !.stage = "thread"]
  BY <1>0 DEF U!FreeDescriptor, U!threadVars, U!Destroys, U!Crash, U!Free_Segment_Descriptor
<1>2. q \in Programs /\ at[q] = "dead" /\ context[q].dir = 0 /\ i # 0 /\ i \in Descriptors
  BY <1>0, <1>1, ProcessFacts DEF Dying, ProcessTypes, Holding, Table
<1>3. /\ context' \in [Programs -> ContextType]
      /\ context'[q].dir = 0 /\ context'[q].descriptor = 0
      /\ \A p \in Programs \ {q} : context'[p] = context[p]
  BY <1>1, <1>2, ProcessFacts DEF ProcessTypes, ContextType, U!NoContext
<1>4. /\ dying' \in [proc : Programs \cup {None}, stage : {"none", "pages", "descriptor", "thread"}]
      /\ dying'.proc = q /\ dying'.stage = "thread"
  <2>1. dying \in [proc : Programs \cup {None}, stage : {"none", "pages", "descriptor", "thread"}]
    BY ProcessFacts DEF ProcessTypes
  <2> QED  BY <1>0, <1>1, <2>1
<1>5. /\ gdt \in [avail : SUBSET Descriptors, numAllocated : Int] /\ gdt.avail \subseteq Descriptors
      /\ gdt'.avail = gdt.avail \cup {i} /\ gdt'.numAllocated = gdt.numAllocated - 1
  BY <1>1, ProcessFacts DEF ProcessTypes
<1>6. ProcessTypes'
  <2>1. gdt' \in [avail : SUBSET Descriptors, numAllocated : Int]
    BY <1>1, <1>2, <1>5
  <2> QED  BY <1>1, <1>3, <1>4, <2>1, ProcessFacts DEF ProcessTypes
<1>7. Loaded'
  <2>1. cpu.space.dir \in freeFrames \cup {0} \cup {context'[p].dir : p \in Programs}
    BY <1>2, <1>3, ProcessFacts DEF Loaded
  <2> QED  BY <1>1, <2>1, ProcessFacts DEF Loaded
<1>8. Family'
  <2>1. \A p \in Programs : at[p] \in Building => child[p] # q
    BY <1>2, ProcessFacts DEF Family
  <2> QED  BY <1>1, <1>3, <2>1, ProcessFacts DEF Family
<1>9. Holding'
  BY <1>0, <1>1, <1>2, <1>3, <1>4, ProcessFacts DEF Holding
<1>10. Referred'
  BY <1>1, ProcessFacts DEF Referred, InGrave
<1>11. Dying'
  BY <1>0, <1>1, <1>2, <1>4, ProcessFacts DEF Dying, InGrave
<1>12. Table'
  <2>1. \A p \in Programs \ {q} : context[p].descriptor # i
    BY <1>0, <1>2, ProcessFacts DEF Table
  <2>2. \A r \in Programs : context'[r].descriptor \in {0} \cup (Descriptors \ gdt'.avail)
    BY <1>3, <1>5, <2>1, ProcessFacts DEF Table
  <2>3. \A r, t \in Programs :
          context'[r].descriptor = context'[t].descriptor /\ context'[r].descriptor # 0 => r = t
    BY <1>3, ProcessFacts DEF Table
  <2>4. U!Built' = U!Built \ {q} /\ q \in U!Built /\ IsFiniteSet(U!Built)
    <3>1. U!Built \subseteq Programs
      BY DEF U!Built
    <3> QED  BY <1>0, <1>2, <1>3, <3>1, FS_Subset, ProcessFacts DEF U!Built
  <2>5. Cardinality(U!Built') = Cardinality(U!Built) - 1
    BY <2>4, FS_RemoveElement
  <2>6. Cardinality(gdt'.avail) = Cardinality(gdt.avail) + 1
    <3>1. IsFiniteSet(Descriptors)
      BY FS_Interval, ProcessFacts DEF Descriptors
    <3>2. IsFiniteSet(gdt.avail)
      BY <1>5, <3>1, FS_Subset
    <3> QED  BY <1>1, <1>5, <3>2, FS_AddElement
  <2>7. /\ gdt.numAllocated = Cardinality(U!Built) /\ Cardinality(gdt.avail) = NumDescriptors - gdt.numAllocated
        /\ gdt.numAllocated \in Int
    BY <1>5, ProcessFacts DEF Table
  <2>8. /\ gdt'.numAllocated = Cardinality(U!Built')
        /\ Cardinality(gdt'.avail) = NumDescriptors - gdt'.numAllocated
    BY <1>5, <2>5, <2>6, <2>7, ProcessFacts
  <2> QED  BY <2>2, <2>3, <2>8 DEF Table
<1> QED  BY <1>6, <1>7, <1>8, <1>9, <1>10, <1>11, <1>12 DEF ProcessParts

LEMMA FreeThreadFact ==
  ASSUME ProcessParts, U!FreeThread
  PROVE  ProcessParts'
<1>0. PICK q : q = dying.proc
  OBVIOUS
<1>1. /\ current' = current /\ cpu' = cpu /\ child' = child /\ context' = context
      /\ gdt' = gdt /\ graveyard' = graveyard /\ pages' = pages
      /\ refs' = refs /\ current = Reaper /\ dying.stage = "thread"
      /\ freeFrames' = freeFrames \cup {threadPage[q]} /\ threadPage' = [threadPage EXCEPT ![q] = 0]
      /\ at' = [at EXCEPT ![q] = "none"]
      /\ owner' = [p \in Programs |-> IF q \in {p, owner[p]} THEN None ELSE owner[p]]
      /\ dying' = U!Nobody
  BY <1>0 DEF U!FreeThread, U!Destroys, U!Goto
<1>2. q \in Programs /\ at[q] = "dead" /\ q \notin InGrave
  BY <1>0, <1>1, ProcessFacts DEF Dying, ProcessTypes
<1>3. context[q].descriptor = 0
  BY <1>0, <1>1, <1>2, ProcessFacts DEF Holding
<1>4. /\ at' \in [Programs -> Living \cup {"none", "new", "dead"}]
      /\ at'[q] = "none" /\ \A r \in Programs \ {q} : at'[r] = at[r]
  BY <1>1, <1>2, ProcessFacts DEF ProcessTypes
<1>5. /\ owner' \in [Programs -> Programs \cup {None}]
      /\ \A r \in Programs : owner'[r] # None => owner[r] # None
  BY <1>1, ProcessFacts DEF ProcessTypes
<1>6. /\ dying' \in [proc : Programs \cup {None}, stage : {"none", "pages", "descriptor", "thread"}]
      /\ dying'.proc = None /\ dying'.stage = "none"
  BY <1>1 DEF U!Nobody
<1>7. ProcessTypes'
  BY <1>1, <1>2, <1>4, <1>5, <1>6, ProcessFacts DEF ProcessTypes
<1>8. Loaded'
  BY <1>1, ProcessFacts DEF Loaded
<1>9. Family'
  BY <1>1, <1>2, <1>4, ProcessFacts DEF Family, Building
<1>10. Holding'
  <2>1. \A r \in Programs \ {q} : dying.proc # r
    BY <1>0
  <2> QED  BY <1>1, <1>3, <1>4, <1>6, <2>1, ProcessFacts DEF Holding, Living, Building
<1>11. Referred'
  <2>1. \A r \in InGrave : r \in Programs /\ r # q
    BY <1>2, ProcessFacts DEF InGrave, ProcessTypes
  <2>2. \A r \in InGrave : at'[r] = "dead" /\ refs[r] = 0
    BY <1>4, <2>1, ProcessFacts DEF Referred
  <2>3. \A r \in Programs : at'[r] \in Living \cup {"dead"} => at'[r] = at[r]
    BY <1>4 DEF Living, Building
  <2> QED  BY <1>1, <1>5, <2>2, <2>3, ProcessFacts DEF Referred, InGrave
<1>12. Dying'
  BY <1>6 DEF Dying
<1>13. Table'
  BY <1>1, SameTable
<1> QED  BY <1>7, <1>8, <1>9, <1>10, <1>11, <1>12, <1>13 DEF ProcessParts

LEMMA ProcessInit == U!Init => ProcessInv
<1> SUFFICES ASSUME U!Init PROVE ProcessParts
  BY DEF ProcessInv
<1>1. /\ NumDescriptors \in Nat /\ NumDescriptors # 0 /\ IsFiniteSet(Programs) /\ ProgramShell \in Programs
      /\ Kernel # Reaper /\ Kernel \notin Programs /\ Reaper \notin Programs /\ None \notin Programs
  BY ProgramsAssumption
<1>2. U!Min(Descriptors) = 1 /\ Descriptors \in SUBSET Nat /\ 1 \in Descriptors
  <2>1. Descriptors \in SUBSET Nat /\ 1 \in Descriptors
    BY <1>1 DEF Descriptors
  <2>2. U!Min(Descriptors) \in Descriptors /\ U!Min(Descriptors) <= 1
    BY <2>1, MinFact
  <2> QED  BY <2>1, <2>2 DEF Descriptors
<1>3. gdt = [avail |-> Descriptors \ {1}, numAllocated |-> 0 + 1]
  BY <1>2 DEF U!Init, U!Allocate_Segment_Descriptor, U!Init_GDT, U!Entries, Descriptors
<1>4. gdt.avail = Descriptors \ {1} /\ gdt.numAllocated = 1
  BY <1>3
<1>5. /\ current = Kernel /\ (\A p \in Programs : at[p] = IF p = ProgramShell THEN "user" ELSE "none")
      /\ (\A p \in Programs : child[p] = None)
      /\ (\A p \in Programs : context[p] = IF p = ProgramShell THEN [dir |-> 1, descriptor |-> 1, refCount |-> 1]
                                                              ELSE [dir |-> 0, descriptor |-> 0, refCount |-> 0])
      /\ (\A p \in Programs : owner[p] = None)
      /\ (\A p \in Programs : refs[p] = IF p = ProgramShell THEN 1 ELSE 0)
      /\ graveyard = [queue |-> {}, taken |-> {}]
      /\ dying = [proc |-> None, stage |-> "none"]
      /\ cpu = [space |-> [dir |-> 0, ldt |-> 0], stack |-> None]
  BY DEF U!Init, U!NoContext, U!Nobody, U!KernelDir
<1>6. \A p \in Programs : context[p].descriptor = IF p = ProgramShell THEN 1 ELSE 0
  BY <1>5
<1>7. ProcessTypes
  <2>1. gdt \in [avail : SUBSET Descriptors, numAllocated : Int]
    BY <1>3
  <2> QED  BY <2>1 DEF U!Init, U!NoContext, U!Nobody, U!Frames, ProcessTypes, Living, Building, ContextType
<1>8. Loaded
  <2>1. cpu.space.dir = 0
    BY <1>5
  <2> QED  BY <1>1, <1>5, <2>1 DEF Loaded
<1>9. Family
  BY <1>1, <1>5 DEF Family, Building
<1>10. Holding
  BY <1>5, <1>6 DEF Holding, Living, Building
<1>11. Referred
  BY <1>5 DEF Referred, InGrave, Living, Building
<1>12. Dying
  BY <1>5 DEF Dying
<1>13. Table
  <2>1. U!Built = {ProgramShell}
    BY <1>1, <1>6 DEF U!Built
  <2>2. Cardinality(U!Built) = 1
    BY <2>1, FS_Singleton
  <2>3. Cardinality(Descriptors \ {1}) = NumDescriptors - 1
    <3>1. IsFiniteSet(Descriptors) /\ Cardinality(Descriptors) = NumDescriptors
      BY <1>1, FS_Interval DEF Descriptors
    <3> QED  BY <1>2, <3>1, FS_RemoveElement
  <2> QED  BY <1>1, <1>2, <1>4, <1>6, <2>2, <2>3 DEF Table
<1> QED  BY <1>7, <1>8, <1>9, <1>10, <1>11, <1>12, <1>13 DEF ProcessParts

LEMMA ProcessNext == ProcessInv /\ [U!Next]_processVars => ProcessInv'
<1> SUFFICES ASSUME ProcessInv, [U!Next]_processVars PROVE ProcessInv'
  OBVIOUS
<1>1. CASE UNCHANGED processVars
  <2>1. /\ current' = current /\ cpu' = cpu /\ context' = context /\ threadPage' = threadPage
        /\ at' = at /\ child' = child /\ freeFrames' = freeFrames /\ pages' = pages /\ gdt' = gdt
        /\ dying' = dying /\ refs' = refs /\ owner' = owner /\ graveyard' = graveyard /\ crashed' = crashed
    BY <1>1 DEF processVars
  <2>2. ASSUME ProcessParts PROVE ProcessParts'
    <3>1. ProcessTypes' /\ Loaded' /\ Family' /\ Holding' /\ Referred' /\ Dying'
      BY <2>1, <2>2, ProcessFacts DEF ProcessTypes, Loaded, Family, Holding, Referred, Dying, InGrave
    <3>2. Table'
      BY <2>1, <2>2, SameTable
    <3> QED  BY <3>1, <3>2 DEF ProcessParts
  <2> QED  BY <2>1, <2>2 DEF ProcessInv
<1>2. ASSUME U!Next PROVE ProcessInv'
  <2>1. ProcessParts
    BY <1>2 DEF ProcessInv, U!Next
  <2>2. ASSUME U!Preempt \/ U!Reaping PROVE ProcessInv'
    BY <2>1, <2>2, PreemptFact, TakeGraveyardFact, DetachContextFact, FreeMemoryFact, FreeDescriptorFact,
       FreeThreadFact DEF U!Reaping, ProcessInv
  <2>3. ASSUME NEW p \in Programs, U!Spawning(p) PROVE ProcessInv'
    BY <2>1, <2>3, Sys_SpawnFact, Read_FullyFact, NewDirectoryFact, NewContextFact, Start_User_ThreadFact,
       NameThreadFact DEF U!Spawning, ProcessInv
  <2>4. ASSUME NEW p \in Programs, U!TakePage(p) \/ U!Exit(p) \/ U!Join(p) PROVE ProcessInv'
    BY <2>1, <2>4, TakePageFact, ProcessExitFact, JoinFact DEF ProcessInv
  <2> QED  BY <1>2, <2>2, <2>3, <2>4 DEF U!Next
<1> QED  BY <1>1, <1>2

LEMMA ProcessOwn == ProcessInv => U!RunsOnItsOwn
<1> SUFFICES ASSUME ProcessParts PROVE U!RunsOnItsOwn
  BY DEF ProcessInv, U!RunsOnItsOwn
<1>1. \A S : U!Cardinality(S) = Cardinality(S)
  BY CountFact
<1> QED  BY <1>1, ProcessFacts DEF Loaded, Table, U!RunsOnItsOwn, U!Built, U!KernelDir

-----------------------------------------------------------------------------
(* The keyboard *)

Count == (tail + QUEUE_SIZE - head) % QUEUE_SIZE

KeyboardTypes ==
  /\ head \in 0..(QUEUE_SIZE - 1) /\ tail \in 0..(QUEUE_SIZE - 1)
  /\ keys \in Nat /\ got \in Nat
  /\ ring \in [0..(QUEUE_SIZE - 1) -> [key : {None} \cup ({"raw", "key"} \X K!ScanCodes) \cup {K!Prefix},
                                       flags : SUBSET (Shifts \cup {"shift", "release"}), nr : Nat]]
  /\ keyReader \in [Readers -> {"user", "reading", "waiting"}]
  /\ shiftState \subseteq Shifts \cup {"escape"}

(* The ring holds the key codes put in and not yet read, in order from head.       *)
RingSound ==
  /\ keys = got + Count
  /\ \A i \in 0..(Count - 1) : ring[(head + i) % QUEUE_SIZE].nr = got + 1 + i

SleepersSound ==
  /\ waitQueue = {t \in Readers : keyReader[t] = "waiting"}
  /\ waitQueue # {} => head = tail

KeyboardInv == KeyboardTypes /\ RingSound /\ SleepersSound

LEMMA Around ==
  ASSUME KeyboardAssumption, NEW x \in 0..(QUEUE_SIZE + QUEUE_SIZE - 1)
  PROVE  x % QUEUE_SIZE = IF x < QUEUE_SIZE THEN x ELSE x - QUEUE_SIZE
<1>1. QUEUE_SIZE \in Nat \ {0}
  BY DEF KeyboardAssumption
<1>2. CASE x < QUEUE_SIZE
  BY <1>1, <1>2
<1>3. CASE ~ (x < QUEUE_SIZE)
  BY <1>1, <1>3
<1> QED  BY <1>2, <1>3

LEMMA CountIs ==
  ASSUME KeyboardAssumption, NEW h \in 0..(QUEUE_SIZE - 1), NEW t \in 0..(QUEUE_SIZE - 1)
  PROVE  (t + QUEUE_SIZE - h) % QUEUE_SIZE = IF h =< t THEN t - h ELSE t + QUEUE_SIZE - h
<1>1. QUEUE_SIZE \in Nat \ {0}
  BY DEF KeyboardAssumption
<1>2. t + QUEUE_SIZE - h \in 0..(QUEUE_SIZE + QUEUE_SIZE - 1)
  BY <1>1
<1>3. QED BY <1>1, <1>2, Around

LEMMA KeyboardInit == ASSUME KeyboardAssumption, K!Init PROVE KeyboardInv
<1>1. QUEUE_SIZE \in Nat \ {0}
  BY DEF KeyboardAssumption
<1>2. Count = 0
  BY <1>1, CountIs DEF Count, K!Init
<1>3. K!NoKey \in [key : {None} \cup ({"raw", "key"} \X K!ScanCodes) \cup {K!Prefix},
                   flags : SUBSET (Shifts \cup {"shift", "release"}), nr : Nat]
  BY DEF K!NoKey
<1>4. QED BY <1>1, <1>2, <1>3 DEF KeyboardInv, KeyboardTypes, RingSound, SleepersSound, K!Init

(* A key code goes behind those in the ring, or is dropped.                        *)
LEMMA KeyEnqueued ==
  ASSUME KeyboardAssumption, KeyboardInv, shiftState' \subseteq Shifts \cup {"escape"},
         NEW key \in ({"raw", "key"} \X K!ScanCodes) \cup {K!Prefix}, NEW shift \in BOOLEAN, NEW release \in BOOLEAN,
         K!Queue(key, shift, release, shiftState')
  PROVE  KeyboardInv'
<1> DEFINE code == [key |-> key, nr |-> keys + 1,
                    flags |-> (IF shift THEN {"shift"} ELSE {}) \cup (shiftState' \ {"shift", "escape"})
                               \cup (IF release THEN {"release"} ELSE {})]
<1>1. QUEUE_SIZE \in Nat \ {0} /\ KeyboardTypes /\ RingSound /\ SleepersSound
  BY DEF KeyboardAssumption, KeyboardInv
<1>2. head' = head /\ got' = got /\ waitQueue' = {}
      /\ keyReader' = [t \in Readers |-> IF t \in waitQueue THEN "reading" ELSE keyReader[t]]
  BY DEF K!Queue, K!Wake_Up
<1>3. SleepersSound'
  BY <1>1, <1>2 DEF SleepersSound
<1>4. keyReader' \in [Readers -> {"user", "reading", "waiting"}]
  BY <1>1, <1>2 DEF KeyboardTypes
<1>5. CASE K!Is_Queue_Full
  <2>1. ring' = ring /\ tail' = tail /\ keys' = keys
    BY <1>5 DEF K!Queue, K!Enqueue_Keycode
  <2>2. Count' = Count
    BY <1>2, <2>1 DEF Count
  <2>3. KeyboardTypes'
    BY <1>1, <1>2, <1>4, <2>1 DEF KeyboardTypes
  <2>4. RingSound'
    BY <1>1, <1>2, <2>1, <2>2 DEF RingSound
  <2>5. QED BY <1>3, <2>3, <2>4 DEF KeyboardInv
<1>6. CASE ~ K!Is_Queue_Full
  <2>1. ring' = [ring EXCEPT ![tail] = code] /\ tail' = (tail + 1) % QUEUE_SIZE /\ keys' = keys + 1
    BY <1>6 DEF K!Queue, K!Enqueue_Keycode, K!NEXT
  <2>2. head \in 0..(QUEUE_SIZE - 1) /\ tail \in 0..(QUEUE_SIZE - 1)
    BY <1>1 DEF KeyboardTypes
  <2>3. tail' = (IF tail + 1 < QUEUE_SIZE THEN tail + 1 ELSE 0) /\ tail' # head
    BY <1>1, <1>6, <2>1, <2>2, Around DEF K!Is_Queue_Full, K!NEXT
  <2>4. tail' \in 0..(QUEUE_SIZE - 1)
    BY <1>1, <2>2, <2>3
  <2>5. Count = (IF head =< tail THEN tail - head ELSE tail + QUEUE_SIZE - head)
    BY <2>2, CountIs DEF Count
  <2>6. Count' = (IF head =< tail' THEN tail' - head ELSE tail' + QUEUE_SIZE - head)
    BY <1>2, <2>2, <2>4, CountIs DEF Count
  <2>7. Count' = Count + 1 /\ Count \in 0..(QUEUE_SIZE - 1)
    BY <1>1, <2>2, <2>3, <2>5, <2>6
  <2>8. (head + Count) % QUEUE_SIZE = tail
    BY <1>1, <2>2, <2>5, Around
  <2>9. ASSUME NEW i \in 0..(Count - 1)
        PROVE  (head + i) % QUEUE_SIZE # tail /\ (head + i) % QUEUE_SIZE \in 0..(QUEUE_SIZE - 1)
    <3>1. i \in Nat /\ i < Count /\ head + i \in 0..(QUEUE_SIZE + QUEUE_SIZE - 1)
      BY <1>1, <2>2, <2>7
    <3>2. PICK x \in 0..(QUEUE_SIZE + QUEUE_SIZE - 1) : x = head + i
      BY <3>1
    <3>3. x % QUEUE_SIZE = IF x < QUEUE_SIZE THEN x ELSE x - QUEUE_SIZE
      BY Around
    <3>4. QED BY <1>1, <2>2, <2>5, <3>1, <3>2, <3>3
  <2>10. code.flags \subseteq Shifts \cup {"shift", "release"}
    OBVIOUS
  <2>11. code.nr = keys + 1 /\ keys + 1 \in Nat
    BY <1>1 DEF KeyboardTypes
  <2>12. code \in [key : {None} \cup ({"raw", "key"} \X K!ScanCodes) \cup {K!Prefix},
                   flags : SUBSET (Shifts \cup {"shift", "release"}), nr : Nat]
    BY <2>10, <2>11
  <2> HIDE DEF code
  <2>13. KeyboardTypes'
    BY <1>1, <1>2, <1>4, <2>1, <2>4, <2>11, <2>12 DEF KeyboardTypes
  <2>14. keys' = got' + Count'
    BY <1>1, <1>2, <2>1, <2>7 DEF RingSound, KeyboardTypes
  <2>15. ASSUME NEW i \in 0..(Count' - 1) PROVE ring'[(head' + i) % QUEUE_SIZE].nr = got' + 1 + i
    <3>1. CASE i = Count
      BY <1>1, <1>2, <2>1, <2>2, <2>7, <2>8, <2>11, <3>1 DEF RingSound, KeyboardTypes
    <3>2. CASE i # Count
      <4>1. i \in 0..(Count - 1)
        BY <2>7, <3>2
      <4>2. ring'[(head + i) % QUEUE_SIZE] = ring[(head + i) % QUEUE_SIZE]
        BY <1>1, <2>1, <2>9, <4>1 DEF KeyboardTypes
      <4>3. QED BY <1>1, <1>2, <4>1, <4>2 DEF RingSound
    <3>3. QED BY <3>1, <3>2
  <2>16. RingSound'
    BY <2>14, <2>15 DEF RingSound
  <2>17. QED BY <1>3, <2>13, <2>16 DEF KeyboardInv
<1>7. QED BY <1>5, <1>6

(* The oldest key code is taken, by a reader that does not sleep.                  *)
LEMMA KeyDequeued ==
  ASSUME KeyboardAssumption, KeyboardInv, ~ K!Is_Queue_Empty, K!Dequeue_Keycode,
         NEW t \in Readers, keyReader[t] # "waiting",
         keyReader' = [keyReader EXCEPT ![t] = "user"], UNCHANGED <<shiftState, ring, tail, keys, waitQueue>>
  PROVE  KeyboardInv'
<1>1. QUEUE_SIZE \in Nat \ {0} /\ KeyboardTypes /\ RingSound /\ SleepersSound
  BY DEF KeyboardAssumption, KeyboardInv
<1>2. head \in 0..(QUEUE_SIZE - 1) /\ tail \in 0..(QUEUE_SIZE - 1) /\ head # tail /\ got \in Nat
  BY <1>1 DEF KeyboardTypes, K!Is_Queue_Empty
<1>3. tail' = tail /\ got' = ring[head].nr
      /\ head' = IF head + 1 < QUEUE_SIZE THEN head + 1 ELSE 0
  BY <1>1, <1>2, Around DEF K!Dequeue_Keycode, K!NEXT
<1>4. head' \in 0..(QUEUE_SIZE - 1)
  BY <1>1, <1>2, <1>3
<1>5. Count = (IF head =< tail THEN tail - head ELSE tail + QUEUE_SIZE - head)
  BY <1>2, CountIs DEF Count
<1>6. Count' = (IF head' =< tail THEN tail - head' ELSE tail + QUEUE_SIZE - head')
  BY <1>2, <1>3, <1>4, CountIs DEF Count
<1>7. Count' = Count - 1 /\ Count \in 1..(QUEUE_SIZE - 1)
  BY <1>1, <1>2, <1>3, <1>5, <1>6
<1>8. got' = got + 1
  <2>1. head % QUEUE_SIZE = head /\ head + 0 = head
    BY <1>1, <1>2, Around
  <2>2. ring[(head + 0) % QUEUE_SIZE].nr = got + 1 + 0
    BY <1>1, <1>7 DEF RingSound
  <2>3. QED BY <1>2, <1>3, <2>1, <2>2
<1>9. ASSUME NEW i \in 0..(Count' - 1)
      PROVE  (head' + i) % QUEUE_SIZE = (head + (i + 1)) % QUEUE_SIZE /\ i + 1 \in 0..(Count - 1)
  BY <1>1, <1>2, <1>3, <1>7, Around
<1>10. RingSound'
  <2>1. keys' = got' + Count'
    BY <1>1, <1>2, <1>7, <1>8 DEF RingSound
  <2>2. ASSUME NEW i \in 0..(Count' - 1) PROVE ring'[(head' + i) % QUEUE_SIZE].nr = got' + 1 + i
    <3>1. ring[(head + (i + 1)) % QUEUE_SIZE].nr = got + 1 + (i + 1)
      BY <1>1, <1>9 DEF RingSound
    <3>2. QED BY <1>2, <1>7, <1>8, <1>9, <3>1
  <2>3. QED BY <2>1, <2>2 DEF RingSound
<1>11. KeyboardTypes'
  BY <1>1, <1>2, <1>3, <1>4, <1>8 DEF KeyboardTypes
<1>12. waitQueue = {} /\ SleepersSound'
  BY <1>1, <1>2 DEF SleepersSound, KeyboardTypes
<1>13. QED BY <1>10, <1>11, <1>12 DEF KeyboardInv

LEMMA KeyboardNext ==
  ASSUME KeyboardAssumption, KeyboardInv, [K!Next]_(K!vars) PROVE KeyboardInv'
<1>0. KeyboardTypes /\ SleepersSound /\ RingSound
  BY DEF KeyboardInv
<1>1. CASE UNCHANGED K!vars
  BY <1>1 DEF K!vars, KeyboardInv, KeyboardTypes, RingSound, SleepersSound, Count
<1>2. CASE K!PrefixInterrupt
  <2>1. PICK shift \in BOOLEAN : K!Queue(K!Prefix, shift, FALSE, shiftState')
    BY <1>2 DEF K!PrefixInterrupt
  <2>2. shiftState' \subseteq Shifts \cup {"escape"}
    BY <1>0, <1>2 DEF K!PrefixInterrupt, KeyboardTypes
  <2>3. QED BY <2>1, <2>2, KeyEnqueued
<1>3. CASE K!UnknownInterrupt
  BY <1>1, <1>3 DEF K!UnknownInterrupt
<1>4. ASSUME NEW code \in K!ScanCodes, NEW release \in BOOLEAN, K!KeyInterrupt(code, release)
      PROVE  KeyboardInv'
  <2>1. PICK key \in {<<"raw", code>>, <<"key", code>>} :
          K!Queue(key, "shift" \in shiftState, release, shiftState')
    BY <1>4 DEF K!KeyInterrupt
  <2>2. shiftState' \subseteq Shifts \cup {"escape"}
    BY <1>0, <1>4 DEF K!KeyInterrupt, KeyboardTypes
  <2>3. key \in ({"raw", "key"} \X K!ScanCodes) \cup {K!Prefix} /\ ("shift" \in shiftState) \in BOOLEAN
    OBVIOUS
  <2>4. QED BY <2>1, <2>2, <2>3, KeyEnqueued
<1>5. ASSUME NEW code \in K!ScanCodes, NEW release \in BOOLEAN, K!ShiftInterrupt(code, release)
      PROVE  KeyboardInv'
  <2>1. KeyboardTypes'
    BY <1>0, <1>5 DEF K!ShiftInterrupt, KeyboardTypes
  <2>2. RingSound' /\ SleepersSound'
    BY <1>0, <1>5 DEF K!ShiftInterrupt, RingSound, SleepersSound, Count
  <2>3. QED BY <2>1, <2>2 DEF KeyboardInv
<1>6. ASSUME NEW t \in Readers, K!CallWait(t) PROVE KeyboardInv'
  <2>1. KeyboardTypes'
    BY <1>0, <1>6 DEF K!CallWait, KeyboardTypes
  <2>2. RingSound'
    BY <1>0, <1>6 DEF K!CallWait, RingSound, Count
  <2>3. SleepersSound'
    BY <1>0, <1>6 DEF K!CallWait, SleepersSound, KeyboardTypes
  <2>4. QED BY <2>1, <2>2, <2>3 DEF KeyboardInv
<1>7. ASSUME NEW t \in Readers, K!TakeKey(t) PROVE KeyboardInv'
  BY <1>7, KeyDequeued DEF K!TakeKey
<1>8. ASSUME NEW t \in Readers, K!Sleep(t) PROVE KeyboardInv'
  <2>1. KeyboardTypes'
    BY <1>0, <1>8 DEF K!Sleep, KeyboardTypes
  <2>2. RingSound'
    BY <1>0, <1>8 DEF K!Sleep, RingSound, Count
  <2>3. SleepersSound'
    BY <1>0, <1>8 DEF K!Sleep, SleepersSound, KeyboardTypes, K!Is_Queue_Empty
  <2>4. QED BY <2>1, <2>2, <2>3 DEF KeyboardInv
<1>9. ASSUME NEW t \in Readers, K!Read_Key(t) PROVE KeyboardInv'
  <2>1. keyReader' = [keyReader EXCEPT ![t] = "user"]
    BY <1>0, <1>9 DEF K!Read_Key, KeyboardTypes
  <2>2. QED BY <1>9, <2>1, KeyDequeued DEF K!Read_Key
<1>10. QED
  BY <1>1, <1>2, <1>3, <1>4, <1>5, <1>6, <1>7, <1>8, <1>9
     DEF K!Next, K!Keyboard_Interrupt_Handler, K!Wait_For_Key

LEMMA KeysInOrder == ASSUME KeyboardAssumption, KeyboardInv PROVE K!KeysReachReaders
<1>1. QUEUE_SIZE \in Nat \ {0} /\ KeyboardTypes /\ RingSound /\ SleepersSound
  BY DEF KeyboardAssumption, KeyboardInv
<1>2. Count \in Nat /\ keys - got = Count
  <2>1. Count \in Nat
    BY <1>1, CountIs DEF Count, KeyboardTypes
  <2>2. QED BY <1>1, <2>1 DEF RingSound, KeyboardTypes
<1>3. ASSUME NEW i \in 1..Count PROVE ring[(head + i - 1) % QUEUE_SIZE].nr = got + i
  <2>1. ring[(head + (i - 1)) % QUEUE_SIZE].nr = got + 1 + (i - 1)
    BY <1>1, <1>2 DEF RingSound
  <2>2. head + (i - 1) = head + i - 1 /\ got + 1 + (i - 1) = got + i
    BY <1>1 DEF KeyboardTypes
  <2>3. QED BY <2>1, <2>2
<1>4. K!Pending = [i \in 1..(keys - got) |-> got + i]
  BY <1>2, <1>3 DEF K!Pending, Count
<1>5. QED BY <1>1, <1>4 DEF K!KeysReachReaders, SleepersSound, K!Is_Queue_Empty

-----------------------------------------------------------------------------
(* The line that is typed *)

Chars == Letters \cup {Nul, Junk}

(* How far behind the first command of the ring i is.                             *)
Ahead(h, i) == (i - h.front) % HISTORY_SIZE

(* The commands are those from front to rear, and the cursor is at one of them or *)
(* at rear, where there is none.                                                *)
HistorySound(h) ==
  /\ h \in [list : [L!Ring -> Seq(Chars)], front : L!Ring, rear : L!Ring, cursor : L!Ring]
  /\ \A i \in L!Ring : Len(h.list[i]) <= BufSize
  /\ h.list[h.rear] = <<>>
  /\ Ahead(h, h.cursor) <= Ahead(h, h.rear)

CommandsOf(h) == [i \in 1..Ahead(h, h.rear) |-> h.list[(h.front + i - 1) % HISTORY_SIZE]]

LineInv ==
  /\ lineBuf \in [0..BufSize -> Chars] /\ lineLen \in 0..BufSize /\ lineCol \in Int
  /\ slipped \in BOOLEAN
  /\ ~slipped => lineCol \in Boundary..(Boundary + lineLen)
  /\ HistorySound(history)

LEMMA LineNumbers == LineAssumption => HISTORY_SIZE \in Nat \ {0} /\ BufSize \in Nat /\ Boundary \in Nat
                                       /\ L!Ring = 0..(HISTORY_SIZE - 1) /\ 0 \in L!Ring
  BY DEF LineAssumption, L!Ring

LEMMA RingAround ==
  ASSUME LineAssumption, NEW x \in 0..(HISTORY_SIZE + HISTORY_SIZE - 1)
  PROVE  x % HISTORY_SIZE = IF x < HISTORY_SIZE THEN x ELSE x - HISTORY_SIZE
<1>1. CASE x < HISTORY_SIZE
  BY <1>1, LineNumbers
<1>2. CASE ~ (x < HISTORY_SIZE)
  BY <1>2, LineNumbers
<1> QED BY <1>1, <1>2

LEMMA RingBefore ==
  ASSUME LineAssumption, NEW x \in (-HISTORY_SIZE)..(-1)
  PROVE  x % HISTORY_SIZE = x + HISTORY_SIZE
  BY LineNumbers

(* How far ahead, and where that is.                                             *)
LEMMA AheadIs ==
  ASSUME LineAssumption, NEW h, h.front \in L!Ring, NEW i \in L!Ring
  PROVE  /\ Ahead(h, i) = IF h.front <= i THEN i - h.front ELSE i - h.front + HISTORY_SIZE
         /\ Ahead(h, i) \in L!Ring
<1>1. PICK f \in L!Ring : f = h.front
  OBVIOUS
<1>2. PICK d : d = i - f
  OBVIOUS
<1>5. Ahead(h, i) = d % HISTORY_SIZE
  BY <1>1, <1>2 DEF Ahead
<1>3. CASE f <= i
  <2>1. d \in 0..(HISTORY_SIZE + HISTORY_SIZE - 1) /\ d < HISTORY_SIZE
    BY <1>2, <1>3, LineNumbers
  <2>2. d % HISTORY_SIZE = d
    BY <2>1, RingAround
  <2>3. Ahead(h, i) = i - f /\ Ahead(h, i) \in L!Ring
    BY <1>2, <1>5, <2>1, <2>2, LineNumbers
  <2> QED BY <1>1, <1>3, <2>3
<1>4. CASE ~ (f <= i)
  <2>1. d \in (-HISTORY_SIZE)..(-1)
    BY <1>2, <1>4, LineNumbers
  <2>2. d % HISTORY_SIZE = d + HISTORY_SIZE
    BY <2>1, RingBefore
  <2>3. Ahead(h, i) = d + HISTORY_SIZE
    BY <1>5, <2>2
  <2>4. d + HISTORY_SIZE \in L!Ring /\ d + HISTORY_SIZE = i - f + HISTORY_SIZE
    BY <1>2, <2>1, LineNumbers
  <2> QED BY <1>1, <1>4, <2>3, <2>4
<1> QED BY <1>3, <1>4

(* The place k commands behind the first.                                        *)
At(h, k) == IF h.front + k < HISTORY_SIZE THEN h.front + k ELSE h.front + k - HISTORY_SIZE

LEMMA AtIs ==
  ASSUME LineAssumption, NEW h, h.front \in L!Ring, NEW k \in L!Ring
  PROVE  /\ (h.front + k) % HISTORY_SIZE = At(h, k)
         /\ At(h, k) \in L!Ring /\ Ahead(h, At(h, k)) = k
         /\ At(h, 0) = h.front
<1>1. PICK f \in L!Ring : f = h.front
  OBVIOUS
<1>2. PICK s \in 0..(HISTORY_SIZE + HISTORY_SIZE - 1) : s = f + k
  BY LineNumbers
<1>3. s % HISTORY_SIZE = IF s < HISTORY_SIZE THEN s ELSE s - HISTORY_SIZE
  BY RingAround
<1>4. At(h, k) \in L!Ring
  BY <1>1, LineNumbers DEF At
<1>5. Ahead(h, At(h, k)) = k
  BY <1>1, <1>4, AheadIs, LineNumbers DEF At
<1>6. At(h, k) = IF s < HISTORY_SIZE THEN s ELSE s - HISTORY_SIZE
  <2>1. At(h, k) = IF f + k < HISTORY_SIZE THEN f + k ELSE f + k - HISTORY_SIZE
    BY <1>1 DEF At
  <2> QED BY <1>2, <2>1, LineNumbers
<1>8. (h.front + k) % HISTORY_SIZE = s % HISTORY_SIZE
  BY <1>1, <1>2
<1>7. At(h, 0) = f
  BY <1>1, LineNumbers DEF At
<1> QED BY <1>1, <1>3, <1>4, <1>5, <1>6, <1>7, <1>8

LEMMA AtAhead ==
  ASSUME LineAssumption, NEW h, h.front \in L!Ring, NEW i \in L!Ring
  PROVE  At(h, Ahead(h, i)) = i
  BY AheadIs, LineNumbers DEF At

LEMMA CommandsAre ==
  ASSUME LineAssumption, NEW h, HistorySound(h)
  PROVE  /\ Ahead(h, h.rear) \in L!Ring /\ CommandsOf(h) \in Seq(Seq(Chars)) /\ Len(CommandsOf(h)) = Ahead(h, h.rear)
         /\ \A i \in 1..Ahead(h, h.rear) : CommandsOf(h)[i] = h.list[At(h, i - 1)]
<1>1. /\ h.front \in L!Ring /\ h.rear \in L!Ring /\ h.list \in [L!Ring -> Seq(Chars)]
  BY DEF HistorySound
<1>2. Ahead(h, h.rear) \in L!Ring
  BY <1>1, AheadIs
<1>3. ASSUME NEW i \in 1..Ahead(h, h.rear)
      PROVE  /\ i - 1 \in L!Ring /\ (h.front + i - 1) % HISTORY_SIZE = At(h, i - 1)
             /\ At(h, i - 1) \in L!Ring
  <2>1. i - 1 \in L!Ring /\ h.front + i - 1 = h.front + (i - 1)
    BY <1>1, <1>2, LineNumbers
  <2> QED BY <1>1, <2>1, AtIs
<1>4. \A i \in 1..Ahead(h, h.rear) : CommandsOf(h)[i] = h.list[At(h, i - 1)]
  BY <1>3 DEF CommandsOf
<1>5. \A i \in 1..Ahead(h, h.rear) : h.list[(h.front + i - 1) % HISTORY_SIZE] \in Seq(Chars)
  BY <1>1, <1>3
<1>6. Ahead(h, h.rear) \in Nat
  BY <1>2, LineNumbers
<1>7. CommandsOf(h) \in [1..Ahead(h, h.rear) -> Seq(Chars)]
  BY <1>5 DEF CommandsOf
<1> QED BY <1>2, <1>4, <1>6, <1>7

Following(i) == IF i + 1 < HISTORY_SIZE THEN i + 1 ELSE 0

LEMMA FollowingIs ==
  ASSUME LineAssumption, NEW i \in L!Ring
  PROVE  (i + 1) % HISTORY_SIZE = Following(i) /\ Following(i) \in L!Ring
<1>1. i + 1 \in 0..(HISTORY_SIZE + HISTORY_SIZE - 1)
  BY LineNumbers
<1>2. PICK x \in 0..(HISTORY_SIZE + HISTORY_SIZE - 1) : x = i + 1
  BY <1>1
<1>3. x % HISTORY_SIZE = IF x < HISTORY_SIZE THEN x ELSE x - HISTORY_SIZE
  BY RingAround
<1> QED BY <1>2, <1>3, LineNumbers DEF Following

(* Add_History_Item leaves a ring behind, with the command as the last of it; if   *)
(* it was full, the first is forgotten (history.c:46).                          *)
LEMMA Added ==
  ASSUME LineAssumption, NEW h, HistorySound(h), NEW command \in Seq(Chars), Len(command) <= BufSize,
         NEW g, g = L!Add_History_Item(h, command)
  PROVE  /\ HistorySound(g)
         /\ CommandsOf(g) = LET all == Append(CommandsOf(h), command)
                            IN IF Len(all) = HISTORY_SIZE THEN Tail(all) ELSE all
<1>1. /\ h.front \in L!Ring /\ h.rear \in L!Ring /\ h.cursor \in L!Ring
      /\ h.list \in [L!Ring -> Seq(Chars)] /\ \A i \in L!Ring : Len(h.list[i]) <= BufSize
  BY DEF HistorySound
<1>2. PICK f \in L!Ring, r \in L!Ring : f = h.front /\ r = h.rear
  BY <1>1
<1>3. PICK r2 \in L!Ring : r2 = Following(r)
  BY FollowingIs
<1>4. PICK f2 \in L!Ring : f2 = IF r2 = f THEN Following(f) ELSE f
  BY FollowingIs
<1>5. PICK list : list = [h.list EXCEPT ![r] = command, ![r2] = <<>>]
  OBVIOUS
<1>6. g = [list |-> list, front |-> f2, rear |-> r2, cursor |-> r2]
  BY <1>2, <1>3, <1>4, <1>5, FollowingIs DEF L!Add_History_Item
<1>7. g.list = list /\ g.front = f2 /\ g.rear = r2 /\ g.cursor = r2
  BY <1>6
<1>8. <<>> \in Seq(Chars) /\ Len(<<>>) = 0
  OBVIOUS
<1>9. /\ list \in [L!Ring -> Seq(Chars)] /\ list[r2] = <<>>
      /\ r # r2 => list[r] = command
      /\ \A i \in L!Ring : i # r /\ i # r2 => list[i] = h.list[i]
  BY <1>1, <1>5, <1>8
<1>10. \A i \in L!Ring : Len(list[i]) <= BufSize
  <2>1. ASSUME NEW i \in L!Ring PROVE Len(list[i]) <= BufSize
    <3>1. CASE i = r2
      BY <1>8, <1>9, <3>1, LineNumbers
    <3>2. CASE i = r /\ r # r2
      BY <1>9, <3>2
    <3>3. CASE i # r /\ i # r2
      BY <1>1, <1>9, <3>3
    <3> QED BY <3>1, <3>2, <3>3
  <2> QED BY <2>1
<1>11. HistorySound(g)
  <2>1. Ahead(g, g.rear) \in L!Ring
    BY <1>7, AheadIs
  <2>2. Ahead(g, g.cursor) <= Ahead(g, g.rear)
    BY <1>7, <2>1, LineNumbers
  <2> QED BY <1>6, <1>7, <1>9, <1>10, <2>2 DEF HistorySound
<1>12. PICK d \in L!Ring : d = Ahead(h, r) /\ d = (IF f <= r THEN r - f ELSE r - f + HISTORY_SIZE)
  BY <1>1, <1>2, AheadIs
<1>13. PICK d2 \in L!Ring : d2 = Ahead(g, r2) /\ d2 = (IF f2 <= r2 THEN r2 - f2 ELSE r2 - f2 + HISTORY_SIZE)
  BY <1>7, AheadIs
<1>14. PICK all : all = Append(CommandsOf(h), command)
  OBVIOUS
<1>15. /\ CommandsOf(h) \in Seq(Seq(Chars)) /\ Len(CommandsOf(h)) = d
       /\ \A i \in 1..d : CommandsOf(h)[i] = h.list[At(h, i - 1)]
  BY <1>2, <1>12, CommandsAre
<1>16. /\ all \in Seq(Seq(Chars)) /\ Len(all) = d + 1 /\ all[d + 1] = command
       /\ \A i \in 1..d : all[i] = h.list[At(h, i - 1)]
  BY <1>14, <1>15
<1>17. /\ CommandsOf(g) \in Seq(Seq(Chars)) /\ Len(CommandsOf(g)) = d2
       /\ \A i \in 1..d2 : CommandsOf(g)[i] = list[At(g, i - 1)]
  BY <1>7, <1>11, <1>13, CommandsAre
<1>18. d \in Nat /\ d2 \in Nat /\ d < HISTORY_SIZE /\ d2 < HISTORY_SIZE
  BY LineNumbers
<1>19. CASE r2 = f
  <2>1. d = HISTORY_SIZE - 1 /\ d2 = HISTORY_SIZE - 1
    BY <1>3, <1>4, <1>12, <1>13, <1>19, LineNumbers, SMTT(40) DEF Following
  <2>2. Tail(all) \in Seq(Seq(Chars)) /\ Len(Tail(all)) = d /\ \A i \in 1..d : Tail(all)[i] = all[i + 1]
    BY <1>16, <1>18
  <2>3. ASSUME NEW i \in 1..d PROVE list[At(g, i - 1)] = all[i + 1]
    <3>1. i - 1 \in L!Ring /\ i \in L!Ring /\ i # 0 /\ d # 0
      BY <1>18, <2>1, LineNumbers, SMTT(40)
    <3>2. r # r2
      BY <1>12, <1>19, <3>1, LineNumbers
    <3>3. At(g, i - 1) = At(h, i)
      <4>1. At(g, i - 1) = IF f2 + (i - 1) < HISTORY_SIZE THEN f2 + (i - 1) ELSE f2 + (i - 1) - HISTORY_SIZE
        BY <1>7 DEF At
      <4>2. At(h, i) = IF f + i < HISTORY_SIZE THEN f + i ELSE f + i - HISTORY_SIZE
        BY <1>2 DEF At
      <4>3. f2 = IF f + 1 < HISTORY_SIZE THEN f + 1 ELSE 0
        BY <1>4, <1>19 DEF Following
      <4>4. f \in 0..(HISTORY_SIZE - 1) /\ i \in 1..(HISTORY_SIZE - 1) /\ HISTORY_SIZE \in Nat
        BY <2>1, <3>1, LineNumbers
      <4>5. CASE f + 1 < HISTORY_SIZE
        <5>1. f2 + (i - 1) = f + i
          BY <4>3, <4>4, <4>5
        <5> QED BY <4>1, <4>2, <4>4, <5>1
      <4>6. CASE ~ (f + 1 < HISTORY_SIZE)
        <5>1. f2 = 0 /\ f = HISTORY_SIZE - 1
          BY <4>3, <4>4, <4>6
        <5> QED BY <4>1, <4>2, <4>4, <5>1
      <4> QED BY <4>5, <4>6
    <3>4. At(h, i) \in L!Ring /\ Ahead(h, At(h, i)) = i /\ Ahead(h, f) = 0
      <4>1. Ahead(h, At(h, 0)) = 0 /\ At(h, 0) = f
        BY <1>1, <1>2, AtIs, LineNumbers
      <4> QED BY <1>1, <3>1, <4>1, AtIs
    <3>5. At(h, i) # r2
      BY <1>19, <3>1, <3>4
    <3>6. CASE i = d
      <4>1. At(h, i) = r
        BY <1>1, <1>2, <1>12, <3>6, AtAhead
      <4> QED BY <1>9, <1>16, <3>2, <3>3, <3>6, <4>1
    <3>7. CASE i # d
      <4>1. At(h, i) # r
        BY <1>12, <3>4, <3>7
      <4>2. i + 1 \in 1..d /\ (i + 1) - 1 = i
        BY <1>18, <3>7
      <4>3. all[i + 1] = h.list[At(h, i)]
        BY <1>16, <4>2
      <4> QED BY <1>9, <3>3, <3>4, <3>5, <4>1, <4>3
    <3> QED BY <3>6, <3>7
  <2>4. CommandsOf(g) = Tail(all)
    <3>1. PICK u \in Seq(Seq(Chars)) : u = CommandsOf(g)
      BY <1>17
    <3>2. PICK t \in Seq(Seq(Chars)) : t = Tail(all)
      BY <2>2
    <3>3. Len(u) = Len(t) /\ \A i \in 1..Len(u) : u[i] = t[i]
      <4>1. Len(u) = d /\ Len(t) = d /\ d2 = d
        BY <1>17, <2>1, <2>2, <3>1, <3>2
      <4>2. ASSUME NEW i \in 1..d PROVE u[i] = t[i]
        <5>1. u[i] = list[At(g, i - 1)]
          BY <1>17, <3>1, <4>1
        <5>2. t[i] = all[i + 1]
          BY <2>2, <3>2
        <5> QED BY <2>3, <5>1, <5>2
      <4> QED BY <4>1, <4>2
    <3> QED BY <3>1, <3>2, <3>3, SeqEqual
  <2> QED BY <1>11, <1>14, <1>16, <1>18, <2>1, <2>4
<1>20. CASE r2 # f
  <2>1. d2 = d + 1 /\ f2 = f
    BY <1>3, <1>4, <1>12, <1>13, <1>20, LineNumbers, SMTT(40) DEF Following
  <2>2. r # r2
    BY <1>3, <1>18, <2>1, <1>12, <1>13, LineNumbers DEF Following
  <2>3. ASSUME NEW i \in 1..d2 PROVE list[At(g, i - 1)] = all[i]
    <3>1. i - 1 \in L!Ring /\ At(g, i - 1) = At(h, i - 1)
      BY <1>2, <1>7, <1>18, <2>1, LineNumbers DEF At
    <3>2. At(g, i - 1) \in L!Ring /\ Ahead(g, At(g, i - 1)) = i - 1 /\ Ahead(h, At(h, i - 1)) = i - 1
      BY <1>1, <1>7, <3>1, AtIs
    <3>3. At(g, i - 1) # r2
      <4>1. i - 1 # d2
        BY <1>18
      <4> QED BY <1>13, <3>2, <4>1
    <3>4. CASE i = d2
      <4>1. At(h, i - 1) = r
        <5>1. i - 1 = d
          BY <1>18, <2>1, <3>4
        <5> QED BY <1>1, <1>2, <1>12, <5>1, AtAhead
      <4> QED BY <1>9, <1>16, <2>1, <2>2, <3>1, <3>4, <4>1
    <3>5. CASE i # d2
      <4>1. At(h, i - 1) # r
        <5>1. i - 1 # d
          BY <1>18, <2>1, <3>5
        <5> QED BY <1>12, <3>2, <5>1
      <4>2. i \in 1..d
        BY <1>18, <2>1, <3>5
      <4> QED BY <1>9, <1>16, <3>1, <3>2, <3>3, <4>1, <4>2
    <3> QED BY <3>4, <3>5
  <2>4. CommandsOf(g) = all
    <3>1. PICK u \in Seq(Seq(Chars)) : u = CommandsOf(g)
      BY <1>17
    <3>2. PICK t \in Seq(Seq(Chars)) : t = all
      BY <1>16
    <3>3. Len(u) = Len(t) /\ \A i \in 1..Len(u) : u[i] = t[i]
      BY <1>16, <1>17, <2>1, <2>3, <3>1, <3>2
    <3> QED BY <3>1, <3>2, <3>3, SeqEqual
  <2> QED BY <1>11, <1>14, <1>16, <1>18, <2>1, <2>4
<1> QED BY <1>19, <1>20

-----------------------------------------------------------------------------
(* What is in the array *)

(* The first len characters of the array, as a sequence.                          *)
TextOf(text, len) == [i \in 1..len |-> text[i - 1]]

LEMMA TextIs ==
  ASSUME LineAssumption, NEW text \in [0..BufSize -> Chars], NEW len \in 0..BufSize
  PROVE  /\ TextOf(text, len) \in Seq(Chars) /\ Len(TextOf(text, len)) = len
         /\ \A i \in 1..len : TextOf(text, len)[i] = text[i - 1]
<1>1. len \in Nat /\ \A i \in 1..len : i - 1 \in 0..BufSize
  BY LineNumbers
<1>2. TextOf(text, len) \in [1..len -> Chars]
  BY <1>1 DEF TextOf
<1>3. \A i \in 1..len : TextOf(text, len)[i] = text[i - 1]
  BY DEF TextOf
<1> QED BY <1>1, <1>2, <1>3

(* Two texts are the same if they have the same characters.                       *)
LEMMA SameText ==
  ASSUME LineAssumption, NEW text \in [0..BufSize -> Chars], NEW len \in 0..BufSize,
         NEW s \in Seq(Chars), Len(s) = len, \A i \in 1..len : text[i - 1] = s[i]
  PROVE  TextOf(text, len) = s
<1>1. PICK t \in Seq(Chars) : /\ t = TextOf(text, len) /\ Len(t) = len
                              /\ \A i \in 1..len : t[i] = text[i - 1]
  BY TextIs, LineNumbers
<1>2. \A i \in 1..Len(t) : t[i] = s[i]
  BY <1>1
<1> QED BY <1>1, <1>2, SeqEqual

(* A line and a place in it.                                                     *)
InLine(text, len, place) ==
  /\ text \in [0..BufSize -> Chars] /\ len \in 0..BufSize /\ place \in 0..len

(* The characters of s are the len characters of text from the place from on.      *)
Stretch(text, from, len, s) ==
  s \in Seq(Chars) /\ Len(s) = len /\ \A i \in 1..len : s[i] = text[from + i - 1]

(* The text before the place, and behind it.                                      *)
LEMMA LineCut ==
  ASSUME LineAssumption, NEW text, NEW len, NEW place, InLine(text, len, place)
  PROVE  /\ Stretch(text, 0, place, SubSeq(TextOf(text, len), 1, place))
         /\ Stretch(text, place, len - place, SubSeq(TextOf(text, len), place + 1, len))
<1>1. text \in [0..BufSize -> Chars] /\ len \in 0..BufSize /\ place \in 0..len
  BY DEF InLine
<1>2. PICK s : s = TextOf(text, len)
  OBVIOUS
<1>3. s \in Seq(Chars) /\ Len(s) = len /\ \A i \in 1..len : s[i] = text[i - 1]
  BY <1>1, <1>2, TextIs, LineNumbers
<1>4. PICK before : before = SubSeq(s, 1, place)
  OBVIOUS
<1>5. PICK behind : behind = SubSeq(s, place + 1, len)
  OBVIOUS
<1>6. len \in Nat /\ place \in Nat /\ place <= len
  BY <1>1, LineNumbers
<1>7. before \in Seq(Chars) /\ Len(before) = place /\ \A i \in 1..place : before[i] = s[i]
  BY <1>3, <1>4, <1>6
<1>8. behind \in Seq(Chars) /\ Len(behind) = len - place /\ \A i \in 1..(len - place) : behind[i] = s[place + i]
  BY <1>3, <1>5, <1>6
<1>9. \A i \in 1..place : before[i] = text[0 + i - 1]
  BY <1>3, <1>6, <1>7
<1>10. \A i \in 1..(len - place) : behind[i] = text[place + i - 1]
  BY <1>3, <1>6, <1>8
<1> QED BY <1>2, <1>4, <1>5, <1>7, <1>8, <1>9, <1>10 DEF Stretch

(* The array new is text with c at the place, or without what is at from.           *)
HasInserted(new, text, len, place, c) ==
  /\ new \in [0..BufSize -> Chars]
  /\ \A i \in 0..BufSize : new[i] = IF i = place THEN c
                                   ELSE IF i \in (place + 1)..(len + 1) THEN text[i - 1] ELSE text[i]

HasRemoved(new, text, len, from) ==
  /\ new \in [0..BufSize -> Chars]
  /\ \A i \in 0..BufSize : new[i] = IF i \in from..len THEN (IF i + 1 \in 0..BufSize THEN text[i + 1] ELSE Junk)
                                                    ELSE text[i]

LEMMA CharInserted ==
  ASSUME LineAssumption, NEW text, NEW len, NEW place, InLine(text, len, place), len < BufSize,
         NEW c \in Letters, NEW before, NEW behind,
         Stretch(text, 0, place, before), Stretch(text, place, len - place, behind),
         NEW new, HasInserted(new, text, len, place, c)
  PROVE  TextOf(new, len + 1) = Append(before, c) \o behind
<1>1. /\ text \in [0..BufSize -> Chars] /\ len \in Nat /\ place \in Nat /\ place <= len /\ BufSize \in Nat
      /\ len + 1 \in 0..BufSize
  BY LineNumbers DEF InLine
<1>2. c \in Chars
  BY DEF Chars
<1>3. \A i \in 0..BufSize : new[i] = IF i = place THEN c
                                      ELSE IF i \in (place + 1)..(len + 1) THEN text[i - 1] ELSE text[i]
  BY DEF HasInserted
<1>5. new \in [0..BufSize -> Chars]
  BY DEF HasInserted
<1>4. /\ before \in Seq(Chars) /\ Len(before) = place /\ \A i \in 1..place : before[i] = text[i - 1]
      /\ behind \in Seq(Chars) /\ Len(behind) = len - place
      /\ \A i \in 1..(len - place) : behind[i] = text[place + i - 1]
  BY <1>1 DEF Stretch
<1>6. PICK first \in Seq(Chars) : /\ first = Append(before, c) /\ Len(first) = place + 1 /\ first[place + 1] = c
                                  /\ \A i \in 1..place : first[i] = before[i]
  <2>1. PICK first : first = Append(before, c)
    OBVIOUS
  <2>2. first \in Seq(Chars) /\ Len(first) = place + 1
    BY <1>2, <1>4, <2>1, AppendProperties, SMTT(40)
  <2>3. first[place + 1] = c /\ \A i \in 1..place : first[i] = before[i]
    BY <1>1, <1>2, <1>4, <2>1, AppendProperties
  <2> QED BY <2>1, <2>2, <2>3
<1>7. PICK s \in Seq(Chars) : /\ s = first \o behind /\ Len(s) = len + 1
                              /\ \A i \in 1..(len + 1) : s[i] = IF i <= place + 1 THEN first[i] ELSE behind[i - (place + 1)]
  <2>1. Len(first) + Len(behind) = len + 1 /\ Len(first) = place + 1
    BY <1>1, <1>4, <1>6
  <2>2. PICK s : s = first \o behind
    OBVIOUS
  <2>3. /\ s \in Seq(Chars) /\ Len(s) = Len(first) + Len(behind)
        /\ \A i \in 1..(Len(first) + Len(behind)) : s[i] = IF i <= Len(first) THEN first[i] ELSE behind[i - Len(first)]
    BY <1>4, <1>6, <2>2, ConcatProperties
  <2>4. Len(s) = len + 1 /\ \A i \in 1..(len + 1) : s[i] = IF i <= place + 1 THEN first[i] ELSE behind[i - (place + 1)]
    BY <2>1, <2>3
  <2> QED BY <2>2, <2>3, <2>4
<1>8. ASSUME NEW i \in 1..(len + 1) PROVE new[i - 1] = s[i]
  <2>1. i - 1 \in 0..BufSize /\ i \in Nat
    BY <1>1
  <2>2. CASE i <= place
    BY <1>1, <1>3, <1>4, <1>6, <1>7, <2>1, <2>2
  <2>3. CASE i = place + 1
    BY <1>1, <1>3, <1>6, <1>7, <2>1, <2>3
  <2>4. CASE i > place + 1
    <3>1. i - (place + 1) \in 1..(len - place) /\ place + (i - (place + 1)) - 1 = i - 2 /\ (i - 1) - 1 = i - 2
      BY <1>1, <2>1, <2>4
    <3>2. behind[i - (place + 1)] = text[i - 2]
      BY <1>4, <3>1
    <3>3. new[i - 1] = text[i - 2]
      BY <1>1, <1>3, <2>1, <2>4, <3>1
    <3> QED BY <1>1, <1>7, <2>1, <2>4, <3>2, <3>3
  <2> QED BY <1>1, <2>1, <2>2, <2>3, <2>4
<1>9. PICK k \in 0..BufSize : k = len + 1
  BY <1>1
<1>10. TextOf(new, k) = s
  BY <1>5, <1>7, <1>8, <1>9, SameText
<1> QED BY <1>1, <1>5, <1>6, <1>7, <1>9, <1>10

LEMMA CharRemoved ==
  ASSUME LineAssumption, NEW text, NEW len, NEW from, InLine(text, len, from), from # len,
         NEW before, NEW behind,
         Stretch(text, 0, from, before), Stretch(text, from + 1, len - 1 - from, behind),
         NEW new, HasRemoved(new, text, len, from)
  PROVE  TextOf(new, len - 1) = before \o behind
<1>1. /\ len \in Nat /\ from \in Nat /\ from < len /\ BufSize \in Nat /\ len <= BufSize
      /\ len - 1 \in 0..BufSize /\ text \in [0..BufSize -> Chars]
  BY LineNumbers DEF InLine
<1>2. \A i \in 0..BufSize : new[i] = IF i \in from..len THEN (IF i + 1 \in 0..BufSize THEN text[i + 1] ELSE Junk)
                                                       ELSE text[i]
  BY DEF HasRemoved
<1>3. new \in [0..BufSize -> Chars]
  BY DEF HasRemoved
<1>0. /\ before \in Seq(Chars) /\ Len(before) = from /\ \A i \in 1..from : before[i] = text[i - 1]
      /\ behind \in Seq(Chars) /\ Len(behind) = len - 1 - from
      /\ \A i \in 1..(len - 1 - from) : behind[i] = text[from + i]
  BY <1>1 DEF Stretch
<1>4. PICK s \in Seq(Chars) : /\ s = before \o behind /\ Len(s) = len - 1
                              /\ \A i \in 1..(len - 1) : s[i] = IF i <= from THEN before[i] ELSE behind[i - from]
  <2>1. Len(before) + Len(behind) = len - 1 /\ Len(before) = from
    BY <1>0, <1>1
  <2>2. PICK s : s = before \o behind
    OBVIOUS
  <2>3. /\ s \in Seq(Chars) /\ Len(s) = Len(before) + Len(behind)
        /\ \A i \in 1..(Len(before) + Len(behind)) : s[i] = IF i <= Len(before) THEN before[i] ELSE behind[i - Len(before)]
    BY <1>0, <2>2, ConcatProperties
  <2>4. Len(s) = len - 1 /\ \A i \in 1..(len - 1) : s[i] = IF i <= from THEN before[i] ELSE behind[i - from]
    BY <2>1, <2>3
  <2> QED BY <2>2, <2>3, <2>4
<1>5. ASSUME NEW i \in 1..(len - 1) PROVE new[i - 1] = s[i]
  <2>1. i - 1 \in 0..BufSize /\ i \in 0..BufSize /\ (i - 1) + 1 = i
    BY <1>1
  <2>2. CASE i <= from
    <3>1. i - 1 \notin from..len /\ i \in 1..from
      BY <1>1, <2>2
    <3>2. new[i - 1] = text[i - 1]
      BY <1>2, <2>1, <3>1
    <3>3. s[i] = before[i]
      BY <1>4, <2>2
    <3> QED BY <1>0, <3>1, <3>2, <3>3
  <2>3. CASE i > from
    <3>1. i - 1 \in from..len /\ i - from \in 1..(len - 1 - from) /\ from + (i - from) = i
      BY <1>1, <2>3
    <3>2. new[i - 1] = text[i]
      BY <1>1, <1>2, <2>1, <3>1
    <3>3. behind[i - from] = text[i]
      BY <1>0, <3>1
    <3>4. ~ (i <= from)
      BY <1>1, <2>1, <2>3
    <3>5. s[i] = behind[i - from]
      BY <1>4, <3>4
    <3> QED BY <3>2, <3>3, <3>5
  <2> QED BY <1>1, <2>2, <2>3
<1>6. PICK k \in 0..BufSize : k = len - 1
  BY <1>1
<1>7. Len(s) = k /\ \A i \in 1..k : new[i - 1] = s[i]
  BY <1>4, <1>5, <1>6
<1>8. TextOf(new, k) = s
  BY <1>3, <1>7, SameText
<1> QED BY <1>1, <1>3, <1>4, <1>6, <1>8

LEMMA ItemShown ==
  ASSUME LineAssumption, NEW text \in [0..BufSize -> Chars], NEW item \in Seq(Chars), Len(item) <= BufSize,
         NEW new, new = [i \in DOMAIN text |-> IF i < Len(item) THEN item[i + 1]
                                               ELSE IF i = Len(item) THEN Nul ELSE text[i]]
  PROVE  TextOf(new, Len(item)) = item /\ new \in [0..BufSize -> Chars] /\ Len(item) \in 0..BufSize
<1>1. Len(item) \in 0..BufSize /\ Len(item) \in Nat /\ BufSize \in Nat /\ Nul \in Chars /\ DOMAIN text = 0..BufSize
  BY LineNumbers DEF Chars
<1>2. ASSUME NEW i \in 0..BufSize PROVE new[i] \in Chars
  <2>1. i < Len(item) => i + 1 \in 1..Len(item)
    BY <1>1
  <2> QED BY <1>1, <2>1
<1>3. new \in [0..BufSize -> Chars]
  BY <1>1, <1>2
<1>4. ASSUME NEW i \in 1..Len(item) PROVE new[i - 1] = item[i]
  <2>1. i - 1 \in 0..BufSize /\ i - 1 < Len(item) /\ (i - 1) + 1 = i
    BY <1>1
  <2> QED BY <1>1, <2>1
<1> QED BY <1>1, <1>3, <1>4, SameText

-----------------------------------------------------------------------------
(* The keys *)

(* The line the cursor of the history is at: none at the rear.                     *)
LEMMA CursorShows ==
  ASSUME LineAssumption, NEW h, HistorySound(h), NEW k, k = Ahead(h, h.cursor)
  PROVE  /\ k \in L!Ring
         /\ h.list[h.cursor] = IF k + 1 <= Len(CommandsOf(h)) THEN CommandsOf(h)[k + 1] ELSE <<>>
<1>1. /\ h.front \in L!Ring /\ h.rear \in L!Ring /\ h.cursor \in L!Ring /\ h.list[h.rear] = <<>>
      /\ k <= Ahead(h, h.rear)
  BY DEF HistorySound
<1>2. k \in L!Ring /\ At(h, k) = h.cursor
  BY <1>1, AheadIs, AtAhead
<1>3. /\ Ahead(h, h.rear) \in L!Ring /\ Len(CommandsOf(h)) = Ahead(h, h.rear)
      /\ \A i \in 1..Ahead(h, h.rear) : CommandsOf(h)[i] = h.list[At(h, i - 1)]
  BY CommandsAre
<1>4. CASE k + 1 <= Ahead(h, h.rear)
  <2>1. k + 1 \in 1..Ahead(h, h.rear) /\ (k + 1) - 1 = k
    BY <1>2, <1>3, <1>4, LineNumbers
  <2> QED BY <1>2, <1>3, <1>4, <2>1
<1>5. CASE ~ (k + 1 <= Ahead(h, h.rear))
  <2>1. k = Ahead(h, h.rear)
    BY <1>1, <1>2, <1>3, <1>5, LineNumbers
  <2>2. h.cursor = h.rear
    BY <1>1, <1>2, <2>1, AtAhead
  <2> QED BY <1>1, <1>2, <1>3, <1>5, <2>2
<1> QED BY <1>4, <1>5

(* Another cursor on the same ring.                                               *)
LEMMA CursorMoved ==
  ASSUME LineAssumption, NEW h, HistorySound(h), NEW c \in L!Ring, NEW g, g = [h EXCEPT !.cursor = c],
         Ahead(h, c) <= Ahead(h, h.rear)
  PROVE  HistorySound(g) /\ CommandsOf(g) = CommandsOf(h) /\ g.cursor = c /\ Ahead(g, g.cursor) = Ahead(h, c)
<1>1. /\ h \in [list : [L!Ring -> Seq(Chars)], front : L!Ring, rear : L!Ring, cursor : L!Ring]
      /\ \A i \in L!Ring : Len(h.list[i]) <= BufSize
      /\ h.list[h.rear] = <<>>
  BY DEF HistorySound
<1>2. /\ g \in [list : [L!Ring -> Seq(Chars)], front : L!Ring, rear : L!Ring, cursor : L!Ring]
      /\ g.list = h.list /\ g.front = h.front /\ g.rear = h.rear /\ g.cursor = c
  BY <1>1
<1>3. \A i : Ahead(g, i) = Ahead(h, i)
  BY <1>2 DEF Ahead
<1>4. CommandsOf(g) = CommandsOf(h)
  BY <1>2, <1>3 DEF CommandsOf
<1> QED BY <1>1, <1>2, <1>3, <1>4 DEF HistorySound

(* The arrows go one command back or forward, and stop at the ends (history.c:65).   *)
LEMMA ItemGot ==
  ASSUME LineAssumption, LineInv, NEW step \in {L!Up, L!Down},
         NEW g, g = L!Get_History_Item(step), NEW k, k = Ahead(history, history.cursor)
  PROVE  /\ HistorySound(g) /\ CommandsOf(g) = CommandsOf(history) /\ k \in L!Ring
         /\ step = L!Up => Ahead(g, g.cursor) = IF k = 0 THEN 0 ELSE k - 1
         /\ step = L!Down => Ahead(g, g.cursor) = IF k = Len(CommandsOf(history)) THEN k ELSE k + 1
<1>1. PICK h : h = history
  OBVIOUS
<1>2. /\ HistorySound(h) /\ h.front \in L!Ring /\ h.rear \in L!Ring /\ h.cursor \in L!Ring
      /\ k = Ahead(h, h.cursor) /\ k <= Ahead(h, h.rear)
  BY <1>1 DEF LineInv, HistorySound
<1>3. /\ k \in L!Ring /\ At(h, k) = h.cursor /\ Ahead(h, h.rear) \in L!Ring
      /\ Len(CommandsOf(h)) = Ahead(h, h.rear) /\ k \in Int /\ HISTORY_SIZE \in Nat \ {0}
  <2>1. k \in L!Ring /\ At(h, k) = h.cursor /\ Ahead(h, h.rear) \in L!Ring
    BY <1>2, AheadIs, AtAhead
  <2>2. Len(CommandsOf(h)) = Ahead(h, h.rear)
    BY <1>2, CommandsAre
  <2> QED BY <2>1, <2>2, LineNumbers
<1>7. PICK f \in L!Ring : f = h.front
  BY <1>2
<1>8. \A j : At(h, j) = IF f + j < HISTORY_SIZE THEN f + j ELSE f + j - HISTORY_SIZE
  BY <1>7 DEF At
<1>4. Ahead(h, h.front) = 0
  BY <1>2, AheadIs, LineNumbers
<1>5. CASE step = L!Up
  <2>1. step = -1 /\ step # L!Down
    BY <1>5 DEF L!Up, L!Down
  <2>2. CASE h.cursor = h.front
    <3>1. g = h
      BY <1>1, <1>5, <2>2 DEF L!Get_History_Item
    <3> QED BY <1>1, <1>2, <1>3, <1>4, <2>1, <2>2, <3>1
  <2>3. CASE h.cursor # h.front
    <3>1. k # 0
      BY <1>2, <1>3, <2>3, AtIs, LineNumbers
    <3>2. PICK c : c = At(h, k - 1)
      OBVIOUS
    <3>3. k - 1 \in L!Ring
      BY <1>3, <3>1, LineNumbers
    <3>4. c \in L!Ring /\ Ahead(h, c) = k - 1
      BY <1>2, <3>2, <3>3, AtIs
    <3>5. (h.cursor + step) % HISTORY_SIZE = c
      <4>1. PICK cursor \in L!Ring : cursor = h.cursor
        BY <1>2
      <4>2. CASE cursor = 0
        <5>1. cursor + step \in (-HISTORY_SIZE)..(-1) /\ cursor + step = -1
          BY <1>3, <2>1, <4>2, LineNumbers
        <5>2. PICK d \in (-HISTORY_SIZE)..(-1) : d = cursor + step
          BY <5>1
        <5>3. d % HISTORY_SIZE = HISTORY_SIZE - 1
          BY <1>3, <5>1, <5>2, RingBefore
        <5>4. c = HISTORY_SIZE - 1
          <6>1. h.cursor = IF f + k < HISTORY_SIZE THEN f + k ELSE f + k - HISTORY_SIZE
            BY <1>3, <1>8
          <6>2. c = IF f + (k - 1) < HISTORY_SIZE THEN f + (k - 1) ELSE f + (k - 1) - HISTORY_SIZE
            BY <1>8, <3>2
          <6>3. k \in Nat /\ f \in Nat
            BY <1>3, LineNumbers
          <6>4. f + k = HISTORY_SIZE
            <7>1. f + k # 0 /\ h.cursor = 0
              BY <3>1, <4>1, <4>2, <6>3
            <7> QED BY <1>3, <6>1, <6>3, <7>1
          <6>5. f + (k - 1) = HISTORY_SIZE - 1
            BY <6>3, <6>4
          <6> QED BY <1>3, <6>2, <6>5
        <5> QED BY <4>1, <5>2, <5>3, <5>4
      <4>3. CASE cursor # 0
        <5>1. cursor + step \in 0..(HISTORY_SIZE + HISTORY_SIZE - 1) /\ cursor + step < HISTORY_SIZE
              /\ cursor + step = cursor - 1
          BY <1>3, <2>1, <4>3, LineNumbers
        <5>2. PICK d \in 0..(HISTORY_SIZE + HISTORY_SIZE - 1) : d = cursor + step
          BY <5>1
        <5>3. d % HISTORY_SIZE = cursor - 1
          BY <5>1, <5>2, RingAround
        <5>4. c = cursor - 1
          <6>1. h.cursor = IF f + k < HISTORY_SIZE THEN f + k ELSE f + k - HISTORY_SIZE
            BY <1>3, <1>8
          <6>2. c = IF f + (k - 1) < HISTORY_SIZE THEN f + (k - 1) ELSE f + (k - 1) - HISTORY_SIZE
            BY <1>8, <3>2
          <6> QED BY <1>3, <3>1, <4>1, <4>3, <6>1, <6>2, LineNumbers
        <5> QED BY <4>1, <5>2, <5>3, <5>4
      <4> QED BY <4>2, <4>3
    <3>6. g = [h EXCEPT !.cursor = c]
      BY <1>1, <1>5, <2>3, <3>5 DEF L!Get_History_Item
    <3>7. Ahead(h, c) <= Ahead(h, h.rear)
      BY <1>2, <1>3, <3>4, LineNumbers
    <3> QED BY <1>1, <1>2, <1>3, <2>1, <3>1, <3>4, <3>6, <3>7, CursorMoved
  <2> QED BY <2>2, <2>3
<1>6. CASE step = L!Down
  <2>1. step = 1 /\ step # L!Up
    BY <1>6 DEF L!Up, L!Down
  <2>2. CASE h.cursor = h.rear
    <3>1. g = h
      BY <1>1, <2>1, <2>2 DEF L!Get_History_Item
    <3> QED BY <1>1, <1>2, <1>3, <2>1, <2>2, <3>1
  <2>3. CASE h.cursor # h.rear
    <3>1. k # Ahead(h, h.rear)
      BY <1>2, <1>3, <2>3, AtAhead
    <3>2. PICK c : c = At(h, k + 1)
      OBVIOUS
    <3>3. k + 1 \in L!Ring /\ k + 1 <= Ahead(h, h.rear)
      BY <1>2, <1>3, <3>1, LineNumbers
    <3>4. c \in L!Ring /\ Ahead(h, c) = k + 1
      BY <1>2, <3>2, <3>3, AtIs
    <3>5. (h.cursor + step) % HISTORY_SIZE = c
      <4>1. PICK cursor \in L!Ring : cursor = h.cursor
        BY <1>2
      <4>2. (cursor + 1) % HISTORY_SIZE = Following(cursor)
        BY FollowingIs
      <4>3. c = Following(cursor)
        <5>1. h.cursor = IF f + k < HISTORY_SIZE THEN f + k ELSE f + k - HISTORY_SIZE
          BY <1>3, <1>8
        <5>2. c = IF f + (k + 1) < HISTORY_SIZE THEN f + (k + 1) ELSE f + (k + 1) - HISTORY_SIZE
          BY <1>8, <3>2
        <5> QED BY <1>3, <3>3, <4>1, <5>1, <5>2, LineNumbers DEF Following
      <4> QED BY <2>1, <4>1, <4>2, <4>3
    <3>6. g = [h EXCEPT !.cursor = c]
      BY <1>1, <2>1, <2>3, <3>5 DEF L!Get_History_Item
    <3> QED BY <1>1, <1>2, <1>3, <2>1, <3>1, <3>3, <3>4, <3>6, CursorMoved
  <2> QED BY <2>2, <2>3
<1> QED BY <1>5, <1>6

(* The parts of the invariant, and the text and the place that the properties     *)
(* speak of.                                                                    *)
LEMMA LineParts ==
  ASSUME LineAssumption, LineInv
  PROVE  /\ lineBuf \in [0..BufSize -> Chars] /\ lineLen \in 0..BufSize /\ lineLen \in Nat
         /\ lineCol \in Int /\ BufSize \in Nat /\ Boundary \in Nat /\ L!Place \in Int
         /\ L!Place = lineCol - Boundary /\ L!Text = TextOf(lineBuf, lineLen)
         /\ slipped \in BOOLEAN /\ HistorySound(history)
         /\ L!Commands = CommandsOf(history) /\ L!Recalled = 1 + Ahead(history, history.cursor)
         /\ ~slipped => InLine(lineBuf, lineLen, L!Place)
<1>1. /\ lineBuf \in [0..BufSize -> Chars] /\ lineLen \in 0..BufSize /\ lineCol \in Int
      /\ slipped \in BOOLEAN /\ HistorySound(history)
      /\ ~slipped => lineCol \in Boundary..(Boundary + lineLen)
  BY DEF LineInv
<1>2. L!Place = lineCol - Boundary
  BY DEF L!Place
<1>3. L!Text = TextOf(lineBuf, lineLen)
  BY DEF L!Text, TextOf
<1>4. L!Commands = CommandsOf(history) /\ L!Recalled = 1 + Ahead(history, history.cursor)
  BY DEF L!Commands, CommandsOf, L!Recalled, Ahead
<1>5. lineLen \in Nat /\ L!Place \in Int /\ (~slipped => L!Place \in 0..lineLen)
  BY <1>1, <1>2, LineNumbers
<1> QED BY <1>1, <1>2, <1>3, <1>4, <1>5, LineNumbers DEF InLine

LEMMA LineInts ==
  ASSUME LineAssumption, LineInv
  PROVE  /\ lineLen \in Nat /\ BufSize \in Nat /\ Boundary \in Nat /\ lineLen <= BufSize /\ lineCol \in Int
         /\ L!Place \in Int /\ L!Place = lineCol - Boundary
         /\ ~slipped => L!Place \in 0..lineLen
  BY LineParts DEF InLine

(* What a key leaves behind.                                                     *)
LEMMA LineAfter ==
  ASSUME LineAssumption, NEW text \in [0..BufSize -> Chars], NEW len \in 0..BufSize, NEW col \in Int,
         lineBuf' = text, lineLen' = len, lineCol' = col,
         NEW slip \in BOOLEAN, slipped' = slip, ~slip => col - Boundary \in 0..len,
         HistorySound(history')
  PROVE  LineInv' /\ \A s, place : (TextOf(text, len) = s /\ col - Boundary = place => L!Becomes(<<s, place>>))
<1>1. ~slip => col \in Boundary..(Boundary + len)
  BY LineNumbers
<1>2. LineInv'
  BY <1>1 DEF LineInv
<1>3. L!Text' = TextOf(text, len) /\ L!Place' = col - Boundary
  BY DEF L!Text, TextOf, L!Place
<1> QED BY <1>2, <1>3 DEF L!Becomes

LEMMA SameCommands == history' = history => L!Commands' = L!Commands
  BY DEF L!Commands

LEMMA LeftKey ==
  ASSUME LineAssumption, LineInv, L!Left
  PROVE  LineInv' /\ (~slipped => L!Becomes(L!Edited("left"))) /\ L!Commands' = L!Commands
<1>1. PICK col : col = IF lineCol > Boundary THEN lineCol - 1 ELSE lineCol
  OBVIOUS
<1>2. /\ lineCol' = col /\ lineBuf' = lineBuf /\ lineLen' = lineLen /\ slipped' = slipped /\ history' = history
  BY <1>1 DEF L!Left
<1>3. col \in Int
  BY <1>1, LineInts
<1>4. ~slipped => /\ col - Boundary = (IF L!Place > 0 THEN L!Place - 1 ELSE 0)
                  /\ col - Boundary \in 0..lineLen
  BY <1>1, <1>3, LineInts
<1>5. L!Edited("left") = <<L!Text, IF L!Place > 0 THEN L!Place - 1 ELSE 0>>
  BY DEF L!Edited
<1> QED BY <1>2, <1>3, <1>4, <1>5, LineParts, LineAfter, SameCommands

LEMMA RightKey ==
  ASSUME LineAssumption, LineInv, L!Right
  PROVE  LineInv' /\ (~slipped => L!Becomes(L!Edited("right"))) /\ L!Commands' = L!Commands
<1>1. PICK col : col = IF lineCol <= Boundary + lineLen - 1 THEN lineCol + 1 ELSE lineCol
  OBVIOUS
<1>2. /\ lineCol' = col /\ lineBuf' = lineBuf /\ lineLen' = lineLen /\ slipped' = slipped /\ history' = history
  BY <1>1 DEF L!Right
<1>3. col \in Int
  BY <1>1, LineInts
<1>4. ~slipped => /\ col - Boundary = (IF L!Place < lineLen THEN L!Place + 1 ELSE lineLen)
                  /\ col - Boundary \in 0..lineLen
  <2>1. PICK place \in Int : place = L!Place /\ lineCol = Boundary + place /\ (~slipped => place \in 0..lineLen)
    BY LineInts
  <2>2. ~slipped => (lineCol <= Boundary + lineLen - 1 <=> place < lineLen) /\ ~ (place > lineLen)
    BY <2>1, LineInts
  <2>3. CASE lineCol <= Boundary + lineLen - 1
    <3>1. col = Boundary + (place + 1)
      BY <1>1, <2>1, <2>3, LineInts
    <3>2. col - Boundary = place + 1
      BY <3>1, LineInts
    <3>3. ~slipped => place < lineLen /\ place + 1 \in 0..lineLen
      BY <2>1, <2>2, <2>3, LineInts
    <3> QED BY <2>1, <3>2, <3>3
  <2>4. CASE ~ (lineCol <= Boundary + lineLen - 1)
    BY <1>1, <2>1, <2>2, <2>4, LineInts
  <2> QED BY <2>3, <2>4
<1>5. L!Edited("right") = <<L!Text, IF L!Place < lineLen THEN L!Place + 1 ELSE lineLen>>
  BY DEF L!Edited
<1> QED BY <1>2, <1>3, <1>4, <1>5, LineParts, LineAfter, SameCommands

(* A key that edits nothing.                                                      *)
LEMMA NothingEdited ==
  ASSUME LineAssumption, LineInv, UNCHANGED <<lineBuf, lineLen, lineCol, history>>,
         slipped' \in BOOLEAN, ~slipped' => ~slipped
  PROVE  LineInv' /\ L!Becomes(<<L!Text, L!Place>>) /\ L!Commands' = L!Commands
<1>1. ~slipped' => L!Place \in 0..lineLen
  BY LineInts
<1> QED BY <1>1, LineParts, LineAfter, SameCommands

LEMMA InsertKey ==
  ASSUME LineAssumption, LineInv, NEW c \in Letters, L!Insert(c)
  PROVE  LineInv' /\ (~slipped => L!Becomes(L!Typed(c))) /\ L!Commands' = L!Commands
<1>0. DOMAIN lineBuf = 0..BufSize /\ slipped' = slipped /\ history' = history
  BY LineParts DEF L!Insert
<1>1. CASE lineLen < BufSize /\ L!Place \in DOMAIN lineBuf
  <2>1. PICK new : new = [i \in DOMAIN lineBuf |-> IF i = L!Place THEN c
                            ELSE IF i \in (L!Place + 1)..(lineLen + 1) THEN lineBuf[i - 1] ELSE lineBuf[i]]
    OBVIOUS
  <2>2. lineBuf' = new /\ lineLen' = lineLen + 1 /\ lineCol' = lineCol + 1
    BY <1>1, <2>1 DEF L!Insert, L!Show
  <2>3. PICK k \in 0..BufSize : k = lineLen + 1
    BY <1>1, LineParts
  <2>4. PICK col \in Int : col = lineCol + 1 /\ col - Boundary = L!Place + 1
    BY LineParts
  <2>5. new \in [0..BufSize -> Chars]
    <3>1. ASSUME NEW i \in 0..BufSize PROVE new[i] \in Chars
      <4>1. L!Place \in 0..BufSize /\ c \in Chars /\ (i \in (L!Place + 1)..(lineLen + 1) => i - 1 \in 0..BufSize)
        BY <1>0, <1>1, LineParts DEF Chars
      <4> QED BY <1>0, <2>1, <4>1, LineParts
    <3> QED BY <1>0, <2>1, <3>1
  <2>6. CASE ~slipped
    <3>1. PICK text, len, place : text = lineBuf /\ len = lineLen /\ place = L!Place /\ InLine(text, len, place)
      BY <2>6, LineParts
    <3>2. PICK before, behind : /\ before = SubSeq(TextOf(text, len), 1, place)
                                /\ behind = SubSeq(TextOf(text, len), place + 1, len)
      OBVIOUS
    <3>3. Stretch(text, 0, place, before) /\ Stretch(text, place, len - place, behind)
      BY <3>1, <3>2, LineCut
    <3>4. HasInserted(new, text, len, place, c)
      BY <1>0, <2>1, <2>5, <3>1 DEF HasInserted
    <3>5. len < BufSize
      BY <1>1, <3>1
    <3>6. TextOf(new, len + 1) = Append(before, c) \o behind
      <4>1. InLine(text, len, place)
        BY <3>1
      <4>2. Stretch(text, 0, place, before)
        BY <3>3
      <4>3. Stretch(text, place, len - place, behind)
        BY <3>3
      <4>4. c \in Letters /\ LineAssumption
        OBVIOUS
      <4> QED BY <4>1, <4>2, <4>3, <4>4, <3>4, <3>5, CharInserted
    <3>7. L!Typed(c) = <<Append(before, c) \o behind, place + 1>>
      BY <1>1, <3>1, <3>2, LineParts DEF L!Typed, L!Before, L!Behind
    <3>8. col - Boundary = place + 1 /\ col - Boundary \in 0..k
      BY <2>3, <2>4, <3>1, LineInts DEF InLine
    <3>9. TextOf(new, k) = Append(before, c) \o behind
      BY <2>3, <3>1, <3>6
    <3>10. /\ lineBuf' = new /\ lineLen' = k /\ lineCol' = col /\ slipped' = FALSE
           /\ HistorySound(history') /\ L!Commands' = L!Commands
      BY <1>0, <2>2, <2>3, <2>4, <2>6, LineParts, SameCommands
    <3>11. LineInv' /\ L!Becomes(<<Append(before, c) \o behind, place + 1>>)
      BY <2>5, <3>8, <3>9, <3>10, LineAfter
    <3> QED BY <3>7, <3>10, <3>11
  <2>7. CASE slipped
    <3>1. PICK slip \in BOOLEAN : slip = slipped'
      BY <1>0, LineParts
    <3> QED BY <1>0, <2>2, <2>3, <2>4, <2>5, <2>7, <3>1, LineParts, LineAfter, SameCommands
  <2> QED BY <2>6, <2>7, LineParts
<1>2. CASE ~ (lineLen < BufSize /\ L!Place \in DOMAIN lineBuf)
  <2>1. UNCHANGED <<lineBuf, lineLen, lineCol>>
    BY <1>2 DEF L!Insert
  <2>2. LineInv' /\ L!Becomes(<<L!Text, L!Place>>) /\ L!Commands' = L!Commands
    BY <1>0, <2>1, NothingEdited, LineParts
  <2>3. ~slipped => ~ (lineLen < BufSize)
    BY <1>0, <1>2, LineInts DEF InLine
  <2> QED BY <2>2, <2>3 DEF L!Typed
<1> QED BY <1>1, <1>2

(* Closing the gap at from, whatever is there.                                    *)
LEMMA ClosedIs ==
  ASSUME LineAssumption, LineInv, NEW from \in Int, NEW new, new = L!Closed(from)
  PROVE  HasRemoved(new, lineBuf, lineLen, from)
<1>1. /\ lineBuf \in [0..BufSize -> Chars] /\ DOMAIN lineBuf = 0..BufSize /\ lineLen \in Nat /\ BufSize \in Nat
      /\ Junk \in Chars
  BY LineParts DEF Chars
<1>2. new = [i \in 0..BufSize |-> IF i \in from..lineLen
                                  THEN (IF i + 1 \in 0..BufSize THEN lineBuf[i + 1] ELSE Junk) ELSE lineBuf[i]]
  BY <1>1 DEF L!Closed, L!After
<1>3. ASSUME NEW i \in 0..BufSize PROVE new[i] \in Chars
  BY <1>1, <1>2
<1>4. new \in [0..BufSize -> Chars]
  BY <1>2, <1>3
<1> QED BY <1>2, <1>4 DEF HasRemoved

LEMMA LineClosed ==
  ASSUME LineAssumption, LineInv, lineLen > 0, history' = history,
         NEW from \in Int, NEW col \in Int, col - Boundary = from,
         lineBuf' = L!Closed(from), lineLen' = lineLen - 1, lineCol' = col,
         NEW slip \in BOOLEAN, slipped' = slip, NEW before, NEW behind,
         ~slip => /\ from \in 0..(lineLen - 1)
                  /\ Stretch(lineBuf, 0, from, before) /\ Stretch(lineBuf, from + 1, lineLen - 1 - from, behind)
  PROVE  LineInv' /\ (~slip => L!Becomes(<<before \o behind, from>>)) /\ L!Commands' = L!Commands
<1>1. PICK new : new = L!Closed(from)
  OBVIOUS
<1>2. HasRemoved(new, lineBuf, lineLen, from)
  BY <1>1, ClosedIs
<1>3. new \in [0..BufSize -> Chars]
  BY <1>2 DEF HasRemoved
<1>4. PICK len \in 0..BufSize : len = lineLen - 1
  BY LineParts
<1>5. lineBuf' = new /\ lineLen' = len
  BY <1>1, <1>4
<1>6. CASE slip
  BY <1>3, <1>4, <1>5, <1>6, LineParts, LineAfter, SameCommands
<1>7. CASE ~slip
  <2>1. PICK text, size : text = lineBuf /\ size = lineLen
    OBVIOUS
  <2>2. size \in Nat /\ from # size /\ from \in 0..(size - 1)
    BY <1>7, <2>1, LineParts
  <2>5. TextOf(new, size - 1) = before \o behind
    <3>1. LineAssumption
      OBVIOUS
    <3>2. InLine(text, size, from)
      BY <2>1, <2>2, LineParts DEF InLine
    <3>3. from # size
      BY <2>2
    <3>4. Stretch(text, 0, from, before)
      BY <1>7, <2>1
    <3>5. Stretch(text, from + 1, size - 1 - from, behind)
      BY <1>7, <2>1
    <3>6. HasRemoved(new, text, size, from)
      BY <1>2, <2>1
    <3> QED BY <3>1, <3>2, <3>3, <3>4, <3>5, <3>6, CharRemoved
  <2>6. TextOf(new, len) = before \o behind /\ col - Boundary \in 0..len
    BY <1>4, <1>7, <2>1, <2>2, <2>5
  <2> QED BY <1>3, <1>4, <1>5, <1>7, <2>6, LineParts, LineAfter, SameCommands
<1> QED BY <1>6, <1>7

LEMMA BackspaceKey ==
  ASSUME LineAssumption, LineInv, L!Backspace
  PROVE  LineInv' /\ (~slipped => L!Becomes(L!Edited("backspace"))) /\ L!Commands' = L!Commands
<1>1. slipped' = slipped /\ history' = history
  BY DEF L!Backspace
<1>2. CASE lineLen > 0 /\ lineCol > Boundary
  <2>1. PICK from \in Int, col \in Int : from = L!Place - 1 /\ col = lineCol - 1
    BY LineParts
  <2>2. lineBuf' = L!Closed(from) /\ lineLen' = lineLen - 1 /\ lineCol' = col
    BY <1>2, <2>1 DEF L!Backspace, L!Show
  <2>3. col - Boundary = from
    BY <2>1, LineParts
  <2>4. PICK slip \in BOOLEAN : slip = slipped
    BY LineParts
  <2>5. PICK before, behind : before = SubSeq(L!Text, 1, from) /\ behind = L!Behind
    OBVIOUS
  <2>6. ASSUME ~slip
        PROVE  /\ from \in 0..(lineLen - 1) /\ L!Place = from + 1 /\ L!Place # 0
               /\ Stretch(lineBuf, 0, from, before) /\ Stretch(lineBuf, from + 1, lineLen - 1 - from, behind)
    <3>1. InLine(lineBuf, lineLen, L!Place)
      BY <2>4, <2>6, LineParts
    <3>2. L!Place = from + 1 /\ L!Place # 0 /\ from \in 0..(lineLen - 1) /\ lineLen - L!Place = lineLen - 1 - from
      BY <1>2, <2>1, <3>1, LineInts DEF InLine
    <3>3. InLine(lineBuf, lineLen, from)
      BY <3>1, <3>2, LineInts DEF InLine
    <3>4. Stretch(lineBuf, 0, from, before)
      BY <2>5, <3>3, LineCut, LineParts
    <3>5. Stretch(lineBuf, L!Place, lineLen - L!Place, behind)
      BY <2>5, <3>1, LineCut, LineParts DEF L!Behind
    <3> QED BY <3>2, <3>4, <3>5
  <2>7. LineInv' /\ (~slip => L!Becomes(<<before \o behind, from>>)) /\ L!Commands' = L!Commands
    BY <1>1, <1>2, <2>2, <2>3, <2>4, <2>6, LineClosed
  <2>8. ~slip => L!Edited("backspace") = <<before \o behind, from>>
    BY <2>1, <2>5, <2>6 DEF L!Edited
  <2> QED BY <2>4, <2>7, <2>8
<1>3. CASE ~ (lineLen > 0 /\ lineCol > Boundary)
  <2>1. LineInv' /\ L!Becomes(<<L!Text, L!Place>>) /\ L!Commands' = L!Commands
    BY <1>1, <1>3, NothingEdited, LineParts DEF L!Backspace
  <2>2. ~slipped => L!Place = 0
    BY <1>3, LineInts DEF InLine
  <2> QED BY <2>1, <2>2 DEF L!Edited
<1> QED BY <1>2, <1>3

LEMMA StretchTail ==
  ASSUME NEW text, NEW from \in Int, NEW len \in Nat \ {0}, NEW s, Stretch(text, from, len, s)
  PROVE  Stretch(text, from + 1, len - 1, Tail(s))
<1>1. s \in Seq(Chars) /\ Len(s) = len /\ \A i \in 1..len : s[i] = text[from + i - 1]
  BY DEF Stretch
<1>2. PICK t : t = Tail(s)
  OBVIOUS
<1>3. t \in Seq(Chars) /\ Len(t) = len - 1 /\ \A i \in 1..(len - 1) : t[i] = s[i + 1]
  BY <1>1, <1>2
<1>4. ASSUME NEW i \in 1..(len - 1) PROVE t[i] = text[from + 1 + i - 1]
  <2>1. i + 1 \in 1..len /\ from + (i + 1) - 1 = from + 1 + i - 1
    OBVIOUS
  <2> QED BY <1>1, <1>3, <2>1
<1> QED BY <1>2, <1>3, <1>4 DEF Stretch

LEMMA DeleteKey ==
  ASSUME LineAssumption, LineInv, L!Delete
  PROVE  LineInv' /\ (~slipped /\ ~slipped' => L!Becomes(L!Edited("delete"))) /\ L!Commands' = L!Commands
<1>1. history' = history /\ slipped' = (slipped \/ L!Place >= lineLen)
  BY DEF L!Delete
<1>2. PICK slip \in BOOLEAN : slip = slipped' /\ slip = (slipped \/ L!Place >= lineLen)
  BY <1>1, LineParts
<1>3. CASE lineLen > 0
  <2>1. PICK from \in Int, col \in Int : from = L!Place /\ col = lineCol
    BY LineParts
  <2>2. lineBuf' = L!Closed(from) /\ lineLen' = lineLen - 1 /\ lineCol' = col
    BY <1>3, <2>1 DEF L!Delete, L!Show
  <2>3. col - Boundary = from
    BY <2>1, LineParts
  <2>5. PICK before, behind : before = L!Before /\ behind = Tail(L!Behind)
    OBVIOUS
  <2>6. ASSUME ~slip
        PROVE  /\ from \in 0..(lineLen - 1) /\ L!Place # lineLen
               /\ Stretch(lineBuf, 0, from, before) /\ Stretch(lineBuf, from + 1, lineLen - 1 - from, behind)
    <3>1. InLine(lineBuf, lineLen, from) /\ ~ (from >= lineLen)
      BY <1>2, <2>1, <2>6, LineParts
    <3>2. from \in 0..(lineLen - 1) /\ L!Place # lineLen /\ lineLen - from \in Nat \ {0}
          /\ lineLen - from - 1 = lineLen - 1 - from
      BY <2>1, <3>1, LineInts DEF InLine
    <3>3. /\ Stretch(lineBuf, 0, from, SubSeq(L!Text, 1, from))
          /\ Stretch(lineBuf, from, lineLen - from, SubSeq(L!Text, from + 1, lineLen))
      BY <3>1, LineCut, LineParts
    <3>4. Stretch(lineBuf, 0, from, before)
      BY <2>1, <2>5, <3>3 DEF L!Before
    <3>5. Stretch(lineBuf, from + 1, lineLen - from - 1, behind)
      BY <2>1, <2>5, <3>2, <3>3, StretchTail DEF L!Behind
    <3> QED BY <3>2, <3>4, <3>5
  <2>7. LineInv' /\ (~slip => L!Becomes(<<before \o behind, from>>)) /\ L!Commands' = L!Commands
    BY <1>1, <1>2, <1>3, <2>2, <2>3, <2>6, LineClosed
  <2>8. ~slip => L!Edited("delete") = <<before \o behind, from>>
    BY <2>1, <2>5, <2>6 DEF L!Edited
  <2>9. ~slipped' => ~slip
    BY <1>2
  <2> QED BY <2>7, <2>8, <2>9
<1>4. CASE ~ (lineLen > 0)
  <2>1. UNCHANGED <<lineBuf, lineLen, lineCol>>
    BY <1>4 DEF L!Delete
  <2>2. ~slipped => slipped'
    <3>1. ~slipped => L!Place >= lineLen
      BY <1>4, LineInts DEF InLine
    <3> QED BY <1>1, <3>1
  <2>3. slipped'
    BY <1>1, <2>2
  <2> QED BY <1>1, <2>1, <2>3, NothingEdited
<1> QED BY <1>3, <1>4

LEMMA RecallKey ==
  ASSUME LineAssumption, LineInv, NEW step \in {L!Up, L!Down}, L!Recall(step)
  PROVE  /\ LineInv' /\ L!Commands' = L!Commands
         /\ ~slipped /\ step = L!Up => L!Becomes(L!Edited("up"))
         /\ ~slipped /\ step = L!Down => L!Becomes(L!Edited("down"))
<1>1. PICK g : g = L!Get_History_Item(step)
  OBVIOUS
<1>2. PICK k : k = Ahead(history, history.cursor)
  OBVIOUS
<1>3. /\ HistorySound(g) /\ CommandsOf(g) = CommandsOf(history) /\ k \in L!Ring
      /\ step = L!Up => Ahead(g, g.cursor) = IF k = 0 THEN 0 ELSE k - 1
      /\ step = L!Down => Ahead(g, g.cursor) = IF k = Len(CommandsOf(history)) THEN k ELSE k + 1
  BY <1>1, <1>2, ItemGot
<1>4. PICK item : item = g.list[g.cursor]
  OBVIOUS
<1>5. item \in Seq(Chars) /\ Len(item) <= BufSize
  BY <1>3, <1>4 DEF HistorySound
<1>6. PICK m : m = Ahead(g, g.cursor)
  OBVIOUS
<1>7. m \in L!Ring /\ item = IF m + 1 <= Len(L!Commands) THEN L!Commands[m + 1] ELSE <<>>
  BY <1>3, <1>4, <1>6, CursorShows, LineParts
<1>8. history' = g /\ slipped' = slipped /\ lineLen' = Len(item) /\ lineCol' = Boundary + Len(item)
  BY <1>1, <1>4 DEF L!Recall, L!Show
<1>9. PICK new : new = [i \in DOMAIN lineBuf |-> IF i < Len(item) THEN item[i + 1]
                                                 ELSE IF i = Len(item) THEN Nul ELSE lineBuf[i]]
  OBVIOUS
<1>10. lineBuf' = new
  BY <1>1, <1>4, <1>9 DEF L!Recall, L!Show
<1>11. TextOf(new, Len(item)) = item /\ new \in [0..BufSize -> Chars] /\ Len(item) \in 0..BufSize
  BY <1>5, <1>9, ItemShown, LineParts
<1>12. PICK len \in 0..BufSize, col \in Int : len = Len(item) /\ col = Boundary + len /\ col - Boundary = len
  BY <1>11, LineParts
<1>13. LineInv' /\ L!Becomes(<<item, Len(item)>>)
  <2>1. HistorySound(history')
    BY <1>3, <1>8
  <2>2. TextOf(new, len) = item /\ lineLen' = len /\ lineCol' = col /\ col - Boundary \in 0..len
    BY <1>8, <1>11, <1>12, LineParts
  <2>3. PICK slip \in BOOLEAN : slip = slipped'
    BY <1>8, LineParts
  <2> QED BY <1>10, <1>11, <1>12, <2>1, <2>2, <2>3, LineAfter
<1>14. L!Commands' = L!Commands
  <2>1. L!Commands' = CommandsOf(history')
    BY DEF L!Commands, CommandsOf, Ahead
  <2> QED BY <1>3, <1>8, <2>1, LineParts
<1>15. L!Item(m + 1) = <<item, Len(item)>>
  BY <1>7 DEF L!Item
<1>16. k \in Nat /\ L!Recalled = 1 + k /\ L!Commands = CommandsOf(history)
  BY <1>2, <1>3, LineNumbers, LineParts
<1>17. step = L!Up => L!Edited("up") = L!Item(m + 1)
  <2>1. step = L!Up => m + 1 = IF L!Recalled = 1 THEN 1 ELSE L!Recalled - 1
    BY <1>3, <1>6, <1>16
  <2> QED BY <2>1 DEF L!Edited
<1>18. step = L!Down => L!Edited("down") = L!Item(m + 1)
  <2>1. Len(L!Commands) \in Nat
    BY <1>3, <1>16, CommandsAre, LineNumbers, LineParts
  <2>2. step = L!Down => m + 1 = IF L!Recalled = Len(L!Commands) + 1 THEN L!Recalled ELSE L!Recalled + 1
    BY <1>3, <1>6, <1>16, <2>1
  <2> QED BY <2>2 DEF L!Edited
<1> QED BY <1>13, <1>14, <1>15, <1>17, <1>18

LEMMA ReturnKey ==
  ASSUME LineAssumption, LineInv, L!Return
  PROVE  LineInv' /\ L!Becomes(L!Edited("return")) /\ (L!Commands' = L!Commands \/ L!Commands' = L!Remembered)
<1>1. PICK h : h = history'
  OBVIOUS
<1>2. PICK line : line = L!Text
  OBVIOUS
<1>3. PICK new : new = [lineBuf EXCEPT ![lineLen] = Nul]
  OBVIOUS
<1>4. /\ h = (IF line \in Lines THEN L!Add_History_Item(history, line) ELSE history)
      /\ lineBuf' = new /\ lineLen' = 0 /\ lineCol' = Boundary /\ slipped' = FALSE
  BY <1>1, <1>2, <1>3 DEF L!Return
<1>5. new \in [0..BufSize -> Chars]
  BY <1>3, LineParts DEF Chars
<1>6. /\ HistorySound(h) /\ (CommandsOf(h) = L!Commands \/ CommandsOf(h) = L!Remembered)
  <2>1. CASE line \in Lines
    <3>1. line \in Seq(Chars) /\ Len(line) <= BufSize
      <4>1. line \in Seq(Chars) /\ Len(line) = lineLen
        BY <1>2, TextIs, LineParts
      <4> QED BY <4>1, LineParts
    <3>2. /\ HistorySound(h)
          /\ CommandsOf(h) = LET all == Append(CommandsOf(history), line)
                             IN IF Len(all) = HISTORY_SIZE THEN Tail(all) ELSE all
      BY <1>4, <2>1, <3>1, Added, LineParts
    <3>3. CommandsOf(h) = L!Remembered
      BY <1>2, <3>2, LineParts DEF L!Remembered
    <3> QED BY <3>2, <3>3
  <2>2. CASE line \notin Lines
    BY <1>4, <2>2, LineParts
  <2> QED BY <2>1, <2>2
<1>7. L!Commands' = CommandsOf(history')
  BY DEF L!Commands, CommandsOf, Ahead
<1>8. TextOf(new, 0) = <<>>
  <2>1. TextOf(new, 0) \in Seq(Chars) /\ Len(TextOf(new, 0)) = 0
    BY <1>5, TextIs, LineNumbers
  <2> QED BY <2>1, EmptySeq
<1>9. 0 \in 0..BufSize /\ Boundary \in Int /\ Boundary - Boundary = 0 /\ 0 \in 0..0 /\ FALSE \in BOOLEAN
  BY LineNumbers
<1>10. LineInv' /\ L!Becomes(<<<<>>, 0>>)
  BY <1>1, <1>4, <1>5, <1>6, <1>8, <1>9, LineAfter
<1>11. L!Edited("return") = <<<<>>, 0>>
  BY DEF L!Edited
<1> QED BY <1>1, <1>6, <1>7, <1>10, <1>11

LEMMA LineInit ==
  ASSUME LineAssumption, L!Init
  PROVE  LineInv
<1>1. PICK command \in Lines : history = L!Add_History_Item(L!NoHistory, command)
  BY DEF L!Init
<1>2. PICK none : none = L!NoHistory
  OBVIOUS
<1>3. none = [list |-> [i \in L!Ring |-> <<>>], front |-> 0, rear |-> 0, cursor |-> 0]
  BY <1>2 DEF L!NoHistory
<1>4. /\ none.list = [i \in L!Ring |-> <<>>] /\ none.front = 0 /\ none.rear = 0 /\ none.cursor = 0
  BY <1>3
<1>5. <<>> \in Seq(Chars) /\ Len(<<>>) = 0
  OBVIOUS
<1>6. HistorySound(none)
  <2>1. Ahead(none, none.cursor) <= Ahead(none, none.rear)
    BY <1>4, AheadIs, LineNumbers
  <2> QED BY <1>3, <1>4, <1>5, <2>1, LineNumbers DEF HistorySound
<1>7. command \in Seq(Chars) /\ Len(command) <= BufSize
  <2>1. command \in Seq(Letters) /\ Letters \subseteq Chars /\ Len(command) <= BufSize
    BY DEF LineAssumption, Chars
  <2> QED BY <2>1
<1>8. HistorySound(history)
  BY <1>1, <1>2, <1>6, <1>7, Added
<1>9. lineBuf = [i \in 0..BufSize |-> Junk] /\ lineLen = 0 /\ lineCol = Boundary /\ slipped = FALSE
  BY DEF L!Init
<1>10. Junk \in Chars /\ lineBuf \in [0..BufSize -> Chars]
  BY <1>9 DEF Chars
<1>11. lineLen \in 0..BufSize /\ lineCol \in Int /\ lineCol \in Boundary..(Boundary + lineLen)
  BY <1>9, LineNumbers
<1> QED BY <1>8, <1>9, <1>10, <1>11 DEF LineInv

LEMMA LineNext ==
  ASSUME LineAssumption, LineInv, [L!Next]_(L!vars)
  PROVE  LineInv'
<1>1. CASE UNCHANGED L!vars
  BY <1>1, NothingEdited, LineParts DEF L!vars
<1>2. CASE L!Next
  <2>1. L!Up \in {L!Up, L!Down} /\ L!Down \in {L!Up, L!Down}
    OBVIOUS
  <2> QED BY <1>2, <2>1, LeftKey, RightKey, BackspaceKey, DeleteKey, ReturnKey, InsertKey, RecallKey DEF L!Next
<1> QED BY <1>1, <1>2

LEMMA KeysEdit ==
  ASSUME LineAssumption, LineInv, L!Next
  PROVE  L!EditsTheLine
<1>1. L!Up \in {L!Up, L!Down} /\ L!Down \in {L!Up, L!Down}
  OBVIOUS
<1>2. L!Commands' = L!Commands \/ (L!Return /\ L!Commands' = L!Remembered)
  BY <1>1, LeftKey, RightKey, BackspaceKey, DeleteKey, ReturnKey, InsertKey, RecallKey DEF L!Next
<1>3. ~slipped => /\ L!Left => L!Becomes(L!Edited("left"))
                  /\ L!Right => L!Becomes(L!Edited("right"))
                  /\ L!Backspace => L!Becomes(L!Edited("backspace"))
                  /\ L!Return => L!Becomes(L!Edited("return"))
  BY LeftKey, RightKey, BackspaceKey, ReturnKey
<1>4. ~slipped /\ ~slipped' => (L!Delete => L!Becomes(L!Edited("delete")))
  BY DeleteKey
<1>5. ~slipped => /\ L!Recall(L!Up) => L!Becomes(L!Edited("up"))
                  /\ L!Recall(L!Down) => L!Becomes(L!Edited("down"))
  BY <1>1, RecallKey
<1>6. ~slipped => \A c \in Letters : L!Insert(c) => L!Becomes(L!Typed(c))
  BY InsertKey
<1> QED BY <1>2, <1>3, <1>4, <1>5, <1>6 DEF L!EditsTheLine

-----------------------------------------------------------------------------
(* The parts together *)

(* A step of Objects is a step of one part, and the others stay as they are.      *)
LEMMA PartsRun == ObjectsSpec => V!Spec /\ P!Spec /\ U!Spec /\ K!Spec /\ L!Spec
<1>1. ObjectsInit => V!Init /\ P!Init /\ U!Init /\ K!Init /\ L!Init
  BY DEF ObjectsInit
<1>2. ASSUME [ObjectsNext]_objectsVars
      PROVE  [V!Next]_(V!vars) /\ [P!Next]_(P!vars) /\ [U!Next]_(U!vars) /\ [K!Next]_(K!vars) /\ [L!Next]_(L!vars)
  <2>1. CASE UNCHANGED objectsVars
    BY <2>1 DEF objectsVars, vfsVars, pfatVars, processVars, keyboardVars, lineVars, V!vars, P!vars, U!vars,
                K!vars, L!vars, V!tables, V!dirs, V!open, U!threadVars, U!spaceVars, U!reaperVars
  <2>2. CASE ObjectsNext
    BY <2>2 DEF ObjectsNext, SemaphoreStep, FileStep, PfatStep, ProcessStep, KeyStep, LineStep, vfsVars, pfatVars,
                processVars, keyboardVars, lineVars, V!vars, P!vars, U!vars, K!vars, L!vars, V!tables, V!dirs, V!open,
                U!threadVars, U!spaceVars, U!reaperVars
  <2> QED  BY <1>2, <2>1, <2>2
<1> QED  BY <1>1, <1>2, PTL DEF ObjectsSpec, V!Spec, P!Spec, U!Spec, K!Spec, L!Spec

(* A device in use has one user, and an open file one entry of one table: Mount,   *)
(* Format and Clone_Directory hand over what they take on every path (vfs.c:303,   *)
(* 344, syscall.c:342).                                                          *)
THEOREM FilesHaveOneUser == ObjectsSpec => []OneUserEach
<1>1. V!Spec => []FilesInv
  BY FilesInit, FilesStep, PTL DEF V!Spec
<1> QED  BY <1>1, PartsRun, FilesInvImplies, PTL

(* A reader gets the blocks of the file it opened, from its position to the end it *)
(* asked for, however readers of the same file come between each other's transfers *)
(* (pfat.c:155).                                                                  *)
THEOREM ReadersGetTheFile == ObjectsSpec => []ReadsTheFile
<1>1. P!Spec => []PfatInv
  BY PfatAlways, PTL
<1> QED  BY <1>1, PartsRun, GivesParts, PTL DEF ReadsTheFile

(* A file has one object, made under the lock of the list, and each of its blocks   *)
(* is fetched once, under the lock of the object (pfat.c:338).                     *)
THEOREM BlocksFetchedOnce == ObjectsSpec => []FetchedOnce
<1>1. P!Spec => []PfatInv
  BY PfatAlways, PTL
<1> QED  BY <1>1, PartsRun, FetchesOnce, PTL DEF FetchedOnce

(* A process runs on its own page directory, descriptor and stack, whoever is      *)
(* started, ends or is destroyed meanwhile, and no descriptor is lost or given      *)
(* twice (lowlevel.asm:400, user.c:152, gdt.c:48).                                *)
THEOREM ProcessesRunOnTheirOwn == ObjectsSpec => []RunsOnItsOwn
<1>1. U!Spec => []ProcessInv
  <2>1. ProcessInv /\ [U!Next]_(U!vars) => ProcessInv'
    BY ProcessNext DEF processVars, U!vars, U!threadVars, U!spaceVars, U!reaperVars
  <2> QED  BY ProcessInit, <2>1, PTL DEF U!Spec
<1> QED  BY <1>1, PartsRun, ProcessOwn, PTL DEF RunsOnItsOwn

(* Every key code that found room in the ring reaches a reader, once and in order,  *)
(* and no reader sleeps while one is left, for a ring of any size (keyboard.c:144,  *)
(* 259, 338).                                                                     *)
THEOREM KeysAreNotLost == ObjectsSpec => []KeysReachReaders
<1>1. KeyboardAssumption
  BY KeyboardAssumption
<1>2. K!Init => KeyboardInv
  BY <1>1, KeyboardInit
<1>3. KeyboardInv /\ [K!Next]_(K!vars) => KeyboardInv'
  BY <1>1, KeyboardNext
<1>4. K!Spec => []KeyboardInv
  BY <1>2, <1>3, PTL DEF K!Spec
<1>5. KeyboardInv => KeysReachReaders
  BY <1>1, KeysInOrder DEF KeysReachReaders
<1> QED  BY <1>4, <1>5, PartsRun, PTL

(* Every key edits the line at the cursor, through the loops over the array and     *)
(* the redrawing, and the arrows recall the last commands in order, for an array   *)
(* and a history of any size (conio.c:101, history.c:29).                         *)
THEOREM LinesAreEdited == ObjectsSpec => EditsAsAsked
<1>1. LineAssumption
  BY LineAssumption
<1>2. L!Init => LineInv
  BY <1>1, LineInit
<1>3. LineInv /\ [L!Next]_(L!vars) => LineInv'
  BY <1>1, LineNext
<1>4. LineInv /\ [L!Next]_(L!vars) => [part = "line" => L!EditsTheLine]_lineVars
  <2>1. LineInv /\ L!Next => L!EditsTheLine
    BY <1>1, KeysEdit
  <2>2. UNCHANGED L!vars => UNCHANGED lineVars
    BY DEF L!vars, lineVars
  <2> QED BY <2>1, <2>2
<1>5. L!Spec => [][part = "line" => L!EditsTheLine]_lineVars
  BY <1>2, <1>3, <1>4, PTL DEF L!Spec
<1> QED BY <1>5, PartsRun, PTL DEF EditsAsAsked
=============================================================================
