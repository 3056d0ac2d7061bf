----------------------------- MODULE GOSFSProofs -----------------------------
(***************************************************************************)
(* Proofs about GOSFS, for any number of processes that look at the file    *)
(* system beside one that creates and deletes (OneWriter), any names, any   *)
(* directory and disk size, where the bitmap ends with the disk             *)
(* (WholeBytes).                                                           *)
(*                                                                         *)
(* The inductive invariant has three parts.  Types.  DiskSound: the          *)
(* directories that have been written form a tree, and the bitmap has the    *)
(* blocks of all entries, but for the block the writer is at.  JobsSound:    *)
(* how far each process is, and that the directory, the entry and the block   *)
(* the writer works on are what it found.  That no directory is above       *)
(* itself (Rooted) is added to it for the path of a working directory.        *)
(***************************************************************************)
EXTENDS GOSFS, FiniteSetTheorems, SequenceTheorems, WellFoundedInduction, TLAPS

Entries   == [name : Names \cup {".", "..", NoName},
              kind : {"free", "junk", "file", "dir"}, block : Blocks]
Contents  == [Blocks -> [Offsets -> Entries]]
Cells     == Blocks \X (2..(NumEntries - 1))

(* The entries in use of the directories d, those of directories, and the    *)
(* blocks of both; InUse and BlockOf are Used and Target of dir.              *)
Used(d)      == {e \in Cells : d[e[1]][e[2]].kind \in {"file", "dir"}}
Subdirs(d)   == {e \in Cells : d[e[1]][e[2]].kind = "dir"}
Target(d, e) == d[e[1]][e[2]].block
Targets(d)   == {Target(d, e) : e \in Used(d)}

(* The directories that have been written: those of the entries but the ones  *)
(* still to be filled, and the root directory.                               *)
Made(d, new) == ({Root} \cup {Target(d, e) : e \in Subdirs(d)}) \ new

UnusedSound(d) == \A b \in Blocks : \A i \in Offsets :
                    d[b][i].kind \in {"free", "junk"} => d[b][i] \in {Free, Junk}
UsedSound(d, new) ==
  \A e \in Used(d) : /\ Target(d, e) \in Blocks \ {Super, Root}
                     /\ d[e[1]][e[2]].name \in Names /\ e[1] \in Made(d, new)
OneEntryEach(d) == \A c1, c2 \in Used(d) : Target(d, c1) = Target(d, c2) => c1 = c2
NamesDiffer(d)  == \A c1, c2 \in Used(d) : c1[1] = c2[1] /\ c1 # c2
                                         => d[c1[1]][c1[2]].name # d[c2[1]][c2[2]].name
SelfSound(d, new) == \A b \in Made(d, new) : d[b][0] = Entry(".", "dir", b)
ParentSound(d, new) ==
  /\ d[Root][1] = Entry("..", "dir", Root)
  /\ \A e \in Subdirs(d) : Target(d, e) \in Made(d, new) => d[Target(d, e)][1] = Entry("..", "dir", e[1])
RestZeroed(d, new) == \A b \in Blocks \ Made(d, new) : d[b] = Zeroed

Tree(d, new) == /\ d \in Contents
                /\ UnusedSound(d) /\ UsedSound(d, new) /\ OneEntryEach(d) /\ NamesDiffer(d)
                /\ SelfSound(d, new) /\ ParentSound(d, new) /\ RestZeroed(d, new)

WalkStages  == {"walk", "descend", "up", "name"}
ReadStages  == {"idle", "looked", "list", "read"} \cup WalkStages
WriteStages == {"idle", "looked", "mark", "fill", "empty?", "clear", "erase"} \cup WalkStages
Components  == Names \cup {".", ".."}
Jobs == [path : Seq(Components), base : Blocks, offset : Offsets \cup {Full},
         name : Components \cup {NoName}, found : {"yes", "no", "wrong path"},
         stage : ReadStages \cup WriteStages, block : Blocks]

(* The blocks of the jobs of writers in these stages: in New no directory has  *)
(* been written to the block yet, in Gone its bit does not say that it is used. *)
BlocksAt(jobs, stages) == {jobs[w].block : w \in {w \in Writers : jobs[w].stage \in stages}}
New  == BlocksAt(job, {"mark", "fill"})
Gone == BlocksAt(job, {"mark", "erase"})

Types == /\ job \in [Procs -> Jobs]
         /\ held \in [Blocks -> Procs \cup {Nobody, Mounted}] /\ held[Super] = Mounted
         /\ dentry \in [Procs -> [base : Blocks, offset : Offsets, block : Blocks]]
         /\ broken \in BOOLEAN

(* Whatever a process does, an entry was found as long as it is on its way.    *)
JobSound(p, j) ==
  /\ j.offset = Full => j.found = "no"
  /\ j.stage \in WalkStages \cup {"list", "read"} => j.found = "yes"
  /\ j.stage \in {"walk", "descend"} => j.path # <<>>
  /\ j.stage \in (IF p \in Writers THEN WriteStages ELSE ReadStages)

(* A process that creates or deletes, on its way down ...                     *)
WalkSound(d, j) ==
  /\ j.stage \in WalkStages => j.base \in Made(d, {})
  /\ j.stage = "descend" => d[j.base][j.offset].kind = "dir"
  /\ j.stage \in {"up", "name"} => j.block \in Made(d, {})
(* ... with what it was looking for or a place for it ...                     *)
LookedSound(d, j) ==
  j.stage = "looked" =>
    /\ j.found = "yes" => \/ j.base = Super
                          \/ j.base \in Made(d, {}) /\ d[j.base][j.offset].kind \in {"file", "dir"}
    /\ j.found = "no" => /\ j.base \in Made(d, {}) /\ j.name \in Names
                         /\ j.offset # Full => d[j.base][j.offset].kind = "free"
                         /\ \A e \in Used(d) : e[1] = j.base => d[e[1]][e[2]].name # j.name
(* ... and at its work.                                                       *)
WorkSound(d, h, w, j) ==
  /\ j.stage \in {"mark", "clear", "erase"} => /\ <<j.base, j.offset>> \in Used(d)
                                               /\ j.block = Target(d, <<j.base, j.offset>>)
  /\ j.stage = "fill" => \E e \in Subdirs(d) : e[1] = j.base /\ Target(d, e) = j.block
  /\ j.stage = "empty?" => /\ j.base \in Made(d, {}) /\ j.offset \in Offsets
                           /\ d[j.base][j.offset].kind = "dir" /\ j.block = d[j.base][j.offset].block
  /\ j.stage \in {"empty?", "clear", "erase"} => h[j.base] = w
  /\ j.stage \in {"clear", "erase"} =>
       /\ j.block # j.base
       /\ d[j.base][j.offset].kind = "dir" =>
            \A i \in 2..(NumEntries - 1) : d[j.block][i].kind = "free"
WriterSound(d, h, w, j) == WalkSound(d, j) /\ LookedSound(d, j) /\ WorkSound(d, h, w, j)

DiskSound == Tree(dir, New) /\ bitmap = ({Super, Root} \cup Targets(dir)) \ Gone
JobsSound == /\ \A p \in Procs : JobSound(p, job[p])
             /\ \A w \in Writers : WriterSound(dir, held, w, job[w])

GOSFSInv == Types /\ DiskSound /\ JobsSound

OneWriter  == \A p, q \in Writers : p = q
WholeBytes == NumBlocks % ByteBits = 0

(* What the model's numbers are.                                             *)
LEMMA Numbers ==
  /\ Super = 0 /\ Root = 1 /\ PrevDir = 1 /\ Full = -1 /\ Super \in Blocks /\ Root \in Blocks
  /\ NumBlocks \in Nat /\ NumEntries \in Nat /\ NumEntries > 2
  /\ Offsets = 0..(NumEntries - 1) /\ Blocks = 0..(NumBlocks - 1)
  /\ 0 \in Offsets /\ 1 \in Offsets /\ Full \notin Offsets
  /\ \A i \in Offsets : i \in 2..(NumEntries - 1) <=> i # 0 /\ i # 1
  /\ \A i \in 2..(NumEntries - 1) : i \in Offsets /\ i # 0 /\ i # 1
  BY GOSFSAssumption DEF Super, Root, PrevDir, Full, Blocks, Offsets

LEMMA EntryIs ==
  ASSUME NEW name, NEW kind, NEW block
  PROVE  /\ Entry(name, kind, block).name = name /\ Entry(name, kind, block).kind = kind
         /\ Entry(name, kind, block).block = block
         /\ name \in Names \cup {".", "..", NoName} /\ kind \in {"free", "junk", "file", "dir"}
              /\ block \in Blocks => Entry(name, kind, block) \in Entries
  BY DEF Entry, Entries

LEMMA FreeIs ==
  /\ Free \in Entries /\ Free.kind = "free" /\ Free.block = 0 /\ Free.name = NoName
  /\ Junk \in Entries /\ Junk.kind = "junk" /\ Junk.block = 0 /\ Junk.name = NoName
  /\ Zeroed \in [Offsets -> Entries] /\ \A i \in Offsets : Zeroed[i] = Free
  BY Numbers DEF Free, Junk, Entry, Entries, Zeroed

LEMMA NewDirectoryIs ==
  ASSUME NEW self \in Blocks, NEW parent \in Blocks
  PROVE  /\ NewDirectory(self, parent) \in [Offsets -> Entries]
         /\ NewDirectory(self, parent)[0] = Entry(".", "dir", self)
         /\ NewDirectory(self, parent)[1] = Entry("..", "dir", parent)
         /\ \A i \in 2..(NumEntries - 1) : NewDirectory(self, parent)[i] = Free
<1>1. Entry(".", "dir", self) \in Entries /\ Entry("..", "dir", parent) \in Entries
  BY EntryIs
<1> QED BY <1>1, Numbers, FreeIs, Zenon, SMT DEF NewDirectory

LEMMA EntriesAre ==
  ASSUME NEW x \in Entries
  PROVE  /\ x.name \in Names \cup {".", "..", NoName} /\ x.block \in Blocks
         /\ x.kind \in {"free", "junk", "file", "dir"}
  BY DEF Entries

LEMMA ContentsAre ==
  ASSUME NEW d \in Contents, NEW b \in Blocks, NEW i \in Offsets
  PROVE  d[b][i] \in Entries
  BY DEF Contents

LEMMA CellIs ==
  ASSUME NEW e \in Cells
  PROVE  /\ e[1] \in Blocks /\ e[2] \in Offsets /\ e[2] # 0 /\ e[2] # 1 /\ e[2] \in 2..(NumEntries - 1)
         /\ e = <<e[1], e[2]>>
  BY Numbers DEF Cells

LEMMA IsCell ==
  ASSUME NEW b \in Blocks, NEW i \in Offsets, i # 0, i # 1
  PROVE  <<b, i>> \in Cells /\ <<b, i>>[1] = b /\ <<b, i>>[2] = i
  BY Numbers DEF Cells

(* One entry is written, or a block.                                          *)
Written(d, f, b, i, x) ==
  /\ f \in Contents /\ f[b][i] = x
  /\ \A c \in Blocks : c # b => f[c] = d[c]
  /\ \A k \in Offsets : k # i => f[b][k] = d[b][k]
Rewritten(d, f, b, x) == f \in Contents /\ f[b] = x /\ \A c \in Blocks : c # b => f[c] = d[c]

LEMMA EntryWritten ==
  ASSUME NEW d \in Contents, NEW b \in Blocks, NEW i \in Offsets, NEW x \in Entries
  PROVE  Written(d, [d EXCEPT ![b][i] = x], b, i, x)
<1> PICK f : f = [d EXCEPT ![b][i] = x]
  OBVIOUS
<1> DEFINE g == [d[b] EXCEPT ![i] = x]
<1>1. d[b] \in [Offsets -> Entries]
  BY DEF Contents
<1>2. g \in [Offsets -> Entries] /\ g[i] = x /\ \A k \in Offsets : k # i => g[k] = d[b][k]
  BY <1>1
<1>3. f = [d EXCEPT ![b] = g]
  BY Zenon
<1> HIDE DEF g
<1>4. f \in Contents /\ f[b] = g /\ \A c \in Blocks : c # b => f[c] = d[c]
  BY <1>2, <1>3 DEF Contents
<1>5. Written(d, f, b, i, x)
  BY <1>2, <1>4 DEF Written
<1> QED BY <1>5

LEMMA BlockWritten ==
  ASSUME NEW d \in Contents, NEW b \in Blocks, NEW x \in [Offsets -> Entries]
  PROVE  Rewritten(d, [d EXCEPT ![b] = x], b, x)
  BY DEF Contents, Rewritten

-----------------------------------------------------------------------------
(* The disk *)

LEMMA MadeIs ==
  ASSUME NEW d, NEW new, NEW b
  PROVE  b \in Made(d, new) <=> b \notin new /\ (b = Root \/ \E e \in Subdirs(d) : b = Target(d, e))
  BY DEF Made

LEMMA SubdirsAreUsed ==
  ASSUME NEW d, NEW e
  PROVE  /\ e \in Used(d) <=> e \in Cells /\ d[e[1]][e[2]].kind \in {"file", "dir"}
         /\ e \in Subdirs(d) <=> e \in Cells /\ d[e[1]][e[2]].kind = "dir"
         /\ e \in Subdirs(d) => e \in Used(d)
         /\ Target(d, e) = d[e[1]][e[2]].block
  BY DEF Used, Subdirs, Target

LEMMA MadeOnDisk ==
  ASSUME NEW d \in Contents, NEW new, NEW b \in Made(d, new), UsedSound(d, new)
  PROVE  b \in Blocks \ {Super} /\ (b # Root => \E e \in Subdirs(d) : b = Target(d, e))
<1>1. CASE b = Root
  BY <1>1, Numbers
<1>2. CASE b # Root
  <2>1. PICK e \in Subdirs(d) : b = Target(d, e)
    BY <1>2, MadeIs
  <2> QED BY <2>1, SubdirsAreUsed DEF UsedSound
<1> QED BY <1>1, <1>2

Added(d, f, b, i, x) ==
  /\ Tree(f, {x.block}) /\ <<b, i>> \in Used(f) /\ Target(f, <<b, i>>) = x.block
  /\ Targets(f) = Targets(d) \cup {x.block}

(* GOSFS_Open, Create_Directory: an entry is written for a block in no use.   *)
LEMMA EntryAdded ==
  ASSUME NEW d, Tree(d, {}), NEW base \in Made(d, {}), NEW i \in 2..(NumEntries - 1),
         d[base][i].kind = "free", NEW x \in Entries, x.kind \in {"file", "dir"}, x.name \in Names,
         x.block \notin {Super, Root}, x.block \notin Targets(d),
         \A e \in Used(d) : e[1] = base => d[e[1]][e[2]].name # x.name,
         NEW f, Written(d, f, base, i, x)
  PROVE  Added(d, f, base, i, x)
<1> DEFINE c == <<base, i>>
           block == x.block
<1>0. block \in Blocks
  BY EntriesAre
<1>1. /\ d \in Contents /\ UnusedSound(d) /\ UsedSound(d, {}) /\ OneEntryEach(d) /\ NamesDiffer(d)
      /\ SelfSound(d, {}) /\ ParentSound(d, {}) /\ RestZeroed(d, {})
  BY DEF Tree
<1>2. base \in Blocks \ {Super}
  BY <1>1, MadeOnDisk
<1>3. i \in Offsets /\ i # 0 /\ i # 1
  BY Numbers
<1>4. c \in Cells /\ c[1] = base /\ c[2] = i
  BY <1>2, <1>3, IsCell
<1>6. /\ f \in Contents /\ f[base][i] = x
      /\ \A b \in Blocks : b # base => f[b] = d[b]
      /\ \A k \in Offsets : k # i => f[base][k] = d[base][k]
  BY DEF Written
<1> HIDE DEF c
<1>7. ASSUME NEW e \in Cells, e # c PROVE f[e[1]][e[2]] = d[e[1]][e[2]]
  <2>1. e[1] \in Blocks /\ e[2] \in Offsets /\ e = <<e[1], e[2]>>
    BY CellIs
  <2>2. e[1] # base \/ e[2] # i
    BY <2>1, <1>7 DEF c
  <2> QED BY <2>1, <2>2, <1>6
<1>8. f[c[1]][c[2]] = x /\ d[c[1]][c[2]].kind = "free"
  BY <1>4, <1>6
<1>9. c \notin Used(d) /\ c \in Used(f) /\ Target(f, c) = block /\ (c \in Subdirs(f) <=> x.kind = "dir")
  BY <1>4, <1>8 DEF Used, Subdirs, Target
<1>10. \A e \in Cells \ {c} : /\ (e \in Used(f) <=> e \in Used(d)) /\ (e \in Subdirs(f) <=> e \in Subdirs(d))
                             /\ Target(f, e) = Target(d, e)
  BY <1>7 DEF Used, Subdirs, Target
<1>11. Used(f) = Used(d) \cup {c}
  <2>1. Used(f) \subseteq Cells /\ Used(d) \subseteq Cells
    BY DEF Used
  <2> QED BY <1>9, <1>10, <2>1
<1>12. Targets(f) = Targets(d) \cup {block}
  <2>1. \A e \in Used(d) : e \in Cells \ {c}
    BY <1>9 DEF Used
  <2>2. \A e \in Used(d) : Target(f, e) = Target(d, e)
    BY <1>10, <2>1
  <2>3. ASSUME NEW b \in Targets(f) PROVE b \in Targets(d) \cup {block}
    <3>1. PICK e \in Used(f) : b = Target(f, e)
      BY DEF Targets
    <3>2. e = c \/ e \in Used(d)
      BY <1>11
    <3> QED BY <1>9, <2>2, <3>1, <3>2 DEF Targets
  <2>4. ASSUME NEW b \in Targets(d) PROVE b \in Targets(f)
    <3>1. PICK e \in Used(d) : b = Target(d, e)
      BY DEF Targets
    <3> QED BY <1>11, <2>2, <3>1 DEF Targets
  <2>5. block \in Targets(f)
    BY <1>9 DEF Targets
  <2> QED BY <2>3, <2>4, <2>5
<1>13. \A e \in Used(d) : e \in Cells /\ e # c /\ Target(f, e) = Target(d, e) /\ Target(d, e) # block
  BY <1>9, <1>10, SubdirsAreUsed DEF Targets
<1>14. Made(f, {block}) = Made(d, {})
  <2>1. ASSUME NEW b \in Made(f, {block}) PROVE b \in Made(d, {})
    <3>1. b # block /\ (b = Root \/ \E e \in Subdirs(f) : b = Target(f, e))
      BY MadeIs
    <3>2. ASSUME NEW e \in Subdirs(f), b = Target(f, e) PROVE e \in Subdirs(d) /\ b = Target(d, e)
      BY <3>1, <3>2, <1>9, <1>10, SubdirsAreUsed
    <3>3. b \notin {}
      OBVIOUS
    <3>4. CASE b = Root
      BY <3>3, <3>4, MadeIs
    <3>5. CASE \E e \in Subdirs(f) : b = Target(f, e)
      BY <3>2, <3>3, <3>5, MadeIs
    <3> QED BY <3>1, <3>4, <3>5
  <2>2. ASSUME NEW b \in Made(d, {}) PROVE b \in Made(f, {block})
    <3>1. b = Root \/ \E e \in Subdirs(d) : b = Target(d, e)
      BY MadeIs
    <3>2. ASSUME NEW e \in Subdirs(d), b = Target(d, e) PROVE e \in Subdirs(f) /\ b = Target(f, e) /\ b # block
      BY <3>2, <1>10, <1>13, SubdirsAreUsed
    <3>3. CASE b = Root
      <4>1. b # block
        BY <3>3
      <4> QED BY <3>3, <4>1, MadeIs
    <3>4. CASE \E e \in Subdirs(d) : b = Target(d, e)
      <4>1. PICK e \in Subdirs(d) : b = Target(d, e)
        BY <3>4
      <4>2. e \in Subdirs(f) /\ b = Target(f, e) /\ b # block
        BY <4>1, <3>2
      <4> QED BY <4>2, MadeIs
    <3> QED BY <3>1, <3>3, <3>4
  <2> QED BY <2>1, <2>2
<1>15. UnusedSound(f)
  <2> SUFFICES ASSUME NEW b \in Blocks, NEW k \in Offsets, f[b][k].kind \in {"free", "junk"}
               PROVE  f[b][k] \in {Free, Junk}
    BY DEF UnusedSound
  <2>1. f[b][k] = d[b][k] \/ f[b][k] = x
    BY <1>6
  <2> QED BY <2>1, <1>1 DEF UnusedSound
<1>16. UsedSound(f, {block})
  <2> SUFFICES ASSUME NEW e \in Used(f)
               PROVE  /\ Target(f, e) \in Blocks \ {Super, Root}
                      /\ f[e[1]][e[2]].name \in Names /\ e[1] \in Made(f, {block})
    BY DEF UsedSound
  <2>1. CASE e = c
    BY <2>1, <1>0, <1>4, <1>8, <1>9, <1>14
  <2>2. CASE e # c
    <3>1. e \in Used(d)
      BY <2>2, <1>11
    <3> QED BY <3>1, <1>1, <1>7, <1>13, <1>14 DEF UsedSound
  <2> QED BY <2>1, <2>2
<1>17. OneEntryEach(f)
  <2> SUFFICES ASSUME NEW e \in Used(f), NEW g \in Used(f), Target(f, e) = Target(f, g) PROVE e = g
    BY DEF OneEntryEach
  <2>1. e \in Used(d) \/ e = c
    BY <1>11
  <2>2. g \in Used(d) \/ g = c
    BY <1>11
  <2> QED BY <2>1, <2>2, <1>1, <1>9, <1>13 DEF OneEntryEach
<1>18. NamesDiffer(f)
  <2> SUFFICES ASSUME NEW e \in Used(f), NEW g \in Used(f), e[1] = g[1], e # g
               PROVE  f[e[1]][e[2]].name # f[g[1]][g[2]].name
    BY DEF NamesDiffer
  <2>1. CASE e = c
    <3>1. g \in Used(d)
      BY <2>1, <1>11
    <3>2. f[g[1]][g[2]] = d[g[1]][g[2]]
      BY <3>1, <1>7, <1>13
    <3>3. f[e[1]][e[2]].name = x.name
      BY <2>1, <1>8
    <3>4. g[1] = base
      BY <2>1, <1>4
    <3> QED BY <3>1, <3>2, <3>3, <3>4
  <2>2. CASE g = c
    <3>1. e \in Used(d)
      BY <2>2, <1>11
    <3>2. f[e[1]][e[2]] = d[e[1]][e[2]]
      BY <3>1, <1>7, <1>13
    <3>3. f[g[1]][g[2]].name = x.name
      BY <2>2, <1>8
    <3>4. e[1] = base
      BY <2>2, <1>4
    <3> QED BY <3>1, <3>2, <3>3, <3>4
  <2>3. CASE e # c /\ g # c
    <3>1. e \in Used(d) /\ g \in Used(d)
      BY <2>3, <1>11
    <3> QED BY <3>1, <1>1, <1>7, <1>13 DEF NamesDiffer
  <2> QED BY <2>1, <2>2, <2>3
<1>19. \A b \in Blocks : f[b][0] = d[b][0] /\ f[b][1] = d[b][1]
  <2>1. 0 \in Offsets /\ 1 \in Offsets
    BY Numbers
  <2> QED BY <2>1, <1>3, <1>6
<1>20. \A b \in Made(d, {}) : b \in Blocks
  BY <1>1, MadeOnDisk
<1>21. SelfSound(f, {block})
  BY <1>1, <1>14, <1>19, <1>20 DEF SelfSound
<1>22. ParentSound(f, {block})
  <2>1. f[Root][1] = Entry("..", "dir", Root)
    BY <1>1, <1>19, Numbers DEF ParentSound
  <2>2. ASSUME NEW e \in Subdirs(f), Target(f, e) \in Made(f, {block})
        PROVE  f[Target(f, e)][1] = Entry("..", "dir", e[1])
    <3>1. Target(f, e) # block
      BY <2>2, MadeIs
    <3>2. e \in Subdirs(d) /\ Target(f, e) = Target(d, e)
      BY <3>1, <1>9, <1>10, SubdirsAreUsed
    <3> QED BY <2>2, <3>2, <1>1, <1>14, <1>19, <1>20 DEF ParentSound
  <2> QED BY <2>1, <2>2 DEF ParentSound
<1>23. RestZeroed(f, {block})
  BY <1>1, <1>6, <1>14 DEF RestZeroed
<1> QED BY <1>4, <1>6, <1>9, <1>12, <1>15, <1>16, <1>17, <1>18, <1>21, <1>22, <1>23 DEF Tree, c, Added

(* A new file has a block and nothing else to be written.                    *)
LEMMA FileDone ==
  ASSUME NEW d, NEW block, Tree(d, {block}), NEW e \in Used(d), Target(d, e) = block,
         d[e[1]][e[2]].kind = "file"
  PROVE  Tree(d, {})
<1>1. block # Root
  BY DEF Tree, UsedSound
<1>2. \A g \in Subdirs(d) : Target(d, g) # block
  <2> SUFFICES ASSUME NEW g \in Subdirs(d), Target(d, g) = block PROVE FALSE
    OBVIOUS
  <2>1. g \in Used(d) /\ d[g[1]][g[2]].kind = "dir"
    BY SubdirsAreUsed
  <2>2. g = e
    BY <2>1 DEF Tree, OneEntryEach
  <2> QED BY <2>1, <2>2
<1>3. Made(d, {block}) = Made(d, {})
  BY <1>1, <1>2 DEF Made
<1> QED BY <1>3 DEF Tree, UsedSound, SelfSound, ParentSound, RestZeroed

LEMMA NamesKept ==
  ASSUME NEW d, NEW f, NamesDiffer(d), Used(f) = Used(d),
         \A g \in Used(d) : f[g[1]][g[2]] = d[g[1]][g[2]]
  PROVE  NamesDiffer(f)
<1>1. ASSUME NEW g \in Used(d), NEW h \in Used(d), g[1] = h[1], g # h
      PROVE  f[g[1]][g[2]].name # f[h[1]][h[2]].name
  <2>1. f[g[1]][g[2]] = d[g[1]][g[2]] /\ f[h[1]][h[2]] = d[h[1]][h[2]]
    OBVIOUS
  <2> QED BY <1>1, <2>1 DEF NamesDiffer
<1> QED BY <1>1 DEF NamesDiffer

(* Create_Directory: the new directory's block is written.                   *)
LEMMA DirectoryDone ==
  ASSUME NEW d, NEW block, Tree(d, {block}), NEW e \in Subdirs(d), Target(d, e) = block,
         NEW f, Rewritten(d, f, block, NewDirectory(block, e[1]))
  PROVE  Tree(f, {}) /\ Targets(f) = Targets(d)
<1>1. /\ d \in Contents /\ UnusedSound(d) /\ UsedSound(d, {block}) /\ OneEntryEach(d) /\ NamesDiffer(d)
      /\ SelfSound(d, {block}) /\ ParentSound(d, {block}) /\ RestZeroed(d, {block})
  BY DEF Tree
<1>2. e \in Cells /\ e \in Used(d) /\ block \in Blocks \ {Super, Root} /\ e[1] \in Blocks
  BY <1>1, SubdirsAreUsed, CellIs DEF UsedSound
<1>3. PICK x : x = NewDirectory(block, e[1])
  OBVIOUS
<1>4. /\ x \in [Offsets -> Entries] /\ x[0] = Entry(".", "dir", block)
      /\ x[1] = Entry("..", "dir", e[1]) /\ \A i \in 2..(NumEntries - 1) : x[i] = Free
  BY <1>2, <1>3, NewDirectoryIs
<1>5. f \in Contents /\ f[block] = x /\ \A b \in Blocks : b # block => f[b] = d[b]
  BY <1>3 DEF Rewritten
<1>6. block \notin Made(d, {block}) /\ d[block] = Zeroed
  BY <1>1, <1>2, MadeIs DEF RestZeroed
<1>7. ASSUME NEW g \in Cells PROVE f[g[1]][g[2]] = d[g[1]][g[2]]
  <2>1. g[1] \in Blocks /\ g[2] \in Offsets /\ g[2] \in 2..(NumEntries - 1)
    BY CellIs
  <2>2. CASE g[1] = block
    <3>1. f[g[1]][g[2]] = Free
      BY <2>1, <2>2, <1>4, <1>5
    <3>2. d[g[1]][g[2]] = Free
      BY <2>1, <2>2, <1>6, FreeIs
    <3> QED BY <3>1, <3>2
  <2>3. CASE g[1] # block
    BY <2>1, <2>3, <1>5
  <2> QED BY <2>2, <2>3
<1>8. Used(f) = Used(d) /\ Subdirs(f) = Subdirs(d) /\ \A g \in Cells : Target(f, g) = Target(d, g)
  BY <1>7 DEF Used, Subdirs, Target
<1>9. \A g \in Used(d) : g \in Cells
  BY SubdirsAreUsed
<1>10. \A g \in Subdirs(d) : g \in Cells /\ g \in Used(d)
  BY SubdirsAreUsed
<1>11. Targets(f) = Targets(d)
  BY <1>8, <1>9 DEF Targets
<1>12. Made(f, {}) = Made(d, {block}) \cup {block}
  <2>1. Made(f, {}) = {Root} \cup {Target(d, g) : g \in Subdirs(d)}
    BY <1>8, <1>10 DEF Made
  <2>2. block \in {Target(d, g) : g \in Subdirs(d)}
    OBVIOUS
  <2> QED BY <2>1, <2>2 DEF Made
<1>13. UnusedSound(f)
  <2> SUFFICES ASSUME NEW b \in Blocks, NEW k \in Offsets, f[b][k].kind \in {"free", "junk"}
               PROVE  f[b][k] \in {Free, Junk}
    BY DEF UnusedSound
  <2>1. CASE b # block
    BY <2>1, <1>1, <1>5 DEF UnusedSound
  <2>2. CASE b = block /\ k \in 2..(NumEntries - 1)
    BY <2>2, <1>4, <1>5
  <2>3. CASE b = block /\ (k = 0 \/ k = 1)
    <3>1. x[k].kind = "dir"
      BY <2>3, <1>4, EntryIs
    <3> QED BY <2>3, <3>1, <1>5
  <2> QED BY <2>1, <2>2, <2>3, Numbers
<1>14. UsedSound(f, {})
  <2> SUFFICES ASSUME NEW g \in Used(f)
               PROVE  /\ Target(f, g) \in Blocks \ {Super, Root}
                      /\ f[g[1]][g[2]].name \in Names /\ g[1] \in Made(f, {})
    BY DEF UsedSound
  <2>1. g \in Used(d) /\ g \in Cells
    BY <1>8, <1>9
  <2> QED BY <2>1, <1>1, <1>7, <1>8, <1>12 DEF UsedSound
<1>15. OneEntryEach(f)
  BY <1>1, <1>8, <1>9 DEF OneEntryEach
<1>16. NamesDiffer(f)
  BY <1>1, <1>7, <1>8, <1>9, NamesKept
<1>17. \A b \in Made(d, {block}) : b \in Blocks /\ b # block
  BY <1>1, <1>6, MadeOnDisk
<1>18. SelfSound(f, {})
  <2> SUFFICES ASSUME NEW b \in Made(f, {}) PROVE f[b][0] = Entry(".", "dir", b)
    BY DEF SelfSound
  <2>1. CASE b = block
    BY <2>1, <1>4, <1>5
  <2>2. CASE b # block
    BY <2>2, <1>1, <1>5, <1>12, <1>17 DEF SelfSound
  <2> QED BY <2>1, <2>2
<1>19. ParentSound(f, {})
  <2>1. f[Root][1] = Entry("..", "dir", Root)
    BY <1>1, <1>2, <1>5, Numbers DEF ParentSound
  <2>2. ASSUME NEW g \in Subdirs(f), Target(f, g) \in Made(f, {})
        PROVE  f[Target(f, g)][1] = Entry("..", "dir", g[1])
    <3>1. g \in Subdirs(d) /\ g \in Used(d) /\ Target(f, g) = Target(d, g)
      BY <1>8, <1>10
    <3>2. CASE Target(d, g) = block
      <4>1. g = e
        BY <3>1, <3>2, <1>1, <1>2 DEF OneEntryEach
      <4> QED BY <4>1, <3>1, <3>2, <1>4, <1>5
    <3>3. CASE Target(d, g) # block
      <4>1. Target(d, g) \in Made(d, {block})
        BY <2>2, <3>1, <3>3, <1>12
      <4>2. f[Target(d, g)] = d[Target(d, g)]
        BY <4>1, <1>5, <1>17
      <4> QED BY <3>1, <4>1, <4>2, <1>1 DEF ParentSound
    <3> QED BY <3>2, <3>3
  <2> QED BY <2>1, <2>2 DEF ParentSound
<1>20. RestZeroed(f, {})
  BY <1>1, <1>5, <1>12 DEF RestZeroed
<1> QED BY <1>5, <1>11, <1>13, <1>14, <1>15, <1>16, <1>18, <1>19, <1>20 DEF Tree

(* GOSFS_Delete: the entry is freed and its block filled with zeros.           *)
LEMMA EntryErased ==
  ASSUME NEW d, Tree(d, {}), NEW c \in Used(d), NEW block, block = Target(d, c), block # c[1],
         d[c[1]][c[2]].kind = "dir" => \A i \in 2..(NumEntries - 1) : d[block][i].kind = "free",
         NEW z, Rewritten(d, z, block, Zeroed), NEW f, Written(z, f, c[1], c[2], Free)
  PROVE  Tree(f, {}) /\ Targets(f) = Targets(d) \ {block}
<1>1. /\ d \in Contents /\ UnusedSound(d) /\ UsedSound(d, {}) /\ OneEntryEach(d) /\ NamesDiffer(d)
      /\ SelfSound(d, {}) /\ ParentSound(d, {}) /\ RestZeroed(d, {})
  BY DEF Tree
<1>2. /\ c \in Cells /\ block \in Blocks \ {Super, Root} /\ c[1] \in Blocks /\ c[1] \in Made(d, {})
      /\ c[2] \in Offsets /\ c[2] # 0 /\ c[2] # 1 /\ c = <<c[1], c[2]>>
  BY <1>1, SubdirsAreUsed, CellIs DEF UsedSound
<1>4. z \in Contents /\ z[block] = Zeroed /\ \A b \in Blocks : b # block => z[b] = d[b]
  BY DEF Rewritten
<1>5. /\ f \in Contents /\ f[c[1]][c[2]] = Free
      /\ \A b \in Blocks : b # c[1] => f[b] = z[b]
      /\ \A k \in Offsets : k # c[2] => f[c[1]][k] = d[c[1]][k]
  BY <1>2, <1>4 DEF Written
<1>6. f[block] = Zeroed /\ \A b \in Blocks : b # block /\ b # c[1] => f[b] = d[b]
  BY <1>2, <1>4, <1>5
<1>7. d[block] = Zeroed \/ (block \in Made(d, {}) /\ c \in Subdirs(d))
  <2>1. CASE block \in Made(d, {})
    <3>1. PICK e \in Subdirs(d) : block = Target(d, e)
      BY <2>1, <1>2, MadeIs
    <3>2. e \in Used(d)
      BY <3>1, SubdirsAreUsed
    <3>3. e = c
      BY <3>1, <3>2, <1>1 DEF OneEntryEach
    <3> QED BY <2>1, <3>1, <3>3
  <2>2. CASE block \notin Made(d, {})
    BY <2>2, <1>1, <1>2 DEF RestZeroed
  <2> QED BY <2>1, <2>2
<1>8. \A i \in 2..(NumEntries - 1) : i \in Offsets /\ d[block][i].kind = "free"
  <2>1. CASE d[block] = Zeroed
    BY <2>1, Numbers, FreeIs
  <2>2. CASE c \in Subdirs(d)
    BY <2>2, Numbers, SubdirsAreUsed
  <2> QED BY <2>1, <2>2, <1>7
<1>9. \A e \in Used(d) : e \in Cells /\ e[1] # block
  <2> SUFFICES ASSUME NEW e \in Used(d), e[1] = block PROVE FALSE
    BY SubdirsAreUsed
  <2>1. e[2] \in 2..(NumEntries - 1) /\ d[e[1]][e[2]].kind \in {"file", "dir"}
    BY SubdirsAreUsed, CellIs
  <2> QED BY <2>1, <1>8
<1>10. ASSUME NEW e \in Cells, e # c, e[1] # block PROVE f[e[1]][e[2]] = d[e[1]][e[2]]
  <2>1. e[1] \in Blocks /\ e[2] \in Offsets /\ e = <<e[1], e[2]>>
    BY CellIs
  <2>2. e[1] # c[1] \/ e[2] # c[2]
    BY <2>1, <1>2, <1>10
  <2> QED BY <2>1, <2>2, <1>5, <1>6, <1>10
<1>11. ASSUME NEW e \in Cells, e = c \/ e[1] = block PROVE f[e[1]][e[2]] = Free
  <2>1. e[1] \in Blocks /\ e[2] \in Offsets
    BY CellIs
  <2> QED BY <2>1, <1>5, <1>6, <1>11, FreeIs
<1>12. ASSUME NEW e PROVE e \in Used(f) <=> e \in Used(d) /\ e # c
  <2>1. CASE e \in Cells /\ e # c /\ e[1] # block
    BY <2>1, <1>10 DEF Used
  <2>2. CASE e \in Cells /\ (e = c \/ e[1] = block)
    <3>1. e \notin Used(f)
      BY <2>2, <1>11, FreeIs DEF Used
    <3> QED BY <2>2, <3>1, <1>9
  <2>3. CASE e \notin Cells
    BY <2>3 DEF Used
  <2> QED BY <2>1, <2>2, <2>3
<1>13. ASSUME NEW e \in Used(f)
       PROVE  /\ e \in Used(d) /\ e # c /\ e \in Cells /\ e[1] # block /\ f[e[1]][e[2]] = d[e[1]][e[2]]
              /\ Target(f, e) = Target(d, e) /\ (e \in Subdirs(f) <=> e \in Subdirs(d))
  <2>1. e \in Used(d) /\ e # c /\ e \in Cells /\ e[1] # block
    BY <1>9, <1>12
  <2>2. f[e[1]][e[2]] = d[e[1]][e[2]]
    BY <2>1, <1>10
  <2> QED BY <2>1, <2>2 DEF Target, Subdirs
<1>14. Targets(f) = Targets(d) \ {block}
  <2>1. ASSUME NEW b \in Targets(f) PROVE b \in Targets(d) /\ b # block
    <3>1. PICK e \in Used(f) : b = Target(f, e)
      BY DEF Targets
    <3>2. e \in Used(d) /\ e # c /\ b = Target(d, e)
      BY <3>1, <1>13
    <3> QED BY <3>2, <1>1 DEF Targets, OneEntryEach
  <2>2. ASSUME NEW b \in Targets(d), b # block PROVE b \in Targets(f)
    <3>1. PICK e \in Used(d) : b = Target(d, e)
      BY DEF Targets
    <3>2. e \in Used(f)
      BY <3>1, <2>2, <1>12
    <3> QED BY <3>1, <3>2, <1>13 DEF Targets
  <2> QED BY <2>1, <2>2
<1>15. \A e \in Subdirs(f) : e \in Used(f) /\ e \in Subdirs(d)
  BY <1>13, SubdirsAreUsed
<1>16. \A e \in Subdirs(d) : e # c => e \in Subdirs(f) /\ e \in Used(f)
  BY <1>12, <1>13, SubdirsAreUsed
<1>17. Made(f, {}) = Made(d, {}) \ {block}
  <2>1. ASSUME NEW b \in Made(f, {}) PROVE b \in Made(d, {}) /\ b # block
    <3>1. CASE b = Root
      <4>1. b \notin {}
        OBVIOUS
      <4> QED BY <3>1, <4>1, <1>2, MadeIs
    <3>2. CASE b # Root
      <4>1. PICK e \in Subdirs(f) : b = Target(f, e)
        BY <3>2, MadeIs
      <4>2. e \in Subdirs(d) /\ e \in Used(d) /\ e # c /\ b = Target(d, e)
        BY <4>1, <1>13, <1>15
      <4>3. b # block
        BY <4>2, <1>1 DEF OneEntryEach
      <4> QED BY <4>2, <4>3, MadeIs
    <3> QED BY <3>1, <3>2
  <2>2. ASSUME NEW b \in Made(d, {}), b # block PROVE b \in Made(f, {})
    <3>1. CASE b = Root
      <4>1. b \notin {}
        OBVIOUS
      <4> QED BY <3>1, <4>1, MadeIs
    <3>2. CASE b # Root
      <4>1. PICK e \in Subdirs(d) : b = Target(d, e)
        BY <3>2, MadeIs
      <4>2. e \in Subdirs(f) /\ b = Target(f, e)
        BY <4>1, <2>2, <1>13, <1>16
      <4>3. b \notin {}
        OBVIOUS
      <4> QED BY <4>2, <4>3, MadeIs
    <3> QED BY <3>1, <3>2
  <2> QED BY <2>1, <2>2
<1>18. UnusedSound(f)
  <2> SUFFICES ASSUME NEW b \in Blocks, NEW k \in Offsets, f[b][k].kind \in {"free", "junk"}
               PROVE  f[b][k] \in {Free, Junk}
    BY DEF UnusedSound
  <2>1. f[b][k] = Free \/ f[b][k] = d[b][k]
    <3>1. CASE b = block
      BY <3>1, <1>6, FreeIs
    <3>2. CASE b = c[1]
      BY <3>2, <1>2, <1>5
    <3>3. CASE b # block /\ b # c[1]
      BY <3>3, <1>6
    <3> QED BY <3>1, <3>2, <3>3
  <2> QED BY <2>1, <1>1 DEF UnusedSound
<1>19. UsedSound(f, {})
  <2> SUFFICES ASSUME NEW g \in Used(f)
               PROVE  /\ Target(f, g) \in Blocks \ {Super, Root}
                      /\ f[g[1]][g[2]].name \in Names /\ g[1] \in Made(f, {})
    BY DEF UsedSound
  <2> QED BY <1>1, <1>13, <1>17 DEF UsedSound
<1>20. OneEntryEach(f)
  BY <1>1, <1>13 DEF OneEntryEach
<1>21. NamesDiffer(f)
  <2> SUFFICES ASSUME NEW g \in Used(f), NEW h \in Used(f), g[1] = h[1], g # h
               PROVE  f[g[1]][g[2]].name # f[h[1]][h[2]].name
    BY Zenon DEF NamesDiffer
  <2>1. g \in Used(d) /\ h \in Used(d) /\ f[g[1]][g[2]] = d[g[1]][g[2]] /\ f[h[1]][h[2]] = d[h[1]][h[2]]
    BY <1>13
  <2> QED BY <2>1, <1>1 DEF NamesDiffer
<1>22. ASSUME NEW b \in Blocks, b # block PROVE f[b][0] = d[b][0] /\ f[b][1] = d[b][1]
  <2>1. 0 \in Offsets /\ 1 \in Offsets
    BY Numbers
  <2> QED BY <2>1, <1>2, <1>5, <1>6, <1>22
<1>23. \A b \in Made(d, {}) : b \in Blocks
  BY <1>1, MadeOnDisk
<1>24. SelfSound(f, {})
  <2> SUFFICES ASSUME NEW b \in Made(f, {}) PROVE f[b][0] = Entry(".", "dir", b)
    BY DEF SelfSound
  <2>1. b \in Made(d, {}) /\ b # block /\ b \in Blocks
    BY <1>17, <1>23
  <2> QED BY <2>1, <1>1, <1>22 DEF SelfSound
<1>25. ParentSound(f, {})
  <2>1. f[Root][1] = Entry("..", "dir", Root)
    BY <1>1, <1>2, <1>22, Numbers DEF ParentSound
  <2>2. ASSUME NEW g \in Subdirs(f), Target(f, g) \in Made(f, {})
        PROVE  f[Target(f, g)][1] = Entry("..", "dir", g[1])
    <3>1. g \in Subdirs(d) /\ Target(f, g) = Target(d, g)
      BY <1>13, <1>15
    <3>2. Target(d, g) \in Made(d, {}) /\ Target(d, g) # block /\ Target(d, g) \in Blocks
      BY <2>2, <3>1, <1>17, <1>23
    <3> QED BY <3>1, <3>2, <1>1, <1>22 DEF ParentSound
  <2> QED BY <2>1, <2>2 DEF ParentSound
<1>26. RestZeroed(f, {})
  <2> SUFFICES ASSUME NEW b \in Blocks \ Made(f, {}) PROVE f[b] = Zeroed
    BY DEF RestZeroed
  <2>1. CASE b = block
    BY <2>1, <1>6
  <2>2. CASE b # block
    BY <2>2, <1>1, <1>2, <1>6, <1>17 DEF RestZeroed
  <2> QED BY <2>1, <2>2
<1> QED BY <1>5, <1>14, <1>18, <1>19, <1>20, <1>21, <1>24, <1>25, <1>26 DEF Tree

-----------------------------------------------------------------------------
(* Jobs *)

(* The least of a set that is not empty.                                     *)
LEMMA LeastFact ==
  ASSUME NEW S \in SUBSET Nat, S # {}
  PROVE  \E x \in S : \A y \in S : x =< y
<1> DEFINE R == {ss \in Nat \X Nat : ss[1] < ss[2]}
<1>1. IsWellFoundedOn(R, Nat)
  <2>1. R = OpToRel(<, Nat)
    BY Zenon DEF OpToRel
  <2>2. QED BY <2>1, NatLessThanWellFounded, Zenon
<1>2. PICK x \in S : \A y \in S : ~ (<<y, x>> \in R)
  <2> HIDE DEF R
  <2>1. QED BY <1>1, WFMin
<1>3. ASSUME NEW y \in S PROVE x =< y
  <2>1. x \in Nat /\ y \in Nat /\ <<y, x>> \in Nat \X Nat
    OBVIOUS
  <2>2. ~ (y < x)
    BY <1>2, <2>1, Zenon
  <2>3. QED BY <2>1, <2>2
<1>4. QED BY <1>3

LEMMA MinFact ==
  ASSUME NEW S \in SUBSET Nat, S # {} PROVE Min(S) \in S
  BY LeastFact DEF Min

LEMMA PathStep ==
  ASSUME NEW s \in Seq(Components), s # <<>>
  PROVE  /\ Head(s) \in Components /\ Tail(s) \in Seq(Components) /\ Len(s) \in Nat
         /\ (Len(s) = 1 <=> Tail(s) = <<>>)
<1>1. Head(s) \in Components /\ Tail(s) \in Seq(Components) /\ Len(s) \in Nat
  BY HeadTailProperties
<1>2. Len(Tail(s)) = Len(s) - 1
  BY HeadTailProperties
<1>3. Tail(s) = <<>> <=> Len(Tail(s)) = 0
  BY <1>1, EmptySeq
<1> QED BY <1>1, <1>2, <1>3

LEMMA PathsAre == Paths \subseteq Seq(Components)
<1> SUFFICES ASSUME NEW s \in Paths PROVE s \in Seq(Components)
  OBVIOUS
<1>1. PICK n \in 0..MaxPath : s \in [1..n -> Components]
  BY DEF Paths, Components
<1>2. n \in Nat
  BY GOSFSAssumption
<1> QED BY <1>1, <1>2, SeqDef

LEMMA JobsAre ==
  ASSUME NEW j \in Jobs
  PROVE  /\ j.path \in Seq(Components) /\ j.base \in Blocks /\ j.offset \in Offsets \cup {Full}
         /\ j.name \in Components \cup {NoName} /\ j.found \in {"yes", "no", "wrong path"}
         /\ j.stage \in ReadStages \cup WriteStages /\ j.block \in Blocks
  BY DEF Jobs

LEMMA IdleIs ==
  /\ Idle \in Jobs /\ Idle.stage = "idle" /\ Idle.base = Super /\ Idle.offset = 0 /\ Idle.block = Super
  /\ Idle.path = <<>> /\ Idle.found = "no" /\ Idle.name = NoName
<1>1. <<>> \in Seq(Components)
  OBVIOUS
<1> QED BY <1>1, Numbers DEF Idle, Jobs, ReadStages, Components, Super

(* A part of the bitmap beyond the disk would be searched only in a last byte  *)
(* that is not whole.                                                        *)
LEMMA BitsOnDisk == WholeBytes => FreeBits \subseteq Blocks
<1> SUFFICES ASSUME WholeBytes PROVE FreeBits \subseteq Blocks
  OBVIOUS
<1>1. NumBlocks \in Nat /\ ByteBits \in Nat \ {0}
  BY GOSFSAssumption
<1> DEFINE q == NumBlocks \div ByteBits
           r == (NumBlocks + ByteBits - 1) \div ByteBits
<1>2. q \in Int /\ NumBlocks = ByteBits * q
  BY <1>1 DEF WholeBytes
<1>3. r \in Int /\ ByteBits * r =< NumBlocks + ByteBits - 1
  BY <1>1
<1>4. r * ByteBits =< NumBlocks
  <2> HIDE DEF q, r
  <2>1. r =< q
    <3> SUFFICES ASSUME r > q PROVE FALSE
      BY <1>2, <1>3
    <3>1. r >= q + 1
      BY <1>2, <1>3
    <3>2. ByteBits * r >= ByteBits * (q + 1)
      BY <3>1, <1>1, <1>2, <1>3
    <3>3. ByteBits * (q + 1) = NumBlocks + ByteBits
      BY <1>1, <1>2
    <3> QED BY <3>2, <3>3, <1>1, <1>2, <1>3
  <2> QED BY <2>1, <1>1, <1>2, <1>3
<1> HIDE DEF q, r
<1>5. r * ByteBits \in Int
  BY <1>1, <1>3
<1>6. FreeBits = (0..(r * ByteBits - 1)) \ bitmap
  BY DEF FreeBits, r
<1> QED BY <1>1, <1>4, <1>5, <1>6 DEF Blocks

(* A change of a job keeps the invariant if what it says of the job holds.    *)
LEMMA BlocksAtIs ==
  ASSUME OneWriter, NEW w \in Writers, NEW jobs, NEW stages
  PROVE  BlocksAt(jobs, stages) = IF jobs[w].stage \in stages THEN {jobs[w].block} ELSE {}
<1>1. \A v \in Writers : v = w
  BY DEF OneWriter
<1>2. CASE jobs[w].stage \in stages
  BY <1>1, <1>2 DEF BlocksAt
<1>3. CASE jobs[w].stage \notin stages
  BY <1>1, <1>3 DEF BlocksAt
<1> QED BY <1>2, <1>3

LEMMA ReaderSteps ==
  ASSUME GOSFSInv, NEW p \in Procs \ Writers, NEW n \in Jobs, JobSound(p, n),
         job' = [job EXCEPT ![p] = n], UNCHANGED <<dir, bitmap, held>>,
         dentry' \in [Procs -> [base : Blocks, offset : Offsets, block : Blocks]], broken' \in BOOLEAN
  PROVE  GOSFSInv'
<1>1. job \in [Procs -> Jobs] /\ Writers \subseteq Procs
  BY GOSFSAssumption DEF GOSFSInv, Types
<1>2. dir' = dir /\ bitmap' = bitmap /\ held' = held
  OBVIOUS
<1>3. job' \in [Procs -> Jobs] /\ job'[p] = n /\ \A q \in Procs : q # p => job'[q] = job[q]
  BY <1>1
<1>4. Types'
  BY <1>2, <1>3 DEF GOSFSInv, Types
<1>5. \A w \in Writers : job'[w] = job[w]
  BY <1>1, <1>3
<1>6. ASSUME NEW stages PROVE BlocksAt(job', stages) = BlocksAt(job, stages)
  BY <1>5 DEF BlocksAt
<1>7. DiskSound'
  BY <1>2, <1>6 DEF GOSFSInv, DiskSound, New, Gone
<1>8. JobsSound'
  <2>1. ASSUME NEW q \in Procs PROVE JobSound(q, job'[q])
    BY <1>3 DEF GOSFSInv, JobsSound
  <2>2. ASSUME NEW w \in Writers PROVE WriterSound(dir', held', w, job'[w])
    BY <1>2, <1>5 DEF GOSFSInv, JobsSound
  <2> QED BY <2>1, <2>2 DEF JobsSound
<1> QED BY <1>4, <1>7, <1>8 DEF GOSFSInv

LEMMA WriterSteps ==
  ASSUME GOSFSInv, OneWriter, NEW p \in Writers, NEW n \in Jobs, JobSound(p, n),
         job' = [job EXCEPT ![p] = n], dentry' = dentry, broken' \in BOOLEAN,
         held' \in [Blocks -> Procs \cup {Nobody, Mounted}], held'[Super] = Mounted,
         Tree(dir', IF n.stage \in {"mark", "fill"} THEN {n.block} ELSE {}),
         bitmap' = ({Super, Root} \cup Targets(dir')) \ (IF n.stage \in {"mark", "erase"} THEN {n.block} ELSE {}),
         WriterSound(dir', held', p, n)
  PROVE  GOSFSInv'
<1>1. job \in [Procs -> Jobs] /\ p \in Procs
  BY GOSFSAssumption DEF GOSFSInv, Types
<1>2. job' \in [Procs -> Jobs] /\ job'[p] = n /\ \A q \in Procs : q # p => job'[q] = job[q]
  BY <1>1
<1>3. Types'
  BY <1>2 DEF GOSFSInv, Types
<1>4. DiskSound'
  <2>1. New' = IF n.stage \in {"mark", "fill"} THEN {n.block} ELSE {}
    <3>1. New' = BlocksAt(job', {"mark", "fill"})
      BY DEF New
    <3>2. BlocksAt(job', {"mark", "fill"}) = IF job'[p].stage \in {"mark", "fill"} THEN {job'[p].block} ELSE {}
      BY BlocksAtIs, Zenon
    <3> QED BY <1>2, <3>1, <3>2
  <2>2. Gone' = IF n.stage \in {"mark", "erase"} THEN {n.block} ELSE {}
    <3>1. Gone' = BlocksAt(job', {"mark", "erase"})
      BY DEF Gone
    <3>2. BlocksAt(job', {"mark", "erase"}) = IF job'[p].stage \in {"mark", "erase"} THEN {job'[p].block} ELSE {}
      BY BlocksAtIs, Zenon
    <3> QED BY <1>2, <3>1, <3>2
  <2> QED BY <2>1, <2>2 DEF DiskSound
<1>5. JobsSound'
  <2>1. ASSUME NEW q \in Procs PROVE JobSound(q, job'[q])
    BY <1>2 DEF GOSFSInv, JobsSound
  <2>2. ASSUME NEW w \in Writers PROVE WriterSound(dir', held', w, job'[w])
    <3>1. w = p
      BY DEF OneWriter
    <3> QED BY <3>1, <1>2
  <2> QED BY <2>1, <2>2 DEF JobsSound
<1> QED BY <1>3, <1>4, <1>5 DEF GOSFSInv

(* What the invariant says where the writer is not at its work.               *)
LEMMA DiskAt ==
  ASSUME GOSFSInv, OneWriter, NEW p \in Writers
  PROVE  /\ Tree(dir, IF job[p].stage \in {"mark", "fill"} THEN {job[p].block} ELSE {})
         /\ bitmap = ({Super, Root} \cup Targets(dir)) \ (IF job[p].stage \in {"mark", "erase"} THEN {job[p].block} ELSE {})
         /\ job[p].stage \notin {"mark", "fill"} => Tree(dir, {})
         /\ job[p].stage \notin {"mark", "erase"} => bitmap = {Super, Root} \cup Targets(dir)
         /\ job[p] \in Jobs /\ JobSound(p, job[p]) /\ WriterSound(dir, held, p, job[p]) /\ p \in Procs
<1>1. p \in Procs
  BY GOSFSAssumption
<1>2. job[p] \in Jobs /\ JobSound(p, job[p]) /\ WriterSound(dir, held, p, job[p])
  BY <1>1 DEF GOSFSInv, Types, JobsSound
<1>3. New = IF job[p].stage \in {"mark", "fill"} THEN {job[p].block} ELSE {}
  BY BlocksAtIs DEF New
<1>4. Gone = IF job[p].stage \in {"mark", "erase"} THEN {job[p].block} ELSE {}
  BY BlocksAtIs DEF Gone
<1> QED BY <1>1, <1>2, <1>3, <1>4 DEF GOSFSInv, DiskSound

LEMMA JobMoves ==
  ASSUME GOSFSInv, OneWriter, NEW p \in Procs, NEW n \in Jobs, JobSound(p, n), Goto(p, n),
         p \in Writers => /\ job[p].stage \notin {"mark", "fill", "erase"}
                          /\ n.stage \notin {"mark", "fill", "erase"} /\ WriterSound(dir, held, p, n)
  PROVE  GOSFSInv'
<1>1. /\ job' = [job EXCEPT ![p] = n] /\ dir' = dir /\ bitmap' = bitmap /\ held' = held
      /\ dentry' = dentry /\ broken' = broken
  BY DEF Goto
<1>2. Types
  BY DEF GOSFSInv
<1>3. CASE p \in Writers
  <2>1. Tree(dir, {}) /\ bitmap = {Super, Root} \cup Targets(dir)
    BY <1>3, DiskAt
  <2>2. n.stage \notin {"mark", "fill"} /\ n.stage \notin {"mark", "erase"}
    BY <1>3
  <2> QED BY <1>1, <1>2, <1>3, <2>1, <2>2, WriterSteps DEF Types
<1>4. CASE p \notin Writers
  BY <1>1, <1>2, <1>4, ReaderSteps DEF Types
<1> QED BY <1>3, <1>4

LEMMA BreakKeeps == GOSFSInv /\ Break => GOSFSInv'
<1> SUFFICES ASSUME GOSFSInv, Break PROVE GOSFSInv'
  OBVIOUS
<1>1. dir' = dir /\ bitmap' = bitmap /\ held' = held /\ job' = job /\ dentry' = dentry /\ broken' = TRUE
  BY DEF Break
<1>2. New' = New /\ Gone' = Gone
  BY <1>1 DEF New, Gone
<1> QED BY <1>1, <1>2 DEF GOSFSInv, Types, DiskSound, JobsSound

LEMMA StutterKeeps == GOSFSInv /\ UNCHANGED vars => GOSFSInv'
<1> SUFFICES ASSUME GOSFSInv, UNCHANGED vars PROVE GOSFSInv'
  OBVIOUS
<1>1. dir' = dir /\ bitmap' = bitmap /\ held' = held /\ job' = job /\ dentry' = dentry /\ broken' = broken
  BY DEF vars
<1>2. New' = New /\ Gone' = Gone
  BY <1>1 DEF New, Gone
<1> QED BY <1>1, <1>2 DEF GOSFSInv, Types, DiskSound, JobsSound

-----------------------------------------------------------------------------
(* Looking up a path *)

LEMMA Walks ==
  ASSUME NEW d, Tree(d, {}), NEW b \in Made(d, {})
  PROVE  /\ b \in Blocks \ {Super} /\ d \in Contents
         /\ d[b][0] = Entry(".", "dir", b)
         /\ d[b][1].kind = "dir" /\ d[b][1].name = ".." /\ d[b][1].block \in Made(d, {})
         /\ b # Root => /\ \E e \in Subdirs(d) : b = Target(d, e) /\ e[1] = d[b][1].block
         /\ b = Root => d[b][1].block = b
<1>1. /\ d \in Contents /\ UsedSound(d, {}) /\ SelfSound(d, {}) /\ ParentSound(d, {})
  BY DEF Tree
<1>2. b \in Blocks \ {Super} /\ d[b][0] = Entry(".", "dir", b)
  BY <1>1, MadeOnDisk DEF SelfSound
<1>3. CASE b = Root
  <2>1. d[b][1] = Entry("..", "dir", Root)
    BY <1>1, <1>3 DEF ParentSound
  <2> QED BY <1>1, <1>2, <1>3, <2>1, EntryIs
<1>4. CASE b # Root
  <2>1. PICK e \in Subdirs(d) : b = Target(d, e)
    BY <1>1, <1>4, MadeOnDisk
  <2>2. d[b][1] = Entry("..", "dir", e[1]) /\ e[1] \in Made(d, {})
    BY <1>1, <2>1, SubdirsAreUsed DEF ParentSound, UsedSound
  <2>3. d[b][1].block = e[1] /\ d[b][1].kind = "dir" /\ d[b][1].name = ".."
    BY <2>2, EntryIs
  <2> QED BY <1>1, <1>2, <1>4, <2>1, <2>2, <2>3
<1> QED BY <1>3, <1>4

LEMMA EntryLeads ==
  ASSUME NEW d, Tree(d, {}), NEW b \in Made(d, {}), NEW i \in Offsets, d[b][i].kind \in {"file", "dir"}
  PROVE  /\ i # 0 /\ i # 1 => <<b, i>> \in Used(d)
         /\ d[b][i].kind = "dir" => d[b][i].block \in Made(d, {})
         /\ i = 0 => d[b][i].block = b
<1>1. b \in Blocks /\ d[b][0].block = b /\ d[b][1].block \in Made(d, {})
  BY Walks, EntryIs
<1>2. CASE i # 0 /\ i # 1
  <2>1. <<b, i>> \in Cells /\ <<b, i>>[1] = b /\ <<b, i>>[2] = i
    BY <1>1, <1>2, IsCell
  <2>2. <<b, i>> \in Used(d)
    BY <2>1 DEF Used
  <2>3. d[b][i].kind = "dir" => <<b, i>> \in Subdirs(d) /\ Target(d, <<b, i>>) = d[b][i].block
    BY <2>1 DEF Subdirs, Target
  <2> QED BY <1>2, <2>2, <2>3, MadeIs
<1>3. CASE i = 0
  BY <1>1, <1>3
<1>4. CASE i = 1
  BY <1>1, <1>4
<1> QED BY <1>2, <1>3, <1>4


LEMMA JobAt ==
  ASSUME GOSFSInv, NEW p \in Procs
  PROVE  /\ job[p] \in Jobs /\ JobSound(p, job[p]) /\ dir \in Contents
         /\ p \in Writers => WriterSound(dir, held, p, job[p])
  BY DEF GOSFSInv, Types, JobsSound, DiskSound, Tree

LEMMA StartKeeps ==
  ASSUME GOSFSInv, OneWriter, NEW p \in Procs, Start(p)
  PROVE  GOSFSInv'
<1>1. PICK path \in Paths :
        /\ job[p].stage = "idle"
        /\ Goto(p, [Idle EXCEPT !.path = path, !.stage = Onward(path), !.found = "yes",
                                !.base = IF path = <<>> THEN Super ELSE Root])
  BY DEF Start
<1>2. PICK n : n = [Idle EXCEPT !.path = path, !.stage = Onward(path), !.found = "yes",
                                !.base = IF path = <<>> THEN Super ELSE Root]
  OBVIOUS
<1>3. path \in Seq(Components)
  BY PathsAre
<1>4. n = [path |-> path, base |-> IF path = <<>> THEN Super ELSE Root, offset |-> 0, name |-> NoName,
           found |-> "yes", stage |-> Onward(path), block |-> 0]
  BY <1>2 DEF Idle
<1>5. /\ n \in Jobs /\ n.path = path /\ n.offset = 0 /\ n.found = "yes" /\ n.stage = Onward(path)
      /\ n.base = IF path = <<>> THEN Super ELSE Root
  BY <1>3, <1>4, Numbers DEF Jobs, Onward, ReadStages, WalkStages
<1>6. JobSound(p, n)
  BY <1>5, Numbers DEF JobSound, Onward, ReadStages, WriteStages, WalkStages
<1>7. ASSUME p \in Writers PROVE WriterSound(dir, held, p, n)
  <2>1. Root \in Made(dir, {})
    BY MadeIs
  <2>2. WalkSound(dir, n)
    BY <2>1, <1>5 DEF WalkSound, WalkStages, Onward
  <2>3. LookedSound(dir, n) /\ WorkSound(dir, held, p, n)
    BY <1>5, Numbers DEF LookedSound, WorkSound, Onward
  <2> QED BY <2>2, <2>3 DEF WriterSound
<1>8. n.stage \notin {"mark", "fill", "erase"}
  BY <1>5 DEF Onward
<1> QED BY <1>1, <1>2, <1>5, <1>6, <1>7, <1>8, JobMoves

(* An operation that is over.                                                *)
LEMMA EndKeeps ==
  ASSUME GOSFSInv, OneWriter, NEW p \in Procs, End(p), job[p].stage \notin {"mark", "fill", "erase"}
  PROVE  GOSFSInv'
<1>1. JobSound(p, Idle)
  BY IdleIs, Numbers DEF JobSound, ReadStages, WriteStages, WalkStages
<1>2. WriterSound(dir, held, p, Idle)
  BY IdleIs DEF WriterSound, WalkSound, LookedSound, WorkSound, WalkStages
<1> QED BY <1>1, <1>2, IdleIs, JobMoves DEF End

LEMMA MissingKeeps ==
  ASSUME GOSFSInv, OneWriter, NEW p \in Procs, Missing(p)
  PROVE  GOSFSInv'
<1>1. PICK j : j = job[p]
  OBVIOUS
<1>2. /\ j.stage = "walk" /\ j.base # Super /\ Available(j.base)
      /\ Matches(j.base, Head(j.path), Len(j.path) = 1) = {}
      /\ Goto(p, IF Len(j.path) = 1
                 THEN [j EXCEPT !.offset = FirstFree(j.base), !.name = Head(j.path), !.path = <<>>,
                                !.found = "no", !.stage = "looked"]
                 ELSE [Idle EXCEPT !.found = "wrong path", !.stage = "looked"])
  BY <1>1 DEF Missing
<1>3. j \in Jobs /\ JobSound(p, j) /\ dir \in Contents
  BY <1>1, JobAt
<1>4. j.path \in Seq(Components) /\ j.path # <<>> /\ j.base \in Blocks
  BY <1>2, <1>3, JobsAre DEF JobSound
<1>5. Head(j.path) \in Components
  BY <1>4, PathStep
<1>6. CASE Len(j.path) = 1
  <2>1. PICK i : i = FirstFree(j.base)
    OBVIOUS
  <2>2. i = Full \/ (i \in Offsets /\ dir[j.base][i].kind = "free")
    <3> DEFINE free == {k \in Offsets : dir[j.base][k].kind = "free"}
    <3>1. i = IF free = {} THEN Full ELSE Min(free)
      BY <2>1 DEF FirstFree
    <3>2. free \subseteq Nat
      BY Numbers
    <3>3. free # {} => Min(free) \in free
      <4> HIDE DEF free
      <4> QED BY <3>2, MinFact
    <3> QED BY <3>1, <3>3
  <2>3. PICK n : n = [j EXCEPT !.offset = i, !.name = Head(j.path), !.path = <<>>,
                               !.found = "no", !.stage = "looked"]
    OBVIOUS
  <2>4. Goto(p, n)
    BY <1>2, <1>6, <2>1, <2>3, Zenon
  <2>5. n = [path |-> <<>>, base |-> j.base, offset |-> i, name |-> Head(j.path),
             found |-> "no", stage |-> "looked", block |-> j.block]
    BY <1>3, <2>3 DEF Jobs
  <2>6. /\ n \in Jobs /\ n.base = j.base /\ n.offset = i /\ n.name = Head(j.path)
        /\ n.found = "no" /\ n.stage = "looked"
    <3>1. <<>> \in Seq(Components) /\ j.block \in Blocks /\ i \in Offsets \cup {Full}
      <4>1. <<>> \in Seq(Components)
        OBVIOUS
      <4>2. j.block \in Blocks
        BY <1>3, JobsAre
      <4> QED BY <4>1, <4>2, <2>2
    <3> QED BY <3>1, <2>5, <1>4, <1>5 DEF Jobs, ReadStages
  <2>7. JobSound(p, n)
    BY <2>6 DEF JobSound, ReadStages, WriteStages, WalkStages
  <2>8. ASSUME p \in Writers PROVE WriterSound(dir, held, p, n)
    <3>1. Tree(dir, {}) /\ WriterSound(dir, held, p, j)
      BY <1>1, <1>2, <2>8, DiskAt
    <3>2. j.base \in Made(dir, {})
      BY <3>1, <1>2 DEF WriterSound, WalkSound, WalkStages
    <3>3. \A k \in Offsets : dir[j.base][k].name = Head(j.path) => dir[j.base][k].kind \notin {"file", "dir"}
      BY <1>2, <1>6 DEF Matches
    <3>4. Head(j.path) \in Names
      <4>1. Head(j.path) # "."
        BY <3>1, <3>2, <3>3, Walks, EntryIs, Numbers
      <4>2. Head(j.path) # ".."
        BY <3>1, <3>2, <3>3, Walks, Numbers
      <4> QED BY <1>5, <4>1, <4>2 DEF Components
    <3>5. ASSUME NEW e \in Used(dir), e[1] = j.base PROVE dir[e[1]][e[2]].name # Head(j.path)
      <4>1. e[2] \in Offsets /\ dir[e[1]][e[2]].kind \in {"file", "dir"}
        BY SubdirsAreUsed, CellIs
      <4> QED BY <4>1, <3>3, <3>5
    <3>6. WalkSound(dir, n) /\ WorkSound(dir, held, p, n)
      BY <2>6 DEF WalkSound, WorkSound, WalkStages
    <3>7. LookedSound(dir, n)
      BY <2>2, <2>6, <3>2, <3>4, <3>5 DEF LookedSound
    <3> QED BY <3>6, <3>7 DEF WriterSound
  <2>9. job[p].stage \notin {"mark", "fill", "erase"} /\ n.stage \notin {"mark", "fill", "erase"}
    BY <1>1, <1>2, <2>6
  <2> QED BY <2>4, <2>6, <2>7, <2>8, <2>9, JobMoves
<1>7. CASE Len(j.path) # 1
  <2>1. PICK n : n = [Idle EXCEPT !.found = "wrong path", !.stage = "looked"]
    OBVIOUS
  <2>2. Goto(p, n)
    BY <1>2, <1>7, <2>1, Zenon
  <2>3. n = [path |-> <<>>, base |-> 0, offset |-> 0, name |-> NoName,
             found |-> "wrong path", stage |-> "looked", block |-> 0]
    BY <2>1 DEF Idle
  <2>4. n \in Jobs /\ n.offset = 0 /\ n.found = "wrong path" /\ n.stage = "looked"
    <3>1. <<>> \in Seq(Components)
      OBVIOUS
    <3> QED BY <3>1, <2>3, Numbers DEF Jobs, ReadStages
  <2>5. JobSound(p, n)
    BY <2>4, Numbers DEF JobSound, ReadStages, WriteStages, WalkStages
  <2>6. WriterSound(dir, held, p, n)
    BY <2>4 DEF WriterSound, WalkSound, LookedSound, WorkSound, WalkStages
  <2>7. job[p].stage \notin {"mark", "fill", "erase"} /\ n.stage \notin {"mark", "fill", "erase"}
    BY <1>1, <1>2, <2>4
  <2> QED BY <2>2, <2>4, <2>5, <2>6, <2>7, JobMoves
<1> QED BY <1>6, <1>7

LEMMA FoundKeeps ==
  ASSUME GOSFSInv, OneWriter, NEW p \in Procs, Found(p)
  PROVE  GOSFSInv'
<1>1. PICK j : j = job[p]
  OBVIOUS
<1>2. PICK m : m = Matches(j.base, Head(j.path), Len(j.path) = 1)
  OBVIOUS
<1>3. PICK i : i = Min(m)
  OBVIOUS
<1>4. PICK n : n = [j EXCEPT !.offset = i, !.path = Tail(j.path),
                             !.stage = IF Len(j.path) = 1 THEN "looked" ELSE "descend"]
  OBVIOUS
<1>5. /\ j.stage = "walk" /\ j.base # Super /\ Available(j.base) /\ m # {} /\ i # PrevDir /\ Goto(p, n)
  BY <1>1, <1>2, <1>3, <1>4, Zenon DEF Found
<1>6. j \in Jobs /\ JobSound(p, j) /\ dir \in Contents
  BY <1>1, JobAt
<1>7. j.path \in Seq(Components) /\ j.path # <<>> /\ j.base \in Blocks /\ j.found = "yes"
  BY <1>5, <1>6, JobsAre DEF JobSound, WalkStages
<1>8. /\ i \in Offsets /\ dir[j.base][i].kind \in {"file", "dir"}
      /\ Len(j.path) # 1 => dir[j.base][i].kind = "dir"
  <2>1. m \subseteq Nat
    BY <1>2, Numbers DEF Matches
  <2>2. i \in m
    BY <2>1, <1>3, <1>5, MinFact
  <2> QED BY <2>2, <1>2 DEF Matches
<1>9. Tail(j.path) \in Seq(Components) /\ (Len(j.path) = 1 <=> Tail(j.path) = <<>>)
  BY <1>7, PathStep
<1>10. n = [path |-> Tail(j.path), base |-> j.base, offset |-> i, name |-> j.name, found |-> j.found,
            stage |-> IF Len(j.path) = 1 THEN "looked" ELSE "descend", block |-> j.block]
  BY <1>4, <1>6 DEF Jobs
<1>11. /\ n \in Jobs /\ n.path = Tail(j.path) /\ n.base = j.base /\ n.offset = i /\ n.found = "yes"
       /\ n.stage = IF Len(j.path) = 1 THEN "looked" ELSE "descend"
  BY <1>6, <1>7, <1>8, <1>9, <1>10 DEF Jobs, ReadStages, WalkStages
<1>12. JobSound(p, n)
  BY <1>8, <1>9, <1>11, Numbers DEF JobSound, ReadStages, WriteStages, WalkStages
<1>13. ASSUME p \in Writers PROVE WriterSound(dir, held, p, n)
  <2>1. WriterSound(dir, held, p, j)
    BY <1>1, <1>13, JobAt
  <2>2. j.base \in Made(dir, {})
    BY <2>1, <1>5 DEF WriterSound, WalkSound, WalkStages
  <2>3. WalkSound(dir, n)
    BY <2>2, <1>8, <1>11 DEF WalkSound
  <2>4. LookedSound(dir, n)
    BY <2>2, <1>8, <1>11 DEF LookedSound
  <2>5. WorkSound(dir, held, p, n)
    BY <1>11 DEF WorkSound
  <2> QED BY <2>3, <2>4, <2>5 DEF WriterSound
<1>14. job[p].stage \notin {"mark", "fill", "erase"} /\ n.stage \notin {"mark", "fill", "erase"}
  BY <1>1, <1>5, <1>11
<1> QED BY <1>5, <1>11, <1>12, <1>13, <1>14, JobMoves

LEMMA DescendKeeps ==
  ASSUME GOSFSInv, OneWriter, NEW p \in Procs, Descend(p)
  PROVE  GOSFSInv'
<1>1. PICK j : j = job[p]
  OBVIOUS
<1>2. PICK b : b = dir[j.base][j.offset].block
  OBVIOUS
<1>3. PICK n : n = [j EXCEPT !.base = b, !.offset = 0, !.stage = "walk"]
  OBVIOUS
<1>4. j.stage = "descend" /\ Goto(p, n)
  BY <1>1, <1>2, <1>3, Zenon DEF Descend
<1>5. j \in Jobs /\ JobSound(p, j) /\ dir \in Contents
  BY <1>1, JobAt
<1>6. /\ j.path \in Seq(Components) /\ j.path # <<>> /\ j.base \in Blocks /\ j.found = "yes"
      /\ j.offset \in Offsets
  BY <1>4, <1>5, JobsAre, Numbers DEF JobSound, WalkStages
<1>7. b \in Blocks
  BY <1>2, <1>5, <1>6, ContentsAre, EntriesAre
<1>8. n = [path |-> j.path, base |-> b, offset |-> 0, name |-> j.name, found |-> j.found,
           stage |-> "walk", block |-> j.block]
  BY <1>3, <1>5 DEF Jobs
<1>9. n \in Jobs /\ n.path = j.path /\ n.base = b /\ n.offset = 0 /\ n.found = "yes" /\ n.stage = "walk"
  BY <1>5, <1>6, <1>7, <1>8, Numbers DEF Jobs, ReadStages, WalkStages
<1>10. JobSound(p, n)
  BY <1>6, <1>9, Numbers DEF JobSound, ReadStages, WriteStages, WalkStages
<1>11. ASSUME p \in Writers PROVE WriterSound(dir, held, p, n)
  <2>1. Tree(dir, {}) /\ WriterSound(dir, held, p, j)
    BY <1>1, <1>4, <1>11, DiskAt
  <2>2. j.base \in Made(dir, {}) /\ dir[j.base][j.offset].kind = "dir"
    BY <2>1, <1>4 DEF WriterSound, WalkSound, WalkStages
  <2>3. b \in Made(dir, {})
    BY <2>1, <2>2, <1>2, <1>6, EntryLeads
  <2> QED BY <2>3, <1>9 DEF WriterSound, WalkSound, LookedSound, WorkSound, WalkStages
<1>12. job[p].stage \notin {"mark", "fill", "erase"} /\ n.stage \notin {"mark", "fill", "erase"}
  BY <1>1, <1>4, <1>9
<1> QED BY <1>4, <1>9, <1>10, <1>11, <1>12, JobMoves

LEMMA FoundParentKeeps ==
  ASSUME GOSFSInv, OneWriter, NEW p \in Procs, FoundParent(p)
  PROVE  GOSFSInv'
<1>1. PICK j : j = job[p]
  OBVIOUS
<1>2. PICK b : b = dir[j.base][PrevDir].block
  OBVIOUS
<1>3. PICK n : n = [j EXCEPT !.block = b, !.path = Tail(j.path), !.stage = "up"]
  OBVIOUS
<1>4. j.stage = "walk" /\ Goto(p, n)
  BY <1>1, <1>2, <1>3, Zenon DEF FoundParent
<1>5. j \in Jobs /\ JobSound(p, j) /\ dir \in Contents
  BY <1>1, JobAt
<1>6. j.path \in Seq(Components) /\ j.path # <<>> /\ j.base \in Blocks /\ j.found = "yes"
  BY <1>4, <1>5, JobsAre DEF JobSound, WalkStages
<1>7. b \in Blocks
  BY <1>2, <1>5, <1>6, ContentsAre, EntriesAre, Numbers
<1>8. Tail(j.path) \in Seq(Components)
  BY <1>6, PathStep
<1>9. n = [path |-> Tail(j.path), base |-> j.base, offset |-> j.offset, name |-> j.name, found |-> j.found,
           stage |-> "up", block |-> b]
  BY <1>3, <1>5 DEF Jobs
<1>10. n \in Jobs /\ n.base = j.base /\ n.offset = j.offset /\ n.block = b /\ n.found = "yes" /\ n.stage = "up"
  BY <1>5, <1>6, <1>7, <1>8, <1>9 DEF Jobs, ReadStages, WalkStages
<1>11. JobSound(p, n)
  BY <1>5, <1>6, <1>10 DEF JobSound, ReadStages, WriteStages, WalkStages
<1>12. ASSUME p \in Writers PROVE WriterSound(dir, held, p, n)
  <2>1. Tree(dir, {}) /\ WriterSound(dir, held, p, j)
    BY <1>1, <1>4, <1>12, DiskAt
  <2>2. j.base \in Made(dir, {})
    BY <2>1, <1>4 DEF WriterSound, WalkSound, WalkStages
  <2>3. b \in Made(dir, {})
    BY <2>1, <2>2, <1>2, Walks DEF PrevDir
  <2> QED BY <2>2, <2>3, <1>10 DEF WriterSound, WalkSound, LookedSound, WorkSound, WalkStages
<1>13. job[p].stage \notin {"mark", "fill", "erase"} /\ n.stage \notin {"mark", "fill", "erase"}
  BY <1>1, <1>4, <1>10
<1> QED BY <1>4, <1>10, <1>11, <1>12, <1>13, JobMoves

LEMMA GrandparentKeeps ==
  ASSUME GOSFSInv, OneWriter, NEW p \in Procs, Grandparent(p)
  PROVE  GOSFSInv'
<1>1. PICK j : j = job[p]
  OBVIOUS
<1>2. PICK b : b = dir[j.block][PrevDir].block
  OBVIOUS
<1>3. PICK n : n = [j EXCEPT !.base = b, !.stage = "name"]
  OBVIOUS
<1>4. j.stage = "up" /\ Goto(p, n)
  BY <1>1, <1>2, <1>3, Zenon DEF Grandparent
<1>5. j \in Jobs /\ JobSound(p, j) /\ dir \in Contents
  BY <1>1, JobAt
<1>6. j.block \in Blocks /\ j.found = "yes"
  BY <1>4, <1>5, JobsAre DEF JobSound, WalkStages
<1>7. b \in Blocks
  BY <1>2, <1>5, <1>6, ContentsAre, EntriesAre, Numbers
<1>8. n = [path |-> j.path, base |-> b, offset |-> j.offset, name |-> j.name, found |-> j.found,
           stage |-> "name", block |-> j.block]
  BY <1>3, <1>5 DEF Jobs
<1>9. n \in Jobs /\ n.base = b /\ n.offset = j.offset /\ n.block = j.block /\ n.found = "yes" /\ n.stage = "name"
  BY <1>5, <1>6, <1>7, <1>8 DEF Jobs, ReadStages, WalkStages
<1>10. JobSound(p, n)
  BY <1>5, <1>6, <1>9 DEF JobSound, ReadStages, WriteStages, WalkStages
<1>11. ASSUME p \in Writers PROVE WriterSound(dir, held, p, n)
  <2>1. Tree(dir, {}) /\ WriterSound(dir, held, p, j)
    BY <1>1, <1>4, <1>11, DiskAt
  <2>2. j.block \in Made(dir, {})
    BY <2>1, <1>4 DEF WriterSound, WalkSound
  <2>3. b \in Made(dir, {})
    BY <2>1, <2>2, <1>2, Walks DEF PrevDir
  <2> QED BY <2>2, <2>3, <1>9 DEF WriterSound, WalkSound, LookedSound, WorkSound, WalkStages
<1>12. job[p].stage \notin {"mark", "fill", "erase"} /\ n.stage \notin {"mark", "fill", "erase"}
  BY <1>1, <1>4, <1>9
<1> QED BY <1>4, <1>9, <1>10, <1>11, <1>12, JobMoves

LEMMA NameParentKeeps ==
  ASSUME GOSFSInv, OneWriter, NEW p \in Procs, NameParent(p)
  PROVE  GOSFSInv'
<1>1. PICK j : j = job[p]
  OBVIOUS
<1>2. PICK i : i = Min(EntriesOf(j.base, j.block))
  OBVIOUS
<1>3. /\ j.stage = "name"
      /\ \/ Break
         \/ /\ EntriesOf(j.base, j.block) # {}
            /\ Goto(p, IF j.path = <<>>
                       THEN [j EXCEPT !.offset = i, !.block = 0, !.stage = "looked"]
                       ELSE [j EXCEPT !.base = j.block, !.block = 0, !.stage = "walk"])
  BY <1>1, <1>2 DEF NameParent
<1>4. j \in Jobs /\ JobSound(p, j) /\ dir \in Contents
  BY <1>1, JobAt
<1>5. /\ j.path \in Seq(Components) /\ j.base \in Blocks /\ j.block \in Blocks /\ j.found = "yes"
      /\ j.offset \in Offsets
  BY <1>3, <1>4, JobsAre, Numbers DEF JobSound, WalkStages
<1>6. ASSUME p \in Writers
      PROVE  Tree(dir, {}) /\ j.base \in Made(dir, {}) /\ j.block \in Made(dir, {})
  <2>1. Tree(dir, {}) /\ WriterSound(dir, held, p, j)
    BY <1>1, <1>3, <1>6, DiskAt
  <2> QED BY <2>1, <1>3 DEF WriterSound, WalkSound, WalkStages
<1>7. ASSUME EntriesOf(j.base, j.block) # {}, j.path = <<>>,
             Goto(p, [j EXCEPT !.offset = i, !.block = 0, !.stage = "looked"])
      PROVE  GOSFSInv'
  <2>1. i \in EntriesOf(j.base, j.block)
    <3>1. EntriesOf(j.base, j.block) \subseteq Nat
      BY Numbers DEF EntriesOf
    <3> QED BY <3>1, <1>2, <1>7, MinFact
  <2>2. i \in Offsets /\ dir[j.base][i].block = j.block
    BY <2>1 DEF EntriesOf
  <2>3. PICK n : n = [j EXCEPT !.offset = i, !.block = 0, !.stage = "looked"]
    OBVIOUS
  <2>4. Goto(p, n)
    BY <1>7, <2>3, Zenon
  <2>5. n = [path |-> j.path, base |-> j.base, offset |-> i, name |-> j.name, found |-> j.found,
             stage |-> "looked", block |-> 0]
    BY <1>4, <2>3 DEF Jobs
  <2>6. n \in Jobs /\ n.base = j.base /\ n.offset = i /\ n.found = "yes" /\ n.stage = "looked"
    BY <1>4, <1>5, <2>2, <2>5, Numbers DEF Jobs, ReadStages
  <2>7. JobSound(p, n)
    BY <2>2, <2>6, Numbers DEF JobSound, ReadStages, WriteStages, WalkStages
  <2>8. ASSUME p \in Writers PROVE WriterSound(dir, held, p, n)
    <3>1. dir[j.base][i] \in Entries /\ j.block # 0
      BY <1>4, <1>5, <1>6, <2>2, <2>8, ContentsAre, Walks, Numbers
    <3>2. dir[j.base][i].kind \in {"file", "dir"}
      <4>1. dir[j.base][i].kind \in {"free", "junk"} => dir[j.base][i] \in {Free, Junk}
        BY <1>5, <1>6, <2>2, <2>8 DEF Tree, UnusedSound
      <4> QED BY <4>1, <3>1, <2>2, FreeIs, EntriesAre
    <3>3. LookedSound(dir, n)
      BY <1>6, <2>6, <2>8, <3>2 DEF LookedSound
    <3> QED BY <2>6, <3>3 DEF WriterSound, WalkSound, WorkSound, WalkStages
  <2>9. job[p].stage \notin {"mark", "fill", "erase"} /\ n.stage \notin {"mark", "fill", "erase"}
    BY <1>1, <1>3, <2>6
  <2> QED BY <2>4, <2>6, <2>7, <2>8, <2>9, JobMoves
<1>8. ASSUME j.path # <<>>, Goto(p, [j EXCEPT !.base = j.block, !.block = 0, !.stage = "walk"])
      PROVE  GOSFSInv'
  <2>3. PICK n : n = [j EXCEPT !.base = j.block, !.block = 0, !.stage = "walk"]
    OBVIOUS
  <2>4. Goto(p, n)
    BY <1>8, <2>3, Zenon
  <2>5. n = [path |-> j.path, base |-> j.block, offset |-> j.offset, name |-> j.name, found |-> j.found,
             stage |-> "walk", block |-> 0]
    BY <1>4, <2>3 DEF Jobs
  <2>6. /\ n \in Jobs /\ n.base = j.block /\ n.offset = j.offset /\ n.found = "yes" /\ n.stage = "walk"
        /\ n.path = j.path
    BY <1>4, <1>5, <2>5, Numbers DEF Jobs, ReadStages, WalkStages
  <2>7. JobSound(p, n)
    BY <1>5, <1>8, <2>6, Numbers DEF JobSound, ReadStages, WriteStages, WalkStages
  <2>8. ASSUME p \in Writers PROVE WriterSound(dir, held, p, n)
    BY <1>6, <2>6, <2>8 DEF WriterSound, WalkSound, LookedSound, WorkSound, WalkStages
  <2>9. job[p].stage \notin {"mark", "fill", "erase"} /\ n.stage \notin {"mark", "fill", "erase"}
    BY <1>1, <1>3, <2>6
  <2> QED BY <2>4, <2>6, <2>7, <2>8, <2>9, JobMoves
<1>9. CASE Break
  BY <1>9, BreakKeeps
<1>10. CASE EntriesOf(j.base, j.block) # {}
            /\ Goto(p, IF j.path = <<>>
                       THEN [j EXCEPT !.offset = i, !.block = 0, !.stage = "looked"]
                       ELSE [j EXCEPT !.base = j.block, !.block = 0, !.stage = "walk"])
  <2>1. CASE j.path = <<>>
    BY <1>7, <1>10, <2>1
  <2>2. CASE j.path # <<>>
    BY <1>8, <1>10, <2>2
  <2> QED BY <2>1, <2>2
<1> QED BY <1>3, <1>9, <1>10

LEMMA LookupKeeps ==
  ASSUME GOSFSInv, OneWriter, NEW p \in Procs, Lookup(p)
  PROVE  GOSFSInv'
<1>1. CASE AssertBase(p)
  BY <1>1, BreakKeeps DEF AssertBase
<1>2. CASE Missing(p)
  BY <1>2, MissingKeeps
<1>3. CASE Found(p)
  BY <1>3, FoundKeeps
<1>4. CASE Descend(p)
  BY <1>4, DescendKeeps
<1>5. CASE FoundParent(p)
  BY <1>5, FoundParentKeeps
<1>6. CASE Grandparent(p)
  BY <1>6, GrandparentKeeps
<1>7. CASE NameParent(p)
  BY <1>7, NameParentKeeps
<1> QED BY <1>1, <1>2, <1>3, <1>4, <1>5, <1>6, <1>7 DEF Lookup

-----------------------------------------------------------------------------
(* The operations *)

LEMMA OpenDirectoryKeeps ==
  ASSUME GOSFSInv, OneWriter, NEW p \in Procs, OpenDirectory(p)
  PROVE  GOSFSInv'
<1>1. PICK j : j = job[p]
  OBVIOUS
<1>2. j.stage = "looked" /\ j.found = "yes" /\ p \notin Writers
  BY <1>1 DEF OpenDirectory, Looked, WriteOps
<1>3. PICK n : n = [j EXCEPT !.stage = "list"]
  OBVIOUS
<1>4. End(p) \/ Goto(p, n)
  BY <1>1, <1>3, Zenon DEF OpenDirectory
<1>5. j \in Jobs /\ JobSound(p, j)
  BY <1>1, JobAt
<1>6. n = [path |-> j.path, base |-> j.base, offset |-> j.offset, name |-> j.name, found |-> j.found,
           stage |-> "list", block |-> j.block]
  BY <1>3, <1>5 DEF Jobs
<1>7. n \in Jobs /\ n.offset = j.offset /\ n.found = "yes" /\ n.stage = "list"
  BY <1>2, <1>5, <1>6 DEF Jobs, ReadStages
<1>8. JobSound(p, n)
  BY <1>2, <1>5, <1>7 DEF JobSound, ReadStages, WalkStages
<1>9. CASE End(p)
  BY <1>1, <1>2, <1>9, EndKeeps
<1>10. CASE Goto(p, n)
  BY <1>2, <1>7, <1>8, <1>10, JobMoves
<1> QED BY <1>4, <1>9, <1>10

(* What a pointer to an entry of a directory or of the superblock points to.   *)
LEMMA PointsToBlock ==
  ASSUME GOSFSInv, NEW b \in Blocks, NEW i \in Offsets
  PROVE  At(b, i).block \in Blocks
<1>1. dir \in Contents
  BY DEF GOSFSInv, DiskSound, Tree
<1>2. dir[b][i].block \in Blocks
  BY <1>1, ContentsAre, EntriesAre
<1>3. Entry(NoName, "dir", Root).block \in Blocks
  BY EntryIs, Numbers
<1> QED BY <1>2, <1>3 DEF At

LEMMA ListDirectoryKeeps ==
  ASSUME GOSFSInv, OneWriter, NEW p \in Procs, ListDirectory(p)
  PROVE  GOSFSInv'
<1>1. PICK j : j = job[p]
  OBVIOUS
<1>2. PICK b : b = At(j.base, j.offset).block
  OBVIOUS
<1>3. PICK n : n = [j EXCEPT !.block = b, !.stage = "read"]
  OBVIOUS
<1>4. j.stage = "list" /\ Goto(p, n)
  BY <1>1, <1>2, <1>3, Zenon DEF ListDirectory
<1>5. j \in Jobs /\ JobSound(p, j)
  BY <1>1, JobAt
<1>6. j.found = "yes" /\ p \notin Writers /\ j.base \in Blocks /\ j.offset \in Offsets
  BY <1>4, <1>5, JobsAre, Numbers DEF JobSound, WriteStages, WalkStages
<1>7. b \in Blocks
  BY <1>2, <1>6, PointsToBlock
<1>8. n = [path |-> j.path, base |-> j.base, offset |-> j.offset, name |-> j.name, found |-> j.found,
           stage |-> "read", block |-> b]
  BY <1>3, <1>5 DEF Jobs
<1>9. n \in Jobs /\ n.offset = j.offset /\ n.found = "yes" /\ n.stage = "read"
  BY <1>5, <1>6, <1>7, <1>8 DEF Jobs, ReadStages
<1>10. JobSound(p, n)
  BY <1>5, <1>6, <1>9 DEF JobSound, ReadStages, WalkStages
<1> QED BY <1>4, <1>6, <1>9, <1>10, JobMoves

LEMMA ChangeDirectoryKeeps ==
  ASSUME GOSFSInv, OneWriter, NEW p \in Procs, ChangeDirectory(p)
  PROVE  GOSFSInv'
<1>1. PICK j : j = job[p]
  OBVIOUS
<1>2. j.stage = "looked" /\ j.found = "yes" /\ p \notin Writers
  BY <1>1 DEF ChangeDirectory, Looked, WriteOps
<1>3. PICK e : e = [base |-> j.base, offset |-> j.offset, block |-> At(j.base, j.offset).block]
  OBVIOUS
<1>4. /\ dentry' = [dentry EXCEPT ![p] = e] /\ job' = [job EXCEPT ![p] = Idle]
      /\ UNCHANGED <<dir, bitmap, held, broken>>
  BY <1>1, <1>3 DEF ChangeDirectory
<1>5. j \in Jobs /\ JobSound(p, j)
  BY <1>1, JobAt
<1>6. j.base \in Blocks /\ j.offset \in Offsets
  BY <1>2, <1>5, JobsAre, Numbers DEF JobSound
<1>7. e \in [base : Blocks, offset : Offsets, block : Blocks]
  BY <1>3, <1>6, PointsToBlock
<1>8. Types
  BY DEF GOSFSInv
<1>9. dentry' \in [Procs -> [base : Blocks, offset : Offsets, block : Blocks]]
  BY <1>4, <1>7, <1>8 DEF Types
<1>10. broken' \in BOOLEAN /\ UNCHANGED <<dir, bitmap, held>>
  BY <1>4, <1>8 DEF Types
<1>11. JobSound(p, Idle)
  BY IdleIs, Numbers DEF JobSound, ReadStages, WriteStages, WalkStages
<1> QED BY <1>2, <1>4, <1>9, <1>10, <1>11, IdleIs, ReaderSteps

(* GOSFS_Open and Create_Directory: the entry is written.                     *)
LEMMA FillEntryKeeps ==
  ASSUME GOSFSInv, OneWriter, WholeBytes, NEW p \in Procs, NEW op \in WriteOps,
         NEW kind \in {"file", "dir"}, FillEntry(p, op, kind)
  PROVE  GOSFSInv'
<1>1. PICK j : j = job[p]
  OBVIOUS
<1>2. PICK block : block = Min(FreeBits)
  OBVIOUS
<1>3. PICK x : x = Entry(j.name, kind, block)
  OBVIOUS
<1>4. p \in Writers
  BY DEF FillEntry, Looked, WriteOps, ReadOps
<1>5. j.stage = "looked" /\ j.found = "no"
  BY <1>1 DEF FillEntry, Looked
<1>6. CASE Break
  BY <1>6, BreakKeeps
<1>7. ASSUME j.offset # Full, FreeBits # {}, Available(j.base),
             dir' = [dir EXCEPT ![j.base][j.offset] = x], held' = [held EXCEPT ![j.base] = p],
             job' = [job EXCEPT ![p].block = block, ![p].stage = "mark"],
             UNCHANGED <<bitmap, dentry, broken>>
      PROVE  GOSFSInv'
  <2>1. /\ j \in Jobs /\ JobSound(p, j) /\ WriterSound(dir, held, p, j) /\ Tree(dir, {})
        /\ bitmap = {Super, Root} \cup Targets(dir)
    BY <1>1, <1>4, <1>5, DiskAt
  <2>2. j.base \in Made(dir, {}) /\ j.name \in Names /\ dir[j.base][j.offset].kind = "free"
        /\ \A e \in Used(dir) : e[1] = j.base => dir[e[1]][e[2]].name # j.name
    BY <2>1, <1>5, <1>7 DEF WriterSound, LookedSound
  <2>3. j.base \in Blocks \ {Super} /\ dir[j.base][0].kind = "dir" /\ dir[j.base][1].kind = "dir"
    BY <2>1, <2>2, Walks, EntryIs
  <2>4. j.offset \in Offsets /\ j.offset \in 2..(NumEntries - 1)
    BY <2>1, <2>2, <2>3, <1>7, JobsAre, Numbers
  <2>5. block \in FreeBits /\ block \in Blocks
    <3>1. FreeBits \subseteq Blocks /\ Blocks \subseteq Nat
      BY BitsOnDisk, Numbers
    <3>2. block \in FreeBits
      BY <3>1, <1>2, <1>7, MinFact
    <3> QED BY <3>1, <3>2
  <2>6. block \notin {Super, Root} /\ block \notin Targets(dir)
    BY <2>1, <2>5 DEF FreeBits
  <2>7. x \in Entries /\ x.kind = kind /\ x.block = block /\ x.name = j.name
    <3>1. j.name \in Names \cup {".", "..", NoName} /\ kind \in {"free", "junk", "file", "dir"}
      BY <2>2
    <3> QED BY <3>1, <2>5, <1>3, EntryIs
  <2>8. /\ Tree(dir', {block}) /\ <<j.base, j.offset>> \in Used(dir')
        /\ Target(dir', <<j.base, j.offset>>) = block /\ Targets(dir') = Targets(dir) \cup {block}
    <3>1. dir' = [dir EXCEPT ![j.base][j.offset] = x] /\ dir \in Contents
      BY <2>1, <1>7 DEF Tree
    <3>2. Written(dir, dir', j.base, j.offset, x)
      BY <3>1, <2>3, <2>4, <2>7, EntryWritten
    <3>3. x.kind \in {"file", "dir"} /\ x.name \in Names
      BY <2>2, <2>7
    <3>4. \A e \in Used(dir) : e[1] = j.base => dir[e[1]][e[2]].name # x.name
      BY <2>2, <2>7
    <3>5. x \in Entries /\ x.block = block
      BY <2>7
    <3>6. x.block \notin {Super, Root} /\ x.block \notin Targets(dir)
      BY <2>6, <3>5
    <3>7. /\ Tree(dir', {x.block}) /\ <<j.base, j.offset>> \in Used(dir')
          /\ Target(dir', <<j.base, j.offset>>) = x.block /\ Targets(dir') = Targets(dir) \cup {x.block}
      <4>1. Added(dir, dir', j.base, j.offset, x)
        BY <2>1, <2>2, <2>4, <3>2, <3>3, <3>4, <3>5, <3>6, EntryAdded
      <4> QED BY <4>1 DEF Added
    <3> QED BY <3>5, <3>7, Zenon
  <2>9. PICK n : n = [j EXCEPT !.block = block, !.stage = "mark"]
    OBVIOUS
  <2>10. job \in [Procs -> Jobs] /\ Types
    BY DEF GOSFSInv, Types
  <2>11. job' = [job EXCEPT ![p] = n]
    BY <2>9, <1>1, <1>7, Zenon
  <2>12. n = [path |-> j.path, base |-> j.base, offset |-> j.offset, name |-> j.name, found |-> j.found,
              stage |-> "mark", block |-> block]
    BY <2>1, <2>9 DEF Jobs
  <2>13. /\ n \in Jobs /\ n.base = j.base /\ n.offset = j.offset /\ n.block = block /\ n.found = "no"
         /\ n.stage = "mark"
    BY <2>1, <2>5, <2>12, <1>5 DEF Jobs, WriteStages
  <2>14. JobSound(p, n)
    BY <2>13, <1>4 DEF JobSound, WriteStages, WalkStages
  <2>15. WriterSound(dir', held', p, n)
    BY <2>8, <2>13 DEF WriterSound, WalkSound, LookedSound, WorkSound, WalkStages
  <2>16. bitmap' = ({Super, Root} \cup Targets(dir')) \ {block}
    BY <2>1, <2>6, <2>8, <1>7
  <2>17. held' \in [Blocks -> Procs \cup {Nobody, Mounted}] /\ held'[Super] = Mounted
    BY <2>3, <2>10, <1>7, Numbers DEF Types
  <2>18. dentry' = dentry /\ broken' \in BOOLEAN
    BY <2>10, <1>7 DEF Types
  <2> QED BY <1>4, <2>8, <2>11, <2>13, <2>14, <2>15, <2>16, <2>17, <2>18, WriterSteps
<1> QED BY <1>1, <1>2, <1>3, <1>6, <1>7 DEF FillEntry

(* The block's bit is set.                                                   *)
LEMMA MarkBlockKeeps ==
  ASSUME GOSFSInv, OneWriter, NEW p \in Procs, MarkBlock(p)
  PROVE  GOSFSInv'
<1>1. PICK j : j = job[p]
  OBVIOUS
<1>2. PICK n : n = IF dir[j.base][j.offset].kind = "dir"
                   THEN [Idle EXCEPT !.base = j.base, !.block = j.block, !.stage = "fill"] ELSE Idle
  OBVIOUS
<1>3. /\ j.stage = "mark" /\ bitmap' = bitmap \cup {j.block} /\ held' = [held EXCEPT ![j.base] = Nobody]
      /\ job' = [job EXCEPT ![p] = n] /\ dir' = dir /\ dentry' = dentry /\ broken' = broken
  BY <1>1, <1>2 DEF MarkBlock
<1>4. p \in Writers
  <2>1. JobSound(p, j)
    BY <1>1, JobAt
  <2> QED BY <2>1, <1>3 DEF JobSound, ReadStages, WalkStages
<1>5. /\ j \in Jobs /\ WriterSound(dir, held, p, j) /\ Tree(dir, {j.block})
      /\ bitmap = ({Super, Root} \cup Targets(dir)) \ {j.block}
  BY <1>1, <1>3, <1>4, DiskAt
<1> DEFINE e == <<j.base, j.offset>>
<1>6. e \in Used(dir) /\ j.block = Target(dir, e)
  BY <1>3, <1>5 DEF WriterSound, WorkSound
<1>7. e[1] = j.base /\ e[2] = j.offset
  OBVIOUS
<1> HIDE DEF e
<1>8. /\ e \in Cells /\ j.base \in Made(dir, {j.block}) /\ j.base \in Blocks \ {Super} /\ j.block \in Blocks
      /\ dir[j.base][j.offset].kind \in {"file", "dir"}
  <2>1. UsedSound(dir, {j.block}) /\ dir \in Contents
    BY <1>5 DEF Tree
  <2>2. e[1] \in Made(dir, {j.block}) /\ Target(dir, e) \in Blocks
    BY <2>1, <1>6 DEF UsedSound
  <2> QED BY <2>1, <2>2, <1>6, <1>7, SubdirsAreUsed, MadeOnDisk
<1>9. Types
  BY DEF GOSFSInv
<1>10. held' \in [Blocks -> Procs \cup {Nobody, Mounted}] /\ held'[Super] = Mounted
  BY <1>3, <1>8, <1>9, Numbers DEF Types
<1>11. bitmap' = {Super, Root} \cup Targets(dir)
  <2>1. j.block \in Targets(dir)
    BY <1>6 DEF Targets
  <2> QED BY <2>1, <1>3, <1>5
<1>12. broken' \in BOOLEAN
  BY <1>3, <1>9 DEF Types
<1>13. CASE dir[j.base][j.offset].kind = "dir"
  <2>1. n = [path |-> <<>>, base |-> j.base, offset |-> 0, name |-> NoName, found |-> "no",
             stage |-> "fill", block |-> j.block]
    BY <1>2, <1>13 DEF Idle
  <2>2. n \in Jobs /\ n.base = j.base /\ n.offset = 0 /\ n.block = j.block /\ n.stage = "fill"
    <3>1. <<>> \in Seq(Components)
      OBVIOUS
    <3> QED BY <3>1, <2>1, <1>8, Numbers DEF Jobs, WriteStages
  <2>3. JobSound(p, n)
    BY <2>2, <1>4, Numbers DEF JobSound, WriteStages, WalkStages
  <2>4. e \in Subdirs(dir)
    BY <1>6, <1>7, <1>8, <1>13 DEF Subdirs
  <2>5. WriterSound(dir', held', p, n)
    BY <2>2, <2>4, <1>3, <1>6, <1>7 DEF WriterSound, WalkSound, LookedSound, WorkSound, WalkStages
  <2> QED BY <2>2, <2>3, <2>5, <1>3, <1>4, <1>5, <1>10, <1>11, <1>12, WriterSteps
<1>14. CASE dir[j.base][j.offset].kind = "file"
  <2>1. n = Idle
    BY <1>2, <1>14
  <2>2. JobSound(p, Idle)
    BY IdleIs, Numbers DEF JobSound, ReadStages, WriteStages, WalkStages
  <2>3. WriterSound(dir', held', p, Idle)
    BY IdleIs DEF WriterSound, WalkSound, LookedSound, WorkSound, WalkStages
  <2>4. Tree(dir, {})
    BY <1>5, <1>6, <1>7, <1>14, FileDone
  <2> QED BY <2>1, <2>2, <2>3, <2>4, <1>3, <1>4, <1>10, <1>11, <1>12, IdleIs, WriterSteps
<1> QED BY <1>8, <1>13, <1>14

(* The new directory's block is written.                                     *)
LEMMA FillDirectoryKeeps ==
  ASSUME GOSFSInv, OneWriter, NEW p \in Procs, FillDirectory(p)
  PROVE  GOSFSInv'
<1>1. PICK j : j = job[p]
  OBVIOUS
<1>2. /\ j.stage = "fill" /\ job' = [job EXCEPT ![p] = Idle]
      /\ dir' = IF j.block \in Blocks
                THEN [dir EXCEPT ![j.block] = NewDirectory(j.block, j.base)] ELSE dir
      /\ bitmap' = bitmap /\ held' = held /\ dentry' = dentry /\ broken' = broken
  BY <1>1 DEF FillDirectory
<1>3. p \in Writers
  <2>1. JobSound(p, j)
    BY <1>1, JobAt
  <2> QED BY <2>1, <1>2 DEF JobSound, ReadStages, WalkStages
<1>4. /\ j \in Jobs /\ WriterSound(dir, held, p, j) /\ Tree(dir, {j.block})
      /\ bitmap = {Super, Root} \cup Targets(dir)
  BY <1>1, <1>2, <1>3, DiskAt
<1>5. PICK e \in Subdirs(dir) : e[1] = j.base /\ Target(dir, e) = j.block
  BY <1>2, <1>4 DEF WriterSound, WorkSound
<1>6. j.block \in Blocks
  BY <1>4, JobsAre
<1>7. PICK x : x = NewDirectory(j.block, e[1])
  OBVIOUS
<1>8. dir' = [dir EXCEPT ![j.block] = x]
  BY <1>2, <1>5, <1>6, <1>7
<1>9. Tree(dir', {}) /\ Targets(dir') = Targets(dir)
  <2>1. x \in [Offsets -> Entries]
    <3>1. e[1] \in Blocks
      BY SubdirsAreUsed, CellIs
    <3> QED BY <3>1, <1>6, <1>7, NewDirectoryIs
  <2>2. dir \in Contents
    BY <1>4 DEF Tree
  <2>3. Rewritten(dir, dir', j.block, x)
    BY <2>1, <2>2, <1>6, <1>8, BlockWritten
  <2> QED BY <2>3, <1>4, <1>5, <1>7, DirectoryDone
<1>10. JobSound(p, Idle)
  BY IdleIs, Numbers DEF JobSound, ReadStages, WriteStages, WalkStages
<1>11. WriterSound(dir', held', p, Idle)
  BY IdleIs DEF WriterSound, WalkSound, LookedSound, WorkSound, WalkStages
<1>12. Types
  BY DEF GOSFSInv
<1>13. /\ held' \in [Blocks -> Procs \cup {Nobody, Mounted}] /\ held'[Super] = Mounted /\ broken' \in BOOLEAN
  BY <1>2, <1>12 DEF Types
<1>14. bitmap' = {Super, Root} \cup Targets(dir')
  BY <1>2, <1>4, <1>9
<1> QED BY <1>2, <1>3, <1>9, <1>10, <1>11, <1>13, <1>14, IdleIs, WriterSteps

(* GOSFS_Delete takes the buffer of the entry.                                *)
LEMMA TakeEntryKeeps ==
  ASSUME GOSFSInv, OneWriter, NEW p \in Procs, TakeEntry(p)
  PROVE  GOSFSInv'
<1>1. PICK j : j = job[p]
  OBVIOUS
<1>2. PICK b : b = dir[j.base][j.offset].block
  OBVIOUS
<1>3. PICK n : n = [j EXCEPT !.block = b,
                             !.stage = IF dir[j.base][j.offset].kind = "dir" THEN "empty?" ELSE "clear"]
  OBVIOUS
<1>4. /\ j.stage = "looked" /\ p \in Writers /\ j.found = "yes" /\ Available(j.base)
      /\ held' = [held EXCEPT ![j.base] = p] /\ dir' = dir /\ bitmap' = bitmap /\ dentry' = dentry /\ broken' = broken
  BY <1>1 DEF TakeEntry, Looked, ReadOps
<1>5. job' = [job EXCEPT ![p].block = b,
                         ![p].stage = IF dir[j.base][j.offset].kind = "dir" THEN "empty?" ELSE "clear"]
  BY <1>1, <1>2, Zenon DEF TakeEntry
<1>6. job' = [job EXCEPT ![p] = n]
  BY <1>1, <1>3, <1>5, Zenon
<1>7. /\ j \in Jobs /\ JobSound(p, j) /\ WriterSound(dir, held, p, j) /\ Tree(dir, {})
      /\ bitmap = {Super, Root} \cup Targets(dir)
  BY <1>1, <1>4, DiskAt
<1>8. Types
  BY DEF GOSFSInv
<1>9. j.base \in Blocks /\ held[j.base] = Nobody /\ j.base # Super
  BY <1>4, <1>8, GOSFSAssumption DEF Available, Types
<1>10. j.base \in Made(dir, {}) /\ dir[j.base][j.offset].kind \in {"file", "dir"}
  BY <1>4, <1>7, <1>9 DEF WriterSound, LookedSound
<1>11. j.offset \in Offsets
  BY <1>4, <1>7, JobsAre DEF JobSound
<1>12. b \in Blocks
  BY <1>2, <1>7, <1>9, <1>11, ContentsAre, EntriesAre DEF Tree
<1>13. n = [path |-> j.path, base |-> j.base, offset |-> j.offset, name |-> j.name, found |-> j.found,
            stage |-> IF dir[j.base][j.offset].kind = "dir" THEN "empty?" ELSE "clear", block |-> b]
  BY <1>3, <1>7 DEF Jobs
<1>14. /\ n \in Jobs /\ n.base = j.base /\ n.offset = j.offset /\ n.block = b /\ n.found = "yes"
       /\ n.stage = IF dir[j.base][j.offset].kind = "dir" THEN "empty?" ELSE "clear"
  BY <1>4, <1>7, <1>12, <1>13 DEF Jobs, WriteStages
<1>15. JobSound(p, n)
  BY <1>4, <1>11, <1>14, Numbers DEF JobSound, WriteStages, WalkStages
<1>16. held' \in [Blocks -> Procs \cup {Nobody, Mounted}] /\ held'[Super] = Mounted /\ held'[j.base] = p
  BY <1>4, <1>8, <1>9, Numbers DEF Types
<1>17. broken' \in BOOLEAN
  BY <1>4, <1>8 DEF Types
<1>18. CASE dir[j.base][j.offset].kind = "dir"
  <2>1. n.stage = "empty?"
    BY <1>14, <1>18
  <2>2. WriterSound(dir', held', p, n)
    BY <2>1, <1>2, <1>4, <1>10, <1>11, <1>14, <1>16, <1>18 DEF WriterSound, WalkSound, LookedSound, WorkSound, WalkStages
  <2> QED BY <2>1, <2>2, <1>4, <1>6, <1>7, <1>14, <1>15, <1>16, <1>17, WriterSteps
<1>19. CASE dir[j.base][j.offset].kind = "file"
  <2>1. n.stage = "clear"
    BY <1>14, <1>19
  <2>2. dir[j.base][0].kind = "dir" /\ dir[j.base][1].kind = "dir"
    BY <1>7, <1>10, Walks, EntryIs
  <2>3. j.offset # 0 /\ j.offset # 1
    BY <2>2, <1>19
  <2>4. <<j.base, j.offset>> \in Used(dir) /\ <<j.base, j.offset>>[1] = j.base /\ <<j.base, j.offset>>[2] = j.offset
    BY <2>3, <1>7, <1>10, <1>11, EntryLeads
  <2>5. b = Target(dir, <<j.base, j.offset>>)
    BY <2>4, <1>2 DEF Target
  <2>6. b # j.base
    <3> SUFFICES ASSUME b = j.base PROVE FALSE
      OBVIOUS
    <3>1. b # Root /\ b \in Made(dir, {})
      BY <2>4, <2>5, <1>7, <1>10 DEF Tree, UsedSound
    <3>2. PICK e \in Subdirs(dir) : b = Target(dir, e)
      BY <3>1, MadeIs
    <3>3. e = <<j.base, j.offset>>
      BY <3>2, <2>4, <2>5, <1>7, SubdirsAreUsed DEF Tree, OneEntryEach
    <3> QED BY <3>2, <3>3, <2>4, <1>19, SubdirsAreUsed
  <2>7. WriterSound(dir', held', p, n)
    BY <2>1, <2>4, <2>5, <2>6, <1>4, <1>14, <1>16, <1>19 DEF WriterSound, WalkSound, LookedSound, WorkSound, WalkStages
  <2> QED BY <2>1, <2>7, <1>4, <1>6, <1>7, <1>14, <1>15, <1>16, <1>17, WriterSteps
<1> QED BY <1>10, <1>18, <1>19

(* A directory that is not empty is refused: ".." never is.                   *)
LEMMA CheckEmptyKeeps ==
  ASSUME GOSFSInv, OneWriter, NEW p \in Procs, CheckEmpty(p)
  PROVE  GOSFSInv'
<1>1. PICK j : j = job[p]
  OBVIOUS
<1>2. PICK n : n = [j EXCEPT !.stage = "clear"]
  OBVIOUS
<1> DEFINE empty == \A i \in Offsets : i >= 2 => dir[j.block][i].kind = "free"
<1>3. CASE Break
  BY <1>3, BreakKeeps
<1>4. ASSUME j.stage = "empty?", Available(j.block),
             held' = IF empty THEN held ELSE [held EXCEPT ![j.base] = Nobody],
             job' = [job EXCEPT ![p] = IF empty THEN n ELSE Idle], UNCHANGED <<dir, bitmap, dentry, broken>>
      PROVE  GOSFSInv'
  <2>1. p \in Writers
    <3>1. JobSound(p, j)
      BY <1>1, JobAt
    <3> QED BY <3>1, <1>4 DEF JobSound, ReadStages, WalkStages
  <2>2. /\ j \in Jobs /\ JobSound(p, j) /\ WriterSound(dir, held, p, j) /\ Tree(dir, {})
        /\ bitmap = {Super, Root} \cup Targets(dir) /\ p \in Procs
    BY <1>1, <1>4, <2>1, DiskAt
  <2>3. Types
    BY DEF GOSFSInv
  <2>4. /\ j.base \in Made(dir, {}) /\ j.offset \in Offsets /\ dir[j.base][j.offset].kind = "dir"
        /\ j.block = dir[j.base][j.offset].block /\ held[j.base] = p
    BY <1>4, <2>2 DEF WriterSound, WorkSound
  <2>5. j.base \in Blocks \ {Super} /\ j.block # j.base
    BY <2>2, <2>4, <1>4, Walks, GOSFSAssumption DEF Available
  <2>6. /\ dir' = dir /\ bitmap' = bitmap /\ dentry' = dentry /\ broken' = broken
    BY <1>4
  <2>7. CASE ~empty
    <3>1. job' = [job EXCEPT ![p] = Idle] /\ held' = [held EXCEPT ![j.base] = Nobody]
      BY <1>4, <2>7
    <3>2. held' \in [Blocks -> Procs \cup {Nobody, Mounted}] /\ held'[Super] = Mounted
      BY <3>1, <2>3, <2>5, Numbers DEF Types
    <3>3. JobSound(p, Idle)
      BY IdleIs, Numbers DEF JobSound, ReadStages, WriteStages, WalkStages
    <3>4. WriterSound(dir', held', p, Idle)
      BY IdleIs DEF WriterSound, WalkSound, LookedSound, WorkSound, WalkStages
    <3> QED BY <3>1, <3>2, <3>3, <3>4, <2>1, <2>2, <2>3, <2>6, IdleIs, WriterSteps DEF Types
  <2>8. CASE empty
    <3>1. job' = [job EXCEPT ![p] = n] /\ held' = held
      BY <1>4, <2>8
    <3>2. n = [path |-> j.path, base |-> j.base, offset |-> j.offset, name |-> j.name, found |-> j.found,
               stage |-> "clear", block |-> j.block]
      BY <1>2, <2>2 DEF Jobs
    <3>3. /\ n \in Jobs /\ n.base = j.base /\ n.offset = j.offset /\ n.block = j.block /\ n.found = j.found
          /\ n.stage = "clear"
      BY <2>2, <3>2 DEF Jobs, WriteStages
    <3>4. JobSound(p, n)
      BY <2>1, <2>2, <3>3 DEF JobSound, WriteStages, WalkStages
    <3>5. \A i \in 2..(NumEntries - 1) : dir[j.block][i].kind = "free"
      <4>1. \A i \in 2..(NumEntries - 1) : i \in Offsets /\ i >= 2
        BY Numbers
      <4> QED BY <4>1, <2>8
    <3>6. j.offset # 0
      <4>1. dir[j.base][0].block = j.base
        BY <2>2, <2>4, Walks, EntryIs
      <4> QED BY <4>1, <2>4, <2>5
    <3>7. j.offset # 1
      <4> SUFFICES ASSUME j.offset = 1 PROVE FALSE
        OBVIOUS
      <4>1. j.base # Root
        BY <2>2, <2>4, <2>5, Walks
      <4>2. PICK e \in Subdirs(dir) : j.base = Target(dir, e) /\ e[1] = dir[j.base][1].block
        BY <4>1, <2>2, <2>4, Walks
      <4>3. e[1] = j.block /\ e[2] \in 2..(NumEntries - 1) /\ dir[e[1]][e[2]].kind = "dir"
        BY <4>2, <2>4, SubdirsAreUsed, CellIs
      <4> QED BY <4>3, <3>5
    <3>8. <<j.base, j.offset>> \in Used(dir) /\ <<j.base, j.offset>>[1] = j.base /\ <<j.base, j.offset>>[2] = j.offset
      BY <2>2, <2>4, <3>6, <3>7, EntryLeads
    <3>9. j.block = Target(dir, <<j.base, j.offset>>)
      BY <2>4, <3>8 DEF Target
    <3>10. WriterSound(dir', held', p, n)
      BY <2>4, <2>5, <2>6, <3>1, <3>3, <3>5, <3>8, <3>9 DEF WriterSound, WalkSound, LookedSound, WorkSound, WalkStages
    <3> QED BY <3>1, <3>3, <3>4, <3>10, <2>1, <2>2, <2>3, <2>6, WriterSteps DEF Types
  <2> QED BY <2>7, <2>8
<1>5. Break \/ /\ j.stage = "empty?" /\ Available(j.block)
               /\ held' = IF empty THEN held ELSE [held EXCEPT ![j.base] = Nobody]
               /\ job' = [job EXCEPT ![p] = IF empty THEN n ELSE Idle]
               /\ UNCHANGED <<dir, bitmap, dentry, broken>>
  BY <1>1, <1>2, Zenon DEF CheckEmpty
<1> HIDE DEF empty
<1> QED BY <1>3, <1>4, <1>5

(* The bit is cleared.                                                       *)
LEMMA ClearBitKeeps ==
  ASSUME GOSFSInv, OneWriter, NEW p \in Procs, ClearBit(p)
  PROVE  GOSFSInv'
<1>1. PICK j : j = job[p]
  OBVIOUS
<1>2. PICK n : n = [j EXCEPT !.stage = "erase"]
  OBVIOUS
<1>3. /\ j.stage = "clear" /\ bitmap' = bitmap \ {j.block}
      /\ job' = [job EXCEPT ![p] = n] /\ dir' = dir /\ held' = held /\ dentry' = dentry /\ broken' = broken
  BY <1>1, <1>2, Zenon DEF ClearBit
<1>4. p \in Writers
  <2>1. JobSound(p, j)
    BY <1>1, JobAt
  <2> QED BY <2>1, <1>3 DEF JobSound, ReadStages, WalkStages
<1>5. /\ j \in Jobs /\ JobSound(p, j) /\ WriterSound(dir, held, p, j) /\ Tree(dir, {})
      /\ bitmap = {Super, Root} \cup Targets(dir)
  BY <1>1, <1>3, <1>4, DiskAt
<1>6. n = [path |-> j.path, base |-> j.base, offset |-> j.offset, name |-> j.name, found |-> j.found,
           stage |-> "erase", block |-> j.block]
  BY <1>2, <1>5 DEF Jobs
<1>7. /\ n \in Jobs /\ n.base = j.base /\ n.offset = j.offset /\ n.block = j.block /\ n.found = j.found
      /\ n.stage = "erase"
  BY <1>5, <1>6 DEF Jobs, WriteStages
<1>8. JobSound(p, n)
  BY <1>4, <1>5, <1>7 DEF JobSound, WriteStages, WalkStages
<1>9. WriterSound(dir', held', p, n)
  BY <1>3, <1>5, <1>7 DEF WriterSound, WalkSound, LookedSound, WorkSound, WalkStages
<1>10. Types
  BY DEF GOSFSInv
<1> QED BY <1>3, <1>4, <1>5, <1>7, <1>8, <1>9, <1>10, WriterSteps DEF Types

(* The entry is freed, and its block filled with zeros.                       *)
LEMMA EraseEntryKeeps ==
  ASSUME GOSFSInv, OneWriter, NEW p \in Procs, EraseEntry(p)
  PROVE  GOSFSInv'
<1>1. PICK j : j = job[p]
  OBVIOUS
<1>2. /\ j.stage = "erase" /\ job' = [job EXCEPT ![p] = Idle] /\ bitmap' = bitmap /\ dentry' = dentry
      /\ broken' = broken
      /\ j.block \in Blocks => /\ dir' = [dir EXCEPT ![j.block] = Zeroed, ![j.base][j.offset] = Free]
                               /\ held' = [held EXCEPT ![j.base] = Nobody]
  BY <1>1, Zenon DEF EraseEntry
<1>3. p \in Writers
  <2>1. JobSound(p, j)
    BY <1>1, JobAt
  <2> QED BY <2>1, <1>2 DEF JobSound, ReadStages, WalkStages
<1>4. /\ j \in Jobs /\ WriterSound(dir, held, p, j) /\ Tree(dir, {})
      /\ bitmap = ({Super, Root} \cup Targets(dir)) \ {j.block}
  BY <1>1, <1>2, <1>3, DiskAt
<1>5. PICK c : c = <<j.base, j.offset>>
  OBVIOUS
<1>6. c[1] = j.base /\ c[2] = j.offset
  BY <1>5
<1>7. /\ c \in Used(dir) /\ j.block = Target(dir, c) /\ j.block # c[1]
      /\ dir[c[1]][c[2]].kind = "dir" => \A i \in 2..(NumEntries - 1) : dir[j.block][i].kind = "free"
  BY <1>2, <1>4, <1>5, <1>6 DEF WriterSound, WorkSound
<1>8. /\ j.block \in Blocks \ {Super, Root} /\ j.base \in Blocks \ {Super}
  <2>1. UsedSound(dir, {}) /\ dir \in Contents
    BY <1>4 DEF Tree
  <2>2. j.block \in Blocks \ {Super, Root} /\ c[1] \in Made(dir, {})
    BY <2>1, <1>7 DEF UsedSound
  <2> QED BY <2>1, <2>2, <1>6, MadeOnDisk
<1>9. Tree(dir', {}) /\ Targets(dir') = Targets(dir) \ {j.block}
  <2>1. PICK z : z = [dir EXCEPT ![j.block] = Zeroed]
    OBVIOUS
  <2>2. dir' = [z EXCEPT ![c[1]][c[2]] = Free]
    BY <1>2, <1>6, <1>8, <2>1, Zenon
  <2>3. dir \in Contents /\ Zeroed \in [Offsets -> Entries] /\ Free \in Entries
    BY <1>4, FreeIs DEF Tree
  <2>4. Rewritten(dir, z, j.block, Zeroed)
    BY <2>1, <2>3, <1>8, BlockWritten
  <2>5. Written(z, dir', c[1], c[2], Free)
    <3>1. z \in Contents /\ c[1] \in Blocks /\ c[2] \in Offsets
      BY <2>4, <1>7, SubdirsAreUsed, CellIs DEF Rewritten
    <3>2. Written(z, [z EXCEPT ![c[1]][c[2]] = Free], c[1], c[2], Free)
      BY <2>3, <3>1, EntryWritten
    <3> QED BY <2>2, <3>2, Zenon
  <2> QED BY <2>4, <2>5, <1>4, <1>7, EntryErased
<1>10. JobSound(p, Idle)
  BY IdleIs, Numbers DEF JobSound, ReadStages, WriteStages, WalkStages
<1>11. WriterSound(dir', held', p, Idle)
  BY IdleIs DEF WriterSound, WalkSound, LookedSound, WorkSound, WalkStages
<1>12. Types
  BY DEF GOSFSInv
<1>13. held' \in [Blocks -> Procs \cup {Nobody, Mounted}] /\ held'[Super] = Mounted /\ broken' \in BOOLEAN
  BY <1>2, <1>8, <1>12, Numbers DEF Types
<1>14. bitmap' = {Super, Root} \cup Targets(dir')
  BY <1>2, <1>4, <1>8, <1>9
<1> QED BY <1>2, <1>3, <1>9, <1>10, <1>11, <1>13, <1>14, IdleIs, WriterSteps

LEMMA OperationKeeps ==
  ASSUME GOSFSInv, OneWriter, WholeBytes, NEW p \in Procs, Operation(p)
  PROVE  GOSFSInv'
<1>1. CASE End(p) /\ job[p].stage \in {"looked", "read"}
  BY <1>1, EndKeeps
<1>2. CASE NotFound(p)
  BY <1>1, <1>2 DEF NotFound, Looked
<1>3. CASE OpenWrongPath(p)
  BY <1>3, BreakKeeps DEF OpenWrongPath
<1>4. CASE ReadEntry(p)
  BY <1>1, <1>4 DEF ReadEntry, Looked
<1>5. CASE OpenDirectory(p)
  BY <1>5, OpenDirectoryKeeps
<1>6. CASE ListDirectory(p)
  BY <1>6, ListDirectoryKeeps
<1>7. CASE ReadDirectory(p)
  BY <1>1, <1>7 DEF ReadDirectory
<1>8. CASE ChangeDirectory(p)
  BY <1>8, ChangeDirectoryKeeps
<1>9. CASE CreateFile(p)
  <2>1. "create" \in WriteOps
    BY DEF WriteOps
  <2> QED BY <1>9, <2>1, FillEntryKeeps DEF CreateFile
<1>10. CASE CreateDirectory(p)
  <2>1. "mkdir" \in WriteOps
    BY DEF WriteOps
  <2> QED BY <1>10, <2>1, FillEntryKeeps DEF CreateDirectory
<1>11. CASE MarkBlock(p)
  BY <1>11, MarkBlockKeeps
<1>12. CASE FillDirectory(p)
  BY <1>12, FillDirectoryKeeps
<1>13. CASE TakeEntry(p)
  BY <1>13, TakeEntryKeeps
<1>14. CASE CheckEmpty(p)
  BY <1>14, CheckEmptyKeeps
<1>15. CASE ClearBit(p)
  BY <1>15, ClearBitKeeps
<1>16. CASE EraseEntry(p)
  BY <1>16, EraseEntryKeeps
<1> QED BY <1>2, <1>3, <1>4, <1>5, <1>6, <1>7, <1>8, <1>9, <1>10, <1>11, <1>12, <1>13, <1>14, <1>15, <1>16
        DEF Operation

(* Format leaves a root directory without files.                              *)
LEMMA FormattedDisk == Init => Tree(dir, {}) /\ Used(dir) = {}
<1> SUFFICES ASSUME Init PROVE Tree(dir, {}) /\ Used(dir) = {}
  OBVIOUS
<1>1. PICK rest \in [2..(NumEntries - 1) -> {Free, Junk}] :
        dir = [b \in Blocks |->
                 IF b = Root
                 THEN [i \in Offsets |-> IF i < 2 THEN NewDirectory(Root, Root)[i] ELSE rest[i]]
                 ELSE Zeroed]
  BY DEF Init
<1>2. PICK root : root = [i \in Offsets |-> IF i < 2 THEN NewDirectory(Root, Root)[i] ELSE rest[i]]
  OBVIOUS
<1>3. dir = [b \in Blocks |-> IF b = Root THEN root ELSE Zeroed]
  BY <1>1, <1>2, Zenon
<1>4. \A i \in Offsets : i < 2 => i = 0 \/ i = 1
  BY Numbers
<1>5. /\ root \in [Offsets -> Entries] /\ root[0] = Entry(".", "dir", Root) /\ root[1] = Entry("..", "dir", Root)
      /\ \A i \in 2..(NumEntries - 1) : root[i] \in {Free, Junk}
  <2>1. /\ NewDirectory(Root, Root)[0] = Entry(".", "dir", Root)
        /\ NewDirectory(Root, Root)[1] = Entry("..", "dir", Root)
    BY Numbers, NewDirectoryIs
  <2>2. root[0] = Entry(".", "dir", Root) /\ root[1] = Entry("..", "dir", Root)
    <3>1. 0 \in Offsets /\ 1 \in Offsets
      BY Numbers
    <3> QED BY <3>1, <1>2, <2>1
  <2>3. \A i \in 2..(NumEntries - 1) : root[i] \in {Free, Junk}
    <3>1. \A i \in 2..(NumEntries - 1) : i \in Offsets /\ ~(i < 2) /\ rest[i] \in {Free, Junk}
      BY Numbers
    <3> QED BY <3>1, <1>2
  <2>4. \A i \in Offsets : root[i] \in Entries
    <3> SUFFICES ASSUME NEW i \in Offsets PROVE root[i] \in Entries
      OBVIOUS
    <3>1. CASE i \in 2..(NumEntries - 1)
      BY <3>1, <2>3, FreeIs
    <3>2. CASE i = 0
      BY <3>2, <2>2, EntryIs, Numbers
    <3>3. CASE i = 1
      BY <3>3, <2>2, EntryIs, Numbers
    <3> QED BY <3>1, <3>2, <3>3, Numbers
  <2> QED BY <2>2, <2>3, <2>4, <1>2
<1>6. dir \in Contents /\ dir[Root] = root /\ \A b \in Blocks \ {Root} : dir[b] = Zeroed
  BY <1>3, <1>5, FreeIs, Numbers DEF Contents
<1>7. \A b \in Blocks, i \in Offsets : b # Root \/ (i # 0 /\ i # 1) => dir[b][i] \in {Free, Junk}
  BY <1>5, <1>6, FreeIs, Numbers
<1>8. Used(dir) = {} /\ Subdirs(dir) = {}
  <2>1. \A e \in Cells : dir[e[1]][e[2]].kind \notin {"file", "dir"}
    BY <1>7, CellIs, FreeIs
  <2> QED BY <2>1 DEF Used, Subdirs
<1>9. Made(dir, {}) = {Root}
  BY <1>8 DEF Made
<1>10. UnusedSound(dir)
  <2> SUFFICES ASSUME NEW b \in Blocks, NEW k \in Offsets, dir[b][k].kind \in {"free", "junk"}
               PROVE  dir[b][k] \in {Free, Junk}
    BY DEF UnusedSound
  <2>1. b # Root \/ (k # 0 /\ k # 1)
    BY <1>5, <1>6, EntryIs
  <2> QED BY <2>1, <1>7
<1>11. UsedSound(dir, {}) /\ OneEntryEach(dir) /\ NamesDiffer(dir)
  BY <1>8 DEF UsedSound, OneEntryEach, NamesDiffer
<1>12. SelfSound(dir, {}) /\ ParentSound(dir, {}) /\ RestZeroed(dir, {})
  BY <1>5, <1>6, <1>8, <1>9 DEF SelfSound, ParentSound, RestZeroed
<1> QED BY <1>6, <1>8, <1>10, <1>11, <1>12 DEF Tree

LEMMA InitKeeps == Init => GOSFSInv
<1> SUFFICES ASSUME Init PROVE GOSFSInv
  OBVIOUS
<1>1. /\ bitmap = {Super, Root} /\ held = MountBuffers /\ job = [p \in Procs |-> Idle] /\ broken = FALSE
      /\ dentry = [p \in Procs |-> [base |-> Super, offset |-> 0, block |-> Root]]
  BY DEF Init
<1>2. Writers \subseteq Procs
  BY GOSFSAssumption
<1>3. Types
  <2>1. job \in [Procs -> Jobs]
    BY <1>1, IdleIs
  <2>2. held \in [Blocks -> Procs \cup {Nobody, Mounted}] /\ held[Super] = Mounted
    BY <1>1, Numbers DEF MountBuffers
  <2>3. dentry \in [Procs -> [base : Blocks, offset : Offsets, block : Blocks]]
    BY <1>1, Numbers
  <2> QED BY <2>1, <2>2, <2>3, <1>1 DEF Types
<1>4. New = {} /\ Gone = {}
  BY <1>1, <1>2, IdleIs DEF New, Gone, BlocksAt
<1>5. DiskSound
  <2>1. Targets(dir) = {}
    BY FormattedDisk DEF Targets
  <2> QED BY <2>1, <1>1, <1>4, FormattedDisk DEF DiskSound
<1>6. JobsSound
  <2>1. ASSUME NEW p \in Procs PROVE JobSound(p, job[p])
    BY <1>1, IdleIs, Numbers DEF JobSound, ReadStages, WriteStages, WalkStages
  <2>2. ASSUME NEW w \in Writers PROVE WriterSound(dir, held, w, job[w])
    BY <1>1, <1>2, IdleIs DEF WriterSound, WalkSound, LookedSound, WorkSound, WalkStages
  <2> QED BY <2>1, <2>2 DEF JobsSound
<1> QED BY <1>3, <1>5, <1>6 DEF GOSFSInv

LEMMA NextKeeps == OneWriter /\ WholeBytes => (GOSFSInv /\ [Next]_vars => GOSFSInv')
<1> SUFFICES ASSUME OneWriter, WholeBytes, GOSFSInv, [Next]_vars PROVE GOSFSInv'
  OBVIOUS
<1>1. CASE UNCHANGED vars
  BY <1>1, StutterKeeps
<1>2. CASE Next
  <2>1. PICK p \in Procs : Start(p) \/ Lookup(p) \/ Operation(p)
    BY <1>2 DEF Next
  <2> QED BY <2>1, StartKeeps, LookupKeeps, OperationKeeps
<1> QED BY <1>1, <1>2

(* Where one process creates and deletes, and the bitmap ends with the disk,   *)
(* the inductive invariant holds of every reachable state.                    *)
THEOREM GOSFSInvariant ==
  ASSUME OneWriter, WholeBytes PROVE Spec => []GOSFSInv
<1>1. GOSFSInv /\ [Next]_vars => GOSFSInv'
  BY NextKeeps
<1> QED BY <1>1, InitKeeps, PTL DEF Spec

-----------------------------------------------------------------------------
(* What it implies *)

LEMMA InUseIs == InUse = Used(dir) /\ \A e : BlockOf(e) = Target(dir, e)
  BY DEF InUse, Used, Cells, BlockOf, Target

LEMMA QuietIs == GOSFSInv /\ Quiet => New = {} /\ Gone = {}
<1> SUFFICES ASSUME Quiet PROVE New = {} /\ Gone = {}
  OBVIOUS
<1>1. \A w \in Writers : job[w].stage \notin {"mark", "fill", "erase"}
  BY GOSFSAssumption DEF Quiet
<1> QED BY <1>1 DEF New, Gone, BlocksAt

(* The blocks, entries, buffers and the directory entries processes work in    *)
(* keep their types.                                                         *)
THEOREM GOSFSTypeOK ==
  ASSUME OneWriter, WholeBytes PROVE Spec => []TypeOK
<1>1. GOSFSInv => TypeOK
  <2> SUFFICES ASSUME GOSFSInv PROVE TypeOK
    OBVIOUS
  <2>1. Types /\ dir \in Contents /\ bitmap = ({Super, Root} \cup Targets(dir)) \ Gone /\ UsedSound(dir, New)
    BY DEF GOSFSInv, DiskSound, Tree
  <2>2. Blocks \subseteq Nat
    BY Numbers
  <2>3. bitmap \subseteq Nat
    BY <2>1, <2>2, Numbers DEF Targets, UsedSound
  <2>4. dir \in [Blocks -> [Offsets -> [name : Names \cup {".", "..", NoName},
                                       kind : {"free", "junk", "file", "dir"}, block : Nat]]]
    <3>1. Entries \subseteq [name : Names \cup {".", "..", NoName},
                              kind : {"free", "junk", "file", "dir"}, block : Nat]
      BY <2>2 DEF Entries
    <3> QED BY <2>1, <3>1 DEF Contents
  <2>5. dentry \in [Procs -> [base : Nat, offset : Offsets, block : Nat]]
    BY <2>1, <2>2 DEF Types
  <2> QED BY <2>1, <2>3, <2>4, <2>5 DEF TypeOK, Types
<1> QED BY <1>1, GOSFSInvariant, PTL

(* The bitmap has exactly the blocks that the superblock, the root directory    *)
(* and one entry each use: GOSFS_Open, Create_Directory and GOSFS_Delete lose   *)
(* no block and give none to two entries (gosfs.c:452, 720).                    *)
THEOREM BlocksAreAccounted ==
  ASSUME OneWriter, WholeBytes PROVE Spec => []BlocksAccounted
<1>1. GOSFSInv => BlocksAccounted
  <2> SUFFICES ASSUME GOSFSInv, Quiet
               PROVE  /\ bitmap = {Super, Root} \cup {BlockOf(e) : e \in InUse}
                      /\ \A e, f \in InUse : BlockOf(e) = BlockOf(f) => e = f
    BY DEF BlocksAccounted
  <2>1. bitmap = {Super, Root} \cup Targets(dir) /\ OneEntryEach(dir)
    BY QuietIs DEF GOSFSInv, DiskSound, Tree
  <2>2. Targets(dir) = {BlockOf(e) : e \in InUse}
    BY InUseIs DEF Targets
  <2>3. \A e, f \in InUse : BlockOf(e) = BlockOf(f) => e = f
    BY <2>1, InUseIs DEF OneEntryEach
  <2> QED BY <2>1, <2>2, <2>3
<1> QED BY <1>1, GOSFSInvariant, PTL

(* The directories form a tree whose blocks name themselves and their parents,  *)
(* names in a directory differ, and a block that is no directory has no entries  *)
(* (gosfs.c:555, 730).                                                         *)
THEOREM DirectoriesFormATree ==
  ASSUME OneWriter, WholeBytes PROVE Spec => []TreeSound
<1>1. GOSFSInv => TreeSound
  <2> DEFINE dirs == {e \in InUse : dir[e[1]][e[2]].kind = "dir"}
  <2> SUFFICES ASSUME GOSFSInv, Quiet
               PROVE  /\ \A e \in dirs : \A i \in {0, PrevDir} :
                           dir[BlockOf(e)][i] = NewDirectory(BlockOf(e), e[1])[i]
                      /\ \A e, f \in InUse : e[1] = f[1] /\ e # f => dir[e[1]][e[2]].name # dir[f[1]][f[2]].name
                      /\ \A b \in Blocks \ ({Root} \cup {BlockOf(e) : e \in dirs}) : dir[b] = Zeroed
    BY DEF TreeSound
  <2>1. /\ Tree(dir, {}) /\ UsedSound(dir, {}) /\ NamesDiffer(dir) /\ SelfSound(dir, {})
        /\ ParentSound(dir, {}) /\ RestZeroed(dir, {}) /\ dir \in Contents
    BY QuietIs DEF GOSFSInv, DiskSound, Tree
  <2>2. dirs = Subdirs(dir)
    BY InUseIs DEF Used, Subdirs
  <2> HIDE DEF dirs
  <2>3. ASSUME NEW e \in dirs, NEW i \in {0, PrevDir}
        PROVE  dir[BlockOf(e)][i] = NewDirectory(BlockOf(e), e[1])[i]
    <3>1. BlockOf(e) = Target(dir, e) /\ e \in Subdirs(dir) /\ e \in Used(dir)
      BY <2>2, InUseIs, SubdirsAreUsed
    <3>2. BlockOf(e) \in Blocks /\ e[1] \in Blocks
      BY <2>1, <3>1, SubdirsAreUsed, CellIs DEF UsedSound
    <3>3. BlockOf(e) \in Made(dir, {})
      BY <3>1, MadeIs
    <3>4. dir[BlockOf(e)][0] = Entry(".", "dir", BlockOf(e))
      BY <2>1, <3>3 DEF SelfSound
    <3>5. dir[BlockOf(e)][1] = Entry("..", "dir", e[1])
      BY <2>1, <3>1, <3>3 DEF ParentSound
    <3>6. /\ NewDirectory(BlockOf(e), e[1])[0] = Entry(".", "dir", BlockOf(e))
          /\ NewDirectory(BlockOf(e), e[1])[1] = Entry("..", "dir", e[1])
      BY <3>2, NewDirectoryIs
    <3>7. i = 0 \/ i = 1
      BY DEF PrevDir
    <3> QED BY <3>4, <3>5, <3>6, <3>7
  <2>4. \A e, f \in InUse : e[1] = f[1] /\ e # f => dir[e[1]][e[2]].name # dir[f[1]][f[2]].name
    BY <2>1, InUseIs, Zenon DEF NamesDiffer
  <2>5. {Root} \cup {BlockOf(e) : e \in dirs} = Made(dir, {})
    BY <2>2, InUseIs DEF Made
  <2> QED BY <2>1, <2>3, <2>4, <2>5 DEF RestZeroed
<1> QED BY <1>1, GOSFSInvariant, PTL

-----------------------------------------------------------------------------
(* The path of a directory *)

(* The block behind an entry of a directory, as Leads goes from block to block,  *)
(* and the blocks on the way of a path.                                       *)
Toward(b, name) == LET m == Matches(b, name, TRUE) IN IF m = {} THEN Super ELSE dir[b][Min(m)].block
Follows(h, path) ==
  /\ h \in [0..Len(path) -> Blocks] /\ h[0] = Root
  /\ \A n \in 1..Len(path) : h[n] = Toward(h[n - 1], path[n])
PathTo(path, b) == path \in Seq(Names) /\ \E h : Follows(h, path) /\ h[Len(path)] = b

LEMMA LeadsAlong ==
  ASSUME NEW path, Len(path) \in Nat, NEW h, Follows(h, path)
  PROVE  Leads(path) = h[Len(path)]
<1> DEFINE To(t) == t = [n \in 0..Len(path) |-> IF n = 0 THEN Root ELSE Toward(t[n - 1], path[n])]
<1>1. To(h)
  <2>1. h = [n \in 0..Len(path) |-> h[n]]
    BY DEF Follows
  <2>2. \A n \in 0..Len(path) : h[n] = IF n = 0 THEN Root ELSE Toward(h[n - 1], path[n])
    BY DEF Follows
  <2>3. [n \in 0..Len(path) |-> h[n]]
          = [n \in 0..Len(path) |-> IF n = 0 THEN Root ELSE Toward(h[n - 1], path[n])]
    BY <2>2
  <2> QED BY <2>1, <2>3
<1>2. Leads(path) = (CHOOSE t : To(t))[Len(path)]
  BY DEF Leads, Toward
<1>3. PICK t : To(t) /\ Leads(path) = t[Len(path)]
  <2> HIDE DEF To
  <2> QED BY <1>1, <1>2
<1>4. \A n \in 0..Len(path) : t[n] = IF n = 0 THEN Root ELSE Toward(t[n - 1], path[n])
  BY <1>3
<1>5. \A n \in 0..Len(path) : t[n] = h[n]
  <2> DEFINE Bad == {n \in 0..Len(path) : t[n] # h[n]}
  <2> SUFFICES ASSUME Bad # {} PROVE FALSE
    OBVIOUS
  <2>1. Bad \in SUBSET Nat
    OBVIOUS
  <2>2. PICK n \in Bad : \A m \in Bad : n =< m
    BY <2>1, LeastFact
  <2>3. n \in 0..Len(path) /\ t[n] # h[n] /\ n # 0
    BY <1>4 DEF Follows
  <2>4. n - 1 \in 0..Len(path) /\ n - 1 \notin Bad /\ n \in 1..Len(path)
    BY <2>2, <2>3
  <2>5. t[n - 1] = h[n - 1]
    BY <2>4
  <2>6. t[n] = Toward(t[n - 1], path[n]) /\ h[n] = Toward(h[n - 1], path[n])
    BY <2>3, <2>4, <1>4 DEF Follows
  <2> QED BY <2>3, <2>5, <2>6
<1> QED BY <1>3, <1>5

LEMMA RootPath == PathTo(<<>>, Root)
<1> DEFINE h == [n \in {0} |-> Root]
<1>1. Len(<<>>) = 0 /\ 0..0 = {0} /\ 1..0 = {} /\ <<>> \in Seq(Names)
  OBVIOUS
<1>2. Follows(h, <<>>) /\ h[0] = Root
  BY <1>1, Numbers DEF Follows
<1> QED BY <1>1, <1>2 DEF PathTo

LEMMA PathGrows ==
  ASSUME NEW path, NEW b, PathTo(path, b), NEW name \in Names, Toward(b, name) \in Blocks
  PROVE  PathTo(Append(path, name), Toward(b, name))
<1>1. path \in Seq(Names) /\ Len(path) \in Nat
  BY LenProperties DEF PathTo
<1>2. PICK h : Follows(h, path) /\ h[Len(path)] = b
  BY DEF PathTo
<1>3. PICK c : c = Toward(b, name)
  OBVIOUS
<1>4. PICK len : len = Len(path)
  OBVIOUS
<1>5. PICK longer : longer = Append(path, name)
  OBVIOUS
<1>6. /\ longer \in Seq(Names) /\ Len(longer) = len + 1 /\ longer[len + 1] = name
      /\ \A n \in 1..len : longer[n] = path[n]
  BY <1>1, <1>4, <1>5, AppendProperties
<1>7. PICK g : g = [n \in 0..(len + 1) |-> IF n = len + 1 THEN c ELSE h[n]]
  OBVIOUS
<1>8. h \in [0..len -> Blocks] /\ h[0] = Root /\ \A n \in 1..len : h[n] = Toward(h[n - 1], path[n])
  BY <1>2, <1>4 DEF Follows
<1>9. g \in [0..(len + 1) -> Blocks] /\ g[len + 1] = c /\ \A n \in 0..len : g[n] = h[n]
  <2>1. \A n \in 0..(len + 1) : n = len + 1 \/ n \in 0..len
    BY <1>1, <1>4
  <2>2. \A n \in 0..len : n # len + 1 /\ n \in 0..(len + 1)
    BY <1>1, <1>4
  <2>3. len + 1 \in 0..(len + 1)
    BY <1>1, <1>4
  <2> QED BY <2>1, <2>2, <2>3, <1>3, <1>7, <1>8
<1>10. ASSUME NEW n \in 1..(len + 1) PROVE g[n] = Toward(g[n - 1], longer[n])
  <2>1. CASE n = len + 1
    <3>1. n - 1 = len /\ len \in 0..len
      BY <2>1, <1>1, <1>4
    <3> QED BY <2>1, <3>1, <1>2, <1>3, <1>4, <1>6, <1>9
  <2>2. CASE n # len + 1
    <3>1. n \in 1..len /\ n \in 0..len /\ n - 1 \in 0..len
      BY <2>2, <1>1, <1>4
    <3> QED BY <3>1, <1>6, <1>8, <1>9
  <2> QED BY <2>1, <2>2
<1>11. 0 \in 0..len
  BY <1>1, <1>4
<1>12. Follows(g, longer)
  BY <1>6, <1>8, <1>9, <1>10, <1>11 DEF Follows
<1> QED BY <1>3, <1>5, <1>6, <1>9, <1>12 DEF PathTo

(* An entry that is in use is the one its name finds.                         *)
LEMMA NameFinds ==
  ASSUME NEW new, Tree(dir, new), NEW e \in Used(dir)
  PROVE  Toward(e[1], dir[e[1]][e[2]].name) = Target(dir, e) /\ Target(dir, e) \in Blocks
         /\ dir[e[1]][e[2]].name \in Names
<1>1. /\ dir \in Contents /\ UnusedSound(dir) /\ UsedSound(dir, new) /\ NamesDiffer(dir)
      /\ SelfSound(dir, new) /\ ParentSound(dir, new)
  BY DEF Tree
<1>2. /\ e \in Cells /\ e[1] \in Blocks /\ e[2] \in Offsets /\ e = <<e[1], e[2]>>
      /\ dir[e[1]][e[2]].kind \in {"file", "dir"}
  BY SubdirsAreUsed, CellIs
<1>3. PICK name : name = dir[e[1]][e[2]].name
  OBVIOUS
<1>4. name \in Names /\ name # NoName /\ name # "." /\ name # ".." /\ e[1] \in Made(dir, new)
      /\ Target(dir, e) \in Blocks
  BY <1>1, <1>3, GOSFSAssumption DEF UsedSound
<1>5. ASSUME NEW i \in Offsets, dir[e[1]][i].name = name, dir[e[1]][i].kind \in {"file", "dir"}
      PROVE  i = e[2]
  <2>1. CASE i = 0
    <3>1. dir[e[1]][0].name = "."
      BY <1>1, <1>4, EntryIs DEF SelfSound
    <3> QED BY <2>1, <3>1, <1>4, <1>5
  <2>2. CASE i = 1
    <3>1. dir[e[1]][1].name = ".."
      <4>1. CASE e[1] = Root
        BY <4>1, <1>1, EntryIs DEF ParentSound
      <4>2. CASE e[1] # Root
        <5>1. PICK g \in Subdirs(dir) : e[1] = Target(dir, g)
          BY <4>2, <1>4, MadeIs
        <5>2. dir[e[1]][1] = Entry("..", "dir", g[1])
          BY <5>1, <1>1, <1>4 DEF ParentSound
        <5> QED BY <5>2, EntryIs
      <4> QED BY <4>1, <4>2
    <3> QED BY <2>2, <3>1, <1>4, <1>5
  <2>3. CASE i # 0 /\ i # 1
    <3>1. <<e[1], i>> \in Cells /\ <<e[1], i>>[1] = e[1] /\ <<e[1], i>>[2] = i
      BY <2>3, <1>2, IsCell
    <3>2. PICK g : g = <<e[1], i>>
      OBVIOUS
    <3>3. g \in Used(dir) /\ g[1] = e[1] /\ g[2] = i
      BY <3>1, <3>2, <1>5 DEF Used
    <3>4. g = e
      BY <3>3, <1>1, <1>3, <1>5 DEF NamesDiffer
    <3> QED BY <3>3, <3>4
  <2> QED BY <2>1, <2>2, <2>3
<1>6. Matches(e[1], name, TRUE) = {e[2]}
  <2>1. ASSUME NEW i \in Matches(e[1], name, TRUE) PROVE i = e[2]
    BY <2>1, <1>5 DEF Matches
  <2>2. e[2] \in Matches(e[1], name, TRUE)
    BY <1>2, <1>3 DEF Matches
  <2> QED BY <2>1, <2>2
<1>7. Min({e[2]}) = e[2]
  <2>1. e[2] \in Nat
    BY <1>2, Numbers
  <2> QED BY <2>1, MinFact
<1> QED BY <1>3, <1>4, <1>6, <1>7 DEF Toward, Target

-----------------------------------------------------------------------------
(* The way up *)

(* The directories above each: a block is not above itself, and every block above  *)
(* another has an entry on the way to it.                                      *)
Above(d, anc) ==
  /\ anc \in [Blocks -> SUBSET Blocks] /\ anc[Root] = {}
  /\ \A e \in Subdirs(d) :
       /\ anc[Target(d, e)] = anc[e[1]] \cup {e[1]}
       /\ Target(d, e) \notin anc[Target(d, e)]
       /\ \A c \in anc[Target(d, e)] :
            \E g \in Subdirs(d) : g[1] = c /\ Target(d, g) \in anc[Target(d, e)] \cup {Target(d, e)}
Rooted(d) == \E anc : Above(d, anc)

(* One step up, and the ways up of at most n steps, as ClimbFrom takes them.      *)
StepUp(w, n) ==
  [b \in Blocks |->
     LET parent == dir[b][PrevDir].block IN
     IF n = 0 \/ parent = b THEN <<>>
     ELSE IF parent = Super \/ EntriesOf(parent, b) = {} THEN <<NoName>>
     ELSE Append(w[parent], dir[parent][Min(EntriesOf(parent, b))].name)]
WaysUp(u, m) == /\ DOMAIN u = 0..m /\ \A n \in 0..m : u[n] = StepUp(u[n - 1], n)

LEMMA WaysUpExist ==
  ASSUME NEW m \in Nat
  PROVE  \E u : WaysUp(u, m) /\ u = [n \in 0..m |-> u[n]]
<1> DEFINE Bad == {k \in Nat : ~ \E u : WaysUp(u, k) /\ u = [n \in 0..k |-> u[n]]}
<1> SUFFICES ASSUME Bad # {} PROVE FALSE
  OBVIOUS
<1>1. PICK k \in Bad : \A i \in Bad : k =< i
  <2>1. Bad \in SUBSET Nat
    OBVIOUS
  <2> HIDE DEF Bad
  <2> QED BY <2>1, LeastFact
<1>2. k # 0
  <2> SUFFICES ASSUME k = 0 PROVE \E u : WaysUp(u, k) /\ u = [n \in 0..k |-> u[n]]
    OBVIOUS
  <2>1. PICK w : w = StepUp([n \in {} |-> 0], 0)
    OBVIOUS
  <2>2. \A v : StepUp(v, 0) = w
    BY <2>1 DEF StepUp
  <2>3. PICK u : u = [n \in {0} |-> w]
    OBVIOUS
  <2>4. 0..0 = {0}
    OBVIOUS
  <2>5. u[0] = w /\ DOMAIN u = 0..0
    BY <2>3, <2>4
  <2>6. WaysUp(u, 0)
    BY <2>2, <2>4, <2>5 DEF WaysUp
  <2> QED BY <2>3, <2>4, <2>6
<1>3. k \in Nat /\ k - 1 \in Nat /\ k - 1 \notin Bad
  BY <1>1, <1>2
<1>4. PICK v : WaysUp(v, k - 1)
  BY <1>3
<1>5. PICK u : u = [n \in 0..k |-> IF n = k THEN StepUp(v[k - 1], k) ELSE v[n]]
  OBVIOUS
<1>6. DOMAIN u = 0..k /\ u = [n \in 0..k |-> u[n]]
  BY <1>5
<1>7. u[k] = StepUp(v[k - 1], k) /\ \A n \in 0..(k - 1) : u[n] = v[n]
  BY <1>3, <1>5
<1>8. ASSUME NEW n \in 0..k PROVE u[n] = StepUp(u[n - 1], n)
  <2>1. CASE n = k
    <3>1. k - 1 \in 0..(k - 1)
      BY <1>3
    <3> QED BY <2>1, <3>1, <1>7
  <2>2. CASE n # k /\ n # 0
    <3>1. n \in 0..(k - 1) /\ n - 1 \in 0..(k - 1)
      BY <2>2, <1>3
    <3> QED BY <3>1, <1>4, <1>7 DEF WaysUp
  <2>3. CASE n = 0
    <3>1. 0 \in 0..(k - 1)
      BY <1>3
    <3>2. u[0] = StepUp(v[0 - 1], 0)
      BY <3>1, <1>4, <1>7 DEF WaysUp
    <3>3. \A x, y : StepUp(x, 0) = StepUp(y, 0)
      BY DEF StepUp
    <3> QED BY <2>3, <3>2, <3>3
  <2> QED BY <2>1, <2>2, <2>3
<1>9. WaysUp(u, k)
  BY <1>6, <1>8 DEF WaysUp
<1> QED BY <1>1, <1>6, <1>9

LEMMA ClimbIs ==
  \E u : WaysUp(u, NumBlocks) /\ \A b : ClimbFrom(b) = u[NumBlocks][b]
<1> DEFINE Up(u) == u = [n \in 0..NumBlocks |-> StepUp(u[n - 1], n)]
<1>1. PICK v : Up(v)
  <2>1. PICK v : WaysUp(v, NumBlocks) /\ v = [n \in 0..NumBlocks |-> v[n]]
    BY WaysUpExist, Numbers
  <2>2. [n \in 0..NumBlocks |-> v[n]] = [n \in 0..NumBlocks |-> StepUp(v[n - 1], n)]
    BY <2>1 DEF WaysUp
  <2> QED BY <2>1, <2>2
<1>2. PICK u : Up(u) /\ u = CHOOSE x : Up(x)
  <2> HIDE DEF Up
  <2> QED BY <1>1
<1>3. \A b : ClimbFrom(b) = u[NumBlocks][b]
  <2> SUFFICES ASSUME NEW b PROVE ClimbFrom(b) = u[NumBlocks][b]
    OBVIOUS
  <2>1. ClimbFrom(b) = (CHOOSE x : Up(x))[NumBlocks][b]
    BY DEF ClimbFrom, StepUp
  <2> HIDE DEF Up
  <2> QED BY <2>1, <1>2
<1>4. WaysUp(u, NumBlocks)
  BY <1>2 DEF WaysUp
<1> QED BY <1>3, <1>4

(* A directory other than the root has one entry, in the directory above it.     *)
LEMMA MadeHasParent ==
  ASSUME NEW new, Tree(dir, new), NEW b \in Made(dir, new), b # Root, NEW anc, Above(dir, anc)
  PROVE  \E e \in Subdirs(dir) :
           /\ e \in Used(dir) /\ Target(dir, e) = b /\ e[1] = dir[b][PrevDir].block
           /\ e[1] \in Made(dir, new) /\ e[1] # b /\ EntriesOf(e[1], b) = {e[2]} /\ e[1] # Super
           /\ Min(EntriesOf(e[1], b)) = e[2] /\ b \in Blocks
<1>1. /\ dir \in Contents /\ UnusedSound(dir) /\ UsedSound(dir, new) /\ OneEntryEach(dir)
      /\ SelfSound(dir, new) /\ ParentSound(dir, new)
  BY DEF Tree
<1>2. PICK e \in Subdirs(dir) : Target(dir, e) = b
  BY MadeIs
<1>3. e \in Used(dir) /\ e \in Cells /\ e[1] \in Blocks /\ e[2] \in Offsets
  BY <1>2, SubdirsAreUsed, CellIs
<1>4. dir[b][PrevDir].block = e[1]
  <2>1. dir[b][1] = Entry("..", "dir", e[1])
    BY <1>1, <1>2 DEF ParentSound
  <2> QED BY <2>1, EntryIs DEF PrevDir
<1>5. e[1] \in Made(dir, new) /\ b \in Blocks \ {Super, Root}
  BY <1>1, <1>2, <1>3 DEF UsedSound
<1>6. /\ anc[b] = anc[e[1]] \cup {e[1]} /\ b \notin anc[b]
  BY <1>2 DEF Above
<1>7. e[1] # b /\ b \notin anc[e[1]]
  BY <1>6
<1>8. e[1] # Super
  BY <1>1, <1>5, MadeOnDisk
<1>9. ASSUME NEW i \in Offsets, dir[e[1]][i].block = b PROVE i = e[2]
  <2>1. CASE i = 0
    <3>1. dir[e[1]][0].block = e[1]
      BY <1>1, <1>5, EntryIs DEF SelfSound
    <3> QED BY <2>1, <3>1, <1>7, <1>9
  <2>2. CASE i = 1
    <3>1. CASE e[1] = Root
      <4>1. dir[Root][1].block = Root
        BY <1>1, EntryIs DEF ParentSound
      <4> QED BY <4>1, <3>1, <2>2, <1>9
    <3>2. CASE e[1] # Root
      <4>1. PICK g \in Subdirs(dir) : e[1] = Target(dir, g)
        BY <3>2, <1>5, MadeIs
      <4>2. dir[e[1]][1].block = g[1]
        BY <4>1, <1>1, <1>5, EntryIs DEF ParentSound
      <4>3. anc[e[1]] = anc[g[1]] \cup {g[1]}
        BY <4>1 DEF Above
      <4> QED BY <4>2, <4>3, <2>2, <1>7, <1>9
    <3> QED BY <3>1, <3>2
  <2>3. CASE i # 0 /\ i # 1
    <3>1. <<e[1], i>> \in Cells /\ <<e[1], i>>[1] = e[1] /\ <<e[1], i>>[2] = i
      BY <2>3, <1>3, IsCell
    <3>2. PICK g : g = <<e[1], i>>
      OBVIOUS
    <3>3. g \in Cells /\ g[1] = e[1] /\ g[2] = i /\ Target(dir, g) = b
      BY <3>1, <3>2, <1>9 DEF Target
    <3>4. CASE g \in Used(dir)
      <4>1. g = e
        BY <3>3, <3>4, <1>1, <1>2, <1>3 DEF OneEntryEach
      <4> QED BY <3>3, <4>1
    <3>5. CASE g \notin Used(dir)
      <4>1. dir[e[1]][i] \in Entries
        BY <1>1, <1>3, ContentsAre
      <4>2. dir[e[1]][i].kind \in {"free", "junk"}
        BY <4>1, <3>3, <3>5, EntriesAre DEF Used
      <4>3. dir[e[1]][i] \in {Free, Junk}
        BY <4>2, <1>1, <1>3 DEF UnusedSound
      <4>4. b = Super
        BY <4>3, <1>9, FreeIs, Numbers
      <4> QED BY <4>4, <1>5
    <3> QED BY <3>4, <3>5
  <2> QED BY <2>1, <2>2, <2>3
<1>10. EntriesOf(e[1], b) = {e[2]}
  <2>1. ASSUME NEW i \in EntriesOf(e[1], b) PROVE i = e[2]
    BY <2>1, <1>9 DEF EntriesOf
  <2>2. e[2] \in EntriesOf(e[1], b)
    BY <1>2, <1>3 DEF EntriesOf, Target
  <2> QED BY <2>1, <2>2
<1>11. Min({e[2]}) = e[2]
  <2>1. e[2] \in Nat
    BY <1>3, Numbers
  <2> QED BY <2>1, MinFact
<1> QED BY <1>2, <1>3, <1>4, <1>5, <1>7, <1>8, <1>10, <1>11

LEMMA RootIsMade ==
  ASSUME NEW new, Tree(dir, new) PROVE dir[Root][PrevDir].block = Root
  BY EntryIs DEF Tree, ParentSound, PrevDir

(* The way up from a directory is its path, which is never longer than the disk   *)
(* has blocks.                                                                 *)
LEMMA ClimbLeads ==
  ASSUME NEW new, Tree(dir, new), Rooted(dir), NEW block \in Made(dir, new)
  PROVE  PathTo(ClimbFrom(block), block)
<1>1. PICK anc : Above(dir, anc)
  BY DEF Rooted
<1>2. PICK u : WaysUp(u, NumBlocks) /\ \A b : ClimbFrom(b) = u[NumBlocks][b]
  BY ClimbIs
<1>3. NumBlocks \in Nat /\ Blocks = 0..(NumBlocks - 1) /\ Root \in Blocks
  BY Numbers
<1>4. IsFiniteSet(Blocks) /\ Cardinality(Blocks) = NumBlocks
  <2>1. 0 \in Int /\ NumBlocks - 1 \in Int /\ NumBlocks > 2
    BY <1>3, GOSFSAssumption
  <2>2. IsFiniteSet(0..(NumBlocks - 1)) /\ Cardinality(0..(NumBlocks - 1)) = IF 0 > NumBlocks - 1 THEN 0 ELSE (NumBlocks - 1) - 0 + 1
    BY <2>1, FS_Interval, Zenon
  <2> QED BY <2>1, <2>2, <1>3
<1>5. ASSUME NEW b \in Blocks
      PROVE  IsFiniteSet(anc[b]) /\ Cardinality(anc[b]) \in Nat /\ Cardinality(anc[b]) =< NumBlocks
  <2>1. anc[b] \in SUBSET Blocks
    BY <1>1 DEF Above
  <2> QED BY <2>1, <1>4, FS_Subset, FS_CardinalityType
<1>6. \A b \in Made(dir, new) : b \in Blocks
  BY MadeOnDisk DEF Tree
<1> DEFINE Bad == {n \in 0..NumBlocks : \E b \in Made(dir, new) :
                     Cardinality(anc[b]) =< n /\ ~ PathTo(u[n][b], b)}
<1>7. Bad = {}
  <2> SUFFICES ASSUME Bad # {} PROVE FALSE
    OBVIOUS
  <2>1. PICK n \in Bad : \A k \in Bad : n =< k
    <3>1. Bad \in SUBSET Nat
      OBVIOUS
    <3> HIDE DEF Bad
    <3> QED BY <3>1, LeastFact
  <2>2. PICK b \in Made(dir, new) : Cardinality(anc[b]) =< n /\ ~ PathTo(u[n][b], b)
    OBVIOUS
  <2>3. n \in 0..NumBlocks /\ b \in Blocks /\ u[n] = StepUp(u[n - 1], n)
    BY <1>2, <1>6, <2>1, <2>2 DEF WaysUp
  <2>4. b # Root
    <3> SUFFICES ASSUME b = Root PROVE FALSE
      OBVIOUS
    <3>1. dir[b][PrevDir].block = b
      BY RootIsMade, SMTT(40)
    <3>2. u[n][b] = <<>>
      BY <3>1, <2>3 DEF StepUp
    <3> QED BY <3>2, <2>2, RootPath
  <2>5. PICK e \in Subdirs(dir) :
           /\ e \in Used(dir) /\ Target(dir, e) = b /\ e[1] = dir[b][PrevDir].block
           /\ e[1] \in Made(dir, new) /\ e[1] # b /\ EntriesOf(e[1], b) = {e[2]} /\ e[1] # Super
           /\ Min(EntriesOf(e[1], b)) = e[2] /\ b \in Blocks
    BY <1>1, <2>2, <2>4, MadeHasParent
  <2>6. anc[b] = anc[e[1]] \cup {e[1]} /\ e[1] \notin anc[e[1]]
    <3>1. anc[b] = anc[e[1]] \cup {e[1]}
      BY <1>1, <2>5 DEF Above
    <3>2. e[1] = Root \/ \E g \in Subdirs(dir) : e[1] = Target(dir, g)
      BY <2>5, MadeIs
    <3>3. e[1] \notin anc[e[1]]
      BY <3>2, <1>1 DEF Above
    <3> QED BY <3>1, <3>3
  <2>7. e[1] \in Blocks
    BY <2>5, <1>6
  <2>8. Cardinality(anc[b]) = Cardinality(anc[e[1]]) + 1
    BY <2>6, <2>7, <1>5, FS_AddElement
  <2>9. n # 0 /\ n - 1 \in 0..NumBlocks /\ Cardinality(anc[e[1]]) =< n - 1
    BY <2>2, <2>3, <2>7, <2>8, <1>3, <1>5, SMTT(40)
  <2>10. n - 1 \notin Bad
    BY <2>1, <2>9, <1>3
  <2>11. PathTo(u[n - 1][e[1]], e[1])
    BY <2>5, <2>9, <2>10
  <2>12. u[n][b] = Append(u[n - 1][e[1]], dir[e[1]][e[2]].name)
    <3>1. EntriesOf(e[1], b) # {}
      BY <2>5
    <3>2. PICK w : w = u[n - 1]
      OBVIOUS
    <3>3. StepUp(w, n)[b] = Append(w[e[1]], dir[e[1]][e[2]].name)
      BY <3>1, <2>3, <2>5, <2>9 DEF StepUp
    <3> QED BY <3>2, <3>3, <2>3
  <2>13. Toward(e[1], dir[e[1]][e[2]].name) = b /\ dir[e[1]][e[2]].name \in Names
    BY <2>5, NameFinds
  <2>14. PathTo(Append(u[n - 1][e[1]], dir[e[1]][e[2]].name), b)
    BY <2>3, <2>11, <2>13, PathGrows
  <2> QED BY <2>2, <2>12, <2>14
<1>8. NumBlocks \notin Bad /\ NumBlocks \in 0..NumBlocks
  BY <1>3, <1>7
<1>9. Cardinality(anc[block]) =< NumBlocks
  BY <1>5, <1>6
<1>10. PathTo(u[NumBlocks][block], block)
  BY <1>8, <1>9
<1> QED BY <1>2, <1>10

-----------------------------------------------------------------------------
(* The directories above a directory, when one is created or deleted *)

LEMMA RootedKept ==
  ASSUME NEW d, NEW f, Rooted(d), Subdirs(f) = Subdirs(d), \A e \in Subdirs(d) : Target(f, e) = Target(d, e)
  PROVE  Rooted(f)
<1>1. PICK anc : Above(d, anc)
  BY DEF Rooted
<1>2. Above(f, anc)
  <2> SUFFICES ASSUME NEW e \in Subdirs(d)
               PROVE  /\ anc[Target(f, e)] = anc[e[1]] \cup {e[1]}
                      /\ Target(f, e) \notin anc[Target(f, e)]
                      /\ \A c \in anc[Target(f, e)] :
                           \E g \in Subdirs(d) : g[1] = c /\ Target(f, g) \in anc[Target(f, e)] \cup {Target(f, e)}
    BY <1>1 DEF Above
  <2>1. Target(f, e) = Target(d, e)
    OBVIOUS
  <2>2. /\ anc[Target(d, e)] = anc[e[1]] \cup {e[1]} /\ Target(d, e) \notin anc[Target(d, e)]
    BY <1>1 DEF Above
  <2>3. ASSUME NEW c \in anc[Target(f, e)]
        PROVE  \E g \in Subdirs(d) : g[1] = c /\ Target(f, g) \in anc[Target(f, e)] \cup {Target(f, e)}
    <3>1. PICK g \in Subdirs(d) : g[1] = c /\ Target(d, g) \in anc[Target(d, e)] \cup {Target(d, e)}
      BY <1>1, <2>1 DEF Above
    <3> QED BY <3>1, <2>1
  <2> QED BY <2>1, <2>2, <2>3
<1> QED BY <1>2 DEF Rooted

(* Entries that are no directories do not matter.                              *)
LEMMA SubdirsSame ==
  ASSUME NEW d, NEW f, Rooted(d),
         \A e \in Cells : f[e[1]][e[2]] = d[e[1]][e[2]] \/ (f[e[1]][e[2]].kind # "dir" /\ d[e[1]][e[2]].kind # "dir")
  PROVE  Rooted(f)
<1>1. \A e \in Cells : f[e[1]][e[2]].kind = "dir" <=> d[e[1]][e[2]].kind = "dir"
  OBVIOUS
<1>2. Subdirs(f) = Subdirs(d)
  BY <1>1 DEF Subdirs
<1>3. \A e \in Subdirs(d) : Target(f, e) = Target(d, e)
  BY DEF Subdirs, Target
<1> QED BY <1>2, <1>3, RootedKept

(* The block of a new directory is above none, and nothing is in two directories.  *)
LEMMA RootedAdded ==
  ASSUME NEW d, NEW f, Tree(d, {}), Rooted(d), NEW c, NEW block \in Blocks,
         c[1] \in Made(d, {}), block # Root, block \notin Targets(d),
         Subdirs(f) = Subdirs(d) \cup {c}, Target(f, c) = block,
         \A e \in Subdirs(d) : Target(f, e) = Target(d, e)
  PROVE  Rooted(f)
<1>1. PICK anc : Above(d, anc)
  BY DEF Rooted
<1>2. d \in Contents /\ UsedSound(d, {})
  BY DEF Tree
<1>3. c[1] \in Blocks
  BY <1>2, MadeOnDisk
<1>4. anc \in [Blocks -> SUBSET Blocks] /\ anc[Root] = {}
  BY <1>1 DEF Above
<1>5. ASSUME NEW e \in Subdirs(d)
      PROVE  /\ Target(d, e) \in Blocks /\ Target(d, e) # block /\ e[1] \in Blocks /\ e[1] # block
             /\ anc[Target(d, e)] = anc[e[1]] \cup {e[1]} /\ Target(d, e) \notin anc[Target(d, e)]
  <2>1. e \in Used(d)
    BY SubdirsAreUsed
  <2>2. Target(d, e) \in Blocks /\ Target(d, e) # block /\ e[1] \in Made(d, {})
    BY <2>1, <1>2 DEF UsedSound, Targets
  <2>3. e[1] \in Blocks
    BY <2>2, <1>2, MadeOnDisk
  <2>4. e[1] # block
    <3>1. e[1] = Root \/ \E g \in Subdirs(d) : e[1] = Target(d, g)
      BY <2>2, MadeIs
    <3> QED BY <3>1, SubdirsAreUsed DEF Targets
  <2> QED BY <2>2, <2>3, <2>4, <1>1 DEF Above
<1>6. c[1] # block
  <2>1. c[1] = Root \/ \E g \in Subdirs(d) : c[1] = Target(d, g)
    BY MadeIs
  <2> QED BY <2>1, SubdirsAreUsed DEF Targets
<1>7. c[1] = Root \/ \E g \in Subdirs(d) : c[1] = Target(d, g)
  BY MadeIs
<1>8. ASSUME NEW x \in anc[c[1]]
      PROVE  \E g \in Subdirs(d) : g[1] = x /\ Target(d, g) \in anc[c[1]] \cup {c[1]}
  <2>1. PICK g \in Subdirs(d) : c[1] = Target(d, g)
    BY <1>4, <1>7, <1>8
  <2> QED BY <2>1, <1>1, <1>8 DEF Above
<1>9. block \notin anc[c[1]]
  <2> SUFFICES ASSUME block \in anc[c[1]] PROVE FALSE
    OBVIOUS
  <2>1. PICK g \in Subdirs(d) : g[1] = block
    BY <1>8
  <2> QED BY <2>1, <1>5
<1>10. PICK now : now = [anc EXCEPT ![block] = anc[c[1]] \cup {c[1]}]
  OBVIOUS
<1>11. /\ now \in [Blocks -> SUBSET Blocks] /\ now[block] = anc[c[1]] \cup {c[1]}
       /\ \A b \in Blocks : b # block => now[b] = anc[b]
  BY <1>3, <1>4, <1>10
<1>12. now[Root] = {}
  BY <1>4, <1>11, Numbers
<1>13. /\ now[Target(f, c)] = now[c[1]] \cup {c[1]} /\ Target(f, c) \notin now[Target(f, c)]
       /\ \A x \in now[Target(f, c)] :
            \E g \in Subdirs(f) : g[1] = x /\ Target(f, g) \in now[Target(f, c)] \cup {Target(f, c)}
  <2>1. now[c[1]] = anc[c[1]] /\ Target(f, c) = block
    BY <1>3, <1>6, <1>11
  <2>2. block \notin now[block]
    BY <1>6, <1>9, <1>11
  <2>3. ASSUME NEW x \in now[block]
        PROVE  \E g \in Subdirs(f) : g[1] = x /\ Target(f, g) \in now[block] \cup {block}
    <3>1. CASE x = c[1]
      BY <3>1, <2>1
    <3>2. CASE x # c[1]
      <4>1. x \in anc[c[1]]
        BY <3>2, <1>11
      <4>2. PICK g \in Subdirs(d) : g[1] = x /\ Target(d, g) \in anc[c[1]] \cup {c[1]}
        BY <4>1, <1>8
      <4> QED BY <4>2, <1>11
    <3> QED BY <3>1, <3>2
  <2> QED BY <2>1, <2>2, <2>3, <1>11
<1>14. ASSUME NEW e \in Subdirs(d)
       PROVE  /\ now[Target(f, e)] = now[e[1]] \cup {e[1]} /\ Target(f, e) \notin now[Target(f, e)]
              /\ \A x \in now[Target(f, e)] :
                   \E g \in Subdirs(f) : g[1] = x /\ Target(f, g) \in now[Target(f, e)] \cup {Target(f, e)}
  <2>1. Target(f, e) = Target(d, e) /\ now[Target(d, e)] = anc[Target(d, e)] /\ now[e[1]] = anc[e[1]]
    BY <1>5, <1>11
  <2>2. ASSUME NEW x \in anc[Target(d, e)]
        PROVE  \E g \in Subdirs(f) : g[1] = x /\ Target(f, g) \in anc[Target(d, e)] \cup {Target(d, e)}
    <3>1. PICK g \in Subdirs(d) : g[1] = x /\ Target(d, g) \in anc[Target(d, e)] \cup {Target(d, e)}
      BY <1>1 DEF Above
    <3>2. g \in Subdirs(f) /\ Target(f, g) = Target(d, g)
      OBVIOUS
    <3> QED BY <3>1, <3>2
  <2> QED BY <2>1, <2>2, <1>5
<1>15. Above(f, now)
  BY <1>11, <1>12, <1>13, <1>14 DEF Above
<1> QED BY <1>15 DEF Rooted

(* A directory that is empty is above none.                                    *)
LEMMA RootedErased ==
  ASSUME NEW d, NEW f, Tree(d, {}), Rooted(d), NEW c \in Subdirs(d), NEW block, block = Target(d, c),
         \A e \in Subdirs(d) : e[1] # block,
         Subdirs(f) = Subdirs(d) \ {c}, \A e \in Subdirs(f) : Target(f, e) = Target(d, e)
  PROVE  Rooted(f)
<1>1. PICK anc : Above(d, anc)
  BY DEF Rooted
<1>2. OneEntryEach(d)
  BY DEF Tree
<1>3. ASSUME NEW e \in Subdirs(f)
      PROVE  /\ anc[Target(f, e)] = anc[e[1]] \cup {e[1]} /\ Target(f, e) \notin anc[Target(f, e)]
             /\ \A x \in anc[Target(f, e)] :
                  \E g \in Subdirs(f) : g[1] = x /\ Target(f, g) \in anc[Target(f, e)] \cup {Target(f, e)}
  <2>1. e \in Subdirs(d) /\ e # c /\ Target(f, e) = Target(d, e) /\ e \in Used(d) /\ c \in Used(d)
    BY SubdirsAreUsed
  <2>2. Target(d, e) # block
    BY <2>1, <1>2 DEF OneEntryEach
  <2>3. block \notin anc[Target(d, e)]
    <3> SUFFICES ASSUME block \in anc[Target(d, e)] PROVE FALSE
      OBVIOUS
    <3>1. PICK g \in Subdirs(d) : g[1] = block
      BY <2>1, <1>1 DEF Above
    <3> QED BY <3>1
  <2>4. ASSUME NEW x \in anc[Target(d, e)]
        PROVE  \E g \in Subdirs(f) : g[1] = x /\ Target(f, g) \in anc[Target(d, e)] \cup {Target(d, e)}
    <3>1. PICK g \in Subdirs(d) : g[1] = x /\ Target(d, g) \in anc[Target(d, e)] \cup {Target(d, e)}
      BY <2>1, <1>1 DEF Above
    <3>2. g # c
      BY <3>1, <2>2, <2>3
    <3> QED BY <3>1, <3>2
  <2>5. anc[Target(d, e)] = anc[e[1]] \cup {e[1]} /\ Target(d, e) \notin anc[Target(d, e)]
    BY <2>1, <1>1 DEF Above
  <2> QED BY <2>1, <2>4, <2>5
<1>4. Above(f, anc)
  BY <1>1, <1>3 DEF Above
<1> QED BY <1>4 DEF Rooted

LEMMA FillEntryRooted ==
  ASSUME GOSFSInv, OneWriter, WholeBytes, Rooted(dir), NEW p \in Procs, NEW op \in WriteOps,
         NEW kind \in {"file", "dir"}, FillEntry(p, op, kind)
  PROVE  Rooted(dir')
<1>1. PICK j : j = job[p]
  OBVIOUS
<1>2. PICK block : block = Min(FreeBits)
  OBVIOUS
<1>3. PICK x : x = Entry(j.name, kind, block)
  OBVIOUS
<1>4. p \in Writers /\ j.stage = "looked" /\ j.found = "no"
  BY <1>1 DEF FillEntry, Looked, WriteOps, ReadOps
<1>5. CASE dir' = dir
  BY <1>5
<1>6. ASSUME j.offset # Full, FreeBits # {}, dir' = [dir EXCEPT ![j.base][j.offset] = x]
      PROVE  Rooted(dir')
  <2>1. /\ j \in Jobs /\ WriterSound(dir, held, p, j) /\ Tree(dir, {})
        /\ bitmap = {Super, Root} \cup Targets(dir)
    BY <1>1, <1>4, DiskAt
  <2>2. j.base \in Made(dir, {}) /\ j.name \in Names /\ dir[j.base][j.offset].kind = "free"
    BY <2>1, <1>4, <1>6 DEF WriterSound, LookedSound
  <2>3. j.base \in Blocks /\ dir[j.base][0].kind = "dir" /\ dir[j.base][1].kind = "dir"
    BY <2>1, <2>2, Walks, EntryIs
  <2>4. j.offset \in Offsets /\ j.offset # 0 /\ j.offset # 1
    BY <2>1, <2>2, <2>3, <1>6, JobsAre, Numbers
  <2>5. block \in Blocks /\ block \notin {Super, Root} /\ block \notin Targets(dir)
    <3>1. FreeBits \subseteq Blocks /\ Blocks \subseteq Nat
      BY BitsOnDisk, Numbers
    <3>2. block \in FreeBits
      BY <3>1, <1>2, <1>6, MinFact
    <3> QED BY <3>1, <3>2, <2>1 DEF FreeBits
  <2>6. x \in Entries /\ x.kind = kind /\ x.block = block
    <3>1. j.name \in Names \cup {".", "..", NoName} /\ kind \in {"free", "junk", "file", "dir"}
      BY <2>2
    <3> QED BY <3>1, <2>5, <1>3, EntryIs
  <2>7. /\ dir'[j.base][j.offset] = x /\ \A b \in Blocks : b # j.base => dir'[b] = dir[b]
        /\ \A k \in Offsets : k # j.offset => dir'[j.base][k] = dir[j.base][k]
    <3>1. dir \in Contents
      BY <2>1 DEF Tree
    <3>2. Written(dir, dir', j.base, j.offset, x)
      BY <3>1, <2>3, <2>4, <2>6, <1>6, EntryWritten
    <3> QED BY <3>2 DEF Written
  <2>8. PICK c : c = <<j.base, j.offset>>
    OBVIOUS
  <2>9. c \in Cells /\ c[1] = j.base /\ c[2] = j.offset
    BY <2>3, <2>4, <2>8, IsCell
  <2>10. ASSUME NEW e \in Cells, e # c PROVE dir'[e[1]][e[2]] = dir[e[1]][e[2]]
    <3>1. e[1] \in Blocks /\ e[2] \in Offsets /\ e = <<e[1], e[2]>>
      BY CellIs
    <3>2. e[1] # j.base \/ e[2] # j.offset
      BY <3>1, <2>8, <2>10
    <3> QED BY <3>1, <3>2, <2>7
  <2>11. dir'[c[1]][c[2]] = x /\ dir[c[1]][c[2]].kind = "free"
    BY <2>2, <2>7, <2>9
  <2>12. CASE kind = "file"
    <3>1. dir'[c[1]][c[2]].kind # "dir" /\ dir[c[1]][c[2]].kind # "dir"
      BY <2>6, <2>11, <2>12
    <3> QED BY <3>1, <2>10, SubdirsSame
  <2>13. CASE kind = "dir"
    <3>1. Subdirs(dir') = Subdirs(dir) \cup {c}
      <4>1. ASSUME NEW e PROVE e \in Subdirs(dir') <=> e \in Subdirs(dir) \cup {c}
        BY <2>6, <2>9, <2>10, <2>11, <2>13 DEF Subdirs
      <4> QED BY <4>1
    <3>2. c \notin Subdirs(dir)
      BY <2>11 DEF Subdirs
    <3>3. \A e \in Subdirs(dir) : Target(dir', e) = Target(dir, e)
      BY <3>2, <2>10 DEF Subdirs, Target
    <3>4. Target(dir', c) = block
      BY <2>6, <2>11 DEF Target
    <3> QED BY <3>1, <3>3, <3>4, <2>1, <2>2, <2>5, <2>9, RootedAdded
  <2> QED BY <2>12, <2>13
<1> QED BY <1>1, <1>2, <1>3, <1>5, <1>6 DEF FillEntry, Break

LEMMA FillDirectoryRooted ==
  ASSUME GOSFSInv, OneWriter, Rooted(dir), NEW p \in Procs, FillDirectory(p)
  PROVE  Rooted(dir')
<1>1. PICK j : j = job[p]
  OBVIOUS
<1>2. /\ j.stage = "fill"
      /\ dir' = IF j.block \in Blocks
                THEN [dir EXCEPT ![j.block] = NewDirectory(j.block, j.base)] ELSE dir
  BY <1>1 DEF FillDirectory
<1>3. p \in Writers
  <2>1. JobSound(p, j)
    BY <1>1, JobAt
  <2> QED BY <2>1, <1>2 DEF JobSound, ReadStages, WalkStages
<1>4. j \in Jobs /\ WriterSound(dir, held, p, j) /\ Tree(dir, {j.block})
  BY <1>1, <1>2, <1>3, DiskAt
<1>5. j.block \in Blocks /\ j.base \in Blocks /\ dir \in Contents
  BY <1>4, JobsAre DEF Tree
<1>6. dir[j.block] = Zeroed
  <2>1. j.block \notin Made(dir, {j.block})
    BY MadeIs
  <2> QED BY <2>1, <1>4, <1>5 DEF Tree, RestZeroed
<1>7. PICK x : x = NewDirectory(j.block, j.base)
  OBVIOUS
<1>8. \A b \in Blocks : dir'[b] = IF b = j.block THEN x ELSE dir[b]
  BY <1>2, <1>5, <1>7 DEF Contents
<1>9. \A i \in 2..(NumEntries - 1) : x[i] = Free /\ Zeroed[i] = Free
  BY <1>5, <1>7, NewDirectoryIs, FreeIs, Numbers, SMTT(40)
<1>10. \A e \in Cells : dir'[e[1]][e[2]] = dir[e[1]][e[2]]
  BY <1>6, <1>8, <1>9, CellIs
<1> QED BY <1>10, SubdirsSame

LEMMA EraseEntryRooted ==
  ASSUME GOSFSInv, OneWriter, Rooted(dir), NEW p \in Procs, EraseEntry(p)
  PROVE  Rooted(dir')
<1>1. PICK j : j = job[p]
  OBVIOUS
<1>2. /\ j.stage = "erase"
      /\ j.block \in Blocks => dir' = [dir EXCEPT ![j.block] = Zeroed, ![j.base][j.offset] = Free]
  BY <1>1, Zenon DEF EraseEntry
<1>3. p \in Writers
  <2>1. JobSound(p, j)
    BY <1>1, JobAt
  <2> QED BY <2>1, <1>2 DEF JobSound, ReadStages, WalkStages
<1>4. WriterSound(dir, held, p, j) /\ Tree(dir, {})
  BY <1>1, <1>2, <1>3, DiskAt
<1>5. PICK c : c = <<j.base, j.offset>>
  OBVIOUS
<1>6. c[1] = j.base /\ c[2] = j.offset
  BY <1>5
<1>7. PICK block : block = j.block
  OBVIOUS
<1>8. /\ c \in Used(dir) /\ block = Target(dir, c) /\ block # c[1]
      /\ dir[c[1]][c[2]].kind = "dir" => \A i \in 2..(NumEntries - 1) : dir[block][i].kind = "free"
  BY <1>2, <1>4, <1>5, <1>6, <1>7 DEF WriterSound, WorkSound
<1>9. dir \in Contents /\ UsedSound(dir, {}) /\ RestZeroed(dir, {}) /\ OneEntryEach(dir)
  BY <1>4 DEF Tree
<1>10. /\ block \in Blocks \ {Super, Root} /\ c \in Cells /\ c[1] \in Blocks /\ c[2] \in Offsets
       /\ c = <<c[1], c[2]>>
  BY <1>8, <1>9, SubdirsAreUsed, CellIs DEF UsedSound
<1>11. PICK z : z = [dir EXCEPT ![block] = Zeroed]
  OBVIOUS
<1>12. z \in Contents /\ z[block] = Zeroed /\ \A b \in Blocks : b # block => z[b] = dir[b]
  <2>1. Rewritten(dir, z, block, Zeroed)
    BY <1>9, <1>10, <1>11, FreeIs, BlockWritten
  <2> QED BY <2>1 DEF Rewritten
<1>13. /\ dir'[c[1]][c[2]] = Free /\ \A b \in Blocks : b # c[1] => dir'[b] = z[b]
       /\ \A k \in Offsets : k # c[2] => dir'[c[1]][k] = z[c[1]][k]
  <2>1. dir' = [z EXCEPT ![c[1]][c[2]] = Free]
    BY <1>2, <1>6, <1>7, <1>10, <1>11, Zenon
  <2>2. Written(z, [z EXCEPT ![c[1]][c[2]] = Free], c[1], c[2], Free)
    BY <1>10, <1>12, FreeIs, EntryWritten
  <2>3. Written(z, dir', c[1], c[2], Free)
    BY <2>1, <2>2, Zenon
  <2> QED BY <2>3 DEF Written
<1>14. \A i \in 2..(NumEntries - 1) : dir[block][i].kind = "free"
  <2>1. CASE dir[c[1]][c[2]].kind = "dir"
    BY <2>1, <1>8
  <2>2. CASE dir[c[1]][c[2]].kind # "dir"
    <3>1. block \notin Made(dir, {})
      <4> SUFFICES ASSUME block \in Made(dir, {}) PROVE FALSE
        OBVIOUS
      <4>1. PICK e \in Subdirs(dir) : block = Target(dir, e)
        BY <1>10, MadeIs
      <4>2. e = c
        BY <4>1, <1>8, <1>9, SubdirsAreUsed DEF OneEntryEach
      <4> QED BY <4>1, <4>2, <2>2, SubdirsAreUsed
    <3>2. dir[block] = Zeroed
      BY <3>1, <1>9, <1>10 DEF RestZeroed
    <3> QED BY <3>2, FreeIs, Numbers
  <2> QED BY <2>1, <2>2
<1>15. ASSUME NEW e \in Cells, e # c
       PROVE  dir'[e[1]][e[2]] = dir[e[1]][e[2]] \/ (dir'[e[1]][e[2]].kind # "dir" /\ dir[e[1]][e[2]].kind # "dir")
  <2>1. e[1] \in Blocks /\ e[2] \in Offsets /\ e = <<e[1], e[2]>> /\ e[2] \in 2..(NumEntries - 1)
    BY CellIs
  <2>2. e[1] # c[1] \/ e[2] # c[2]
    BY <2>1, <1>10, <1>15
  <2>3. dir'[e[1]][e[2]] = z[e[1]][e[2]]
    BY <2>1, <2>2, <1>13
  <2>4. CASE e[1] # block
    BY <2>1, <2>3, <2>4, <1>12
  <2>5. CASE e[1] = block
    <3>1. z[e[1]][e[2]] = Free /\ dir[e[1]][e[2]].kind = "free"
      BY <2>1, <2>5, <1>12, <1>14, FreeIs
    <3> QED BY <3>1, <2>3, FreeIs
  <2> QED BY <2>4, <2>5
<1>16. CASE c \notin Subdirs(dir)
  <2>1. dir'[c[1]][c[2]].kind # "dir" /\ dir[c[1]][c[2]].kind # "dir"
    BY <1>10, <1>13, <1>16, FreeIs DEF Subdirs
  <2> QED BY <2>1, <1>15, SubdirsSame
<1>17. CASE c \in Subdirs(dir)
  <2>1. c \notin Subdirs(dir')
    BY <1>13, FreeIs DEF Subdirs
  <2>2. ASSUME NEW e \in Cells, e # c
        PROVE  /\ e \in Subdirs(dir') <=> e \in Subdirs(dir)
               /\ e \in Subdirs(dir) => Target(dir', e) = Target(dir, e)
    BY <2>2, <1>15 DEF Subdirs, Target
  <2>3. Subdirs(dir') = Subdirs(dir) \ {c}
    <3>1. Subdirs(dir') \subseteq Cells /\ Subdirs(dir) \subseteq Cells
      BY DEF Subdirs
    <3> QED BY <3>1, <2>1, <2>2
  <2>4. \A e \in Subdirs(dir') : Target(dir', e) = Target(dir, e)
    BY <2>2, <2>3 DEF Subdirs
  <2>5. \A e \in Subdirs(dir) : e[1] # block
    <3> SUFFICES ASSUME NEW e \in Subdirs(dir), e[1] = block PROVE FALSE
      OBVIOUS
    <3>1. e[2] \in 2..(NumEntries - 1) /\ dir[e[1]][e[2]].kind = "dir"
      BY SubdirsAreUsed, CellIs
    <3> QED BY <3>1, <1>14
  <2> QED BY <2>3, <2>4, <2>5, <1>4, <1>8, <1>17, RootedErased
<1> QED BY <1>16, <1>17

(* Nothing else writes to a directory.                                        *)
LEMMA DirWriters ==
  ASSUME NEW p \in Procs, Start(p) \/ Lookup(p) \/ Operation(p)
  PROVE  \/ dir' = dir
         \/ CreateFile(p) \/ CreateDirectory(p) \/ FillDirectory(p) \/ EraseEntry(p)
<1>1. CASE Start(p)
  BY <1>1 DEF Start, Goto
<1>2. CASE Lookup(p)
  <2>1. CASE AssertBase(p)
    BY <2>1 DEF AssertBase, Break
  <2>2. CASE Missing(p)
    BY <2>2, Zenon DEF Missing, Goto
  <2>3. CASE Found(p)
    BY <2>3, Zenon DEF Found, Goto
  <2>4. CASE Descend(p)
    BY <2>4, Zenon DEF Descend, Goto
  <2>5. CASE FoundParent(p)
    BY <2>5, Zenon DEF FoundParent, Goto
  <2>6. CASE Grandparent(p)
    BY <2>6, Zenon DEF Grandparent, Goto
  <2>7. CASE NameParent(p)
    BY <2>7, Zenon DEF NameParent, Goto, Break
  <2> QED BY <1>2, <2>1, <2>2, <2>3, <2>4, <2>5, <2>6, <2>7 DEF Lookup
<1>3. CASE Operation(p)
  <2>1. CASE NotFound(p) \/ OpenWrongPath(p) \/ ReadEntry(p)
    BY <2>1 DEF NotFound, OpenWrongPath, ReadEntry, End, Goto, Break
  <2>2. CASE OpenDirectory(p)
    BY <2>2, Zenon DEF OpenDirectory, End, Goto
  <2>3. CASE ListDirectory(p) \/ ReadDirectory(p)
    BY <2>3, Zenon DEF ListDirectory, ReadDirectory, End, Goto
  <2>4. CASE ChangeDirectory(p) \/ MarkBlock(p) \/ TakeEntry(p) \/ ClearBit(p)
    BY <2>4, Zenon DEF ChangeDirectory, MarkBlock, TakeEntry, ClearBit
  <2>5. CASE CheckEmpty(p)
    BY <2>5, Zenon DEF CheckEmpty, Break
  <2> QED BY <1>3, <2>1, <2>2, <2>3, <2>4, <2>5 DEF Operation
<1> QED BY <1>1, <1>2, <1>3

LEMMA RootedKeeps ==
  OneWriter /\ WholeBytes => (GOSFSInv /\ Rooted(dir) /\ [Next]_vars => Rooted(dir)')
<1> SUFFICES ASSUME OneWriter, WholeBytes, GOSFSInv, Rooted(dir), [Next]_vars PROVE Rooted(dir')
  BY ZenonT(40) DEF Rooted, Above, Subdirs, Target
<1>1. CASE UNCHANGED vars
  BY <1>1 DEF vars
<1>2. CASE Next
  <2>1. PICK p \in Procs : Start(p) \/ Lookup(p) \/ Operation(p)
    BY <1>2 DEF Next
  <2>2. "create" \in WriteOps /\ "mkdir" \in WriteOps
    BY DEF WriteOps
  <2>3. CASE CreateFile(p) \/ CreateDirectory(p)
    BY <2>2, <2>3, FillEntryRooted DEF CreateFile, CreateDirectory
  <2> QED BY <2>1, <2>3, DirWriters, FillDirectoryRooted, EraseEntryRooted
<1> QED BY <1>1, <1>2, SMTT(40)

LEMMA InitRooted == Init => Rooted(dir)
<1> SUFFICES ASSUME Init PROVE Rooted(dir)
  OBVIOUS
<1>1. Subdirs(dir) = {}
  <2>1. \A e \in Subdirs(dir) : e \in Used(dir)
    BY SubdirsAreUsed
  <2> QED BY <2>1, FormattedDisk
<1>2. PICK anc : anc = [b \in Blocks |-> {}]
  OBVIOUS
<1>3. anc \in [Blocks -> SUBSET Blocks] /\ anc[Root] = {}
  BY <1>2, Numbers
<1>4. Above(dir, anc)
  BY <1>1, <1>3 DEF Above
<1> QED BY <1>4 DEF Rooted

(* However directories were created and deleted around it, the path that is      *)
(* shown for the directory a process works in leads to it as long as its entry    *)
(* is there: the way up through ".." ends at the root directory, and every name   *)
(* on it is found on the way down (gosfs.c:331, 823).                            *)
THEOREM CwdIsNamed ==
  ASSUME OneWriter, WholeBytes PROVE Spec => []CwdNamed
<1>1. GOSFSInv /\ Rooted(dir) => CwdNamed
  <2> SUFFICES ASSUME GOSFSInv, Rooted(dir), NEW p \in Procs, NEW d, d = dentry[p],
                      At(d.base, d.offset) \in [name : Names \cup {".", "..", NoName}, kind : {"dir"}, block : {d.block}]
               PROVE  Leads(GetPath(d.base, d.offset)) = d.block
    BY DEF CwdNamed
  <2>1. PICK base, offset, e : base = d.base /\ offset = d.offset /\ e = At(d.base, d.offset)
    OBVIOUS
  <2>2. base \in Blocks /\ offset \in Offsets /\ e.kind = "dir" /\ e.block = d.block
    BY <2>1 DEF GOSFSInv, Types
  <2>3. Tree(dir, New) /\ dir \in Contents /\ UsedSound(dir, New) /\ RestZeroed(dir, New)
        /\ SelfSound(dir, New) /\ ParentSound(dir, New)
    BY DEF GOSFSInv, DiskSound, Tree
  <2>4. SUFFICES ASSUME e.block # Root PROVE PathTo(GetPath(base, offset), e.block)
    <3>1. CASE e.block = Root
      <4>1. GetPath(base, offset) = <<>>
        BY <3>1, <2>1 DEF GetPath
      <4>2. PathTo(GetPath(base, offset), e.block)
        BY <3>1, <4>1, RootPath
      <4> QED BY <4>2, <2>1, <2>2, LeadsAlong, LenProperties DEF PathTo
    <3>2. CASE e.block # Root
      <4>1. PathTo(GetPath(base, offset), e.block)
        BY <3>2, <2>4
      <4> QED BY <4>1, <2>1, <2>2, LeadsAlong, LenProperties DEF PathTo
    <3> QED BY <3>1, <3>2
  <2>5. base # Super /\ e = dir[base][offset]
    <3>1. base # Super
      <4> SUFFICES ASSUME base = Super PROVE FALSE
        OBVIOUS
      <4>1. e = Entry(NoName, "dir", Root)
        BY <2>1 DEF At
      <4>2. e.block = Root
        BY <4>1, EntryIs
      <4> QED BY <4>2, <2>4
    <3> QED BY <3>1, <2>1 DEF At
  <2>6. base \in Made(dir, New)
    <3> SUFFICES ASSUME base \notin Made(dir, New) PROVE FALSE
      OBVIOUS
    <3>1. dir[base] = Zeroed
      BY <2>2, <2>3 DEF RestZeroed
    <3> QED BY <3>1, <2>2, <2>5, FreeIs
  <2>7. dir[base][0] = Entry(".", "dir", base)
    BY <2>3, <2>6 DEF SelfSound
  <2>8. CASE offset = 0
    <3>1. e.name = "." /\ e.block = base /\ dir[base][0].block = base
      BY <2>5, <2>7, <2>8, EntryIs
    <3>2. GetPath(base, offset) = ClimbFrom(base)
      BY <3>1, <2>1, <2>4 DEF GetPath
    <3> QED BY <3>1, <3>2, <2>3, <2>6, ClimbLeads
  <2>9. CASE offset = 1
    <3>1. e.name = ".." /\ e.block \in Made(dir, New)
      <4>1. CASE base = Root
        BY <4>1, <2>3, <2>4, <2>5, <2>9, EntryIs DEF ParentSound
      <4>2. CASE base # Root
        <5>1. PICK g \in Subdirs(dir) : base = Target(dir, g)
          BY <4>2, <2>6, MadeIs
        <5>2. e = Entry("..", "dir", g[1])
          BY <5>1, <2>3, <2>5, <2>6, <2>9 DEF ParentSound
        <5>3. g[1] \in Made(dir, New)
          BY <5>1, <2>3, SubdirsAreUsed DEF UsedSound
        <5> QED BY <5>2, <5>3, EntryIs
      <4> QED BY <4>1, <4>2
    <3>2. e.block = dir[base][PrevDir].block
      BY <2>5, <2>9 DEF PrevDir
    <3>3. GetPath(base, offset) = ClimbFrom(e.block)
      BY <3>1, <3>2, <2>1, <2>4 DEF GetPath
    <3> QED BY <3>1, <3>3, <2>3, ClimbLeads
  <2>10. CASE offset # 0 /\ offset # 1
    <3>1. PICK c : c = <<base, offset>>
      OBVIOUS
    <3>2. c \in Cells /\ c[1] = base /\ c[2] = offset
      BY <3>1, <2>2, <2>10, IsCell
    <3>3. c \in Used(dir) /\ Target(dir, c) = e.block
      BY <3>2, <2>2, <2>5 DEF Used, Target
    <3>4. Toward(base, e.name) = e.block /\ e.block \in Blocks /\ e.name \in Names
      BY <3>2, <3>3, <2>3, <2>5, NameFinds
    <3>5. e.name # "." /\ e.name # ".."
      BY <3>4, GOSFSAssumption
    <3>6. GetPath(base, offset) = Append(ClimbFrom(base), e.name)
      BY <3>5, <2>1, <2>4 DEF GetPath
    <3>7. PathTo(ClimbFrom(base), base)
      BY <2>3, <2>6, ClimbLeads
    <3> QED BY <3>4, <3>6, <3>7, PathGrows
  <2> QED BY <2>8, <2>9, <2>10
<1>2. GOSFSInv /\ Rooted(dir) /\ [Next]_vars => Rooted(dir)'
  BY RootedKeeps
<1>3. GOSFSInv /\ [Next]_vars => GOSFSInv'
  BY NextKeeps
<1> QED BY <1>1, <1>2, <1>3, InitKeeps, InitRooted, PTL DEF Spec
=============================================================================
