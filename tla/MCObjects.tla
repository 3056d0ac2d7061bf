------------------------------ MODULE MCObjects ------------------------------
(* An instance of Objects for TLC.                                                *)
EXTENDS Objects, TLC

CONSTANTS p1, p2, n1, n2,        (* processes and semaphore names                *)
          v1, v2, hda, hdb,      (* processes and drives                         *)
          t1, t2, f1, f2,        (* threads and PFAT files                       *)
          u1, u2, u3,            (* processes                                    *)
          r1, r2,                (* threads that read keys                       *)
          x, y                   (* letters that are typed                       *)

TwoProcesses   == {p1, p2}
TwoNames       == {n1, n2}
ZeroOrMore     == {0, 1}

TwoUsers       == {v1, v2}
TwoDrives      == {hda, hdb}
SecondDrive    == {hdb}

TwoThreads     == {t1, t2}
TwoFiles       == {f1, f2}
ThreePrograms  == {u1, u2, u3}

TwoReaders     == {r1, r2}
ShiftKey       == {"shift"}

TwoLetters     == {x, y}
TwoCommands    == {<<x>>, <<x, y>>}

(* The first file has two blocks; the FAT ends after the first of the second.    *)
FirstBlocks    == f1 :> 2 @@ f2 :> 4
Sizes          == f1 :> 2 @@ f2 :> 2
NextBlocks     == 2 :> 3 @@ 3 :> EndOfFile @@ 4 :> EndOfFile

(* The second drive may hold any file system, or none; a part that is not looked *)
(* at starts in one way only.                                                    *)
MCInit ==
  /\ ObjectsInit
  /\ part # "files" => disk[hdb] = "nothing"
  /\ part # "line" => history = L!Add_History_Item(L!NoHistory, <<x>>)

MCSpec == MCInit /\ [][ObjectsNext]_objectsVars
=============================================================================
