-------------------------------- MODULE BitSet --------------------------------
(***************************************************************************)
(* The bit sets that say which blocks of a disk are in use, and owners that   *)
(* take a free bit, or a run of them, and give it back.  A caller finds and   *)
(* sets bits without another one between (the file systems hold a mutex).    *)
(***************************************************************************)
EXTENDS Integers, FiniteSets, FiniteSetsExt

CONSTANTS
  Owners,
  TotalBits,
  Lengths         (* the lengths of the runs that are asked for               *)

VARIABLES
  bitSet,         (* the bytes, each the set of its bits that are 1            *)
  taken           (* the bits an owner has taken                             *)

vars == <<bitSet, taken>>

ByteBits == 0..7
NumBytes == (TotalBits \div 8) + (IF TotalBits % 8 # 0 THEN 1 ELSE 0)

Create_Bit_Set == bitSet = [offset \in 0..(NumBytes - 1) |-> {}]
Init == Create_Bit_Set /\ taken = [o \in Owners |-> {}]

BitsAt(run, offset) == {pos % 8 : pos \in {i \in run : i \div 8 = offset}}
Set_Bit(run)    == bitSet' = [offset \in DOMAIN bitSet |-> bitSet[offset] \cup BitsAt(run, offset)]
Clear_Bit(run)  == bitSet' = [offset \in DOMAIN bitSet |-> bitSet[offset] \ BitsAt(run, offset)]
Is_Bit_Set(pos) == pos % 8 \in bitSet[pos \div 8]

(* The byte is looked at as a whole; the spare bits of the last one count.       *)
Find_First_Free_Bit ==
  LET offsets == {offset \in DOMAIN bitSet : bitSet[offset] # ByteBits}
  IN IF offsets = {} THEN -1 ELSE Min(offsets) * 8 + Min(ByteBits \ bitSet[Min(offsets)])

(* Mutant of Find_First_N_Free: the last bit of the run is not looked at.        *)
FindMostOfN(runLength) ==
  LET found == {i \in 0..(TotalBits - runLength - 1) :
                  ~Is_Bit_Set(i) /\ \A j \in 1..(runLength - 2) : ~Is_Bit_Set(i + j)}
  IN IF found = {} THEN -1 ELSE Min(found)
(* The run at the very end is not found.                                        *)
Find_First_N_Free(runLength) ==
  LET found == {i \in 0..(TotalBits - runLength - 1) :
                  ~Is_Bit_Set(i) /\ \A j \in 1..(runLength - 1) : ~Is_Bit_Set(i + j)}
  IN IF found = {} THEN -1 ELSE Min(found)

Get_Count_Of_ALL_Free_Bit ==
  Cardinality({spare \in (DOMAIN bitSet) \X ByteBits : spare[2] \notin bitSet[spare[1]]})

TakeRun(o, first, length) ==
  /\ taken[o] = {} /\ first # -1
  /\ Set_Bit(first..(first + length - 1))
  /\ taken' = [taken EXCEPT ![o] = first..(first + length - 1)]

TakeBit(o) == TakeRun(o, Find_First_Free_Bit, 1)
TakeBits(o) == \E length \in Lengths : TakeRun(o, Find_First_N_Free(length), length)
GiveBack(o) ==
  /\ taken[o] # {}
  /\ Clear_Bit(taken[o])
  /\ taken' = [taken EXCEPT ![o] = {}]

Next == \E o \in Owners : TakeBit(o) \/ TakeBits(o) \/ GiveBack(o)

Spec == Init /\ [][Next]_vars

-----------------------------------------------------------------------------
(* Properties *)

(* However bits and runs are taken and given back, no bit has two owners, the     *)
(* bits that are set are those somebody has, and the count of the free ones is   *)
(* the rest of the bytes (bitset.c:64, 84, 102).                               *)
BitsApart ==
  /\ \A o, p \in Owners : o # p => taken[o] \cap taken[p] = {}
  /\ {pos \in 0..(8 * NumBytes - 1) : Is_Bit_Set(pos)} = UNION {taken[o] : o \in Owners}
  /\ Get_Count_Of_ALL_Free_Bit + Cardinality(UNION {taken[o] : o \in Owners}) = 8 * NumBytes
=============================================================================
