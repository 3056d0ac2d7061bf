-------------------------------- MODULE Memory --------------------------------
(***************************************************************************)
(* Memory: the pages of processes (Paging), the heap that the kernel and    *)
(* each user program have (Heap), and the bit sets that say which slots and *)
(* blocks are in use (BitSet).  None looks into another: a behaviour is one *)
(* of a single part, chosen at the start.                                   *)
(***************************************************************************)
EXTENDS Paging

CONSTANTS PoolLen, Requests,                                          (* Heap *)
          Owners, TotalBits, Lengths                                (* BitSet *)

VARIABLES part, heap, inUse, misused, bitSet, taken

BS == INSTANCE BitSet
H  == INSTANCE Heap WITH broken <- misused

(* A pool has room for a header and a block.                                     *)
ASSUME HeapAssumption == PoolLen \in Nat /\ PoolLen > H!HeadSize /\ Requests \subseteq Nat
(* There are bits, and nobody asks for more of them than there are: the bound of  *)
(* the search, totalBits - runLength, is unsigned (bitset.c:91).                  *)
ASSUME BitsAssumption == TotalBits \in Nat \ {0} /\ Lengths \subseteq 1..TotalBits

heapVars   == <<heap, inUse, misused>>
bitVars    == <<bitSet, taken>>
memoryVars == <<part, vars, heapVars, bitVars>>

MemoryInit == part \in {"pages", "heap", "bits"} /\ Init /\ H!Init /\ BS!Init

PageStep == part = "pages" /\ Next /\ UNCHANGED <<part, heapVars, bitVars>>
HeapStep == part = "heap" /\ H!Next /\ UNCHANGED <<part, vars, bitVars>>
BitsStep == part = "bits" /\ BS!Next /\ UNCHANGED <<part, vars, heapVars>>

MemoryNext == PageStep \/ HeapStep \/ BitsStep
MemorySpec == MemoryInit /\ [][MemoryNext]_memoryVars

(* The buffers that callers have do not overlap, and no block is written over by   *)
(* its neighbour (bget.c:643).                                                    *)
BuffersApart == H!BuffersApart
(* Every word of the pool is in one block, and neighbours that are free have been *)
(* merged (bget.c:879).                                                         *)
NothingLost == H!NothingLost
(* No bit of a set has two owners, and the free ones are counted (bitset.c:64, 84). *)
BitsApart == BS!BitsApart
=============================================================================
