--------------------------------- MODULE Heap ---------------------------------
(***************************************************************************)
(* The heap: the allocator bget.c, which the kernel calls with interrupts   *)
(* disabled (malloc.c) and every user program in its own memory (compat.c  *)
(* of libc).                                                               *)
(*                                                                         *)
(* Addresses and sizes count words of four bytes, the allocation quantum   *)
(* SizeQuant.  Only the words that are headers have a value: the words of  *)
(* a buffer, and of what once was a header, are data.                      *)
(***************************************************************************)
EXTENDS Integers, Sequences, SequencesExt, FiniteSets, FiniteSetsExt, Functions

CONSTANTS
  PoolLen,      (* the words given to bpool, more than one header and links   *)
  Requests      (* the sizes in bytes that callers ask for                    *)

HeadSize == 2   (* words of a struct bhead                                    *)
SizeQ    == 2   (* words a free block needs for its queue links               *)

ESent    == -(2 * PoolLen)                    (* the size in the end sentinel *)
NoHeader == [prevfree |-> -1, bsize |-> 0]    (* what reading data may give    *)
Null     == -1

VARIABLES
  heap,     (* the headers, by address, and freelist: the free blocks in order *)
  inUse,    (* the buffers callers have, by block, with the bytes asked for    *)
  broken    (* an assertion failed                                            *)

vars == <<heap, inUse, broken>>

Blocks == 0..(PoolLen - 1)

TypeOK ==
  /\ DOMAIN heap.header \subseteq Blocks
  /\ \A a \in DOMAIN heap.header : heap.header[a].prevfree \in 0..PoolLen
  /\ heap.free \in Seq(Blocks)
  /\ DOMAIN inUse \subseteq Blocks
  /\ broken \in BOOLEAN

(* bpool: one free block, and the dummy that keeps it from being merged with  *)
(* what lies behind the pool.                                                *)
bpool ==
  LET len == PoolLen - HeadSize IN
  [header |-> [a \in {0, len} |-> IF a = 0 THEN [prevfree |-> 0, bsize |-> len]
                                  ELSE [prevfree |-> len, bsize |-> ESent]],
   free |-> <<0>>]

Init == heap = bpool /\ inUse = <<>> /\ broken = FALSE

(* A function with one argument more, and without one.                        *)
With(f, x, v) == [y \in DOMAIN f \cup {x} |-> IF y = x THEN v ELSE f[y]]
Without(f, x) == Restrict(f, DOMAIN f \ {x})

Header(h, a) == IF a \in DOMAIN h.header THEN h.header[a] ELSE NoHeader

-----------------------------------------------------------------------------
(* bget *)

(* Mutant of Size: the header is not counted.                                 *)
SizeOfData(bytes) == Max({SizeQ, (bytes + 3) \div 4})

(* A block leaves the free list, wherever it is in it.                          *)
Unlink(list, b) == RemoveAt(list, CHOOSE i \in DOMAIN list : list[i] = b)

(* The words of a block for a request.                                        *)
Size(bytes) == Max({SizeQ, (bytes + 3) \div 4}) + HeadSize

Fits(h, size) == {i \in DOMAIN h.free : Header(h, h.free[i]).bsize >= size}

(* Best fit: the smallest that is big enough, the first of these.              *)
Best(h, size) ==
  CHOOSE i \in Fits(h, size) : \A j \in Fits(h, size) :
    LET si == Header(h, h.free[i]).bsize
        sj == Header(h, h.free[j]).bsize
    IN si < sj \/ (si = sj /\ i <= j)

(* The caller gets the end of the free block, which shrinks.                   *)
Split(h, b, size) ==
  LET left == h.header[b].bsize - size IN
  [h EXCEPT !.header = With([@ EXCEPT ![b].bsize = left, ![b + left + size].prevfree = 0],
                            b + left, [prevfree |-> left, bsize |-> -size])]

(* The caller gets the whole block.                                            *)
Whole(h, b) ==
  [header |-> [h.header EXCEPT ![b].bsize = -@, ![b + h.header[b].bsize].prevfree = 0],
   free |-> Unlink(h.free, b)]

(* The heap after bget and the block of the buffer it returns.  A block is     *)
(* split when more than a smallest block would remain.                        *)
bget(h, bytes) ==
  LET size == Size(bytes)
      b    == h.free[Best(h, size)]
      rest == Header(h, b).bsize - size
      next == Header(h, b + Header(h, b).bsize)
  IN IF Fits(h, size) = {} THEN [heap |-> h, block |-> Null, asserts |-> TRUE]
     ELSE IF next.prevfree # Header(h, b).bsize
     THEN [heap |-> h, block |-> Null, asserts |-> FALSE]
     ELSE IF rest > SizeQ + HeadSize
     THEN [heap |-> Split(h, b, size), block |-> b + rest, asserts |-> TRUE]
     ELSE [heap |-> Whole(h, b), block |-> b, asserts |-> TRUE]

-----------------------------------------------------------------------------
(* brel *)

(* The block becomes free: the end of the free block before it, or one of its *)
(* own at the back of the list.                                               *)
MergePrevious(h, b) ==
  LET prev == Header(h, b).prevfree
      size == -h.header[b].bsize
  IN IF prev # 0
     THEN [heap |-> [header |-> Without([h.header EXCEPT ![b - prev].bsize = @ + size], b),
                     free |-> h.free],
           block |-> b - prev]
     ELSE [heap |-> [header |-> [h.header EXCEPT ![b].bsize = size], free |-> Append(h.free, b)],
           block |-> b]

(* Mutant of MergeNext: the free block behind stays a block of its own.        *)
MergeNothing(h, b) == h

(* A free block behind it becomes its end.                                     *)
MergeNext(h, b) ==
  LET n == b + h.header[b].bsize
      size == Header(h, n).bsize
  IN IF size > 0
     THEN [header |-> Without([h.header EXCEPT ![b].bsize = @ + size], n),
           free |-> Unlink(h.free, n)]
     ELSE h

(* What brel asserts of the neighbours of a block it is given.                 *)
ReleaseAsserts(h, b) ==
  LET behind == Header(h, b - Header(h, b).bsize)
      prev   == Header(h, b).prevfree
  IN /\ Header(h, b).bsize < 0 /\ behind.prevfree = 0
     /\ prev # 0 => Header(h, b - prev).bsize = prev
     /\ behind.bsize > 0 => Header(h, b - Header(h, b).bsize + behind.bsize).prevfree = behind.bsize

(* The header behind the free block points back to it.                         *)
brel(h, b) ==
  IF ~ReleaseAsserts(h, b) THEN [heap |-> h, asserts |-> FALSE]
  ELSE LET first == MergePrevious(h, b)
           free  == MergeNext(first.heap, first.block)
           size  == free.header[first.block].bsize
           last  == first.block + size
       IN IF Header(free, last).bsize >= 0
          THEN [heap |-> free, asserts |-> FALSE]
          ELSE [heap |-> [free EXCEPT !.header[last].prevfree = size], asserts |-> TRUE]

-----------------------------------------------------------------------------
(* The calls *)

Malloc(bytes) ==
  LET r == bget(heap, bytes) IN
  /\ ~broken
  /\ heap' = r.heap /\ broken' = ~r.asserts
  /\ inUse' = IF r.block = Null THEN inUse ELSE With(inUse, r.block, bytes)

(* bgetz clears the buffer, and asserts that it holds what was asked for.      *)
Calloc(count, bytes) ==
  LET r == bget(heap, count * bytes)
      rsize == 4 * (-Header(r.heap, r.block).bsize - HeadSize)
  IN /\ ~broken
     /\ heap' = r.heap
     /\ broken' = ~(r.asserts /\ (r.block # Null => rsize >= count * bytes))
     /\ inUse' = IF r.block = Null THEN inUse ELSE With(inUse, r.block, count * bytes)

(* bgetr: a new buffer first, and then the old one is released.                *)
Realloc(b, bytes) ==
  LET r == bget(heap, bytes)
      f == brel(r.heap, b)
  IN /\ ~broken
     /\ IF r.block = Null
        THEN heap' = r.heap /\ broken' = ~r.asserts /\ UNCHANGED inUse
        ELSE /\ heap' = f.heap /\ broken' = ~f.asserts
             /\ inUse' = With(Without(inUse, b), r.block, bytes)

Free(b) ==
  LET f == brel(heap, b) IN
  /\ ~broken
  /\ heap' = f.heap /\ broken' = ~f.asserts
  /\ inUse' = Without(inUse, b)

Next ==
  \/ \E n \in Requests : Malloc(n) \/ Calloc(2, n)
  \/ \E b \in DOMAIN inUse : Free(b) \/ \E n \in Requests : Realloc(b, n)

Spec == Init /\ [][Next]_vars

-----------------------------------------------------------------------------
(* Properties *)

FreeBlocks == ToSet(heap.free)
Words(b)   == b..(b + (IF b \in FreeBlocks THEN 1 ELSE -1) * Header(heap, b).bsize - 1)

(* A buffer is as big as was asked for, and no two of them, nor a buffer and a *)
(* free block, have a word in common: bget and brel move the boundaries of     *)
(* blocks only in what no caller has.  No assertion of bget.c fails.           *)
BuffersApart ==
  /\ ~broken
  /\ \A b \in DOMAIN inUse : 4 * (Cardinality(Words(b)) - HeadSize) >= inUse[b]
  /\ \A a, b \in DOMAIN inUse \cup FreeBlocks : a # b => Words(a) \cap Words(b) = {}

(* Nothing is lost and nothing stays in pieces: every word of the pool is in a *)
(* buffer, in a block of the free list or in the sentinel, and no two free      *)
(* blocks are neighbours, so that the heap is one free block again when all    *)
(* buffers have been freed.                                                   *)
NothingLost ==
  LET end(b) == b + Header(heap, b).bsize IN
  /\ IsInjective(heap.free)
  /\ UNION {Words(b) : b \in DOMAIN inUse \cup FreeBlocks} = 0..(PoolLen - HeadSize - 1)
  /\ \A a \in FreeBlocks : end(a) \notin FreeBlocks
=============================================================================
