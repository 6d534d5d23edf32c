--------------------------- MODULE MemoryAllocator ---------------------------
(***************************************************************************)
(* MemoryAllocator.cpp: first fit over a list of free segments in the      *)
(* order of their addresses.  Sizes and addresses are in words of 8 bytes. *)
(*                                                                         *)
(* The list lies in the free memory itself: a FreeSegment is three words   *)
(* at the start of its segment.  An allocated segment starts with a header *)
(* of one word, its size, which lies where baseAddr was; mem[a].baseAddr   *)
(* is that word in both cases.                                             *)
(*                                                                         *)
(* A call is one step, as in the system calls mem_alloc and mem_free: the  *)
(* handler runs with interrupts masked.                                    *)
(***************************************************************************)
EXTENDS Integers, Sequences, FiniteSets

CONSTANTS MEM_BLOCK_SIZE,  \* words in a block
          SegmentOffset,   \* words in a header
          HeapStart,       \* userHeapStartAddr
          HeapSize,        \* words from there to userHeapEndAddr, any number
          Requests,        \* sizes given to mem_alloc
          SplitsBehind,    \* whether clients make requests that split a segment
                           \* that is not the first of the list
          NULL             \* nullptr

\* A FreeSegment, three words, lies in a block.
ASSUME HeapAssumption ==
  /\ MEM_BLOCK_SIZE \in Nat /\ MEM_BLOCK_SIZE >= 3
  /\ SegmentOffset \in 1..MEM_BLOCK_SIZE
  /\ HeapStart \in Nat /\ HeapStart >= MEM_BLOCK_SIZE
  /\ HeapSize \in Nat /\ HeapSize >= MEM_BLOCK_SIZE
  /\ Requests \subseteq Nat \ {0}
  /\ SplitsBehind \in BOOLEAN
  /\ NULL \notin Int

VARIABLES
  head,       \* MemoryAllocator::head
  mem,        \* the first words of each block, see above
  allocated,  \* segments the clients own: where, how long, and for which request
  call        \* the latest call: its argument and what it returned

vars == <<head, mem, allocated, call>>

HeapEnd == HeapStart + HeapSize
Blocks  == {HeapStart + i * MEM_BLOCK_SIZE : i \in 0 .. HeapSize \div MEM_BLOCK_SIZE - 1}

BAD_POINTER == -1

-----------------------------------------------------------------------------
(* The free list *)

\* The segments of the list that starts at h in m, in order.  The walk stops after
\* one more than there are blocks: a list that long has a cycle.
FreeList(h, m) ==
  LET walk[n \in 0 .. Cardinality(Blocks) + 1] ==
        [a \in Blocks \cup {HeapEnd, NULL} |->
           IF n = 0 \/ a \notin Blocks THEN <<>> ELSE <<a>> \o walk[n - 1][m[a].next]]
  IN walk[Cardinality(Blocks) + 1][h]

\* The i-th segment of q; curr and prev are nullptr beyond its ends.
At(q, i) == IF i \in 1..Len(q) THEN q[i] ELSE NULL

FreeSegment(base, size, next) == [baseAddr |-> base, size |-> size, next |-> next]

\* FreeSegment::remove and FreeSegment::add.
Remove(m, prev) ==
  IF m[prev].next = NULL THEN m ELSE [m EXCEPT ![prev].next = m[@].next]

Add(m, prev, curr) ==
  [m EXCEPT ![prev].next = curr, ![curr].next = m[prev].next]

-----------------------------------------------------------------------------
(* mem_alloc *)

\* Mutant: a last block that is not full is not counted.
SizeInBlocks_Down(size) == size \div MEM_BLOCK_SIZE

SizeInBlocks(size) ==
  size \div MEM_BLOCK_SIZE + (IF size % MEM_BLOCK_SIZE > 0 THEN 1 ELSE 0)

SizeWithHeader(request) == request + SegmentOffset

\* The first call makes one segment of the whole heap.
FirstHead == IF head = NULL THEN HeapStart ELSE head
FirstMem  == IF head = NULL
             THEN [mem EXCEPT ![HeapStart] = FreeSegment(HeapStart, HeapSize, NULL)]
             ELSE mem

\* Mutant: a segment of exactly the right number of blocks does not fit.
Fits_Strict(segment, size) ==
  segment.size >= size /\ segment.size \div MEM_BLOCK_SIZE > SizeInBlocks(size)

Fits(segment, size) ==
  segment.size >= size /\ segment.size \div MEM_BLOCK_SIZE >= SizeInBlocks(size)

IsExact(segment, size) == segment.size \div MEM_BLOCK_SIZE = SizeInBlocks(size)

\* Mutant: what is left of the last block is not given away with it.
AllocatedSize_Blocks(segment, size) == SizeInBlocks(size) * MEM_BLOCK_SIZE

\* What is left and smaller than a block is given away with the segment.
AllocatedSize(segment, size) ==
  IF IsExact(segment, size) THEN segment.size ELSE SizeInBlocks(size) * MEM_BLOCK_SIZE

MemAlloc(request) ==
  LET size == SizeWithHeader(request)
      q    == FreeList(FirstHead, FirstMem)
      fit  == {i \in 1..Len(q) : Fits(FirstMem[q[i]], size)}
  IN IF fit = {}
     THEN /\ head' = FirstHead /\ mem' = FirstMem
          /\ call' = [arg |-> request, ret |-> NULL]
          /\ UNCHANGED allocated
     ELSE \E i \in fit :
       LET curr  == q[i]
           prev  == At(q, i - 1)
           seg   == FirstMem[curr]
           got   == AllocatedSize(seg, size)
           rest  == seg.baseAddr + got
           split == [FirstMem EXCEPT ![rest] = FreeSegment(rest, seg.size - got, seg.next)]
           m     == IF IsExact(seg, size)
                    THEN IF prev = NULL THEN FirstMem ELSE Remove(FirstMem, prev)
                    ELSE IF prev = NULL THEN split ELSE Add(Remove(split, prev), prev, curr)
       IN /\ \A j \in fit : i <= j
          /\ ~SplitsBehind => prev = NULL \/ IsExact(seg, size)
          /\ head' = IF prev # NULL THEN FirstHead
                     ELSE IF ~IsExact(seg, size) THEN rest
                     ELSE IF seg.next = NULL THEN HeapEnd ELSE seg.next
          /\ mem' = [m EXCEPT ![seg.baseAddr].baseAddr = got]
          /\ allocated' = allocated \cup {[base |-> seg.baseAddr, size |-> got, request |-> request]}
          /\ call' = [arg |-> request, ret |-> seg.baseAddr + SegmentOffset]

-----------------------------------------------------------------------------
(* mem_free *)

\* What mem_free checks of an address and of the word it finds there.
IsStartOfBlock(base)  == base >= HeapStart /\ (base - HeapStart) % MEM_BLOCK_SIZE = 0
IsSegment(base, size) == base + size - 1 < HeapEnd /\ size >= MEM_BLOCK_SIZE

\* Mutant: neighbours are merged with a gap of up to one block between them.
Touches_Loosely(segment, base) == segment.baseAddr + segment.size + MEM_BLOCK_SIZE >= base

Touches(segment, base) == segment.baseAddr + segment.size = base

\* Mutant: a freed segment is not merged with the one behind it.
MergeRight_Never(m, p, curr) == m

\* Merges p with the segment behind it when that follows at once.
MergeRight(m, p, curr) ==
  IF curr # NULL /\ Touches(m[p], m[curr].baseAddr)
  THEN [m EXCEPT ![p].size = @ + m[curr].size, ![p].next = m[curr].next]
  ELSE m

\* The free list with the segment at base behind prev and before curr.
Linked(prev, curr, base, size) ==
  IF prev = NULL
  THEN MergeRight([mem EXCEPT ![base] = FreeSegment(base, size, curr)], base, curr)
  ELSE IF Touches(mem[prev], base)
  THEN MergeRight([mem EXCEPT ![prev].size = @ + size], prev, curr)
  ELSE MergeRight(Add([mem EXCEPT ![base] = FreeSegment(base, size, @.next)], prev, base),
                  base, curr)

MemFree(pointer) ==
  LET base == pointer - SegmentOffset
      size == mem[base].baseAddr
      q    == FreeList(head, mem)
      n    == Cardinality({i \in 1..Len(q) : mem[q[i]].baseAddr < base})
      prev == At(q, n)
      curr == At(q, n + 1)
  IN IF pointer = NULL \/ ~IsStartOfBlock(base) \/ ~IsSegment(base, size)
     THEN /\ call' = [arg |-> pointer, ret |-> BAD_POINTER]
          /\ UNCHANGED <<head, mem, allocated>>
     ELSE /\ head' = IF prev = NULL THEN base ELSE head
          /\ mem' = IF head = HeapEnd
                    THEN [mem EXCEPT ![base] = FreeSegment(base, size, NULL)]
                    ELSE Linked(prev, curr, base, size)
          /\ allocated' = {x \in allocated : x.base # base}
          /\ call' = [arg |-> pointer, ret |-> 0]

-----------------------------------------------------------------------------

Init ==
  /\ head = NULL
  /\ mem = [a \in Blocks |-> FreeSegment(0, 0, NULL)]
  /\ allocated = {}
  /\ call = [arg |-> NULL, ret |-> NULL]

\* What clients hand to mem_free: what mem_alloc returned, nullptr, and addresses
\* that are not theirs: below this heap, as `delete` of an object from a slab cache
\* has (SCB.cpp:63-65), or inside a segment.
Pointers == {x.base + SegmentOffset : x \in allocated}
              \cup {NULL, HeapStart - 1, HeapStart + SegmentOffset + 1}

Next ==
  \/ \E r \in Requests : MemAlloc(r)
  \/ \E p \in Pointers : MemFree(p)

Spec == Init /\ [][Next]_vars

-----------------------------------------------------------------------------
(* Properties *)

Extent(base, size) == base .. base + size - 1

FreeNow == FreeList(head, mem)

\* Every word is of the kind its use needs.
TypeOK ==
  /\ head \in Blocks \cup {HeapEnd, NULL}
  /\ mem \in [Blocks -> [baseAddr : 0..HeapEnd, size : 0..HeapSize, next : Blocks \cup {NULL}]]
  /\ allocated \subseteq [base : Blocks, size : 1..HeapSize, request : Requests]
  /\ call \in [arg : Nat \cup {NULL}, ret : Nat \cup {NULL, BAD_POINTER}]

\* The segments of the free list and the ones the clients own make up the heap:
\* no word of it is lost, none is in two segments.  The code has no other record
\* of what is free (MemoryAllocator.h:43).
NothingLost ==
  head # NULL =>
    LET Free == {Extent(mem[FreeNow[i]].baseAddr, mem[FreeNow[i]].size) : i \in 1..Len(FreeNow)}
        Used == {Extent(x.base, x.size) : x \in allocated}
    IN /\ UNION (Free \cup Used) = Extent(HeapStart, HeapSize)
       /\ Cardinality(Free) = Len(FreeNow)
       /\ \A s, t \in Free \cup Used : s # t => s \cap t = {}

\* The free list is in the order of the addresses and no two of its segments touch,
\* which mem_free keeps up by merging on both sides (MemoryAllocator.h:24).
Coalesced ==
  \A i \in 1 .. Len(FreeNow) - 1 :
    LET s == mem[FreeNow[i]] IN s.baseAddr + s.size < mem[FreeNow[i + 1]].baseAddr

\* mem_alloc refuses only when no run of free blocks is long enough, and mem_free
\* reports a bad pointer only for one that mem_alloc did not return, wherever the
\* segment lies (MemoryAllocator.cpp:24, :74).
RefusesOnlyForCause ==
  /\ call.arg \in Requests /\ call.ret = NULL =>
       \A b \in Blocks :
         LET need == Extent(b, SizeInBlocks(SizeWithHeader(call.arg)) * MEM_BLOCK_SIZE)
         IN \/ ~(need \subseteq Extent(HeapStart, HeapSize))
            \/ \E x \in allocated : need \cap Extent(x.base, x.size) # {}
  /\ call.ret = BAD_POINTER => \A x \in allocated : x.base + SegmentOffset # call.arg

\* To its clients this is an allocator: what it hands out does not overlap.
H == INSTANCE Heap WITH Memory <- Extent(HeapStart, HeapSize)
ImplementsHeap == H!Spec

\* "A singly linked list of the free segments" (MemoryAllocator.h:43): what a client
\* owns is not on it.
FreeListIsFree == \A x \in allocated : \A i \in 1..Len(FreeNow) : FreeNow[i] # x.base

=============================================================================
