--------------------------- MODULE BuddyAllocator ---------------------------
(***************************************************************************)
(* BuddyAllocator.cpp: blocks of 2^(level-1) units of blockSize bytes, a   *)
(* list of the free ones for each level.  Addresses are relative to        *)
(* startAddr and in units.  The entries of the lists lie at the start of   *)
(* the free blocks; a list is modelled as the sequence of its addresses.   *)
(*                                                                         *)
(* A call is one step: the slab allocator, its only client, calls it with  *)
(* interrupts masked.                                                      *)
(***************************************************************************)
EXTENDS Integers, SequencesExt

CONSTANT maxPowerSize

ASSUME MaxPowerSizeAssumption == maxPowerSize \in Nat \ {0}

VARIABLES
  buddy,      \* the list of each level
  allocated   \* blocks the clients own

vars == <<buddy, allocated>>

Levels == 1..maxPowerSize

\* 1 << n, without the width: the largest is that of the highest level.
PowerOf2[n \in Nat] == IF n = 0 THEN 1 ELSE 2 * PowerOf2[n - 1]

SizeOf(level) == PowerOf2[level - 1]

\* BuddyEntry::addEntry.  An entry that belongs in front of the first one, or behind
\* the last one, is entered.  One that belongs between two others is not: where the
\* list should be led to it, prev->next = curr leaves it as it is.
AddEntry(q, addr) ==
  LET greater == {i \in 1..Len(q) : q[i] > addr}
  IN CASE greater = {}                   -> Append(q, addr)
       [] 1 \in greater                  -> <<addr>> \o q
       [] greater # {} /\ 1 \notin greater -> q

Members(q) == {q[i] : i \in 1..Len(q)}

\* popFreeBlockAddr takes out the first entry for s, and so does slabListRemove.
Without(q, s) ==
  LET places == {i \in 1..Len(q) : q[i] = s}
  IN IF places = {} THEN q
     ELSE RemoveAt(q, CHOOSE i \in places : \A j \in places : i <= j)

\* The first level from which a block can be taken, as a set of at most one.
FirstLevel(level) ==
  {l \in level..maxPowerSize :
     buddy[l] # <<>> /\ \A k \in level .. l - 1 : buddy[k] = <<>>}

\* Mutant: the offset is that of the level above.
SplitOff_Far(block, level) == block + SizeOf(level + 1)

\* The half of level `level` that a split leaves free.
SplitOff(block, level) == block + SizeOf(level)

\* Takes the first block of the first level that has one, and halves it until it is
\* of the level asked for.
BuddyAlloc(level) ==
  \/ /\ FirstLevel(level) = {}
     /\ UNCHANGED vars
  \/ \E l \in FirstLevel(level) :
       LET block == Head(buddy[l])
       IN /\ buddy' = [k \in Levels |->
                         IF k = l THEN Tail(buddy[k])
                         ELSE IF k \in level .. l - 1
                         THEN AddEntry(buddy[k], SplitOff(block, k))
                         ELSE buddy[k]]
          /\ allocated' = allocated \cup
                            {[base |-> block, size |-> SizeOf(level), level |-> level]}

\* The block of level l that addr lies in.
BlockAt(addr, l) == addr - (addr % SizeOf(l))

\* The other half of the block of the level above.
Other(addr, l) ==
  IF BlockAt(addr, l) % SizeOf(l + 1) = 0
  THEN BlockAt(addr, l) + SizeOf(l)
  ELSE BlockAt(addr, l) - SizeOf(l)

\* Mutant: popFreeBlockAddr looks at the first entry only.
IsFree_First(lists, addr, l) == lists[l] # <<>> /\ Head(lists[l]) = addr

\* Whether popFreeBlockAddr finds addr.
IsFree(lists, addr, l) == addr \in Members(lists[l])

\* The levels on which the block at addr is merged with its other half.
Merged(lists, addr, level) ==
  {l \in level..maxPowerSize : \A k \in level..l : IsFree(lists, Other(addr, k), k)}

\* The lists once the block of that level at addr is free.
Freed(lists, addr, level) ==
  LET merged == Merged(lists, addr, level)
  IN [l \in Levels |->
        IF l \in merged
        THEN Without(lists[l], Other(addr, l))
        ELSE IF l = level + Cardinality(merged)
        THEN AddEntry(lists[l], BlockAt(addr, l))
        ELSE lists[l]]

BuddyFree(addr, level) ==
  /\ buddy' = Freed(buddy, addr, level)
  /\ allocated' = {x \in allocated : x.base # addr}

\* initBuddy: one block of the highest level.
Init ==
  /\ buddy = [l \in Levels |-> IF l = maxPowerSize THEN <<0>> ELSE <<>>]
  /\ allocated = {}

Next ==
  \/ \E level \in Levels : BuddyAlloc(level)
  \/ \E x \in allocated : BuddyFree(x.base, x.level)

Spec == Init /\ [][Next]_vars

-----------------------------------------------------------------------------
(* Properties *)

Arena == 0 .. SizeOf(maxPowerSize) - 1

Extent(addr, level) == addr .. addr + SizeOf(level) - 1

\* A block of any level, free or owned, as a record.
FreeBlocks == UNION {{[addr |-> a, level |-> l] : a \in Members(buddy[l])} : l \in Levels}
UsedBlocks == {[addr |-> x.base, level |-> x.level] : x \in allocated}

\* No unit is in two blocks, whether free, on one level or on two, or owned, and no
\* block is free twice, or free and owned.  A free block holds the entry of a list,
\* which an owner would write over.
BlocksDisjoint ==
  /\ \A s, t \in FreeBlocks \cup UsedBlocks :
       s = t \/ Extent(s.addr, s.level) \cap Extent(t.addr, t.level) = {}
  /\ FreeBlocks \cap UsedBlocks = {}
  /\ \A l \in Levels : Cardinality(Members(buddy[l])) = Len(buddy[l])

\* No block is free together with its other half: the two are one block of the
\* next level, or a request of that level would be refused for nothing.
HalvesMerged ==
  \A b \in FreeBlocks :
    [addr |-> Other(b.addr, b.level), level |-> b.level] \notin FreeBlocks

\* To its clients this is an allocator: what it hands out does not overlap.
H == INSTANCE Heap WITH Memory <- Arena
ImplementsHeap == H!Spec

\* addEntry "adds a BuddyEntry to the list of blocks of that size"
\* (BuddyAllocator.h:25), so every unit is in a list or owned.
NothingLost ==
  UNION {Extent(b.addr, b.level) : b \in FreeBlocks \cup UsedBlocks} = Arena

=============================================================================
