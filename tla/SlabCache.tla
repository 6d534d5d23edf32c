------------------------------ MODULE SlabCache ------------------------------
(***************************************************************************)
(* Cache.cpp: caches of objects of one size.  A cache takes slabs of       *)
(* SlabSize blocks from the buddy allocator, cuts each into OptimalSlots   *)
(* slots and keeps it on the list that its number of allocated slots says. *)
(* The header of a slab (slab[s]) lies at its start; the slots are         *)
(* numbered in the order of the list slotHead.                             *)
(*                                                                         *)
(* SlabNext composes the operations of slab.h with those of the buddy      *)
(* allocator that they call.  kmalloc is CreateCache, the first time, and  *)
(* AllocateSlot; kfree is FreeSlot with the cache the slot belongs to.     *)
(***************************************************************************)
EXTENDS BuddyAllocator

CONSTANTS Caches,
          SlabSize,      \* blocks in a slab of each cache
          OptimalSlots,  \* slots in a slab of each cache
          MaxObjects     \* bound on the number of objects in use

\* getNumSlots leaves no slot when an object and its Slot fill a block up to
\* the header of the slab; no object of this program is of such a size.
ASSUME CacheAssumption ==
  /\ SlabSize \in [Caches -> Nat \ {0}]
  /\ OptimalSlots \in [Caches -> Nat \ {0}]
  /\ MaxObjects \in Nat

VARIABLES
  live,        \* caches that have been created and not destroyed
  slabList,    \* Cache::slabList of each cache
  slab,        \* the headers, by address
  errortype,   \* Cache::errortype of each cache
  objects,     \* what the clients own: which slot of which slab, from which cache
  hung         \* nullptr was dereferenced: the trap returns to where it was taken

slabVars == <<live, slabList, slab, errortype, objects, hung>>

States == {"EMPTY", "PARTIAL", "FULL"}

NoSlabs == [k \in States |-> <<>>]

PowerOfTwo(size) ==
  CHOOSE p \in 0..size : PowerOf2[p] >= size /\ \A q \in 0 .. p - 1 : PowerOf2[q] < size

\* Mutant: a slab gets one block.
SlabLevel_One(c) == 1

SlabLevel(c) == PowerOfTwo(SlabSize[c]) + 1

\* Mutant: the last slot is left out of the count.
CalculateNewState_Early(c, allocatedSlots) ==
  CASE allocatedSlots = 0                    -> "EMPTY"
    [] allocatedSlots >= OptimalSlots[c] - 1 -> "FULL"
    [] OTHER                                 -> "PARTIAL"

CalculateNewState(c, allocatedSlots) ==
  CASE allocatedSlots = 0               -> "EMPTY"
    [] allocatedSlots = OptimalSlots[c] -> "FULL"
    [] OTHER                            -> "PARTIAL"

\* slabListRemove and slabListPut, when the state changes.
Moved(lists, s, from, to) ==
  IF from = to THEN lists
  ELSE [k \in States |->
          CASE k = to   -> <<s>> \o lists[k]
            [] k = from -> Without(lists[k], s)
            [] OTHER    -> lists[k]]

\* slabs with header h at s.
WithHeader(s, h) == [t \in DOMAIN slab \cup {s} |-> IF t = s THEN h ELSE slab[t]]

-----------------------------------------------------------------------------

\* kmem_cache_create.  createCache makes a Cache of the bytes of a block, and
\* initCache does not set errortype, which lies where BuddyEntry::next was.
CreateCache(c) ==
  /\ c \notin live
  /\ FirstLevel(1) # {}
  /\ BuddyAlloc(1)
  /\ live' = live \cup {c}
  /\ slabList' = [slabList EXCEPT ![c] = NoSlabs]
  /\ \E l \in FirstLevel(1) :
       errortype' = [errortype EXCEPT ![c] = IF Len(buddy[l]) = 1 THEN "NoError" ELSE "next"]
  /\ UNCHANGED <<slab, objects, hung>>

\* A slot of the slab at s with header h, which is moved to the list it then belongs to.
GetFreeSlot(c, s, h) ==
  \E i \in 1..OptimalSlots[c] \ h.slots :
    LET state == CalculateNewState(c, h.allocatedSlots + 1)
    IN /\ \A j \in 1..OptimalSlots[c] \ h.slots : i <= j
       /\ slab' = WithHeader(s, [h EXCEPT !.slots = @ \cup {i},
                                          !.allocatedSlots = @ + 1,
                                          !.state = state])
       /\ slabList' = [slabList EXCEPT ![c] = Moved(@, s, h.state, state)]
       /\ objects' = objects \cup {[cache |-> c, slab |-> s, slot |-> i]}

\* Mutant: the count is what is found in memory.
NewSlab_Uncounted(c) ==
  [parentCache |-> c, state |-> "CREATED", allocatedSlots |-> 1, slots |-> {}]

\* A slab as allocateSlab leaves it.
NewSlab(c) ==
  [parentCache |-> c, state |-> "CREATED", allocatedSlots |-> 0, slots |-> {}]

\* kmem_cache_alloc: from the first partial slab, the first empty one, or a new one.
AllocateSlot(c) ==
  /\ c \in live
  /\ Cardinality(objects) < MaxObjects
  /\ \/ \E k \in {"PARTIAL", "EMPTY"} :
          /\ slabList[c][k] # <<>>
          /\ k = "EMPTY" => slabList[c]["PARTIAL"] = <<>>
          /\ GetFreeSlot(c, Head(slabList[c][k]), slab[Head(slabList[c][k])])
          /\ UNCHANGED vars
     \/ /\ slabList[c]["PARTIAL"] = <<>> /\ slabList[c]["EMPTY"] = <<>>
        /\ FirstLevel(SlabLevel(c)) # {}
        /\ BuddyAlloc(SlabLevel(c))
        /\ \E x \in allocated' \ allocated : GetFreeSlot(c, x.base, NewSlab(c))
  /\ UNCHANGED <<live, errortype, hung>>

\* The buddy allocator refuses: what it returned is written to all the same.
RunsOut(c) ==
  /\ \/ c \notin live /\ FirstLevel(1) = {}
     \/ /\ c \in live
        /\ slabList[c]["PARTIAL"] = <<>> /\ slabList[c]["EMPTY"] = <<>>
        /\ FirstLevel(SlabLevel(c)) = {}
  /\ hung' = TRUE
  /\ UNCHANGED <<vars, live, slabList, slab, errortype, objects>>

\* kmem_cache_free of an object, which the caller may take for one of another cache.
FreeSlot(c, o) ==
  /\ c \in live
  /\ LET h     == slab[o.slab]
         state == CalculateNewState(c, h.allocatedSlots - 1)
     IN \/ /\ h.parentCache # c
           /\ errortype' = [errortype EXCEPT ![c] = "FreeSlotError"]
           /\ UNCHANGED <<slabList, slab, objects>>
        \/ /\ h.parentCache = c
           /\ slab' = WithHeader(o.slab, [h EXCEPT !.slots = @ \ {o.slot},
                                                   !.allocatedSlots = @ - 1,
                                                   !.state = state])
           /\ slabList' = [slabList EXCEPT ![c] = Moved(@, o.slab, h.state, state)]
           /\ objects' = objects \ {o}
           /\ UNCHANGED errortype
  /\ UNCHANGED <<vars, live, hung>>

\* Mutant: two blocks are given back, whatever the slab has.
DeallocLevel_Two == 2

\* deallocSlab gives one block back, whatever the slab has.
DeallocLevel == 1

\* The lists of the buddy allocator once the slabs of q are given back, one by one.
FreedAll(q) ==
  LET after[n \in 0..Len(q)] ==
        IF n = 0 THEN buddy ELSE Freed(after[n - 1], q[n], DeallocLevel)
  IN after[Len(q)]

DeallocSlabs(q) ==
  /\ buddy' = FreedAll(q)
  /\ allocated' = {x \in allocated : x.base \notin Members(q)}
  /\ slab' = [s \in DOMAIN slab \ Members(q) |-> slab[s]]

\* Mutant: as long as one slot is free, the slab counts as free.
Shrunk_Partial(c) == slabList[c]["EMPTY"] \o slabList[c]["PARTIAL"]

\* The slabs that deallocFreeSlabs gives back.
Shrunk(c) == slabList[c]["EMPTY"]

\* kmem_cache_shrink.
Shrink(c) ==
  /\ c \in live
  /\ DeallocSlabs(Shrunk(c))
  /\ slabList' = [slabList EXCEPT ![c]["EMPTY"] = <<>>]
  /\ UNCHANGED <<live, errortype, objects, hung>>

\* kmem_cache_destroy: all slabs are given back, the block of the Cache is not.  Its
\* lists are left as they are, but nobody reads them any more; they are cleared here.
Destroy(c) ==
  /\ c \in live
  /\ DeallocSlabs(slabList[c]["EMPTY"] \o slabList[c]["PARTIAL"] \o slabList[c]["FULL"])
  /\ live' = live \ {c}
  /\ objects' = {o \in objects : o.cache # c}
  /\ slabList' = [slabList EXCEPT ![c] = NoSlabs]
  /\ UNCHANGED <<errortype, hung>>

-----------------------------------------------------------------------------

SlabInit ==
  /\ Init
  /\ live = {}
  /\ slabList = [c \in Caches |-> NoSlabs]
  /\ slab = <<>>
  /\ errortype = [c \in Caches |-> "NoError"]
  /\ objects = {}
  /\ hung = FALSE

SlabNext ==
  /\ ~hung
  /\ \E c \in Caches :
       \/ CreateCache(c)
       \/ AllocateSlot(c)
       \/ RunsOut(c)
       \/ \E o \in objects : FreeSlot(c, o)
       \/ Shrink(c)
       \/ Destroy(c)

SlabSpec == SlabInit /\ [][SlabNext]_<<vars, slabVars>>

-----------------------------------------------------------------------------
(* Properties *)

SlabsOf(c) == {s \in DOMAIN slab : slab[s].parentCache = c}

\* The headers are headers of slabs of this cache, with a count that fits.
SlabTypeOK ==
  /\ live \subseteq Caches
  /\ slabList \in [Caches -> [States -> Seq(Arena)]]
  /\ DOMAIN slab \subseteq Arena
  /\ \A s \in DOMAIN slab :
       /\ slab[s].parentCache \in live
       /\ slab[s].state \in States
       /\ slab[s].slots \subseteq 1..OptimalSlots[slab[s].parentCache]
       /\ slab[s].allocatedSlots \in 0..OptimalSlots[slab[s].parentCache]
  /\ errortype \in [Caches -> {"NoError", "FreeSlotError", "next"}]
  /\ objects \subseteq [cache : Caches, slab : Arena, slot : Nat]
  /\ hung \in BOOLEAN

\* Each slab of a cache is on exactly one of its lists, once, and on the one that
\* the slots in use say (Cache.h:38, Cache.cpp:98-101 and :260-264).
SlabsListed ==
  \A c \in live : \A k \in States :
    /\ Members(slabList[c][k]) =
         {s \in SlabsOf(c) : CalculateNewState(c, Cardinality(slab[s].slots)) = k}
    /\ Cardinality(Members(slabList[c][k])) = Len(slabList[c][k])

\* What a client owns is a slot in use of a slab of the cache it came from, and a slab
\* counts as many slots as clients own: none is handed out twice or given back too soon.
ObjectsHeld ==
  /\ \A o \in objects : o.slab \in SlabsOf(o.cache) /\ o.slot \in slab[o.slab].slots
  /\ \A s \in DOMAIN slab :
       slab[s].allocatedSlots = Cardinality({o \in objects : o.slab = s})

\* Every slab has the blocks it needs, and they are not given back while it is used.
SlabsHaveBlocks ==
  \A s \in DOMAIN slab :
    \E x \in allocated : x.base = s /\ x.size >= SlabSize[slab[s].parentCache]

\* A cache takes another slab only when every slot of the ones it has is in use
\* (slab.h:20).
GrowsOnlyWhenFull ==
  [][\A c \in live : SlabsOf(c)' \ SlabsOf(c) # {} =>
       \A s \in SlabsOf(c) : Cardinality(slab[s].slots) = OptimalSlots[c]]_<<vars, slabVars>>
=============================================================================
