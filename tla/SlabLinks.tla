------------------------------ MODULE SlabLinks ------------------------------
(***************************************************************************)
(* SlabCache with the lists of slabs as Cache.cpp keeps them: a pointer to *)
(* the first slab for each state, and one field next in the header of a    *)
(* slab, through which it moves from list to list.  Each step of SlabCache *)
(* is taken together with what the code does to the pointers.              *)
(***************************************************************************)
EXTENDS SlabCache

CONSTANT NULL   \* nullptr

ASSUME NullAssumption == NULL \notin Int

\* links.head is Cache::slabList, links.next is Slab::next by the address of the slab.
\* Where there is no slab next is NULL: allocateSlab sets it.
VARIABLE links

linkVars == <<vars, slabVars, links>>

\* The list that starts at s; a list that is longer than there are addresses has a cycle.
ListFrom(s) ==
  LET walk[fuel \in 0 .. SizeOf(maxPowerSize) + 1] ==
        [t \in Arena \cup {NULL} |->
           IF t = NULL \/ fuel = 0 THEN <<>> ELSE <<t>> \o walk[fuel - 1][links.next[t]]]
  IN walk[SizeOf(maxPowerSize) + 1][s]

-----------------------------------------------------------------------------

\* slabListPut: next stays as it is when the list is empty.
PutFirst(l, c, s, k) ==
  [l EXCEPT !.next[s] = IF l.head[c][k] # NULL THEN l.head[c][k] ELSE @,
            !.head[c][k] = s]

\* Mutant: next is not reset.
TakeOut_KeepsNext(l, c, s, k) ==
  [head |-> [l.head EXCEPT ![c][k] = IF @ = s THEN l.next[s] ELSE @],
   next |-> [t \in Arena |-> IF l.next[t] = s THEN l.next[s] ELSE l.next[t]]]

\* slabListRemove: the slab in front of s, or the head, is led past it.
TakeOut(l, c, s, k) ==
  [head |-> [l.head EXCEPT ![c][k] = IF @ = s THEN l.next[s] ELSE @],
   next |-> [t \in Arena |-> IF t = s THEN NULL
                             ELSE IF l.next[t] = s THEN l.next[s] ELSE l.next[t]]]

\* What getFreeSlot and freeSlot do with the slab at s when its state changes.
Relinked(c, s, from, to) ==
  IF from = to THEN links
  ELSE PutFirst(IF from = "CREATED" THEN links ELSE TakeOut(links, c, s, from), c, s, to)

\* The slabs of q are given back.
Unlinked(q) == [t \in Arena |-> IF t \in Members(q) THEN NULL ELSE links.next[t]]

-----------------------------------------------------------------------------

LinkInit ==
  /\ SlabInit
  /\ links = [head |-> [c \in Caches |-> [k \in States |-> NULL]],
              next |-> [s \in Arena |-> NULL]]

LinkCreate(c) ==
  /\ CreateCache(c)
  /\ links' = [links EXCEPT !.head[c] = [k \in States |-> NULL]]

LinkAllocate(c) ==
  /\ AllocateSlot(c)
  /\ \E o \in objects' \ objects :
       links' = Relinked(c, o.slab,
                         IF o.slab \in DOMAIN slab THEN slab[o.slab].state ELSE "CREATED",
                         slab'[o.slab].state)

LinkFree(c, o) ==
  /\ FreeSlot(c, o)
  /\ links' = Relinked(c, o.slab, slab[o.slab].state, slab'[o.slab].state)

LinkShrink(c) ==
  /\ Shrink(c)
  /\ links' = [links EXCEPT !.head[c]["EMPTY"] = NULL,
                            !.next = Unlinked(ListFrom(links.head[c]["EMPTY"]))]

\* The pointers of a Cache that is destroyed are cleared here as its lists are.
LinkDestroy(c) ==
  /\ Destroy(c)
  /\ links' = [head |-> [links.head EXCEPT ![c] = [k \in States |-> NULL]],
               next |-> Unlinked(ListFrom(links.head[c]["EMPTY"])
                                 \o ListFrom(links.head[c]["PARTIAL"])
                                 \o ListFrom(links.head[c]["FULL"]))]

LinkNext ==
  /\ ~hung
  /\ \E c \in Caches :
       \/ LinkCreate(c)
       \/ LinkAllocate(c)
       \/ RunsOut(c) /\ UNCHANGED links
       \/ \E o \in objects : LinkFree(c, o)
       \/ LinkShrink(c)
       \/ LinkDestroy(c)

LinkSpec == LinkInit /\ [][LinkNext]_linkVars

-----------------------------------------------------------------------------
(* Properties *)

\* Following the pointers from slabList[k] gives each slab of the cache whose slots in use
\* say k, once, and no other, in the order in which they were put: slabListPut relies on
\* slabListRemove having reset next (Cache.cpp:80-83 and :104-121).
SlabsLinked ==
  /\ \A c \in live : \A k \in States : ListFrom(links.head[c][k]) = slabList[c][k]
  /\ SlabsListed
=============================================================================
