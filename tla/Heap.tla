-------------------------------- MODULE Heap --------------------------------
(***************************************************************************)
(* What an allocator promises its clients, whatever it does inside: the    *)
(* segments it has handed out lie in its memory and do not overlap.  It    *)
(* may refuse at any time, which changes nothing here.                     *)
(***************************************************************************)
EXTENDS Integers

CONSTANT Memory       \* the addresses it manages, any set

VARIABLE allocated    \* segments handed out, records with (at least) base and size

Extent(x) == x.base .. x.base + x.size - 1

Overlap(x, y) == Extent(x) \cap Extent(y) # {}

Init == allocated = {}

\* A new segment that overlaps no other one.
Alloc ==
  \E x \in allocated' \ allocated :
    /\ allocated' = allocated \cup {x}
    /\ Extent(x) \subseteq Memory
    /\ \A y \in allocated : ~Overlap(x, y)

\* Some segments are given back.
Free == allocated' \subseteq allocated

Next == Alloc \/ Free

Spec == Init /\ [][Next]_allocated

\* No two clients own the same address, and none owns one outside of the heap.
SegmentsDisjoint ==
  /\ \A x \in allocated : Extent(x) \subseteq Memory
  /\ \A x, y \in allocated : x # y => ~Overlap(x, y)
=============================================================================
