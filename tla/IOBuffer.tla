------------------------------ MODULE IOBuffer ------------------------------
(***************************************************************************)
(* IOBuffer of CCB.cpp: a ring of capacity characters.  Its operations     *)
(* are not atomic where a thread calls them with interrupts enabled, so    *)
(* those that change size are given in two parts: the first ends with the  *)
(* load of size, the second stores the new one.                            *)
(***************************************************************************)
EXTENDS Integers

CONSTANT capacity

ASSUME CapacityAssumption == capacity \in Nat \ {0}

\* Character 0, and what peekFront returns for an empty buffer.
Nul == 0

\* What the memory of a new array may hold, other than 0.
Junk == -1

Slots == 0 .. capacity - 1

\* The array is allocated by the first pushBack.  What it holds is looked at only
\* when size is positive, so it is there from the start in the model.
NewBuffer(fill) == [array |-> [i \in Slots |-> fill], head |-> 0, tail |-> 0, size |-> 0]

\* Mutant: the index wraps one slot too early.
After_Early(i) == IF i >= capacity - 2 THEN 0 ELSE i + 1

\* Mutant: the index does not wrap.
After_Straight(i) == i + 1

\* The slot behind slot i.
After(i) == IF i = capacity - 1 THEN 0 ELSE i + 1

\* The first part of pushBack.
Stored(b, c) == [b EXCEPT !.array[b.tail] = c]

\* The second part of pushBack, which had found that size.  The buffer may be full.
Pushed(b, size) == [b EXCEPT !.size = size + 1, !.tail = After(b.tail)]

PushBack(b, c) == Pushed(Stored(b, c), b.size)

PeekFront(b) == IF b.size > 0 THEN b.array[b.head] ELSE Nul

\* Mutant: head stays.
Popped_Stays(b, size) == [b EXCEPT !.size = size - 1]

\* The second part of popFront.
Popped(b, size) == [b EXCEPT !.size = size - 1, !.head = After(b.head)]

PopFront(b) == IF b.size = 0 THEN b ELSE Popped(b, b.size)
=============================================================================
