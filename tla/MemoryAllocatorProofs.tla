----------------------- MODULE MemoryAllocatorProofs -----------------------
(***************************************************************************)
(* Proofs about the first-fit allocator.  The invariant HeapInv says that  *)
(* there is a set F of addresses, the free segments, such that the next    *)
(* pointers lead through F in the order of the addresses and that F and    *)
(* what the clients own make up the heap.  A step of mem_alloc takes one   *)
(* address out of F or moves it, one of mem_free puts one in and then      *)
(* merges it with the segment behind it.                                   *)
(*                                                                         *)
(* All of it is for clients that do not make the allocator split a segment *)
(* behind the first one of the list (~SplitsBehind): when they do,         *)
(* MemoryAllocator.cpp:54 links the segment it hands out.                  *)
(***************************************************************************)
EXTENDS MemoryAllocator, Induction, FiniteSetTheorems

-----------------------------------------------------------------------------
(* Blocks *)

LEMMA Division ==
  ASSUME NEW b \in Nat, b > 0, NEW n \in Nat
  PROVE  /\ n \div b \in Nat /\ n % b \in Nat /\ n % b < b
         /\ n = (n \div b) * b + (n % b)
OBVIOUS

\* k blocks fit into n words when k is not more than n \div b.
LEMMA BlocksFit ==
  ASSUME NEW b \in Nat, b > 0, NEW n \in Nat, NEW k \in Nat
  PROVE  k <= n \div b <=> k * b <= n
<1>1. PICK d \in Nat, r \in Nat : d = n \div b /\ r < b /\ n = d * b + r
  BY Division
<1>2. CASE k <= d
  <2>1. PICK e \in Nat : d = k + e
    <3>1. d - k \in Nat /\ d = k + (d - k) BY <1>2
    <3> QED BY <3>1
  <2>2. d * b = k * b + e * b /\ e * b \in Nat /\ k * b \in Nat BY <2>1
  <2> QED BY <1>1, <1>2, <2>2
<1>3. CASE ~(k <= d)
  <2>1. PICK e \in Nat : k = d + 1 + e
    <3>1. k - (d + 1) \in Nat /\ k = d + 1 + (k - (d + 1)) BY <1>3
    <3> QED BY <3>1
  <2>2. k * b = d * b + b + e * b /\ e * b \in Nat /\ d * b \in Nat BY <2>1
  <2> QED BY <1>1, <1>3, <2>2
<1> QED BY <1>2, <1>3

\* sizeInBlocks rounds up.
LEMMA RoundsUp ==
  ASSUME NEW n \in Nat \ {0}
  PROVE  /\ SizeInBlocks(n) \in Nat \ {0}
         /\ SizeInBlocks(n) * MEM_BLOCK_SIZE \in Nat
         /\ SizeInBlocks(n) * MEM_BLOCK_SIZE >= n
         /\ SizeInBlocks(n) * MEM_BLOCK_SIZE >= MEM_BLOCK_SIZE
<1>1. PICK b \in Nat : b = MEM_BLOCK_SIZE /\ b > 0 BY HeapAssumption
<1>2. PICK d \in Nat, r \in Nat : d = n \div b /\ r = n % b /\ r < b /\ n = d * b + r
  BY <1>1, Division
<1>3. SizeInBlocks(n) = d + (IF r > 0 THEN 1 ELSE 0) BY <1>1, <1>2 DEF SizeInBlocks
<1>4. (d + 1) * b = d * b + b /\ d * b \in Nat OBVIOUS
<1>5. d > 0 => d * b >= b
  <2>1. d > 0 => d - 1 \in Nat /\ d * b = (d - 1) * b + b /\ (d - 1) * b \in Nat OBVIOUS
  <2> QED BY <2>1
<1>6. CASE r > 0 BY <1>1, <1>2, <1>3, <1>4, <1>6
<1>7. CASE r = 0
  <2>1. d > 0
    <3>1. d = 0 => d * b = 0 OBVIOUS
    <3> QED BY <1>2, <1>7, <3>1
  <2> QED BY <1>1, <1>2, <1>3, <1>4, <1>5, <1>7, <2>1
<1> QED BY <1>2, <1>6, <1>7

LEMMA BlockShape ==
  ASSUME NEW a \in Blocks
  PROVE  /\ a \in Nat /\ a >= HeapStart /\ a + MEM_BLOCK_SIZE <= HeapEnd
         /\ (a - HeapStart) % MEM_BLOCK_SIZE = 0
<1>1. PICK b \in Nat : b = MEM_BLOCK_SIZE /\ b > 0 BY HeapAssumption
<1>2. PICK k \in Nat : k = HeapSize \div b BY <1>1, HeapAssumption, Division
<1>3. PICK i \in 0 .. k - 1 : a = HeapStart + i * b BY <1>1, <1>2 DEF Blocks
<1>4. i \in Nat /\ i + 1 <= k /\ i * b \in Nat BY <1>3
<1>5. (i + 1) * b <= HeapSize BY <1>1, <1>2, <1>4, HeapAssumption, BlocksFit
<1>6. (i + 1) * b = i * b + b BY <1>4
<1>7. (i * b) % b = 0
  <2>1. (i * b + 0) % b = 0 BY <1>1, <1>4
  <2> QED BY <1>4, <2>1
<1>8. a - HeapStart = i * b BY <1>3, <1>4, HeapAssumption
<1> QED BY <1>1, <1>3, <1>4, <1>5, <1>6, <1>7, <1>8, HeapAssumption DEF HeapEnd

\* The address n blocks after a block, if there is another block behind.
LEMMA BlockBehind ==
  ASSUME NEW a \in Blocks, NEW n \in Nat,
         a + n * MEM_BLOCK_SIZE + MEM_BLOCK_SIZE <= HeapEnd
  PROVE  a + n * MEM_BLOCK_SIZE \in Blocks
<1>1. PICK b \in Nat : b = MEM_BLOCK_SIZE /\ b > 0 BY HeapAssumption
<1>2. PICK k \in Nat : k = HeapSize \div b BY <1>1, HeapAssumption, Division
<1>3. PICK i \in 0 .. k - 1 : a = HeapStart + i * b BY <1>1, <1>2 DEF Blocks
<1>4. i \in Nat /\ i * b \in Nat /\ n * b \in Nat BY <1>3
<1>5. (i + n) * b = i * b + n * b /\ (i + n + 1) * b = i * b + n * b + b BY <1>4
<1>6. (i + n + 1) * b <= HeapSize
  BY <1>1, <1>3, <1>4, <1>5, HeapAssumption DEF HeapEnd
<1>7. i + n + 1 <= k BY <1>1, <1>2, <1>4, <1>6, HeapAssumption, BlocksFit
<1>8. i + n \in 0 .. k - 1 BY <1>4, <1>7
<1>9. a + n * b = HeapStart + (i + n) * b BY <1>3, <1>4, <1>5, HeapAssumption
<1> QED BY <1>1, <1>2, <1>8, <1>9 DEF Blocks

LEMMA FirstBlock == HeapStart \in Blocks /\ HeapEnd \notin Blocks
<1>1. PICK b \in Nat : b = MEM_BLOCK_SIZE /\ b > 0 BY HeapAssumption
<1>2. PICK k \in Nat : k = HeapSize \div b BY <1>1, HeapAssumption, Division
<1>3. 1 * b <= HeapSize BY <1>1, HeapAssumption
<1>4. 1 <= k BY <1>1, <1>2, <1>3, HeapAssumption, BlocksFit
<1>5. 0 \in 0 .. k - 1 /\ HeapStart = HeapStart + 0 * b BY <1>1, <1>4, HeapAssumption
<1>6. HeapStart \in Blocks BY <1>1, <1>2, <1>5 DEF Blocks
<1> QED BY <1>1, <1>6, BlockShape, HeapAssumption DEF HeapEnd

LEMMA NullNoBlock == NULL \notin Blocks /\ NULL # HeapEnd
BY BlockShape, HeapAssumption DEF HeapEnd

\* There are finitely many of them.
LEMMA FiniteBlocks == IsFiniteSet(Blocks) /\ Cardinality(Blocks) \in Nat
<1>1. Blocks \in SUBSET Nat /\ HeapEnd \in Nat /\ \A a \in Blocks : a <= HeapEnd
  BY BlockShape, HeapAssumption DEF HeapEnd
<1>2. IsFiniteSet(Blocks) BY <1>1, FS_BoundedSetOfNaturals
<1> QED BY <1>2, FS_CardinalityType

-----------------------------------------------------------------------------
(* The free list as a set of addresses *)

\* n is what comes after a in F, and h is where F begins.
NextIn(F, a, n) ==
  \/ n = NULL /\ \A b \in F : b <= a
  \/ n \in F /\ n > a /\ \A b \in F : b <= a \/ n <= b

FirstIn(F, h) ==
  \/ F = {} /\ h = HeapEnd
  \/ h \in F /\ \A b \in F : h <= b

Words == [baseAddr : 0..HeapEnd, size : 0..HeapSize, next : Blocks \cup {NULL}]

\* From h on the pointers in m lead through the segments at F, in the order of the addresses.
ListOK(h, m, F) ==
  /\ F \subseteq Blocks
  /\ FirstIn(F, h)
  /\ \A a \in F : m[a].baseAddr = a /\ NextIn(F, a, m[a].next)

\* q has the addresses of F in their order.
Enumerates(q, F) ==
  /\ q \in Seq(F)
  /\ \A a \in F : \E i \in 1..Len(q) : q[i] = a
  /\ \A i, j \in 1..Len(q) : i < j => q[i] < q[j]

LEMMA EnumeratesFront ==
  ASSUME NEW F, F \subseteq Nat, NEW a \in F, \A b \in F : a <= b, NEW q,
         Enumerates(q, F \ {a})
  PROVE  Enumerates(<<a>> \o q, F)
<1>1. PICK r : r = <<a>> \o q OBVIOUS
<1>2. q \in Seq(F) BY DEF Enumerates
<1>3. /\ r \in Seq(F) /\ Len(r) = Len(q) + 1 /\ Len(q) \in Nat /\ r[1] = a
      /\ \A i \in 1..Len(q) : r[i + 1] = q[i]
  BY <1>1, <1>2
<1>4. \A i \in 1..Len(q) : q[i] \in F \ {a} BY DEF Enumerates
<1>5. ASSUME NEW b \in F PROVE \E i \in 1..Len(r) : r[i] = b
  <2>1. CASE b = a BY <1>3, <2>1
  <2>2. CASE b # a
    <3>1. PICK i \in 1..Len(q) : q[i] = b BY <2>2 DEF Enumerates
    <3>2. i + 1 \in 1..Len(r) /\ r[i + 1] = b BY <1>3, <3>1
    <3> QED BY <3>2
  <2> QED BY <2>1, <2>2
<1>6. ASSUME NEW i \in 1..Len(r), NEW j \in 1..Len(r), i < j PROVE r[i] < r[j]
  <2>1. j - 1 \in 1..Len(q) /\ (j - 1) + 1 = j BY <1>3, <1>6
  <2>2. r[j] = q[j - 1] BY <1>3, <2>1
  <2>3. CASE i = 1
    <3>1. r[j] \in F \ {a} BY <1>4, <2>1, <2>2
    <3>2. r[i] = a /\ a \in Nat /\ r[j] \in Nat /\ a <= r[j] /\ a # r[j]
      BY <1>3, <2>3, <3>1
    <3> QED BY <3>2
  <2>4. CASE i # 1
    <3>1. i - 1 \in 1..Len(q) /\ (i - 1) + 1 = i /\ i - 1 < j - 1 BY <1>3, <1>6, <2>4
    <3>2. r[i] = q[i - 1] BY <1>3, <3>1
    <3> QED BY <2>1, <2>2, <3>1, <3>2 DEF Enumerates
  <2> QED BY <2>3, <2>4
<1> QED BY <1>1, <1>3, <1>5, <1>6 DEF Enumerates

LEMMA EnumeratesNothing == Enumerates(<<>>, {})
BY DEF Enumerates

-----------------------------------------------------------------------------
(* Following the pointers *)

Fuel == Cardinality(Blocks) + 1

Starts == Blocks \cup {HeapEnd, NULL}

Walks(w, m) ==
  w = [n \in 0..Fuel |->
         [a \in Starts |->
            IF n = 0 \/ a \notin Blocks THEN <<>> ELSE <<a>> \o w[n - 1][m[a].next]]]

\* There is a walk.
LEMMA WalkExists ==
  ASSUME NEW m \in [Blocks -> Words] PROVE \E w : Walks(w, m)
<1> DEFINE S == [Starts -> Seq(Blocks)]
           go(g) == [a \in Starts |-> IF a \notin Blocks THEN <<>> ELSE <<a>> \o g[m[a].next]]
           f0 == [a \in Starts |-> <<>>]
           step == [n \in Nat |-> [g \in S |-> go(g)]]
<1>1. Fuel \in Nat BY FiniteBlocks DEF Fuel
<1>2. f0 \in S OBVIOUS
<1>3. \A g \in S : go(g) \in S
  <2> TAKE g \in S
  <2>1. ASSUME NEW a \in Starts
        PROVE  (IF a \notin Blocks THEN <<>> ELSE <<a>> \o g[m[a].next]) \in Seq(Blocks)
    <3>1. CASE a \notin Blocks BY <3>1
    <3>2. CASE a \in Blocks
      <4>1. m[a].next \in Starts BY <3>2 DEF Words, Starts
      <4>2. g[m[a].next] \in Seq(Blocks) BY <4>1
      <4> QED BY <3>2, <4>2
    <3> QED BY <3>1, <3>2
  <2> QED BY <2>1
<1>4. step \in [Nat -> [S -> S]] BY <1>3
<1>5. IsRecursion(S, f0, step) BY <1>2, <1>4 DEF IsRecursion
<1> HIDE DEF S, f0, step
<1>6. \E f : Solves(f, S, f0, step) BY <1>5, RecursiveFunction
<1>7. PICK f : Solves(f, S, f0, step) BY <1>6
<1>8. /\ \A n \in Nat : f[n] \in S
      /\ f[0] = f0
      /\ \A n \in Nat : f[n + 1] = step[n][f[n]]
  BY <1>7 DEF Solves
<1>9. \A n \in Nat : f[n + 1] = go(f[n]) BY <1>8 DEF step
<1> DEFINE w == [n \in 0..Fuel |-> f[n]]
           row(n) == [a \in Starts |-> IF n = 0 \/ a \notin Blocks THEN <<>>
                                       ELSE <<a>> \o w[n - 1][m[a].next]]
<1>10. ASSUME NEW n \in 0..Fuel PROVE f[n] = row(n)
  <2>1. CASE n = 0 BY <1>8, <2>1 DEF f0
  <2>2. CASE n # 0
    <3>1. n - 1 \in Nat /\ (n - 1) + 1 = n /\ n - 1 \in 0..Fuel BY <1>1, <2>2
    <3>2. f[n] = go(f[n - 1]) BY <1>9, <3>1
    <3>3. w[n - 1] = f[n - 1] BY <3>1
    <3> HIDE DEF w
    <3> QED BY <2>2, <3>2, <3>3
  <2> QED BY <2>1, <2>2
<1>11. w = [n \in 0..Fuel |-> row(n)] BY <1>10, Zenon
<1>12. Walks(w, m)
  <2> HIDE DEF w
  <2> QED BY <1>11 DEF Walks
<1> QED BY <1>12

\* What it is at each address.
Unfolds(w, m) ==
  \A n \in 0..Fuel, a \in Starts :
    w[n][a] = IF n = 0 \/ a \notin Blocks THEN <<>> ELSE <<a>> \o w[n - 1][m[a].next]

LEMMA WalkUnfolds ==
  ASSUME NEW m, NEW w, Walks(w, m) PROVE Unfolds(w, m)
<1>1. PICK v : v = w OBVIOUS
<1>2. w = [n \in 0..Fuel |->
            [a \in Starts |->
               IF n = 0 \/ a \notin Blocks THEN <<>> ELSE <<a>> \o v[n - 1][m[a].next]]]
  BY <1>1 DEF Walks
<1>3. \A n \in 0..Fuel, a \in Starts :
        w[n][a] = IF n = 0 \/ a \notin Blocks THEN <<>> ELSE <<a>> \o v[n - 1][m[a].next]
  BY <1>2
<1> QED BY <1>1, <1>3 DEF Unfolds

\* The part of F from a on.
From(F, a) == IF a = NULL THEN {} ELSE {b \in F : a <= b}

LEMMA FromNext ==
  ASSUME NEW F, F \subseteq Blocks, NEW a \in F, NEW n, NextIn(F, a, n)
  PROVE  From(F, n) = From(F, a) \ {a}
<1>1. F \subseteq Nat BY BlockShape
<1>2. a # NULL BY NullNoBlock
<1>3. CASE n = NULL
  <2>1. \A b \in F : b <= a BY <1>3, NullNoBlock DEF NextIn
  <2>2. \A b \in F : a <= b => b = a BY <1>1, <2>1
  <2> QED BY <1>2, <1>3, <2>2 DEF From
<1>4. CASE n # NULL
  <2>1. n \in F /\ n > a /\ \A b \in F : b <= a \/ n <= b BY <1>4 DEF NextIn
  <2>2. \A b \in F : n <= b <=> (a <= b /\ b # a) BY <1>1, <2>1
  <2> QED BY <1>2, <1>4, <2>2 DEF From
<1> QED BY <1>3, <1>4

\* A walk enumerates the list.
LEMMA WalkFollows ==
  ASSUME NEW h, NEW m \in [Blocks -> Words], NEW F, ListOK(h, m, F), NEW w, Walks(w, m)
  PROVE  Enumerates(w[Fuel][h], F)
<1>1. /\ Fuel \in Nat /\ F \subseteq Blocks /\ F \subseteq Nat /\ IsFiniteSet(F)
      /\ Cardinality(F) \in Nat /\ Cardinality(F) < Fuel
  <2>1. F \subseteq Blocks BY DEF ListOK
  <2>2. IsFiniteSet(F) /\ Cardinality(F) <= Cardinality(Blocks)
    BY <2>1, FiniteBlocks, FS_Subset
  <2>3. Cardinality(F) \in Nat BY <2>2, FS_CardinalityType
  <2>4. F \subseteq Nat BY <2>1, BlockShape
  <2> QED BY <2>1, <2>2, <2>3, <2>4, FiniteBlocks DEF Fuel
<1>2. \A n \in 0..Fuel, a \in Starts :
        w[n][a] = IF n = 0 \/ a \notin Blocks THEN <<>> ELSE <<a>> \o w[n - 1][m[a].next]
  <2>1. Unfolds(w, m) BY WalkUnfolds
  <2> QED BY <2>1 DEF Unfolds
<1>3. \A a \in F : NextIn(F, a, m[a].next) BY DEF ListOK
<1>4. \A a : IsFiniteSet(From(F, a)) /\ Cardinality(From(F, a)) \in Nat
             /\ Cardinality(From(F, a)) <= Cardinality(F)
  <2> TAKE a
  <2>1. From(F, a) \subseteq F BY DEF From
  <2>2. IsFiniteSet(From(F, a)) /\ Cardinality(From(F, a)) <= Cardinality(F)
    BY <1>1, <2>1, FS_Subset
  <2> QED BY <2>2, FS_CardinalityType
<1>5. NULL \in Starts /\ NULL \notin Blocks /\ From(F, NULL) = {}
  BY NullNoBlock DEF Starts, From
<1> DEFINE Reads(n, a) == \A i \in 0..Fuel : n <= i => Enumerates(w[i][a], From(F, a))
           T == {n \in Nat : \A a \in F \cup {NULL} : Cardinality(From(F, a)) <= n => Reads(n, a)}
<1>6. ASSUME NEW i \in 0..Fuel PROVE Enumerates(w[i][NULL], From(F, NULL))
  <2>1. w[i][NULL] = <<>> BY <1>2, <1>5
  <2> QED BY <1>5, <2>1, EnumeratesNothing
<1>7. 0 \in T
  <2> SUFFICES ASSUME NEW a \in F \cup {NULL}, Cardinality(From(F, a)) <= 0
               PROVE  Reads(0, a)
    OBVIOUS
  <2>1. CASE a = NULL BY <1>6, <2>1
  <2>2. CASE a # NULL
    <3>1. a \in From(F, a) BY <1>1, <2>2 DEF From
    <3>2. Cardinality(From(F, a)) = 0 BY <1>4
    <3>3. From(F, a) = {} BY <1>4, <3>2, FS_EmptySet
    <3> QED BY <3>1, <3>3
  <2> QED BY <2>1, <2>2
<1>8. ASSUME NEW n \in Nat, n \in T PROVE n + 1 \in T
  <2> SUFFICES ASSUME NEW a \in F \cup {NULL}, Cardinality(From(F, a)) <= n + 1,
                      NEW i \in 0..Fuel, n + 1 <= i
               PROVE  Enumerates(w[i][a], From(F, a))
    OBVIOUS
  <2>1. CASE a = NULL BY <1>6, <2>1
  <2>2. CASE a # NULL
    <3>1. a \in F /\ a \in Blocks /\ a \in Starts BY <1>1, <2>2 DEF Starts
    <3>2. PICK b : b = m[a].next OBVIOUS
    <3>3. b \in F \cup {NULL} /\ NextIn(F, a, b) BY <1>3, <3>1, <3>2 DEF NextIn
    <3>4. From(F, b) = From(F, a) \ {a} BY <1>1, <3>1, <3>3, FromNext
    <3>5. a \in From(F, a) BY <1>1, <2>2, <3>1 DEF From
    <3>6. Cardinality(From(F, b)) = Cardinality(From(F, a)) - 1
      BY <1>4, <3>4, <3>5, FS_RemoveElement
    <3>7. Cardinality(From(F, b)) <= n BY <1>4, <3>6
    <3>8. i - 1 \in 0..Fuel /\ n <= i - 1 /\ i # 0 BY <1>1
    <3>9. Enumerates(w[i - 1][b], From(F, a) \ {a}) BY <1>8, <3>3, <3>4, <3>7, <3>8
    <3>10. w[i][a] = <<a>> \o w[i - 1][b] BY <1>2, <3>1, <3>2, <3>8
    <3>11. From(F, a) \subseteq Nat /\ \A c \in From(F, a) : a <= c
      BY <1>1, <2>2 DEF From
    <3>12. Enumerates(<<a>> \o w[i - 1][b], From(F, a))
      BY <3>5, <3>9, <3>11, EnumeratesFront
    <3> QED BY <3>10, <3>12
  <2> QED BY <2>1, <2>2
<1>9. \A n \in Nat : n \in T
  <2> HIDE DEF T
  <2> QED BY <1>7, <1>8, InductionFromZero
<1>10. CASE F = {}
  <2>1. h = HeapEnd /\ h \notin Blocks /\ h \in Starts
    BY <1>10, FirstBlock DEF ListOK, FirstIn, Starts
  <2>2. Fuel \in 0..Fuel BY <1>1
  <2>3. w[Fuel][h] = <<>> BY <1>2, <2>1, <2>2
  <2> QED BY <1>10, <2>3, EnumeratesNothing
<1>11. CASE F # {}
  <2>1. h \in F /\ \A b \in F : h <= b BY <1>11 DEF ListOK, FirstIn
  <2>2. From(F, h) = F BY <1>1, <2>1, NullNoBlock DEF From
  <2>3. Cardinality(From(F, h)) <= Cardinality(F) /\ Cardinality(F) \in T BY <1>1, <1>4, <1>9
  <2>4. Reads(Cardinality(F), h) BY <2>1, <2>3
  <2>5. Fuel \in 0..Fuel /\ Cardinality(F) <= Fuel BY <1>1
  <2> QED BY <2>2, <2>4, <2>5
<1> QED BY <1>10, <1>11

LEMMA FreeListEnumerates ==
  ASSUME NEW h, NEW m \in [Blocks -> Words], NEW F, ListOK(h, m, F)
  PROVE  Enumerates(FreeList(h, m), F)
<1> DEFINE v == CHOOSE w : Walks(w, m)
<1>1. Walks(v, m)
  <2>1. \E w : Walks(w, m) BY WalkExists
  <2> QED BY <2>1
<1>2. FreeList(h, m) = v[Fuel][h] BY DEF FreeList, Walks, Fuel, Starts
<1> HIDE DEF v
<1> QED BY <1>1, <1>2, WalkFollows

-----------------------------------------------------------------------------
(* The segments *)

Bounds == Blocks \cup {HeapEnd}

\* What is free at F and what the clients own fill whole blocks, up to the rest behind the
\* last one, leave nothing out and do not overlap.
FreeOK(m, F) ==
  \A a \in F : m[a].size \in Nat /\ m[a].size >= MEM_BLOCK_SIZE /\ a + m[a].size \in Bounds

UsedOK(m, A) ==
  /\ \A x \in A : /\ x.base \in Blocks /\ x.base + x.size \in Bounds
                  /\ x.size \in Nat /\ x.size >= MEM_BLOCK_SIZE
                  /\ m[x.base].baseAddr = x.size
  /\ \A x, y \in A : x = y \/ x.base + x.size <= y.base \/ y.base + y.size <= x.base

FreeNotUsed(m, F, A) ==
  \A x \in A, a \in F : x.base + x.size <= a \/ a + m[a].size <= x.base

Covered(m, F, A) ==
  \A w \in HeapStart .. HeapEnd - 1 :
    \/ \E a \in F : a <= w /\ w < a + m[a].size
    \/ \E x \in A : x.base <= w /\ w < x.base + x.size

\* No two free segments overlap or touch, except that the one at p may end where the next
\* begins.
Parted(m, F, p) ==
  \A a, b \in F : a < b => a + m[a].size < b \/ (a = p /\ a + m[a].size = b)

HeapOK(h, m, F, A, p) ==
  /\ m \in [Blocks -> Words]
  /\ ListOK(h, m, F) /\ FreeOK(m, F) /\ UsedOK(m, A)
  /\ FreeNotUsed(m, F, A) /\ Covered(m, F, A) /\ Parted(m, F, p)

Keeps(m, n, S) == \A a \in S : n[a] = m[a]

Bases(A) == {x.base : x \in A}

LEMMA BoundsShape ==
  \A a \in Bounds : a \in Nat /\ a <= HeapEnd
BY BlockShape, HeapAssumption DEF Bounds, HeapEnd

LEMMA ListNumbers ==
  ASSUME NEW h, NEW m, NEW F, NEW A, NEW p, HeapOK(h, m, F, A, p)
  PROVE  /\ F \subseteq Blocks /\ \A a \in F : a \in Nat /\ a # NULL
         /\ \A a \in F : m[a].size \in Nat /\ m[a].size > 0
         /\ \A x \in A : x.base \in Nat /\ x.size \in Nat /\ x.size > 0
         /\ Bases(A) \cap F = {}
<1>1. F \subseteq Blocks /\ \A a \in F : a \in Nat /\ a # NULL
  BY BlockShape, NullNoBlock DEF HeapOK, ListOK
<1>2. \A a \in F : m[a].size \in Nat /\ m[a].size > 0
  BY HeapAssumption DEF HeapOK, FreeOK
<1>3. \A x \in A : x.base \in Nat /\ x.size \in Nat /\ x.size > 0
  BY BlockShape, HeapAssumption DEF HeapOK, UsedOK
<1>4. \A x \in A, a \in F : x.base # a
  <2>1. FreeNotUsed(m, F, A) BY DEF HeapOK
  <2> QED BY <1>1, <1>2, <1>3, <2>1 DEF FreeNotUsed
<1>5. Bases(A) \cap F = {} BY <1>4 DEF Bases
<1> QED BY <1>1, <1>2, <1>3, <1>5

\* A free segment is taken as a whole.
LEMMA TakeWhole ==
  ASSUME NEW h, NEW m, NEW F, NEW A, HeapOK(h, m, F, A, NULL), NEW curr \in F,
         NEW n, NEW x, x.base = curr, x.size = m[curr].size,
         \A a \in F \ {curr} : n[a].size = m[a].size,
         Keeps(m, n, Bases(A)), n[curr].baseAddr = m[curr].size
  PROVE  LET G == F \ {curr}
             B == A \cup {x}
         IN FreeOK(n, G) /\ UsedOK(n, B) /\ FreeNotUsed(n, G, B) /\ Covered(n, G, B)
            /\ Parted(n, G, NULL)
<1> DEFINE G == F \ {curr}
           B == A \cup {x}
<1>1. /\ F \subseteq Blocks /\ \A a \in F : a \in Nat /\ a # NULL
      /\ \A a \in F : m[a].size \in Nat /\ m[a].size > 0
      /\ \A y \in A : y.base \in Nat /\ y.size \in Nat /\ y.size > 0
  BY ListNumbers
<1>2. /\ FreeOK(m, F) /\ UsedOK(m, A) /\ FreeNotUsed(m, F, A) /\ Covered(m, F, A)
      /\ Parted(m, F, NULL)
  BY DEF HeapOK
<1>3. FreeOK(n, G) BY <1>2 DEF FreeOK
<1>4. UsedOK(n, B)
  <2>1. \A y \in A : n[y.base].baseAddr = m[y.base].baseAddr BY DEF Keeps, Bases
  <2>2. \A y \in A : y.base + y.size <= x.base \/ x.base + x.size <= y.base
    BY <1>2 DEF FreeNotUsed
  <2> QED BY <1>1, <1>2, <2>1, <2>2 DEF UsedOK, FreeOK
<1>5. FreeNotUsed(n, G, B)
  <2>1. \A a \in G : x.base + x.size <= a \/ a + m[a].size <= x.base
    BY <1>1, <1>2 DEF Parted
  <2> QED BY <1>2, <2>1 DEF FreeNotUsed
<1>6. Covered(n, G, B) BY <1>1, <1>2 DEF Covered
<1>7. Parted(n, G, NULL) BY <1>2 DEF Parted
<1> QED BY <1>3, <1>4, <1>5, <1>6, <1>7

\* The front of a free segment is taken, what begins at rest is left.
LEMMA TakeFront ==
  ASSUME NEW h, NEW m, NEW F, NEW A, HeapOK(h, m, F, A, NULL), NEW curr \in F,
         NEW n, NEW x, NEW rest \in Blocks,
         x.base = curr, x.size \in Nat, x.size >= MEM_BLOCK_SIZE, rest = curr + x.size,
         x.size + MEM_BLOCK_SIZE <= m[curr].size,
         n[rest].size = m[curr].size - x.size,
         \A a \in F \ {curr} : n[a].size = m[a].size,
         Keeps(m, n, Bases(A)), n[curr].baseAddr = x.size
  PROVE  LET G == (F \ {curr}) \cup {rest}
             B == A \cup {x}
         IN FreeOK(n, G) /\ UsedOK(n, B) /\ FreeNotUsed(n, G, B) /\ Covered(n, G, B)
            /\ Parted(n, G, NULL)
<1> DEFINE G == (F \ {curr}) \cup {rest}
           B == A \cup {x}
<1>1. /\ F \subseteq Blocks /\ \A a \in F : a \in Nat /\ a # NULL
      /\ \A a \in F : m[a].size \in Nat /\ m[a].size > 0
      /\ \A y \in A : y.base \in Nat /\ y.size \in Nat /\ y.size > 0
  BY ListNumbers
<1>2. /\ FreeOK(m, F) /\ UsedOK(m, A) /\ FreeNotUsed(m, F, A) /\ Covered(m, F, A)
      /\ Parted(m, F, NULL)
  BY DEF HeapOK
<1>3. PICK b \in Nat, z \in Nat : b = MEM_BLOCK_SIZE /\ b > 0 /\ z = m[curr].size
  BY <1>1, HeapAssumption
<1>4. /\ rest \in Nat /\ n[rest].size \in Nat /\ n[rest].size >= b
      /\ rest + n[rest].size = curr + z /\ curr < rest /\ rest < curr + z
  BY <1>1, <1>3
<1>5. rest \notin F
  <2> SUFFICES ASSUME rest \in F PROVE FALSE OBVIOUS
  <2>1. curr + z < rest BY <1>1, <1>2, <1>3, <1>4 DEF Parted
  <2> QED BY <1>1, <1>3, <1>4, <2>1
<1>6. FreeOK(n, G)
  <2>1. curr + z \in Bounds BY <1>2, <1>3 DEF FreeOK
  <2> QED BY <1>2, <1>3, <1>4, <2>1 DEF FreeOK
<1>7. UsedOK(n, B)
  <2>1. \A y \in A : n[y.base].baseAddr = m[y.base].baseAddr BY DEF Keeps, Bases
  <2>2. \A y \in A : y.base + y.size <= x.base \/ x.base + x.size <= y.base
    BY <1>1, <1>2, <1>3 DEF FreeNotUsed
  <2>3. x.base \in Blocks /\ x.base + x.size \in Bounds BY <1>1 DEF Bounds
  <2> QED BY <1>2, <2>1, <2>2, <2>3 DEF UsedOK
<1>8. FreeNotUsed(n, G, B)
  <2>1. \A a \in F \ {curr} : x.base + x.size <= a \/ a + m[a].size <= x.base
    BY <1>1, <1>2, <1>3, <1>4 DEF Parted
  <2>2. \A y \in A : y.base + y.size <= rest \/ rest + n[rest].size <= y.base
    BY <1>1, <1>2, <1>3, <1>4 DEF FreeNotUsed
  <2> QED BY <1>2, <2>1, <2>2 DEF FreeNotUsed
<1>9. Covered(n, G, B)
  <2> SUFFICES ASSUME NEW w \in HeapStart .. HeapEnd - 1
               PROVE  \/ \E a \in G : a <= w /\ w < a + n[a].size
                      \/ \E y \in B : y.base <= w /\ w < y.base + y.size
    BY DEF Covered
  <2>1. \/ \E a \in F : a <= w /\ w < a + m[a].size
        \/ \E y \in A : y.base <= w /\ w < y.base + y.size
    BY <1>2 DEF Covered
  <2>2. CASE curr <= w /\ w < curr + z
    <3>1. w \in Int BY HeapAssumption DEF HeapEnd
    <3>2. w < rest \/ (rest <= w /\ w < rest + n[rest].size) BY <1>1, <1>3, <1>4, <2>2, <3>1
    <3>3. w < rest => x.base <= w /\ w < x.base + x.size BY <1>1, <2>2
    <3> QED BY <3>2, <3>3
  <2>3. CASE \E a \in F \ {curr} : a <= w /\ w < a + m[a].size BY <2>3
  <2> QED BY <1>3, <2>1, <2>2, <2>3
<1>10. Parted(n, G, NULL)
  <2>1. \A a \in F \ {curr} : a < rest => a + m[a].size < rest
    <3> TAKE a \in F \ {curr}
    <3> HAVE a < rest
    <3>1. CASE a < curr BY <1>1, <1>2, <1>3, <1>4, <3>1 DEF Parted
    <3>2. CASE curr < a BY <1>1, <1>2, <1>3, <1>4, <3>2 DEF Parted
    <3> QED BY <1>1, <3>1, <3>2
  <2>2. \A a \in F \ {curr} : rest < a => rest + n[rest].size < a
    BY <1>1, <1>2, <1>3, <1>4 DEF Parted
  <2>3. \A a, c \in F \ {curr} : a < c => a + n[a].size < c BY <1>1, <1>2 DEF Parted
  <2>4. \A a \in F \ {curr} : n[a].size = m[a].size OBVIOUS
  <2> QED BY <1>4, <2>1, <2>2, <2>3, <2>4 DEF Parted
<1> QED BY <1>6, <1>7, <1>8, <1>9, <1>10

\* The segment of x is given back and begins a free segment of its own.
LEMMA GiveAlone ==
  ASSUME NEW h, NEW m, NEW F, NEW A, HeapOK(h, m, F, A, NULL), NEW x \in A, NEW n,
         \A a \in F : a + m[a].size # x.base,
         \A a \in F : n[a].size = m[a].size, n[x.base].size = x.size,
         Keeps(m, n, Bases(A) \ {x.base})
  PROVE  LET G == F \cup {x.base}
             B == A \ {x}
         IN FreeOK(n, G) /\ UsedOK(n, B) /\ FreeNotUsed(n, G, B) /\ Covered(n, G, B)
            /\ Parted(n, G, x.base)
<1> DEFINE G == F \cup {x.base}
           B == A \ {x}
<1>1. /\ F \subseteq Blocks /\ \A a \in F : a \in Nat /\ a # NULL
      /\ \A a \in F : m[a].size \in Nat /\ m[a].size > 0
      /\ \A y \in A : y.base \in Nat /\ y.size \in Nat /\ y.size > 0
  BY ListNumbers
<1>2. /\ FreeOK(m, F) /\ UsedOK(m, A) /\ FreeNotUsed(m, F, A) /\ Covered(m, F, A)
      /\ Parted(m, F, NULL)
  BY DEF HeapOK
<1>3. \A y \in B : y.base + y.size <= x.base \/ x.base + x.size <= y.base
  BY <1>2 DEF UsedOK
<1>4. FreeOK(n, G) BY <1>2 DEF FreeOK, UsedOK
<1>5. UsedOK(n, B)
  <2>1. \A y \in B : n[y.base].baseAddr = m[y.base].baseAddr
    <3> TAKE y \in B
    <3>1. y.base # x.base BY <1>1, <1>3
    <3> QED BY <3>1 DEF Keeps, Bases
  <2> QED BY <1>2, <2>1 DEF UsedOK
<1>6. FreeNotUsed(n, G, B) BY <1>2, <1>3 DEF FreeNotUsed
<1>7. Covered(n, G, B)
  <2> SUFFICES ASSUME NEW w \in HeapStart .. HeapEnd - 1
               PROVE  \/ \E a \in G : a <= w /\ w < a + n[a].size
                      \/ \E y \in B : y.base <= w /\ w < y.base + y.size
    BY DEF Covered
  <2>1. \/ \E a \in F : a <= w /\ w < a + m[a].size
        \/ \E y \in A : y.base <= w /\ w < y.base + y.size
    BY <1>2 DEF Covered
  <2> QED BY <2>1
<1>8. Parted(n, G, x.base)
  <2>1. \A a \in F : a < x.base => a + n[a].size < x.base
    BY <1>1, <1>2 DEF FreeNotUsed
  <2>2. \A a \in F : x.base < a => x.base + n[x.base].size <= a
    BY <1>1, <1>2 DEF FreeNotUsed
  <2>3. \A a, c \in F : a < c => a + n[a].size < c BY <1>1, <1>2 DEF Parted
  <2>4. x.base \in Nat /\ n[x.base].size \in Nat BY <1>1
  <2> QED BY <1>1, <2>1, <2>2, <2>3, <2>4 DEF Parted
<1> QED BY <1>4, <1>5, <1>6, <1>7, <1>8

\* It is added to the free segment at p in front of it.
LEMMA GiveLeft ==
  ASSUME NEW h, NEW m, NEW F, NEW A, HeapOK(h, m, F, A, NULL), NEW x \in A, NEW n,
         NEW p \in F, p + m[p].size = x.base,
         \A a \in F \ {p} : n[a].size = m[a].size, n[p].size = m[p].size + x.size,
         Keeps(m, n, Bases(A))
  PROVE  LET B == A \ {x}
         IN FreeOK(n, F) /\ UsedOK(n, B) /\ FreeNotUsed(n, F, B) /\ Covered(n, F, B)
            /\ Parted(n, F, p)
<1> DEFINE B == A \ {x}
<1>1. /\ F \subseteq Blocks /\ \A a \in F : a \in Nat /\ a # NULL
      /\ \A a \in F : m[a].size \in Nat /\ m[a].size > 0
      /\ \A y \in A : y.base \in Nat /\ y.size \in Nat /\ y.size > 0
  BY ListNumbers
<1>2. /\ FreeOK(m, F) /\ UsedOK(m, A) /\ FreeNotUsed(m, F, A) /\ Covered(m, F, A)
      /\ Parted(m, F, NULL)
  BY DEF HeapOK
<1>3. \A y \in B : y.base + y.size <= x.base \/ x.base + x.size <= y.base
  BY <1>2 DEF UsedOK
<1>4. p + n[p].size = x.base + x.size /\ n[p].size \in Nat BY <1>1
<1>5. FreeOK(n, F)
  <2>1. MEM_BLOCK_SIZE \in Nat BY HeapAssumption
  <2>2. n[p].size >= MEM_BLOCK_SIZE /\ p + n[p].size \in Bounds
    BY <1>1, <1>2, <1>4, <2>1 DEF FreeOK, UsedOK
  <2> QED BY <1>2, <1>4, <2>2 DEF FreeOK
<1>6. UsedOK(n, B)
  <2>1. \A y \in B : n[y.base].baseAddr = m[y.base].baseAddr BY DEF Keeps, Bases
  <2> QED BY <1>2, <2>1 DEF UsedOK
<1>7. FreeNotUsed(n, F, B)
  <2>1. \A y \in B : y.base + y.size <= p \/ p + n[p].size <= y.base
    <3> TAKE y \in B
    <3>1. y.base + y.size <= p \/ p + m[p].size <= y.base BY <1>2 DEF FreeNotUsed
    <3> QED BY <1>1, <1>3, <1>4, <3>1
  <2> QED BY <1>2, <2>1 DEF FreeNotUsed
<1>8. Covered(n, F, B)
  <2> SUFFICES ASSUME NEW w \in HeapStart .. HeapEnd - 1
               PROVE  \/ \E a \in F : a <= w /\ w < a + n[a].size
                      \/ \E y \in B : y.base <= w /\ w < y.base + y.size
    BY DEF Covered
  <2>1. \/ \E a \in F : a <= w /\ w < a + m[a].size
        \/ \E y \in A : y.base <= w /\ w < y.base + y.size
    BY <1>2 DEF Covered
  <2>2. w \in Int BY HeapAssumption DEF HeapEnd
  <2>3. CASE p <= w /\ w < p + n[p].size BY <2>3
  <2>4. CASE \E a \in F \ {p} : a <= w /\ w < a + m[a].size BY <2>4
  <2>5. CASE \E y \in B : y.base <= w /\ w < y.base + y.size BY <2>5
  <2>6. (p <= w /\ w < p + m[p].size) \/ (x.base <= w /\ w < x.base + x.size)
          => p <= w /\ w < p + n[p].size
    BY <1>1, <1>4, <2>2
  <2> QED BY <2>1, <2>3, <2>4, <2>5, <2>6
<1>9. Parted(n, F, p)
  <2>1. \A a \in F : p < a => p + n[p].size <= a
    <3> TAKE a \in F
    <3> HAVE p < a
    <3>1. p + m[p].size < a BY <1>1, <1>2 DEF Parted
    <3>2. x.base + x.size <= a \/ a + m[a].size <= x.base BY <1>2 DEF FreeNotUsed
    <3> QED BY <1>1, <1>4, <3>1, <3>2
  <2>2. \A a \in F \ {p}, c \in F : a < c => a + n[a].size < c BY <1>1, <1>2 DEF Parted
  <2> QED BY <1>1, <1>4, <2>1, <2>2 DEF Parted
<1> QED BY <1>5, <1>6, <1>7, <1>8, <1>9

\* A free segment that ends where the next one begins is merged with it.
LEMMA Merged ==
  ASSUME NEW h, NEW m, NEW F, NEW A, NEW p \in F, HeapOK(h, m, F, A, p),
         NEW c \in F, p + m[p].size = c, NEW n,
         \A a \in F \ {p, c} : n[a].size = m[a].size, n[p].size = m[p].size + m[c].size,
         Keeps(m, n, Bases(A))
  PROVE  LET G == F \ {c}
         IN FreeOK(n, G) /\ UsedOK(n, A) /\ FreeNotUsed(n, G, A) /\ Covered(n, G, A)
            /\ Parted(n, G, NULL)
<1> DEFINE G == F \ {c}
<1>1. /\ F \subseteq Blocks /\ \A a \in F : a \in Nat /\ a # NULL
      /\ \A a \in F : m[a].size \in Nat /\ m[a].size > 0
      /\ \A y \in A : y.base \in Nat /\ y.size \in Nat /\ y.size > 0
  BY ListNumbers
<1>2. /\ FreeOK(m, F) /\ UsedOK(m, A) /\ FreeNotUsed(m, F, A) /\ Covered(m, F, A)
      /\ Parted(m, F, p)
  BY DEF HeapOK
<1>3. p + n[p].size = c + m[c].size /\ n[p].size \in Nat /\ p # c /\ p < c /\ p \in G
  BY <1>1
<1>4. FreeOK(n, G)
  <2>1. MEM_BLOCK_SIZE \in Nat BY HeapAssumption
  <2>2. n[p].size >= MEM_BLOCK_SIZE /\ p + n[p].size \in Bounds
    BY <1>1, <1>2, <1>3, <2>1 DEF FreeOK
  <2> QED BY <1>2, <1>3, <2>2 DEF FreeOK
<1>5. UsedOK(n, A)
  <2>1. \A y \in A : n[y.base].baseAddr = m[y.base].baseAddr BY DEF Keeps, Bases
  <2> QED BY <1>2, <2>1 DEF UsedOK
<1>6. FreeNotUsed(n, G, A)
  <2>1. \A y \in A : y.base + y.size <= p \/ p + n[p].size <= y.base
    <3> TAKE y \in A
    <3>1. y.base + y.size <= p \/ p + m[p].size <= y.base BY <1>2 DEF FreeNotUsed
    <3>2. y.base + y.size <= c \/ c + m[c].size <= y.base BY <1>2 DEF FreeNotUsed
    <3> QED BY <1>1, <1>3, <3>1, <3>2
  <2> QED BY <1>2, <2>1 DEF FreeNotUsed
<1>7. Covered(n, G, A)
  <2> SUFFICES ASSUME NEW w \in HeapStart .. HeapEnd - 1
               PROVE  \/ \E a \in G : a <= w /\ w < a + n[a].size
                      \/ \E y \in A : y.base <= w /\ w < y.base + y.size
    BY DEF Covered
  <2>1. \/ \E a \in F : a <= w /\ w < a + m[a].size
        \/ \E y \in A : y.base <= w /\ w < y.base + y.size
    BY <1>2 DEF Covered
  <2>2. w \in Int BY HeapAssumption DEF HeapEnd
  <2>3. CASE p <= w /\ w < p + n[p].size BY <1>3, <2>3
  <2>4. CASE \E a \in F \ {p, c} : a <= w /\ w < a + m[a].size BY <2>4
  <2>5. (p <= w /\ w < p + m[p].size) \/ (c <= w /\ w < c + m[c].size)
          => p <= w /\ w < p + n[p].size
    BY <1>1, <1>3, <2>2
  <2> QED BY <2>1, <2>3, <2>4, <2>5
<1>8. Parted(n, G, NULL)
  <2>1. \A a \in G : p < a => p + n[p].size < a
    <3> TAKE a \in G
    <3> HAVE p < a
    <3>1. p + m[p].size <= a BY <1>1, <1>2 DEF Parted
    <3>2. c < a BY <1>1, <3>1
    <3>3. c + m[c].size < a BY <1>2, <1>3, <3>2 DEF Parted
    <3> QED BY <1>3, <3>3
  <2>2. \A a \in G \ {p}, b \in G : a < b => a + n[a].size < b BY <1>1, <1>2 DEF Parted
  <2> QED BY <2>1, <2>2 DEF Parted
<1> QED BY <1>4, <1>5, <1>6, <1>7, <1>8

\* When it does not, there is no exception.
LEMMA NotMerged ==
  ASSUME NEW h, NEW m, NEW F, NEW A, NEW p \in F, HeapOK(h, m, F, A, p),
         \A c \in F : p + m[p].size # c
  PROVE  HeapOK(h, m, F, A, NULL)
BY DEF HeapOK, Parted

-----------------------------------------------------------------------------
(* The list *)

\* The first segment leaves the list.
LEMMA DropFirst ==
  ASSUME NEW h, NEW m, NEW F, ListOK(h, m, F), h \in F, NEW n, Keeps(m, n, F \ {h})
  PROVE  ListOK(IF m[h].next = NULL THEN HeapEnd ELSE m[h].next, n, F \ {h})
<1> DEFINE G == F \ {h}
           g == IF m[h].next = NULL THEN HeapEnd ELSE m[h].next
<1>1. F \subseteq Blocks /\ \A a \in F : a \in Nat /\ a # NULL
  BY BlockShape, NullNoBlock DEF ListOK
<1>2. \A b \in F : h <= b
  <2>1. h # HeapEnd BY <1>1, FirstBlock
  <2> QED BY <2>1 DEF ListOK, FirstIn
<1>3. NextIn(F, h, m[h].next) BY DEF ListOK
<1>4. FirstIn(G, g)
  <2>1. CASE m[h].next = NULL
    <3>1. \A b \in F : b <= h BY <1>1, <1>3, <2>1 DEF NextIn
    <3>2. G = {} BY <1>1, <1>2, <3>1
    <3> QED BY <2>1, <3>2 DEF FirstIn
  <2>2. CASE m[h].next # NULL BY <1>1, <1>2, <1>3, <2>2 DEF NextIn, FirstIn
  <2> QED BY <2>1, <2>2
<1>5. ASSUME NEW a \in G PROVE n[a].baseAddr = a /\ NextIn(G, a, n[a].next)
  <2>1. n[a] = m[a] BY DEF Keeps
  <2>2. m[a].baseAddr = a /\ NextIn(F, a, m[a].next) BY DEF ListOK
  <2>3. NextIn(G, a, m[a].next) BY <1>1, <1>2, <2>2 DEF NextIn
  <2> QED BY <2>1, <2>2, <2>3
<1> QED BY <1>1, <1>4, <1>5 DEF ListOK

\* The segment behind p leaves the list.
LEMMA DropBehind ==
  ASSUME NEW h, NEW m, NEW F, ListOK(h, m, F), NEW p \in F, NEW c \in F, NextIn(F, p, c),
         NEW n, Keeps(m, n, F \ {p, c}), n[p].baseAddr = p, n[p].next = m[c].next
  PROVE  ListOK(h, n, F \ {c})
<1> DEFINE G == F \ {c}
<1>1. F \subseteq Blocks /\ \A a \in F : a \in Nat /\ a # NULL
  BY BlockShape, NullNoBlock DEF ListOK
<1>2. c > p /\ \A b \in F : b <= p \/ c <= b BY <1>1 DEF NextIn
<1>3. FirstIn(G, h)
  <2>1. h \in F /\ \A b \in F : h <= b BY DEF ListOK, FirstIn
  <2>2. h # c BY <1>1, <1>2, <2>1
  <2> QED BY <2>1, <2>2 DEF FirstIn
<1>4. ASSUME NEW a \in G PROVE n[a].baseAddr = a /\ NextIn(G, a, n[a].next)
  <2>1. m[a].baseAddr = a /\ NextIn(F, a, m[a].next) /\ NextIn(F, c, m[c].next) BY DEF ListOK
  <2>2. CASE a = p
    <3>1. NextIn(G, p, m[c].next) BY <1>1, <1>2, <2>1 DEF NextIn
    <3> QED BY <2>2, <3>1
  <2>3. CASE a # p
    <3>1. n[a] = m[a] BY <2>3 DEF Keeps
    <3>2. m[a].next # c BY <1>1, <1>2, <2>1, <2>3 DEF NextIn
    <3>3. NextIn(G, a, m[a].next) BY <1>1, <2>1, <3>2 DEF NextIn
    <3> QED BY <2>1, <3>1, <3>3
  <2> QED BY <2>2, <2>3
<1> QED BY <1>1, <1>3, <1>4 DEF ListOK

\* The first segment is replaced by one behind it.
LEMMA ReplaceFirst ==
  ASSUME NEW h, NEW m, NEW F, ListOK(h, m, F), h \in F, NEW n, Keeps(m, n, F \ {h}),
         NEW rest \in Blocks, rest > h, \A b \in F : b = h \/ rest < b,
         n[rest].baseAddr = rest, n[rest].next = m[h].next
  PROVE  ListOK(rest, n, (F \ {h}) \cup {rest})
<1> DEFINE G == (F \ {h}) \cup {rest}
<1>1. F \subseteq Blocks /\ \A a \in F \cup {rest} : a \in Nat /\ a # NULL
  BY BlockShape, NullNoBlock DEF ListOK
<1>2. \A b \in F : h <= b
  <2>1. h # HeapEnd BY <1>1, FirstBlock
  <2> QED BY <2>1 DEF ListOK, FirstIn
<1>3. FirstIn(G, rest) BY <1>1 DEF FirstIn
<1>4. NextIn(G, rest, m[h].next)
  <2>1. NextIn(F, h, m[h].next) BY DEF ListOK
  <2> QED BY <1>1, <1>2, <2>1 DEF NextIn
<1>5. ASSUME NEW a \in F \ {h} PROVE n[a].baseAddr = a /\ NextIn(G, a, n[a].next)
  <2>1. n[a] = m[a] BY DEF Keeps
  <2>2. m[a].baseAddr = a /\ NextIn(F, a, m[a].next) BY DEF ListOK
  <2>3. NextIn(G, a, m[a].next) BY <1>1, <1>2, <2>2 DEF NextIn
  <2> QED BY <2>1, <2>2, <2>3
<1> QED BY <1>1, <1>3, <1>4, <1>5 DEF ListOK

\* A segment is put in front of the first one.
LEMMA PutFront ==
  ASSUME NEW h, NEW m, NEW F, ListOK(h, m, F), NEW base \in Blocks, \A a \in F : base < a,
         NEW n, Keeps(m, n, F), n[base].baseAddr = base,
         n[base].next = IF F = {} THEN NULL ELSE h
  PROVE  ListOK(base, n, F \cup {base})
<1> DEFINE G == F \cup {base}
<1>1. F \subseteq Blocks /\ \A a \in G : a \in Nat /\ a # NULL
  BY BlockShape, NullNoBlock DEF ListOK
<1>2. FirstIn(G, base) BY <1>1 DEF FirstIn
<1>3. NextIn(G, base, n[base].next)
  <2>1. CASE F = {} BY <1>1, <2>1 DEF NextIn
  <2>2. CASE F # {}
    <3>1. h \in F /\ \A b \in F : h <= b BY <2>2 DEF ListOK, FirstIn
    <3> QED BY <1>1, <2>2, <3>1 DEF NextIn
  <2> QED BY <2>1, <2>2
<1>4. ASSUME NEW a \in F PROVE n[a].baseAddr = a /\ NextIn(G, a, n[a].next)
  <2>1. n[a] = m[a] BY DEF Keeps
  <2>2. m[a].baseAddr = a /\ NextIn(F, a, m[a].next) BY DEF ListOK
  <2>3. NextIn(G, a, m[a].next) BY <1>1, <2>2 DEF NextIn
  <2> QED BY <2>1, <2>2, <2>3
<1> QED BY <1>1, <1>2, <1>3, <1>4 DEF ListOK

\* A segment is put behind p.
LEMMA PutBehind ==
  ASSUME NEW h, NEW m, NEW F, ListOK(h, m, F), NEW base \in Blocks, NEW p \in F, p < base,
         \A a \in F : a <= p \/ base < a,
         NEW n, Keeps(m, n, F \ {p}), n[base].baseAddr = base, n[p].baseAddr = p,
         n[p].next = base, n[base].next = m[p].next
  PROVE  ListOK(h, n, F \cup {base})
<1> DEFINE G == F \cup {base}
<1>1. F \subseteq Blocks /\ \A a \in G : a \in Nat /\ a # NULL
  BY BlockShape, NullNoBlock DEF ListOK
<1>2. FirstIn(G, h) BY <1>1 DEF ListOK, FirstIn
<1>3. NextIn(F, p, m[p].next) BY DEF ListOK
<1>4. NextIn(G, base, n[base].next) BY <1>1, <1>3 DEF NextIn
<1>5. NextIn(G, p, n[p].next) BY <1>1 DEF NextIn
<1>6. ASSUME NEW a \in F \ {p} PROVE n[a].baseAddr = a /\ NextIn(G, a, n[a].next)
  <2>1. n[a] = m[a] BY DEF Keeps
  <2>2. m[a].baseAddr = a /\ NextIn(F, a, m[a].next) BY DEF ListOK
  <2>3. NextIn(G, a, m[a].next) BY <1>1, <2>2 DEF NextIn
  <2> QED BY <2>1, <2>2, <2>3
<1> QED BY <1>1, <1>2, <1>4, <1>5, <1>6 DEF ListOK

-----------------------------------------------------------------------------
(* Writing to the memory *)

\* What a write to the words of the segment at a leaves.
LEMMA WritesSegment ==
  ASSUME NEW m \in [Blocks -> Words], NEW a \in Blocks, NEW r \in Words,
         NEW n, n = [m EXCEPT ![a] = r]
  PROVE  n \in [Blocks -> Words] /\ n[a] = r /\ \A b \in Blocks \ {a} : n[b] = m[b]
OBVIOUS

LEMMA WritesNext ==
  ASSUME NEW m \in [Blocks -> Words], NEW a \in Blocks, NEW c \in Blocks \cup {NULL},
         NEW n, n = [m EXCEPT ![a].next = c]
  PROVE  /\ n \in [Blocks -> Words] /\ \A b \in Blocks \ {a} : n[b] = m[b]
         /\ n[a].next = c /\ n[a].size = m[a].size /\ n[a].baseAddr = m[a].baseAddr
<1>1. m[a] \in Words OBVIOUS
<1>2. [m[a] EXCEPT !.next = c] \in Words BY <1>1 DEF Words
<1>3. n = [m EXCEPT ![a] = [m[a] EXCEPT !.next = c]] OBVIOUS
<1>4. n[a] = [m[a] EXCEPT !.next = c] BY <1>3
<1>5. n \in [Blocks -> Words] BY <1>2, <1>3
<1>6. \A b \in Blocks \ {a} : n[b] = m[b] BY <1>3
<1> QED BY <1>1, <1>4, <1>5, <1>6 DEF Words

LEMMA WritesSize ==
  ASSUME NEW m \in [Blocks -> Words], NEW a \in Blocks, NEW s \in 0..HeapSize,
         NEW n, n = [m EXCEPT ![a].size = s]
  PROVE  /\ n \in [Blocks -> Words] /\ \A b \in Blocks \ {a} : n[b] = m[b]
         /\ n[a].size = s /\ n[a].next = m[a].next /\ n[a].baseAddr = m[a].baseAddr
<1>1. m[a] \in Words OBVIOUS
<1>2. [m[a] EXCEPT !.size = s] \in Words BY <1>1 DEF Words
<1>3. n = [m EXCEPT ![a] = [m[a] EXCEPT !.size = s]] OBVIOUS
<1>4. n[a] = [m[a] EXCEPT !.size = s] BY <1>3
<1>5. n \in [Blocks -> Words] BY <1>2, <1>3
<1>6. \A b \in Blocks \ {a} : n[b] = m[b] BY <1>3
<1> QED BY <1>1, <1>4, <1>5, <1>6 DEF Words

LEMMA WritesBase ==
  ASSUME NEW m \in [Blocks -> Words], NEW a \in Blocks, NEW s \in 0..HeapEnd,
         NEW n, n = [m EXCEPT ![a].baseAddr = s]
  PROVE  /\ n \in [Blocks -> Words] /\ \A b \in Blocks \ {a} : n[b] = m[b]
         /\ n[a].baseAddr = s /\ n[a].next = m[a].next /\ n[a].size = m[a].size
<1>1. m[a] \in Words OBVIOUS
<1>2. [m[a] EXCEPT !.baseAddr = s] \in Words BY <1>1 DEF Words
<1>3. n = [m EXCEPT ![a] = [m[a] EXCEPT !.baseAddr = s]] OBVIOUS
<1>4. n[a] = [m[a] EXCEPT !.baseAddr = s] BY <1>3
<1>5. n \in [Blocks -> Words] BY <1>2, <1>3
<1>6. \A b \in Blocks \ {a} : n[b] = m[b] BY <1>3
<1> QED BY <1>1, <1>4, <1>5, <1>6 DEF Words

\* FreeSegment::add.
LEMMA Adds ==
  ASSUME NEW m \in [Blocks -> Words], NEW p \in Blocks, NEW c \in Blocks, p # c
  PROVE  LET n == Add(m, p, c)
         IN /\ n \in [Blocks -> Words] /\ \A b \in Blocks \ {p, c} : n[b] = m[b]
            /\ n[p].next = c /\ n[p].size = m[p].size /\ n[p].baseAddr = m[p].baseAddr
            /\ n[c].next = m[p].next /\ n[c].size = m[c].size /\ n[c].baseAddr = m[c].baseAddr
<1>1. PICK l : l = [m EXCEPT ![p].next = c] OBVIOUS
<1>2. /\ l \in [Blocks -> Words] /\ \A b \in Blocks \ {p} : l[b] = m[b]
      /\ l[p].next = c /\ l[p].size = m[p].size /\ l[p].baseAddr = m[p].baseAddr
  BY <1>1, WritesNext
<1>3. m[p].next \in Blocks \cup {NULL} BY DEF Words
<1>4. PICK n : n = [l EXCEPT ![c].next = m[p].next] OBVIOUS
<1>5. /\ n \in [Blocks -> Words] /\ \A b \in Blocks \ {c} : n[b] = l[b]
      /\ n[c].next = m[p].next /\ n[c].size = l[c].size /\ n[c].baseAddr = l[c].baseAddr
  BY <1>2, <1>3, <1>4, WritesNext
<1>6. Add(m, p, c) = n BY <1>1, <1>4 DEF Add
<1> QED BY <1>2, <1>5, <1>6

\* A segment takes in the one behind it.
LEMMA TakesIn ==
  ASSUME NEW m \in [Blocks -> Words], NEW p \in Blocks, NEW c \in Blocks, p # c,
         m[p].size + m[c].size \in 0..HeapSize, p + m[p].size = m[c].baseAddr, m[p].baseAddr = p
  PROVE  LET n == MergeRight(m, p, c)
         IN /\ n \in [Blocks -> Words] /\ \A b \in Blocks \ {p} : n[b] = m[b]
            /\ n[p].next = m[c].next /\ n[p].size = m[p].size + m[c].size
            /\ n[p].baseAddr = m[p].baseAddr
<1>1. PICK s : s = m[p].size + m[c].size OBVIOUS
<1>2. PICK l : l = [m EXCEPT ![p].size = s] OBVIOUS
<1>3. /\ l \in [Blocks -> Words] /\ \A b \in Blocks \ {p} : l[b] = m[b]
      /\ l[p].size = s /\ l[p].next = m[p].next /\ l[p].baseAddr = m[p].baseAddr
  BY <1>1, <1>2, WritesSize
<1>4. m[c].next \in Blocks \cup {NULL} BY DEF Words
<1>5. PICK n : n = [l EXCEPT ![p].next = m[c].next] OBVIOUS
<1>6. /\ n \in [Blocks -> Words] /\ \A b \in Blocks \ {p} : n[b] = l[b]
      /\ n[p].next = m[c].next /\ n[p].size = l[p].size /\ n[p].baseAddr = l[p].baseAddr
  BY <1>3, <1>4, <1>5, WritesNext
<1>7. MergeRight(m, p, c) = n
  <2>1. c # NULL /\ Touches(m[p], m[c].baseAddr) BY NullNoBlock DEF Touches
  <2> QED BY <1>1, <1>2, <1>5, <2>1 DEF MergeRight
<1> QED BY <1>1, <1>3, <1>6, <1>7

-----------------------------------------------------------------------------
(* Searching the list *)

\* Where the segments stand in the list, and what At gives beyond its ends.
LEMMA ListOrder ==
  ASSUME NEW h, NEW m, NEW F, ListOK(h, m, F), NEW q, Enumerates(q, F)
  PROVE  /\ Len(q) \in Nat /\ \A i \in 1..Len(q) : q[i] \in F /\ q[i] \in Nat /\ q[i] # NULL
         /\ At(q, 0) = NULL /\ At(q, Len(q) + 1) = NULL
         /\ Len(q) = 0 <=> F = {}
         /\ F # {} => h = q[1] /\ h \in F
         /\ \A i \in 1..Len(q) : NextIn(F, q[i], At(q, i + 1)) /\ m[q[i]].next = At(q, i + 1)
<1>1. F \subseteq Blocks /\ \A a \in F : a \in Nat /\ a # NULL
  BY BlockShape, NullNoBlock DEF ListOK
<1>2. Len(q) \in Nat /\ \A i \in 1..Len(q) : q[i] \in F BY DEF Enumerates
<1>3. \A i, j \in 1..Len(q) : i < j => q[i] < q[j] BY DEF Enumerates
<1>4. \A a \in F : \E i \in 1..Len(q) : q[i] = a BY DEF Enumerates
<1>5. At(q, 0) = NULL /\ At(q, Len(q) + 1) = NULL BY <1>2 DEF At
<1>6. Len(q) = 0 <=> F = {}
  <2>1. F # {} => Len(q) # 0 BY <1>2, <1>4
  <2>2. Len(q) # 0 => 1 \in 1..Len(q) BY <1>2
  <2> QED BY <1>2, <2>1, <2>2
<1>7. F # {} => h = q[1] /\ h \in F
  <2> HAVE F # {}
  <2>1. h \in F /\ \A b \in F : h <= b BY DEF ListOK, FirstIn
  <2>2. PICK i \in 1..Len(q) : q[i] = h BY <1>4, <2>1
  <2>3. 1 \in 1..Len(q) /\ q[1] \in F BY <1>2
  <2>4. i = 1
    <3> SUFFICES ASSUME i # 1 PROVE FALSE OBVIOUS
    <3>1. q[1] < h BY <1>2, <1>3, <2>2, <2>3
    <3> QED BY <1>1, <2>1, <2>3, <3>1
  <2> QED BY <2>1, <2>2, <2>4
<1>8. ASSUME NEW i \in 1..Len(q)
      PROVE  NextIn(F, q[i], At(q, i + 1)) /\ m[q[i]].next = At(q, i + 1)
  <2>1. NextIn(F, q[i], At(q, i + 1))
    <3>1. CASE i = Len(q)
      <4>1. At(q, i + 1) = NULL BY <1>5, <3>1
      <4>2. ASSUME NEW b \in F PROVE b <= q[i]
        <5>1. PICK j \in 1..Len(q) : q[j] = b BY <1>4
        <5> QED BY <1>1, <1>2, <1>3, <3>1, <5>1
      <4> QED BY <4>1, <4>2 DEF NextIn
    <3>2. CASE i # Len(q)
      <4>1. i + 1 \in 1..Len(q) BY <1>2, <3>2
      <4>2. At(q, i + 1) = q[i + 1] BY <4>1 DEF At
      <4>3. q[i + 1] > q[i] /\ q[i + 1] \in F BY <1>1, <1>2, <1>3, <4>1
      <4>4. ASSUME NEW b \in F PROVE b <= q[i] \/ q[i + 1] <= b
        <5>1. PICK j \in 1..Len(q) : q[j] = b BY <1>4
        <5>2. j < i \/ j = i \/ j = i + 1 \/ i + 1 < j BY <1>2
        <5> QED BY <1>1, <1>2, <1>3, <4>1, <5>1, <5>2
      <4> QED BY <4>2, <4>3, <4>4 DEF NextIn
    <3> QED BY <3>1, <3>2
  <2>2. NextIn(F, q[i], m[q[i]].next) BY <1>2 DEF ListOK
  <2>3. \A a, b \in F : a <= b /\ b <= a => a = b BY <1>1
  <2>4. q[i] \in F BY <1>2
  <2>5. m[q[i]].next = At(q, i + 1) BY <1>1, <2>1, <2>2, <2>3, <2>4 DEF NextIn
  <2> QED BY <2>1, <2>5
<1> QED BY <1>1, <1>2, <1>5, <1>6, <1>7, <1>8

\* What the search of mem_free finds: prev and curr are around base.
Around(h, m, F, base, prev, curr) ==
  /\ prev = NULL => (\A a \in F : base < a) /\ curr = IF F = {} THEN NULL ELSE h
  /\ prev # NULL => /\ prev \in F /\ prev < base /\ \A a \in F : a <= prev \/ base < a
                    /\ curr = m[prev].next

\* prev is the last segment below base, curr the first one above it.
LEMMA AroundBase ==
  ASSUME NEW h, NEW m, NEW F, ListOK(h, m, F), NEW q, Enumerates(q, F),
         NEW base \in Nat, base \notin F, NEW S,
         S = {i \in 1..Len(q) : m[q[i]].baseAddr < base}, NEW n, n = Cardinality(S)
  PROVE  Around(h, m, F, base, At(q, n), At(q, n + 1))
<1>1. F \subseteq Blocks /\ \A a \in F : a \in Nat /\ a # NULL
  BY BlockShape, NullNoBlock DEF ListOK
<1>2. Len(q) \in Nat /\ \A i \in 1..Len(q) : q[i] \in F BY DEF Enumerates
<1>3. \A i, j \in 1..Len(q) : i < j => q[i] < q[j] BY DEF Enumerates
<1>4. \A a \in F : \E i \in 1..Len(q) : q[i] = a BY DEF Enumerates
<1>5. \A i \in 1..Len(q) : i \in S <=> q[i] < base
  <2>1. \A a \in F : m[a].baseAddr = a BY DEF ListOK
  <2> QED BY <1>2, <2>1
<1>6. \E k \in 0..Len(q) : S = 1..k
  <2>1. CASE S = 1..Len(q) BY <1>2, <2>1
  <2>2. CASE S # 1..Len(q)
    <3> DEFINE T == (1..Len(q)) \ S
    <3>1. T # {} /\ T \subseteq Nat BY <1>2, <2>2
    <3>2. PICK k \in T : \A j \in T : k <= j
      <4> HIDE DEF T
      <4> QED BY <3>1, LeastElement
    <3>3. k \in 1..Len(q) /\ k \in Nat /\ ~(q[k] < base) BY <1>2, <1>5, <3>2
    <3>4. ASSUME NEW j \in 1..Len(q) PROVE j \in S <=> j <= k - 1
      <4>1. j \in Nat /\ q[j] \in Nat /\ q[k] \in Nat BY <1>1, <1>2, <3>3
      <4>2. CASE j < k
        <5>1. j \notin T BY <3>2, <3>3, <4>1, <4>2
        <5> QED BY <3>3, <4>1, <4>2, <5>1
      <4>3. CASE j = k BY <1>5, <3>3, <4>3
      <4>4. CASE k < j
        <5>1. q[k] < q[j] BY <1>3, <3>3, <4>4
        <5>2. ~(q[j] < base) BY <3>3, <4>1, <5>1
        <5> QED BY <1>5, <3>3, <4>1, <4>4, <5>2
      <4> QED BY <3>3, <4>1, <4>2, <4>3, <4>4
    <3>5. S = 1 .. k - 1 BY <1>2, <3>3, <3>4
    <3>6. k - 1 \in 0..Len(q) BY <1>2, <3>3
    <3> QED BY <3>5, <3>6
  <2> QED BY <2>1, <2>2
<1>7. PICK k \in 0..Len(q) : S = 1..k BY <1>6
<1>8. n = k
  <2>1. k \in Int /\ 1 \in Int /\ k \in Nat BY <1>2
  <2>2. Cardinality(1..k) = IF 1 > k THEN 0 ELSE k - 1 + 1 BY <2>1, FS_Interval, Zenon
  <2>3. n = Cardinality(1..k) BY <1>7
  <2> QED BY <2>1, <2>2, <2>3
<1>9. \A i \in 1..Len(q) : IF i <= k THEN q[i] < base ELSE q[i] > base
  <2> TAKE i \in 1..Len(q)
  <2>1. i \in S <=> i <= k BY <1>2, <1>7
  <2>2. q[i] \in Nat /\ q[i] # base BY <1>1, <1>2
  <2> QED BY <1>5, <2>1, <2>2
<1>10. /\ At(q, 0) = NULL
       /\ Len(q) = 0 <=> F = {}
       /\ F # {} => h = q[1]
       /\ \A i \in 1..Len(q) : m[q[i]].next = At(q, i + 1)
  BY ListOrder
<1>11. CASE k = 0
  <2>1. At(q, n) = NULL BY <1>8, <1>10, <1>11
  <2>2. ASSUME NEW a \in F PROVE base < a
    <3>1. PICK i \in 1..Len(q) : q[i] = a BY <1>4
    <3> QED BY <1>1, <1>2, <1>9, <1>11, <3>1
  <2>3. At(q, n + 1) = IF F = {} THEN NULL ELSE h BY <1>2, <1>8, <1>10, <1>11 DEF At
  <2> QED BY <2>1, <2>2, <2>3 DEF Around
<1>12. CASE k # 0
  <2>1. k \in 1..Len(q) BY <1>2, <1>12
  <2>2. At(q, n) = q[k] /\ q[k] \in F /\ q[k] # NULL BY <1>1, <1>2, <1>8, <2>1 DEF At
  <2>3. q[k] < base BY <1>2, <1>9, <2>1
  <2>4. ASSUME NEW a \in F PROVE a <= q[k] \/ base < a
    <3>1. PICK i \in 1..Len(q) : q[i] = a BY <1>4
    <3>2. i < k \/ i = k \/ k < i BY <1>2, <2>1
    <3>3. a \in Nat /\ q[k] \in Nat BY <1>1, <2>2
    <3> QED BY <1>2, <1>3, <1>9, <2>1, <3>1, <3>2, <3>3
  <2>5. At(q, n + 1) = m[q[k]].next BY <1>8, <1>10, <2>1
  <2> QED BY <2>2, <2>3, <2>4, <2>5 DEF Around
<1> QED BY <1>2, <1>11, <1>12

-----------------------------------------------------------------------------
(* mem_free *)

\* What the clients own lies apart from the list, and sizes are small enough for a word.
LEMMA HeapNumbers ==
  ASSUME NEW h, NEW m, NEW F, NEW A, NEW p, HeapOK(h, m, F, A, p)
  PROVE  /\ m \in [Blocks -> Words] /\ ListOK(h, m, F) /\ F \subseteq Blocks
         /\ Bases(A) \subseteq Blocks \ F
         /\ \A a \in F : a \in Nat /\ a # NULL /\ m[a].size \in 1..HeapSize
         /\ \A a \in F : a + m[a].size <= HeapEnd
         /\ \A x \in A : x.base \in Nat /\ x.size \in 1..HeapSize /\ x.base + x.size <= HeapEnd
<1>1. m \in [Blocks -> Words] /\ ListOK(h, m, F) /\ FreeOK(m, F) /\ UsedOK(m, A)
  BY DEF HeapOK
<1>2. /\ F \subseteq Blocks /\ \A a \in F : a \in Nat /\ a # NULL
      /\ \A a \in F : m[a].size \in Nat /\ m[a].size > 0
      /\ \A x \in A : x.base \in Nat /\ x.size \in Nat /\ x.size > 0
      /\ Bases(A) \cap F = {}
  BY ListNumbers
<1>3. HeapStart \in Nat /\ HeapSize \in Nat BY HeapAssumption
<1>4. \A a \in F : a >= HeapStart /\ a + m[a].size <= HeapEnd
  BY <1>1, <1>2, BlockShape, BoundsShape DEF FreeOK
<1>5. \A x \in A : x.base >= HeapStart /\ x.base + x.size <= HeapEnd
  BY <1>1, BlockShape, BoundsShape DEF UsedOK
<1>6. Bases(A) \subseteq Blocks BY <1>1 DEF UsedOK, Bases
<1>7. \A a \in F : m[a].size \in 1..HeapSize BY <1>2, <1>3, <1>4 DEF HeapEnd
<1>8. \A x \in A : x.size \in 1..HeapSize BY <1>2, <1>3, <1>5 DEF HeapEnd
<1> QED BY <1>1, <1>2, <1>4, <1>5, <1>6, <1>7, <1>8

\* After merging p with what is behind it no two free segments touch.
LEMMA Merging ==
  ASSUME NEW h, NEW m, NEW F, NEW A, NEW p \in F, HeapOK(h, m, F, A, p)
  PROVE  \E G : HeapOK(h, MergeRight(m, p, m[p].next), G, A, NULL)
<1>1. /\ m \in [Blocks -> Words] /\ ListOK(h, m, F) /\ F \subseteq Blocks
      /\ Bases(A) \subseteq Blocks \ F
      /\ \A a \in F : a \in Nat /\ a # NULL /\ m[a].size \in 1..HeapSize
      /\ \A a \in F : a + m[a].size <= HeapEnd
  BY HeapNumbers
<1>2. PICK c : c = m[p].next OBVIOUS
<1>3. NextIn(F, p, c) /\ \A a \in F : m[a].baseAddr = a BY <1>1, <1>2 DEF ListOK
<1>4. CASE c \in F /\ p + m[p].size = c
  <2>1. c \in Blocks /\ p \in Blocks /\ p # c
    <3>1. p \in Nat /\ m[p].size \in 1..HeapSize BY <1>1
    <3> QED BY <1>1, <1>4, <3>1
  <2>2. m[p].size + m[c].size \in 0..HeapSize
    <3>1. p \in Nat /\ m[p].size \in Nat /\ m[c].size \in Nat /\ HeapSize \in Nat
      BY <1>1, <1>4, HeapAssumption
    <3>2. c + m[c].size <= HeapEnd /\ p >= HeapStart BY <1>1, <1>4, <2>1, BlockShape
    <3> QED BY <1>4, <3>1, <3>2, HeapAssumption DEF HeapEnd
  <2>3. PICK n : n = MergeRight(m, p, c) OBVIOUS
  <2>4. /\ n \in [Blocks -> Words] /\ \A b \in Blocks \ {p} : n[b] = m[b]
        /\ n[p].next = m[c].next /\ n[p].size = m[p].size + m[c].size
        /\ n[p].baseAddr = p
    <3>1. p + m[p].size = m[c].baseAddr /\ m[p].baseAddr = p BY <1>3, <1>4
    <3> QED BY <1>1, <2>1, <2>2, <2>3, <3>1, TakesIn
  <2>5. Keeps(m, n, F \ {p, c}) /\ Keeps(m, n, Bases(A)) BY <1>1, <2>4 DEF Keeps
  <2>6. ListOK(h, n, F \ {c}) BY <1>1, <1>3, <1>4, <2>4, <2>5, DropBehind
  <2>7. \A a \in F \ {p, c} : n[a].size = m[a].size BY <2>5 DEF Keeps
  <2>8. /\ FreeOK(n, F \ {c}) /\ UsedOK(n, A) /\ FreeNotUsed(n, F \ {c}, A)
        /\ Covered(n, F \ {c}, A) /\ Parted(n, F \ {c}, NULL)
    BY <1>4, <2>4, <2>5, <2>7, Merged
  <2>9. HeapOK(h, n, F \ {c}, A, NULL) BY <2>4, <2>6, <2>8 DEF HeapOK
  <2> QED BY <1>2, <2>3, <2>9
<1>5. CASE ~(c \in F /\ p + m[p].size = c)
  <2>1. MergeRight(m, p, c) = m
    <3>1. CASE c = NULL BY <3>1 DEF MergeRight
    <3>2. CASE c \in F
      <4>1. ~Touches(m[p], m[c].baseAddr) BY <1>3, <1>5, <3>2 DEF Touches
      <4> QED BY <4>1 DEF MergeRight
    <3> QED BY <1>3, <3>1, <3>2 DEF NextIn
  <2>2. \A d \in F : p + m[p].size # d
    <3> SUFFICES ASSUME NEW d \in F, p + m[p].size = d PROVE FALSE OBVIOUS
    <3>1. p \in Nat /\ m[p].size \in Nat /\ m[p].size > 0 /\ d \in Nat BY <1>1
    <3>2. p < d BY <3>1
    <3>3. c \in F /\ c > p /\ c <= d BY <1>3, <3>1, <3>2 DEF NextIn
    <3>4. p + m[p].size < c BY <1>5, <3>3 DEF HeapOK, Parted
    <3> QED BY <1>1, <3>1, <3>3, <3>4
  <2>3. HeapOK(h, m, F, A, NULL) BY <2>2, NotMerged
  <2> QED BY <1>2, <2>1, <2>3
<1> QED BY <1>4, <1>5

\* The segment of x on the list again.
LEMMA Relinked ==
  ASSUME NEW F, HeapOK(head, mem, F, allocated, NULL), NEW x \in allocated,
         NEW prev, NEW curr, Around(head, mem, F, x.base, prev, curr)
  PROVE  \E G : HeapOK(IF prev = NULL THEN x.base ELSE head,
                       Linked(prev, curr, x.base, x.size), G, allocated \ {x}, NULL)
<1> DEFINE B == allocated \ {x}
<1>1. /\ mem \in [Blocks -> Words] /\ ListOK(head, mem, F) /\ F \subseteq Blocks
      /\ Bases(allocated) \subseteq Blocks \ F
      /\ \A a \in F : a \in Nat /\ a # NULL /\ mem[a].size \in 1..HeapSize
      /\ \A a \in F : a + mem[a].size <= HeapEnd
      /\ \A y \in allocated : y.base \in Nat /\ y.size \in 1..HeapSize /\ y.base + y.size <= HeapEnd
  BY HeapNumbers
<1>2. PICK base, size : base = x.base /\ size = x.size OBVIOUS
<1>3. /\ base \in Blocks /\ base \notin F /\ base \in Nat /\ base \in 0..HeapEnd
      /\ size \in 0..HeapSize /\ size \in Nat /\ base + size <= HeapEnd
  <2>1. base \in Bases(allocated) BY <1>2 DEF Bases
  <2>2. base + MEM_BLOCK_SIZE <= HeapEnd BY <1>1, <2>1, BlockShape
  <2> QED BY <1>1, <1>2, <2>1, <2>2, HeapAssumption DEF HeapEnd
<1>4. HeapEnd \in Nat /\ HeapSize \in Nat BY HeapAssumption DEF HeapEnd
<1>5. head \in Blocks \/ F = {} BY <1>1 DEF ListOK, FirstIn
<1>6. Bases(B) \subseteq Bases(allocated) \ {base}
  <2>1. \A y \in B : y.base # base
    <3>1. UsedOK(mem, allocated) BY DEF HeapOK
    <3>2. \A y \in B : y.base + y.size <= base \/ base + size <= y.base
      BY <1>2, <3>1 DEF UsedOK
    <3>3. size > 0 BY <1>1, <1>2
    <3> QED BY <1>1, <1>3, <3>2, <3>3
  <2> QED BY <2>1 DEF Bases
<1>7. CASE prev = NULL
  <2>1. (\A a \in F : base < a) /\ curr = IF F = {} THEN NULL ELSE head
    BY <1>2, <1>7 DEF Around
  <2>2. PICK r : r = FreeSegment(base, size, curr) OBVIOUS
  <2>3. r \in Words BY <1>3, <1>5, <2>1, <2>2 DEF Words, FreeSegment
  <2>4. PICK n : n = [mem EXCEPT ![base] = r] OBVIOUS
  <2>5. n \in [Blocks -> Words] /\ n[base] = r /\ \A b \in Blocks \ {base} : n[b] = mem[b]
    BY <1>1, <1>3, <2>3, <2>4, WritesSegment
  <2>6. n[base].baseAddr = base /\ n[base].size = size /\ n[base].next = curr
    BY <2>2, <2>5 DEF FreeSegment
  <2>7. /\ Keeps(mem, n, F) /\ Keeps(mem, n, Bases(allocated) \ {base})
        /\ \A a \in F : n[a].size = mem[a].size
    BY <1>1, <1>3, <2>5 DEF Keeps
  <2>8. ListOK(base, n, F \cup {base}) BY <1>1, <1>3, <2>1, <2>6, <2>7, PutFront
  <2>9. \A a \in F : a + mem[a].size # x.base BY <1>1, <1>2, <1>3, <2>1
  <2>10. /\ FreeOK(n, F \cup {base}) /\ UsedOK(n, B) /\ FreeNotUsed(n, F \cup {base}, B)
         /\ Covered(n, F \cup {base}, B) /\ Parted(n, F \cup {base}, base)
    <3>1. n[x.base].size = x.size /\ Keeps(mem, n, Bases(allocated) \ {x.base})
      BY <1>2, <2>6, <2>7
    <3>2. PICK K : K = F \cup {x.base} OBVIOUS
    <3>3. /\ FreeOK(n, K) /\ UsedOK(n, B) /\ FreeNotUsed(n, K, B)
          /\ Covered(n, K, B) /\ Parted(n, K, x.base)
      BY <2>7, <2>9, <3>1, <3>2, GiveAlone
    <3> QED BY <1>2, <3>2, <3>3
  <2>11. HeapOK(base, n, F \cup {base}, B, base) BY <2>5, <2>8, <2>10 DEF HeapOK
  <2>12. \E G : HeapOK(base, MergeRight(n, base, n[base].next), G, B, NULL)
    <3> HIDE DEF B
    <3> QED BY <2>11, Merging
  <2>13. Linked(prev, curr, base, size) = MergeRight(n, base, curr)
    BY <1>7, <2>2, <2>4 DEF Linked
  <2> QED BY <1>2, <1>7, <2>6, <2>12, <2>13
<1>8. CASE prev # NULL
  <2>1. /\ prev \in F /\ prev < base /\ (\A a \in F : a <= prev \/ base < a)
        /\ curr = mem[prev].next
    BY <1>2, <1>8 DEF Around
  <2>2. /\ prev \in Blocks /\ prev # base /\ prev \in Nat /\ mem[prev].size \in 1..HeapSize
        /\ mem[prev].baseAddr = prev
    BY <1>1, <1>3, <2>1 DEF ListOK
  <2>3. curr \in Blocks \cup {NULL} BY <1>1, <2>1, <2>2 DEF Words
  <2>4. CASE Touches(mem[prev], base)
    <3>1. prev + mem[prev].size = x.base BY <1>2, <2>2, <2>4 DEF Touches
    <3>2. PICK s : s = mem[prev].size + size OBVIOUS
    <3>3. s \in 0..HeapSize
      <4>1. prev >= HeapStart BY <2>2, BlockShape
      <4>2. mem[prev].size \in Nat /\ HeapStart \in Nat BY <2>2, HeapAssumption
      <4> QED BY <1>2, <1>3, <1>4, <2>2, <3>1, <3>2, <4>1, <4>2 DEF HeapEnd
    <3>4. PICK n : n = [mem EXCEPT ![prev].size = s] OBVIOUS
    <3>5. /\ n \in [Blocks -> Words] /\ \A b \in Blocks \ {prev} : n[b] = mem[b]
          /\ n[prev].size = s /\ n[prev].next = curr /\ n[prev].baseAddr = prev
      BY <1>1, <2>1, <2>2, <3>3, <3>4, WritesSize
    <3>6. Keeps(mem, n, Bases(allocated)) /\ \A a \in F \ {prev} : n[a].size = mem[a].size
      BY <1>1, <2>1, <3>5 DEF Keeps
    <3>7. ListOK(head, n, F)
      <4>1. \A a \in F : n[a].baseAddr = mem[a].baseAddr /\ n[a].next = mem[a].next
        <5> TAKE a \in F
        <5>1. CASE a = prev BY <2>1, <2>2, <3>5, <5>1
        <5>2. CASE a # prev BY <1>1, <3>5, <5>2
        <5> QED BY <5>1, <5>2
      <4> QED BY <1>1, <4>1 DEF ListOK
    <3>8. /\ FreeOK(n, F) /\ UsedOK(n, B) /\ FreeNotUsed(n, F, B)
          /\ Covered(n, F, B) /\ Parted(n, F, prev)
      <4>1. n[prev].size = mem[prev].size + x.size BY <1>2, <3>2, <3>5
      <4> QED BY <2>1, <3>1, <3>6, <4>1, GiveLeft
    <3>9. HeapOK(head, n, F, B, prev) BY <3>5, <3>7, <3>8 DEF HeapOK
    <3>10. \E G : HeapOK(head, MergeRight(n, prev, n[prev].next), G, B, NULL)
      <4> HIDE DEF B
      <4> QED BY <2>1, <3>9, Merging
    <3>11. Linked(prev, curr, base, size) = MergeRight(n, prev, curr)
      BY <1>8, <2>4, <3>2, <3>4 DEF Linked
    <3> QED BY <1>2, <1>8, <3>5, <3>10, <3>11
  <2>5. CASE ~Touches(mem[prev], base)
    <3>1. PICK r : r = FreeSegment(base, size, mem[base].next) OBVIOUS
    <3>2. r \in Words
      <4>1. mem[base].next \in Blocks \cup {NULL} BY <1>1, <1>3 DEF Words
      <4> QED BY <1>3, <3>1, <4>1 DEF Words, FreeSegment
    <3>3. PICK l : l = [mem EXCEPT ![base] = r] OBVIOUS
    <3>4. l \in [Blocks -> Words] /\ l[base] = r /\ \A b \in Blocks \ {base} : l[b] = mem[b]
      BY <1>1, <1>3, <3>2, <3>3, WritesSegment
    <3>5. PICK n : n = Add(l, prev, base) OBVIOUS
    <3>6. /\ n \in [Blocks -> Words] /\ \A b \in Blocks \ {prev, base} : n[b] = l[b]
          /\ n[prev].next = base /\ n[prev].size = l[prev].size
          /\ n[prev].baseAddr = l[prev].baseAddr
          /\ n[base].next = l[prev].next /\ n[base].size = l[base].size
          /\ n[base].baseAddr = l[base].baseAddr
      BY <1>3, <2>2, <3>4, <3>5, Adds
    <3>7. /\ n[prev].size = mem[prev].size /\ n[prev].baseAddr = prev
          /\ n[base].next = curr /\ n[base].size = size /\ n[base].baseAddr = base
          /\ \A b \in Blocks \ {prev, base} : n[b] = mem[b]
      <4>1. l[prev] = mem[prev] BY <2>2, <3>4
      <4>2. l[base].size = size /\ l[base].baseAddr = base BY <3>1, <3>4 DEF FreeSegment
      <4> QED BY <2>1, <2>2, <3>4, <3>6, <4>1, <4>2
    <3>8. /\ Keeps(mem, n, F \ {prev}) /\ Keeps(mem, n, Bases(allocated) \ {base})
          /\ \A a \in F : n[a].size = mem[a].size
      <4>1. \A a \in F \ {prev} : n[a] = mem[a] BY <1>1, <1>3, <3>7
      <4>2. \A b \in Bases(allocated) \ {base} : n[b] = mem[b] BY <1>1, <2>1, <3>7
      <4> QED BY <3>7, <4>1, <4>2 DEF Keeps
    <3>9. ListOK(head, n, F \cup {base})
      BY <1>1, <1>3, <2>1, <3>6, <3>7, <3>8, PutBehind
    <3>10. \A a \in F : a + mem[a].size # x.base
      <4> TAKE a \in F
      <4>1. a \in Nat /\ mem[a].size \in Nat /\ mem[a].size > 0 BY <1>1
      <4>2. CASE a = prev BY <1>2, <2>2, <2>5, <4>2 DEF Touches
      <4>3. CASE a < prev
        <5>1. a + mem[a].size < prev BY <2>1, <4>1, <4>3, NullNoBlock, <1>1 DEF HeapOK, Parted
        <5> QED BY <1>2, <1>3, <2>1, <2>2, <4>1, <5>1
      <4>4. CASE base < a BY <1>2, <1>3, <4>1, <4>4
      <4> QED BY <2>1, <2>2, <4>1, <4>2, <4>3, <4>4
    <3>11. /\ FreeOK(n, F \cup {base}) /\ UsedOK(n, B) /\ FreeNotUsed(n, F \cup {base}, B)
           /\ Covered(n, F \cup {base}, B) /\ Parted(n, F \cup {base}, base)
      <4>1. n[x.base].size = x.size BY <1>2, <3>7
      <4>2. /\ Keeps(mem, n, Bases(allocated) \ {x.base})
            /\ \A a \in F : n[a].size = mem[a].size
        BY <1>2, <3>8
      <4>3. PICK K : K = F \cup {x.base} OBVIOUS
      <4>4. /\ FreeOK(n, K) /\ UsedOK(n, B) /\ FreeNotUsed(n, K, B)
            /\ Covered(n, K, B) /\ Parted(n, K, x.base)
        BY <3>10, <4>1, <4>2, <4>3, GiveAlone
      <4> QED BY <1>2, <4>3, <4>4
    <3>12. HeapOK(head, n, F \cup {base}, B, base) BY <3>6, <3>9, <3>11 DEF HeapOK
    <3>13. \E G : HeapOK(head, MergeRight(n, base, n[base].next), G, B, NULL)
      <4> HIDE DEF B
      <4> QED BY <3>12, Merging
    <3>14. Linked(prev, curr, base, size) = MergeRight(n, base, curr)
      BY <1>8, <2>5, <3>1, <3>3, <3>5 DEF Linked
    <3> QED BY <1>2, <1>8, <3>7, <3>13, <3>14
  <2> QED BY <2>4, <2>5
<1> QED BY <1>7, <1>8

-----------------------------------------------------------------------------
(* mem_alloc *)

\* The first call finds one free segment, the whole heap.
LEMMA FirstHeap ==
  ASSUME mem \in [Blocks -> Words], head = NULL, allocated = {}
  PROVE  HeapOK(FirstHead, FirstMem, {HeapStart}, allocated, NULL)
<1>1. HeapStart \in Blocks /\ HeapStart \in Nat /\ HeapStart # NULL
  BY FirstBlock, NullNoBlock, HeapAssumption
<1>2. PICK r : r = FreeSegment(HeapStart, HeapSize, NULL) OBVIOUS
<1>3. r \in Words /\ r.baseAddr = HeapStart /\ r.size = HeapSize /\ r.next = NULL
  BY <1>2, HeapAssumption DEF FreeSegment, Words, HeapEnd
<1>4. PICK n : n = [mem EXCEPT ![HeapStart] = r] OBVIOUS
<1>5. n \in [Blocks -> Words] /\ n[HeapStart] = r BY <1>1, <1>3, <1>4, WritesSegment
<1>6. FirstHead = HeapStart /\ FirstMem = n BY <1>2, <1>4 DEF FirstHead, FirstMem
<1> DEFINE F == {HeapStart}
<1>7. ListOK(HeapStart, n, F) BY <1>1, <1>3, <1>5 DEF ListOK, FirstIn, NextIn
<1>8. FreeOK(n, F) BY <1>3, <1>5, HeapAssumption DEF FreeOK, Bounds, HeapEnd
<1>9. Covered(n, F, allocated) BY <1>3, <1>5, HeapAssumption DEF Covered, HeapEnd
<1>10. UsedOK(n, allocated) /\ FreeNotUsed(n, F, allocated) BY DEF UsedOK, FreeNotUsed
<1>11. Parted(n, F, NULL) BY <1>1 DEF Parted
<1> QED BY <1>5, <1>6, <1>7, <1>8, <1>9, <1>10, <1>11 DEF HeapOK

\* A segment that fits is of the right number of blocks or has at least one more.
LEMMA FitsExactlyOrMore ==
  ASSUME NEW size \in Nat \ {0}, NEW seg \in Words, Fits(seg, size), NEW k, k = SizeInBlocks(size)
  PROVE  /\ k \in Nat \ {0} /\ k * MEM_BLOCK_SIZE \in Nat
         /\ k * MEM_BLOCK_SIZE >= MEM_BLOCK_SIZE
         /\ AllocatedSize(seg, size) = IF IsExact(seg, size) THEN seg.size ELSE k * MEM_BLOCK_SIZE
         /\ ~IsExact(seg, size) => k * MEM_BLOCK_SIZE + MEM_BLOCK_SIZE <= seg.size
<1>1. MEM_BLOCK_SIZE \in Nat /\ MEM_BLOCK_SIZE > 0 BY HeapAssumption
<1>2. k \in Nat \ {0} /\ k * MEM_BLOCK_SIZE \in Nat /\ k * MEM_BLOCK_SIZE >= MEM_BLOCK_SIZE
  BY RoundsUp
<1>3. seg.size \in Nat BY HeapAssumption DEF Words
<1>4. seg.size \div MEM_BLOCK_SIZE \in Nat BY <1>1, <1>3, Division
<1>5. ASSUME ~IsExact(seg, size) PROVE k * MEM_BLOCK_SIZE + MEM_BLOCK_SIZE <= seg.size
  <2>1. k + 1 <= seg.size \div MEM_BLOCK_SIZE BY <1>2, <1>4, <1>5 DEF Fits, IsExact
  <2>2. k + 1 \in Nat BY <1>2
  <2>3. (k + 1) * MEM_BLOCK_SIZE <= seg.size BY <1>1, <1>3, <2>1, <2>2, BlocksFit
  <2>4. (k + 1) * MEM_BLOCK_SIZE = k * MEM_BLOCK_SIZE + MEM_BLOCK_SIZE BY <1>1, <1>2
  <2> QED BY <2>3, <2>4
<1> QED BY <1>2, <1>5 DEF AllocatedSize

IsWrittenWhole(n, m, prev, curr, size) ==
  n = [IF prev = NULL THEN m ELSE Remove(m, prev) EXCEPT ![curr].baseAddr = size]

\* The first segment is taken as a whole, or one further behind.
LEMMA TakenWhole ==
  ASSUME NEW h, NEW m, NEW F, NEW A, HeapOK(h, m, F, A, NULL), NEW curr \in F, NEW prev,
         \/ prev = NULL /\ curr = h
         \/ prev \in F /\ prev # NULL /\ m[prev].next = curr,
         NEW size, size = m[curr].size,
         NEW n, IsWrittenWhole(n, m, prev, curr, size),
         NEW x, x.base = curr, x.size = size
  PROVE  HeapOK(IF prev # NULL THEN h ELSE IF m[h].next = NULL THEN HeapEnd ELSE m[h].next,
                n, F \ {curr}, A \cup {x}, NULL)
<1>1. /\ m \in [Blocks -> Words] /\ ListOK(h, m, F) /\ F \subseteq Blocks
      /\ Bases(A) \subseteq Blocks \ F
      /\ \A a \in F : a \in Nat /\ a # NULL /\ m[a].size \in 1..HeapSize
  BY HeapNumbers
<1>2. curr \in Blocks /\ curr # NULL /\ m[curr].size \in 0..HeapEnd /\ m[curr] \in Words
  BY <1>1, HeapAssumption DEF HeapEnd
<1>3. CASE prev = NULL /\ curr = h
  <2>1. n = [m EXCEPT ![curr].baseAddr = size] BY <1>3 DEF IsWrittenWhole
  <2>2. /\ n \in [Blocks -> Words] /\ \A b \in Blocks \ {curr} : n[b] = m[b]
        /\ n[curr].baseAddr = size
    <3>1. size \in 0..HeapEnd BY <1>2
    <3> QED BY <1>1, <1>2, <2>1, <3>1, WritesBase
  <2>3. /\ Keeps(m, n, F \ {curr}) /\ Keeps(m, n, Bases(A))
        /\ \A a \in F \ {curr} : n[a].size = m[a].size
    BY <1>1, <2>2 DEF Keeps
  <2>4. ListOK(IF m[h].next = NULL THEN HeapEnd ELSE m[h].next, n, F \ {curr})
    BY <1>1, <1>3, <2>3, DropFirst
  <2>5. /\ FreeOK(n, F \ {curr}) /\ UsedOK(n, A \cup {x}) /\ FreeNotUsed(n, F \ {curr}, A \cup {x})
        /\ Covered(n, F \ {curr}, A \cup {x}) /\ Parted(n, F \ {curr}, NULL)
    BY <2>2, <2>3, TakeWhole
  <2> QED BY <1>3, <2>2, <2>4, <2>5 DEF HeapOK
<1>4. CASE prev \in F /\ prev # NULL /\ m[prev].next = curr
  <2>1. PICK l : l = [m EXCEPT ![prev].next = m[curr].next] OBVIOUS
  <2>2. NextIn(F, prev, curr) /\ m[prev].baseAddr = prev BY <1>1, <1>4 DEF ListOK
  <2>3. prev \in Blocks /\ prev # curr
    BY <1>1, <1>2, <1>4, <2>2 DEF NextIn
  <2>4. /\ l \in [Blocks -> Words] /\ \A b \in Blocks \ {prev} : l[b] = m[b]
        /\ l[prev].next = m[curr].next /\ l[prev].size = m[prev].size
        /\ l[prev].baseAddr = m[prev].baseAddr
    <3>1. m[curr].next \in Blocks \cup {NULL} BY <1>2 DEF Words
    <3> QED BY <1>1, <2>1, <2>3, <3>1, WritesNext
  <2>5. Remove(m, prev) = l BY <1>2, <1>4, <2>1 DEF Remove
  <2>6. n = [l EXCEPT ![curr].baseAddr = size] BY <1>4, <2>5 DEF IsWrittenWhole
  <2>7. /\ n \in [Blocks -> Words] /\ \A b \in Blocks \ {curr} : n[b] = l[b]
        /\ n[curr].baseAddr = size
    <3>1. size \in 0..HeapEnd BY <1>2
    <3> QED BY <1>2, <2>4, <2>6, <3>1, WritesBase
  <2>8. \A b \in Blocks \ {prev, curr} : n[b] = m[b] BY <2>4, <2>7
  <2>9. n[prev] = l[prev] BY <2>3, <2>7
  <2>10. Keeps(m, n, F \ {prev, curr}) /\ Keeps(m, n, Bases(A))
    BY <1>1, <1>4, <2>8 DEF Keeps
  <2>11. \A a \in F \ {curr} : n[a].size = m[a].size
    <3> TAKE a \in F \ {curr}
    <3>1. CASE a = prev BY <2>4, <2>9, <3>1
    <3>2. CASE a # prev BY <2>10, <3>2 DEF Keeps
    <3> QED BY <3>1, <3>2
  <2>12. ListOK(h, n, F \ {curr})
    <3>1. n[prev].baseAddr = prev /\ n[prev].next = m[curr].next BY <2>2, <2>4, <2>9
    <3> QED BY <1>1, <1>4, <2>2, <2>10, <3>1, DropBehind
  <2>13. /\ FreeOK(n, F \ {curr}) /\ UsedOK(n, A \cup {x}) /\ FreeNotUsed(n, F \ {curr}, A \cup {x})
         /\ Covered(n, F \ {curr}, A \cup {x}) /\ Parted(n, F \ {curr}, NULL)
    BY <2>7, <2>10, <2>11, TakeWhole
  <2> QED BY <1>4, <2>7, <2>12, <2>13 DEF HeapOK
<1> QED BY <1>3, <1>4

IsWrittenFront(n, m, h, got, rest) ==
  n = [[m EXCEPT ![rest] = FreeSegment(rest, m[h].size - got, m[h].next)]
         EXCEPT ![h].baseAddr = got]

\* The first segment is split.
LEMMA TakenFront ==
  ASSUME NEW h, NEW m, NEW F, NEW A, HeapOK(h, m, F, A, NULL), h \in F,
         NEW k \in Nat \ {0}, NEW got \in Nat, got = k * MEM_BLOCK_SIZE, got >= MEM_BLOCK_SIZE,
         got + MEM_BLOCK_SIZE <= m[h].size, NEW rest, rest = h + got,
         NEW n, IsWrittenFront(n, m, h, got, rest),
         NEW x, x.base = h, x.size = got
  PROVE  HeapOK(rest, n, (F \ {h}) \cup {rest}, A \cup {x}, NULL)
<1>1. /\ m \in [Blocks -> Words] /\ ListOK(h, m, F) /\ F \subseteq Blocks
      /\ Bases(A) \subseteq Blocks \ F
      /\ \A a \in F : a \in Nat /\ a # NULL /\ m[a].size \in 1..HeapSize
      /\ \A a \in F : a + m[a].size <= HeapEnd
  BY HeapNumbers
<1>2. /\ h \in Blocks /\ h \in Nat /\ m[h] \in Words /\ m[h].size \in Nat
      /\ HeapSize \in Nat /\ HeapEnd \in Nat /\ MEM_BLOCK_SIZE \in Nat /\ MEM_BLOCK_SIZE > 0
  BY <1>1, HeapAssumption DEF HeapEnd
<1>3. rest \in Nat /\ h < rest /\ rest < h + m[h].size BY <1>2
<1>4. rest \in Blocks
  <2>1. h + m[h].size <= HeapEnd BY <1>1
  <2>2. h + got + MEM_BLOCK_SIZE <= HeapEnd BY <1>2, <2>1
  <2> QED BY <1>2, <2>2, BlockBehind
<1>5. \A b \in F : b = h \/ rest < b
  <2> TAKE b \in F
  <2>1. b \in Nat BY <1>1
  <2>2. h # HeapEnd BY <1>2, FirstBlock
  <2>3. h <= b BY <1>1, <2>2 DEF ListOK, FirstIn
  <2>4. h < b => h + m[h].size < b BY <1>1 DEF HeapOK, Parted
  <2> QED BY <1>2, <1>3, <2>1, <2>3, <2>4
<1>6. rest \notin Bases(A)
  <2> SUFFICES ASSUME NEW y \in A, y.base = rest PROVE FALSE BY DEF Bases
  <2>1. y.base + y.size <= h \/ h + m[h].size <= y.base BY DEF HeapOK, FreeNotUsed
  <2>2. y.size \in Nat
    <3>1. y.size \in 1..HeapSize BY HeapNumbers
    <3> QED BY <1>2, <3>1
  <2> QED BY <1>2, <1>3, <2>1, <2>2
<1>7. PICK r : r = FreeSegment(rest, m[h].size - got, m[h].next) OBVIOUS
<1>8. /\ r \in Words /\ r.baseAddr = rest /\ r.size = m[h].size - got /\ r.next = m[h].next
  <2>1. m[h].next \in Blocks \cup {NULL} BY <1>2 DEF Words
  <2>2. rest \in 0..HeapEnd
    <3>1. h + m[h].size <= HeapEnd BY <1>1
    <3> QED BY <1>2, <1>3, <3>1
  <2>3. m[h].size - got \in 0..HeapSize
    <3>1. m[h].size <= HeapSize BY <1>1
    <3> QED BY <1>2, <3>1
  <2> QED BY <1>7, <2>1, <2>2, <2>3 DEF Words, FreeSegment
<1>9. PICK l : l = [m EXCEPT ![rest] = r] OBVIOUS
<1>10. l \in [Blocks -> Words] /\ l[rest] = r /\ \A b \in Blocks \ {rest} : l[b] = m[b]
  BY <1>1, <1>4, <1>8, <1>9, WritesSegment
<1>11. got \in 0..HeapEnd
  <2>1. m[h].size <= HeapSize BY <1>1
  <2> QED BY <1>2, <2>1, HeapAssumption DEF HeapEnd
<1>12. n = [l EXCEPT ![h].baseAddr = got] BY <1>7, <1>9 DEF IsWrittenFront
<1>13. /\ n \in [Blocks -> Words] /\ \A b \in Blocks \ {h} : n[b] = l[b] /\ n[h].baseAddr = got
  BY <1>2, <1>10, <1>11, <1>12, WritesBase
<1>14. n[rest] = r /\ n[h].baseAddr = got
  <2>1. rest # h BY <1>2, <1>3
  <2> QED BY <1>2, <1>4, <1>10, <1>11, <1>12, <2>1, WritesBase
<1>15. /\ Keeps(m, n, F \ {h}) /\ Keeps(m, n, Bases(A))
       /\ \A a \in F \ {h} : n[a].size = m[a].size
  <2>1. \A b \in Blocks \ {h, rest} : n[b] = m[b] BY <1>10, <1>13
  <2>2. rest \notin F \ {h} BY <1>3, <1>5
  <2> QED BY <1>1, <1>6, <2>1, <2>2 DEF Keeps
<1>16. ListOK(rest, n, (F \ {h}) \cup {rest})
  <2>1. rest > h BY <1>2, <1>3
  <2>2. n[rest].baseAddr = rest /\ n[rest].next = m[h].next BY <1>8, <1>14
  <2> QED BY <1>1, <1>4, <1>5, <1>15, <2>1, <2>2, ReplaceFirst
<1>17. PICK G : G = (F \ {h}) \cup {rest} OBVIOUS
<1>18. /\ FreeOK(n, G) /\ UsedOK(n, A \cup {x}) /\ FreeNotUsed(n, G, A \cup {x})
       /\ Covered(n, G, A \cup {x}) /\ Parted(n, G, NULL)
  <2>1. n[rest].size = m[h].size - x.size /\ n[h].baseAddr = x.size BY <1>8, <1>14
  <2>2. rest = h + x.size /\ x.size \in Nat /\ x.size >= MEM_BLOCK_SIZE
        /\ x.size + MEM_BLOCK_SIZE <= m[h].size
    OBVIOUS
  <2> QED BY <1>4, <1>15, <1>17, <2>1, <2>2, TakeFront
<1> QED BY <1>13, <1>16, <1>17, <1>18 DEF HeapOK

-----------------------------------------------------------------------------
(* The invariant *)

HeapInv ==
  /\ mem \in [Blocks -> Words]
  /\ allocated \subseteq [base : Blocks, size : 1..HeapSize, request : Requests]
  /\ call \in [arg : Nat \cup {NULL}, ret : Nat \cup {NULL, BAD_POINTER}]
  /\ RefusesOnlyForCause
  /\ IF head = NULL THEN allocated = {} ELSE \E F : HeapOK(head, mem, F, allocated, NULL)

\* What the clients own lies in the heap and does not overlap.
LEMMA UsedApart ==
  ASSUME NEW m, NEW A, UsedOK(m, A)
  PROVE  /\ \A x \in A : H!Extent(x) \subseteq Extent(HeapStart, HeapSize)
         /\ \A x, y \in A : x # y => ~H!Overlap(x, y)
<1>1. \A x \in A : x.base \in Nat /\ x.size \in Nat BY BlockShape DEF UsedOK
<1>2. ASSUME NEW x \in A PROVE H!Extent(x) \subseteq Extent(HeapStart, HeapSize)
  <2>1. x.base >= HeapStart /\ x.base + x.size <= HeapEnd
    BY BlockShape, BoundsShape DEF UsedOK
  <2> QED BY <1>1, <2>1, HeapAssumption DEF H!Extent, Extent, HeapEnd
<1>3. ASSUME NEW x \in A, NEW y \in A, x # y PROVE ~H!Overlap(x, y)
  <2>1. x.base + x.size <= y.base \/ y.base + y.size <= x.base BY <1>3 DEF UsedOK
  <2> QED BY <1>1, <2>1 DEF H!Overlap, H!Extent
<1> QED BY <1>2, <1>3

\* Where no free segment fits no run of free blocks is long enough.
LEMMA NoRoom ==
  ASSUME NEW h, NEW m, NEW F, NEW A, HeapOK(h, m, F, A, NULL), NEW size \in Nat \ {0},
         \A a \in F : ~Fits(m[a], size), NEW b \in Blocks
  PROVE  LET need == Extent(b, SizeInBlocks(size) * MEM_BLOCK_SIZE)
         IN \/ ~(need \subseteq Extent(HeapStart, HeapSize))
            \/ \E x \in A : need \cap Extent(x.base, x.size) # {}
<1>1. /\ F \subseteq Blocks
      /\ \A a \in F : a \in Nat /\ a # NULL /\ m[a].size \in 1..HeapSize
      /\ \A x \in A : x.base \in Nat /\ x.size \in 1..HeapSize
  BY HeapNumbers
<1>2. PICK k, s : k = SizeInBlocks(size) /\ s = k * MEM_BLOCK_SIZE OBVIOUS
<1>3. /\ k \in Nat \ {0} /\ s \in Nat /\ s >= size /\ s > 0 /\ b \in Nat
      /\ MEM_BLOCK_SIZE \in Nat /\ MEM_BLOCK_SIZE > 0 /\ HeapSize \in Nat /\ HeapStart \in Nat
  BY <1>2, RoundsUp, BlockShape, HeapAssumption
<1> SUFFICES ASSUME Extent(b, s) \subseteq Extent(HeapStart, HeapSize),
                    \A x \in A : Extent(b, s) \cap Extent(x.base, x.size) = {}
             PROVE  FALSE
  BY <1>2
<1>4. \A w \in Extent(b, s) : \E a \in F : a <= w /\ w < a + m[a].size
  <2> TAKE w \in Extent(b, s)
  <2>1. w \in HeapStart .. HeapEnd - 1 /\ w \in Int
    <3>1. w \in Extent(HeapStart, HeapSize) OBVIOUS
    <3> QED BY <1>3, <3>1 DEF Extent, HeapEnd
  <2>2. Covered(m, F, A) BY DEF HeapOK
  <2>3. ~\E x \in A : x.base <= w /\ w < x.base + x.size
    <3> SUFFICES ASSUME NEW x \in A, x.base <= w, w < x.base + x.size PROVE FALSE OBVIOUS
    <3>1. w \in Extent(x.base, x.size) BY <1>1, <1>3, <2>1 DEF Extent
    <3> QED BY <3>1
  <2> QED BY <2>1, <2>2, <2>3 DEF Covered
<1>5. b \in Extent(b, s) BY <1>3 DEF Extent
<1>6. PICK a \in F : a <= b /\ b < a + m[a].size BY <1>4, <1>5
<1>7. a \in Nat /\ m[a].size \in Nat BY <1>1, <1>3
<1>8. b + s <= a + m[a].size
  <2> SUFFICES ASSUME a + m[a].size < b + s PROVE FALSE BY <1>3, <1>7
  <2>1. PICK w : w = a + m[a].size OBVIOUS
  <2>2. w \in Extent(b, s) /\ w \in Nat BY <1>3, <1>6, <1>7, <2>1 DEF Extent
  <2>3. PICK c \in F : c <= w /\ w < c + m[c].size BY <1>4, <2>2
  <2>4. c \in Nat /\ m[c].size \in Nat BY <1>1, <1>3
  <2>5. Parted(m, F, NULL) BY DEF HeapOK
  <2>6. CASE c = a BY <1>7, <2>1, <2>3, <2>6
  <2>7. CASE c < a
    <3>1. c + m[c].size < a BY <1>1, <2>5, <2>7 DEF Parted
    <3> QED BY <1>7, <2>1, <2>3, <2>4, <3>1
  <2>8. CASE a < c
    <3>1. a + m[a].size < c BY <1>1, <2>5, <2>8 DEF Parted
    <3> QED BY <1>7, <2>1, <2>3, <2>4, <3>1
  <2> QED BY <1>7, <2>4, <2>6, <2>7, <2>8
<1>9. s <= m[a].size /\ size <= m[a].size BY <1>3, <1>6, <1>7, <1>8
<1>10. k <= m[a].size \div MEM_BLOCK_SIZE BY <1>2, <1>3, <1>7, <1>9, BlocksFit
<1>11. Fits(m[a], size)
  <2>1. m[a].size \div MEM_BLOCK_SIZE \in Nat BY <1>3, <1>7, Division
  <2> QED BY <1>2, <1>3, <1>7, <1>9, <1>10, <2>1 DEF Fits
<1> QED BY <1>11

-----------------------------------------------------------------------------
(* A step of mem_alloc *)

\* What mem_alloc makes of the heap: it refuses, or it hands out one more segment.
Hands(request) ==
  \E x \in [base : Blocks, size : Nat, request : {request}] :
    /\ x \notin allocated /\ allocated' = allocated \cup {x}
    /\ call' = [arg |-> request, ret |-> x.base + SegmentOffset]

LEMMA Allocates ==
  ASSUME ~SplitsBehind, NEW request \in Requests, MemAlloc(request),
         NEW F, HeapOK(FirstHead, FirstMem, F, allocated, NULL)
  PROVE  /\ head' # NULL /\ \E G : HeapOK(head', mem', G, allocated', NULL)
         /\ \/ /\ UNCHANGED allocated
               /\ call' = [arg |-> request, ret |-> NULL]
               /\ \A a \in F : ~Fits(FirstMem[a], SizeWithHeader(request))
            \/ Hands(request)
<1>1. PICK h, m, q, size : /\ h = FirstHead /\ m = FirstMem /\ q = FreeList(h, m)
                           /\ size = SizeWithHeader(request)
  OBVIOUS
<1>2. HeapOK(h, m, F, allocated, NULL) BY <1>1
<1>3. /\ m \in [Blocks -> Words] /\ ListOK(h, m, F) /\ F \subseteq Blocks
      /\ Bases(allocated) \subseteq Blocks \ F
      /\ \A a \in F : a \in Nat /\ a # NULL /\ m[a].size \in 1..HeapSize
  BY <1>2, HeapNumbers
<1>4. Enumerates(q, F) BY <1>1, <1>3, FreeListEnumerates
<1>5. /\ Len(q) \in Nat /\ \A i \in 1..Len(q) : q[i] \in F /\ q[i] \in Nat /\ q[i] # NULL
      /\ Len(q) = 0 <=> F = {}
      /\ F # {} => h = q[1] /\ h \in F
      /\ \A i \in 1..Len(q) : m[q[i]].next = At(q, i + 1)
  BY <1>3, <1>4, ListOrder
<1>6. size \in Nat \ {0} BY <1>1, HeapAssumption DEF SizeWithHeader
<1>7. h # NULL
  <2>1. h \in Blocks \/ h = HeapEnd BY <1>3 DEF ListOK, FirstIn
  <2> QED BY <2>1, NullNoBlock
<1> DEFINE fit == {i \in 1..Len(q) : Fits(m[q[i]], size)}
           Taken(i) ==
             LET curr  == q[i]
                 prev  == At(q, i - 1)
                 seg   == m[curr]
                 got   == AllocatedSize(seg, size)
                 rest  == seg.baseAddr + got
                 split == [m EXCEPT ![rest] = FreeSegment(rest, seg.size - got, seg.next)]
                 n     == IF IsExact(seg, size)
                          THEN IF prev = NULL THEN m ELSE Remove(m, prev)
                          ELSE IF prev = NULL THEN split ELSE Add(Remove(split, prev), prev, curr)
             IN /\ prev = NULL \/ IsExact(seg, size)
                /\ head' = IF prev # NULL THEN h
                           ELSE IF ~IsExact(seg, size) THEN rest
                           ELSE IF seg.next = NULL THEN HeapEnd ELSE seg.next
                /\ mem' = [n EXCEPT ![seg.baseAddr].baseAddr = got]
                /\ allocated' = allocated \cup
                                  {[base |-> seg.baseAddr, size |-> got, request |-> request]}
                /\ call' = [arg |-> request, ret |-> seg.baseAddr + SegmentOffset]
<1>8. \/ fit = {} /\ head' = h /\ mem' = m /\ UNCHANGED allocated
                  /\ call' = [arg |-> request, ret |-> NULL]
      \/ \E i \in fit : Taken(i)
  BY <1>1 DEF MemAlloc
<1>9. CASE /\ fit = {} /\ head' = h /\ mem' = m /\ UNCHANGED allocated
           /\ call' = [arg |-> request, ret |-> NULL]
  <2>1. \A a \in F : ~Fits(m[a], size) BY <1>4, <1>9 DEF Enumerates
  <2>2. HeapOK(head', mem', F, allocated', NULL) BY <1>2, <1>9
  <2> QED BY <1>1, <1>7, <1>9, <2>1, <2>2
<1>10. ASSUME NEW i \in fit, Taken(i)
       PROVE  /\ head' # NULL /\ \E G : HeapOK(head', mem', G, allocated', NULL)
              /\ Hands(request)
  <2>1. i \in 1..Len(q) /\ Fits(m[q[i]], size) /\ i \in Nat BY <1>5
  <2>2. PICK curr, prev : curr = q[i] /\ prev = At(q, i - 1) OBVIOUS
  <2>3. PICK seg : seg = m[curr] OBVIOUS
  <2>4. PICK got : got = AllocatedSize(seg, size) OBVIOUS
  <2>5. curr \in F /\ curr \in Nat /\ curr # NULL /\ curr \in Blocks /\ seg \in Words
    BY <1>3, <1>5, <2>1, <2>2, <2>3
  <2>6. seg.baseAddr = curr /\ Fits(seg, size) BY <1>3, <2>1, <2>2, <2>3, <2>5 DEF ListOK
  <2>7. \/ prev = NULL /\ curr = h
        \/ prev \in F /\ prev # NULL /\ m[prev].next = curr
    <3>1. CASE i = 1
      <4>1. At(q, i - 1) = NULL BY <3>1 DEF At
      <4>2. F # {} BY <2>5
      <4> QED BY <1>5, <2>2, <3>1, <4>1, <4>2
    <3>2. CASE i # 1
      <4>1. i - 1 \in 1..Len(q) /\ (i - 1) + 1 = i BY <1>5, <2>1, <3>2
      <4>2. At(q, i - 1) = q[i - 1] /\ At(q, i) = q[i] BY <2>1, <4>1 DEF At
      <4>3. m[q[i - 1]].next = At(q, i) BY <1>5, <4>1
      <4> QED BY <1>5, <2>2, <4>1, <4>2, <4>3
    <3> QED BY <3>1, <3>2
  <2>8. PICK x : x = [base |-> curr, size |-> got, request |-> request] OBVIOUS
  <2>9. x.base = curr /\ x.size = got /\ x.request = request BY <2>8
  <2>10. x \notin allocated BY <1>3, <2>5, <2>9 DEF Bases
  <2>11. allocated' = allocated \cup {x} /\ call' = [arg |-> request, ret |-> x.base + SegmentOffset]
    BY <1>10, <2>2, <2>3, <2>4, <2>6, <2>8, <2>9
  <2>12. got \in Nat
    <3>1. seg.size \in Nat BY <1>3, <2>3, <2>5, HeapAssumption
    <3>2. PICK k : k = SizeInBlocks(size) OBVIOUS
    <3>3. k * MEM_BLOCK_SIZE \in Nat BY <1>6, <2>5, <2>6, <3>2, FitsExactlyOrMore
    <3> QED BY <2>4, <3>1, <3>2, <3>3 DEF AllocatedSize
  <2>13. Hands(request)
    <3>1. x \in [base : Blocks, size : Nat, request : {request}] BY <2>5, <2>8, <2>12
    <3> QED BY <2>10, <2>11, <3>1 DEF Hands
  <2>14. CASE IsExact(seg, size)
    <3>1. got = m[curr].size BY <2>3, <2>4, <2>14 DEF AllocatedSize
    <3>2. IsWrittenWhole(mem', m, prev, curr, got)
      BY <1>10, <2>2, <2>3, <2>4, <2>6, <2>14 DEF IsWrittenWhole
    <3>3. HeapOK(IF prev # NULL THEN h ELSE IF m[h].next = NULL THEN HeapEnd ELSE m[h].next,
                 mem', F \ {curr}, allocated \cup {x}, NULL)
      BY <1>2, <2>5, <2>7, <2>9, <3>1, <3>2, TakenWhole
    <3>4. head' = IF prev # NULL THEN h ELSE IF m[h].next = NULL THEN HeapEnd ELSE m[h].next
      BY <1>10, <2>2, <2>3, <2>7, <2>14
    <3>5. head' # NULL BY <1>7, <3>4, NullNoBlock
    <3> QED BY <2>11, <2>13, <3>3, <3>4, <3>5
  <2>15. CASE ~IsExact(seg, size)
    <3>1. PICK k : k = SizeInBlocks(size) OBVIOUS
    <3>2. /\ k \in Nat \ {0} /\ got = k * MEM_BLOCK_SIZE /\ got \in Nat
          /\ got >= MEM_BLOCK_SIZE /\ got + MEM_BLOCK_SIZE <= seg.size
      BY <1>6, <2>4, <2>5, <2>6, <2>15, <3>1, FitsExactlyOrMore
    <3>3. prev = NULL /\ curr = h BY <1>10, <2>2, <2>3, <2>7, <2>15
    <3>4. PICK rest : rest = h + got OBVIOUS
    <3>5. IsWrittenFront(mem', m, h, got, rest)
      BY <1>10, <2>2, <2>3, <2>4, <2>6, <2>15, <3>3, <3>4 DEF IsWrittenFront
    <3>6. HeapOK(rest, mem', (F \ {h}) \cup {rest}, allocated \cup {x}, NULL)
      <4>1. h \in F /\ x.base = h /\ got + MEM_BLOCK_SIZE <= m[h].size
        BY <2>3, <2>5, <2>9, <3>2, <3>3
      <4> QED BY <1>2, <2>9, <3>2, <3>4, <3>5, <4>1, TakenFront
    <3>7. head' = rest BY <1>10, <2>2, <2>3, <2>4, <2>6, <2>15, <3>3, <3>4
    <3>8. head' # NULL
      <4>1. rest \in Nat BY <2>5, <3>2, <3>3, <3>4
      <4> QED BY <3>7, <4>1, HeapAssumption
    <3> QED BY <2>11, <2>13, <3>6, <3>7, <3>8
  <2> QED BY <2>14, <2>15
<1> QED
  <2> HIDE DEF fit, Taken
  <2> QED BY <1>8, <1>9, <1>10

-----------------------------------------------------------------------------
(* A step of mem_free *)

\* What mem_free makes of the heap: it reports a pointer that no client has from mem_alloc,
\* or it takes back one segment.
Refuses(pointer) ==
  /\ UNCHANGED <<head, mem, allocated>>
  /\ call' = [arg |-> pointer, ret |-> BAD_POINTER]
  /\ \A x \in allocated : x.base + SegmentOffset # pointer

TakesBack(pointer) ==
  /\ allocated' \subseteq allocated
  /\ call' = [arg |-> pointer, ret |-> 0]

LEMMA OthersRefused ==
  ASSUME NEW p \in Pointers, MemFree(p), \A x \in allocated : x.base + SegmentOffset # p
  PROVE  Refuses(p) /\ p \in Nat \cup {NULL}
<1>1. p \in {NULL, HeapStart - 1, HeapStart + SegmentOffset + 1} BY DEF Pointers
<1>2. /\ HeapStart \in Nat /\ SegmentOffset \in Nat /\ MEM_BLOCK_SIZE \in Nat
      /\ MEM_BLOCK_SIZE >= 3 /\ SegmentOffset > 0 /\ HeapStart >= MEM_BLOCK_SIZE
  BY HeapAssumption
<1>3. p = NULL \/ ~IsStartOfBlock(p - SegmentOffset)
  <2>1. CASE p = HeapStart - 1 BY <1>2, <2>1 DEF IsStartOfBlock
  <2>2. CASE p = HeapStart + SegmentOffset + 1
    <3>1. (p - SegmentOffset) - HeapStart = 1 BY <1>2, <2>2
    <3>2. (1 % MEM_BLOCK_SIZE) = 1
      <4>1. 1 = 0 * MEM_BLOCK_SIZE + 1 BY <1>2
      <4> QED BY <1>2, <4>1
    <3> QED BY <3>1, <3>2 DEF IsStartOfBlock
  <2> QED BY <1>1, <2>1, <2>2
<1>4. p \in Nat \cup {NULL} BY <1>1, <1>2
<1> QED BY <1>3, <1>4 DEF MemFree, Refuses

LEMMA TakenBack ==
  ASSUME NEW F, HeapOK(head, mem, F, allocated, NULL), NEW x \in allocated, NEW p,
         p = x.base + SegmentOffset, MemFree(p)
  PROVE  /\ head' # NULL /\ \E G : HeapOK(head', mem', G, allocated', NULL)
         /\ TakesBack(p) /\ p \in Nat
<1>1. /\ mem \in [Blocks -> Words] /\ ListOK(head, mem, F) /\ F \subseteq Blocks
      /\ Bases(allocated) \subseteq Blocks \ F
      /\ \A a \in F : a \in Nat /\ a # NULL /\ mem[a].size \in 1..HeapSize
      /\ \A y \in allocated : y.base \in Nat /\ y.size \in 1..HeapSize /\ y.base + y.size <= HeapEnd
  BY HeapNumbers
<1>2. UsedOK(mem, allocated) BY DEF HeapOK
<1>3. PICK base, size, q : base = x.base /\ size = x.size /\ q = FreeList(head, mem) OBVIOUS
<1>4. PICK n : n = Cardinality({i \in 1..Len(q) : mem[q[i]].baseAddr < base}) OBVIOUS
<1>5. PICK prev, curr : prev = At(q, n) /\ curr = At(q, n + 1) OBVIOUS
<1>6. /\ base \in Blocks /\ base \notin F /\ base \in Nat /\ size \in Nat /\ size > 0
      /\ base + size <= HeapEnd /\ mem[base].baseAddr = size /\ size >= MEM_BLOCK_SIZE
  BY <1>1, <1>2, <1>3 DEF Bases, UsedOK
<1>7. p - SegmentOffset = base /\ p \in Nat
  <2>1. SegmentOffset \in Nat BY HeapAssumption
  <2> QED BY <1>3, <1>6, <2>1
<1>8. ~(p = NULL \/ ~IsStartOfBlock(base) \/ ~IsSegment(base, size))
  <2>1. p # NULL BY <1>7, HeapAssumption
  <2>2. IsStartOfBlock(base) BY <1>6, BlockShape DEF IsStartOfBlock
  <2>3. IsSegment(base, size) BY <1>6, HeapAssumption DEF IsSegment, HeapEnd
  <2> QED BY <2>1, <2>2, <2>3
<1>9. /\ head' = IF prev = NULL THEN base ELSE head
      /\ mem' = IF head = HeapEnd THEN [mem EXCEPT ![base] = FreeSegment(base, size, NULL)]
                ELSE Linked(prev, curr, base, size)
      /\ allocated' = {y \in allocated : y.base # base}
      /\ call' = [arg |-> p, ret |-> 0]
  BY <1>3, <1>4, <1>5, <1>6, <1>7, <1>8 DEF MemFree
<1>10. Enumerates(q, F) BY <1>1, <1>3, FreeListEnumerates
<1>11. Around(head, mem, F, base, prev, curr)
  <2>1. PICK S : S = {i \in 1..Len(q) : mem[q[i]].baseAddr < base} OBVIOUS
  <2>2. n = Cardinality(S) BY <1>4, <2>1
  <2>3. Around(head, mem, F, base, At(q, n), At(q, n + 1))
    BY <1>1, <1>6, <1>10, <2>1, <2>2, AroundBase
  <2> QED BY <1>5, <2>3
<1>12. mem' = Linked(prev, curr, base, size)
  <2>1. CASE head = HeapEnd
    <3>1. F = {} BY <1>1, <2>1, FirstBlock DEF ListOK, FirstIn
    <3>2. prev = NULL /\ curr = NULL BY <1>11, <3>1 DEF Around
    <3> QED BY <1>9, <2>1, <3>2 DEF Linked, MergeRight
  <2>2. CASE head # HeapEnd BY <1>9, <2>2
  <2> QED BY <2>1, <2>2
<1>13. allocated' = allocated \ {x}
  <2>1. \A y \in allocated \ {x} : y.base # base
    <3> TAKE y \in allocated \ {x}
    <3>1. y.base + y.size <= base \/ base + size <= y.base BY <1>2, <1>3 DEF UsedOK
    <3>2. y.size \in Nat /\ y.size > 0 /\ y.base \in Nat BY <1>1
    <3> QED BY <1>6, <3>1, <3>2
  <2> QED BY <1>3, <1>9, <2>1
<1>14. \E G : HeapOK(head', mem', G, allocated', NULL)
  <2>1. Around(head, mem, F, x.base, prev, curr) BY <1>3, <1>11
  <2>2. \E G : HeapOK(IF prev = NULL THEN x.base ELSE head,
                      Linked(prev, curr, x.base, x.size), G, allocated \ {x}, NULL)
    BY <2>1, Relinked
  <2> QED BY <1>3, <1>9, <1>12, <1>13, <2>2
<1>15. head' # NULL
  <2>1. head \in Blocks \/ head = HeapEnd BY <1>1 DEF ListOK, FirstIn
  <2> QED BY <1>6, <1>9, <2>1, NullNoBlock
<1> QED BY <1>7, <1>9, <1>13, <1>14, <1>15 DEF TakesBack

-----------------------------------------------------------------------------
(* The invariant holds *)

LEMMA HeapInit == Init => HeapInv
<1> SUFFICES ASSUME Init PROVE HeapInv OBVIOUS
<1>1. FreeSegment(0, 0, NULL) \in Words BY HeapAssumption DEF FreeSegment, Words, HeapEnd
<1>2. mem \in [Blocks -> Words] BY <1>1 DEF Init
<1>3. call.arg = NULL /\ call.ret = NULL BY DEF Init
<1>4. NULL \notin Requests /\ NULL # BAD_POINTER
  <2>1. NULL \notin Int /\ \A r \in Requests : r \in Int BY HeapAssumption
  <2>2. NULL # BAD_POINTER BY HeapAssumption DEF BAD_POINTER
  <2> QED BY <2>1, <2>2, Zenon
<1>5. RefusesOnlyForCause BY <1>3, <1>4 DEF RefusesOnlyForCause
<1> QED BY <1>2, <1>5 DEF Init, HeapInv

\* A step of mem_alloc keeps the invariant; what it hands out was free.
LEMMA AllocKeeps ==
  ASSUME ~SplitsBehind, HeapInv, NEW request \in Requests, MemAlloc(request)
  PROVE  HeapInv' /\ H!Next
<1>1. /\ mem \in [Blocks -> Words]
      /\ allocated \subseteq [base : Blocks, size : 1..HeapSize, request : Requests]
      /\ IF head = NULL THEN allocated = {} ELSE \E F : HeapOK(head, mem, F, allocated, NULL)
  BY DEF HeapInv
<1>2. \E F : HeapOK(FirstHead, FirstMem, F, allocated, NULL)
  <2>1. CASE head = NULL BY <1>1, <2>1, FirstHeap
  <2>2. CASE head # NULL BY <1>1, <2>2 DEF FirstHead, FirstMem
  <2> QED BY <2>1, <2>2
<1>3. PICK F : HeapOK(FirstHead, FirstMem, F, allocated, NULL) BY <1>2
<1>4. /\ head' # NULL /\ \E G : HeapOK(head', mem', G, allocated', NULL)
      /\ \/ /\ UNCHANGED allocated
            /\ call' = [arg |-> request, ret |-> NULL]
            /\ \A a \in F : ~Fits(FirstMem[a], SizeWithHeader(request))
         \/ Hands(request)
  BY <1>3, Allocates
<1>5. PICK G : HeapOK(head', mem', G, allocated', NULL) BY <1>4
<1>6. mem' \in [Blocks -> Words] /\ UsedOK(mem', allocated') BY <1>5 DEF HeapOK
<1>7. request \in Nat BY HeapAssumption
<1>8. CASE /\ UNCHANGED allocated
           /\ call' = [arg |-> request, ret |-> NULL]
           /\ \A a \in F : ~Fits(FirstMem[a], SizeWithHeader(request))
  <2>1. call' \in [arg : Nat \cup {NULL}, ret : Nat \cup {NULL, BAD_POINTER}] BY <1>7, <1>8
  <2>2. call'.arg = request /\ call'.ret = NULL BY <1>8
  <2>3. SizeWithHeader(request) \in Nat \ {0} BY <1>7, HeapAssumption DEF SizeWithHeader
  <2>4. NULL # BAD_POINTER BY HeapAssumption DEF BAD_POINTER
  <2>5. \A b \in Blocks :
          LET need == Extent(b, SizeInBlocks(SizeWithHeader(request)) * MEM_BLOCK_SIZE)
          IN \/ ~(need \subseteq Extent(HeapStart, HeapSize))
             \/ \E x \in allocated : need \cap Extent(x.base, x.size) # {}
    BY <1>3, <1>8, <2>3, NoRoom
  <2>6. RefusesOnlyForCause' BY <1>8, <2>2, <2>4, <2>5 DEF RefusesOnlyForCause
  <2>7. H!Next BY <1>8 DEF H!Next, H!Free
  <2>8. allocated' \subseteq [base : Blocks, size : 1..HeapSize, request : Requests]
    BY <1>1, <1>8
  <2> QED BY <1>4, <1>6, <2>1, <2>6, <2>7, <2>8 DEF HeapInv
<1>9. CASE Hands(request)
  <2>1. PICK x \in [base : Blocks, size : Nat, request : {request}] :
          /\ x \notin allocated /\ allocated' = allocated \cup {x}
          /\ call' = [arg |-> request, ret |-> x.base + SegmentOffset]
    BY <1>9 DEF Hands
  <2>2. x.base + SegmentOffset \in Nat
    <3>1. x.base \in Nat BY BlockShape
    <3> QED BY <3>1, HeapAssumption
  <2>3. call' \in [arg : Nat \cup {NULL}, ret : Nat \cup {NULL, BAD_POINTER}] BY <1>7, <2>1, <2>2
  <2>4. RefusesOnlyForCause'
    <3>1. call'.ret \in Nat BY <2>1, <2>2
    <3>2. call'.ret # NULL /\ call'.ret # BAD_POINTER BY <3>1, HeapAssumption DEF BAD_POINTER
    <3> QED BY <3>2 DEF RefusesOnlyForCause
  <2>5. x \in allocated' BY <2>1
  <2>6. x.size \in 1..HeapSize BY <1>5, <2>5, HeapNumbers
  <2>7. x \in [base : Blocks, size : 1..HeapSize, request : Requests]
    <3>1. x = [base |-> x.base, size |-> x.size, request |-> x.request]
          /\ x.base \in Blocks /\ x.request \in Requests
      OBVIOUS
    <3> QED BY <2>6, <3>1
  <2>8. allocated' \subseteq [base : Blocks, size : 1..HeapSize, request : Requests]
    BY <1>1, <2>1, <2>7
  <2>9. H!Alloc
    <3>1. /\ \A y \in allocated' : H!Extent(y) \subseteq Extent(HeapStart, HeapSize)
          /\ \A y, z \in allocated' : y # z => ~H!Overlap(y, z)
      BY <1>6, UsedApart
    <3>2. \A y \in allocated : y \in allocated' /\ x # y BY <2>1
    <3> QED BY <2>1, <2>5, <3>1, <3>2 DEF H!Alloc
  <2> QED BY <1>4, <1>6, <2>3, <2>4, <2>8, <2>9 DEF HeapInv, H!Next
<1> QED BY <1>4, <1>8, <1>9

\* So does a step of mem_free.
LEMMA FreeKeeps ==
  ASSUME HeapInv, NEW p \in Pointers, MemFree(p)
  PROVE  HeapInv' /\ H!Next
<1>1. /\ mem \in [Blocks -> Words]
      /\ allocated \subseteq [base : Blocks, size : 1..HeapSize, request : Requests]
      /\ RefusesOnlyForCause
      /\ IF head = NULL THEN allocated = {} ELSE \E F : HeapOK(head, mem, F, allocated, NULL)
  BY DEF HeapInv
<1>2. NULL # BAD_POINTER /\ NULL # 0 /\ BAD_POINTER # 0 BY HeapAssumption DEF BAD_POINTER
<1>3. CASE \A x \in allocated : x.base + SegmentOffset # p
  <2>1. Refuses(p) /\ p \in Nat \cup {NULL} BY <1>3, OthersRefused
  <2>2. /\ UNCHANGED <<head, mem, allocated>> /\ call' = [arg |-> p, ret |-> BAD_POINTER]
    BY <2>1 DEF Refuses
  <2>3. call' \in [arg : Nat \cup {NULL}, ret : Nat \cup {NULL, BAD_POINTER}] BY <2>1, <2>2
  <2>4. call'.arg = p /\ call'.ret = BAD_POINTER BY <2>2
  <2>5. RefusesOnlyForCause' BY <1>2, <1>3, <2>2, <2>4 DEF RefusesOnlyForCause
  <2>6. H!Next BY <2>2 DEF H!Next, H!Free
  <2> QED BY <1>1, <2>2, <2>3, <2>5, <2>6 DEF HeapInv
<1>4. ASSUME NEW x \in allocated, x.base + SegmentOffset = p PROVE HeapInv' /\ H!Next
  <2>1. PICK F : HeapOK(head, mem, F, allocated, NULL) BY <1>1
  <2>2. /\ head' # NULL /\ \E G : HeapOK(head', mem', G, allocated', NULL)
        /\ TakesBack(p) /\ p \in Nat
    BY <1>4, <2>1, TakenBack
  <2>3. allocated' \subseteq allocated /\ call' = [arg |-> p, ret |-> 0]
    BY <2>2 DEF TakesBack
  <2>4. call' \in [arg : Nat \cup {NULL}, ret : Nat \cup {NULL, BAD_POINTER}] BY <2>2, <2>3
  <2>5. RefusesOnlyForCause' BY <1>2, <2>3 DEF RefusesOnlyForCause
  <2>6. H!Next BY <2>3 DEF H!Next, H!Free
  <2>7. mem' \in [Blocks -> Words] BY <2>2 DEF HeapOK
  <2> QED BY <1>1, <2>2, <2>3, <2>4, <2>5, <2>6, <2>7 DEF HeapInv
<1> QED BY <1>3, <1>4

\* The invariant is inductive, for clients that keep to the discipline.
THEOREM HeapInvariance == ASSUME ~SplitsBehind PROVE Spec => []HeapInv
<1>1. Init => HeapInv BY HeapInit
<1>2. HeapInv /\ [Next]_vars => HeapInv'
  <2> SUFFICES ASSUME HeapInv, [Next]_vars PROVE HeapInv' OBVIOUS
  <2>1. CASE Next BY <2>1, AllocKeeps, FreeKeeps DEF Next
  <2>2. CASE UNCHANGED vars
    <3>1. UNCHANGED <<head, mem, allocated, call>> BY <2>2 DEF vars
    <3> QED BY <3>1 DEF HeapInv, RefusesOnlyForCause
  <2> QED BY <2>1, <2>2
<1> QED BY <1>1, <1>2, PTL DEF Spec

-----------------------------------------------------------------------------
(* What the invariant says of the free list *)

\* No list starts at nullptr.
LEMMA NoListAtNull ==
  ASSUME NEW m \in [Blocks -> Words] PROVE FreeList(NULL, m) = <<>>
<1> DEFINE v == CHOOSE w : Walks(w, m)
<1>1. Walks(v, m)
  <2>1. \E w : Walks(w, m) BY WalkExists
  <2> QED BY <2>1
<1>2. FreeList(NULL, m) = v[Fuel][NULL] BY DEF FreeList, Walks, Fuel, Starts
<1> HIDE DEF v
<1>3. NULL \in Starts /\ NULL \notin Blocks /\ Fuel \in 0..Fuel
  BY NullNoBlock, FiniteBlocks DEF Starts, Fuel
<1>4. Unfolds(v, m) BY <1>1, WalkUnfolds
<1> QED BY <1>2, <1>3, <1>4 DEF Unfolds

LEMMA FreeNowEnumerates ==
  ASSUME NEW F, HeapOK(head, mem, F, allocated, NULL)
  PROVE  /\ Enumerates(FreeNow, F) /\ Len(FreeNow) \in Nat
         /\ \A i \in 1..Len(FreeNow) : FreeNow[i] \in F /\ mem[FreeNow[i]].baseAddr = FreeNow[i]
<1>1. mem \in [Blocks -> Words] /\ ListOK(head, mem, F) BY DEF HeapOK
<1>2. Enumerates(FreeNow, F) BY <1>1, FreeListEnumerates DEF FreeNow
<1>3. Len(FreeNow) \in Nat /\ \A i \in 1..Len(FreeNow) : FreeNow[i] \in F
  BY <1>2 DEF Enumerates
<1> QED BY <1>1, <1>2, <1>3 DEF ListOK

LEMMA HeapTyped == HeapInv => TypeOK
<1> SUFFICES ASSUME HeapInv PROVE TypeOK OBVIOUS
<1>1. head \in Blocks \cup {HeapEnd, NULL}
  <2>1. CASE head = NULL BY <2>1
  <2>2. CASE head # NULL
    <3>1. PICK F : HeapOK(head, mem, F, allocated, NULL) BY <2>2 DEF HeapInv
    <3> QED BY <3>1 DEF HeapOK, ListOK, FirstIn
  <2> QED BY <2>1, <2>2
<1> QED BY <1>1 DEF HeapInv, TypeOK, Words

LEMMA HeapCoalesced == HeapInv => Coalesced
<1> SUFFICES ASSUME HeapInv PROVE Coalesced OBVIOUS
<1>1. CASE head = NULL
  <2>1. FreeNow = <<>> BY <1>1, NoListAtNull DEF HeapInv, FreeNow
  <2>2. Len(FreeNow) = 0 BY <2>1
  <2> QED BY <2>2 DEF Coalesced
<1>2. CASE head # NULL
  <2>1. PICK F : HeapOK(head, mem, F, allocated, NULL) BY <1>2 DEF HeapInv
  <2>2. PICK q : q = FreeNow OBVIOUS
  <2>3. /\ Enumerates(q, F) /\ Len(q) \in Nat
        /\ \A i \in 1..Len(q) : q[i] \in F /\ mem[q[i]].baseAddr = q[i]
    BY <2>1, <2>2, FreeNowEnumerates
  <2>4. Parted(mem, F, NULL) /\ \A a \in F : a # NULL BY <2>1, HeapNumbers DEF HeapOK
  <2>5. ASSUME NEW i \in 1 .. Len(q) - 1
        PROVE  mem[q[i]].baseAddr + mem[q[i]].size < mem[q[i + 1]].baseAddr
    <3>1. i \in 1..Len(q) /\ i + 1 \in 1..Len(q) /\ i < i + 1 BY <2>3
    <3>2. q[i] < q[i + 1] BY <2>3, <3>1 DEF Enumerates
    <3>3. q[i] + mem[q[i]].size < q[i + 1] BY <2>3, <2>4, <3>1, <3>2 DEF Parted
    <3> QED BY <2>3, <3>1, <3>3
  <2> QED BY <2>2, <2>5 DEF Coalesced
<1> QED BY <1>1, <1>2

LEMMA HeapNothingLost == HeapInv => NothingLost
<1> SUFFICES ASSUME HeapInv, head # NULL PROVE NothingLost BY DEF NothingLost
<1>1. PICK F : HeapOK(head, mem, F, allocated, NULL) BY DEF HeapInv
<1>2. PICK q : q = FreeNow OBVIOUS
<1>3. /\ Enumerates(q, F) /\ Len(q) \in Nat
      /\ \A i \in 1..Len(q) : q[i] \in F /\ mem[q[i]].baseAddr = q[i]
  BY <1>1, <1>2, FreeNowEnumerates
<1>4. /\ \A a \in F : a \in Nat /\ a # NULL /\ mem[a].size \in 1..HeapSize
      /\ \A a \in F : a + mem[a].size <= HeapEnd
      /\ \A x \in allocated : x.base \in Nat /\ x.size \in 1..HeapSize
      /\ F \subseteq Blocks
  BY <1>1, HeapNumbers
<1>5. /\ Parted(mem, F, NULL) /\ FreeNotUsed(mem, F, allocated) /\ Covered(mem, F, allocated)
      /\ UsedOK(mem, allocated)
  BY <1>1 DEF HeapOK
<1>6. HeapStart \in Nat /\ HeapSize \in Nat /\ HeapEnd = HeapStart + HeapSize
  BY HeapAssumption DEF HeapEnd
<1> DEFINE Part(a) == Extent(a, mem[a].size)
           Free == {Extent(mem[q[i]].baseAddr, mem[q[i]].size) : i \in 1..Len(q)}
           Used == {Extent(x.base, x.size) : x \in allocated}
<1>7. Free = {Part(a) : a \in F}
  <2>1. \A i \in 1..Len(q) : Extent(mem[q[i]].baseAddr, mem[q[i]].size) = Part(q[i]) BY <1>3
  <2>2. \A a \in F : \E i \in 1..Len(q) : q[i] = a BY <1>3 DEF Enumerates
  <2> HIDE DEF Part
  <2> QED BY <1>3, <2>1, <2>2
<1>8. \A a \in F : mem[a].size \in Nat /\ mem[a].size > 0 BY <1>4, <1>6
<1>9. \A x \in allocated : x.size \in Nat /\ x.size > 0 BY <1>4, <1>6
<1>10. \A a \in F : \A w : w \in Part(a) <=> w \in Int /\ a <= w /\ w < a + mem[a].size
  BY <1>4, <1>8 DEF Extent
<1>11. \A x \in allocated : \A w :
         w \in Extent(x.base, x.size) <=> w \in Int /\ x.base <= w /\ w < x.base + x.size
  BY <1>4, <1>9 DEF Extent
<1>12. \A w : w \in Extent(HeapStart, HeapSize) <=> w \in HeapStart .. HeapEnd - 1
  BY <1>6 DEF Extent
<1>13. UNION (Free \cup Used) = Extent(HeapStart, HeapSize)
  <2>1. ASSUME NEW w \in Extent(HeapStart, HeapSize) PROVE w \in UNION (Free \cup Used)
    <3>1. w \in HeapStart .. HeapEnd - 1 /\ w \in Int BY <1>6, <1>12
    <3>2. \/ \E a \in F : a <= w /\ w < a + mem[a].size
          \/ \E x \in allocated : x.base <= w /\ w < x.base + x.size
      BY <1>5, <3>1 DEF Covered
    <3>3. CASE \E a \in F : a <= w /\ w < a + mem[a].size
      <4>1. PICK a \in F : w \in Part(a) BY <1>10, <3>1, <3>3
      <4> QED BY <1>7, <4>1
    <3>4. CASE \E x \in allocated : x.base <= w /\ w < x.base + x.size
      <4>1. PICK x \in allocated : w \in Extent(x.base, x.size) BY <1>11, <3>1, <3>4
      <4> QED BY <4>1
    <3> QED BY <3>2, <3>3, <3>4
  <2>2. \A a \in F : Part(a) \subseteq Extent(HeapStart, HeapSize)
    <3> TAKE a \in F
    <3>1. a >= HeapStart /\ a + mem[a].size <= HeapEnd BY <1>4, BlockShape
    <3>2. a \in Nat /\ mem[a].size \in Nat BY <1>4, <1>8
    <3> QED BY <1>6, <3>1, <3>2 DEF Extent
  <2>3. \A x \in allocated : Extent(x.base, x.size) \subseteq Extent(HeapStart, HeapSize)
    BY <1>5, UsedApart DEF H!Extent, Extent
  <2>4. \A s \in Free \cup Used : s \subseteq Extent(HeapStart, HeapSize)
    <3> HIDE DEF Part
    <3> QED BY <1>7, <2>2, <2>3
  <2> HIDE DEF Free, Used
  <2> QED BY <2>1, <2>4
<1>14. \A a, b \in F : a # b => Part(a) \cap Part(b) = {}
  <2> TAKE a, b \in F
  <2> HAVE a # b
  <2>1. a \in Nat /\ b \in Nat /\ a # NULL /\ b # NULL /\ mem[a].size \in Nat /\ mem[b].size \in Nat
    BY <1>4, <1>8
  <2>2. a + mem[a].size < b \/ b + mem[b].size < a
    <3>1. a < b \/ b < a BY <2>1
    <3> QED BY <1>5, <2>1, <3>1 DEF Parted
  <2> QED BY <2>1, <2>2 DEF Extent
<1>15. \A s, t \in Free \cup Used : s # t => s \cap t = {}
  <2>1. \A a \in F, x \in allocated : Part(a) \cap Extent(x.base, x.size) = {}
    <3> TAKE a \in F, x \in allocated
    <3>1. x.base + x.size <= a \/ a + mem[a].size <= x.base BY <1>5 DEF FreeNotUsed
    <3>2. a \in Nat /\ mem[a].size \in Nat /\ x.base \in Nat /\ x.size \in Nat
      BY <1>4, <1>8, <1>9
    <3> QED BY <3>1, <3>2 DEF Extent
  <2>2. \A x, y \in allocated : x # y => Extent(x.base, x.size) \cap Extent(y.base, y.size) = {}
    BY <1>5, UsedApart DEF H!Overlap, H!Extent, Extent
  <2>3. \A s \in Free : \E a \in F : s = Part(a) BY <1>7
  <2>4. \A s \in Used : \E x \in allocated : s = Extent(x.base, x.size) OBVIOUS
  <2> HIDE DEF Part, Free, Used
  <2>5. \A s, t \in Free : s # t => s \cap t = {} BY <1>14, <2>3
  <2>6. \A s, t \in Used : s # t => s \cap t = {} BY <2>2, <2>4
  <2>7. \A s \in Free, t \in Used : s \cap t = {} /\ t \cap s = {}
    <3> TAKE s \in Free, t \in Used
    <3>1. PICK a \in F : s = Part(a) BY <2>3
    <3>2. PICK x \in allocated : t = Extent(x.base, x.size) BY <2>4
    <3>3. s \cap t = {} BY <2>1, <3>1, <3>2
    <3> QED BY <3>3
  <2> QED BY <2>5, <2>6, <2>7
<1>16. Cardinality(Free) = Len(q)
  <2> DEFINE f == [i \in 1..Len(q) |-> Part(q[i])]
  <2>1. f \in [1..Len(q) -> Free]
    <3>1. \A i \in 1..Len(q) : Part(q[i]) \in Free BY <1>3, <1>7
    <3> HIDE DEF Part, Free
    <3> QED BY <3>1
  <2>2. \A s \in Free : \E i \in 1..Len(q) : f[i] = s
    <3> TAKE s \in Free
    <3>1. PICK a \in F : s = Part(a) BY <1>7
    <3>2. PICK i \in 1..Len(q) : q[i] = a BY <1>3 DEF Enumerates
    <3> HIDE DEF Part, Free
    <3>3. f[i] = s BY <3>1, <3>2
    <3> QED BY <3>3
  <2>3. \A i, j \in 1..Len(q) : f[i] = f[j] => i = j
    <3> SUFFICES ASSUME NEW i \in 1..Len(q), NEW j \in 1..Len(q), Part(q[i]) = Part(q[j]), i # j
                 PROVE  FALSE
      OBVIOUS
    <3>1. q[i] \in F /\ q[j] \in F BY <1>3
    <3>2. q[i] # q[j]
      <4>1. i < j \/ j < i BY <1>3
      <4>2. q[i] < q[j] \/ q[j] < q[i] BY <1>3, <4>1 DEF Enumerates
      <4>3. q[i] \in Nat /\ q[j] \in Nat BY <1>4, <3>1
      <4> QED BY <4>2, <4>3
    <3>3. Part(q[i]) \cap Part(q[j]) = {} BY <1>14, <3>1, <3>2
    <3>4. q[i] \in Part(q[i]) BY <1>4, <1>8, <1>10, <3>1
    <3> HIDE DEF Part
    <3> QED BY <3>3, <3>4
  <2> HIDE DEF f
  <2>4. f \in Bijection(1..Len(q), Free)
    <3> HIDE DEF Free
    <3> QED BY <2>1, <2>2, <2>3 DEF Bijection, Injection, Surjection, IsInjective
  <2>5. ExistsBijection(1..Len(q), Free) BY <2>4 DEF ExistsBijection
  <2>6. IsFiniteSet(1..Len(q)) /\ Cardinality(1..Len(q)) = Len(q)
    <3>1. PICK N : N = Len(q) OBVIOUS
    <3>2. 1 \in Int /\ N \in Int /\ N \in Nat BY <1>3, <3>1
    <3>3. IsFiniteSet(1..N) /\ Cardinality(1..N) = IF 1 > N THEN 0 ELSE N - 1 + 1
      BY <3>2, FS_Interval, Zenon
    <3>4. (IF 1 > N THEN 0 ELSE N - 1 + 1) = N BY <3>2
    <3> QED BY <3>1, <3>3, <3>4
  <2> HIDE DEF Free
  <2> QED BY <2>5, <2>6, FS_Bijection, Zenon
<1> HIDE DEF Free, Used
<1>17. LET R == {Extent(mem[FreeNow[i]].baseAddr, mem[FreeNow[i]].size) : i \in 1..Len(FreeNow)}
           U == {Extent(x.base, x.size) : x \in allocated}
       IN R = Free /\ U = Used
  BY <1>2 DEF Free, Used
<1> QED BY <1>2, <1>13, <1>15, <1>16, <1>17 DEF NothingLost

-----------------------------------------------------------------------------
(* The properties *)

\* Every word is of the kind its use needs.
THEOREM HeapTypeCorrect == ASSUME ~SplitsBehind PROVE Spec => []TypeOK
BY HeapInvariance, HeapTyped, PTL

\* The free segments and the ones the clients own make up the heap, each word once
\* (MemoryAllocator.h:43).
THEOREM NothingLostCorrect == ASSUME ~SplitsBehind PROVE Spec => []NothingLost
BY HeapInvariance, HeapNothingLost, PTL

\* The free list stays in the order of the addresses and no two of its segments touch
\* (MemoryAllocator.h:24).
THEOREM CoalescedCorrect == ASSUME ~SplitsBehind PROVE Spec => []Coalesced
BY HeapInvariance, HeapCoalesced, PTL

\* mem_alloc refuses only when no run of free blocks is long enough, mem_free only what no
\* client has from mem_alloc (MemoryAllocator.cpp:24, :74).
THEOREM RefusalsCorrect == ASSUME ~SplitsBehind PROVE Spec => []RefusesOnlyForCause
<1>1. HeapInv => RefusesOnlyForCause BY DEF HeapInv
<1> QED BY <1>1, HeapInvariance, PTL

\* The first-fit allocator implements the abstract one: what mem_alloc hands out overlaps
\* nothing a client has, mem_free only gives back (MemoryAllocator.cpp:4-137).
THEOREM FirstFitImplementsHeap == ASSUME ~SplitsBehind PROVE Spec => ImplementsHeap
<1>1. Init => H!Init BY DEF Init, H!Init
<1>2. HeapInv /\ [Next]_vars => [H!Next]_allocated
  <2> SUFFICES ASSUME HeapInv, [Next]_vars PROVE [H!Next]_allocated OBVIOUS
  <2>1. CASE Next BY <2>1, AllocKeeps, FreeKeeps DEF Next
  <2>2. CASE UNCHANGED vars BY <2>2 DEF vars
  <2> QED BY <2>1, <2>2
<1> QED BY <1>1, <1>2, HeapInvariance, PTL DEF Spec, ImplementsHeap, H!Spec

\* No two clients have the same word of the heap (MemoryAllocator.cpp:4-67).
THEOREM FirstFitDisjoint == ASSUME ~SplitsBehind PROVE Spec => []H!SegmentsDisjoint
<1>1. HeapInv => H!SegmentsDisjoint
  <2> SUFFICES ASSUME HeapInv PROVE H!SegmentsDisjoint OBVIOUS
  <2>1. CASE head = NULL BY <2>1 DEF HeapInv, H!SegmentsDisjoint
  <2>2. CASE head # NULL
    <3>1. PICK F : HeapOK(head, mem, F, allocated, NULL) BY <2>2 DEF HeapInv
    <3>2. UsedOK(mem, allocated) BY <3>1 DEF HeapOK
    <3> QED BY <3>2, UsedApart DEF H!SegmentsDisjoint
  <2> QED BY <2>1, <2>2
<1> QED BY <1>1, HeapInvariance, PTL

\* What a client owns is not on the free list, for clients that keep to the discipline
\* (MemoryAllocator.h:43).
THEOREM OwnedOffList == ASSUME ~SplitsBehind PROVE Spec => []FreeListIsFree
<1>1. HeapInv => FreeListIsFree
  <2> SUFFICES ASSUME HeapInv, NEW x \in allocated, NEW i \in 1..Len(FreeNow)
               PROVE  FreeNow[i] # x.base
    BY DEF FreeListIsFree
  <2>1. PICK F : HeapOK(head, mem, F, allocated, NULL) BY DEF HeapInv
  <2>2. FreeNow[i] \in F BY <2>1, FreeNowEnumerates
  <2>3. x.base \in Bases(allocated) /\ Bases(allocated) \subseteq Blocks \ F
    BY <2>1, HeapNumbers DEF Bases
  <2> QED BY <2>2, <2>3
<1> QED BY <1>1, HeapInvariance, PTL
=============================================================================
