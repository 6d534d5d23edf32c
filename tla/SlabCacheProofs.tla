--------------------------- MODULE SlabCacheProofs ---------------------------
(***************************************************************************)
(* Theorems about SlabCache and the buddy allocator under it, for any      *)
(* number of levels, caches, slots and objects.                            *)
(***************************************************************************)
EXTENDS SlabLinks, BuddyAllocatorProofs

-----------------------------------------------------------------------------
(* Giving back several blocks *)

LEMMA ConcatDistinct ==
  ASSUME NEW S, NEW q \in Seq(S), NEW r \in Seq(S), Distinct(q), Distinct(r),
         Members(q) \cap Members(r) = {}
  PROVE  Distinct(q \o r)
<1>0. PICK u : u = q \o r OBVIOUS
<1>1. u \in Seq(S) /\ Len(u) = Len(q) + Len(r) BY <1>0
<1>2. \A i \in 1..Len(u) :
        \/ i \in 1..Len(q) /\ u[i] = q[i]
        \/ i - Len(q) \in 1..Len(r) /\ u[i] = r[i - Len(q)]
  BY <1>0, <1>1
<1>3. Distinct(u)
  <2> SUFFICES ASSUME NEW i \in 1..Len(u), NEW j \in 1..Len(u), u[i] = u[j]
               PROVE  i = j
    BY DEF Distinct
  <2>1. CASE i \in 1..Len(q) /\ u[i] = q[i] /\ j \in 1..Len(q) /\ u[j] = q[j]
    BY <2>1 DEF Distinct
  <2>2. CASE /\ i - Len(q) \in 1..Len(r) /\ u[i] = r[i - Len(q)]
             /\ j - Len(q) \in 1..Len(r) /\ u[j] = r[j - Len(q)]
    <3>1. i - Len(q) = j - Len(q) BY <2>2 DEF Distinct
    <3> QED BY <3>1
  <2>3. CASE /\ i \in 1..Len(q) /\ u[i] = q[i]
             /\ j - Len(q) \in 1..Len(r) /\ u[j] = r[j - Len(q)]
    BY <2>3 DEF Members
  <2>4. CASE /\ i - Len(q) \in 1..Len(r) /\ u[i] = r[i - Len(q)]
             /\ j \in 1..Len(q) /\ u[j] = q[j]
    BY <2>4 DEF Members
  <2> QED BY <1>2, <2>1, <2>2, <2>3, <2>4
<1> QED BY <1>0, <1>3

\* The blocks that are owned when those at the first n places of q have been given back.
OwnedAfter(q, n) == {x \in allocated : \A i \in 1..n : x.base # q[i]}

\* The lists after each of the calls.
Freeing(after, q) ==
  after = [n \in 0..Len(q) |-> IF n = 0 THEN buddy ELSE Freed(after[n - 1], q[n], DeallocLevel)]

\* The block at place n + 1 of q is given back.
LEMMA FreeNext ==
  ASSUME NEW q \in Seq(Nat), Distinct(q),
         \A s \in Members(q) : \E x \in allocated : x.base = s,
         NEW n \in Nat, n < Len(q), NEW lists, BuddyOK(lists, OwnedAfter(q, n))
  PROVE  BuddyOK(Freed(lists, q[n + 1], DeallocLevel), OwnedAfter(q, n + 1))
<1>1. Len(q) \in Nat /\ n + 1 \in 1..Len(q) OBVIOUS
<1>2. PICK x \in allocated : x.base = q[n + 1] BY <1>1 DEF Members
<1>3. \A i \in 1..n : q[i] # q[n + 1]
  <2> TAKE i \in 1..n
  <2>1. i \in 1..Len(q) /\ i # n + 1 BY <1>1
  <2> QED BY <1>1, <2>1 DEF Distinct
<1>4. x \in OwnedAfter(q, n) BY <1>2, <1>3 DEF OwnedAfter
<1>5. OwnedAfter(q, n) \ {x} = OwnedAfter(q, n + 1)
  <2>1. \A y \in OwnedAfter(q, n) : y # x => y.base # q[n + 1]
    BY <1>2, <1>4, OwnedBases DEF BuddyOK
  <2>2. 1 .. n + 1 = (1..n) \cup {n + 1} OBVIOUS
  <2>3. ASSUME NEW y \in allocated
        PROVE  y \in OwnedAfter(q, n) \ {x} <=> y \in OwnedAfter(q, n + 1)
    BY <1>2, <1>4, <2>1, <2>2 DEF OwnedAfter
  <2> QED BY <2>3 DEF OwnedAfter
<1>6. DeallocLevel \in Levels /\ DeallocLevel <= x.level
  <2>1. IsBlock(x.base, x.level) BY <1>4 DEF BuddyOK, OwnedOK
  <2>2. x.level \in Nat \ {0} /\ x.level <= maxPowerSize BY <2>1, BlockNumbers
  <2> QED BY <2>2, MaxPowerSizeAssumption DEF DeallocLevel, Levels
<1>7. PICK owned : owned = OwnedAfter(q, n) OBVIOUS
<1>8. BuddyOK(Freed(lists, x.base, DeallocLevel), owned \ {x})
  BY <1>4, <1>6, <1>7, FreedKeeps
<1> QED BY <1>2, <1>5, <1>7, <1>8

\* Whatever the order, the blocks that are left are as they were and the rest is merged.
LEMMA FreedAllKeeps ==
  ASSUME BuddyInv, NEW q \in Seq(Nat), Distinct(q),
         \A s \in Members(q) : \E x \in allocated : x.base = s
  PROVE  BuddyOK(FreedAll(q), {x \in allocated : x.base \notin Members(q)})
<1> DEFINE OK(n, lists) == BuddyOK(lists, OwnedAfter(q, n))
           S == [Levels -> Seq(Nat)]
           call(n, x) == Freed(x, q[n + 1], DeallocLevel)
           step == [n \in Nat |-> [x \in S |->
                      IF n < Len(q) /\ call(n, x) \in S THEN call(n, x) ELSE x]]
<1>1. Len(q) \in Nat OBVIOUS
<1>2. OwnedAfter(q, 0) = allocated
  <2>1. 1..0 = {} OBVIOUS
  <2> QED BY <2>1 DEF OwnedAfter
<1>3. OK(0, buddy) /\ \A n \in Nat : \A lists : OK(n, lists) => lists \in S
  BY <1>2 DEF BuddyInv, BuddyOK, FreeOK
<1>4. ASSUME NEW n \in Nat, n < Len(q), NEW lists, OK(n, lists)
      PROVE  OK(n + 1, call(n, lists))
  BY <1>4, FreeNext
<1>5. PICK f : f \in [Nat -> S] /\ f[0] = buddy /\ \A n \in Nat : f[n + 1] = step[n][f[n]]
  <2>1. IsRecursion(S, buddy, step) BY <1>3 DEF IsRecursion
  <2> HIDE DEF step, S
  <2>2. \E f : Solves(f, S, buddy, step) BY <2>1, RecursiveFunction
  <2> QED BY <2>2 DEF Solves
<1>6. \A n \in Nat : n <= Len(q) => OK(n, f[n])
  <2> DEFINE T == {n \in Nat : n <= Len(q) => OK(n, f[n])}
  <2>1. 0 \in T BY <1>3, <1>5
  <2>2. ASSUME NEW n \in Nat, n \in T PROVE n + 1 \in T
    <3> SUFFICES ASSUME n + 1 <= Len(q) PROVE OK(n + 1, f[n + 1]) OBVIOUS
    <3>1. n < Len(q) /\ OK(n, f[n]) BY <1>1, <2>2
    <3>2. OK(n + 1, call(n, f[n])) BY <1>4, <3>1
    <3>3. call(n, f[n]) \in S BY <1>3, <3>2
    <3>4. f[n + 1] = call(n, f[n]) BY <1>5, <3>1, <3>3
    <3> QED BY <3>2, <3>4
  <2>3. \A n \in Nat : n \in T
    <3> HIDE DEF T
    <3> QED BY <2>1, <2>2, InductionFromZero
  <2> QED BY <2>3
<1>7. \A n \in Nat : n < Len(q) => f[n + 1] = call(n, f[n])
  <2> TAKE n \in Nat
  <2> HAVE n < Len(q)
  <2>1. OK(n, f[n]) BY <1>1, <1>6
  <2>2. call(n, f[n]) \in S BY <1>3, <1>4, <2>1
  <2> QED BY <1>5, <2>2
<1> HIDE DEF OK, S, step
<1> DEFINE g == [n \in 0..Len(q) |-> f[n]]
<1>8. Freeing(g, q)
  <2>1. \A n \in 0..Len(q) :
          g[n] = IF n = 0 THEN buddy ELSE Freed(g[n - 1], q[n], DeallocLevel)
    <3> TAKE n \in 0..Len(q)
    <3>1. CASE n = 0 BY <1>5, <3>1
    <3>2. CASE n # 0
      <4>1. n - 1 \in Nat /\ n - 1 < Len(q) /\ (n - 1) + 1 = n /\ n - 1 \in 0..Len(q)
        BY <1>1, <3>2
      <4>2. f[n] = call(n - 1, f[n - 1]) BY <1>7, <4>1
      <4> QED BY <3>2, <4>1, <4>2
    <3> QED BY <3>1, <3>2
  <2> QED BY <2>1 DEF Freeing
<1>9. PICK after : Freeing(after, q) /\ FreedAll(q) = after[Len(q)]
  <2>1. FreedAll(q) = (CHOOSE after : Freeing(after, q))[Len(q)]
    BY DEF FreedAll, Freeing
  <2>2. Freeing(CHOOSE after : Freeing(after, q), q)
    <3> HIDE DEF g
    <3> QED BY <1>8
  <2> QED BY <2>1, <2>2
<1>10. \A n \in Nat : n <= Len(q) => OK(n, after[n])
  <2> DEFINE T == {n \in Nat : n <= Len(q) => OK(n, after[n])}
  <2>1. 0 \in T
    <3>1. after[0] = buddy BY <1>1, <1>9 DEF Freeing
    <3> QED BY <1>3, <3>1
  <2>2. ASSUME NEW n \in Nat, n \in T PROVE n + 1 \in T
    <3> SUFFICES ASSUME n + 1 <= Len(q) PROVE OK(n + 1, after[n + 1]) OBVIOUS
    <3>1. n < Len(q) /\ OK(n, after[n]) BY <1>1, <2>2
    <3>2. n + 1 \in 0..Len(q) /\ n + 1 # 0 /\ (n + 1) - 1 = n BY <1>1
    <3>3. after[n + 1] = call(n, after[n]) BY <1>9, <3>2 DEF Freeing
    <3> QED BY <1>4, <3>1, <3>3
  <2>3. \A n \in Nat : n \in T
    <3> HIDE DEF T
    <3> QED BY <2>1, <2>2, InductionFromZero
  <2> QED BY <2>3
<1>11. OwnedAfter(q, Len(q)) = {x \in allocated : x.base \notin Members(q)}
  BY DEF OwnedAfter, Members
<1>12. OK(Len(q), after[Len(q)])
  <2>1. Len(q) <= Len(q) BY <1>1
  <2> QED BY <1>1, <1>10, <2>1
<1> QED BY <1>9, <1>11, <1>12 DEF OK

-----------------------------------------------------------------------------
(* The invariant *)

Headers ==
  [parentCache : Caches, state : States \cup {"CREATED"}, allocatedSlots : Nat,
   slots : SUBSET Nat]

Users(s) == {o \in objects : o.slab = s}

\* The state of a slab, its count, its flags and what clients own agree.
HeaderOK(s) ==
  /\ slab[s].parentCache \in live
  /\ slab[s].slots \subseteq 1..OptimalSlots[slab[s].parentCache]
  /\ slab[s].allocatedSlots = Cardinality(slab[s].slots)
  /\ slab[s].state = CalculateNewState(slab[s].parentCache, slab[s].allocatedSlots)
  /\ slab[s].slots = {o.slot : o \in Users(s)}
  /\ \A o \in Users(s) : o.cache = slab[s].parentCache

\* List k of c has the slabs of c whose state is k, once each.
ListOK(c, k) ==
  /\ slabList[c][k] \in Seq(DOMAIN slab)
  /\ Distinct(slabList[c][k])
  /\ Members(slabList[c][k]) = {s \in SlabsOf(c) : slab[s].state = k}

Types ==
  /\ live \subseteq Caches
  /\ slab \in [DOMAIN slab -> Headers]
  /\ objects \subseteq [cache : Caches, slab : DOMAIN slab, slot : Nat]
  /\ DOMAIN slabList = Caches
  /\ \A c \in Caches : DOMAIN slabList[c] = States

ListsOK == \A c \in live, k \in States : ListOK(c, k)

Inv ==
  /\ Types
  /\ \A s \in DOMAIN slab : HeaderOK(s) /\ \E x \in allocated : x.base = s
  /\ ListsOK

-----------------------------------------------------------------------------
(* The steps *)

LEMMA StateType ==
  ASSUME NEW c, NEW n PROVE CalculateNewState(c, n) \in States
BY DEF CalculateNewState, States

\* The slab at s of c gets header h, and goes from the list of its old state, from, to
\* that of its new one.
Moves(c, s, h, from) ==
  /\ c \in live
  /\ h \in Headers /\ h.parentCache = c /\ h.state \in States
  /\ \/ s \in DOMAIN slab /\ slab[s].parentCache = c /\ from = slab[s].state
     \/ s \notin DOMAIN slab /\ from = "CREATED"
  /\ slab' = WithHeader(s, h)
  /\ slabList' = [slabList EXCEPT ![c] = Moved(@, s, from, h.state)]
  /\ live' = live

SlabsTyped ==
  /\ slab \in [DOMAIN slab -> Headers]
  /\ DOMAIN slabList = Caches
  /\ \A c \in Caches : DOMAIN slabList[c] = States

LEMMA MovedProperties ==
  ASSUME Inv, NEW c, NEW s, NEW h, NEW from, Moves(c, s, h, from)
  PROVE  DOMAIN slab' = DOMAIN slab \cup {s} /\ SlabsTyped' /\ ListsOK'
<1> USE DEF Moves
<1> DEFINE to == h.state
<1>1. /\ DOMAIN slab' = DOMAIN slab \cup {s}
      /\ slab'[s] = h
      /\ \A t \in DOMAIN slab : t # s => slab'[t] = slab[t]
      /\ slab' \in [DOMAIN slab' -> Headers]
  BY DEF Inv, Types, WithHeader
<1>2. c \in Caches BY DEF Inv, Types
<1>3. DOMAIN slabList' = Caches /\ slabList'[c] = Moved(slabList[c], s, from, to)
      /\ \A d \in Caches : d # c => slabList'[d] = slabList[d]
  BY <1>2 DEF Inv, Types
<1>4. DOMAIN Moved(slabList[c], s, from, to) = States
  BY <1>2 DEF Moved, Inv, Types
<1>5. ASSUME NEW d \in live, d # c, NEW k \in States PROVE ListOK(d, k)'
  <2>1. ListOK(d, k) /\ slabList'[d] = slabList[d] BY <1>3, <1>5 DEF Inv, ListsOK, Types
  <2>2. SlabsOf(d)' = SlabsOf(d) /\ \A t \in SlabsOf(d) : slab'[t] = slab[t]
    BY <1>1, <1>5 DEF SlabsOf
  <2>3. slabList'[d][k] \in Seq(DOMAIN slab')
    BY <1>1, <2>1 DEF ListOK
  <2> QED BY <2>1, <2>2, <2>3 DEF ListOK
<1>6. SlabsOf(c)' = SlabsOf(c) \cup {s}
  BY <1>1 DEF SlabsOf
<1>7. ASSUME NEW k \in States PROVE ListOK(c, k)'
  <2> DEFINE q == slabList[c][k]
  <2>1. q \in Seq(DOMAIN slab) /\ Distinct(q)
        /\ Members(q) = {t \in SlabsOf(c) : slab[t].state = k}
    BY DEF Inv, ListsOK, ListOK
  <2>2. {t \in SlabsOf(c) : slab[t].state = k} \ {s} =
          {t \in SlabsOf(c)' : slab'[t].state = k} \ {s}
    BY <1>1, <1>6 DEF SlabsOf
  <2>3. s \in SlabsOf(c)' /\ slab'[s].state = to BY <1>1, <1>6
  <2>4. s \in Members(q) <=> from = k
    <3>1. "CREATED" \notin States BY DEF States
    <3> QED BY <2>1, <3>1 DEF SlabsOf
  <2>5. q \in Seq(DOMAIN slab') BY <1>1, <2>1
  <2>6. CASE from = to
    <3>1. slabList'[c][k] = q BY <1>3, <2>6 DEF Moved
    <3>2. Members(q) = {t \in SlabsOf(c)' : slab'[t].state = k}
      BY <2>1, <2>2, <2>3, <2>4, <2>6
    <3> QED BY <2>1, <2>5, <3>1, <3>2 DEF ListOK
  <2>7. CASE from # to /\ k = to
    <3>1. slabList'[c][k] = <<s>> \o q BY <1>3, <2>7 DEF Moved
    <3>2. s \in DOMAIN slab' /\ s \notin Members(q) BY <1>1, <2>4, <2>7
    <3>3. /\ <<s>> \o q \in Seq(DOMAIN slab') /\ Distinct(<<s>> \o q)
          /\ Members(<<s>> \o q) = Members(q) \cup {s}
      BY <2>1, <2>5, <3>2, FrontProperties
    <3>4. Members(q) \cup {s} = {t \in SlabsOf(c)' : slab'[t].state = k}
      BY <2>1, <2>2, <2>3, <2>7
    <3> QED BY <3>1, <3>3, <3>4 DEF ListOK
  <2>8. CASE from # to /\ k = from
    <3>1. slabList'[c][k] = Without(q, s) BY <1>3, <2>8 DEF Moved
    <3>2. s \in Members(q) BY <2>4, <2>8
    <3>3. /\ Without(q, s) \in Seq(DOMAIN slab') /\ Distinct(Without(q, s))
          /\ Members(Without(q, s)) = Members(q) \ {s}
      BY <2>1, <2>5, <3>2, WithoutProperties
    <3>4. Members(q) \ {s} = {t \in SlabsOf(c)' : slab'[t].state = k}
      BY <2>1, <2>2, <2>3, <2>8
    <3> QED BY <3>1, <3>3, <3>4 DEF ListOK
  <2>9. CASE from # to /\ k # from /\ k # to
    <3>1. slabList'[c][k] = q BY <1>3, <2>9 DEF Moved
    <3>2. Members(q) = {t \in SlabsOf(c)' : slab'[t].state = k}
      BY <2>1, <2>2, <2>3, <2>4, <2>9
    <3> QED BY <2>1, <2>5, <3>1, <3>2 DEF ListOK
  <2> QED BY <2>6, <2>7, <2>8, <2>9
<1>8. \A d \in Caches : DOMAIN slabList'[d] = States
  BY <1>3, <1>4 DEF Inv, Types
<1>9. ListsOK' BY <1>5, <1>7 DEF ListsOK
<1> QED BY <1>1, <1>3, <1>8, <1>9 DEF SlabsTyped

\* The other slabs keep their headers and their users.
LEMMA OtherHeaders ==
  ASSUME Inv, NEW s, NEW t \in DOMAIN slab, t # s,
         slab'[t] = slab[t], Users(t)' = Users(t), live' = live
  PROVE  HeaderOK(t)'
<1>1. HeaderOK(t) BY DEF Inv
<1> QED BY <1>1 DEF HeaderOK, CalculateNewState

\* What a client owns after it has taken slot n of the slab at s with header h.
LEMMA TakeStep ==
  ASSUME Inv, NEW c \in live, NEW s, NEW h \in Headers, NEW n \in 1..OptimalSlots[c] \ h.slots,
         h.parentCache = c,
         \/ s \in DOMAIN slab /\ h = slab[s]
         \/ s \notin DOMAIN slab /\ h = NewSlab(c),
         slab' = WithHeader(s, [h EXCEPT !.slots = @ \cup {n},
                                         !.allocatedSlots = @ + 1,
                                         !.state = CalculateNewState(c, h.allocatedSlots + 1)]),
         slabList' = [slabList EXCEPT ![c] =
                        Moved(@, s, h.state, CalculateNewState(c, h.allocatedSlots + 1))],
         objects' = objects \cup {[cache |-> c, slab |-> s, slot |-> n]},
         live' = live,
         allocated \subseteq allocated', \E x \in allocated' : x.base = s
  PROVE  Inv'
<1>1. c \in Caches /\ OptimalSlots[c] \in Nat BY CacheAssumption DEF Inv, Types
<1>2. PICK state \in States : state = CalculateNewState(c, h.allocatedSlots + 1)
  BY StateType
<1>3. PICK o : o = [cache |-> c, slab |-> s, slot |-> n] OBVIOUS
<1>4. /\ h.slots \in SUBSET Nat /\ h.allocatedSlots \in Nat
      /\ h.slots \subseteq 1..OptimalSlots[c]
      /\ h.allocatedSlots = Cardinality(h.slots)
      /\ h.slots = {p.slot : p \in Users(s)}
      /\ \A p \in Users(s) : p.cache = c
  <2>1. CASE s \in DOMAIN slab /\ h = slab[s]
    BY <2>1 DEF Inv, HeaderOK, Headers
  <2>2. CASE s \notin DOMAIN slab /\ h = NewSlab(c)
    <3>1. Users(s) = {} BY <2>2 DEF Users, Inv, Types
    <3>2. Cardinality({}) = 0 BY FS_EmptySet
    <3> QED BY <2>2, <3>1, <3>2 DEF NewSlab
  <2> QED BY <2>1, <2>2
<1>5. PICK h2 : h2 = [h EXCEPT !.slots = @ \cup {n}, !.allocatedSlots = @ + 1,
                               !.state = state]
  OBVIOUS
<1>6. /\ h2 \in Headers /\ h2.parentCache = c /\ h2.state = state
      /\ h2.slots = h.slots \cup {n} /\ h2.allocatedSlots = h.allocatedSlots + 1
  <2>1. h.slots \cup {n} \in SUBSET Nat BY <1>1, <1>4
  <2>2. h.allocatedSlots + 1 \in Nat BY <1>4
  <2> QED BY <1>2, <1>5, <2>1, <2>2 DEF Headers
<1>7. slab' = WithHeader(s, h2)
      /\ slabList' = [slabList EXCEPT ![c] = Moved(@, s, h.state, h2.state)]
  BY <1>2, <1>5, <1>6
<1>8. \/ s \in DOMAIN slab /\ slab[s].parentCache = c /\ h.state = slab[s].state
      \/ s \notin DOMAIN slab /\ h.state = "CREATED"
  BY DEF NewSlab
<1>9. DOMAIN slab' = DOMAIN slab \cup {s} /\ SlabsTyped' /\ ListsOK'
  <2>1. Moves(c, s, h2, h.state) BY <1>2, <1>6, <1>7, <1>8 DEF Moves
  <2> QED BY <2>1, MovedProperties
<1>10. slab'[s] = h2 /\ \A t \in DOMAIN slab : t # s => slab'[t] = slab[t]
  BY <1>7 DEF WithHeader
<1>11. Users(s)' = Users(s) \cup {o} /\ \A t : t # s => Users(t)' = Users(t)
  BY <1>3 DEF Users
<1>12. Types'
  <2>1. o \in [cache : Caches, slab : DOMAIN slab', slot : Nat] BY <1>1, <1>3, <1>9
  <2>2. objects' \subseteq [cache : Caches, slab : DOMAIN slab', slot : Nat]
    BY <1>3, <1>9, <2>1 DEF Inv, Types
  <2> QED BY <1>9, <2>2 DEF Inv, Types, SlabsTyped
<1>13. HeaderOK(s)'
  <2>1. IsFiniteSet(h.slots)
    <3>1. IsFiniteSet(1..OptimalSlots[c])
      <4>1. 1 \in Int /\ OptimalSlots[c] \in Int BY <1>1
      <4> QED BY <4>1, FS_Interval, Zenon
    <3> QED BY <1>4, <3>1, FS_Subset
  <2>2. Cardinality(h.slots \cup {n}) = Cardinality(h.slots) + 1
    BY <2>1, FS_AddElement
  <2>3. {p.slot : p \in Users(s) \cup {o}} = h.slots \cup {n}
    <3>1. o.slot = n BY <1>3
    <3> QED BY <1>4, <3>1
  <2>4. h2.slots \subseteq 1..OptimalSlots[c] BY <1>4, <1>6
  <2>5. \A p \in Users(s)' : p.cache = c BY <1>3, <1>4, <1>11
  <2>6. h2.state = CalculateNewState(c, h2.allocatedSlots) BY <1>2, <1>6
  <2>7. h2.allocatedSlots = Cardinality(h2.slots) BY <1>4, <1>6, <2>2
  <2>8. h2.slots = {p.slot : p \in Users(s)'} BY <1>6, <1>11, <2>3
  <2>9. slab'[s].state = CalculateNewState(slab'[s].parentCache, slab'[s].allocatedSlots)
    BY <1>6, <1>10, <2>6
  <2>10. slab'[s] = h2 /\ h2.parentCache = c /\ c \in live' BY <1>6, <1>10
  <2>11. HeaderOK(s)' <=>
           /\ slab'[s].parentCache \in live'
           /\ slab'[s].slots \subseteq 1..OptimalSlots[slab'[s].parentCache]
           /\ slab'[s].allocatedSlots = Cardinality(slab'[s].slots)
           /\ slab'[s].state = CalculateNewState(slab'[s].parentCache, slab'[s].allocatedSlots)
           /\ slab'[s].slots = {p.slot : p \in Users(s)'}
           /\ \A p \in Users(s)' : p.cache = slab'[s].parentCache
    BY DEF HeaderOK, CalculateNewState
  <2> QED BY <2>4, <2>5, <2>7, <2>8, <2>9, <2>10, <2>11
<1>14. \A t \in DOMAIN slab' : HeaderOK(t)' /\ \E x \in allocated' : x.base = t
  <2> TAKE t \in DOMAIN slab'
  <2>1. CASE t = s BY <1>13, <2>1
  <2>2. CASE t # s
    <3>1. t \in DOMAIN slab BY <1>9, <2>2
    <3>2. HeaderOK(t)' BY <1>10, <1>11, <2>2, <3>1, OtherHeaders
    <3> QED BY <3>1, <3>2 DEF Inv
  <2> QED BY <2>1, <2>2
<1> QED BY <1>9, <1>12, <1>14 DEF Inv

LEMMA AllocateStep ==
  ASSUME Inv, NEW c \in Caches, AllocateSlot(c), BuddyInv'
  PROVE  Inv'
<1>1. c \in live /\ live' = live BY DEF AllocateSlot
<1>2. ASSUME NEW k \in {"PARTIAL", "EMPTY"}, slabList[c][k] # <<>>,
             GetFreeSlot(c, Head(slabList[c][k]), slab[Head(slabList[c][k])]),
             UNCHANGED vars
      PROVE  Inv'
  <2> DEFINE s == Head(slabList[c][k])
  <2>1. ListOK(c, k) BY <1>1 DEF Inv, ListsOK, States
  <2>2. s \in Members(slabList[c][k])
    <3>1. 1 \in 1..Len(slabList[c][k]) /\ s = slabList[c][k][1]
      BY <1>2, <2>1 DEF ListOK
    <3> QED BY <3>1 DEF Members
  <2>3. s \in DOMAIN slab /\ slab[s].parentCache = c /\ slab[s] \in Headers
    BY <2>1, <2>2 DEF ListOK, SlabsOf, Inv, Types
  <2>4. allocated' = allocated /\ \E x \in allocated : x.base = s
    BY <1>2, <2>3 DEF vars, Inv
  <2> HIDE DEF s
  <2>5. GetFreeSlot(c, s, slab[s]) BY <1>2 DEF s
  <2> QED BY <1>1, <2>3, <2>4, <2>5, TakeStep DEF GetFreeSlot
<1>3. ASSUME BuddyAlloc(SlabLevel(c)),
             NEW x \in allocated' \ allocated, GetFreeSlot(c, x.base, NewSlab(c))
      PROVE  Inv'
  <2>1. allocated \subseteq allocated' BY <1>3 DEF BuddyAlloc, vars
  <2>2. x.base \notin DOMAIN slab
    <3>1. \A y \in allocated : y.base # x.base
      BY <1>3, <2>1, OwnedBases DEF BuddyInv, BuddyOK
    <3> QED BY <3>1 DEF Inv
  <2>3. NewSlab(c) \in Headers /\ NewSlab(c).parentCache = c
    BY DEF NewSlab, Headers
  <2> QED BY <1>1, <1>3, <2>1, <2>2, <2>3, TakeStep DEF GetFreeSlot
<1> QED BY <1>2, <1>3 DEF AllocateSlot

\* What a client owns is a slot in use, and no other client owns it.
LEMMA OwnedSlot ==
  ASSUME Inv, NEW o \in objects
  PROVE  /\ o.slab \in DOMAIN slab /\ o.slot \in slab[o.slab].slots
         /\ o.cache = slab[o.slab].parentCache
         /\ \A p \in Users(o.slab) : p.slot = o.slot => p = o
<1>1. o.slab \in DOMAIN slab BY DEF Inv, Types
<1>2. HeaderOK(o.slab) BY <1>1 DEF Inv
<1>3. o \in Users(o.slab) BY DEF Users
<1>4. ASSUME NEW p \in Users(o.slab), p.slot = o.slot PROVE p = o
  <2>1. p \in objects /\ p.slab = o.slab /\ p.cache = o.cache
    BY <1>2, <1>3 DEF HeaderOK, Users
  <2> QED BY <1>4, <2>1 DEF Inv, Types
<1> QED BY <1>1, <1>2, <1>3, <1>4 DEF HeaderOK

LEMMA FiniteSlots ==
  ASSUME Inv, NEW s \in DOMAIN slab
  PROVE  IsFiniteSet(slab[s].slots) /\ OptimalSlots[slab[s].parentCache] \in Nat \ {0}
<1> DEFINE c == slab[s].parentCache
<1>1. HeaderOK(s) BY DEF Inv
<1>2. c \in Caches BY <1>1 DEF HeaderOK, Inv, Types
<1>3. OptimalSlots[c] \in Nat \ {0} BY <1>2, CacheAssumption
<1>4. IsFiniteSet(1..OptimalSlots[c])
  <2>1. 1 \in Int /\ OptimalSlots[c] \in Int BY <1>3
  <2> HIDE DEF c
  <2> QED BY <2>1, FS_Interval, Zenon
<1> QED BY <1>1, <1>3, <1>4, FS_Subset DEF HeaderOK

\* A slot is given back.
LEMMA FreeStep ==
  ASSUME Inv, NEW c \in Caches, NEW o \in objects, FreeSlot(c, o)
  PROVE  Inv'
<1> DEFINE s == o.slab
           h == slab[s]
           state == CalculateNewState(c, h.allocatedSlots - 1)
           h2 == [h EXCEPT !.slots = @ \ {o.slot}, !.allocatedSlots = @ - 1, !.state = state]
<1>1. /\ s \in DOMAIN slab /\ o.slot \in h.slots /\ o.cache = h.parentCache
      /\ \A p \in Users(s) : p.slot = o.slot => p = o
  BY OwnedSlot
<1>2. allocated' = allocated /\ live' = live BY DEF FreeSlot, vars
<1>3. CASE h.parentCache # c
  <2>1. slabList' = slabList /\ slab' = slab /\ objects' = objects
    BY <1>3 DEF FreeSlot
  <2> QED BY <1>2, <2>1 DEF Inv, Types, HeaderOK, Users, ListsOK, ListOK, SlabsOf,
                          CalculateNewState
<1>4. CASE h.parentCache = c
  <2>1. /\ slab' = WithHeader(s, h2)
        /\ slabList' = [slabList EXCEPT ![c] = Moved(@, s, h.state, state)]
        /\ objects' = objects \ {o}
    BY <1>4 DEF FreeSlot
  <2>2. HeaderOK(s) /\ h \in Headers /\ c \in live /\ IsFiniteSet(h.slots)
    BY <1>1, <1>4, FiniteSlots DEF Inv, Types, HeaderOK
  <2>3. /\ Cardinality(h.slots \ {o.slot}) = Cardinality(h.slots) - 1
        /\ Cardinality(h.slots \ {o.slot}) \in Nat
    BY <1>1, <2>2, FS_RemoveElement, FS_CardinalityType
  <2>4. h.allocatedSlots = Cardinality(h.slots) /\ state \in States
    BY <2>2, StateType DEF HeaderOK
  <2>5. /\ h2 \in Headers /\ h2.parentCache = c /\ h2.state = state
        /\ h2.slots = h.slots \ {o.slot} /\ h2.allocatedSlots = Cardinality(h2.slots)
    BY <1>4, <2>2, <2>3, <2>4 DEF Headers
  <2> HIDE DEF h2
  <2>6. Moves(c, s, h2, h.state)
    BY <1>1, <1>2, <1>4, <2>1, <2>2, <2>4, <2>5 DEF Moves
  <2>7. DOMAIN slab' = DOMAIN slab \cup {s} /\ SlabsTyped' /\ ListsOK'
    BY <2>6, MovedProperties
  <2>8. slab'[s] = h2 /\ \A t \in DOMAIN slab : t # s => slab'[t] = slab[t]
    BY <2>1 DEF WithHeader
  <2>9. Users(s)' = Users(s) \ {o} /\ \A t : t # s => Users(t)' = Users(t)
    BY <2>1 DEF Users
  <2>10. Types'
    <3>1. DOMAIN slab' = DOMAIN slab BY <1>1, <2>7
    <3>2. objects' \subseteq [cache : Caches, slab : DOMAIN slab', slot : Nat]
      BY <2>1, <3>1 DEF Inv, Types
    <3> QED BY <1>2, <2>7, <3>2 DEF Inv, Types, SlabsTyped
  <2>11. HeaderOK(s)'
    <3>1. h.slots = {p.slot : p \in Users(s)} BY <2>2 DEF HeaderOK
    <3>2. h2.slots = {p.slot : p \in Users(s)'}
      <4>1. {p.slot : p \in Users(s) \ {o}} = {p.slot : p \in Users(s)} \ {o.slot}
        BY <1>1
      <4> QED BY <2>5, <2>9, <3>1, <4>1
    <3>3. h2.slots \subseteq 1..OptimalSlots[c] BY <1>4, <2>2, <2>5 DEF HeaderOK
    <3>4. \A p \in Users(s)' : p.cache = c BY <1>4, <2>2, <2>9 DEF HeaderOK
    <3>5. h2.state = CalculateNewState(c, h2.allocatedSlots)
      <4>1. h2.allocatedSlots = h.allocatedSlots - 1 BY <2>3, <2>4, <2>5
      <4> QED BY <2>5, <4>1
    <3>6. c \in live' BY <1>2, <2>2
    <3> HIDE DEF s
    <3>7. HeaderOK(s)' <=>
            /\ slab'[s].parentCache \in live'
            /\ slab'[s].slots \subseteq 1..OptimalSlots[slab'[s].parentCache]
            /\ slab'[s].allocatedSlots = Cardinality(slab'[s].slots)
            /\ slab'[s].state = CalculateNewState(slab'[s].parentCache, slab'[s].allocatedSlots)
            /\ slab'[s].slots = {p.slot : p \in Users(s)'}
            /\ \A p \in Users(s)' : p.cache = slab'[s].parentCache
      BY DEF HeaderOK, CalculateNewState
    <3> QED BY <2>5, <2>8, <3>2, <3>3, <3>4, <3>5, <3>6, <3>7
  <2>12. ASSUME NEW t \in DOMAIN slab' PROVE HeaderOK(t)' /\ \E x \in allocated' : x.base = t
    <3>1. t \in DOMAIN slab BY <1>1, <2>7
    <3>2. CASE t = s BY <1>2, <2>11, <3>1, <3>2 DEF Inv
    <3>3. CASE t # s
      <4>1. HeaderOK(t)' BY <1>2, <2>8, <2>9, <3>1, <3>3, OtherHeaders
      <4> QED BY <1>2, <3>1, <4>1 DEF Inv
    <3> QED BY <3>2, <3>3
  <2> QED BY <2>7, <2>10, <2>12 DEF Inv
<1> QED BY <1>3, <1>4

LEMMA SeqOver ==
  ASSUME NEW S, NEW T, NEW q \in Seq(S), Members(q) \subseteq T
  PROVE  q \in Seq(T)
<1>1. Len(q) \in Nat /\ q = [i \in 1..Len(q) |-> q[i]] OBVIOUS
<1>2. \A i \in 1..Len(q) : q[i] \in T BY DEF Members
<1> QED BY <1>1, <1>2

\* Slabs R of c are given back, with the objects that lie in them.
LEMMA DropStep ==
  ASSUME Inv, NEW c \in live, NEW R, R \subseteq SlabsOf(c),
         slab' = [s \in DOMAIN slab \ R |-> slab[s]],
         allocated' = {x \in allocated : x.base \notin R},
         objects' = {o \in objects : o.slab \notin R},
         live' \subseteq live, live \ {c} \subseteq live',
         c \notin live' => R = SlabsOf(c),
         DOMAIN slabList' = Caches,
         \A d \in Caches : DOMAIN slabList'[d] = States,
         \A d \in live \ {c} : slabList'[d] = slabList[d],
         c \in live' => \A k \in States : ListOK(c, k)'
  PROVE  Inv'
<1>1. DOMAIN slab' = DOMAIN slab \ R /\ \A t \in DOMAIN slab' : slab'[t] = slab[t]
  OBVIOUS
<1>2. Types'
  <2>1. slab' \in [DOMAIN slab' -> Headers] BY <1>1 DEF Inv, Types
  <2>2. objects' \subseteq [cache : Caches, slab : DOMAIN slab', slot : Nat]
    BY <1>1 DEF Inv, Types
  <2>3. live' \subseteq Caches BY DEF Inv, Types
  <2> QED BY <2>1, <2>2, <2>3 DEF Types
<1>3. ASSUME NEW t \in DOMAIN slab' PROVE HeaderOK(t)' /\ \E x \in allocated' : x.base = t
  <2>1. t \in DOMAIN slab /\ t \notin R BY <1>1
  <2>2. HeaderOK(t) /\ \E x \in allocated : x.base = t BY <2>1 DEF Inv
  <2>3. Users(t)' = Users(t) BY <2>1 DEF Users
  <2>4. slab'[t].parentCache \in live'
    <3>1. c \notin live' => slab[t].parentCache # c BY <2>1 DEF SlabsOf
    <3> QED BY <1>1, <2>2, <3>1 DEF HeaderOK
  <2>5. HeaderOK(t)' BY <1>1, <2>2, <2>3, <2>4 DEF HeaderOK, CalculateNewState
  <2> QED BY <2>1, <2>2, <2>5
<1>4. ASSUME NEW d \in live', d # c, NEW k \in States PROVE ListOK(d, k)'
  <2>1. d \in live /\ slabList'[d] = slabList[d] BY <1>4
  <2>2. ListOK(d, k) BY <2>1 DEF Inv, ListsOK
  <2>3. SlabsOf(d)' = SlabsOf(d) /\ \A t \in SlabsOf(d) : slab'[t] = slab[t]
    BY <1>1, <1>4 DEF SlabsOf
  <2>4. Members(slabList[d][k]) \subseteq DOMAIN slab'
    BY <2>2, <2>3 DEF ListOK, SlabsOf
  <2>5. slabList'[d][k] \in Seq(DOMAIN slab')
    BY <2>1, <2>2, <2>4, SeqOver DEF ListOK
  <2>6. Members(slabList'[d][k]) = {t \in SlabsOf(d)' : slab'[t].state = k}
    <3>1. Members(slabList[d][k]) = {t \in SlabsOf(d) : slab[t].state = k} BY <2>2 DEF ListOK
    <3>2. {t \in SlabsOf(d) : slab[t].state = k} = {t \in SlabsOf(d)' : slab'[t].state = k}
      BY <2>3
    <3> QED BY <2>1, <3>1, <3>2
  <2> QED BY <2>1, <2>2, <2>5, <2>6 DEF ListOK
<1>5. ListsOK' BY <1>4 DEF ListsOK
<1> QED BY <1>2, <1>3, <1>5 DEF Inv

\* What DeallocSlabs does besides the lists of free blocks.
LEMMA DeallocProperties ==
  ASSUME NEW q, DeallocSlabs(q)
  PROVE  /\ allocated' = {x \in allocated : x.base \notin Members(q)}
         /\ slab' = [s \in DOMAIN slab \ Members(q) |-> slab[s]]
BY Zenon DEF DeallocSlabs

\* A slab without slots in use is no one's.
LEMMA EmptySlab ==
  ASSUME Inv, NEW s \in DOMAIN slab, slab[s].state = "EMPTY"
  PROVE  \A o \in objects : o.slab # s
<1>1. HeaderOK(s) BY DEF Inv
<1>2. IsFiniteSet(slab[s].slots) /\ OptimalSlots[slab[s].parentCache] \in Nat \ {0}
  BY FiniteSlots
<1>3. slab[s].allocatedSlots = 0
  BY <1>1, <1>2 DEF HeaderOK, CalculateNewState
<1>4. slab[s].slots = {}
  BY <1>1, <1>2, <1>3, FS_EmptySet DEF HeaderOK
<1> QED BY <1>1, <1>4 DEF HeaderOK, Users

LEMMA NoMembers == Members(<<>>) = {}
BY DEF Members

LEMMA ShrinkStep ==
  ASSUME Inv, NEW c \in Caches, Shrink(c)
  PROVE  Inv'
<1> DEFINE R == Members(slabList[c]["EMPTY"])
<1>1. /\ c \in live /\ live' = live /\ objects' = objects
      /\ slabList' = [slabList EXCEPT ![c]["EMPTY"] = <<>>]
      /\ DeallocSlabs(slabList[c]["EMPTY"])
  BY DEF Shrink, Shrunk
<1>2. /\ allocated' = {x \in allocated : x.base \notin R}
      /\ slab' = [s \in DOMAIN slab \ R |-> slab[s]]
  BY <1>1, DeallocProperties
<1>3. \A k \in States : ListOK(c, k) BY <1>1 DEF Inv, ListsOK
<1>4. R = {s \in SlabsOf(c) : slab[s].state = "EMPTY"}
  BY <1>3 DEF ListOK, States
<1> HIDE DEF R
<1>5. objects' = {o \in objects : o.slab \notin R}
  <2>1. \A o \in objects : o.slab \notin R BY <1>4, EmptySlab DEF SlabsOf
  <2> QED BY <1>1, <2>1
<1>6. /\ DOMAIN slabList' = Caches
      /\ \A d \in Caches : DOMAIN slabList'[d] = States
      /\ \A d \in Caches \ {c} : slabList'[d] = slabList[d]
      /\ slabList'[c]["EMPTY"] = <<>>
      /\ \A k \in States \ {"EMPTY"} : slabList'[c][k] = slabList[c][k]
  BY <1>1 DEF Inv, Types, States
<1>7. SlabsOf(c)' = SlabsOf(c) \ R /\ \A t \in SlabsOf(c)' : slab'[t] = slab[t]
  BY <1>2 DEF SlabsOf
<1>8. ASSUME NEW k \in States PROVE ListOK(c, k)'
  <2>1. CASE k = "EMPTY"
    <3>1. {s \in SlabsOf(c)' : slab'[s].state = k} = {} BY <1>4, <1>7, <2>1
    <3>2. slabList'[c][k] = <<>> BY <1>6, <2>1
    <3> QED BY <3>1, <3>2, NoMembers DEF ListOK, Distinct
  <2>2. CASE k # "EMPTY"
    <3>1. slabList'[c][k] = slabList[c][k] BY <1>6, <2>2
    <3>2. ListOK(c, k) BY <1>3
    <3>3. {s \in SlabsOf(c) : slab[s].state = k} = {s \in SlabsOf(c)' : slab'[s].state = k}
      BY <1>4, <1>7, <2>2
    <3>4. {s \in SlabsOf(c)' : slab'[s].state = k} \subseteq DOMAIN slab' BY DEF SlabsOf
    <3>5. slabList'[c][k] \in Seq(DOMAIN slab')
      BY <3>1, <3>2, <3>3, <3>4, SeqOver DEF ListOK
    <3> QED BY <3>1, <3>2, <3>3, <3>5 DEF ListOK
  <2> QED BY <2>1, <2>2
<1>9. \A d \in live \ {c} : slabList'[d] = slabList[d] BY <1>6 DEF Inv, Types
<1>10. R \subseteq SlabsOf(c) BY <1>4
<1> HIDE DEF Inv
<1> QED BY <1>1, <1>2, <1>5, <1>6, <1>8, <1>9, <1>10, DropStep

LEMMA DestroyStep ==
  ASSUME Inv, NEW c \in Caches, Destroy(c)
  PROVE  Inv'
<1> DEFINE q == slabList[c]["EMPTY"] \o slabList[c]["PARTIAL"] \o slabList[c]["FULL"]
           R == Members(q)
<1>1. /\ c \in live /\ live' = live \ {c} /\ objects' = {o \in objects : o.cache # c}
      /\ slabList' = [slabList EXCEPT ![c] = NoSlabs]
      /\ DeallocSlabs(q)
  BY DEF Destroy
<1>2. /\ allocated' = {x \in allocated : x.base \notin R}
      /\ slab' = [s \in DOMAIN slab \ R |-> slab[s]]
  BY <1>1, DeallocProperties
<1>3. \A k \in States : ListOK(c, k) BY <1>1 DEF Inv, ListsOK
<1>4. R = SlabsOf(c)
  <2> DEFINE e == slabList[c]["EMPTY"]
             p == slabList[c]["PARTIAL"]
             f == slabList[c]["FULL"]
  <2>1. /\ e \in Seq(DOMAIN slab) /\ p \in Seq(DOMAIN slab) /\ f \in Seq(DOMAIN slab)
        /\ Members(e) = {s \in SlabsOf(c) : slab[s].state = "EMPTY"}
        /\ Members(p) = {s \in SlabsOf(c) : slab[s].state = "PARTIAL"}
        /\ Members(f) = {s \in SlabsOf(c) : slab[s].state = "FULL"}
    BY <1>3 DEF ListOK, States
  <2>2. \A s \in SlabsOf(c) : slab[s].state \in {"EMPTY", "PARTIAL", "FULL"}
    <3>1. \A s \in DOMAIN slab : HeaderOK(s) BY DEF Inv
    <3> QED BY <3>1, StateType DEF HeaderOK, SlabsOf, States
  <2> HIDE DEF e, p, f
  <2>3. PICK u : u = e \o p OBVIOUS
  <2>4. u \in Seq(DOMAIN slab) /\ Members(u) = Members(e) \cup Members(p)
    BY <2>1, <2>3, ConcatMembers
  <2>5. Members(u \o f) = Members(u) \cup Members(f) BY <2>1, <2>4, ConcatMembers
  <2>6. Members(u \o f) = SlabsOf(c) BY <2>1, <2>2, <2>4, <2>5
  <2> QED BY <2>3, <2>6, Zenon DEF e, p, f, q, R
<1> HIDE DEF q, R
<1>5. objects' = {o \in objects : o.slab \notin R}
  <2>1. \A o \in objects : o.cache # c <=> o.slab \notin R
    BY <1>4, OwnedSlot DEF SlabsOf
  <2> QED BY <1>1, <2>1
<1>6. /\ DOMAIN slabList' = Caches
      /\ \A d \in Caches : DOMAIN slabList'[d] = States
      /\ \A d \in Caches \ {c} : slabList'[d] = slabList[d]
  BY <1>1 DEF Inv, Types, NoSlabs
<1>7. \A d \in live \ {c} : slabList'[d] = slabList[d] BY <1>6 DEF Inv, Types
<1>8. c \notin live' /\ live' \subseteq live /\ live \ {c} \subseteq live' BY <1>1
<1> QED BY <1>1, <1>2, <1>4, <1>5, <1>6, <1>7, <1>8, DropStep

LEMMA CreateStep ==
  ASSUME Inv, NEW c \in Caches, CreateCache(c)
  PROVE  Inv'
<1>1. /\ c \notin live /\ live' = live \cup {c} /\ slab' = slab /\ objects' = objects
      /\ slabList' = [slabList EXCEPT ![c] = NoSlabs]
      /\ BuddyAlloc(1)
  BY DEF CreateCache
<1>2. allocated \subseteq allocated' BY <1>1 DEF BuddyAlloc, vars
<1>3. /\ DOMAIN slabList' = Caches
      /\ \A d \in Caches : DOMAIN slabList'[d] = States
      /\ \A d \in live : slabList'[d] = slabList[d]
      /\ \A k \in States : slabList'[c][k] = <<>>
  BY <1>1 DEF Inv, Types, NoSlabs
<1>4. Types' BY <1>1, <1>3 DEF Inv, Types
<1>5. ASSUME NEW t \in DOMAIN slab' PROVE HeaderOK(t)' /\ \E x \in allocated' : x.base = t
  <2>1. HeaderOK(t) /\ \E x \in allocated : x.base = t BY <1>1 DEF Inv
  <2>2. HeaderOK(t)' BY <1>1, <2>1 DEF HeaderOK, Users, CalculateNewState
  <2> QED BY <1>2, <2>1, <2>2
<1>6. ASSUME NEW d \in live, NEW k \in States PROVE ListOK(d, k)'
  <2>1. ListOK(d, k) /\ slabList'[d] = slabList[d] BY <1>3 DEF Inv, ListsOK
  <2> QED BY <1>1, <2>1 DEF ListOK, SlabsOf
<1>7. ASSUME NEW k \in States PROVE ListOK(c, k)'
  <2>1. \A s \in DOMAIN slab : slab[s].parentCache # c BY <1>1 DEF Inv, HeaderOK
  <2>2. SlabsOf(c)' = {} BY <1>1, <2>1 DEF SlabsOf
  <2>3. {s \in SlabsOf(c)' : slab'[s].state = k} = {} BY <2>2
  <2>4. slabList'[c][k] = <<>> BY <1>3
  <2> QED BY <2>3, <2>4, NoMembers DEF ListOK, Distinct
<1>8. ListsOK' BY <1>1, <1>6, <1>7 DEF ListsOK
<1> QED BY <1>4, <1>5, <1>8 DEF Inv

LEMMA InvStep ==
  ASSUME Inv, [SlabNext]_<<vars, slabVars>>, BuddyInv'
  PROVE  Inv'
<1>1. ASSUME NEW c \in Caches, CreateCache(c) PROVE Inv'
  BY <1>1, CreateStep
<1>2. ASSUME NEW c \in Caches, AllocateSlot(c) PROVE Inv'
  BY <1>2, AllocateStep
<1>3. ASSUME UNCHANGED <<live, slabList, slab, objects, allocated>> PROVE Inv'
  BY <1>3 DEF Inv, Types, HeaderOK, Users, ListsOK, ListOK, SlabsOf, CalculateNewState
<1>4. ASSUME NEW c \in Caches, RunsOut(c) PROVE Inv'
  BY <1>3, <1>4 DEF RunsOut, vars
<1>5. ASSUME NEW c \in Caches, NEW o \in objects, FreeSlot(c, o) PROVE Inv'
  BY <1>5, FreeStep
<1>6. ASSUME NEW c \in Caches, Shrink(c) PROVE Inv'
  BY <1>6, ShrinkStep
<1>7. ASSUME NEW c \in Caches, Destroy(c) PROVE Inv'
  BY <1>7, DestroyStep
<1>8. CASE UNCHANGED <<vars, slabVars>>
  BY <1>3, <1>8 DEF vars, slabVars
<1>9. CASE SlabNext
  BY <1>1, <1>2, <1>4, <1>5, <1>6, <1>7, <1>9 DEF SlabNext
<1> QED BY <1>8, <1>9

LEMMA InvInit == SlabInit => Inv
<1> SUFFICES ASSUME SlabInit PROVE Inv OBVIOUS
<1>1. live = {} /\ objects = {} /\ DOMAIN slab = {} BY DEF SlabInit
<1>2. slab \in [DOMAIN slab -> Headers] BY <1>1 DEF SlabInit
<1>3. DOMAIN slabList = Caches /\ \A c \in Caches : DOMAIN slabList[c] = States
  BY DEF SlabInit, NoSlabs
<1> QED BY <1>1, <1>2, <1>3 DEF Inv, Types, ListsOK

-----------------------------------------------------------------------------
(* The blocks of the slabs *)

\* A power of two is greater than its exponent.
LEMMA PowerGreater == \A n \in Nat : PowerOf2[n] > n
<1> DEFINE T == {n \in Nat : PowerOf2[n] > n}
<1>1. 0 \in T BY Powers
<1>2. ASSUME NEW n \in Nat, n \in T PROVE n + 1 \in T
  <2>1. PowerOf2[n] \in Nat /\ PowerOf2[n + 1] = 2 * PowerOf2[n] BY Powers
  <2> QED BY <1>2, <2>1
<1>3. \A n \in Nat : n \in T
  <2> HIDE DEF T
  <2> QED BY <1>1, <1>2, InductionFromZero
<1> QED BY <1>3

\* A slab's block is as large as the slab.
LEMMA LevelEnough ==
  ASSUME NEW c \in Caches
  PROVE  SlabLevel(c) \in Nat \ {0} /\ SizeOf(SlabLevel(c)) >= SlabSize[c]
<1>1. PICK size \in Nat : size = SlabSize[c] BY CacheAssumption
<1> DEFINE P == {p \in 0..size : PowerOf2[p] >= size}
<1>2. PICK p \in P : \A q \in P : p <= q
  <2>1. PowerOf2[size] \in Nat /\ PowerOf2[size] > size BY Powers, PowerGreater
  <2>2. size \in P BY <2>1
  <2>3. P \subseteq Nat /\ P # {} BY <2>2
  <2> HIDE DEF P
  <2> QED BY <2>3, LeastElement
<1>3. p \in 0..size /\ PowerOf2[p] >= size /\ \A q \in 0 .. p - 1 : PowerOf2[q] < size
  <2>1. ASSUME NEW q \in 0 .. p - 1 PROVE PowerOf2[q] < size
    <3>1. q \in 0..size /\ q < p /\ p \in Nat BY <1>2
    <3>2. q \notin P BY <1>2, <3>1
    <3>3. PowerOf2[q] \in Nat BY <3>1, Powers
    <3> QED BY <3>1, <3>2, <3>3
  <2> QED BY <1>2, <2>1
<1> DEFINE Fits(r) == PowerOf2[r] >= size /\ \A q \in 0 .. r - 1 : PowerOf2[q] < size
<1>4. PowerOfTwo(size) \in 0..size /\ PowerOf2[PowerOfTwo(size)] >= size
  <2>1. PowerOfTwo(size) = CHOOSE r \in 0..size : Fits(r) BY DEF PowerOfTwo
  <2>2. p \in 0..size /\ Fits(p) BY <1>3
  <2>3. PowerOfTwo(size) \in 0..size /\ Fits(PowerOfTwo(size))
    <3> HIDE DEF Fits
    <3> QED BY <2>1, <2>2
  <2> QED BY <2>3
<1>5. PICK r \in Nat : r = PowerOfTwo(size) BY <1>4
<1>6. SlabLevel(c) = r + 1 /\ (r + 1) - 1 = r BY <1>1, <1>5 DEF SlabLevel
<1> QED BY <1>1, <1>4, <1>5, <1>6 DEF SizeOf

\* The block of each slab is of the level of its cache.
LevelsOK ==
  \A s \in DOMAIN slab : \A x \in allocated :
    x.base = s => x.level = SlabLevel(slab[s].parentCache)

IsFunctionOn(f, S) == f = [k \in S |-> f[k]]

ListsShaped ==
  IsFunctionOn(slabList, Caches) /\ \A c \in Caches : IsFunctionOn(slabList[c], States)

\* What nobody reads is typed, too.
RestOK ==
  /\ ListsShaped
  /\ \A c \in Caches \ live : slabList[c] = NoSlabs
  /\ errortype \in [Caches -> {"NoError", "FreeSlotError", "next"}]
  /\ hung \in BOOLEAN

SlabInv == Inv /\ BuddyInv /\ LevelsOK /\ RestOK

\* The slabs of q are given back.
LEMMA DeallocKeeps ==
  ASSUME Inv, BuddyInv, LevelsOK, NEW q \in Seq(DOMAIN slab), Distinct(q), DeallocSlabs(q)
  PROVE  BuddyInv' /\ LevelsOK' /\ allocated' \subseteq allocated
<1>1. /\ buddy' = FreedAll(q)
      /\ allocated' = {x \in allocated : x.base \notin Members(q)}
      /\ slab' = [s \in DOMAIN slab \ Members(q) |-> slab[s]]
  BY DeallocProperties, Zenon DEF DeallocSlabs
<1>2. Members(q) \subseteq DOMAIN slab BY DEF Members
<1>3. \A s \in Members(q) : \E x \in allocated : x.base = s BY <1>2 DEF Inv
<1>4. Members(q) \subseteq Nat
  BY <1>3, BlockNumbers DEF BuddyInv, BuddyOK, OwnedOK
<1>5. q \in Seq(Nat) BY <1>4, SeqOver
<1>6. BuddyOK(buddy', allocated') BY <1>1, <1>3, <1>5, FreedAllKeeps
<1> QED BY <1>1, <1>6 DEF BuddyInv, LevelsOK

\* The list a Shrink gives back, and the ones a Destroy does.
LEMMA ShrunkList ==
  ASSUME Inv, NEW c \in live
  PROVE  Shrunk(c) \in Seq(DOMAIN slab) /\ Distinct(Shrunk(c))
BY DEF Inv, ListsOK, ListOK, Shrunk, States

LEMMA DestroyedList ==
  ASSUME Inv, NEW c \in live
  PROVE  LET q == slabList[c]["EMPTY"] \o slabList[c]["PARTIAL"] \o slabList[c]["FULL"]
         IN q \in Seq(DOMAIN slab) /\ Distinct(q)
<1>1. PICK e, p, f : /\ e = slabList[c]["EMPTY"]
                     /\ p = slabList[c]["PARTIAL"]
                     /\ f = slabList[c]["FULL"]
  OBVIOUS
<1>2. /\ e \in Seq(DOMAIN slab) /\ p \in Seq(DOMAIN slab) /\ f \in Seq(DOMAIN slab)
      /\ Distinct(e) /\ Distinct(p) /\ Distinct(f)
      /\ Members(e) = {s \in SlabsOf(c) : slab[s].state = "EMPTY"}
      /\ Members(p) = {s \in SlabsOf(c) : slab[s].state = "PARTIAL"}
      /\ Members(f) = {s \in SlabsOf(c) : slab[s].state = "FULL"}
  BY <1>1 DEF Inv, ListsOK, ListOK, States
<1>3. Members(e) \cap Members(p) = {} /\ (Members(e) \cup Members(p)) \cap Members(f) = {}
  BY <1>2
<1>4. PICK u : u = e \o p OBVIOUS
<1>5. u \in Seq(DOMAIN slab) /\ Members(u) = Members(e) \cup Members(p)
  BY <1>2, <1>4, ConcatMembers
<1>6. Distinct(u) BY <1>2, <1>3, <1>4, ConcatDistinct
<1>7. Distinct(u \o f) BY <1>2, <1>3, <1>5, <1>6, ConcatDistinct
<1>8. PICK w : w = u \o f OBVIOUS
<1>9. w \in Seq(DOMAIN slab) BY <1>2, <1>5, <1>8
<1> QED BY <1>1, <1>4, <1>7, <1>8, <1>9

\* A step that takes a block, if any, for what is not a slab yet.
Takes(x) ==
  /\ allocated' = allocated \cup {x}
  /\ IsBlock(x.base, x.level) /\ x.size = SizeOf(x.level)
  /\ \A y \in allocated : Apart(y.base, y.level, x.base, x.level)

LEMMA TakenBase ==
  ASSUME BuddyInv, NEW x, Takes(x)
  PROVE  x \notin allocated /\ \A y \in allocated : y.base # x.base
<1>1. ASSUME NEW y \in allocated PROVE y.base # x.base
  <2>1. IsBlock(y.base, y.level) BY DEF BuddyInv, BuddyOK, OwnedOK
  <2>2. Apart(y.base, y.level, x.base, x.level) BY DEF Takes
  <2> QED BY <2>1, <2>2, BlockNumbers DEF Takes, Apart
<1> QED BY <1>1

\* The slab that a slot is taken from, or given back to, stays with its cache.
LEMMA SameCache ==
  ASSUME NEW c, NEW a, NEW h \in Headers, GetFreeSlot(c, a, h)
  PROVE  \E g : slab' = WithHeader(a, g) /\ g.parentCache = h.parentCache
<1>1. PICK i \in 1..OptimalSlots[c] \ h.slots :
        slab' = WithHeader(a, [h EXCEPT !.slots = @ \cup {i},
                                        !.allocatedSlots = @ + 1,
                                        !.state = CalculateNewState(c, h.allocatedSlots + 1)])
  BY DEF GetFreeSlot
<1> DEFINE g == [h EXCEPT !.slots = @ \cup {i},
                          !.allocatedSlots = @ + 1,
                          !.state = CalculateNewState(c, h.allocatedSlots + 1)]
<1>2. g.parentCache = h.parentCache BY DEF Headers
<1> QED BY <1>1, <1>2

\* The header of a slab changes, but not its cache.
LEMMA SameLevels ==
  ASSUME LevelsOK, NEW s \in DOMAIN slab, NEW g, slab' = WithHeader(s, g),
         g.parentCache = slab[s].parentCache, allocated' = allocated
  PROVE  LevelsOK'
<1>1. DOMAIN slab' = DOMAIN slab /\ \A t \in DOMAIN slab : slab'[t].parentCache = slab[t].parentCache
  BY DEF WithHeader
<1> QED BY <1>1 DEF LevelsOK, SlabLevel

LEMMA CreateLevels ==
  ASSUME Inv, BuddyInv, LevelsOK, NEW c \in Caches, CreateCache(c)
  PROVE  BuddyInv' /\ LevelsOK' /\ [H!Next]_allocated
<1>1. BuddyAlloc(1) /\ slab' = slab BY DEF CreateCache
<1>2. 1 \in Levels BY MaxPowerSizeAssumption DEF Levels
<1>3. BuddyInv' /\ H!Next BY <1>1, <1>2, AllocKeeps, AllocRefines
<1>4. UNCHANGED vars \/ \E x : Takes(x)
  <2>1. \/ UNCHANGED vars
        \/ \E x : /\ allocated' = allocated \cup {x}
                  /\ IsBlock(x.base, x.level) /\ x.size = SizeOf(x.level)
                  /\ x.level = 1
                  /\ \A y \in allocated : Apart(y.base, y.level, x.base, x.level)
    BY <1>1, <1>2, AllocKeeps
  <2> QED BY <2>1 DEF Takes
<1>5. CASE UNCHANGED vars BY <1>1, <1>3, <1>5 DEF LevelsOK, SlabLevel, vars
<1>6. ASSUME NEW x, Takes(x) PROVE LevelsOK'
  <2>1. allocated' = allocated \cup {x} /\ \A y \in allocated : y.base # x.base
    BY <1>6, TakenBase DEF Takes
  <2>2. x.base \notin DOMAIN slab BY <2>1 DEF Inv
  <2> QED BY <1>1, <2>1, <2>2 DEF LevelsOK, SlabLevel
<1> QED BY <1>3, <1>4, <1>5, <1>6

LEMMA AllocateLevels ==
  ASSUME Inv, BuddyInv, LevelsOK, NEW c \in Caches, AllocateSlot(c)
  PROVE  BuddyInv' /\ LevelsOK' /\ [H!Next]_allocated
<1>1. c \in live BY DEF AllocateSlot
<1>2. ASSUME NEW k \in {"PARTIAL", "EMPTY"}, slabList[c][k] # <<>>,
             GetFreeSlot(c, Head(slabList[c][k]), slab[Head(slabList[c][k])]),
             UNCHANGED vars
      PROVE  BuddyInv' /\ LevelsOK' /\ [H!Next]_allocated
  <2>1. PICK s : s = Head(slabList[c][k]) OBVIOUS
  <2>2. ListOK(c, k) BY <1>1 DEF Inv, ListsOK, States
  <2>3. s \in DOMAIN slab BY <1>2, <2>1, <2>2 DEF ListOK
  <2>4. slab[s] \in Headers BY <2>3 DEF Inv, Types
  <2>5. PICK g : slab' = WithHeader(s, g) /\ g.parentCache = slab[s].parentCache
    BY <1>2, <2>1, <2>4, SameCache
  <2>6. allocated' = allocated /\ buddy' = buddy BY <1>2 DEF vars
  <2>7. LevelsOK' BY <2>3, <2>5, <2>6, SameLevels
  <2>8. BuddyInv' BY <2>6 DEF BuddyInv, BuddyOK, FreeOK, OwnedOK, FreeNotOwned
  <2> QED BY <2>6, <2>7, <2>8
<1>3. ASSUME FirstLevel(SlabLevel(c)) # {}, BuddyAlloc(SlabLevel(c)),
             NEW a \in allocated' \ allocated, GetFreeSlot(c, a.base, NewSlab(c))
      PROVE  BuddyInv' /\ LevelsOK' /\ [H!Next]_allocated
  <2>1. SlabLevel(c) \in Levels
    <3>1. SlabLevel(c) \in Nat \ {0} BY LevelEnough
    <3>2. SlabLevel(c)..maxPowerSize # {} BY <1>3 DEF FirstLevel
    <3> QED BY <3>1, <3>2, MaxPowerSizeAssumption DEF Levels
  <2>2. BuddyInv' /\ H!Next BY <1>3, <2>1, AllocKeeps, AllocRefines
  <2>3. \E x : Takes(x) /\ x.level = SlabLevel(c)
    <3>1. \/ UNCHANGED vars
          \/ \E x : /\ allocated' = allocated \cup {x}
                    /\ IsBlock(x.base, x.level) /\ x.size = SizeOf(x.level)
                    /\ x.level = SlabLevel(c)
                    /\ \A y \in allocated : Apart(y.base, y.level, x.base, x.level)
      BY <1>3, <2>1, AllocKeeps
    <3>2. ~UNCHANGED vars BY <1>3 DEF vars
    <3> QED BY <3>1, <3>2 DEF Takes
  <2>4. PICK x : Takes(x) /\ x.level = SlabLevel(c) BY <2>3
  <2>5. a = x /\ allocated' = allocated \cup {x} BY <1>3, <2>4 DEF Takes
  <2>6. \A y \in allocated : y.base # x.base BY <2>4, TakenBase
  <2>7. NewSlab(c) \in Headers /\ NewSlab(c).parentCache = c
    BY DEF NewSlab, Headers
  <2>8. PICK g : slab' = WithHeader(x.base, g) /\ g.parentCache = c
    BY <1>3, <2>5, <2>7, SameCache
  <2>9. x.base \notin DOMAIN slab BY <2>6 DEF Inv
  <2>10. /\ DOMAIN slab' = DOMAIN slab \cup {x.base}
         /\ slab'[x.base].parentCache = c
         /\ \A t \in DOMAIN slab : slab'[t] = slab[t]
    BY <2>8, <2>9 DEF WithHeader
  <2>11. LevelsOK'
    <3> SUFFICES ASSUME NEW t \in DOMAIN slab', NEW y \in allocated', y.base = t
                 PROVE  y.level = SlabLevel(slab'[t].parentCache)
      BY DEF LevelsOK, SlabLevel
    <3>1. CASE t = x.base BY <2>4, <2>5, <2>6, <2>10, <3>1
    <3>2. CASE t # x.base BY <2>5, <2>10, <3>2 DEF LevelsOK
    <3> QED BY <3>1, <3>2
  <2> QED BY <2>2, <2>11
<1> QED BY <1>2, <1>3 DEF AllocateSlot

LEMMA FreeLevels ==
  ASSUME Inv, BuddyInv, LevelsOK, NEW c \in Caches, NEW o \in objects, FreeSlot(c, o)
  PROVE  BuddyInv' /\ LevelsOK' /\ [H!Next]_allocated
<1>1. allocated' = allocated /\ buddy' = buddy BY DEF FreeSlot, vars
<1>2. BuddyInv' BY <1>1 DEF BuddyInv, BuddyOK, FreeOK, OwnedOK, FreeNotOwned
<1>3. o.slab \in DOMAIN slab /\ slab[o.slab] \in Headers BY OwnedSlot DEF Inv, Types
<1>4. CASE slab' = slab
  <2>1. LevelsOK' BY <1>1, <1>4 DEF LevelsOK, SlabLevel
  <2> QED BY <1>1, <1>2, <2>1
<1>5. CASE slab' # slab
  <2> DEFINE h  == slab[o.slab]
             h2 == [h EXCEPT !.slots = @ \ {o.slot}, !.allocatedSlots = @ - 1,
                             !.state = CalculateNewState(c, h.allocatedSlots - 1)]
  <2>1. slab' = WithHeader(o.slab, h2) BY <1>5 DEF FreeSlot
  <2>2. h2.parentCache = h.parentCache BY <1>3 DEF Headers
  <2>3. PICK g, s : g = h2 /\ s = o.slab OBVIOUS
  <2>4. s \in DOMAIN slab /\ slab' = WithHeader(s, g) /\ g.parentCache = slab[s].parentCache
    BY <1>3, <2>1, <2>2, <2>3
  <2>5. LevelsOK' BY <1>1, <2>4, SameLevels
  <2> QED BY <1>1, <1>2, <2>5
<1> QED BY <1>1, <1>2, <1>4, <1>5

\* What each call does to the blocks, and that an allocator may do it.
LEMMA BlocksStep ==
  ASSUME SlabInv, SlabNext
  PROVE  BuddyInv' /\ LevelsOK' /\ [H!Next]_allocated
<1>0. Inv /\ BuddyInv /\ LevelsOK BY DEF SlabInv
<1>1. PICK c \in Caches :
        \/ CreateCache(c) \/ AllocateSlot(c) \/ RunsOut(c)
        \/ \E o \in objects : FreeSlot(c, o)
        \/ Shrink(c) \/ Destroy(c)
  BY DEF SlabNext
<1>2. CASE CreateCache(c) BY <1>0, <1>2, CreateLevels
<1>3. CASE AllocateSlot(c) BY <1>0, <1>3, AllocateLevels
<1>4. CASE RunsOut(c)
  BY <1>0, <1>4 DEF RunsOut, vars, BuddyInv, BuddyOK, FreeOK, OwnedOK, FreeNotOwned,
                    LevelsOK, SlabLevel
<1>5. CASE \E o \in objects : FreeSlot(c, o) BY <1>0, <1>5, FreeLevels
<1>6. ASSUME NEW q \in Seq(DOMAIN slab), Distinct(q), DeallocSlabs(q)
      PROVE  BuddyInv' /\ LevelsOK' /\ [H!Next]_allocated
  BY <1>0, <1>6, DeallocKeeps DEF H!Next, H!Free
<1>7. CASE Shrink(c)
  <2>1. c \in live /\ DeallocSlabs(Shrunk(c)) BY <1>7 DEF Shrink
  <2> QED BY <1>0, <1>6, <2>1, ShrunkList
<1>8. CASE Destroy(c)
  <2>1. PICK q : q = slabList[c]["EMPTY"] \o slabList[c]["PARTIAL"] \o slabList[c]["FULL"]
    OBVIOUS
  <2>2. c \in live /\ DeallocSlabs(q) BY <1>8, <2>1 DEF Destroy
  <2>3. q \in Seq(DOMAIN slab) /\ Distinct(q) BY <1>0, <2>1, <2>2, DestroyedList
  <2> QED BY <1>6, <2>2, <2>3
<1> QED BY <1>1, <1>2, <1>3, <1>4, <1>5, <1>7, <1>8

\* The lists of one cache change.
LEMMA ShapeStep ==
  ASSUME ListsShaped, NEW c \in Caches, NEW v, IsFunctionOn(v, States),
         slabList' = [slabList EXCEPT ![c] = v]
  PROVE  ListsShaped'
<1>1. DOMAIN slabList = Caches BY DEF ListsShaped, IsFunctionOn
<1>2. IsFunctionOn(slabList', Caches)
  <2>1. slabList' = [d \in Caches |-> IF d = c THEN v ELSE slabList[d]] BY <1>1
  <2> QED BY <2>1 DEF IsFunctionOn
<1>3. \A d \in Caches : slabList'[d] = IF d = c THEN v ELSE slabList[d] BY <1>1
<1>4. \A d \in Caches : IsFunctionOn(slabList'[d], States) BY <1>3 DEF ListsShaped
<1> QED BY <1>2, <1>4 DEF ListsShaped, IsFunctionOn

LEMMA MovedShape ==
  ASSUME NEW lists, IsFunctionOn(lists, States), NEW s, NEW from, NEW to
  PROVE  IsFunctionOn(Moved(lists, s, from, to), States)
<1>1. CASE from = to BY <1>1 DEF Moved
<1>2. CASE from # to
  <2> DEFINE f == [k \in States |->
                     CASE k = to   -> <<s>> \o lists[k]
                       [] k = from -> Without(lists[k], s)
                       [] OTHER    -> lists[k]]
  <2>1. Moved(lists, s, from, to) = f BY <1>2, Zenon DEF Moved
  <2>2. DOMAIN f = States /\ f = [k \in States |-> f[k]] OBVIOUS
  <2> HIDE DEF f
  <2>3. IsFunctionOn(f, States) BY <2>2 DEF IsFunctionOn
  <2> QED BY <2>1, <2>3
<1> QED BY <1>1, <1>2

LEMMA RestStep ==
  ASSUME SlabInv, SlabNext PROVE RestOK'
<1>0. Inv /\ RestOK BY DEF SlabInv
<1>1. PICK c \in Caches :
        \/ CreateCache(c) \/ AllocateSlot(c) \/ RunsOut(c)
        \/ \E o \in objects : FreeSlot(c, o)
        \/ Shrink(c) \/ Destroy(c)
  BY DEF SlabNext
<1>2. DOMAIN slabList = Caches BY <1>0 DEF Inv, Types
<1>3. hung' \in BOOLEAN
  BY <1>0, <1>1 DEF CreateCache, AllocateSlot, RunsOut, FreeSlot, Shrink, Destroy, RestOK
<1>4. errortype' \in [Caches -> {"NoError", "FreeSlotError", "next"}]
  <2>1. \/ errortype' = errortype
        \/ \E e \in {"NoError", "FreeSlotError", "next"} : errortype' = [errortype EXCEPT ![c] = e]
    <3>1. CASE CreateCache(c)
      <4>1. PICK l \in FirstLevel(1) :
              errortype' = [errortype EXCEPT ![c] = IF Len(buddy[l]) = 1 THEN "NoError" ELSE "next"]
        BY <3>1 DEF CreateCache
      <4> QED BY <4>1
    <3>2. CASE \E o \in objects : FreeSlot(c, o) BY <3>2 DEF FreeSlot
    <3>3. CASE AllocateSlot(c) \/ RunsOut(c) \/ Shrink(c) \/ Destroy(c)
      BY <3>3 DEF AllocateSlot, RunsOut, Shrink, Destroy
    <3> QED BY <1>1, <3>1, <3>2, <3>3
  <2> QED BY <1>0, <2>1 DEF RestOK
<1>5. \A d \in Caches \ live' : slabList'[d] = NoSlabs
  <2>1. ASSUME c \in live, live' = live, \A d \in Caches : d # c => slabList'[d] = slabList[d]
        PROVE  \A d \in Caches \ live' : slabList'[d] = NoSlabs
    BY <1>0, <2>1 DEF RestOK
  <2>2. CASE CreateCache(c)
    <3>1. live' = live \cup {c} /\ slabList' = [slabList EXCEPT ![c] = NoSlabs]
      BY <2>2 DEF CreateCache
    <3> QED BY <1>0, <1>2, <3>1 DEF RestOK
  <2>3. CASE RunsOut(c) BY <1>0, <2>3 DEF RunsOut, RestOK
  <2>4. CASE Destroy(c)
    <3>1. live' = live \ {c} /\ slabList' = [slabList EXCEPT ![c] = NoSlabs]
      BY <2>4 DEF Destroy
    <3> QED BY <1>0, <1>2, <3>1 DEF RestOK
  <2>5. CASE AllocateSlot(c)
    <3>1. c \in live /\ live' = live BY <2>5 DEF AllocateSlot
    <3>2. \E v : slabList' = [slabList EXCEPT ![c] = v]
      <4>1. \E s, h : GetFreeSlot(c, s, h) BY <2>5 DEF AllocateSlot
      <4> QED BY <4>1 DEF GetFreeSlot
    <3> QED BY <1>2, <2>1, <3>1, <3>2
  <2>6. CASE \E o \in objects : FreeSlot(c, o)
    <3>1. c \in live /\ live' = live BY <2>6 DEF FreeSlot
    <3>2. slabList' = slabList \/ \E v : slabList' = [slabList EXCEPT ![c] = v]
      BY <2>6 DEF FreeSlot
    <3> QED BY <1>2, <2>1, <3>1, <3>2
  <2>7. CASE Shrink(c)
    <3>1. c \in live /\ live' = live /\ slabList' = [slabList EXCEPT ![c]["EMPTY"] = <<>>]
      BY <2>7 DEF Shrink
    <3> QED BY <1>2, <2>1, <3>1
  <2> QED BY <1>1, <2>2, <2>3, <2>4, <2>5, <2>6, <2>7
<1>6. ListsShaped'
  <2>1. ListsShaped /\ IsFunctionOn(slabList[c], States) BY <1>0 DEF RestOK, ListsShaped
  <2>2. ASSUME slabList' = slabList PROVE ListsShaped'
    BY <2>1, <2>2 DEF ListsShaped, IsFunctionOn
  <2>3. CASE CreateCache(c) \/ Destroy(c)
    <3>1. IsFunctionOn(NoSlabs, States) BY DEF NoSlabs, IsFunctionOn
    <3>2. slabList' = [slabList EXCEPT ![c] = NoSlabs] BY <2>3 DEF CreateCache, Destroy
    <3> QED BY <2>1, <3>1, <3>2, ShapeStep
  <2>4. ASSUME NEW s, NEW from, NEW to,
               slabList' = [slabList EXCEPT ![c] = Moved(@, s, from, to)]
        PROVE  ListsShaped'
    <3>1. slabList' = [slabList EXCEPT ![c] = Moved(slabList[c], s, from, to)] BY <2>4
    <3>2. IsFunctionOn(Moved(slabList[c], s, from, to), States) BY <2>1, MovedShape
    <3> QED BY <2>1, <3>1, <3>2, ShapeStep
  <2>5. CASE AllocateSlot(c)
    <3>1. PICK s, h : GetFreeSlot(c, s, h) BY <2>5 DEF AllocateSlot
    <3> QED BY <2>4, <3>1 DEF GetFreeSlot
  <2>6. CASE \E o \in objects : FreeSlot(c, o) BY <2>2, <2>4, <2>6 DEF FreeSlot
  <2>7. CASE RunsOut(c) BY <2>2, <2>7 DEF RunsOut
  <2>8. CASE Shrink(c)
    <3>1. PICK v : v = [slabList[c] EXCEPT !["EMPTY"] = <<>>] OBVIOUS
    <3>2. slabList' = [slabList EXCEPT ![c] = v] BY <2>8, <3>1 DEF Shrink
    <3>3. IsFunctionOn(v, States)
      <4>1. DOMAIN v = States BY <2>1, <3>1 DEF IsFunctionOn
      <4> QED BY <3>1, <4>1 DEF IsFunctionOn
    <3> QED BY <2>1, <3>2, <3>3, ShapeStep
  <2> QED BY <1>1, <2>3, <2>5, <2>6, <2>7, <2>8
<1> QED BY <1>3, <1>4, <1>5, <1>6 DEF RestOK

\* The lists, the headers, the blocks and what the clients own agree after every call.
THEOREM Invariance == SlabSpec => []SlabInv
<1>1. SlabInit => SlabInv
  <2> SUFFICES ASSUME SlabInit PROVE SlabInv OBVIOUS
  <2>1. Init BY DEF SlabInit
  <2>2. DOMAIN slab = {} /\ allocated = {} BY DEF SlabInit, Init
  <2>3. LevelsOK BY <2>2 DEF LevelsOK
  <2>4. RestOK
    <3>1. ListsShaped BY DEF SlabInit, ListsShaped, IsFunctionOn, NoSlabs
    <3> QED BY <3>1 DEF SlabInit, RestOK
  <2> QED BY <2>1, <2>3, <2>4, InvInit, BuddyInvInit DEF SlabInv
<1>2. SlabInv /\ [SlabNext]_<<vars, slabVars>> => SlabInv'
  <2>1. ASSUME SlabInv, SlabNext PROVE SlabInv'
    <3>1. BuddyInv' /\ LevelsOK' /\ RestOK' BY <2>1, BlocksStep, RestStep
    <3>2. Inv' BY <2>1, <3>1, InvStep DEF SlabInv
    <3> QED BY <3>1, <3>2 DEF SlabInv
  <2>2. ASSUME SlabInv, UNCHANGED <<vars, slabVars>> PROVE SlabInv'
    <3>1. UNCHANGED <<buddy, allocated, live, slabList, slab, errortype, objects, hung>>
      BY <2>2 DEF vars, slabVars
    <3>2. BuddyInv' BY <2>2, <3>1 DEF SlabInv, BuddyInv, BuddyOK, FreeOK, OwnedOK, FreeNotOwned
    <3>3. LevelsOK' /\ RestOK'
      BY <2>2, <3>1 DEF SlabInv, LevelsOK, SlabLevel, RestOK, ListsShaped, IsFunctionOn
    <3>4. Inv' BY <2>2, <3>2, InvStep DEF SlabInv
    <3> QED BY <3>2, <3>3, <3>4 DEF SlabInv
  <2> QED BY <2>1, <2>2
<1> QED BY <1>1, <1>2, PTL DEF SlabSpec

-----------------------------------------------------------------------------
(* Theorems *)

\* A slot that is in use is not handed out again nor given back too soon, and no slab
\* is given back while a client owns an object in it.
THEOREM HeldCorrect == SlabSpec => []ObjectsHeld
<1>1. Inv => ObjectsHeld
  <2> SUFFICES ASSUME Inv PROVE ObjectsHeld OBVIOUS
  <2>1. \A o \in objects : o.slab \in SlabsOf(o.cache) /\ o.slot \in slab[o.slab].slots
    BY OwnedSlot DEF SlabsOf
  <2>2. ASSUME NEW s \in DOMAIN slab PROVE slab[s].allocatedSlots = Cardinality(Users(s))
    <3> DEFINE S == slab[s].slots
               f == [n \in S |-> [cache |-> slab[s].parentCache, slab |-> s, slot |-> n]]
    <3>1. HeaderOK(s) /\ IsFiniteSet(S) BY FiniteSlots DEF Inv
    <3>2. \A o \in Users(s) : o.slot \in S /\ f[o.slot] = o
      BY <3>1 DEF HeaderOK, Users, Inv, Types
    <3>3. \A n \in S : f[n] \in Users(s) /\ f[n].slot = n
      <4> TAKE n \in S
      <4>1. PICK o \in Users(s) : o.slot = n BY <3>1 DEF HeaderOK
      <4> QED BY <3>2, <4>1
    <3>4. f \in Bijection(S, Users(s))
      <4>1. f \in [S -> Users(s)] BY <3>3
      <4>2. f \in Injection(S, Users(s)) BY <3>3, <4>1 DEF Injection, IsInjective
      <4>3. f \in Surjection(S, Users(s)) BY <3>2, <4>1 DEF Surjection
      <4> QED BY <4>2, <4>3 DEF Bijection
    <3> HIDE DEF S, f
    <3>5. Cardinality(S) = Cardinality(Users(s))
      BY <3>1, <3>4, FS_Bijection DEF ExistsBijection
    <3> QED BY <3>1, <3>5 DEF HeaderOK, S
  <2> QED BY <2>1, <2>2 DEF ObjectsHeld, Users
<1>2. SlabInv => Inv BY DEF SlabInv
<1> QED BY <1>1, <1>2, Invariance, PTL

\* Each slab is on one list of its cache, the one its slots in use say, once.
THEOREM ListedCorrect == SlabSpec => []SlabsListed
<1>1. Inv => SlabsListed
  <2> SUFFICES ASSUME Inv, NEW c \in live, NEW k \in States
               PROVE  /\ Members(slabList[c][k]) =
                           {s \in SlabsOf(c) :
                              CalculateNewState(c, Cardinality(slab[s].slots)) = k}
                      /\ Cardinality(Members(slabList[c][k])) = Len(slabList[c][k])
    BY DEF SlabsListed
  <2>1. ListOK(c, k) BY DEF Inv, ListsOK
  <2>2. \A s \in SlabsOf(c) :
          slab[s].state = CalculateNewState(c, Cardinality(slab[s].slots))
    <3>1. \A s \in DOMAIN slab : HeaderOK(s) BY DEF Inv
    <3> QED BY <3>1 DEF HeaderOK, SlabsOf
  <2>3. Cardinality(Members(slabList[c][k])) = Len(slabList[c][k])
    BY <2>1, DistinctLength DEF ListOK
  <2> QED BY <2>1, <2>2, <2>3 DEF ListOK
<1>2. SlabInv => Inv BY DEF SlabInv
<1> QED BY <1>1, <1>2, Invariance, PTL

\* A cache takes another slab only when every slot of the ones it has is in use.
THEOREM GrowthCorrect == SlabSpec => GrowsOnlyWhenFull
<1> DEFINE Grows == \A c \in live : SlabsOf(c)' \ SlabsOf(c) # {} =>
                      \A s \in SlabsOf(c) : Cardinality(slab[s].slots) = OptimalSlots[c]
<1>1. ASSUME Inv, NEW c \in Caches, AllocateSlot(c) PROVE Grows
  <2>1. c \in live BY <1>1 DEF AllocateSlot
  <2>2. CASE slabList[c]["PARTIAL"] = <<>> /\ slabList[c]["EMPTY"] = <<>>
             /\ \E a : GetFreeSlot(c, a, NewSlab(c))
    <3>1. \A s \in SlabsOf(c) : Cardinality(slab[s].slots) = OptimalSlots[c]
      <4> TAKE s \in SlabsOf(c)
      <4>1. s \in DOMAIN slab /\ slab[s].parentCache = c BY DEF SlabsOf
      <4>2. HeaderOK(s) BY <1>1, <4>1 DEF Inv
      <4>3. slab[s].state \in States BY <4>2, StateType DEF HeaderOK
      <4>4. \A k \in {"PARTIAL", "EMPTY"} : slab[s].state # k
        <5>1. \A k \in States : ListOK(c, k) BY <1>1, <2>1 DEF Inv, ListsOK
        <5> QED BY <2>2, <5>1, NoMembers DEF ListOK, States
      <4>5. slab[s].state = "FULL" BY <4>3, <4>4 DEF States
      <4> QED BY <4>1, <4>2, <4>5 DEF HeaderOK, CalculateNewState
    <3>2. \A d \in live : d # c => SlabsOf(d)' \subseteq SlabsOf(d)
      <4>1. PICK a, h : slab' = WithHeader(a, h) /\ h.parentCache = c
        <5>1. NewSlab(c) \in Headers /\ NewSlab(c).parentCache = c
          BY <1>1 DEF NewSlab, Headers
        <5> QED BY <2>2, <5>1, SameCache
      <4> QED BY <4>1 DEF SlabsOf, WithHeader
    <3> QED BY <3>1, <3>2
  <2>3. CASE \E k \in {"PARTIAL", "EMPTY"} :
               /\ slabList[c][k] # <<>>
               /\ GetFreeSlot(c, Head(slabList[c][k]), slab[Head(slabList[c][k])])
    <3>1. PICK k \in {"PARTIAL", "EMPTY"} :
            /\ slabList[c][k] # <<>>
            /\ GetFreeSlot(c, Head(slabList[c][k]), slab[Head(slabList[c][k])])
      BY <2>3
    <3>2. ListOK(c, k) BY <1>1, <2>1 DEF Inv, ListsOK, States
    <3>3. PICK a : a = Head(slabList[c][k]) OBVIOUS
    <3>4. a \in DOMAIN slab BY <3>1, <3>2, <3>3 DEF ListOK
    <3>5. slab[a] \in Headers BY <1>1, <3>4 DEF Inv, Types
    <3>6. PICK h : slab' = WithHeader(a, h) /\ h.parentCache = slab[a].parentCache
      BY <3>1, <3>3, <3>5, SameCache
    <3> QED BY <3>4, <3>6 DEF SlabsOf, WithHeader
  <2> QED BY <1>1, <2>2, <2>3 DEF AllocateSlot
<1>2. ASSUME Inv, NEW c \in Caches, NEW o \in objects, FreeSlot(c, o) PROVE Grows
  <2>1. o.slab \in DOMAIN slab /\ slab[o.slab] \in Headers
    BY <1>2, OwnedSlot DEF Inv, Types
  <2>2. slab' = slab \/ \E h : slab' = WithHeader(o.slab, h)
                               /\ h.parentCache = slab[o.slab].parentCache
    <3> DEFINE h  == slab[o.slab]
               h2 == [h EXCEPT !.slots = @ \ {o.slot}, !.allocatedSlots = @ - 1,
                               !.state = CalculateNewState(c, h.allocatedSlots - 1)]
    <3>1. slab' = slab \/ slab' = WithHeader(o.slab, h2) BY <1>2 DEF FreeSlot
    <3>2. h2.parentCache = h.parentCache BY <2>1 DEF Headers
    <3> QED BY <3>1, <3>2
  <2> QED BY <2>1, <2>2 DEF SlabsOf, WithHeader
<1>3. ASSUME NEW q, DeallocSlabs(q) PROVE Grows
  BY <1>3, DeallocProperties DEF SlabsOf
<1>4. ASSUME slab' = slab PROVE Grows
  BY <1>4 DEF SlabsOf
<1>5. Inv /\ [SlabNext]_<<vars, slabVars>> => [Grows]_<<vars, slabVars>>
  <2> SUFFICES ASSUME Inv, SlabNext PROVE Grows OBVIOUS
  <2> HIDE DEF Grows
  <2>1. PICK c \in Caches :
          \/ CreateCache(c) \/ AllocateSlot(c) \/ RunsOut(c)
          \/ \E o \in objects : FreeSlot(c, o)
          \/ Shrink(c) \/ Destroy(c)
    BY DEF SlabNext
  <2>2. CASE CreateCache(c) \/ RunsOut(c) BY <1>4, <2>2 DEF CreateCache, RunsOut
  <2>3. CASE Shrink(c) \/ Destroy(c) BY <1>3, <2>3, Zenon DEF Shrink, Destroy
  <2> QED BY <1>1, <1>2, <2>1, <2>2, <2>3
<1>6. SlabSpec => [][Grows]_<<vars, slabVars>>
  <2> HIDE DEF Grows
  <2>1. SlabInv => Inv BY DEF SlabInv
  <2> QED BY <1>5, <2>1, Invariance, PTL DEF SlabSpec
<1> QED BY <1>6 DEF GrowsOnlyWhenFull

\* The address of a block lies in the arena.
LEMMA BaseInArena ==
  ASSUME NEW a, NEW k, IsBlock(a, k) PROVE a \in Arena
<1>1. a \in Nat /\ SizeOf(k) \in Nat \ {0} BY BlockNumbers
<1>2. SizeOf(maxPowerSize) \in Nat BY MaxPowerSizeAssumption, Sizes
<1>3. a + SizeOf(k) <= SizeOf(maxPowerSize) BY DEF IsBlock
<1> QED BY <1>1, <1>2, <1>3 DEF Arena

LEMMA OwnedInArena ==
  ASSUME BuddyInv, NEW x \in allocated PROVE x.base \in Arena
BY BaseInArena DEF BuddyInv, BuddyOK, OwnedOK

\* The headers are headers of slabs of caches that exist, in the arena, with counts that
\* fit, and the lists are lists of addresses in the arena.
THEOREM SlabTypeCorrect == SlabSpec => []SlabTypeOK
<1>1. SlabInv => SlabTypeOK
  <2> SUFFICES ASSUME SlabInv PROVE SlabTypeOK OBVIOUS
  <2>1. Inv /\ BuddyInv /\ RestOK BY DEF SlabInv
  <2>2. DOMAIN slab \subseteq Arena BY <2>1, OwnedInArena DEF Inv
  <2>3. slabList \in [Caches -> [States -> Seq(Arena)]]
    <3>1. ASSUME NEW c \in Caches, NEW k \in States PROVE slabList[c][k] \in Seq(Arena)
      <4>1. CASE c \notin live
        <5>1. slabList[c][k] = <<>> BY <2>1, <4>1 DEF RestOK, NoSlabs
        <5> QED BY <5>1
      <4>2. CASE c \in live
        <5>1. slabList[c][k] \in Seq(DOMAIN slab) BY <2>1, <4>2 DEF Inv, ListsOK, ListOK
        <5> QED BY <2>2, <5>1
      <4> QED BY <4>1, <4>2
    <3> QED BY <2>1, <3>1 DEF RestOK, ListsShaped, IsFunctionOn
  <2>4. ASSUME NEW s \in DOMAIN slab
        PROVE  /\ slab[s].parentCache \in live
               /\ slab[s].state \in States
               /\ slab[s].slots \subseteq 1..OptimalSlots[slab[s].parentCache]
               /\ slab[s].allocatedSlots \in 0..OptimalSlots[slab[s].parentCache]
    <3>1. HeaderOK(s) BY <2>1 DEF Inv
    <3>2. slab[s].state \in States BY <3>1, StateType DEF HeaderOK
    <3>3. PICK n \in Nat : n = OptimalSlots[slab[s].parentCache] BY <2>1, FiniteSlots
    <3>4. IsFiniteSet(1..n) /\ Cardinality(1..n) = n
      <4>1. 1 \in Int /\ n \in Int BY <3>3
      <4>2. /\ IsFiniteSet(1..n)
            /\ Cardinality(1..n) = IF 1 > n THEN 0 ELSE n - 1 + 1
        BY <4>1, FS_Interval, Zenon
      <4> QED BY <3>3, <4>2
    <3>5. slab[s].slots \subseteq 1..n BY <3>1, <3>3 DEF HeaderOK
    <3>6. Cardinality(slab[s].slots) \in Nat /\ Cardinality(slab[s].slots) <= n
      BY <3>4, <3>5, FS_Subset, FS_CardinalityType
    <3>7. slab[s].allocatedSlots \in 0..n BY <3>1, <3>3, <3>6 DEF HeaderOK
    <3> QED BY <3>1, <3>2, <3>3, <3>5, <3>7 DEF HeaderOK
  <2>5. objects \subseteq [cache : Caches, slab : Arena, slot : Nat]
    BY <2>1, <2>2 DEF Inv, Types
  <2>6. live \subseteq Caches BY <2>1 DEF Inv, Types
  <2> QED BY <2>1, <2>2, <2>3, <2>4, <2>5, <2>6 DEF SlabTypeOK, RestOK
<1> QED BY <1>1, Invariance, PTL

\* A slab that exists has the block it was cut from, which is large enough for it and is
\* not given back before the slab is.
THEOREM SlabBlocksCorrect == SlabSpec => []SlabsHaveBlocks
<1>1. SlabInv => SlabsHaveBlocks
  <2> SUFFICES ASSUME SlabInv, NEW s \in DOMAIN slab
               PROVE  \E x \in allocated : x.base = s /\ x.size >= SlabSize[slab[s].parentCache]
    BY DEF SlabsHaveBlocks
  <2>1. Inv /\ BuddyInv /\ LevelsOK BY DEF SlabInv
  <2>2. PICK x \in allocated : x.base = s BY <2>1 DEF Inv
  <2>3. PICK c \in Caches : c = slab[s].parentCache BY <2>1 DEF Inv, HeaderOK, Types
  <2>4. x.level = SlabLevel(c) BY <2>1, <2>2, <2>3 DEF LevelsOK
  <2>5. x.size = SizeOf(x.level) BY <2>1 DEF BuddyInv, BuddyOK, OwnedOK
  <2>6. x.size >= SlabSize[c] BY <2>4, <2>5, LevelEnough
  <2> QED BY <2>2, <2>3, <2>6
<1> QED BY <1>1, Invariance, PTL

\* Whatever the slab allocator asks of the buddy allocator, giving back one block of a
\* larger slab (Cache.cpp:184) included, no unit is in two blocks.
THEOREM SlabBlocksDisjoint == SlabSpec => []BlocksDisjoint
<1>1. SlabInv => BuddyInv BY DEF SlabInv
<1> QED BY <1>1, Invariance, BuddyInvDisjoint, PTL

\* Nor is a block free together with its other half.
THEOREM SlabHalvesMerged == SlabSpec => []HalvesMerged
<1>1. SlabInv => BuddyInv BY DEF SlabInv
<1> QED BY <1>1, Invariance, BuddyInvMerged, PTL

\* To the caches the buddy allocator is an allocator: every call of slab.h takes a segment
\* that overlaps none that is owned, or gives some back.
THEOREM SlabImplementsHeap == SlabSpec => ImplementsHeap
<1>1. SlabInit => H!Init BY DEF SlabInit, Init, H!Init
<1>2. SlabInv /\ [SlabNext]_<<vars, slabVars>> => [H!Next]_allocated
  <2>1. SlabInv /\ SlabNext => [H!Next]_allocated BY BlocksStep
  <2>2. UNCHANGED <<vars, slabVars>> => UNCHANGED allocated BY DEF vars
  <2> QED BY <2>1, <2>2
<1> QED BY <1>1, <1>2, Invariance, PTL DEF SlabSpec, H!Spec, ImplementsHeap

\* The program with pointers, which the runs check: its actions are those of SlabCache
\* with a condition on the links more, so that what is proved of SlabCache holds of it.
LEMMA LinksAreSlabCache == LinkSpec => SlabSpec
<1>1. LinkInit => SlabInit BY DEF LinkInit
<1>2. [LinkNext]_linkVars => [SlabNext]_<<vars, slabVars>>
  <2>1. LinkNext => SlabNext
    BY Zenon DEF LinkNext, SlabNext, LinkCreate, LinkAllocate, LinkFree, LinkShrink, LinkDestroy
  <2>2. UNCHANGED linkVars => UNCHANGED <<vars, slabVars>> BY DEF linkVars
  <2> QED BY <2>1, <2>2
<1> QED BY <1>1, <1>2, PTL DEF LinkSpec, SlabSpec

-----------------------------------------------------------------------------
(* The lists as pointers *)

\* From h on next leads along q and ends.
Chain(next, h, q) ==
  /\ h = IF Len(q) = 0 THEN NULL ELSE q[1]
  /\ \A i \in 1..Len(q) : next[q[i]] = IF i < Len(q) THEN q[i + 1] ELSE NULL

Links == [head : [Caches -> [States -> Arena \cup {NULL}]], next : [Arena -> Arena \cup {NULL}]]

\* The pointers l lead along the lists, and where there is no slab of D they are NULL.
LinksOK(l, lists, D) ==
  /\ l \in Links
  /\ \A c \in Caches, k \in States : Chain(l.next, l.head[c][k], lists[c][k])
  /\ \A t \in Arena \ D : l.next[t] = NULL

\* No slab is on two lists or twice on one.
ListsApart(lists, D) ==
  /\ D \subseteq Arena
  /\ \A c \in Caches, k \in States : lists[c][k] \in Seq(D) /\ Distinct(lists[c][k])
  /\ \A c, d \in Caches, k, j \in States :
       c # d \/ k # j => Members(lists[c][k]) \cap Members(lists[d][j]) = {}

Replaced(lists, after, c, k, v) ==
  \A d \in Caches, j \in States :
    after[d][j] = IF d = c /\ j = k THEN v ELSE lists[d][j]

LinkInv == LinksOK(links, slabList, DOMAIN slab)

LEMMA NullNotInArena == NULL \notin Arena
<1>1. SizeOf(maxPowerSize) \in Nat BY MaxPowerSizeAssumption, Sizes
<1> QED BY <1>1, NullAssumption DEF Arena

LEMMA LinkTypes ==
  ASSUME NEW l \in Links
  PROVE  /\ l.next \in [Arena -> Arena \cup {NULL}]
         /\ \A c \in Caches, k \in States : l.head[c][k] \in Arena \cup {NULL}
BY DEF Links

LEMMA TakeOutLinks ==
  ASSUME NEW l \in Links, NEW c \in Caches, NEW k \in States, NEW s \in Arena
  PROVE  /\ TakeOut(l, c, s, k) \in Links
         /\ \A t \in Arena : TakeOut(l, c, s, k).next[t] =
              IF t = s THEN NULL ELSE IF l.next[t] = s THEN l.next[s] ELSE l.next[t]
         /\ \A d \in Caches, j \in States : TakeOut(l, c, s, k).head[d][j] =
              IF d = c /\ j = k /\ l.head[d][j] = s THEN l.next[s] ELSE l.head[d][j]
<1> DEFINE h == [l.head EXCEPT ![c][k] = IF @ = s THEN l.next[s] ELSE @]
           n == [t \in Arena |-> IF t = s THEN NULL
                                 ELSE IF l.next[t] = s THEN l.next[s] ELSE l.next[t]]
<1>1. l.head \in [Caches -> [States -> Arena \cup {NULL}]]
      /\ l.next \in [Arena -> Arena \cup {NULL}]
  BY DEF Links
<1>2. n \in [Arena -> Arena \cup {NULL}] BY <1>1
<1>3. h \in [Caches -> [States -> Arena \cup {NULL}]]
  <2>1. PICK v \in Arena \cup {NULL} : v = IF l.head[c][k] = s THEN l.next[s] ELSE l.head[c][k]
    BY <1>1
  <2>2. h = [l.head EXCEPT ![c] = [l.head[c] EXCEPT ![k] = v]] BY <1>1, <2>1
  <2>3. [l.head[c] EXCEPT ![k] = v] \in [States -> Arena \cup {NULL}] BY <1>1, <2>1
  <2> QED BY <1>1, <2>2, <2>3
<1>4. \A d \in Caches, j \in States :
        h[d][j] = IF d = c /\ j = k /\ l.head[d][j] = s THEN l.next[s] ELSE l.head[d][j]
  BY <1>1
<1>5. TakeOut(l, c, s, k) = [head |-> h, next |-> n] BY DEF TakeOut
<1> HIDE DEF h
<1>6. \A t \in Arena : n[t] = IF t = s THEN NULL ELSE IF l.next[t] = s THEN l.next[s] ELSE l.next[t]
  OBVIOUS
<1> HIDE DEF n
<1> QED BY <1>2, <1>3, <1>4, <1>5, <1>6 DEF Links

LEMMA PutFirstLinks ==
  ASSUME NEW l \in Links, NEW c \in Caches, NEW k \in States, NEW s \in Arena
  PROVE  /\ PutFirst(l, c, s, k) \in Links
         /\ \A t \in Arena : PutFirst(l, c, s, k).next[t] =
              IF t = s /\ l.head[c][k] # NULL THEN l.head[c][k] ELSE l.next[t]
         /\ \A d \in Caches, j \in States : PutFirst(l, c, s, k).head[d][j] =
              IF d = c /\ j = k THEN s ELSE l.head[d][j]
<1>1. l.head \in [Caches -> [States -> Arena \cup {NULL}]]
      /\ l.next \in [Arena -> Arena \cup {NULL}]
  BY DEF Links
<1>2. l = [head |-> l.head, next |-> l.next] BY DEF Links
<1>3. PICK v \in Arena \cup {NULL} : v = IF l.head[c][k] # NULL THEN l.head[c][k] ELSE l.next[s]
  BY <1>1
<1> DEFINE h == [l.head EXCEPT ![c] = [l.head[c] EXCEPT ![k] = s]]
           n == [l.next EXCEPT ![s] = v]
<1>4. PutFirst(l, c, s, k) = [head |-> h, next |-> n]
  <2>1. PutFirst(l, c, s, k) = [l EXCEPT !.next[s] = v, !.head[c][k] = s]
    BY <1>3 DEF PutFirst
  <2>2. @ = [l EXCEPT !.next = n, !.head = h] BY <1>1, <1>2
  <2>3. @ = [head |-> h, next |-> n]
    <3>1. PICK a, b : l = [head |-> a, next |-> b] BY <1>2
    <3> HIDE DEF h, n
    <3>2. [l EXCEPT !.next = n] = [head |-> a, next |-> n] BY <3>1
    <3>3. [[head |-> a, next |-> n] EXCEPT !.head = h] = [head |-> h, next |-> n] OBVIOUS
    <3> QED BY <3>2, <3>3, Zenon
  <2> QED BY <2>1, <2>2, <2>3
<1>5. n \in [Arena -> Arena \cup {NULL}] BY <1>1
<1>6. h \in [Caches -> [States -> Arena \cup {NULL}]]
  <2>1. [l.head[c] EXCEPT ![k] = s] \in [States -> Arena \cup {NULL}] BY <1>1
  <2> QED BY <1>1, <2>1
<1>7. \A d \in Caches, j \in States : h[d][j] = IF d = c /\ j = k THEN s ELSE l.head[d][j]
  BY <1>1
<1>8. \A t \in Arena : n[t] = IF t = s /\ l.head[c][k] # NULL THEN l.head[c][k] ELSE l.next[t]
  BY <1>1, <1>3
<1> HIDE DEF h, n
<1> QED BY <1>4, <1>5, <1>6, <1>7, <1>8 DEF Links

\* What the pointer of an entry leads to is on the same list.
LEMMA ChainStays ==
  ASSUME NEW next, NEW h, NEW q, NEW D, q \in Seq(D), Chain(next, h, q), NEW i \in 1..Len(q)
  PROVE  next[q[i]] = NULL \/ next[q[i]] \in Members(q)
<1>1. i < Len(q) => i + 1 \in 1..Len(q) OBVIOUS
<1> QED BY <1>1 DEF Chain, Members

\* Taking a slab out of its list leaves the others on theirs.
LEMMA TakeOutKeeps ==
  ASSUME NEW l, NEW lists, NEW after, NEW D, LinksOK(l, lists, D), ListsApart(lists, D),
         NEW c \in Caches, NEW k \in States, NEW s \in Members(lists[c][k]),
         Replaced(lists, after, c, k, Without(lists[c][k], s))
  PROVE  LinksOK(TakeOut(l, c, s, k), after, D \ {s}) /\ ListsApart(after, D \ {s})
<1> DEFINE q == lists[c][k]
<1>1. q \in Seq(D) /\ Distinct(q) /\ D \subseteq Arena BY DEF ListsApart
<1>2. PICK n \in 1..Len(q) : q[n] = s BY DEF Members
<1>3. s \in D /\ s \in Arena /\ s # NULL BY <1>1, <1>2, NullNotInArena
<1>4. PICK r : r = Without(q, s) OBVIOUS
<1>5. /\ r \in Seq(D) /\ Len(r) = Len(q) - 1 /\ Len(q) \in Nat
      /\ \A i \in 1..Len(r) : r[i] = IF i < n THEN q[i] ELSE q[i + 1]
  <2> HIDE DEF q
  <2>1. /\ Without(q, q[n]) \in Seq(D) /\ Len(Without(q, q[n])) = Len(q) - 1
        /\ \A i \in 1 .. Len(q) - 1 :
             Without(q, q[n])[i] = IF i < n THEN q[i] ELSE q[i + 1]
    BY <1>1, WithoutAt
  <2>2. Without(q, q[n]) = r BY <1>2, <1>4
  <2> QED BY <1>1, <2>1, <2>2
<1>6. Members(r) = Members(q) \ {s} /\ Distinct(r) BY <1>1, <1>4, WithoutProperties
<1>7. PICK m : m = TakeOut(l, c, s, k) OBVIOUS
<1>8. l \in Links BY DEF LinksOK
<1>9. /\ m \in Links
      /\ \A t \in Arena : m.next[t] =
           IF t = s THEN NULL ELSE IF l.next[t] = s THEN l.next[s] ELSE l.next[t]
      /\ \A d \in Caches, j \in States : m.head[d][j] =
           IF d = c /\ j = k /\ l.head[d][j] = s THEN l.next[s] ELSE l.head[d][j]
  BY <1>3, <1>7, <1>8, TakeOutLinks
<1>10. Chain(l.next, l.head[c][k], q) BY DEF LinksOK
<1>11. l.next[s] = IF n < Len(q) THEN q[n + 1] ELSE NULL BY <1>2, <1>10 DEF Chain
<1>12. Chain(m.next, m.head[c][k], r)
  <2>1. m.head[c][k] = IF Len(r) = 0 THEN NULL ELSE r[1]
    <3>1. l.head[c][k] = q[1] BY <1>2, <1>5, <1>10 DEF Chain
    <3>2. CASE n = 1
      <4>1. m.head[c][k] = l.next[s] BY <1>2, <1>9, <3>1, <3>2
      <4>2. Len(q) \in Nat /\ Len(r) \in Nat /\ Len(q) >= 1 /\ Len(r) = Len(q) - 1
        BY <1>2, <1>5
      <4>3. \A a, b \in Nat : a >= 1 /\ b = a - 1 =>
              (b = 0 <=> ~(1 < a)) /\ (b # 0 => 1 \in 1..b)
        OBVIOUS
      <4>4. (Len(r) = 0 <=> ~(1 < Len(q))) /\ (Len(r) # 0 => 1 \in 1..Len(r))
        BY <4>2, <4>3, Zenon
      <4>5. Len(r) # 0 => r[1] = q[1 + 1] BY <1>5, <3>2, <4>4
      <4>6. l.next[s] = IF 1 < Len(q) THEN q[1 + 1] ELSE NULL BY <1>11, <3>2
      <4> QED BY <4>1, <4>4, <4>5, <4>6
    <3>3. CASE n # 1
      <4>1. 1 \in 1..Len(r) /\ r[1] = q[1] BY <1>2, <1>5, <3>3
      <4>2. q[1] # s BY <1>1, <1>2, <3>3 DEF Distinct
      <4> QED BY <1>9, <3>1, <4>1, <4>2
    <3> QED BY <3>2, <3>3
  <2>2. ASSUME NEW i \in 1..Len(r)
        PROVE  m.next[r[i]] = IF i < Len(r) THEN r[i + 1] ELSE NULL
    <3>1. CASE i < n
      <4>1. i \in 1..Len(q) /\ i < Len(q) /\ r[i] = q[i] BY <1>5, <3>1
      <4>2. q[i] # s /\ q[i] \in Arena BY <1>1, <1>2, <3>1, <4>1 DEF Distinct
      <4>3. l.next[q[i]] = q[i + 1] BY <1>10, <4>1 DEF Chain
      <4>4. CASE i + 1 = n
        <5>1. m.next[r[i]] = l.next[s] BY <1>2, <1>9, <4>1, <4>2, <4>3, <4>4
        <5>2. i < Len(r) => r[i + 1] = q[n + 1] BY <1>5, <4>4
        <5> QED BY <1>5, <1>11, <4>4, <5>1, <5>2
      <4>5. CASE i + 1 # n
        <5>1. i + 1 < n /\ i < Len(r) /\ r[i + 1] = q[i + 1] BY <1>5, <3>1, <4>5
        <5>2. q[i + 1] # s
          <6>1. i + 1 \in 1..Len(q) BY <1>5
          <6> QED BY <1>1, <1>2, <4>5, <6>1 DEF Distinct
        <5> QED BY <1>9, <4>1, <4>2, <4>3, <5>1, <5>2
      <4> QED BY <4>4, <4>5
    <3>2. CASE ~(i < n)
      <4>1. i + 1 \in 1..Len(q) /\ r[i] = q[i + 1] /\ i + 1 # n BY <1>5, <3>2
      <4>2. q[i + 1] # s /\ q[i + 1] \in Arena BY <1>1, <1>2, <4>1 DEF Distinct
      <4>3. l.next[q[i + 1]] = IF i + 1 < Len(q) THEN q[i + 1 + 1] ELSE NULL
        BY <1>10, <4>1 DEF Chain
      <4>4. i + 1 < Len(q) => q[i + 1 + 1] # s
        <5>1. i + 1 < Len(q) => i + 1 + 1 \in 1..Len(q) /\ i + 1 + 1 # n BY <1>5, <3>2
        <5> QED BY <1>1, <1>2, <5>1 DEF Distinct
      <4>5. m.next[r[i]] = l.next[q[i + 1]] BY <1>3, <1>9, <4>1, <4>2, <4>3, <4>4
      <4>6. i < Len(r) <=> i + 1 < Len(q) BY <1>5
      <4>7. i < Len(r) => r[i + 1] = q[i + 1 + 1] BY <1>5, <3>2
      <4> QED BY <4>3, <4>5, <4>6, <4>7
    <3> QED BY <3>1, <3>2
  <2> HIDE DEF q
  <2> QED BY <2>1, <2>2 DEF Chain
<1>13. ASSUME NEW d \in Caches, NEW j \in States, d # c \/ j # k
       PROVE  Chain(m.next, m.head[d][j], lists[d][j])
  <2> DEFINE p == lists[d][j]
  <2>1. p \in Seq(D) /\ Chain(l.next, l.head[d][j], p) BY DEF LinksOK, ListsApart
  <2>2. s \notin Members(p) BY <1>13 DEF ListsApart
  <2>3. ASSUME NEW i \in 1..Len(p) PROVE m.next[p[i]] = l.next[p[i]]
    <3>1. p[i] \in Arena /\ p[i] # s BY <1>1, <2>1, <2>2 DEF Members
    <3>2. l.next[p[i]] # s BY <1>3, <2>1, <2>2, ChainStays
    <3> QED BY <1>9, <3>1, <3>2
  <2>4. m.head[d][j] = l.head[d][j] BY <1>9, <1>13
  <2> HIDE DEF p
  <2>5. Chain(m.next, m.head[d][j], p) BY <2>1, <2>3, <2>4 DEF Chain
  <2> QED BY <2>5 DEF p
<1>14. \A d \in Caches, j \in States :
         after[d][j] = IF d = c /\ j = k THEN r ELSE lists[d][j]
  BY <1>4 DEF Replaced
<1>15. LinksOK(m, after, D \ {s})
  <2>1. \A d \in Caches, j \in States : Chain(m.next, m.head[d][j], after[d][j])
    BY <1>12, <1>13, <1>14
  <2>2. ASSUME NEW t \in Arena \ (D \ {s}) PROVE m.next[t] = NULL
    <3>1. t # s => l.next[t] = NULL BY DEF LinksOK
    <3> QED BY <1>3, <1>9, <3>1
  <2> QED BY <1>9, <2>1, <2>2 DEF LinksOK
<1>16. ListsApart(after, D \ {s})
  <2>1. ASSUME NEW d \in Caches, NEW j \in States
        PROVE  /\ after[d][j] \in Seq(D) /\ Distinct(after[d][j])
               /\ Members(after[d][j]) \subseteq Members(lists[d][j]) \ {s}
    <3>1. CASE d = c /\ j = k BY <1>5, <1>6, <1>14, <3>1
    <3>2. CASE d # c \/ j # k
      <4>1. after[d][j] = lists[d][j] BY <1>14, <3>2
      <4>2. s \notin Members(lists[d][j]) BY <3>2 DEF ListsApart
      <4> QED BY <4>1, <4>2 DEF ListsApart
    <3> QED BY <3>1, <3>2
  <2>2. \A d \in Caches, j \in States : after[d][j] \in Seq(D \ {s})
    <3> TAKE d \in Caches, j \in States
    <3>1. after[d][j] \in Seq(D) /\ Members(after[d][j]) \subseteq D \ {s}
      <4>1. Members(lists[d][j]) \subseteq D BY DEF ListsApart, Members
      <4> QED BY <2>1, <4>1
    <3> QED BY <3>1, SeqOver
  <2>3. \A d, e \in Caches, j, i \in States :
          d # e \/ j # i => Members(after[d][j]) \cap Members(after[e][i]) = {}
    <3> TAKE d, e \in Caches, j, i \in States
    <3> HAVE d # e \/ j # i
    <3>1. Members(lists[d][j]) \cap Members(lists[e][i]) = {} BY DEF ListsApart
    <3>2. Members(after[d][j]) \subseteq Members(lists[d][j]) BY <2>1
    <3>3. Members(after[e][i]) \subseteq Members(lists[e][i]) BY <2>1
    <3> QED BY <3>1, <3>2, <3>3
  <2> QED BY <1>1, <2>1, <2>2, <2>3 DEF ListsApart
<1> QED BY <1>7, <1>15, <1>16

\* Putting a slab that is on no list in front of one.
LEMMA PutKeeps ==
  ASSUME NEW l, NEW lists, NEW after, NEW D, LinksOK(l, lists, D), ListsApart(lists, D),
         NEW c \in Caches, NEW k \in States, NEW s \in Arena \ D,
         Replaced(lists, after, c, k, <<s>> \o lists[c][k])
  PROVE  LinksOK(PutFirst(l, c, s, k), after, D \cup {s})
<1> DEFINE q == lists[c][k]
<1>1. q \in Seq(D) /\ D \subseteq Arena BY DEF ListsApart
<1>2. s \in Arena /\ s # NULL /\ l.next[s] = NULL BY NullNotInArena DEF LinksOK
<1>3. PICK r : r = <<s>> \o q OBVIOUS
<1>4. /\ Len(r) = Len(q) + 1 /\ Len(q) \in Nat /\ r[1] = s
      /\ \A i \in 1..Len(q) : r[i + 1] = q[i]
  BY <1>1, <1>3
<1>5. PICK m : m = PutFirst(l, c, s, k) OBVIOUS
<1>6. l \in Links BY DEF LinksOK
<1>7. /\ m \in Links
      /\ \A t \in Arena : m.next[t] =
           IF t = s /\ l.head[c][k] # NULL THEN l.head[c][k] ELSE l.next[t]
      /\ \A d \in Caches, j \in States : m.head[d][j] =
           IF d = c /\ j = k THEN s ELSE l.head[d][j]
  BY <1>2, <1>5, <1>6, PutFirstLinks
<1>8. Chain(m.next, m.head[c][k], r)
  <2>1. Chain(l.next, l.head[c][k], q) BY DEF LinksOK
  <2>2. m.next[s] = IF Len(q) = 0 THEN NULL ELSE q[1]
    <3>1. CASE Len(q) = 0
      <4>1. l.head[c][k] = NULL BY <2>1, <3>1 DEF Chain
      <4> QED BY <1>2, <1>7, <3>1, <4>1
    <3>2. CASE Len(q) # 0
      <4>1. l.head[c][k] = q[1] BY <2>1, <3>2 DEF Chain
      <4>2. q[1] \in Arena BY <1>1, <1>4, <3>2
      <4> QED BY <1>2, <1>7, <3>2, <4>1, <4>2, NullNotInArena
    <3> QED BY <3>1, <3>2
  <2>3. ASSUME NEW i \in 1..Len(r)
        PROVE  m.next[r[i]] = IF i < Len(r) THEN r[i + 1] ELSE NULL
    <3>1. CASE i = 1
      <4>1. Len(q) # 0 => r[2] = q[1] BY <1>4
      <4> QED BY <1>4, <2>2, <3>1, <4>1
    <3>2. CASE i # 1
      <4>1. i - 1 \in 1..Len(q) /\ r[i] = q[i - 1] BY <1>4, <3>2
      <4>2. l.next[q[i - 1]] = IF i - 1 < Len(q) THEN q[i] ELSE NULL
        BY <2>1, <4>1 DEF Chain
      <4>3. q[i - 1] \in Arena /\ q[i - 1] # s BY <1>1, <4>1
      <4>4. i < Len(r) => r[i + 1] = q[i] BY <1>4, <3>2
      <4> QED BY <1>4, <1>7, <4>1, <4>2, <4>3, <4>4
    <3> QED BY <3>1, <3>2
  <2>4. m.head[c][k] = r[1] /\ Len(r) # 0 BY <1>4, <1>7
  <2> HIDE DEF q
  <2> QED BY <2>3, <2>4 DEF Chain
<1>9. ASSUME NEW d \in Caches, NEW j \in States, d # c \/ j # k
      PROVE  Chain(m.next, m.head[d][j], lists[d][j])
  <2> DEFINE p == lists[d][j]
  <2>1. p \in Seq(D) /\ Chain(l.next, l.head[d][j], p) BY DEF LinksOK, ListsApart
  <2>2. ASSUME NEW i \in 1..Len(p) PROVE m.next[p[i]] = l.next[p[i]]
    <3>1. p[i] \in Arena /\ p[i] # s BY <1>1, <2>1
    <3> QED BY <1>7, <3>1
  <2>3. m.head[d][j] = l.head[d][j] BY <1>7, <1>9
  <2> HIDE DEF p
  <2>4. Chain(m.next, m.head[d][j], p) BY <2>1, <2>2, <2>3 DEF Chain
  <2> QED BY <2>4 DEF p
<1>10. \A d \in Caches, j \in States :
         after[d][j] = IF d = c /\ j = k THEN r ELSE lists[d][j]
  BY <1>3 DEF Replaced
<1>11. \A d \in Caches, j \in States : Chain(m.next, m.head[d][j], after[d][j])
  BY <1>8, <1>9, <1>10
<1>12. \A t \in Arena \ (D \cup {s}) : m.next[t] = NULL
  BY <1>7 DEF LinksOK
<1>13. LinksOK(m, after, D \cup {s}) BY <1>7, <1>11, <1>12 DEF LinksOK
<1> QED BY <1>5, <1>13

\* The slabs of G are given back: a list loses all of its slabs or none.
Dropped(l, lists, m, after, G) ==
  /\ m \in Links
  /\ m.next = [t \in Arena |-> IF t \in G THEN NULL ELSE l.next[t]]
  /\ \A d \in Caches, j \in States :
       \/ /\ after[d][j] = lists[d][j] /\ m.head[d][j] = l.head[d][j]
          /\ Members(lists[d][j]) \cap G = {}
       \/ after[d][j] = <<>> /\ m.head[d][j] = NULL

LEMMA DropKeeps ==
  ASSUME NEW l, NEW lists, NEW m, NEW after, NEW D, NEW G,
         LinksOK(l, lists, D), ListsApart(lists, D), Dropped(l, lists, m, after, G)
  PROVE  LinksOK(m, after, D \ G)
<1>0. /\ m.next = [t \in Arena |-> IF t \in G THEN NULL ELSE l.next[t]]
      /\ \A d \in Caches, j \in States :
           \/ /\ after[d][j] = lists[d][j] /\ m.head[d][j] = l.head[d][j]
              /\ Members(lists[d][j]) \cap G = {}
           \/ after[d][j] = <<>> /\ m.head[d][j] = NULL
  BY DEF Dropped
<1>1. ASSUME NEW d \in Caches, NEW j \in States
      PROVE  Chain(m.next, m.head[d][j], after[d][j])
  <2>1. CASE /\ after[d][j] = lists[d][j] /\ m.head[d][j] = l.head[d][j]
             /\ Members(lists[d][j]) \cap G = {}
    <3> DEFINE p == lists[d][j]
    <3>1. p \in Seq(D) /\ Chain(l.next, l.head[d][j], p) /\ D \subseteq Arena
      BY DEF LinksOK, ListsApart
    <3>2. ASSUME NEW i \in 1..Len(p) PROVE m.next[p[i]] = l.next[p[i]]
      <4>1. p[i] \in Arena /\ p[i] \notin G BY <2>1, <3>1 DEF Members
      <4> QED BY <1>0, <4>1
    <3> HIDE DEF p
    <3>3. Chain(m.next, l.head[d][j], p) BY <3>1, <3>2 DEF Chain
    <3> QED BY <2>1, <3>3 DEF p
  <2>2. CASE after[d][j] = <<>> /\ m.head[d][j] = NULL BY <2>2 DEF Chain
  <2> QED BY <1>0, <2>1, <2>2
<1>2. \A t \in Arena \ (D \ G) : m.next[t] = NULL BY <1>0 DEF LinksOK
<1> QED BY <1>1, <1>2 DEF LinksOK, Dropped

\* The lists of the slab allocator do not meet.
LEMMA SlabListsApart == ASSUME SlabInv PROVE ListsApart(slabList, DOMAIN slab)
<1>1. Inv /\ BuddyInv /\ RestOK BY DEF SlabInv
<1>2. DOMAIN slab \subseteq Arena BY <1>1, OwnedInArena DEF Inv
<1>3. ASSUME NEW c \in Caches, NEW k \in States
      PROVE  /\ slabList[c][k] \in Seq(DOMAIN slab) /\ Distinct(slabList[c][k])
             /\ \A s \in Members(slabList[c][k]) : slab[s].parentCache = c /\ slab[s].state = k
  <2>1. CASE c \in live
    <3>1. ListOK(c, k) BY <1>1, <2>1 DEF Inv, ListsOK
    <3> QED BY <3>1 DEF ListOK, SlabsOf
  <2>2. CASE c \notin live
    <3>1. slabList[c][k] = <<>> BY <1>1, <2>2 DEF RestOK, NoSlabs
    <3> QED BY <3>1, NoMembers DEF Distinct
  <2> QED BY <2>1, <2>2
<1>4. ASSUME NEW c \in Caches, NEW d \in Caches, NEW k \in States, NEW j \in States,
             c # d \/ k # j
      PROVE  Members(slabList[c][k]) \cap Members(slabList[d][j]) = {}
  <2> SUFFICES ASSUME NEW s \in Members(slabList[c][k]), s \in Members(slabList[d][j])
               PROVE  FALSE
    OBVIOUS
  <2>1. slab[s].parentCache = c /\ slab[s].state = k BY <1>3
  <2>2. slab[s].parentCache = d /\ slab[s].state = j BY <1>3
  <2> QED BY <1>4, <2>1, <2>2
<1> QED BY <1>2, <1>3, <1>4 DEF ListsApart

\* What getFreeSlot and freeSlot do to the pointers is what Moved does to the lists.
LEMMA RelinkedKeeps ==
  ASSUME SlabInv, LinkInv, NEW c \in live, NEW s \in Arena, NEW from, NEW to \in States,
         \/ s \in DOMAIN slab /\ slab[s].parentCache = c /\ from = slab[s].state
         \/ s \notin DOMAIN slab /\ from = "CREATED",
         slabList' = [slabList EXCEPT ![c] = Moved(@, s, from, to)],
         DOMAIN slab' = DOMAIN slab \cup {s},
         links' = Relinked(c, s, from, to)
  PROVE  LinkInv'
<1>1. Inv /\ RestOK BY DEF SlabInv
<1>2. c \in Caches /\ "CREATED" \notin States BY <1>1 DEF Inv, Types, States
<1>3. LinksOK(links, slabList, DOMAIN slab) /\ ListsApart(slabList, DOMAIN slab)
  BY SlabListsApart DEF LinkInv
<1>4. \A d \in Caches, j \in States :
        slabList'[d][j] = IF d = c THEN Moved(slabList[c], s, from, to)[j] ELSE slabList[d][j]
  BY <1>1 DEF RestOK, ListsShaped, IsFunctionOn
<1>5. CASE from = to
  <2>1. \A d \in Caches, j \in States : slabList'[d][j] = slabList[d][j]
    BY <1>4, <1>5 DEF Moved
  <2>2. links' = links /\ DOMAIN slab' = DOMAIN slab BY <1>2, <1>5 DEF Relinked
  <2> QED BY <1>3, <2>1, <2>2 DEF LinkInv, LinksOK
<1>6. CASE from # to
  <2>1. \A j \in States : Moved(slabList[c], s, from, to)[j] =
          CASE j = to   -> <<s>> \o slabList[c][j]
            [] j = from -> Without(slabList[c][j], s)
            [] OTHER    -> slabList[c][j]
    BY <1>6 DEF Moved
  <2>2. CASE s \notin DOMAIN slab /\ from = "CREATED"
    <3>1. links' = PutFirst(links, c, s, to) BY <1>6, <2>2 DEF Relinked
    <3>2. Replaced(slabList, slabList', c, to, <<s>> \o slabList[c][to])
      BY <1>2, <1>4, <2>1, <2>2 DEF Replaced
    <3>3. LinksOK(links', slabList', DOMAIN slab \cup {s})
      BY <1>2, <1>3, <2>2, <3>1, <3>2, PutKeeps
    <3> QED BY <3>3 DEF LinkInv
  <2>3. CASE s \in DOMAIN slab /\ slab[s].parentCache = c /\ from = slab[s].state
    <3>1. HeaderOK(s) BY <1>1, <2>3 DEF Inv
    <3>2. from \in States BY <2>3, <3>1, StateType DEF HeaderOK
    <3>3. s \in Members(slabList[c][from])
      <4>1. ListOK(c, from) BY <1>1, <3>2 DEF Inv, ListsOK
      <4> QED BY <2>3, <4>1 DEF ListOK, SlabsOf
    <3>4. PICK out : out = TakeOut(links, c, s, from) OBVIOUS
    <3>5. links' = PutFirst(out, c, s, to) BY <1>2, <1>6, <3>2, <3>4 DEF Relinked
    <3> DEFINE mid == [d \in Caches |-> [j \in States |->
                         IF d = c /\ j = from THEN Without(slabList[c][from], s)
                         ELSE slabList[d][j]]]
    <3>6. Replaced(slabList, mid, c, from, Without(slabList[c][from], s))
      BY DEF Replaced
    <3>7. Replaced(mid, slabList', c, to, <<s>> \o mid[c][to])
      BY <1>2, <1>4, <1>6, <2>1, <3>2 DEF Replaced
    <3> HIDE DEF mid
    <3>8. LinksOK(out, mid, DOMAIN slab \ {s}) /\ ListsApart(mid, DOMAIN slab \ {s})
      BY <1>2, <1>3, <3>2, <3>3, <3>4, <3>6, TakeOutKeeps
    <3>9. PICK D : D = DOMAIN slab \ {s} OBVIOUS
    <3>10. LinksOK(links', slabList', D \cup {s})
      BY <1>2, <3>5, <3>7, <3>8, <3>9, PutKeeps
    <3>11. D \cup {s} = DOMAIN slab' BY <2>3, <3>9
    <3> QED BY <3>10, <3>11 DEF LinkInv
  <2> QED BY <2>2, <2>3
<1> QED BY <1>5, <1>6

-----------------------------------------------------------------------------
(* Following the pointers *)

Fuel == SizeOf(maxPowerSize) + 1

Walks(w, next) ==
  w = [fuel \in 0..Fuel |->
         [t \in Arena \cup {NULL} |->
            IF t = NULL \/ fuel = 0 THEN <<>> ELSE <<t>> \o w[fuel - 1][next[t]]]]

\* There is a walk.
LEMMA WalkExists ==
  ASSUME NEW next \in [Arena -> Arena \cup {NULL}] PROVE \E w : Walks(w, next)
<1> DEFINE T == Arena \cup {NULL}
           S == [T -> Seq(Arena)]
           go(g) == [t \in T |-> IF t = NULL THEN <<>> ELSE <<t>> \o g[next[t]]]
           f0 == [t \in T |-> <<>>]
           step == [n \in Nat |-> [g \in S |-> go(g)]]
<1>1. Fuel \in Nat BY MaxPowerSizeAssumption, Sizes DEF Fuel
<1>2. f0 \in S OBVIOUS
<1>3. \A g \in S : go(g) \in S
  <2> TAKE g \in S
  <2>1. ASSUME NEW t \in T PROVE (IF t = NULL THEN <<>> ELSE <<t>> \o g[next[t]]) \in Seq(Arena)
    <3>1. CASE t = NULL BY <3>1
    <3>2. CASE t # NULL
      <4>1. t \in Arena /\ next[t] \in T BY <3>2
      <4>2. g[next[t]] \in Seq(Arena) BY <4>1
      <4> QED BY <3>2, <4>1, <4>2
    <3> QED BY <3>1, <3>2
  <2> QED BY <2>1
<1>4. step \in [Nat -> [S -> S]] BY <1>3
<1>5. IsRecursion(S, f0, step) BY <1>2, <1>4 DEF IsRecursion
<1> HIDE DEF S, f0, step
<1>6. \E f : Solves(f, S, f0, step) BY <1>5, RecursiveFunction
<1>7. PICK f : Solves(f, S, f0, step) BY <1>6
<1>8. /\ \A n \in Nat : f[n] \in S
      /\ f[0] = f0
      /\ \A n \in Nat : f[n + 1] = step[n][f[n]]
  BY <1>7 DEF Solves
<1>9. \A n \in Nat : f[n + 1] = go(f[n]) BY <1>8 DEF step
<1> DEFINE w == [fuel \in 0..Fuel |-> f[fuel]]
           row(fuel) == [t \in T |-> IF t = NULL \/ fuel = 0 THEN <<>>
                                     ELSE <<t>> \o w[fuel - 1][next[t]]]
<1>10. ASSUME NEW fuel \in 0..Fuel PROVE f[fuel] = row(fuel)
  <2>1. CASE fuel = 0 BY <1>8, <2>1 DEF f0
  <2>2. CASE fuel # 0
    <3>1. fuel - 1 \in Nat /\ (fuel - 1) + 1 = fuel /\ fuel - 1 \in 0..Fuel BY <1>1, <2>2
    <3>2. f[fuel] = go(f[fuel - 1]) BY <1>9, <3>1
    <3>3. w[fuel - 1] = f[fuel - 1] BY <3>1
    <3> HIDE DEF w
    <3> QED BY <2>2, <3>2, <3>3
  <2> QED BY <2>1, <2>2
<1>11. w = [fuel \in 0..Fuel |-> row(fuel)] BY <1>10, Zenon
<1>12. Walks(w, next)
  <2> HIDE DEF w
  <2> QED BY <1>11 DEF Walks
<1> QED BY <1>12

\* A walk from a list without repetitions gives the list: it is not longer than there are
\* addresses.
LEMMA WalkFollows ==
  ASSUME NEW next \in [Arena -> Arena \cup {NULL}], NEW w, Walks(w, next),
         NEW h, NEW q \in Seq(Arena), Distinct(q), Chain(next, h, q)
  PROVE  w[Fuel][h] = q
<1>1. SizeOf(maxPowerSize) \in Nat /\ Fuel \in Nat
  <2>1. SizeOf(maxPowerSize) \in Nat BY MaxPowerSizeAssumption, Sizes
  <2> QED BY <2>1 DEF Fuel
<1>2. Len(q) < Fuel
  <2>1. IsFiniteSet(Arena) /\ Cardinality(Arena) = SizeOf(maxPowerSize)
    <3>1. PICK N \in Nat : N = SizeOf(maxPowerSize) BY <1>1
    <3>2. 0 \in Int /\ N - 1 \in Int BY <3>1
    <3>3. /\ IsFiniteSet(0 .. N - 1)
          /\ Cardinality(0 .. N - 1) = IF 0 > N - 1 THEN 0 ELSE (N - 1) - 0 + 1
      BY <3>2, FS_Interval, Zenon
    <3> QED BY <3>1, <3>3 DEF Arena
  <2>2. Members(q) \subseteq Arena BY DEF Members
  <2>3. Cardinality(Members(q)) <= Cardinality(Arena) BY <2>1, <2>2, FS_Subset
  <2>4. Cardinality(Members(q)) = Len(q) BY DistinctLength
  <2> QED BY <1>1, <2>1, <2>3, <2>4 DEF Fuel
<1> DEFINE At(i) == IF i < Len(q) THEN q[i + 1] ELSE NULL
           \* What is read when n entries are left.
           Reads(n, r) == /\ r \in Seq(Arena) /\ Len(r) = n
                          /\ \A i \in 1..n : r[i] = q[Len(q) - n + i]
           T == {n \in Nat : n <= Len(q) =>
                   \A fuel \in 0..Fuel : fuel > n => Reads(n, w[fuel][At(Len(q) - n)])}
<1>3. \A fuel \in 0..Fuel, t \in Arena \cup {NULL} :
        w[fuel][t] = IF t = NULL \/ fuel = 0 THEN <<>> ELSE <<t>> \o w[fuel - 1][next[t]]
  <2>1. PICK v : v = w OBVIOUS
  <2>2. w = [fuel \in 0..Fuel |->
              [t \in Arena \cup {NULL} |->
                 IF t = NULL \/ fuel = 0 THEN <<>> ELSE <<t>> \o v[fuel - 1][next[t]]]]
    BY <2>1 DEF Walks
  <2>3. \A fuel \in 0..Fuel, t \in Arena \cup {NULL} :
          w[fuel][t] = IF t = NULL \/ fuel = 0 THEN <<>> ELSE <<t>> \o v[fuel - 1][next[t]]
    BY <2>2
  <2> QED BY <2>1, <2>3
<1>4. Len(q) \in Nat /\ \A i \in 1..Len(q) : q[i] \in Arena OBVIOUS
<1>5. 0 \in T
  <2>1. \A fuel \in 0..Fuel : w[fuel][NULL] = <<>> BY <1>3
  <2>2. At(Len(q) - 0) = NULL BY <1>4
  <2>3. Reads(0, <<>>) OBVIOUS
  <2> HIDE DEF At, Reads
  <2> QED BY <2>1, <2>2, <2>3
<1>6. ASSUME NEW n \in Nat, n \in T PROVE n + 1 \in T
  <2> SUFFICES ASSUME n + 1 <= Len(q), NEW fuel \in 0..Fuel, fuel > n + 1
               PROVE  Reads(n + 1, w[fuel][At(Len(q) - (n + 1))])
    OBVIOUS
  <2>1. PICK k \in Nat : k = Len(q) - n /\ k \in 1..Len(q)
    <3>1. \A a, b \in Nat : b + 1 <= a => a - b \in Nat /\ a - b \in 1..a OBVIOUS
    <3>2. Len(q) - n \in Nat /\ Len(q) - n \in 1..Len(q) BY <1>4, <1>6, <3>1
    <3> QED BY <3>2
  <2>2. /\ fuel - 1 \in 0..Fuel /\ fuel - 1 > n /\ fuel # 0
        /\ Len(q) - (n + 1) = k - 1 /\ n = Len(q) - k
    BY <1>1, <1>4, <2>1
  <2>3. At(k - 1) = q[k] /\ q[k] \in Arena /\ q[k] # NULL BY <1>4, <2>1, NullNotInArena
  <2>4. next[q[k]] = At(k) BY <1>4, <2>1 DEF Chain
  <2>5. PICK r : r = w[fuel - 1][At(k)] OBVIOUS
  <2>6. Reads(n, r) BY <1>4, <1>6, <2>1, <2>2, <2>5
  <2>7. w[fuel][q[k]] = <<q[k]>> \o r
    <3> HIDE DEF At
    <3>1. PICK t \in Arena : t = q[k] BY <2>3
    <3>2. t \in Arena \cup {NULL} /\ t # NULL BY <2>3, <3>1
    <3>3. w[fuel][t] = <<t>> \o w[fuel - 1][next[t]] BY <1>3, <2>2, <3>2, Zenon
    <3>4. w[fuel - 1][next[t]] = r BY <2>4, <2>5, <3>1
    <3> QED BY <3>1, <3>3, <3>4
  <2>8. PICK a : a = <<q[k]>> \o r OBVIOUS
  <2>9. /\ a \in Seq(Arena) /\ Len(a) = n + 1 /\ a[1] = q[k]
        /\ \A i \in 1..n : a[i + 1] = r[i]
    BY <2>3, <2>6, <2>8
  <2>10. ASSUME NEW i \in 1 .. n + 1 PROVE a[i] = q[Len(q) - (n + 1) + i]
    <3>1. CASE i = 1
      <4>1. Len(q) - (n + 1) + i = k BY <1>4, <2>1, <3>1
      <4> QED BY <2>9, <3>1, <4>1
    <3>2. CASE i # 1
      <4>1. i - 1 \in 1..n /\ (i - 1) + 1 = i /\ Len(q) - n + (i - 1) = Len(q) - (n + 1) + i
        BY <1>4, <3>2
      <4>2. r[i - 1] = q[Len(q) - n + (i - 1)] BY <2>6, <4>1
      <4>3. a[i] = r[i - 1] BY <2>9, <4>1
      <4> QED BY <4>1, <4>2, <4>3
    <3> QED BY <3>1, <3>2
  <2>11. Reads(n + 1, a) BY <2>9, <2>10
  <2>12. w[fuel][At(Len(q) - (n + 1))] = a BY <2>2, <2>3, <2>7, <2>8
  <2> HIDE DEF Reads, At
  <2> QED BY <2>11, <2>12
<1>7. Len(q) \in T
  <2> HIDE DEF T
  <2>1. \A n \in Nat : n \in T BY <1>5, <1>6, InductionFromZero
  <2> QED BY <1>4, <2>1
<1>8. PICK r : r = w[Fuel][h] OBVIOUS
<1>9. At(0) = h
  <2>1. 0 < Len(q) <=> Len(q) # 0 BY <1>4
  <2> QED BY <2>1 DEF Chain
<1>10. Reads(Len(q), r)
  <2>1. Len(q) <= Len(q) /\ Fuel \in 0..Fuel /\ Len(q) - Len(q) = 0 BY <1>1, <1>4
  <2> HIDE DEF Reads, At
  <2>2. Reads(Len(q), w[Fuel][At(Len(q) - Len(q))]) BY <1>2, <1>7, <2>1
  <2> QED BY <1>8, <1>9, <2>1, <2>2
<1>11. \A i \in 1..Len(q) : r[i] = q[i]
  <2>1. \A i \in 1..Len(q) : Len(q) - Len(q) + i = i BY <1>4
  <2> QED BY <1>10, <2>1
<1>12. r = q BY <1>10, <1>11
<1> QED BY <1>8, <1>12

\* What is read from the head of a list is the list.
LEMMA ListFromChain ==
  ASSUME links \in Links, NEW h, NEW q \in Seq(Arena), Distinct(q), Chain(links.next, h, q)
  PROVE  ListFrom(h) = q
<1>1. links.next \in [Arena -> Arena \cup {NULL}] BY LinkTypes
<1> DEFINE v == CHOOSE w : Walks(w, links.next)
<1>2. Walks(v, links.next)
  <2>1. \E w : Walks(w, links.next) BY <1>1, WalkExists
  <2> QED BY <2>1
<1>3. ListFrom(h) = v[Fuel][h] BY DEF ListFrom, Walks, Fuel
<1> HIDE DEF v
<1>4. PICK next : next = links.next OBVIOUS
<1>5. next \in [Arena -> Arena \cup {NULL}] /\ Walks(v, next) /\ Chain(next, h, q)
  BY <1>1, <1>2, <1>4
<1> QED BY <1>3, <1>5, WalkFollows

LEMMA ListsRead ==
  ASSUME SlabInv, LinkInv, NEW c \in Caches, NEW k \in States
  PROVE  ListFrom(links.head[c][k]) = slabList[c][k]
<1>1. ListsApart(slabList, DOMAIN slab) BY SlabListsApart
<1>2. slabList[c][k] \in Seq(Arena) /\ Distinct(slabList[c][k]) BY <1>1 DEF ListsApart
<1>3. links \in Links /\ Chain(links.next, links.head[c][k], slabList[c][k])
  BY DEF LinkInv, LinksOK
<1> QED BY <1>2, <1>3, ListFromChain

-----------------------------------------------------------------------------
(* The steps *)

LEMMA LinkInvInit == LinkInit => LinkInv
<1> SUFFICES ASSUME LinkInit PROVE LinkInv OBVIOUS
<1> DEFINE h == [c \in Caches |-> [k \in States |-> NULL]]
           n == [s \in Arena |-> NULL]
<1>1. links = [head |-> h, next |-> n] BY DEF LinkInit
<1>2. /\ h \in [Caches -> [States -> Arena \cup {NULL}]]
      /\ n \in [Arena -> Arena \cup {NULL}]
      /\ \A c \in Caches, k \in States : h[c][k] = NULL
      /\ \A s \in Arena : n[s] = NULL
  OBVIOUS
<1>3. \A c \in Caches, k \in States : slabList[c][k] = <<>>
  BY DEF LinkInit, SlabInit, NoSlabs
<1> HIDE DEF h, n
<1>4. links \in Links BY <1>1, <1>2 DEF Links
<1>5. \A c \in Caches, k \in States : Chain(links.next, links.head[c][k], slabList[c][k])
  BY <1>1, <1>2, <1>3 DEF Chain
<1> QED BY <1>1, <1>2, <1>4, <1>5 DEF LinkInv, LinksOK

LEMMA LinkCreateStep ==
  ASSUME SlabInv, LinkInv, NEW c \in Caches, LinkCreate(c)
  PROVE  LinkInv'
<1>1. slabList' = [slabList EXCEPT ![c] = NoSlabs] /\ slab' = slab
  BY DEF LinkCreate, CreateCache
<1>2. LinksOK(links, slabList, DOMAIN slab) BY DEF LinkInv
<1>3. links \in Links BY <1>2 DEF LinksOK
<1>4. PICK h, n : /\ links = [head |-> h, next |-> n]
                  /\ h \in [Caches -> [States -> Arena \cup {NULL}]]
                  /\ n \in [Arena -> Arena \cup {NULL}]
  BY <1>3 DEF Links
<1> DEFINE g == [h EXCEPT ![c] = [k \in States |-> NULL]]
<1>5. links' = [head |-> g, next |-> n]
  <2>1. links' = [links EXCEPT !.head[c] = [k \in States |-> NULL]] BY DEF LinkCreate
  <2> QED BY <1>4, <2>1
<1>6. /\ g \in [Caches -> [States -> Arena \cup {NULL}]]
      /\ \A d \in Caches, k \in States : g[d][k] = IF d = c THEN NULL ELSE h[d][k]
  BY <1>4
<1>7. \A d \in Caches, k \in States : slabList'[d][k] = IF d = c THEN <<>> ELSE slabList[d][k]
  <2>1. DOMAIN slabList = Caches BY DEF SlabInv, Inv, Types
  <2> QED BY <1>1, <2>1 DEF NoSlabs
<1> HIDE DEF g
<1>8. links' \in Links BY <1>4, <1>5, <1>6 DEF Links
<1>9. ASSUME NEW d \in Caches, NEW k \in States
      PROVE  Chain(links'.next, links'.head[d][k], slabList'[d][k])
  <2>1. CASE d = c
    <3>1. links'.head[d][k] = NULL /\ slabList'[d][k] = <<>> BY <1>5, <1>6, <1>7, <2>1
    <3> QED BY <3>1 DEF Chain
  <2>2. CASE d # c
    <3>1. links'.head[d][k] = links.head[d][k] /\ slabList'[d][k] = slabList[d][k]
      BY <1>4, <1>5, <1>6, <1>7, <2>2
    <3>2. links'.next = links.next BY <1>4, <1>5
    <3> QED BY <1>2, <3>1, <3>2 DEF LinksOK
  <2> QED BY <2>1, <2>2
<1>10. \A t \in Arena \ DOMAIN slab : links'.next[t] = NULL BY <1>2, <1>4, <1>5 DEF LinksOK
<1> QED BY <1>1, <1>8, <1>9, <1>10 DEF LinkInv, LinksOK

\* getFreeSlot, for a slab that is on a list or a new one.
LEMMA LinkSlotStep ==
  ASSUME SlabInv, LinkInv, NEW c \in live, NEW s \in Arena, NEW h \in Headers,
         GetFreeSlot(c, s, h),
         \/ s \in DOMAIN slab /\ h = slab[s] /\ h.parentCache = c
         \/ s \notin DOMAIN slab /\ h = NewSlab(c),
         NEW o \in objects' \ objects,
         links' = Relinked(c, o.slab,
                           IF o.slab \in DOMAIN slab THEN slab[o.slab].state ELSE "CREATED",
                           slab'[o.slab].state)
  PROVE  LinkInv'
<1> DEFINE state == CalculateNewState(c, h.allocatedSlots + 1)
<1>1. PICK i \in 1..OptimalSlots[c] \ h.slots :
        /\ slab' = WithHeader(s, [h EXCEPT !.slots = @ \cup {i},
                                           !.allocatedSlots = @ + 1,
                                           !.state = state])
        /\ slabList' = [slabList EXCEPT ![c] = Moved(@, s, h.state, state)]
        /\ objects' = objects \cup {[cache |-> c, slab |-> s, slot |-> i]}
  BY DEF GetFreeSlot
<1>2. state \in States BY StateType
<1> HIDE DEF state
<1>3. o.slab = s BY <1>1
<1>4. DOMAIN slab' = DOMAIN slab \cup {s} /\ slab'[s].state = state
  BY <1>1 DEF WithHeader, Headers
<1>5. PICK from : from = h.state OBVIOUS
<1>6. /\ \/ s \in DOMAIN slab /\ slab[s].parentCache = c /\ from = slab[s].state
         \/ s \notin DOMAIN slab /\ from = "CREATED"
      /\ links' = Relinked(c, s, from, state)
  <2>1. CASE s \in DOMAIN slab BY <1>3, <1>4, <1>5, <2>1
  <2>2. CASE s \notin DOMAIN slab
    <3>1. from = "CREATED" BY <1>5, <2>2 DEF NewSlab
    <3> QED BY <1>3, <1>4, <2>2, <3>1
  <2> QED BY <2>1, <2>2
<1>7. slabList' = [slabList EXCEPT ![c] = Moved(@, s, from, state)] BY <1>1, <1>5
<1> QED BY <1>2, <1>4, <1>6, <1>7, RelinkedKeeps

LEMMA LinkAllocateStep ==
  ASSUME SlabInv, LinkInv, NEW c \in Caches, LinkAllocate(c)
  PROVE  LinkInv'
<1>1. Inv /\ BuddyInv /\ LevelsOK BY DEF SlabInv
<1>2. AllocateSlot(c) BY DEF LinkAllocate
<1>3. c \in live BY <1>2 DEF AllocateSlot
<1>4. PICK o \in objects' \ objects :
        links' = Relinked(c, o.slab,
                          IF o.slab \in DOMAIN slab THEN slab[o.slab].state ELSE "CREATED",
                          slab'[o.slab].state)
  BY DEF LinkAllocate
<1>5. ASSUME NEW k \in {"PARTIAL", "EMPTY"}, slabList[c][k] # <<>>,
             GetFreeSlot(c, Head(slabList[c][k]), slab[Head(slabList[c][k])])
      PROVE  LinkInv'
  <2>1. PICK s : s = Head(slabList[c][k]) OBVIOUS
  <2>2. ListOK(c, k) BY <1>1, <1>3 DEF Inv, ListsOK, States
  <2>3. s \in Members(slabList[c][k])
    <3>1. 1 \in 1..Len(slabList[c][k]) /\ s = slabList[c][k][1]
      BY <1>5, <2>1, <2>2 DEF ListOK
    <3> QED BY <3>1 DEF Members
  <2>4. s \in DOMAIN slab /\ slab[s].parentCache = c /\ slab[s] \in Headers
    BY <1>1, <2>2, <2>3 DEF ListOK, SlabsOf, Inv, Types
  <2>5. s \in Arena BY <1>1, <2>4, OwnedInArena DEF Inv
  <2>6. GetFreeSlot(c, s, slab[s]) BY <1>5, <2>1
  <2> QED BY <1>3, <1>4, <2>4, <2>5, <2>6, LinkSlotStep
<1>6. ASSUME BuddyAlloc(SlabLevel(c)),
             NEW x \in allocated' \ allocated, GetFreeSlot(c, x.base, NewSlab(c))
      PROVE  LinkInv'
  <2>1. allocated \subseteq allocated' BY <1>6 DEF BuddyAlloc, vars
  <2>2. BuddyInv' BY <1>1, <1>2, AllocateLevels
  <2>3. OwnedOK(allocated') BY <2>2 DEF BuddyInv, BuddyOK
  <2>4. PICK s : s = x.base OBVIOUS
  <2>5. s \notin DOMAIN slab
    <3>1. \A y \in allocated : y.base # x.base BY <1>6, <2>1, <2>3, OwnedBases
    <3> QED BY <1>1, <2>4, <3>1 DEF Inv
  <2>6. s \in Arena 
    <3>1. PICK k : k = x.level OBVIOUS
    <3>2. IsBlock(x.base, x.level) BY <1>6, <2>3 DEF OwnedOK
    <3>3. IsBlock(s, k) BY <2>4, <3>1, <3>2
    <3> QED BY <3>3, BaseInArena
  <2>7. NewSlab(c) \in Headers
    <3>1. c \in Caches /\ 0 \in Nat /\ {} \in SUBSET Nat OBVIOUS
    <3> QED BY <3>1 DEF NewSlab, Headers
  <2>8. GetFreeSlot(c, s, NewSlab(c)) BY <1>6, <2>4
  <2> QED BY <1>3, <1>4, <2>5, <2>6, <2>7, <2>8, LinkSlotStep
<1> QED BY <1>2, <1>5, <1>6 DEF AllocateSlot

LEMMA LinkFreeStep ==
  ASSUME SlabInv, LinkInv, NEW c \in Caches, NEW o \in objects, LinkFree(c, o)
  PROVE  LinkInv'
<1> DEFINE s == o.slab
           h == slab[s]
           state == CalculateNewState(c, h.allocatedSlots - 1)
<1>1. Inv /\ BuddyInv BY DEF SlabInv
<1>2. s \in DOMAIN slab BY <1>1, OwnedSlot
<1>3. s \in Arena BY <1>1, <1>2, OwnedInArena DEF Inv
<1>4. FreeSlot(c, o) /\ links' = Relinked(c, s, h.state, slab'[s].state) BY DEF LinkFree
<1>5. c \in live BY <1>4 DEF FreeSlot
<1>6. CASE h.parentCache # c
  <2>1. slabList' = slabList /\ slab' = slab BY <1>4, <1>6 DEF FreeSlot
  <2>2. links' = links BY <1>4, <2>1 DEF Relinked
  <2> QED BY <2>1, <2>2 DEF LinkInv, LinksOK
<1>7. CASE h.parentCache = c
  <2>1. /\ slab' = WithHeader(s, [h EXCEPT !.slots = @ \ {o.slot},
                                           !.allocatedSlots = @ - 1,
                                           !.state = state])
        /\ slabList' = [slabList EXCEPT ![c] = Moved(@, s, h.state, state)]
    BY <1>4, <1>7 DEF FreeSlot
  <2>2. h \in Headers BY <1>1, <1>2 DEF Inv, Types
  <2>3. state \in States BY StateType
  <2> HIDE DEF state
  <2>4. DOMAIN slab' = DOMAIN slab \cup {s} /\ slab'[s].state = state
    BY <2>1, <2>2 DEF WithHeader, Headers
  <2>5. PICK a, from : a = s /\ from = h.state OBVIOUS
  <2>6. /\ a \in Arena /\ a \in DOMAIN slab /\ slab[a].parentCache = c /\ from = slab[a].state
        /\ slabList' = [slabList EXCEPT ![c] = Moved(@, a, from, state)]
        /\ DOMAIN slab' = DOMAIN slab \cup {a}
        /\ links' = Relinked(c, a, from, state)
    BY <1>2, <1>3, <1>4, <1>7, <2>1, <2>4, <2>5
  <2> HIDE DEF s, h
  <2> QED BY <1>5, <2>3, <2>6, RelinkedKeeps
<1> QED BY <1>6, <1>7

LEMMA LinkShrinkStep ==
  ASSUME SlabInv, LinkInv, NEW c \in Caches, LinkShrink(c)
  PROVE  LinkInv'
<1>1. Inv /\ RestOK /\ ListsApart(slabList, DOMAIN slab) BY SlabListsApart DEF SlabInv
<1>2. "EMPTY" \in States BY DEF States
<1>3. PICK q : q = slabList[c]["EMPTY"] OBVIOUS
<1>4. ListFrom(links.head[c]["EMPTY"]) = q BY <1>2, <1>3, ListsRead
<1>5. PICK G : G = Members(q) OBVIOUS
<1>6. /\ DeallocSlabs(q) /\ slabList' = [slabList EXCEPT ![c]["EMPTY"] = <<>>]
      /\ links' = [links EXCEPT !.head[c]["EMPTY"] = NULL, !.next = Unlinked(q)]
  BY <1>3, <1>4 DEF LinkShrink, Shrink, Shrunk
<1>7. DOMAIN slab' = DOMAIN slab \ G BY <1>5, <1>6, DeallocProperties
<1>8. LinksOK(links, slabList, DOMAIN slab) BY DEF LinkInv
<1>9. links \in Links BY <1>8 DEF LinksOK
<1>10. PICK h, n : /\ links = [head |-> h, next |-> n]
                   /\ h \in [Caches -> [States -> Arena \cup {NULL}]]
                   /\ n \in [Arena -> Arena \cup {NULL}]
  BY <1>9 DEF Links
<1> DEFINE g == [h EXCEPT ![c] = [h[c] EXCEPT !["EMPTY"] = NULL]]
           m == [t \in Arena |-> IF t \in G THEN NULL ELSE n[t]]
<1>11. links' = [head |-> g, next |-> m]
  <2>1. Unlinked(q) = m BY <1>5, <1>10 DEF Unlinked
  <2>2. links' = [links EXCEPT !.head[c]["EMPTY"] = NULL, !.next = m] BY <1>6, <2>1
  <2> HIDE DEF m
  <2>3. PICK z : z = [links EXCEPT !.head[c]["EMPTY"] = NULL] OBVIOUS
  <2>4. z = [head |-> g, next |-> n] BY <1>10, <2>3
  <2>5. links' = [z EXCEPT !.next = m] BY <2>2, <2>3
  <2> HIDE DEF g
  <2> QED BY <2>4, <2>5
<1>12. /\ g \in [Caches -> [States -> Arena \cup {NULL}]]
       /\ \A d \in Caches, j \in States :
            g[d][j] = IF d = c /\ j = "EMPTY" THEN NULL ELSE h[d][j]
  <2>1. [h[c] EXCEPT !["EMPTY"] = NULL] \in [States -> Arena \cup {NULL}] BY <1>10
  <2> QED BY <1>10, <2>1
<1>13. m \in [Arena -> Arena \cup {NULL}] BY <1>10
<1>14. \A d \in Caches, j \in States :
         slabList'[d][j] = IF d = c /\ j = "EMPTY" THEN <<>> ELSE slabList[d][j]
  <2>1. DOMAIN slabList = Caches /\ \A d \in Caches : DOMAIN slabList[d] = States
    BY <1>1 DEF Inv, Types
  <2> QED BY <1>6, <2>1
<1> HIDE DEF g
<1>15. links' \in Links /\ links'.next = m /\ links'.head = g
  BY <1>11, <1>12, <1>13 DEF Links
<1>16. links'.next = [t \in Arena |-> IF t \in G THEN NULL ELSE links.next[t]]
  BY <1>10, <1>15
<1>17. \A d \in Caches, j \in States :
         \/ /\ slabList'[d][j] = slabList[d][j] /\ links'.head[d][j] = links.head[d][j]
            /\ Members(slabList[d][j]) \cap G = {}
         \/ slabList'[d][j] = <<>> /\ links'.head[d][j] = NULL
  <2> TAKE d \in Caches, j \in States
  <2>1. CASE d = c /\ j = "EMPTY" BY <1>12, <1>14, <1>15, <2>1
  <2>2. CASE d # c \/ j # "EMPTY"
    <3>1. Members(slabList[d][j]) \cap G = {}
      BY <1>1, <1>2, <1>3, <1>5, <2>2 DEF ListsApart
    <3> QED BY <1>10, <1>12, <1>14, <1>15, <2>2, <3>1
  <2> QED BY <2>1, <2>2
<1>18. PICK l, lists : l = links' /\ lists = slabList' OBVIOUS
<1>19. LinksOK(l, lists, DOMAIN slab \ G)
  <2>1. Dropped(links, slabList, l, lists, G)
    BY <1>15, <1>16, <1>17, <1>18 DEF Dropped
  <2> QED BY <1>1, <1>8, <2>1, DropKeeps
<1> QED BY <1>7, <1>18, <1>19 DEF LinkInv

LEMMA LinkDestroyStep ==
  ASSUME SlabInv, LinkInv, NEW c \in Caches, LinkDestroy(c)
  PROVE  LinkInv'
<1>1. Inv /\ RestOK /\ ListsApart(slabList, DOMAIN slab) BY SlabListsApart DEF SlabInv
<1>2. {"EMPTY", "PARTIAL", "FULL"} = States BY DEF States
<1>3. PICK e, p, f : /\ e = slabList[c]["EMPTY"]
                     /\ p = slabList[c]["PARTIAL"]
                     /\ f = slabList[c]["FULL"]
  OBVIOUS
<1>4. /\ ListFrom(links.head[c]["EMPTY"]) = e
      /\ ListFrom(links.head[c]["PARTIAL"]) = p
      /\ ListFrom(links.head[c]["FULL"]) = f
  BY <1>2, <1>3, ListsRead
<1>5. PICK q : q = e \o p \o f OBVIOUS
<1>6. PICK G : G = Members(q) OBVIOUS
<1>7. G = Members(e) \cup Members(p) \cup Members(f)
  <2>1. e \in Seq(DOMAIN slab) /\ p \in Seq(DOMAIN slab) /\ f \in Seq(DOMAIN slab)
    BY <1>1, <1>2, <1>3 DEF ListsApart
  <2>2. PICK u : u = e \o p OBVIOUS
  <2>3. u \in Seq(DOMAIN slab) /\ Members(u) = Members(e) \cup Members(p)
    BY <2>1, <2>2, ConcatMembers
  <2>4. Members(u \o f) = Members(u) \cup Members(f) BY <2>1, <2>3, ConcatMembers
  <2> QED BY <1>5, <1>6, <2>2, <2>3, <2>4
<1>8. /\ DeallocSlabs(q) /\ slabList' = [slabList EXCEPT ![c] = NoSlabs]
      /\ links' = [head |-> [links.head EXCEPT ![c] = [k \in States |-> NULL]],
                   next |-> Unlinked(q)]
  BY <1>3, <1>4, <1>5, Zenon DEF LinkDestroy, Destroy
<1>9. DOMAIN slab' = DOMAIN slab \ G BY <1>6, <1>8, DeallocProperties
<1>10. LinksOK(links, slabList, DOMAIN slab) BY DEF LinkInv
<1>11. links \in Links BY <1>10 DEF LinksOK
<1> DEFINE g == [links.head EXCEPT ![c] = [k \in States |-> NULL]]
           m == [t \in Arena |-> IF t \in G THEN NULL ELSE links.next[t]]
<1>12. links' = [head |-> g, next |-> m]
  <2>1. Unlinked(q) = m BY <1>6 DEF Unlinked
  <2> QED BY <1>8, <2>1
<1>13. /\ g \in [Caches -> [States -> Arena \cup {NULL}]]
       /\ \A d \in Caches, j \in States :
            g[d][j] = IF d = c THEN NULL ELSE links.head[d][j]
       /\ m \in [Arena -> Arena \cup {NULL}]
  BY <1>11 DEF Links
<1>14. \A d \in Caches, j \in States :
         slabList'[d][j] = IF d = c THEN <<>> ELSE slabList[d][j]
  <2>1. DOMAIN slabList = Caches BY <1>1 DEF Inv, Types
  <2> QED BY <1>8, <2>1 DEF NoSlabs
<1>15. PICK l, lists : l = links' /\ lists = slabList' OBVIOUS
<1> HIDE DEF g
<1>16. l \in Links /\ l.head = g /\ l.next = m
  <2> HIDE DEF m
  <2> QED BY <1>12, <1>13, <1>15 DEF Links
<1>17. LinksOK(l, lists, DOMAIN slab \ G)
  <2>1. \A d \in Caches, j \in States :
          \/ /\ lists[d][j] = slabList[d][j] /\ l.head[d][j] = links.head[d][j]
             /\ Members(slabList[d][j]) \cap G = {}
          \/ lists[d][j] = <<>> /\ l.head[d][j] = NULL
    <3> TAKE d \in Caches, j \in States
    <3>1. CASE d = c BY <1>13, <1>14, <1>15, <1>16, <3>1
    <3>2. CASE d # c
      <4>1. \A k \in States : Members(slabList[d][j]) \cap Members(slabList[c][k]) = {}
        BY <1>1, <3>2 DEF ListsApart
      <4>2. Members(slabList[d][j]) \cap G = {} BY <1>2, <1>3, <1>7, <4>1
      <4> QED BY <1>13, <1>14, <1>15, <1>16, <3>2, <4>2
    <3> QED BY <3>1, <3>2
  <2>2. Dropped(links, slabList, l, lists, G) BY <1>16, <2>1 DEF Dropped
  <2> QED BY <1>1, <1>10, <2>2, DropKeeps
<1> QED BY <1>9, <1>15, <1>17 DEF LinkInv

LEMMA LinkStep ==
  ASSUME SlabInv, LinkInv, LinkNext PROVE LinkInv'
<1>1. PICK c \in Caches :
        \/ LinkCreate(c) \/ LinkAllocate(c) \/ (RunsOut(c) /\ UNCHANGED links)
        \/ \E o \in objects : LinkFree(c, o)
        \/ LinkShrink(c) \/ LinkDestroy(c)
  BY DEF LinkNext
<1>2. CASE RunsOut(c) /\ UNCHANGED links BY <1>2 DEF RunsOut, LinkInv, LinksOK
<1> QED BY <1>1, <1>2, LinkCreateStep, LinkAllocateStep, LinkFreeStep, LinkShrinkStep,
           LinkDestroyStep

\* The pointers lead along the lists after every call.
THEOREM LinkInvariance == LinkSpec => [](SlabInv /\ LinkInv)
<1>1. LinkSpec => []SlabInv BY LinksAreSlabCache, Invariance, PTL
<1>2. SlabInv /\ LinkInv /\ [LinkNext]_linkVars => LinkInv'
  <2>1. SlabInv /\ LinkInv /\ LinkNext => LinkInv' BY LinkStep
  <2>2. LinkInv /\ UNCHANGED linkVars => LinkInv'
    BY DEF linkVars, slabVars, LinkInv, LinksOK
  <2> QED BY <2>1, <2>2
<1>3. LinkInit => LinkInv BY LinkInvInit
<1> QED BY <1>1, <1>2, <1>3, PTL DEF LinkSpec

\* Whoever follows next from the head of a list meets the slabs of the cache that are in
\* that state, each once, and comes to the end: no slab is left pointing into a list it is
\* no longer on.
THEOREM SlabsLinkedCorrect == LinkSpec => []SlabsLinked
<1>1. SlabInv /\ LinkInv /\ SlabsListed => SlabsLinked
  <2> SUFFICES ASSUME SlabInv, LinkInv, SlabsListed PROVE SlabsLinked OBVIOUS
  <2>1. live \subseteq Caches BY DEF SlabInv, Inv, Types
  <2> QED BY <2>1, ListsRead DEF SlabsLinked
<1> QED BY <1>1, LinkInvariance, LinksAreSlabCache, ListedCorrect, PTL
=============================================================================
