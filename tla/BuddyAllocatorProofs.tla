------------------------ MODULE BuddyAllocatorProofs ------------------------
(***************************************************************************)
(* Theorems about BuddyAllocator, for any number of levels: the blocks,    *)
(* free or owned, do not overlap, no block is free together with its other *)
(* half, and to its clients this is an allocator.                          *)
(***************************************************************************)
EXTENDS BuddyAllocator, FiniteSetTheorems, Induction

-----------------------------------------------------------------------------
(* The lists *)

Distinct(q) == \A i, j \in 1..Len(q) : q[i] = q[j] => i = j

\* Putting an entry in front.
LEMMA FrontProperties ==
  ASSUME NEW S, NEW q \in Seq(S), NEW s \in S
  PROVE  /\ <<s>> \o q \in Seq(S)
         /\ Members(<<s>> \o q) = Members(q) \cup {s}
         /\ Distinct(q) /\ s \notin Members(q) => Distinct(<<s>> \o q)
<1> DEFINE r == <<s>> \o q
<1>1. r \in Seq(S) /\ Len(r) = Len(q) + 1 OBVIOUS
<1>2. r[1] = s /\ \A i \in 1..Len(q) : r[i + 1] = q[i] OBVIOUS
<1>3. \A i \in 1..Len(r) : i = 1 \/ (i - 1 \in 1..Len(q) /\ r[i] = q[i - 1])
  BY <1>1, <1>2
<1> HIDE DEF r
<1>4. Members(r) \subseteq Members(q) \cup {s}
  <2>1. ASSUME NEW i \in 1..Len(r) PROVE r[i] = s \/ r[i] \in Members(q)
    BY <1>2, <1>3 DEF Members
  <2> QED BY <2>1 DEF Members
<1>5. Members(q) \cup {s} \subseteq Members(r)
  <2>1. s \in Members(r) BY <1>1, <1>2 DEF Members
  <2>2. ASSUME NEW i \in 1..Len(q) PROVE q[i] \in Members(r)
    <3>1. i + 1 \in 1..Len(r) /\ r[i + 1] = q[i] BY <1>1, <1>2
    <3> QED BY <3>1 DEF Members
  <2> QED BY <2>1, <2>2 DEF Members
<1>6. ASSUME Distinct(q), s \notin Members(q) PROVE Distinct(r)
  <2> SUFFICES ASSUME NEW i \in 1..Len(r), NEW j \in 1..Len(r), r[i] = r[j]
               PROVE  i = j
    BY DEF Distinct
  <2>1. CASE i = 1 /\ j = 1 BY <2>1
  <2>2. CASE i = 1 /\ j # 1
    BY <1>2, <1>3, <1>6, <2>2 DEF Members
  <2>3. CASE i # 1 /\ j = 1
    BY <1>2, <1>3, <1>6, <2>3 DEF Members
  <2>4. CASE i # 1 /\ j # 1
    <3>1. i - 1 \in 1..Len(q) /\ j - 1 \in 1..Len(q) /\ q[i - 1] = q[j - 1]
      BY <1>3, <2>4
    <3> QED BY <1>6, <3>1 DEF Distinct
  <2> QED BY <2>1, <2>2, <2>3, <2>4
<1> QED BY <1>1, <1>4, <1>5, <1>6 DEF r

\* One list behind another.
LEMMA ConcatMembers ==
  ASSUME NEW S, NEW q \in Seq(S), NEW r \in Seq(S)
  PROVE  Members(q \o r) = Members(q) \cup Members(r)
<1>0. PICK u : u = q \o r OBVIOUS
<1>1. u \in Seq(S) /\ Len(u) = Len(q) + Len(r) BY <1>0
<1>2. \A i \in 1..Len(q) : u[i] = q[i] BY <1>0
<1>3. \A i \in 1..Len(r) : u[Len(q) + i] = r[i] BY <1>0
<1>4. \A i \in 1..Len(u) :
        i \in 1..Len(q) \/ (i - Len(q) \in 1..Len(r) /\ u[i] = r[i - Len(q)])
  BY <1>0, <1>1
<1>5. Members(u) \subseteq Members(q) \cup Members(r)
  BY <1>2, <1>4 DEF Members
<1>6. Members(q) \subseteq Members(u)
  BY <1>1, <1>2 DEF Members
<1>7. ASSUME NEW i \in 1..Len(r) PROVE r[i] \in Members(u)
  <2>1. Len(q) + i \in 1..Len(u) BY <1>1
  <2> QED BY <1>3, <2>1 DEF Members
<1>8. Members(r) \subseteq Members(u) BY <1>7 DEF Members
<1>9. Members(u) = Members(q) \cup Members(r) BY <1>5, <1>6, <1>8
<1> QED BY <1>0, <1>9, Zenon

\* Taking out entry n of a list without repetitions.
LEMMA WithoutAt ==
  ASSUME NEW S, NEW q \in Seq(S), Distinct(q), NEW n \in 1..Len(q)
  PROVE  /\ Without(q, q[n]) \in Seq(S) /\ Len(Without(q, q[n])) = Len(q) - 1
         /\ \A i \in 1 .. Len(q) - 1 :
              Without(q, q[n])[i] = IF i < n THEN q[i] ELSE q[i + 1]
<1> DEFINE s == q[n]
           r == RemoveAt(q, n)
<1>2. {i \in 1..Len(q) : q[i] = s} = {n} BY DEF Distinct
<1>3. Without(q, s) = r
  <2>1. (CHOOSE i \in {n} : \A j \in {n} : i <= j) = n
    <3>1. n <= n OBVIOUS
    <3> QED BY <3>1
  <2> QED BY <1>2, <2>1 DEF Without
<1>4. /\ r \in Seq(S) /\ Len(r) = Len(q) - 1
      /\ \A i \in 1..Len(r) : r[i] = IF i < n THEN q[i] ELSE q[i + 1]
  <2> DEFINE a == SubSeq(q, 1, n - 1)
             b == SubSeq(q, n + 1, Len(q))
  <2>1. a \in Seq(S) /\ Len(a) = n - 1 /\ \A i \in 1 .. n - 1 : a[i] = q[i]
    OBVIOUS
  <2>2. b \in Seq(S) /\ Len(b) = Len(q) - n
        /\ \A i \in 1 .. Len(q) - n : b[i] = q[n + i]
    <3>1. b = [i \in 1 .. Len(q) - n |-> q[n + i]]
      <4>1. Len(q) + 1 - (n + 1) = Len(q) - n OBVIOUS
      <4>2. \A i \in 1 .. Len(q) - n : (n + 1) + i - 1 = n + i OBVIOUS
      <4> QED BY <4>1, <4>2
    <3> QED BY <3>1
  <2> HIDE DEF a, b
  <2>3. a \o b \in Seq(S) /\ Len(a \o b) = Len(q) - 1
    <3>1. n \in Nat /\ n >= 1 /\ Len(q) \in Nat /\ Len(q) >= n OBVIOUS
    <3>2. PICK u : u = a \o b OBVIOUS
    <3>3. \A v, w \in Seq(S) : u = v \o w => u \in Seq(S) /\ Len(u) = Len(v) + Len(w)
      OBVIOUS
    <3>4. u \in Seq(S) /\ Len(u) = Len(a) + Len(b) BY <2>1, <2>2, <3>2, <3>3, Zenon
    <3>5. Len(u) = Len(q) - 1 BY <2>1, <2>2, <3>1, <3>4
    <3> QED BY <3>2, <3>4, <3>5, Zenon
  <2>4. \A i \in 1 .. Len(q) - 1 :
          (a \o b)[i] = IF i < n THEN q[i] ELSE q[i + 1]
    <3> TAKE i \in 1 .. Len(q) - 1
    <3>1. CASE i < n BY <2>1, <2>2, <3>1
    <3>2. CASE ~(i < n)
      <4>1. i - (n - 1) \in 1 .. Len(q) - n /\ n + (i - (n - 1)) = i + 1 BY <3>2
      <4>2. (a \o b)[i] = b[i - (n - 1)] BY <2>1, <2>2, <3>2
      <4> QED BY <2>2, <3>2, <4>1, <4>2
    <3> QED BY <3>1, <3>2
  <2> QED BY <2>3, <2>4 DEF a, b, RemoveAt
<1> HIDE DEF r, s
<1>5. \A i \in 1 .. Len(q) - 1 : i \in 1..Len(r) BY <1>4
<1> QED BY <1>3, <1>4, <1>5 DEF s

\* Taking out an entry that is on the list once.
LEMMA WithoutProperties ==
  ASSUME NEW S, NEW q \in Seq(S), Distinct(q), NEW s \in Members(q)
  PROVE  /\ Without(q, s) \in Seq(S)
         /\ Members(Without(q, s)) = Members(q) \ {s}
         /\ Distinct(Without(q, s))
<1>1. PICK n \in 1..Len(q) : q[n] = s BY DEF Members
<1>3. PICK r : r = Without(q, s) OBVIOUS
<1>4. /\ r \in Seq(S) /\ Len(r) = Len(q) - 1
      /\ \A i \in 1..Len(r) : r[i] = IF i < n THEN q[i] ELSE q[i + 1]
  BY <1>1, <1>3, WithoutAt
<1>5. \A i \in 1..Len(q) : i # n => \E j \in 1..Len(r) : r[j] = q[i]
  <2> TAKE i \in 1..Len(q)
  <2> HAVE i # n
  <2>1. CASE i < n
    <3>1. i \in 1..Len(r) /\ r[i] = q[i] BY <1>4, <2>1
    <3> QED BY <3>1
  <2>2. CASE i > n
    <3>1. i - 1 \in 1..Len(r) /\ ~(i - 1 < n) /\ (i - 1) + 1 = i BY <1>4, <2>2
    <3>2. r[i - 1] = q[i] BY <1>4, <3>1
    <3> QED BY <3>1, <3>2
  <2> QED BY <2>1, <2>2
<1>6. \A j \in 1..Len(r) : \E i \in 1..Len(q) : i # n /\ r[j] = q[i]
  <2> TAKE j \in 1..Len(r)
  <2>1. CASE j < n BY <1>4, <2>1
  <2>2. CASE ~(j < n)
    <3>1. j + 1 \in 1..Len(q) /\ j + 1 # n /\ r[j] = q[j + 1] BY <1>4, <2>2
    <3> QED BY <3>1
  <2> QED BY <2>1, <2>2
<1>7. \A i \in 1..Len(q) : i # n => q[i] # s BY <1>1 DEF Distinct
<1>8. Members(r) = Members(q) \ {s}
  <2>1. Members(r) \subseteq Members(q) \ {s}
    BY <1>6, <1>7 DEF Members
  <2>2. ASSUME NEW t \in Members(q) \ {s} PROVE t \in Members(r)
    <3>1. PICK i \in 1..Len(q) : t = q[i] BY DEF Members
    <3>2. i # n BY <1>1, <3>1
    <3> QED BY <1>5, <3>1, <3>2 DEF Members
  <2> QED BY <2>1, <2>2
<1>9. Distinct(r)
  <2> SUFFICES ASSUME NEW i \in 1..Len(r), NEW j \in 1..Len(r), r[i] = r[j]
               PROVE  i = j
    BY DEF Distinct
  <2> DEFINE f(k) == IF k < n THEN k ELSE k + 1
  <2>1. f(i) \in 1..Len(q) /\ f(j) \in 1..Len(q) BY <1>4
  <2>2. r[i] = q[f(i)] /\ r[j] = q[f(j)] BY <1>4
  <2>3. f(i) = f(j) BY <2>1, <2>2 DEF Distinct
  <2> QED BY <2>3
<1> QED BY <1>3, <1>4, <1>8, <1>9

\* A list without repetitions is as long as it has members.
LEMMA DistinctLength ==
  ASSUME NEW S, NEW q \in Seq(S), Distinct(q)
  PROVE  Cardinality(Members(q)) = Len(q)
<1> DEFINE f == [i \in 1..Len(q) |-> q[i]]
<1>1. f \in Bijection(1..Len(q), Members(q))
  <2>1. f \in [1..Len(q) -> Members(q)] BY DEF Members
  <2>2. f \in Injection(1..Len(q), Members(q))
    BY <2>1 DEF Distinct, Injection, IsInjective
  <2>3. f \in Surjection(1..Len(q), Members(q))
    BY <2>1 DEF Members, Surjection
  <2> QED BY <2>2, <2>3 DEF Bijection
<1>2. ExistsBijection(1..Len(q), Members(q)) BY <1>1 DEF ExistsBijection
<1>3. IsFiniteSet(1..Len(q)) /\ Cardinality(1..Len(q)) = Len(q)
  <2>1. Len(q) \in Nat OBVIOUS
  <2> HIDE DEF f
  <2> QED BY <2>1, FS_Interval
<1> QED BY <1>2, <1>3, FS_Bijection

-----------------------------------------------------------------------------
(* Multiples and remainders *)

Multiples(s) == {q * s : q \in Nat}

\* The multiple after m.
LEMMA MultipleNext ==
  ASSUME NEW s \in Nat, NEW m \in Multiples(s)
  PROVE  m \in Nat /\ m + s \in Multiples(s)
<1>1. PICK q \in Nat : m = q * s BY DEF Multiples
<1>2. m \in Nat BY <1>1
<1>3. q + 1 \in Nat /\ m + s = (q + 1) * s BY <1>1
<1> QED BY <1>2, <1>3 DEF Multiples

\* The first multiple.
LEMMA MultipleZero ==
  ASSUME NEW s \in Nat PROVE 0 \in Multiples(s)
<1>1. 0 \in Nat /\ 0 = 0 * s OBVIOUS
<1> QED BY <1>1 DEF Multiples

\* A multiple of the double.
LEMMA MultipleHalf ==
  ASSUME NEW s \in Nat, NEW m \in Multiples(2 * s) PROVE m \in Multiples(s)
<1>1. PICK q \in Nat : m = q * (2 * s) BY DEF Multiples
<1>2. m = (2 * q) * s /\ 2 * q \in Nat BY <1>1
<1> QED BY <1>2 DEF Multiples

\* What is above a multiple is the remainder.
LEMMA Remainder ==
  ASSUME NEW s \in Nat \ {0}, NEW m \in Multiples(s), NEW r \in Nat, r < s
  PROVE  (m + r) % s = r
<1>1. PICK q \in Nat : m = q * s BY DEF Multiples
<1>2. (q * s + r) % s = r OBVIOUS
<1> QED BY <1>1, <1>2

\* Every number is a multiple and a remainder.
LEMMA MultipleBelow ==
  ASSUME NEW s \in Nat \ {0}, NEW a \in Nat
  PROVE  \E m \in Multiples(s) : a = m + (a % s) /\ a % s \in Nat /\ a % s < s
<1> DEFINE T == {n \in Nat : \E m \in Multiples(s), r \in Nat : r < s /\ n = m + r}
<1>1. 0 \in T
  <2>1. 0 < s /\ 0 = 0 + 0 OBVIOUS
  <2> QED BY <2>1, MultipleZero
<1>2. ASSUME NEW n \in Nat, n \in T PROVE n + 1 \in T
  <2>1. PICK m \in Multiples(s), r \in Nat : r < s /\ n = m + r BY <1>2
  <2>2. m \in Nat /\ m + s \in Multiples(s) BY MultipleNext
  <2>3. CASE r + 1 < s
    <3>1. n + 1 = m + (r + 1) BY <2>1, <2>2
    <3> QED BY <2>3, <3>1
  <2>4. CASE r + 1 = s
    <3>1. n + 1 = (m + s) + 0 /\ 0 < s BY <2>1, <2>2, <2>4
    <3> QED BY <2>2, <3>1
  <2> QED BY <2>1, <2>3, <2>4
<1>3. a \in T
  <2> HIDE DEF T
  <2> QED BY <1>1, <1>2, InductionFromZero
<1>4. PICK m \in Multiples(s), r \in Nat : r < s /\ a = m + r BY <1>3
<1>5. (m + r) % s = r BY <1>4, Remainder
<1> QED BY <1>4, <1>5

\* No remainder means a multiple.
LEMMA RemainderZero ==
  ASSUME NEW s \in Nat \ {0}, NEW a \in Nat
  PROVE  a % s = 0 <=> a \in Multiples(s)
<1>1. PICK m \in Multiples(s) : a = m + (a % s) /\ a % s \in Nat /\ a % s < s
  BY MultipleBelow
<1>2. m \in Nat BY MultipleNext
<1>3. ASSUME a % s = 0 PROVE a \in Multiples(s) BY <1>1, <1>2, <1>3
<1>4. ASSUME a \in Multiples(s) PROVE a % s = 0
  <2>1. (a + 0) % s = 0
    <3>1. 0 \in Nat /\ 0 < s OBVIOUS
    <3> QED BY <1>4, <3>1, Remainder
  <2> QED BY <2>1
<1> QED BY <1>3, <1>4

\* The multiple of s below a is one of the two in the multiple of 2 * s below it.
LEMMA Halves ==
  ASSUME NEW s \in Nat \ {0}, NEW a \in Nat
  PROVE  LET c == a - (a % s)
             d == a - (a % (2 * s))
         IN /\ d \in Multiples(2 * s) /\ d \in Nat
            /\ c = d \/ c = d + s
            /\ c % (2 * s) = 0 <=> c = d
<1>1. PICK d \in Multiples(2 * s) :
        a = d + (a % (2 * s)) /\ a % (2 * s) \in Nat /\ a % (2 * s) < 2 * s
  <2>1. 2 * s \in Nat \ {0} OBVIOUS
  <2> QED BY <2>1, MultipleBelow
<1>2. PICK r \in Nat : r = a % (2 * s) /\ r < 2 * s BY <1>1
<1>3. 2 * s \in Nat \ {0} OBVIOUS
<1>4. d \in Nat /\ d \in Multiples(s) BY <1>3, MultipleNext, MultipleHalf
<1>5. d + s \in Multiples(s) BY <1>4, MultipleNext
<1>6. d % (2 * s) = 0 /\ (d + s) % (2 * s) = s
  <2>1. 0 < 2 * s /\ s < 2 * s OBVIOUS
  <2>2. (d + 0) % (2 * s) = 0 /\ (d + s) % (2 * s) = s BY <1>3, <2>1, Remainder
  <2> QED BY <1>4, <2>2
<1>7. CASE r < s
  <2>1. (d + r) % s = r BY <1>4, <1>7, Remainder
  <2>2. a % s = r BY <1>1, <1>2, <2>1
  <2> QED BY <1>1, <1>2, <1>4, <1>6, <2>2
<1>8. CASE r >= s
  <2>1. PICK t \in Nat : t = r - s /\ t < s
    <3>1. r - s \in Nat /\ r - s < s BY <1>2, <1>8
    <3> QED BY <3>1
  <2>2. ((d + s) + t) % s = t BY <1>5, <2>1, Remainder
  <2>3. a = (d + s) + t BY <1>1, <1>2, <1>4, <2>1
  <2>4. a % s = t BY <2>2, <2>3
  <2>5. a - (a % s) = d + s BY <1>4, <2>1, <2>3, <2>4
  <2> QED BY <1>1, <1>2, <1>4, <1>6, <2>5
<1> QED BY <1>2, <1>7, <1>8
-----------------------------------------------------------------------------
(* Lists of the allocator *)

\* Putting an entry behind the last one.
LEMMA BackProperties ==
  ASSUME NEW S, NEW q \in Seq(S), NEW s \in S
  PROVE  /\ Append(q, s) \in Seq(S)
         /\ Members(Append(q, s)) = Members(q) \cup {s}
         /\ Distinct(q) /\ s \notin Members(q) => Distinct(Append(q, s))
<1>0. PICK r : r = Append(q, s) OBVIOUS
<1>1. r \in Seq(S) /\ Len(r) = Len(q) + 1 BY <1>0
<1>2. r[Len(q) + 1] = s /\ \A i \in 1..Len(q) : r[i] = q[i] BY <1>0
<1>3. \A i \in 1..Len(r) : i = Len(q) + 1 \/ i \in 1..Len(q) BY <1>1
<1>4. Members(r) = Members(q) \cup {s}
  <2>1. Members(r) \subseteq Members(q) \cup {s} BY <1>2, <1>3 DEF Members
  <2>2. Members(q) \subseteq Members(r) BY <1>1, <1>2 DEF Members
  <2>3. s \in Members(r)
    <3>1. Len(q) + 1 \in 1..Len(r) BY <1>1
    <3> QED BY <1>2, <3>1 DEF Members
  <2> QED BY <2>1, <2>2, <2>3
<1>5. ASSUME Distinct(q), s \notin Members(q) PROVE Distinct(r)
  <2> SUFFICES ASSUME NEW i \in 1..Len(r), NEW j \in 1..Len(r), r[i] = r[j]
               PROVE  i = j
    BY DEF Distinct
  <2>1. \A k \in 1..Len(q) : q[k] # s BY <1>5 DEF Members
  <2> QED BY <1>2, <1>3, <1>5, <2>1 DEF Distinct
<1> QED BY <1>0, <1>1, <1>4, <1>5

\* The entries behind the first one.
LEMMA TailProperties ==
  ASSUME NEW S, NEW q \in Seq(S), q # <<>>, Distinct(q)
  PROVE  /\ Head(q) \in Members(q)
         /\ Tail(q) \in Seq(S)
         /\ Members(Tail(q)) = Members(q) \ {Head(q)}
         /\ Distinct(Tail(q))
<1>1. Len(q) \in Nat /\ Len(q) >= 1 /\ Head(q) = q[1] OBVIOUS
<1>2. PICK r : r = Tail(q) OBVIOUS
<1>3. r \in Seq(S) /\ Len(r) = Len(q) - 1 /\ \A i \in 1..Len(r) : r[i] = q[i + 1]
  BY <1>1, <1>2
<1>4. \A i \in 1..Len(r) : i + 1 \in 1..Len(q) BY <1>1, <1>3
<1>5. \A i \in 1..Len(q) : i = 1 \/ (i - 1 \in 1..Len(r) /\ r[i - 1] = q[i]) BY <1>1, <1>3
<1>6. 1 \in 1..Len(q) BY <1>1
<1>7. Members(r) \subseteq Members(q) \ {q[1]}
  <2> SUFFICES ASSUME NEW i \in 1..Len(r) PROVE r[i] \in Members(q) /\ r[i] # q[1]
    BY DEF Members
  <2>1. i + 1 \in 1..Len(q) /\ r[i] = q[i + 1] /\ i + 1 # 1 BY <1>3, <1>4
  <2> QED BY <1>6, <2>1 DEF Members, Distinct
<1>8. Members(q) \ {q[1]} \subseteq Members(r) BY <1>5 DEF Members
<1>9. Distinct(r)
  <2> SUFFICES ASSUME NEW i \in 1..Len(r), NEW j \in 1..Len(r), r[i] = r[j]
               PROVE  i = j
    BY DEF Distinct
  <2>1. i + 1 \in 1..Len(q) /\ j + 1 \in 1..Len(q) /\ q[i + 1] = q[j + 1] BY <1>3, <1>4
  <2>2. i + 1 = j + 1 BY <2>1 DEF Distinct
  <2> QED BY <2>2
<1>10. Head(q) \in Members(q) BY <1>1, <1>6 DEF Members
<1>11. Members(r) = Members(q) \ {Head(q)} BY <1>1, <1>7, <1>8
<1> QED BY <1>2, <1>3, <1>9, <1>10, <1>11, Zenon

\* An entry is entered once, or not at all.
LEMMA AddEntryProperties ==
  ASSUME NEW S, NEW q \in Seq(S), NEW addr \in S
  PROVE  /\ AddEntry(q, addr) \in Seq(S)
         /\ Members(AddEntry(q, addr)) \subseteq Members(q) \cup {addr}
         /\ Distinct(q) /\ addr \notin Members(q) => Distinct(AddEntry(q, addr))
<1> DEFINE greater == {i \in 1..Len(q) : q[i] > addr}
<1>1. CASE greater = {}
  <2>1. AddEntry(q, addr) = Append(q, addr) BY <1>1 DEF AddEntry
  <2> HIDE DEF greater
  <2> QED BY <2>1, BackProperties
<1>2. CASE 1 \in greater
  <2>1. AddEntry(q, addr) = <<addr>> \o q BY <1>2 DEF AddEntry
  <2> HIDE DEF greater
  <2> QED BY <2>1, FrontProperties
<1>3. CASE greater # {} /\ 1 \notin greater
  <2>1. AddEntry(q, addr) = q BY <1>3 DEF AddEntry
  <2> QED BY <2>1
<1> QED BY <1>1, <1>2, <1>3

\* The first entry of an empty list.
LEMMA AddFirst == \A addr : AddEntry(<<>>, addr) = <<addr>>
<1> TAKE addr
<1>1. {i \in 1..Len(<<>>) : <<>>[i] > addr} = {} OBVIOUS
<1>2. Append(<<>>, addr) = <<addr>> OBVIOUS
<1> QED BY <1>1, <1>2 DEF AddEntry

-----------------------------------------------------------------------------
(* Sizes *)

\* The recursion of PowerOf2 defines a function.
LEMMA Powers ==
  /\ PowerOf2 \in [Nat -> Nat]
  /\ PowerOf2[0] = 1
  /\ \A n \in Nat : PowerOf2[n + 1] = 2 * PowerOf2[n]
<1> DEFINE step == [n \in Nat |-> [x \in Nat |-> 2 * x]]
           Doubles(f) == f = [n \in Nat |-> IF n = 0 THEN 1 ELSE 2 * f[n - 1]]
<1>1. PICK f \in [Nat -> Nat] : f[0] = 1 /\ \A n \in Nat : f[n + 1] = step[n][f[n]]
  <2>1. IsRecursion(Nat, 1, step) BY DEF IsRecursion
  <2> HIDE DEF step
  <2>2. \E f : Solves(f, Nat, 1, step) BY <2>1, RecursiveFunction
  <2> QED BY <2>2 DEF Solves
<1>2. Doubles(f)
  <2>1. \A n \in Nat : f[n] = IF n = 0 THEN 1 ELSE 2 * f[n - 1]
    <3> TAKE n \in Nat
    <3>1. CASE n = 0 BY <1>1, <3>1
    <3>2. CASE n # 0
      <4>1. n - 1 \in Nat /\ (n - 1) + 1 = n BY <3>2
      <4>2. f[n] = 2 * f[n - 1] BY <1>1, <4>1
      <4> QED BY <3>2, <4>2
    <3> QED BY <3>1, <3>2
  <2> QED BY <2>1
<1>3. PowerOf2 = CHOOSE g : Doubles(g) BY DEF PowerOf2
<1>4. Doubles(PowerOf2)
  <2> HIDE DEF Doubles
  <2> QED BY <1>2, <1>3
<1>5. DOMAIN PowerOf2 = Nat /\ PowerOf2[0] = 1 BY <1>4
<1>6. \A n \in Nat : PowerOf2[n + 1] = 2 * PowerOf2[n]
  <2> TAKE n \in Nat
  <2>1. n + 1 \in Nat /\ n + 1 # 0 /\ (n + 1) - 1 = n OBVIOUS
  <2> QED BY <1>4, <2>1
<1>7. \A n \in Nat : PowerOf2[n] \in Nat
  <2> DEFINE T == {n \in Nat : PowerOf2[n] \in Nat}
  <2>1. 0 \in T BY <1>5
  <2>2. \A n \in Nat : n \in T => n + 1 \in T BY <1>6
  <2>3. \A n \in Nat : n \in T
    <3> HIDE DEF T
    <3> QED BY <2>1, <2>2, InductionFromZero
  <2> QED BY <2>3
<1>8. PowerOf2 = [n \in Nat |-> PowerOf2[n]] BY <1>4
<1> QED BY <1>5, <1>6, <1>7, <1>8
\* Each size is twice the one below it, and a multiple of the ones below it.
LEMMA Sizes ==
  ASSUME NEW l \in Nat \ {0}
  PROVE  SizeOf(l) \in Nat \ {0} /\ SizeOf(l + 1) = 2 * SizeOf(l)
<1> DEFINE T == {n \in Nat : PowerOf2[n] # 0}
<1>1. 0 \in T BY Powers
<1>2. \A n \in Nat : n \in T => n + 1 \in T BY Powers
<1>3. \A n \in Nat : n \in T
  <2> HIDE DEF T
  <2> QED BY <1>1, <1>2, InductionFromZero
<1>4. l - 1 \in Nat /\ (l + 1) - 1 = (l - 1) + 1 OBVIOUS
<1> QED BY <1>3, <1>4, Powers DEF SizeOf

LEMMA SizesOrdered ==
  ASSUME NEW k \in Nat \ {0}, NEW l \in Nat, k <= l
  PROVE  /\ SizeOf(k) <= SizeOf(l)
         /\ Multiples(SizeOf(l)) \subseteq Multiples(SizeOf(k))
<1> DEFINE T == {n \in Nat : /\ SizeOf(k) <= SizeOf(n)
                             /\ Multiples(SizeOf(n)) \subseteq Multiples(SizeOf(k))}
<1>1. k \in T
  <2>1. SizeOf(k) \in Nat BY Sizes
  <2> QED BY <2>1
<1>2. ASSUME NEW n \in Nat, n >= k, n \in T PROVE n + 1 \in T
  <2>1. n \in Nat \ {0} BY <1>2
  <2>2. SizeOf(n) \in Nat \ {0} /\ SizeOf(n + 1) = 2 * SizeOf(n) BY <2>1, Sizes
  <2>3. SizeOf(k) \in Nat BY Sizes
  <2>4. Multiples(SizeOf(n + 1)) \subseteq Multiples(SizeOf(n)) BY <2>2, MultipleHalf
  <2> QED BY <1>2, <2>2, <2>3, <2>4
<1>3. \A n \in Nat : n >= k => n \in T
  <2>1. k \in Nat OBVIOUS
  <2> HIDE DEF T
  <2> QED BY <1>1, <1>2, <2>1, InductionFrom
<1> QED BY <1>3

\* A block and its other half are the two halves of the block of the level above.
LEMMA TwoHalves ==
  ASSUME NEW addr \in Nat, NEW l \in Nat \ {0}
  PROVE  \E d \in Multiples(SizeOf(l + 1)) :
           /\ d \in Nat
           /\ d = BlockAt(addr, l + 1)
           /\ \/ BlockAt(addr, l) = d /\ Other(addr, l) = d + SizeOf(l)
              \/ BlockAt(addr, l) = d + SizeOf(l) /\ Other(addr, l) = d
<1>1. PICK s \in Nat \ {0} : s = SizeOf(l) /\ SizeOf(l + 1) = 2 * s BY Sizes
<1>2. PICK c, d : c = addr - (addr % s) /\ d = addr - (addr % (2 * s)) OBVIOUS
<1>3. /\ d \in Multiples(2 * s) /\ d \in Nat
      /\ c = d \/ c = d + s
      /\ c % (2 * s) = 0 <=> c = d
  BY <1>2, Halves
<1>4. BlockAt(addr, l) = c /\ BlockAt(addr, l + 1) = d BY <1>1, <1>2 DEF BlockAt
<1>5. Other(addr, l) = IF c = d THEN c + s ELSE c - s BY <1>1, <1>3, <1>4 DEF Other
<1> QED BY <1>1, <1>3, <1>4, <1>5

\* An address that a block may have is the one at which its block begins.
LEMMA AlignedBlock ==
  ASSUME NEW l \in Nat \ {0}, NEW a \in Multiples(SizeOf(l))
  PROVE  a \in Nat /\ BlockAt(a, l) = a
<1>1. SizeOf(l) \in Nat \ {0} BY Sizes
<1>2. a \in Nat BY <1>1, MultipleNext
<1>3. a % SizeOf(l) = 0 BY <1>1, <1>2, RemainderZero
<1> QED BY <1>2, <1>3 DEF BlockAt

LEMMA BlockAligned ==
  ASSUME NEW addr \in Nat, NEW l \in Nat \ {0}
  PROVE  BlockAt(addr, l) \in Multiples(SizeOf(l)) /\ Other(addr, l) \in Multiples(SizeOf(l))
<1>1. PICK d \in Multiples(SizeOf(l + 1)) :
        /\ d \in Nat
        /\ \/ BlockAt(addr, l) = d /\ Other(addr, l) = d + SizeOf(l)
           \/ BlockAt(addr, l) = d + SizeOf(l) /\ Other(addr, l) = d
  BY TwoHalves
<1>2. SizeOf(l) \in Nat /\ SizeOf(l + 1) = 2 * SizeOf(l) BY Sizes
<1>3. d \in Multiples(SizeOf(l)) BY <1>2, MultipleHalf
<1>4. d + SizeOf(l) \in Multiples(SizeOf(l)) BY <1>2, <1>3, MultipleNext
<1> QED BY <1>1, <1>3, <1>4

\* The other half of the other half is the block itself.
LEMMA OtherHalf ==
  ASSUME NEW l \in Nat \ {0}, NEW a \in Multiples(SizeOf(l))
  PROVE  /\ Other(a, l) \in Multiples(SizeOf(l))
         /\ Other(a, l) # a
         /\ Other(Other(a, l), l) = a
<1>1. PICK s \in Nat \ {0} : s = SizeOf(l) /\ SizeOf(l + 1) = 2 * s BY Sizes
<1>2. a \in Nat /\ BlockAt(a, l) = a BY AlignedBlock
<1>3. PICK d \in Multiples(2 * s) :
        /\ d \in Nat
        /\ d = BlockAt(a, l + 1)
        /\ \/ a = d /\ Other(a, l) = d + s
           \/ a = d + s /\ Other(a, l) = d
  <2>1. PICK d \in Multiples(SizeOf(l + 1)) :
          /\ d \in Nat
          /\ d = BlockAt(a, l + 1)
          /\ \/ BlockAt(a, l) = d /\ Other(a, l) = d + SizeOf(l)
             \/ BlockAt(a, l) = d + SizeOf(l) /\ Other(a, l) = d
    BY <1>2, TwoHalves
  <2> QED BY <1>1, <1>2, <2>1
<1>4. PICK o : o = Other(a, l) OBVIOUS
<1>5. o \in Multiples(s) BY <1>1, <1>2, <1>4, BlockAligned
<1>6. o \in Nat /\ BlockAt(o, l) = o BY <1>1, <1>5, AlignedBlock
<1>7. BlockAt(o, l + 1) = d
  <2>1. 2 * s \in Nat \ {0} /\ 0 < 2 * s /\ s < 2 * s /\ 0 \in Nat /\ s \in Nat OBVIOUS
  <2>2. (d + 0) % (2 * s) = 0 /\ (d + s) % (2 * s) = s BY <2>1, Remainder
  <2>3. d % (2 * s) = 0 BY <1>3, <2>2
  <2> QED BY <1>1, <1>3, <1>4, <2>2, <2>3 DEF BlockAt
<1>8. PICK e \in Multiples(SizeOf(l + 1)) :
        /\ e \in Nat
        /\ e = BlockAt(o, l + 1)
        /\ \/ BlockAt(o, l) = e /\ Other(o, l) = e + SizeOf(l)
           \/ BlockAt(o, l) = e + SizeOf(l) /\ Other(o, l) = e
  BY <1>6, TwoHalves
<1>9. e = d BY <1>7, <1>8
<1> QED BY <1>1, <1>3, <1>4, <1>5, <1>6, <1>8, <1>9
-----------------------------------------------------------------------------
(* The invariant *)

\* The blocks of level l at a and of level m at b have no unit in common.
Apart(a, l, b, m) == a + SizeOf(l) <= b \/ b + SizeOf(m) <= a

IsBlock(a, l) ==
  /\ l \in Levels
  /\ a \in Multiples(SizeOf(l))
  /\ a + SizeOf(l) <= SizeOf(maxPowerSize)

\* The lists have blocks that are apart from each other, none with its other half.
FreeOK(lists) ==
  /\ lists \in [Levels -> Seq(Nat)]
  /\ \A l \in Levels : Distinct(lists[l])
  /\ \A l \in Levels : \A a \in Members(lists[l]) :
       IsBlock(a, l) /\ Other(a, l) \notin Members(lists[l])
  /\ \A l, m \in Levels : \A a \in Members(lists[l]), b \in Members(lists[m]) :
       (l = m /\ a = b) \/ Apart(a, l, b, m)

\* So has the set of the blocks that clients own.
OwnedOK(owned) ==
  /\ \A x \in owned : IsBlock(x.base, x.level) /\ x.size = SizeOf(x.level)
  /\ \A x, y \in owned : x = y \/ Apart(x.base, x.level, y.base, y.level)

FreeNotOwned(lists, owned) ==
  \A l \in Levels : \A a \in Members(lists[l]), x \in owned : Apart(a, l, x.base, x.level)

\* The lists and the blocks that clients own, as values: the slab allocator gives back
\* several blocks in one of its steps.
BuddyOK(lists, owned) == FreeOK(lists) /\ OwnedOK(owned) /\ FreeNotOwned(lists, owned)

BuddyInv == BuddyOK(buddy, allocated)

-----------------------------------------------------------------------------
(* The steps *)

LEMMA BlockNumbers ==
  ASSUME NEW a, NEW l, IsBlock(a, l)
  PROVE  l \in Nat \ {0} /\ l <= maxPowerSize /\ a \in Nat /\ SizeOf(l) \in Nat \ {0}
<1>1. l \in Nat \ {0} /\ l <= maxPowerSize
  BY MaxPowerSizeAssumption DEF IsBlock, Levels
<1>2. SizeOf(l) \in Nat \ {0} BY <1>1, Sizes
<1>3. a \in Nat BY <1>1, AlignedBlock DEF IsBlock
<1> QED BY <1>1, <1>2, <1>3

\* What is in a list once the block of level l at block is cut down to level.
IsCut(lists, after, block, level, l) ==
  /\ after = [k \in Levels |->
                IF k = l THEN Tail(lists[k])
                ELSE IF k \in level .. l - 1
                THEN AddEntry(lists[k], SplitOff(block, k))
                ELSE lists[k]]
  /\ level \in Levels /\ l \in Levels /\ level <= l
  /\ lists[l] # <<>> /\ block = Head(lists[l])
  /\ \A k \in level .. l - 1 : lists[k] = <<>>

CutRecord(block, level) == [base |-> block, size |-> SizeOf(level), level |-> level]

\* The pieces are in the lists below l.
CutListsOK(lists, after, block, level, l) ==
  /\ after \in [Levels -> Seq(Nat)]
  /\ \A k \in Levels : Distinct(after[k])
  /\ block \in Members(lists[l]) /\ IsBlock(block, l)
  /\ Members(after[l]) = Members(lists[l]) \ {block}
  /\ \A k \in level .. l - 1 : Members(after[k]) = {block + SizeOf(k)}
  /\ \A k \in Levels : k # l /\ k \notin level .. l - 1 => after[k] = lists[k]

LEMMA CutLists ==
  ASSUME NEW lists, NEW after, NEW block, NEW level, NEW l, FreeOK(lists),
         IsCut(lists, after, block, level, l)
  PROVE  CutListsOK(lists, after, block, level, l)
<1>1. /\ lists[l] \in Seq(Nat) /\ Distinct(lists[l]) /\ level .. l - 1 \subseteq Levels
      /\ l \notin level .. l - 1
  BY MaxPowerSizeAssumption DEF FreeOK, IsCut, Levels
<1>2. /\ block \in Members(lists[l])
      /\ Tail(lists[l]) \in Seq(Nat)
      /\ Members(Tail(lists[l])) = Members(lists[l]) \ {block}
      /\ Distinct(Tail(lists[l]))
  BY <1>1, TailProperties DEF IsCut
<1>3. IsBlock(block, l) BY <1>2 DEF FreeOK, IsCut
<1>4. after[l] = Tail(lists[l]) BY DEF IsCut
<1>5. ASSUME NEW k \in level .. l - 1
      PROVE  after[k] \in Seq(Nat) /\ Distinct(after[k])
             /\ Members(after[k]) = {block + SizeOf(k)}
  <2>1. k \in Levels /\ k # l BY <1>1
  <2>2. k \in Nat \ {0} BY <2>1, MaxPowerSizeAssumption DEF Levels
  <2>3. PICK p \in Nat : p = block + SizeOf(k) BY <1>3, <2>2, BlockNumbers, Sizes
  <2>4. after[k] = AddEntry(<<>>, p) BY <2>1, <2>3 DEF IsCut, SplitOff
  <2>5. after[k] = <<p>> BY <2>4, AddFirst
  <2>6. PICK q : q = <<p>> OBVIOUS
  <2>7. q \in Seq(Nat) /\ Len(q) = 1 /\ q[1] = p BY <2>6
  <2>8. Members(q) = {p} /\ Distinct(q)
    <3>1. \A i \in 1..Len(q) : i = 1 BY <2>7
    <3>2. 1 \in 1..Len(q) BY <2>7
    <3> QED BY <2>7, <3>1, <3>2 DEF Members, Distinct
  <2> QED BY <2>3, <2>5, <2>6, <2>7, <2>8
<1>6. \A k \in Levels : k # l /\ k \notin level .. l - 1 => after[k] = lists[k]
  BY DEF IsCut
<1>7. \A k \in Levels : after[k] \in Seq(Nat) /\ Distinct(after[k])
  BY <1>2, <1>4, <1>5, <1>6 DEF FreeOK
<1>8. after \in [Levels -> Seq(Nat)] BY <1>7 DEF IsCut
<1> QED BY <1>2, <1>3, <1>4, <1>5, <1>6, <1>7, <1>8 DEF CutListsOK

\* The pieces lie in the block and are apart.
LEMMA CutKeeps ==
  ASSUME NEW lists, NEW owned, NEW after, NEW block, NEW level, NEW l,
         BuddyOK(lists, owned), IsCut(lists, after, block, level, l)
  PROVE  /\ BuddyOK(after, owned \cup {CutRecord(block, level)})
         /\ IsBlock(block, level)
         /\ \A y \in owned : Apart(y.base, y.level, block, level)
<1>0. FreeOK(lists) /\ OwnedOK(owned) /\ FreeNotOwned(lists, owned) BY DEF BuddyOK
<1>1. /\ after \in [Levels -> Seq(Nat)]
      /\ \A k \in Levels : Distinct(after[k])
      /\ block \in Members(lists[l]) /\ IsBlock(block, l)
      /\ Members(after[l]) = Members(lists[l]) \ {block}
      /\ \A k \in level .. l - 1 : Members(after[k]) = {block + SizeOf(k)}
      /\ \A k \in Levels : k # l /\ k \notin level .. l - 1 => after[k] = lists[k]
  <2>1. CutListsOK(lists, after, block, level, l) BY <1>0, CutLists
  <2> QED BY <2>1 DEF CutListsOK
<1>2. l \in Nat \ {0} /\ l <= maxPowerSize /\ block \in Nat /\ SizeOf(l) \in Nat \ {0}
  BY <1>1, BlockNumbers
<1>3. level \in Levels /\ l \in Levels /\ level <= l BY DEF IsCut
<1>4. \A k \in Levels : k \in Nat \ {0} /\ k <= maxPowerSize
  BY MaxPowerSizeAssumption DEF Levels
<1> DEFINE Old(a, k) == a \in Members(lists[k]) /\ ~(k = l /\ a = block)
           Piece(a, k) == k \in level .. l - 1 /\ a = block + SizeOf(k)
           \* In the block that is cut.
           In(a, k) == block <= a /\ a + SizeOf(k) <= block + SizeOf(l)
<1>5. \A k \in Levels : \A a \in Members(after[k]) : Old(a, k) \/ Piece(a, k)
  BY <1>1
<1>6. ASSUME NEW k \in Levels, k <= l
      PROVE  /\ block \in Multiples(SizeOf(k)) /\ SizeOf(k) <= SizeOf(l)
             /\ k \in Nat \ {0} /\ SizeOf(k) \in Nat \ {0}
  BY <1>1, <1>2, <1>4, <1>6, Sizes, SizesOrdered DEF IsBlock
<1>7. In(block, level) BY <1>2, <1>3, <1>6
<1>8. IsBlock(block, level)
  <2>1. block + SizeOf(l) <= SizeOf(maxPowerSize) /\ SizeOf(maxPowerSize) \in Nat
    BY <1>1, Sizes, MaxPowerSizeAssumption DEF IsBlock
  <2>2. block \in Multiples(SizeOf(level)) /\ SizeOf(level) \in Nat BY <1>3, <1>6
  <2>3. block + SizeOf(level) <= SizeOf(maxPowerSize) BY <1>2, <1>7, <2>1, <2>2
  <2> QED BY <1>3, <2>2, <2>3 DEF IsBlock
<1>9. ASSUME NEW k \in level .. l - 1, NEW a, Piece(a, k)
      PROVE  /\ IsBlock(a, k) /\ In(a, k)
             /\ Apart(a, k, block, level)
             /\ \A m \in level .. l - 1 : k < m => Apart(a, k, block + SizeOf(m), m)
  <2>1. k \in Levels /\ k <= l /\ k + 1 <= l /\ k + 1 \in Levels
    <3>1. level \in Nat /\ level >= 1 /\ l \in Nat /\ maxPowerSize \in Nat BY MaxPowerSizeAssumption, <1>2, <1>3, <1>4
    <3>2. k \in Nat /\ level <= k /\ k <= l - 1 BY <3>1
    <3> QED BY <1>2, <3>1, <3>2 DEF Levels
  <2>2. SizeOf(k + 1) = 2 * SizeOf(k) /\ SizeOf(k + 1) <= SizeOf(l) /\ SizeOf(k) \in Nat \ {0}
    BY <1>6, <2>1, Sizes
  <2>3. In(a, k) BY <1>2, <1>9, <2>2
  <2>4. a \in Multiples(SizeOf(k))
    <3>1. block \in Multiples(SizeOf(k)) /\ SizeOf(k) \in Nat BY <1>6, <2>1
    <3> QED BY <1>9, <3>1, MultipleNext
  <2>5. a \in Nat BY <1>2, <1>9, <2>2
  <2>6. block + SizeOf(l) <= SizeOf(maxPowerSize) /\ SizeOf(maxPowerSize) \in Nat
    BY <1>1, Sizes, MaxPowerSizeAssumption DEF IsBlock
  <2>7. IsBlock(a, k) BY <1>2, <2>1, <2>2, <2>3, <2>4, <2>5, <2>6 DEF IsBlock
  <2>8. Apart(a, k, block, level)
    <3>1. level \in Nat \ {0} /\ level <= k BY <1>3, <1>4
    <3>2. SizeOf(level) <= SizeOf(k) /\ SizeOf(level) \in Nat
      BY <2>1, <1>4, <3>1, Sizes, SizesOrdered
    <3> QED BY <1>2, <1>9, <2>2, <3>2 DEF Apart
  <2>9. ASSUME NEW m \in level .. l - 1, k < m PROVE Apart(a, k, block + SizeOf(m), m)
    <3>1. k + 1 <= m /\ k + 1 \in Nat \ {0} /\ m \in Nat BY <1>4, <2>1, <2>9, <1>2, <1>3
    <3>2. SizeOf(k + 1) <= SizeOf(m) /\ SizeOf(m) \in Nat BY <3>1, Sizes, SizesOrdered
    <3> QED BY <1>2, <1>9, <2>2, <3>2 DEF Apart
  <2> QED BY <2>3, <2>7, <2>8, <2>9
<1>10. ASSUME NEW b, NEW n, IsBlock(b, n), Apart(b, n, block, l),
              NEW a, NEW k, IsBlock(a, k), In(a, k)
       PROVE  Apart(b, n, a, k) /\ Apart(a, k, b, n)
  BY <1>2, <1>10, BlockNumbers DEF Apart
<1>11. ASSUME NEW k \in Levels, NEW a, Old(a, k)
       PROVE  IsBlock(a, k) /\ Apart(a, k, block, l)
  BY <1>0, <1>1, <1>11, <1>3 DEF FreeOK
<1>12. FreeOK(after)
  <2>1. ASSUME NEW k \in Levels, NEW a \in Members(after[k])
        PROVE  IsBlock(a, k) /\ Other(a, k) \notin Members(after[k])
    <3>1. CASE k \in level .. l - 1
      <4>1. Piece(a, k) /\ Members(after[k]) = {a} BY <1>1, <3>1
      <4>2. IsBlock(a, k) BY <1>9, <3>1, <4>1
      <4>3. Other(a, k) # a BY <4>2, BlockNumbers, OtherHalf DEF IsBlock
      <4> QED BY <4>1, <4>2, <4>3
    <3>2. CASE k \notin level .. l - 1
      <4>1. Members(after[k]) \subseteq Members(lists[k]) BY <1>1, <3>2
      <4> QED BY <1>0, <4>1 DEF FreeOK
    <3> QED BY <3>1, <3>2
  <2>2. ASSUME NEW k \in Levels, NEW m \in Levels,
               NEW a \in Members(after[k]), NEW b \in Members(after[m])
        PROVE  (k = m /\ a = b) \/ Apart(a, k, b, m)
    <3>1. CASE Old(a, k) /\ Old(b, m) BY <1>0, <3>1 DEF FreeOK
    <3>2. CASE Old(a, k) /\ Piece(b, m)
      <4>1. IsBlock(a, k) /\ Apart(a, k, block, l) BY <1>11, <3>2
      <4>2. IsBlock(b, m) /\ In(b, m) BY <1>9, <3>2
      <4> QED BY <1>10, <4>1, <4>2
    <3>3. CASE Piece(a, k) /\ Old(b, m)
      <4>1. IsBlock(b, m) /\ Apart(b, m, block, l) BY <1>11, <3>3
      <4>2. IsBlock(a, k) /\ In(a, k) BY <1>9, <3>3
      <4> QED BY <1>10, <4>1, <4>2
    <3>4. CASE Piece(a, k) /\ Piece(b, m)
      <4>1. k \in Nat /\ m \in Nat BY <1>4
      <4>2. CASE k = m BY <3>4, <4>2
      <4>3. CASE k < m BY <1>9, <3>4, <4>3
      <4>4. CASE m < k
        <5>1. Apart(b, m, a, k) BY <1>9, <3>4, <4>4
        <5> QED BY <5>1 DEF Apart
      <4> QED BY <4>1, <4>2, <4>3, <4>4
    <3> QED BY <1>5, <3>1, <3>2, <3>3, <3>4
  <2> QED BY <1>1, <2>1, <2>2 DEF FreeOK
<1>13. \A y \in owned :
         /\ IsBlock(y.base, y.level)
         /\ Apart(y.base, y.level, block, l)
         /\ Apart(y.base, y.level, block, level)
         /\ Apart(block, level, y.base, y.level)
  <2> TAKE y \in owned
  <2>1. IsBlock(y.base, y.level) BY <1>0 DEF OwnedOK
  <2>2. Apart(block, l, y.base, y.level) BY <1>0, <1>1, <1>3 DEF FreeNotOwned
  <2>3. Apart(y.base, y.level, block, l) BY <2>2 DEF Apart
  <2> QED BY <1>7, <1>8, <1>10, <2>1, <2>3
<1> DEFINE x == CutRecord(block, level)
<1>14. x.base = block /\ x.level = level /\ x.size = SizeOf(level) BY DEF CutRecord
<1> HIDE DEF x
<1>15. OwnedOK(owned \cup {x})
  BY <1>0, <1>8, <1>13, <1>14 DEF OwnedOK
<1>16. FreeNotOwned(after, owned \cup {x})
  <2> SUFFICES ASSUME NEW k \in Levels, NEW a \in Members(after[k])
               PROVE  /\ Apart(a, k, block, level)
                      /\ \A y \in owned : Apart(a, k, y.base, y.level)
    BY <1>14 DEF FreeNotOwned
  <2>1. CASE Old(a, k)
    <3>1. IsBlock(a, k) /\ Apart(a, k, block, l) BY <1>11, <2>1
    <3>2. Apart(a, k, block, level) BY <1>7, <1>8, <1>10, <3>1
    <3> QED BY <1>0, <2>1, <3>2 DEF FreeNotOwned
  <2>2. CASE Piece(a, k)
    <3>1. IsBlock(a, k) /\ In(a, k) /\ Apart(a, k, block, level) BY <1>9, <2>2
    <3> QED BY <1>10, <1>13, <3>1
  <2> QED BY <1>5, <2>1, <2>2
<1> QED BY <1>8, <1>12, <1>13, <1>15, <1>16 DEF x, BuddyOK
\* The levels on which the block at addr is merged are the ones from level to m - 1.
StopsAt(lists, addr, level, m) ==
  /\ m \in level..maxPowerSize
  /\ Merged(lists, addr, level) = level .. m - 1
  /\ Cardinality(Merged(lists, addr, level)) = m - level
  /\ Other(addr, m) \notin Members(lists[m])
  /\ \A k \in level .. m - 1 : Other(addr, k) \in Members(lists[k])

LEMMA MergedLevels ==
  ASSUME NEW lists, FreeOK(lists), NEW level \in Levels,
         NEW addr \in Nat, addr < SizeOf(maxPowerSize)
  PROVE  \E m : StopsAt(lists, addr, level, m)
<1> DEFINE U == {k \in level..maxPowerSize : Other(addr, k) \notin Members(lists[k])}
<1>1. level \in Nat \ {0} /\ maxPowerSize \in Nat \ {0} /\ level <= maxPowerSize
  BY MaxPowerSizeAssumption DEF Levels
<1>2. maxPowerSize \in U
  <2>1. PICK s \in Nat \ {0} : s = SizeOf(maxPowerSize) BY <1>1, Sizes
  <2>2. PICK d \in Multiples(SizeOf(maxPowerSize + 1)) :
          /\ d \in Nat
          /\ \/ BlockAt(addr, maxPowerSize) = d /\ Other(addr, maxPowerSize) = d + s
             \/ BlockAt(addr, maxPowerSize) = d + s /\ Other(addr, maxPowerSize) = d
    BY <1>1, <2>1, TwoHalves
  <2>3. addr % s \in Nat /\ BlockAt(addr, maxPowerSize) = addr - (addr % s)
    BY <2>1 DEF BlockAt
  <2>4. Other(addr, maxPowerSize) = d + s BY <2>1, <2>2, <2>3
  <2>5. ~IsBlock(d + s, maxPowerSize)
    BY <2>1, <2>2 DEF IsBlock
  <2>6. maxPowerSize \in Levels BY <1>1 DEF Levels
  <2>7. d + s \notin Members(lists[maxPowerSize]) BY <2>5, <2>6 DEF FreeOK
  <2> QED BY <1>1, <2>4, <2>7
<1>3. PICK m \in U : \A k \in U : m <= k
  <2>1. U \subseteq Nat /\ U # {} BY <1>1, <1>2
  <2> HIDE DEF U
  <2> QED BY <2>1, LeastElement
<1>4. m \in level..maxPowerSize /\ m \in Nat /\ level <= m BY <1>1, <1>3
<1>5. \A k \in level .. m - 1 : k \in level..maxPowerSize /\ k < m BY <1>1, <1>4
<1>6. \A k \in level .. m - 1 : Other(addr, k) \in Members(lists[k]) BY <1>3, <1>4, <1>5
<1>7. Merged(lists, addr, level) = level .. m - 1
  <2>1. ASSUME NEW l \in Merged(lists, addr, level) PROVE l \in level .. m - 1
    <3>1. l \in level..maxPowerSize /\ \A k \in level..l : Other(addr, k) \in Members(lists[k])
      BY DEF Merged, IsFree
    <3>2. m \notin level..l BY <1>3, <3>1
    <3> QED BY <1>1, <1>4, <3>1, <3>2
  <2>2. ASSUME NEW l \in level .. m - 1 PROVE l \in Merged(lists, addr, level)
    <3>1. \A k \in level..l : k \in level .. m - 1 BY <1>1, <1>4
    <3> QED BY <1>5, <1>6, <3>1 DEF Merged, IsFree
  <2> QED BY <2>1, <2>2
<1>8. Cardinality(level .. m - 1) = m - level
  <2>1. level \in Int /\ m - 1 \in Int BY <1>1, <1>4
  <2>2. Cardinality(level .. m - 1) = IF level > m - 1 THEN 0 ELSE (m - 1) - level + 1
    BY <2>1, FS_Interval, Zenon
  <2> QED BY <1>1, <1>4, <2>2
<1> QED BY <1>3, <1>4, <1>6, <1>7, <1>8 DEF StopsAt

\* What the lists have then: the merged halves are gone, the new block may be there.
FreedListsOK(lists, after, addr, level, m) ==
  /\ after \in [Levels -> Seq(Nat)]
  /\ \A k \in Levels : k # m => Distinct(after[k])
  /\ BlockAt(addr, m) \notin Members(lists[m]) => Distinct(after[m])
  /\ \A k \in level .. m - 1 : Members(after[k]) = Members(lists[k]) \ {Other(addr, k)}
  /\ Members(after[m]) \subseteq Members(lists[m]) \cup {BlockAt(addr, m)}
  /\ \A k \in Levels : k \notin level..m => after[k] = lists[k]

LEMMA FreedLists ==
  ASSUME NEW lists, FreeOK(lists), NEW level \in Levels, NEW addr \in Nat, NEW m,
         StopsAt(lists, addr, level, m)
  PROVE  FreedListsOK(lists, Freed(lists, addr, level), addr, level, m)
<1>1. level \in Nat \ {0} /\ maxPowerSize \in Nat /\ m \in Nat \ {0} /\ level <= m
      /\ m <= maxPowerSize
  BY MaxPowerSizeAssumption DEF Levels, StopsAt
<1>2. m \in Levels /\ \A k \in level .. m - 1 : k \in Levels /\ k # m BY <1>1 DEF Levels
<1>3. PICK after : after = Freed(lists, addr, level) OBVIOUS
<1>4. after = [l \in Levels |->
                 IF l \in level .. m - 1 THEN Without(lists[l], Other(addr, l))
                 ELSE IF l = m THEN AddEntry(lists[l], BlockAt(addr, l))
                 ELSE lists[l]]
  <2>1. level + Cardinality(Merged(lists, addr, level)) = m BY <1>1 DEF StopsAt
  <2> QED BY <1>3, <2>1 DEF Freed, StopsAt
<1>5. \A k \in Levels : lists[k] \in Seq(Nat) /\ Distinct(lists[k]) BY DEF FreeOK
<1>6. ASSUME NEW k \in level .. m - 1
      PROVE  /\ after[k] \in Seq(Nat) /\ Distinct(after[k])
             /\ Members(after[k]) = Members(lists[k]) \ {Other(addr, k)}
  <2>1. after[k] = Without(lists[k], Other(addr, k)) BY <1>2, <1>4
  <2>2. Other(addr, k) \in Members(lists[k]) BY DEF StopsAt
  <2>3. lists[k] \in Seq(Nat) /\ Distinct(lists[k]) BY <1>2, <1>5
  <2> QED BY <2>1, <2>2, <2>3, WithoutProperties
<1>7. /\ after[m] \in Seq(Nat)
      /\ Members(after[m]) \subseteq Members(lists[m]) \cup {BlockAt(addr, m)}
      /\ BlockAt(addr, m) \notin Members(lists[m]) => Distinct(after[m])
  <2>1. after[m] = AddEntry(lists[m], BlockAt(addr, m)) BY <1>1, <1>2, <1>4
  <2>2. BlockAt(addr, m) \in Nat BY <1>1, BlockAligned, AlignedBlock
  <2>3. lists[m] \in Seq(Nat) /\ Distinct(lists[m]) BY <1>2, <1>5
  <2> QED BY <2>1, <2>2, <2>3, AddEntryProperties
<1>8. \A k \in Levels : k \notin level..m => after[k] = lists[k]
  <2> TAKE k \in Levels
  <2> HAVE k \notin level..m
  <2>1. k \notin level .. m - 1 /\ k # m BY <1>1
  <2> QED BY <1>4, <2>1
<1>9. \A k \in Levels : k \in level .. m - 1 \/ k = m \/ k \notin level..m
  BY <1>1 DEF Levels
<1>10. \A k \in Levels : after[k] \in Seq(Nat) BY <1>5, <1>6, <1>7, <1>8, <1>9
<1>11. after \in [Levels -> Seq(Nat)] BY <1>4, <1>10
<1>12. \A k \in Levels : k # m => Distinct(after[k]) BY <1>5, <1>6, <1>8, <1>9
<1> QED BY <1>3, <1>6, <1>7, <1>8, <1>11, <1>12 DEF FreedListsOK

\* What is apart from the block at addr and from each half that is merged with it is
\* apart from the block they become.
LEMMA MergedApart ==
  ASSUME NEW level \in Nat \ {0}, NEW m \in Nat, level <= m,
         NEW addr \in Multiples(SizeOf(level)),
         NEW b \in Nat, NEW n \in Nat \ {0}, Apart(b, n, addr, level),
         \A k \in level .. m - 1 : Apart(b, n, Other(addr, k), k)
  PROVE  Apart(b, n, BlockAt(addr, m), m)
<1> DEFINE T == {k \in Nat : k <= m => Apart(b, n, BlockAt(addr, k), k)}
<1>1. addr \in Nat /\ BlockAt(addr, level) = addr BY AlignedBlock
<1>2. level \in T BY <1>1
<1>3. ASSUME NEW k \in Nat, k >= level, k \in T PROVE k + 1 \in T
  <2> SUFFICES ASSUME k + 1 <= m PROVE Apart(b, n, BlockAt(addr, k + 1), k + 1)
    OBVIOUS
  <2>1. k \in Nat \ {0} /\ k \in level .. m - 1 /\ k <= m BY <1>3
  <2>2. PICK s \in Nat \ {0}, z \in Nat \ {0} :
          s = SizeOf(k) /\ SizeOf(k + 1) = 2 * s /\ z = SizeOf(n)
    BY <2>1, Sizes
  <2>3. PICK d \in Nat :
          /\ d = BlockAt(addr, k + 1)
          /\ \/ BlockAt(addr, k) = d /\ Other(addr, k) = d + s
             \/ BlockAt(addr, k) = d + s /\ Other(addr, k) = d
    BY <1>1, <2>1, <2>2, TwoHalves
  <2>4. Apart(b, n, BlockAt(addr, k), k) /\ Apart(b, n, Other(addr, k), k) BY <1>3, <2>1
  <2>5. (b + z <= d \/ d + s <= b) /\ (b + z <= d + s \/ d + s + s <= b)
    BY <2>2, <2>3, <2>4 DEF Apart
  <2>6. b + z <= d \/ d + 2 * s <= b BY <2>5
  <2> QED BY <2>2, <2>3, <2>6 DEF Apart
<1>4. \A k \in Nat : k >= level => k \in T
  <2>1. level \in Nat OBVIOUS
  <2> HIDE DEF T
  <2> QED BY <1>2, <1>3, <2>1, InductionFrom
<1> QED BY <1>4
\* Of two multiples the greater one is greater by at least s.
LEMMA MultiplesApart ==
  ASSUME NEW s \in Nat \ {0}, NEW p \in Multiples(s), NEW q \in Multiples(s), p < q
  PROVE  p + s <= q
<1>1. PICK i \in Nat, j \in Nat : p = i * s /\ q = j * s BY DEF Multiples
<1>2. i < j
  <2> SUFFICES ASSUME j <= i PROVE FALSE OBVIOUS
  <2>1. j * s <= i * s OBVIOUS
  <2> QED BY <1>1, <2>1
<1>3. (i + 1) * s <= j * s
  <2>1. i + 1 <= j BY <1>2
  <2> QED BY <2>1
<1>4. (i + 1) * s = i * s + s OBVIOUS
<1> QED BY <1>1, <1>3, <1>4

\* The block in which addr lies is one of the allocator's.
LEMMA BlockInArena ==
  ASSUME NEW addr \in Nat, addr < SizeOf(maxPowerSize), NEW m \in Levels
  PROVE  IsBlock(BlockAt(addr, m), m)
<1>1. m \in Nat \ {0} /\ maxPowerSize \in Nat \ {0} /\ m <= maxPowerSize
  BY MaxPowerSizeAssumption DEF Levels
<1>2. PICK s \in Nat \ {0}, z \in Nat \ {0} : s = SizeOf(m) /\ z = SizeOf(maxPowerSize)
  BY <1>1, Sizes
<1>3. BlockAt(addr, m) \in Multiples(s) BY <1>1, <1>2, BlockAligned
<1>4. z \in Multiples(s)
  <2>1. z = 1 * z OBVIOUS
  <2>2. z \in Multiples(z) BY <2>1 DEF Multiples
  <2> QED BY <1>1, <1>2, <2>2, SizesOrdered
<1>5. BlockAt(addr, m) < z
  <2>1. addr % s \in Nat BY <1>2
  <2> QED BY <1>2, <2>1 DEF BlockAt
<1>6. BlockAt(addr, m) + s <= z BY <1>2, <1>3, <1>4, <1>5, MultiplesApart
<1> QED BY <1>2, <1>3, <1>6 DEF IsBlock

\* Giving back the whole of a block, or its first part.
LEMMA FreedKeeps ==
  ASSUME NEW lists, NEW owned, BuddyOK(lists, owned),
         NEW x \in owned, NEW level \in Levels, level <= x.level
  PROVE  BuddyOK(Freed(lists, x.base, level), owned \ {x})
<1>0. FreeOK(lists) /\ OwnedOK(owned) /\ FreeNotOwned(lists, owned) BY DEF BuddyOK
<1>1. PICK addr : addr = x.base OBVIOUS
<1>2. IsBlock(addr, x.level) BY <1>0, <1>1 DEF OwnedOK
<1>3. \A k \in Levels : k \in Nat \ {0} /\ k <= maxPowerSize /\ SizeOf(k) \in Nat \ {0}
  BY MaxPowerSizeAssumption, Sizes DEF Levels
<1>4. x.level \in Levels /\ addr \in Nat BY <1>2, BlockNumbers DEF IsBlock
<1>5. SizeOf(level) <= SizeOf(x.level) /\ addr \in Multiples(SizeOf(level))
  <2>1. level \in Nat \ {0} /\ x.level \in Nat BY <1>3, <1>4
  <2> QED BY <1>2, <2>1, SizesOrdered DEF IsBlock
<1>6. addr < SizeOf(maxPowerSize)
  <2>1. SizeOf(maxPowerSize) \in Nat BY MaxPowerSizeAssumption, Sizes
  <2>2. addr + SizeOf(x.level) <= SizeOf(maxPowerSize) BY <1>2 DEF IsBlock
  <2> QED BY <1>3, <1>4, <2>1, <2>2
<1>7. PICK m : StopsAt(lists, addr, level, m) BY <1>0, <1>4, <1>6, MergedLevels
<1>8. m \in Nat \ {0} /\ level <= m /\ m \in Levels
      /\ \A k \in level .. m - 1 : k \in Levels /\ k # m
  <2>1. m \in level..maxPowerSize BY <1>7 DEF StopsAt
  <2>2. level \in Nat \ {0} /\ maxPowerSize \in Nat BY <1>3, MaxPowerSizeAssumption
  <2> QED BY <2>1, <2>2 DEF Levels
<1>9. PICK after : after = Freed(lists, addr, level) OBVIOUS
<1>10. /\ after \in [Levels -> Seq(Nat)]
       /\ \A k \in Levels : k # m => Distinct(after[k])
       /\ BlockAt(addr, m) \notin Members(lists[m]) => Distinct(after[m])
       /\ \A k \in level .. m - 1 : Members(after[k]) = Members(lists[k]) \ {Other(addr, k)}
       /\ Members(after[m]) \subseteq Members(lists[m]) \cup {BlockAt(addr, m)}
       /\ \A k \in Levels : k \notin level..m => after[k] = lists[k]
  <2>1. FreedListsOK(lists, after, addr, level, m) BY <1>0, <1>4, <1>7, <1>9, FreedLists
  <2> QED BY <2>1 DEF FreedListsOK
<1>11. PICK c : c = BlockAt(addr, m) OBVIOUS
<1>12. IsBlock(c, m) BY <1>4, <1>6, <1>8, <1>11, BlockInArena
<1>13. c \in Nat /\ c \in Multiples(SizeOf(m)) BY <1>12, BlockNumbers DEF IsBlock
<1> DEFINE Kept(a, k) == a \in Members(lists[k]) /\ ~(k \in level .. m - 1 /\ a = Other(addr, k))
<1>14. \A k \in Levels : \A a \in Members(after[k]) : Kept(a, k) \/ (k = m /\ a = c)
  <2> TAKE k \in Levels
  <2>1. CASE k \in level .. m - 1 BY <1>10, <2>1
  <2>2. CASE k = m BY <1>8, <1>10, <1>11, <2>2
  <2>3. CASE k \notin level..m BY <1>8, <1>10, <2>3
  <2> QED BY <1>3, <1>8, <2>1, <2>2, <2>3
<1>15. ASSUME NEW b, NEW n, IsBlock(b, n), Apart(b, n, addr, x.level),
              \A j \in level .. m - 1 : Apart(b, n, Other(addr, j), j)
       PROVE  Apart(b, n, c, m) /\ Apart(c, m, b, n)
  <2>1. b \in Nat /\ n \in Nat \ {0} BY <1>15, BlockNumbers
  <2>2. Apart(b, n, addr, level)
    <3>1. SizeOf(n) \in Nat BY <2>1, Sizes
    <3> QED BY <1>3, <1>4, <1>5, <1>15, <2>1, <3>1 DEF Apart
  <2>3. level \in Nat \ {0} /\ m \in Nat /\ level <= m BY <1>3, <1>8
  <2>4. Apart(b, n, BlockAt(addr, m), m) BY <1>5, <1>15, <2>1, <2>2, <2>3, MergedApart
  <2> QED BY <1>11, <2>4 DEF Apart
<1>16. ASSUME NEW k \in Levels, NEW a, Kept(a, k)
       PROVE  IsBlock(a, k) /\ Apart(a, k, c, m) /\ Apart(c, m, a, k)
  <2>1. IsBlock(a, k) BY <1>0, <1>16 DEF FreeOK
  <2>2. Apart(a, k, addr, x.level) BY <1>0, <1>1, <1>16 DEF FreeNotOwned
  <2>3. ASSUME NEW j \in level .. m - 1 PROVE Apart(a, k, Other(addr, j), j)
    <3>1. Other(addr, j) \in Members(lists[j]) BY <1>7 DEF StopsAt
    <3> QED BY <1>0, <1>8, <1>16, <3>1 DEF FreeOK
  <2> QED BY <1>15, <2>1, <2>2, <2>3
<1>17. c \notin Members(lists[m])
  <2> SUFFICES ASSUME c \in Members(lists[m]) PROVE FALSE OBVIOUS
  <2>1. m \notin level .. m - 1 BY <1>8
  <2>2. Apart(c, m, c, m) BY <1>8, <1>16, <2>1
  <2> QED BY <1>3, <1>8, <1>13, <2>2 DEF Apart
<1>18. Other(c, m) = Other(addr, m)
  <2>1. BlockAt(c, m) = c BY <1>8, <1>13, AlignedBlock
  <2> QED BY <1>11, <2>1 DEF Other
<1>19. Other(c, m) \notin Members(lists[m]) BY <1>7, <1>18 DEF StopsAt
<1>20. FreeOK(after)
  <2>1. \A k \in Levels : Distinct(after[k]) BY <1>10, <1>11, <1>17
  <2>2. ASSUME NEW k \in Levels, NEW a \in Members(after[k])
        PROVE  IsBlock(a, k) /\ Other(a, k) \notin Members(after[k])
    <3>1. IsBlock(a, k) BY <1>12, <1>14, <1>16
    <3>2. Other(a, k) # a /\ Other(Other(a, k), k) = a
      BY <1>3, <3>1, OtherHalf DEF IsBlock
    <3>3. CASE k # m
      <4>1. Members(after[k]) \subseteq Members(lists[k]) BY <1>14, <3>3
      <4> QED BY <1>0, <3>1, <4>1 DEF FreeOK
    <3>4. CASE k = m /\ a = c
      BY <1>10, <1>11, <1>19, <3>1, <3>2, <3>4
    <3>5. CASE k = m /\ a # c
      <4>1. a \in Members(lists[m]) BY <1>10, <1>11, <3>5
      <4>2. Other(a, m) \notin Members(lists[m]) BY <1>0, <1>8, <4>1 DEF FreeOK
      <4>3. Other(a, m) # c BY <1>19, <3>2, <3>5, <4>1
      <4> QED BY <1>10, <1>11, <3>1, <3>5, <4>2, <4>3
    <3> QED BY <3>1, <3>3, <3>4, <3>5
  <2>3. ASSUME NEW k \in Levels, NEW l \in Levels,
               NEW a \in Members(after[k]), NEW b \in Members(after[l])
        PROVE  (k = l /\ a = b) \/ Apart(a, k, b, l)
    <3>1. CASE Kept(a, k) /\ Kept(b, l) BY <1>0, <3>1 DEF FreeOK
    <3>2. CASE Kept(a, k) /\ ~Kept(b, l) BY <1>14, <1>16, <3>2
    <3>3. CASE ~Kept(a, k) /\ Kept(b, l) BY <1>14, <1>16, <3>3
    <3>4. CASE ~Kept(a, k) /\ ~Kept(b, l) BY <1>14, <3>4
    <3> QED BY <3>1, <3>2, <3>3, <3>4
  <2> QED BY <1>10, <2>1, <2>2, <2>3 DEF FreeOK
<1>21. OwnedOK(owned \ {x}) BY <1>0 DEF OwnedOK
<1>22. FreeNotOwned(after, owned \ {x})
  <2> SUFFICES ASSUME NEW k \in Levels, NEW a \in Members(after[k]), NEW y \in owned \ {x}
               PROVE  Apart(a, k, y.base, y.level)
    BY DEF FreeNotOwned
  <2>1. CASE Kept(a, k) BY <1>0, <2>1 DEF FreeNotOwned
  <2>2. CASE k = m /\ a = c
    <3>1. IsBlock(y.base, y.level) /\ Apart(y.base, y.level, addr, x.level)
      BY <1>0, <1>1 DEF OwnedOK
    <3>2. ASSUME NEW j \in level .. m - 1 PROVE Apart(y.base, y.level, Other(addr, j), j)
      <4>1. Other(addr, j) \in Members(lists[j]) BY <1>7 DEF StopsAt
      <4>2. Apart(Other(addr, j), j, y.base, y.level) BY <1>0, <1>8, <4>1 DEF FreeNotOwned
      <4> QED BY <4>2 DEF Apart
    <3> QED BY <1>15, <2>2, <3>1, <3>2
  <2> QED BY <1>14, <2>1, <2>2
<1> QED BY <1>1, <1>9, <1>20, <1>21, <1>22 DEF BuddyOK

\* Blocks begin at different places.
LEMMA OwnedBases ==
  ASSUME NEW owned, OwnedOK(owned), NEW x \in owned, NEW y \in owned, x.base = y.base
  PROVE  x = y
<1> SUFFICES ASSUME x # y PROVE FALSE OBVIOUS
<1>1. Apart(x.base, x.level, y.base, y.level) BY DEF OwnedOK
<1>2. /\ x.base \in Nat /\ SizeOf(x.level) \in Nat \ {0}
      /\ y.base \in Nat /\ SizeOf(y.level) \in Nat \ {0}
  BY BlockNumbers DEF OwnedOK
<1> QED BY <1>1, <1>2 DEF Apart

-----------------------------------------------------------------------------
(* The invariant holds *)

LEMMA BuddyInvInit == Init => BuddyInv
<1> SUFFICES ASSUME Init PROVE FreeOK(buddy) /\ OwnedOK({}) /\ FreeNotOwned(buddy, {})
  BY DEF Init, BuddyInv, BuddyOK
<1>1. maxPowerSize \in Levels /\ \A l \in Levels : l \in Nat \ {0}
  BY MaxPowerSizeAssumption DEF Levels
<1>2. \A l \in Levels : buddy[l] = IF l = maxPowerSize THEN <<0>> ELSE <<>> BY DEF Init
<1>3. Members(<<>>) = {} /\ Distinct(<<>>)
  <2>1. 1..Len(<<>>) = {} OBVIOUS
  <2> QED BY <2>1 DEF Members, Distinct
<1>4. Members(<<0>>) = {0} /\ Distinct(<<0>>)
  <2>1. PICK q : q = <<0>> OBVIOUS
  <2>2. Len(q) = 1 /\ q[1] = 0 BY <2>1
  <2>3. 1 \in 1..Len(q) /\ \A i \in 1..Len(q) : i = 1 BY <2>2
  <2>4. Members(q) = {0} /\ Distinct(q) BY <2>2, <2>3 DEF Members, Distinct
  <2> QED BY <2>1, <2>4
<1>5. buddy \in [Levels -> Seq(Nat)]
  <2>1. <<>> \in Seq(Nat) /\ <<0>> \in Seq(Nat) OBVIOUS
  <2> QED BY <1>2, <2>1 DEF Init
<1>6. IsBlock(0, maxPowerSize) /\ Other(0, maxPowerSize) # 0
  <2>1. SizeOf(maxPowerSize) \in Nat /\ 0 \in Multiples(SizeOf(maxPowerSize))
    BY <1>1, Sizes, MultipleZero
  <2>2. 0 + SizeOf(maxPowerSize) <= SizeOf(maxPowerSize) BY <2>1
  <2> QED BY <1>1, <2>1, <2>2, OtherHalf DEF IsBlock
<1>7. \A l \in Levels : \A a \in Members(buddy[l]) : l = maxPowerSize /\ a = 0
  BY <1>2, <1>3, <1>4
<1>8. FreeOK(buddy) BY <1>1, <1>2, <1>3, <1>4, <1>5, <1>6, <1>7 DEF FreeOK
<1> QED BY <1>8 DEF OwnedOK, FreeNotOwned

LEMMA AllocKeeps ==
  ASSUME BuddyInv, NEW level \in Levels, BuddyAlloc(level)
  PROVE  /\ BuddyInv'
         /\ \/ UNCHANGED vars
            \/ \E x : /\ allocated' = allocated \cup {x}
                      /\ IsBlock(x.base, x.level) /\ x.size = SizeOf(x.level)
                      /\ x.level = level
                      /\ \A y \in allocated : Apart(y.base, y.level, x.base, x.level)
<1>1. CASE UNCHANGED vars
  BY <1>1 DEF BuddyInv, BuddyOK, FreeOK, OwnedOK, FreeNotOwned, vars
<1>2. ASSUME NEW l \in FirstLevel(level), NEW block,
             block = Head(buddy[l]),
             buddy' = [k \in Levels |->
                         IF k = l THEN Tail(buddy[k])
                         ELSE IF k \in level .. l - 1
                         THEN AddEntry(buddy[k], SplitOff(block, k))
                         ELSE buddy[k]],
             allocated' = allocated \cup {CutRecord(block, level)}
      PROVE  /\ BuddyInv'
             /\ \E x : /\ allocated' = allocated \cup {x}
                       /\ IsBlock(x.base, x.level) /\ x.size = SizeOf(x.level)
                       /\ x.level = level
                       /\ \A y \in allocated : Apart(y.base, y.level, x.base, x.level)
  <2>1. l \in Levels /\ level <= l
    BY MaxPowerSizeAssumption DEF FirstLevel, Levels
  <2>2. IsCut(buddy, buddy', block, level, l) BY <1>2, <2>1 DEF IsCut, FirstLevel
  <2>3. /\ BuddyOK(buddy', allocated \cup {CutRecord(block, level)})
        /\ IsBlock(block, level)
        /\ \A y \in allocated : Apart(y.base, y.level, block, level)
    BY <2>2, CutKeeps DEF BuddyInv
  <2>4. BuddyInv' BY <1>2, <2>3 DEF BuddyInv
  <2>5. PICK x : x = CutRecord(block, level) OBVIOUS
  <2>6. x.base = block /\ x.level = level /\ x.size = SizeOf(level) BY <2>5 DEF CutRecord
  <2> QED BY <1>2, <2>3, <2>4, <2>5, <2>6
<1>3. CASE ~UNCHANGED vars
  BY <1>2, <1>3 DEF BuddyAlloc, CutRecord
<1> QED BY <1>1, <1>3
LEMMA FreeKeeps ==
  ASSUME BuddyInv, NEW x \in allocated, BuddyFree(x.base, x.level)
  PROVE  BuddyInv' /\ allocated' \subseteq allocated
<1>1. x.level \in Levels /\ x.level <= x.level
  <2>1. IsBlock(x.base, x.level) BY DEF BuddyInv, BuddyOK, OwnedOK
  <2> QED BY <2>1, BlockNumbers DEF IsBlock
<1>2. BuddyOK(Freed(buddy, x.base, x.level), allocated \ {x})
  BY <1>1, FreedKeeps DEF BuddyInv
<1>3. allocated' = allocated \ {x}
  BY OwnedBases DEF BuddyFree, BuddyInv, BuddyOK
<1> QED BY <1>2, <1>3 DEF BuddyInv, BuddyFree

LEMMA BuddyInvNext == BuddyInv /\ [Next]_vars => BuddyInv'
<1>1. ASSUME BuddyInv, NEW level \in Levels, BuddyAlloc(level) PROVE BuddyInv'
  BY <1>1, AllocKeeps
<1>2. ASSUME BuddyInv, NEW x \in allocated, BuddyFree(x.base, x.level) PROVE BuddyInv'
  BY <1>2, FreeKeeps
<1>3. ASSUME BuddyInv, UNCHANGED vars PROVE BuddyInv'
  BY <1>3 DEF BuddyInv, BuddyOK, FreeOK, OwnedOK, FreeNotOwned, vars
<1> QED BY <1>1, <1>2, <1>3 DEF Next

\* After any calls the blocks, free and owned, are apart and no two halves are free.
THEOREM BuddyInvariance == Spec => []BuddyInv
BY BuddyInvInit, BuddyInvNext, PTL DEF Spec

-----------------------------------------------------------------------------
(* Theorems *)

\* Blocks that are apart have no unit in common.
LEMMA ApartExtents ==
  ASSUME NEW a, NEW l, IsBlock(a, l), NEW b, NEW m, IsBlock(b, m), Apart(a, l, b, m)
  PROVE  Extent(a, l) \cap Extent(b, m) = {} /\ ~(a = b /\ l = m)
BY BlockNumbers DEF Extent, Apart

LEMMA BuddyInvDisjoint == BuddyInv => BlocksDisjoint
<1> SUFFICES ASSUME BuddyInv PROVE BlocksDisjoint OBVIOUS
<1>1. FreeOK(buddy) /\ OwnedOK(allocated) /\ FreeNotOwned(buddy, allocated)
  BY DEF BuddyInv, BuddyOK
<1>2. \A s \in FreeBlocks :
        s.level \in Levels /\ s.addr \in Members(buddy[s.level])
        /\ s = [addr |-> s.addr, level |-> s.level]
  BY DEF FreeBlocks
<1>3. \A s \in UsedBlocks :
        \E x \in allocated : s = [addr |-> x.base, level |-> x.level]
  BY DEF UsedBlocks
<1>4. \A s \in FreeBlocks : IsBlock(s.addr, s.level) BY <1>1, <1>2 DEF FreeOK
<1>5. \A s \in UsedBlocks : IsBlock(s.addr, s.level) BY <1>1, <1>3 DEF OwnedOK
<1>6. ASSUME NEW s \in FreeBlocks, NEW t \in FreeBlocks, s # t
      PROVE  Extent(s.addr, s.level) \cap Extent(t.addr, t.level) = {}
  <2>1. ~(s.level = t.level /\ s.addr = t.addr) BY <1>2, <1>6
  <2>2. Apart(s.addr, s.level, t.addr, t.level) BY <1>1, <1>2, <2>1 DEF FreeOK
  <2> QED BY <1>4, <2>2, ApartExtents
<1>7. ASSUME NEW s \in FreeBlocks, NEW t \in UsedBlocks
      PROVE  /\ Extent(s.addr, s.level) \cap Extent(t.addr, t.level) = {}
             /\ s # t
  <2>1. PICK x \in allocated : t = [addr |-> x.base, level |-> x.level] BY <1>3
  <2>2. Apart(s.addr, s.level, t.addr, t.level) BY <1>1, <1>2, <2>1 DEF FreeNotOwned
  <2> QED BY <1>4, <1>5, <2>2, ApartExtents
<1>8. ASSUME NEW s \in UsedBlocks, NEW t \in UsedBlocks, s # t
      PROVE  Extent(s.addr, s.level) \cap Extent(t.addr, t.level) = {}
  <2>1. PICK x \in allocated : s = [addr |-> x.base, level |-> x.level] BY <1>3
  <2>2. PICK y \in allocated : t = [addr |-> y.base, level |-> y.level] BY <1>3
  <2>3. x # y BY <1>8, <2>1, <2>2
  <2>4. Apart(s.addr, s.level, t.addr, t.level) BY <1>1, <2>1, <2>2, <2>3 DEF OwnedOK
  <2> QED BY <1>5, <2>4, ApartExtents
<1>9. \A l \in Levels : Cardinality(Members(buddy[l])) = Len(buddy[l])
  BY <1>1, DistinctLength DEF FreeOK
<1>10. \A s, t \in FreeBlocks \cup UsedBlocks :
         s = t \/ Extent(s.addr, s.level) \cap Extent(t.addr, t.level) = {}
  <2> TAKE s, t \in FreeBlocks \cup UsedBlocks
  <2>1. CASE s \in FreeBlocks /\ t \in FreeBlocks BY <1>6, <2>1
  <2>2. CASE s \in FreeBlocks /\ t \in UsedBlocks BY <1>7, <2>2
  <2>3. CASE s \in UsedBlocks /\ t \in FreeBlocks BY <1>7, <2>3
  <2>4. CASE s \in UsedBlocks /\ t \in UsedBlocks BY <1>8, <2>4
  <2> QED BY <2>1, <2>2, <2>3, <2>4
<1>11. FreeBlocks \cap UsedBlocks = {} BY <1>7
<1> QED BY <1>9, <1>10, <1>11 DEF BlocksDisjoint

\* No unit is ever in two blocks, and no block is free twice, or free and owned.
THEOREM BuddyBlocksDisjoint == Spec => []BlocksDisjoint
BY BuddyInvariance, BuddyInvDisjoint, PTL

LEMMA BuddyInvMerged == BuddyInv => HalvesMerged
<1> SUFFICES ASSUME BuddyInv, NEW b \in FreeBlocks
             PROVE  [addr |-> Other(b.addr, b.level), level |-> b.level] \notin FreeBlocks
  BY DEF HalvesMerged
<1>1. FreeOK(buddy) BY DEF BuddyInv, BuddyOK
<1>2. \A s \in FreeBlocks : s.level \in Levels /\ s.addr \in Members(buddy[s.level])
  BY DEF FreeBlocks
<1>3. Other(b.addr, b.level) \notin Members(buddy[b.level]) BY <1>1, <1>2 DEF FreeOK
<1>4. PICK o : o = [addr |-> Other(b.addr, b.level), level |-> b.level] OBVIOUS
<1>5. o.addr = Other(b.addr, b.level) /\ o.level = b.level BY <1>4
<1> QED BY <1>2, <1>3, <1>4, <1>5

\* A block is never free together with its other half.
THEOREM BuddyHalvesMerged == Spec => []HalvesMerged
BY BuddyInvariance, BuddyInvMerged, PTL

\* What a client gets lies in the arena and in no block that a client has.
LEMMA NewBlock ==
  ASSUME BuddyInv, NEW x, allocated' = allocated \cup {x},
         IsBlock(x.base, x.level), x.size = SizeOf(x.level),
         \A y \in allocated : Apart(y.base, y.level, x.base, x.level)
  PROVE  H!Alloc
<1>1. \A y \in allocated : IsBlock(y.base, y.level) /\ y.size = SizeOf(y.level)
  BY DEF BuddyInv, BuddyOK, OwnedOK
<1>2. ASSUME NEW y \in allocated PROVE H!Extent(x) \cap H!Extent(y) = {} /\ x # y
  <2>1. /\ y.base \in Nat /\ SizeOf(y.level) \in Nat \ {0} /\ y.size = SizeOf(y.level)
        /\ x.base \in Nat /\ SizeOf(x.level) \in Nat \ {0}
    BY <1>1, BlockNumbers
  <2>2. Apart(y.base, y.level, x.base, x.level) OBVIOUS
  <2> QED BY <2>1, <2>2 DEF H!Extent, Apart
<1>3. H!Extent(x) \subseteq Arena
  <2>1. x.base \in Nat /\ SizeOf(x.level) \in Nat \ {0} BY BlockNumbers
  <2>2. SizeOf(maxPowerSize) \in Nat BY MaxPowerSizeAssumption, Sizes
  <2>3. x.base + SizeOf(x.level) <= SizeOf(maxPowerSize) BY DEF IsBlock
  <2> QED BY <2>1, <2>2, <2>3 DEF H!Extent, Arena
<1>4. x \in allocated' \ allocated BY <1>2
<1>5. \A y \in allocated : ~H!Overlap(x, y) BY <1>2 DEF H!Overlap
<1> QED BY <1>3, <1>4, <1>5 DEF H!Alloc

LEMMA AllocRefines ==
  ASSUME BuddyInv, NEW level \in Levels, BuddyAlloc(level)
  PROVE  H!Next
<1>1. CASE UNCHANGED vars BY <1>1 DEF vars, H!Next, H!Free
<1>2. CASE \E x : /\ allocated' = allocated \cup {x}
                  /\ IsBlock(x.base, x.level) /\ x.size = SizeOf(x.level)
                  /\ \A y \in allocated : Apart(y.base, y.level, x.base, x.level)
  BY <1>2, NewBlock DEF H!Next
<1> QED BY <1>1, <1>2, AllocKeeps

\* Every call of the buddy allocator is one of an allocator that hands out segments of
\* its memory that do not overlap.
THEOREM BuddyImplementsHeap == Spec => ImplementsHeap
<1>1. Init => H!Init BY DEF Init, H!Init
<1>2. BuddyInv /\ [Next]_vars => [H!Next]_allocated
  <2>1. ASSUME BuddyInv, NEW level \in Levels, BuddyAlloc(level) PROVE H!Next
    BY <2>1, AllocRefines
  <2>2. ASSUME BuddyInv, NEW x \in allocated, BuddyFree(x.base, x.level) PROVE H!Next
    BY <2>2, FreeKeeps DEF H!Next, H!Free
  <2>3. UNCHANGED vars => UNCHANGED allocated BY DEF vars
  <2> QED BY <2>1, <2>2, <2>3 DEF Next
<1> QED BY <1>1, <1>2, BuddyInvariance, PTL DEF Spec, H!Spec, ImplementsHeap

\* What the clients own lies in the arena and does not overlap.
LEMMA OwnedDisjoint == BuddyInv => H!SegmentsDisjoint
<1> SUFFICES ASSUME BuddyInv PROVE H!SegmentsDisjoint OBVIOUS
<1>1. OwnedOK(allocated) BY DEF BuddyInv, BuddyOK
<1>2. \A x \in allocated : /\ IsBlock(x.base, x.level) /\ x.size = SizeOf(x.level)
                          /\ x.base \in Nat /\ x.size \in Nat \ {0}
  BY <1>1, BlockNumbers DEF OwnedOK
<1>3. SizeOf(maxPowerSize) \in Nat BY MaxPowerSizeAssumption, Sizes
<1>4. ASSUME NEW x \in allocated PROVE H!Extent(x) \subseteq Arena
  <2>1. x.base + x.size <= SizeOf(maxPowerSize) BY <1>2 DEF IsBlock
  <2> QED BY <1>2, <1>3, <2>1 DEF H!Extent, Arena
<1>5. ASSUME NEW x \in allocated, NEW y \in allocated, x # y PROVE ~H!Overlap(x, y)
  <2>1. Apart(x.base, x.level, y.base, y.level) BY <1>1, <1>5 DEF OwnedOK
  <2>2. x.base + x.size <= y.base \/ y.base + y.size <= x.base BY <1>2, <2>1 DEF Apart
  <2> QED BY <1>2, <2>2 DEF H!Overlap, H!Extent
<1> QED BY <1>4, <1>5 DEF H!SegmentsDisjoint

\* No two clients have the same unit of the arena (BuddyAllocator.cpp:17-67).
THEOREM BuddySegmentsDisjoint == Spec => []H!SegmentsDisjoint
BY BuddyInvariance, OwnedDisjoint, PTL
=============================================================================
