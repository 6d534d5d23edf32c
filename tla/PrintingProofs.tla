--------------------------- MODULE PrintingProofs ---------------------------
(***************************************************************************)
(* Theorems about Printing, for every number of clients, every workload    *)
(* and every length of the strings.  What a client does to the console is  *)
(* a step of Console, so that the theorems of ConsoleProofs carry over.    *)
(* Two more invariants hold by way of PrintInv, and with it the spin lock  *)
(* implements PrintLock.                                                   *)
(***************************************************************************)
EXTENDS Printing, ConsoleProofs

-----------------------------------------------------------------------------
(* The console under the clients of Printing *)

LEMMA PrintStepIsConsoleStep == ASSUME [PrintNext]_allVars PROVE [Next]_vars
<1>1. CASE UNCHANGED allVars BY <1>1 DEF allVars
<1>2. CASE PrintNext
  <2>1. ASSUME NEW p \in Clients, Client(p) PROVE UNCHANGED vars \/ Putc(p) \/ Getc(p) \/ GetcResume(p)
    BY <2>1
    DEF Client, Swap, LockLoad, LockStore, UnlockLoad, UnlockStore, LoadReserved,
        StoreConditional, PrintChar, GetStringChar, CallGetc, Other
  <2> QED BY <1>2, <2>1 DEF PrintNext, Next, Device, Other, Tick
<1> QED BY <1>1, <1>2

\* Actions of Printing are actions of Console with conditions and variables of their own.
LEMMA PrintingImplementsConsole == PrintSpec => Spec
<1>1. PrintInit => Init BY DEF PrintInit
<1>2. [PrintNext]_allVars => [Next]_vars BY PrintStepIsConsoleStep
<1> QED BY <1>1, <1>2, PTL DEF PrintSpec, Spec

\* What printString prints is sent in order and completely before main returns, and the
\* input thread reads one character ahead at most.
THEOREM PrintingConsoleCorrect ==
  PrintSpec => [](ConsoleTypeOK /\ SentInOrder /\ NothingUnsentAtTheEnd /\ ReadAheadByOne)
BY PrintingImplementsConsole, ConsoleTypeCorrect, SentInOrderCorrect, EndCorrect,
   ReadAheadCorrect, PTL

\* What the readers get under the clients of Printing, getString included.
THEOREM PrintingReadersCorrect ==
  ASSUME Cardinality(Clients) < capacity
  PROVE  PrintSpec => [](GotInOrder /\ NoStrandedReader)
BY PrintingImplementsConsole, GotInOrderCorrect, NoStrandedReaderCorrect, PTL

-----------------------------------------------------------------------------
(* The invariant *)

CallNames == {"printString", "getString", "getc"}

PrintTypeOK ==
  /\ todo \in [Clients -> Seq(CallNames)]
  /\ place \in [Clients -> {"user", "acquire", "body", "release"}]
  /\ count \in [Clients -> Nat]
  /\ lockPrint \in {0, 1}
  /\ author \in Seq([by : Clients, nth : 1..StringLen])

\* A client whose conditional store is going to succeed in LOCK has seen the lock free
\* and nobody has taken it since.
ReservedFree == \A p \in Clients : reserved = p /\ place[p] = "acquire" => lockPrint = 0

LockInv == ReservedFree /\ RegionExclusive

Prints(p) == InRegion(p) /\ Next1(p) = "printString"

LastChar == author[Len(author)]

\* The last character is one of the string that is being printed, if it is not the last
\* one of its string, and the client that prints has printed count characters.
AuthorInv ==
  /\ \A p \in Clients : place[p] # "user" => Next1(p) \in {"printString", "getString"}
  /\ \A p \in Clients : Prints(p) => count[p] \in 0..StringLen
  /\ \A p \in Clients :
       place[p] = "release" /\ Next1(p) = "printString" => count[p] = StringLen
  /\ \A p \in Clients :
       Prints(p) /\ count[p] > 0 => author # <<>> /\ LastChar = [by |-> p, nth |-> count[p]]
  /\ author # <<>> /\ LastChar.nth < StringLen =>
       \E p \in Clients : Prints(p) /\ count[p] = LastChar.nth /\ LastChar.by = p

PrintInv == PrintTypeOK /\ LockInv /\ AuthorInv /\ StringsWhole

-----------------------------------------------------------------------------
(* The steps of copy_and_swap *)

LEMMA LoadStep ==
  ASSUME PrintInv, NEW p \in Clients, LockLoad(p) \/ UnlockLoad(p)
  PROVE  PrintInv'
<1>1. place \in [Clients -> {"user", "acquire", "body", "release"}]
  BY DEF PrintInv, PrintTypeOK
<1>2. UNCHANGED <<todo, count, lockPrint, author>> /\ reserved' = p
  BY DEF LockLoad, UnlockLoad, LoadReserved
<1>3. PrintTypeOK'
  BY <1>1, <1>2 DEF PrintInv, PrintTypeOK, LockLoad, UnlockLoad, LoadReserved
<1>4. \A q \in Clients : q # p => place'[q] = place[q]
  BY <1>1 DEF LockLoad, UnlockLoad, LoadReserved
<1>5. \/ place[p] = "user" /\ place'[p] = "user"
      \/ place[p] = "user" /\ place'[p] = "acquire" /\ lockPrint = 0
      \/ place[p] = "body" /\ place'[p] \in {"body", "release"}
  BY <1>1 DEF LockLoad, UnlockLoad, Locks, BodyDone, LoadReserved
<1>6. \A q \in Clients : InRegion(q)' <=> InRegion(q)
  BY <1>4, <1>5 DEF InRegion
<1>7. LockInv'
  BY <1>2, <1>4, <1>5, <1>6 DEF PrintInv, LockInv, ReservedFree, RegionExclusive
<1>8. AuthorInv'
  <2>1. place[p] = "user" => Next1(p) \in {"printString", "getString"} \/ place'[p] = "user"
    BY <1>5 DEF LockLoad, UnlockLoad, Locks, BodyDone
  <2>2. place'[p] = "release" /\ Next1(p) = "printString" => count[p] = StringLen
    BY <1>1, <1>5 DEF LockLoad, Locks, UnlockLoad, BodyDone, LoadReserved
  <2>3. \A q \in Clients : Next1(q)' = Next1(q) /\ (Prints(q)' <=> Prints(q))
    BY <1>2, <1>6 DEF Next1, Prints
  <2> QED BY <1>2, <1>4, <1>5, <2>1, <2>2, <2>3 DEF PrintInv, AuthorInv, LastChar
<1>9. StringsWhole' BY <1>2 DEF PrintInv, StringsWhole
<1> QED BY <1>3, <1>7, <1>8, <1>9 DEF PrintInv

\* A conditional store that fails.
LEMMA StoreFailsStep ==
  ASSUME PrintInv, NEW p \in Clients, reserved' = NoOne,
         UNCHANGED <<todo, count, lockPrint, author>>,
         \/ place[p] = "acquire" /\ place' = [place EXCEPT ![p] = "user"]
         \/ place[p] = "release" /\ place' = [place EXCEPT ![p] = "body"]
  PROVE  PrintInv'
<1>1. place \in [Clients -> {"user", "acquire", "body", "release"}]
  BY DEF PrintInv, PrintTypeOK
<1>2. PrintTypeOK' BY <1>1 DEF PrintInv, PrintTypeOK
<1>3. \A q \in Clients : q # p => place'[q] = place[q] BY <1>1
<1>4. \/ place[p] = "acquire" /\ place'[p] = "user"
      \/ place[p] = "release" /\ place'[p] = "body"
  BY <1>1
<1>5. \A q \in Clients : InRegion(q)' <=> InRegion(q)
  BY <1>3, <1>4 DEF InRegion
<1>6. LockInv'
  BY <1>5, PrintingAssumption DEF PrintInv, LockInv, ReservedFree, RegionExclusive
<1>7. AuthorInv'
  <2>1. \A q \in Clients : Next1(q)' = Next1(q) /\ (Prints(q)' <=> Prints(q))
    BY <1>5 DEF Next1, Prints
  <2> QED BY <1>3, <1>4, <2>1 DEF PrintInv, AuthorInv, LastChar
<1>8. StringsWhole' BY DEF PrintInv, StringsWhole
<1> QED BY <1>2, <1>6, <1>7, <1>8 DEF PrintInv

LEMMA LockStoreStep ==
  ASSUME PrintInv, NEW p \in Clients, LockStore(p)
  PROVE  PrintInv'
<1>1. /\ place \in [Clients -> {"user", "acquire", "body", "release"}]
      /\ count \in [Clients -> Nat] /\ place[p] = "acquire"
  BY DEF PrintInv, PrintTypeOK, LockStore
<1>3. CASE /\ Succeeds(p) /\ lockPrint' = 1 /\ todo' = todo
           /\ place' = [place EXCEPT ![p] = "body"]
           /\ count' = [count EXCEPT ![p] = 0]
  <2>1. reserved' = NoOne /\ author' = author /\ lockPrint = 0
    BY <1>1, <1>3
    DEF LockStore, StoreConditional, Succeeds, PrintInv, LockInv, ReservedFree
  <2>2. PrintTypeOK' BY <1>1, <1>3, <2>1 DEF PrintInv, PrintTypeOK
  <2>3. \A q \in Clients : ~InRegion(q)
    BY <2>1 DEF PrintInv, LockInv, RegionExclusive
  <2>4. /\ place'[p] = "body" /\ count'[p] = 0
        /\ \A q \in Clients : q # p => place'[q] = place[q] /\ count'[q] = count[q]
    BY <1>1, <1>3
  <2>5. \A q \in Clients : InRegion(q)' <=> q = p
    BY <2>3, <2>4 DEF InRegion
  <2>6. LockInv'
    BY <1>3, <2>1, <2>5, PrintingAssumption
    DEF LockInv, ReservedFree, RegionExclusive
  <2>7. AuthorInv'
    <3>1. \A q \in Clients : Next1(q)' = Next1(q) BY <1>3 DEF Next1
    <3>2. \A q \in Clients : ~Prints(q) BY <2>3 DEF Prints
    <3>3. \A q \in Clients : Prints(q)' => q = p BY <2>5 DEF Prints
    <3>4. ~(author # <<>> /\ LastChar.nth < StringLen)
      BY <3>2 DEF PrintInv, AuthorInv
    <3>5. 0 \in 0..StringLen BY PrintingAssumption
    <3> QED BY <1>1, <2>1, <2>4, <3>1, <3>3, <3>4, <3>5
            DEF PrintInv, AuthorInv, LastChar
  <2>8. StringsWhole' BY <2>1 DEF PrintInv, StringsWhole
  <2> QED BY <2>2, <2>6, <2>7, <2>8 DEF PrintInv
<1>4. CASE ~Succeeds(p) /\ place' = [place EXCEPT ![p] = "user"]
           /\ UNCHANGED <<lockPrint, count, todo>>
  BY <1>1, <1>4, StoreFailsStep DEF LockStore, StoreConditional
<1> QED BY <1>3, <1>4 DEF LockStore, StoreConditional

LEMMA UnlockStoreStep ==
  ASSUME PrintInv, NEW p \in Clients, UnlockStore(p)
  PROVE  PrintInv'
<1>1. /\ place \in [Clients -> {"user", "acquire", "body", "release"}]
      /\ count \in [Clients -> Nat] /\ place[p] = "release"
      /\ todo \in [Clients -> Seq(CallNames)]
  BY DEF PrintInv, PrintTypeOK, UnlockStore
<1>2. CASE /\ Succeeds(p) /\ lockPrint' = 0
           /\ place' = [place EXCEPT ![p] = "user"]
           /\ count' = [count EXCEPT ![p] = 0]
           /\ todo' = [todo EXCEPT ![p] = Tail(@)]
  <2>1. reserved' = NoOne /\ author' = author
    BY DEF UnlockStore, StoreConditional
  <2>2. Next1(p) \in {"printString", "getString"} /\ todo[p] # <<>>
    BY <1>1 DEF PrintInv, AuthorInv, Next1
  <2>3. Tail(todo[p]) \in Seq(CallNames) BY <1>1, <2>2
  <2>4. PrintTypeOK' BY <1>1, <1>2, <2>1, <2>3 DEF PrintInv, PrintTypeOK
  <2>5. \A q \in Clients : InRegion(q) <=> q = p
    BY <1>1 DEF PrintInv, LockInv, RegionExclusive, InRegion
  <2>6. /\ place'[p] = "user"
        /\ \A q \in Clients : q # p => /\ place'[q] = place[q]
                                       /\ count'[q] = count[q]
                                       /\ todo'[q] = todo[q]
    BY <1>1, <1>2
  <2>7. \A q \in Clients : ~InRegion(q)'
    BY <2>5, <2>6 DEF InRegion
  <2>8. LockInv'
    BY <1>2, <2>1, <2>7, PrintingAssumption
    DEF LockInv, ReservedFree, RegionExclusive
  <2>9. AuthorInv'
    <3>1. \A q \in Clients : ~Prints(q)' BY <2>7 DEF Prints
    <3>2. ~(author # <<>> /\ LastChar.nth < StringLen)
      <4>1. CASE Next1(p) = "printString"
        <5>1. Prints(p) /\ count[p] = StringLen
          BY <1>1, <2>5, <4>1 DEF Prints, PrintInv, AuthorInv
        <5>2. count[p] > 0 BY <5>1, PrintingAssumption
        <5>3. LastChar = [by |-> p, nth |-> StringLen]
          BY <5>1, <5>2 DEF PrintInv, AuthorInv
        <5> QED BY <5>3, PrintingAssumption
      <4>2. CASE Next1(p) # "printString"
        <5>1. \A q \in Clients : ~Prints(q) BY <2>5, <4>2 DEF Prints
        <5> QED BY <5>1 DEF PrintInv, AuthorInv
      <4> QED BY <4>1, <4>2
    <3>3. \A q \in Clients : q # p => Next1(q)' = Next1(q) BY <2>6 DEF Next1
    <3>4. \A q \in Clients : place'[q] # "release"
      BY <2>7 DEF InRegion
    <3> QED BY <2>1, <2>6, <3>1, <3>2, <3>3, <3>4 DEF PrintInv, AuthorInv, LastChar
  <2>10. StringsWhole' BY <2>1 DEF PrintInv, StringsWhole
  <2> QED BY <2>4, <2>8, <2>9, <2>10 DEF PrintInv
<1>3. CASE ~Succeeds(p) /\ place' = [place EXCEPT ![p] = "body"]
           /\ UNCHANGED <<lockPrint, count, todo>>
  BY <1>1, <1>3, StoreFailsStep DEF UnlockStore, StoreConditional
<1> QED BY <1>2, <1>3 DEF UnlockStore, StoreConditional
-----------------------------------------------------------------------------
(* The calls *)

\* A step that leaves the lock, the places and the strings alone.
LEMMA OtherStep ==
  ASSUME PrintInv, reserved' = NoOne \/ UNCHANGED reserved,
         UNCHANGED <<todo, place, count, lockPrint, author>>
  PROVE  PrintInv'
<1>1. PrintTypeOK' BY DEF PrintInv, PrintTypeOK
<1>2. LockInv'
  BY PrintingAssumption DEF PrintInv, LockInv, ReservedFree, RegionExclusive, InRegion
<1>3. AuthorInv' BY DEF PrintInv, AuthorInv, Prints, InRegion, Next1, LastChar
<1>4. StringsWhole' BY DEF PrintInv, StringsWhole
<1> QED BY <1>1, <1>2, <1>3, <1>4 DEF PrintInv

LEMMA PrintCharStep ==
  ASSUME PrintInv, NEW p \in Clients, PrintChar(p)
  PROVE  PrintInv'
<1> DEFINE n == Len(author)
           new == [by |-> p, nth |-> count[p] + 1]
<1>1. /\ place \in [Clients -> {"user", "acquire", "body", "release"}]
      /\ count \in [Clients -> Nat]
      /\ author \in Seq([by : Clients, nth : 1..StringLen])
      /\ StringLen \in Nat \ {0}
  BY PrintingAssumption DEF PrintInv, PrintTypeOK
<1>2. /\ place[p] = "body" /\ Next1(p) = "printString" /\ count[p] < StringLen
      /\ UNCHANGED <<todo, place, lockPrint>> /\ reserved' = NoOne
      /\ count' = [count EXCEPT ![p] = @ + 1]
      /\ author' = Append(author, new)
  BY DEF PrintChar, Trapped
<1>3. new \in [by : Clients, nth : 1..StringLen] BY <1>1, <1>2
<1>4. /\ author' \in Seq([by : Clients, nth : 1..StringLen])
      /\ Len(author') = n + 1 /\ author'[n + 1] = new /\ n \in Nat
      /\ \A i \in 1..n : author'[i] = author[i]
      /\ author' # <<>>
  <2> DEFINE T == [by : Clients, nth : 1..StringLen]
  <2>1. author \in Seq(T) /\ new \in T BY <1>1, <1>3
  <2> HIDE DEF new, T
  <2>2. /\ author' \in Seq(T) /\ Len(author') = Len(author) + 1
        /\ author'[Len(author) + 1] = new /\ author' # <<>>
        /\ \A i \in 1..Len(author) : author'[i] = author[i]
    BY <1>2, <2>1
  <2>3. Len(author) \in Nat BY <2>1
  <2> QED BY <2>2, <2>3 DEF T
<1>5. PrintTypeOK'
  <2>1. count' \in [Clients -> Nat]
    <3>1. count[p] + 1 \in Nat BY <1>1
    <3> QED BY <1>1, <1>2, <3>1
  <2>2. PrintTypeOK BY DEF PrintInv
  <2> QED BY <1>2, <1>4, <2>1, <2>2 DEF PrintTypeOK
<1>6. Prints(p) /\ \A q \in Clients : InRegion(q) <=> q = p
  BY <1>2 DEF PrintInv, LockInv, RegionExclusive, InRegion, Prints
<1>7. LockInv'
  BY <1>2, PrintingAssumption DEF PrintInv, LockInv, ReservedFree, RegionExclusive, InRegion
<1>8. count'[p] = count[p] + 1 /\ \A q \in Clients : q # p => count'[q] = count[q]
  BY <1>1, <1>2
<1>9. AuthorInv'
  <2>1. \A q \in Clients : /\ Next1(q)' = Next1(q) /\ place'[q] = place[q]
                           /\ InRegion(q)' <=> InRegion(q)
                           /\ Prints(q)' <=> q = p
    BY <1>2, <1>6 DEF Next1, Prints, InRegion
  <2>2. LastChar' = new BY <1>4 DEF LastChar
  <2>3. count[p] + 1 \in 0..StringLen BY <1>1, <1>2
  <2>4. \A q \in Clients : Prints(q)' => count'[q] \in 0..StringLen
    BY <1>8, <2>1, <2>3
  <2>5. \A q \in Clients : place'[q] = "release" => q # p
    BY <1>2
  <2>6. \A q \in Clients : place'[q] # "release"
    BY <1>2, <1>6, <2>5 DEF InRegion
  <2>7. \A q \in Clients : Prints(q)' => LastChar' = [by |-> q, nth |-> count'[q]]
    BY <1>8, <2>1, <2>2
  <2>8. Prints(p)' /\ count'[p] = (LastChar').nth /\ (LastChar').by = p
    BY <1>8, <2>1, <2>2
  <2>9. \A q \in Clients : place'[q] # "user" => Next1(q)' \in {"printString", "getString"}
    BY <2>1 DEF PrintInv, AuthorInv
  <2> QED BY <1>4, <2>4, <2>6, <2>7, <2>8, <2>9 DEF AuthorInv
<1>10. StringsWhole'
  <2> SUFFICES ASSUME NEW i \in 1..n
               PROVE  author'[i + 1] = IF author'[i].nth < StringLen
                                       THEN [author'[i] EXCEPT !.nth = @ + 1]
                                       ELSE [by |-> author'[i + 1].by, nth |-> 1]
    BY <1>4 DEF StringsWhole
  <2>1. CASE i < n
    <3>1. i \in 1 .. n - 1 /\ i + 1 \in 1..n BY <1>4, <2>1
    <3> QED BY <1>4, <3>1 DEF PrintInv, StringsWhole
  <2>2. CASE i = n
    <3>1. author # <<>> /\ author'[i] = LastChar /\ author'[i + 1] = new
      BY <1>1, <1>4, <2>2 DEF LastChar
    <3>2. LastChar \in [by : Clients, nth : 1..StringLen]
      <4> DEFINE T == [by : Clients, nth : 1..StringLen]
      <4>1. author \in Seq(T) /\ Len(author) \in 1..Len(author) BY <1>1, <1>4, <2>2
      <4> HIDE DEF T
      <4>2. author[Len(author)] \in T BY <4>1
      <4> QED BY <4>2 DEF LastChar, T
    <3>3. CASE LastChar.nth < StringLen
      <4>1. PICK q \in Clients : Prints(q) /\ count[q] = LastChar.nth /\ LastChar.by = q
        BY <3>1, <3>3 DEF PrintInv, AuthorInv
      <4>2. q = p BY <1>6, <4>1 DEF Prints
      <4>3. new = [by |-> LastChar.by, nth |-> LastChar.nth + 1] BY <4>1, <4>2
      <4>4. [LastChar EXCEPT !.nth = @ + 1] = [by |-> LastChar.by, nth |-> LastChar.nth + 1]
        BY <3>2
      <4> QED BY <3>1, <3>3, <4>3, <4>4
    <3>4. CASE ~(LastChar.nth < StringLen)
      <4>1. count[p] = 0
        <5> SUFFICES ASSUME count[p] > 0 PROVE FALSE BY <1>1
        <5>1. LastChar = [by |-> p, nth |-> count[p]]
          BY <1>6 DEF PrintInv, AuthorInv
        <5> QED BY <1>2, <3>4, <5>1
      <4>2. new = [by |-> new.by, nth |-> 1] BY <4>1
      <4> QED BY <3>1, <3>4, <4>2
    <3> QED BY <3>3, <3>4
  <2> QED BY <1>4, <2>1, <2>2
<1> QED BY <1>5, <1>7, <1>9, <1>10 DEF PrintInv

LEMMA GetStringCharStep ==
  ASSUME PrintInv, NEW p \in Clients, GetStringChar(p)
  PROVE  PrintInv'
<1>1. /\ place \in [Clients -> {"user", "acquire", "body", "release"}]
      /\ count \in [Clients -> Nat]
  BY DEF PrintInv, PrintTypeOK
<1>2. /\ place[p] = "body" /\ Next1(p) = "getString"
      /\ UNCHANGED <<todo, place, lockPrint, author>> /\ reserved' = NoOne
      /\ count' = [count EXCEPT ![p] = @ + 1]
  BY DEF GetStringChar, Trapped
<1>3. PrintTypeOK' BY <1>1, <1>2 DEF PrintInv, PrintTypeOK
<1>4. LockInv'
  BY <1>2, PrintingAssumption DEF PrintInv, LockInv, ReservedFree, RegionExclusive, InRegion
<1>5. AuthorInv'
  <2>1. \A q \in Clients : Next1(q)' = Next1(q) /\ (Prints(q)' <=> Prints(q))
    BY <1>2 DEF Next1, Prints, InRegion
  <2>2. \A q \in Clients : q # p => count'[q] = count[q] BY <1>1, <1>2
  <2>3. ~Prints(p) BY <1>2 DEF Prints
  <2> QED BY <1>2, <2>1, <2>2, <2>3 DEF PrintInv, AuthorInv, LastChar
<1>6. StringsWhole' BY <1>2 DEF PrintInv, StringsWhole
<1> QED BY <1>3, <1>4, <1>5, <1>6 DEF PrintInv

LEMMA CallGetcStep ==
  ASSUME PrintInv, NEW p \in Clients, CallGetc(p)
  PROVE  PrintInv'
<1>1. /\ place \in [Clients -> {"user", "acquire", "body", "release"}]
      /\ todo \in [Clients -> Seq(CallNames)]
  BY DEF PrintInv, PrintTypeOK
<1>2. /\ place[p] = "user" /\ Next1(p) = "getc"
      /\ UNCHANGED <<place, count, lockPrint, author>> /\ reserved' = NoOne
      /\ todo' = [todo EXCEPT ![p] = Tail(@)]
  BY DEF CallGetc, Trapped
<1>3. Tail(todo[p]) \in Seq(CallNames) BY <1>1, <1>2 DEF Next1
<1>4. PrintTypeOK' BY <1>1, <1>2, <1>3 DEF PrintInv, PrintTypeOK
<1>5. LockInv'
  BY <1>2, PrintingAssumption DEF PrintInv, LockInv, ReservedFree, RegionExclusive, InRegion
<1>6. AuthorInv'
  <2>1. \A q \in Clients : q # p => Next1(q)' = Next1(q)
    BY <1>1, <1>2 DEF Next1
  <2>2. \A q \in Clients : InRegion(q)' <=> InRegion(q) BY <1>2 DEF InRegion
  <2>3. ~InRegion(p) BY <1>2 DEF InRegion
  <2>4. \A q \in Clients : Prints(q)' <=> Prints(q) BY <2>1, <2>2, <2>3 DEF Prints
  <2> QED BY <1>2, <2>1, <2>4 DEF PrintInv, AuthorInv, LastChar
<1>7. StringsWhole' BY <1>2 DEF PrintInv, StringsWhole
<1> QED BY <1>4, <1>5, <1>6, <1>7 DEF PrintInv

-----------------------------------------------------------------------------
(* The theorems *)

LEMMA InitPrintInv == ASSUME PrintInit PROVE PrintInv
<1>1. PrintTypeOK
  <2>1. todo \in [Clients -> Seq(CallNames)]
    BY PrintingAssumption DEF PrintInit, CallNames
  <2> QED BY <2>1 DEF PrintInit, PrintTypeOK
<1>2. \A p \in Clients : ~InRegion(p) /\ ~Prints(p) /\ place[p] = "user"
  BY DEF PrintInit, InRegion, Prints
<1>3. LockInv
  BY <1>2, PrintingAssumption DEF PrintInit, LockInv, ReservedFree, RegionExclusive
<1>4. AuthorInv BY <1>2 DEF PrintInit, AuthorInv
<1>5. StringsWhole BY DEF PrintInit, StringsWhole
<1> QED BY <1>1, <1>3, <1>4, <1>5 DEF PrintInv

LEMMA PrintStep == ASSUME PrintInv, [PrintNext]_allVars PROVE PrintInv'
<1>1. CASE UNCHANGED allVars
  BY <1>1, OtherStep DEF allVars, printVars
<1>2. CASE Device
  BY <1>2, OtherStep DEF Device, printVars
<1>3. CASE \/ Other(InputThread) \/ Other(OutputThread)
           \/ Other(todo[User] = <<>> /\ UserFinish) \/ Other(MainReturn)
  BY <1>3, OtherStep DEF Other, Trapped
<1>4. CASE Tick BY <1>4, OtherStep DEF Tick, Trapped
<1>5. CASE \E p \in Clients : Client(p)
  <2>1. PICK p \in Clients : Client(p) BY <1>5
  <2>2. CASE Swap(p)
    BY <2>2, LoadStep, LockStoreStep, UnlockStoreStep DEF Swap
  <2>3. CASE PrintChar(p) BY <2>3, PrintCharStep
  <2>4. CASE GetStringChar(p) BY <2>4, GetStringCharStep
  <2>5. CASE CallGetc(p) BY <2>5, CallGetcStep
  <2>6. CASE Other(GetcResume(p)) BY <2>6, OtherStep DEF Other, Trapped
  <2> QED BY <2>1, <2>2, <2>3, <2>4, <2>5, <2>6 DEF Client
<1> QED BY <1>1, <1>2, <1>3, <1>4, <1>5 DEF PrintNext

\* Every reachable state satisfies the invariant of the lock and the strings.
THEOREM PrintInvariantCorrect == PrintSpec => []PrintInv
<1>1. PrintInit => PrintInv BY InitPrintInv
<1>2. PrintInv /\ [PrintNext]_allVars => PrintInv' BY PrintStep
<1> QED BY <1>1, <1>2, PTL DEF PrintSpec

\* LOCK and UNLOCK exclude each other although copy_and_swap can be interrupted between
\* its two instructions (lock.S:8-17).
THEOREM RegionCorrect == PrintSpec => []RegionExclusive
<1>1. PrintInv => RegionExclusive BY DEF PrintInv, LockInv
<1> QED BY <1>1, PrintInvariantCorrect, PTL

\* No two strings are mixed (printing.cpp:14-20).
THEOREM StringsWholeCorrect == PrintSpec => []StringsWhole
<1>1. PrintInv => StringsWhole BY DEF PrintInv
<1> QED BY <1>1, PrintInvariantCorrect, PTL

-----------------------------------------------------------------------------
(* The lock as its clients see it *)

InsideVars == <<place, author>>

\* Nobody enters or leaves and nothing is printed by the step of another thread.
LEMMA OutsideStep ==
  ASSUME UNCHANGED InsideVars PROVE UNCHANGED L!vars
BY DEF InsideVars, L!vars, Inside, InRegion

\* A load, and a store that fails, let nobody in or out.
LEMMA SwapFailsStep ==
  ASSUME PrintInv, NEW p \in Clients, NEW there \in {"user", "acquire", "body", "release"},
         place' = [place EXCEPT ![p] = there], UNCHANGED author,
         InRegion(p) <=> there \in {"body", "release"}
  PROVE  UNCHANGED L!vars
<1>1. place \in [Clients -> {"user", "acquire", "body", "release"}]
  BY DEF PrintInv, PrintTypeOK
<1>2. \A q \in Clients : InRegion(q)' <=> InRegion(q) BY <1>1 DEF InRegion
<1> QED BY <1>2 DEF L!vars, Inside

\* LOCK lets its client in only when nobody is inside.
LEMMA LockEnters ==
  ASSUME PrintInv, NEW p \in Clients, LockStore(p)
  PROVE  L!Enter(p) \/ UNCHANGED L!vars
<1>1. /\ place \in [Clients -> {"user", "acquire", "body", "release"}]
      /\ place[p] = "acquire" /\ UNCHANGED author
  BY DEF PrintInv, PrintTypeOK, LockStore, StoreConditional
<1>2. CASE Succeeds(p) /\ place' = [place EXCEPT ![p] = "body"]
  <2>1. \A q \in Clients : ~InRegion(q)
    BY <1>1, <1>2 DEF PrintInv, LockInv, ReservedFree, RegionExclusive, Succeeds
  <2>2. \A q \in Clients : InRegion(q)' <=> q = p
    BY <1>1, <1>2, <2>1 DEF InRegion
  <2>3. Inside = {} BY <2>1 DEF Inside
  <2>4. Inside' = {p} BY <2>2 DEF Inside
  <2> QED BY <1>1, <2>3, <2>4 DEF L!Enter
<1>3. CASE place' = [place EXCEPT ![p] = "user"]
  BY <1>1, <1>3, SwapFailsStep DEF InRegion
<1> QED BY <1>2, <1>3 DEF LockStore, StoreConditional

\* Whoever is inside is there alone.
LEMMA AloneInside ==
  ASSUME PrintInv, NEW p \in Clients, InRegion(p) PROVE Inside = {p}
BY DEF PrintInv, LockInv, RegionExclusive, Inside

\* UNLOCK lets out the one who calls it, who is the one inside.
LEMMA UnlockLeaves ==
  ASSUME PrintInv, NEW p \in Clients, UnlockStore(p)
  PROVE  L!Leave(p) \/ UNCHANGED L!vars
<1>1. /\ place \in [Clients -> {"user", "acquire", "body", "release"}]
      /\ place[p] = "release" /\ UNCHANGED author
  BY DEF PrintInv, PrintTypeOK, UnlockStore, StoreConditional
<1>2. InRegion(p) BY <1>1 DEF InRegion
<1>3. CASE place' = [place EXCEPT ![p] = "user"]
  <2>1. Inside = {p} BY <1>2, AloneInside
  <2>2. \A q \in Clients : ~InRegion(q)'
    BY <1>1, <1>3, <2>1 DEF Inside, InRegion
  <2>3. Inside' = {} BY <2>2 DEF Inside
  <2> QED BY <1>1, <2>1, <2>3 DEF L!Leave
<1>4. CASE place' = [place EXCEPT ![p] = "body"]
  BY <1>1, <1>2, <1>4, SwapFailsStep
<1> QED BY <1>3, <1>4 DEF UnlockStore, StoreConditional

LEMMA LoadStays ==
  ASSUME PrintInv, NEW p \in Clients, LockLoad(p) \/ UnlockLoad(p)
  PROVE  UNCHANGED L!vars
<1>1. CASE UNCHANGED place
  BY <1>1, OutsideStep DEF LockLoad, UnlockLoad, LoadReserved, InsideVars
<1>2. CASE LockLoad(p) /\ place' = [place EXCEPT ![p] = "acquire"]
  BY <1>2, SwapFailsStep DEF LockLoad, Locks, LoadReserved, InRegion
<1>3. CASE UnlockLoad(p) /\ place' = [place EXCEPT ![p] = "release"]
  BY <1>3, SwapFailsStep DEF UnlockLoad, BodyDone, LoadReserved, InRegion
<1> QED BY <1>1, <1>2, <1>3 DEF LockLoad, UnlockLoad, LoadReserved

\* A character of a string is printed by the one inside.
LEMMA PrintCharPrints ==
  ASSUME PrintInv, NEW p \in Clients, PrintChar(p) PROVE L!PutChar(p)
<1>1. place[p] = "body" /\ count[p] < StringLen /\ UNCHANGED place
      /\ author' = Append(author, [by |-> p, nth |-> count[p] + 1])
  BY DEF PrintChar
<1>2. Inside = {p} BY <1>1, AloneInside DEF InRegion
<1>3. Inside' = Inside BY <1>1 DEF Inside, InRegion
<1>4. count[p] \in Nat BY DEF PrintInv, PrintTypeOK
<1>5. count[p] + 1 \in 1..StringLen BY <1>1, <1>4, PrintingAssumption
<1> QED BY <1>1, <1>2, <1>3, <1>5 DEF L!PutChar

LEMMA LockStep ==
  ASSUME PrintInv, [PrintNext]_allVars PROVE [L!Next]_(L!vars)
<1>1. CASE UNCHANGED allVars
  BY <1>1, OutsideStep DEF allVars, printVars, InsideVars
<1>2. CASE Device
  BY <1>2, OutsideStep DEF Device, printVars, InsideVars
<1>3. CASE \/ Other(InputThread) \/ Other(OutputThread)
           \/ Other(todo[User] = <<>> /\ UserFinish) \/ Other(MainReturn)
  BY <1>3, OutsideStep DEF Other, InsideVars
<1>4. CASE Tick BY <1>4, OutsideStep DEF Tick, InsideVars
<1>5. CASE \E p \in Clients : Client(p)
  <2>1. PICK p \in Clients : Client(p) BY <1>5
  <2>2. CASE Swap(p)
    BY <2>2, LoadStays, LockEnters, UnlockLeaves DEF Swap, L!Next
  <2>3. CASE PrintChar(p) BY <2>3, PrintCharPrints DEF L!Next
  <2>4. CASE GetStringChar(p) \/ CallGetc(p) \/ Other(GetcResume(p))
    BY <2>4, OutsideStep DEF GetStringChar, CallGetc, Other, InsideVars
  <2> QED BY <2>1, <2>2, <2>3, <2>4 DEF Client
<1> QED BY <1>1, <1>2, <1>3, <1>4, <1>5 DEF PrintNext

\* The spin lock of lock.S implements PrintLock: a store of LOCK succeeds only when nobody
\* is inside, one of UNLOCK only for the client inside, and every character of a string
\* comes from that client, wherever copy_and_swap is interrupted.
THEOREM PrintingImplementsPrintLock == PrintSpec => ImplementsPrintLock
<1>1. PrintInit => L!Init
  BY DEF PrintInit, L!Init, Inside, InRegion
<1>2. PrintInv /\ [PrintNext]_allVars => [L!Next]_(L!vars) BY LockStep
<1> QED BY <1>1, <1>2, PrintInvariantCorrect, PTL
    DEF PrintSpec, ImplementsPrintLock, L!Spec
=============================================================================
