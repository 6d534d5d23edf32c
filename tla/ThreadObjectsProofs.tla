------------------------- MODULE ThreadObjectsProofs -------------------------
(***************************************************************************)
(* Theorems about ThreadObjects, for every set of objects, however deep    *)
(* threads make threads and whichever allocations fail.  ObjectInv follows *)
(* each object: its maker waits as long as it runs, so that its            *)
(* destruction has not begun, and what is allocated for it is what was     *)
(* allocated at first without what the steps so far have given back.       *)
(***************************************************************************)
EXTENDS ThreadObjects, TLAPS

-----------------------------------------------------------------------------
(* The invariant *)

Places == {"unmade", "made", "listed", "creates", "waits", "deletes", "flagged",
           "leaves", "exited"}

ObjectsTypeOK ==
  /\ at \in [Threads -> Places]
  /\ maker \in [Objects -> Threads \cup {NoOne}]
  /\ first \in [Threads -> Objects \cup {NoOne}]
  /\ handle \subseteq Objects
  /\ owned \in [Objects -> SUBSET Parts]
  /\ torn \in [Objects -> 0..Steps]

Live(o)    == at[o] \in {"listed", "creates", "waits", "deletes"}
Started(o) == at[o] \in Places \ {"unmade", "made"}

\* What the thread and the destructor have given back of an object with a PCB.
ArgGone(o) == IF at[o] \in {"leaves", "exited"} THEN {"arg"} ELSE {}

PcbGone(o)    == IF torn[o] >= 3 /\ o \notin inSlab THEN {"pcb"} ELSE {}
ObjectGone(o) == IF torn[o] >= 4 /\ maker[o] # User THEN {"object"} ELSE {}

Gone(o) ==
  ArgGone(o) \cup (IF torn[o] >= 1 THEN {"stack"} ELSE {})
             \cup (IF torn[o] >= 2 THEN {"sysStack"} ELSE {})
             \cup PcbGone(o) \cup ObjectGone(o)

ObjectInv(o) ==
  /\ at[o] = "unmade" => maker[o] = NoOne /\ torn[o] = 0 /\ o \notin handle
  /\ at[o] # "unmade" => maker[o] \in Threads
  /\ Started(o) =>
       /\ o \in handle
       /\ first[maker[o]] = o
       /\ at[maker[o]] \in {"waits", "deletes", "flagged", "leaves", "exited"}
  /\ Live(o) => at[maker[o]] = "waits"
  /\ torn[o] > 0 => at[maker[o]] \in {"deletes", "flagged", "leaves", "exited"}
  /\ o \notin handle /\ at[o] # "unmade" =>
       torn[o] = Steps \/ (torn[o] = 0 /\ (maker[o] # User => "object" \in owned[o]))
  /\ o \in handle => owned[o] = AllOf(maker[o]) \ Gone(o)

FirstInv(t) == first[t] # NoOne => maker[first[t]] = t

Inv ==
  /\ ObjectsTypeOK
  /\ \A o \in Objects : ObjectInv(o)
  /\ \A t \in Threads : FirstInv(t)

-----------------------------------------------------------------------------
(* Steps that only move one thread *)

\* A thread that has been started goes on, and neither waits for nor has deleted
\* anything that this would disturb.
LEMMA MoveStep ==
  ASSUME Inv, NEW t \in Threads, NEW a \in Places,
         at' = [at EXCEPT ![t] = a],
         UNCHANGED <<maker, first, handle, inSlab, owned, torn>>,
         t \in Objects => /\ Started(t)
                          /\ a \in Places \ {"unmade", "made"}
                          /\ a \in {"listed", "creates", "waits", "deletes"} => Live(t)
                          /\ ArgGone(t)' = ArgGone(t),
         \A o \in Objects : maker[o] = t =>
           /\ Started(o) => a \in {"waits", "deletes", "flagged", "leaves", "exited"}
           /\ Live(o) => a = "waits"
           /\ torn[o] > 0 => a \in {"deletes", "flagged", "leaves", "exited"}
  PROVE  Inv'
<1>1. at \in [Threads -> Places] /\ Objects \subseteq Threads
  BY DEF Inv, ObjectsTypeOK, Threads
<1>2. at'[t] = a /\ \A u \in Threads : u # t => at'[u] = at[u]
  BY <1>1
<1>3. ObjectsTypeOK' BY <1>1 DEF Inv, ObjectsTypeOK
<1>4. \A u \in Threads : FirstInv(u)' BY DEF Inv, FirstInv
<1>5. ASSUME NEW o \in Objects PROVE ObjectInv(o)'
  <2>1. ObjectInv(o) BY DEF Inv
  <2>2. ArgGone(o)' = ArgGone(o) BY <1>1, <1>2 DEF ArgGone
  <2>3. Gone(o)' = Gone(o) BY <2>2 DEF Gone, PcbGone, ObjectGone
  <2>4. maker[o] \in Threads \cup {NoOne} /\ NoOne \notin Threads
    BY ObjectsAssumption DEF Inv, ObjectsTypeOK, Threads
  <2>5. at'[o] # "unmade" <=> at[o] # "unmade"
    BY <1>1, <1>2 DEF Started, Places
  <2>6. Started(o)' => Started(o)
    BY <1>1, <1>2 DEF Started
  <2>7. Live(o)' => Live(o)
    BY <1>1, <1>2 DEF Live
  <2>8. AllOf(maker[o])' = AllOf(maker[o]) BY DEF AllOf
  <2>9. torn[o] > 0 => maker[o] \in Threads BY <2>1 DEF ObjectInv
  <2>10. CASE maker[o] = t
    BY <1>2, <2>1, <2>3, <2>5, <2>6, <2>7, <2>8, <2>10 DEF ObjectInv
  <2>11. CASE maker[o] # t
    <3>1. maker[o] \in Threads => at'[maker[o]] = at[maker[o]] BY <1>2, <2>11
    <3>2. Started(o) => maker[o] \in Threads BY <2>1 DEF ObjectInv, Started
    <3>3. Live(o) => maker[o] \in Threads BY <2>1 DEF ObjectInv, Live
    <3> QED BY <2>1, <2>3, <2>5, <2>6, <2>7, <2>8, <2>9, <3>1, <3>2, <3>3 DEF ObjectInv
  <2> QED BY <2>10, <2>11
<1> QED BY <1>3, <1>4, <1>5 DEF Inv

\* A thread that has still to make what it makes has neither started nor deleted it.
LEMMA MadeLater ==
  ASSUME Inv, NEW t \in Threads, at[t] \in {"listed", "creates"},
         NEW o \in Objects, maker[o] = t
  PROVE  ~Started(o) /\ ~Live(o) /\ torn[o] = 0 /\ at[o] = "made"
<1>1. ObjectInv(o) /\ torn[o] \in 0..Steps /\ at[o] \in Places
  BY DEF Inv, ObjectsTypeOK, Threads
<1>2. ~Started(o) BY <1>1 DEF ObjectInv
<1>3. at[o] # "unmade" BY <1>1, ObjectsAssumption DEF ObjectInv, Threads
<1>4. ~(torn[o] > 0) BY <1>1 DEF ObjectInv
<1> QED BY <1>1, <1>2, <1>3, <1>4 DEF Started, Live, Places, Steps

LEMMA FirstRunStep == ASSUME Inv, NEW o \in Objects, FirstRun(o) PROVE Inv'
<1>1. /\ o \in Threads /\ "creates" \in Places
      /\ at' = [at EXCEPT ![o] = "creates"] /\ at[o] = "listed"
      /\ UNCHANGED <<maker, first, handle, inSlab, owned, torn>>
  BY DEF FirstRun, Threads, Places
<1>2. at'[o] = "creates" BY <1>1 DEF Inv, ObjectsTypeOK
<1>3. ArgGone(o)' = ArgGone(o) BY <1>1, <1>2 DEF ArgGone
<1>4. \A p \in Objects : maker[p] = o => ~Started(p) /\ ~Live(p) /\ ~(torn[p] > 0)
  BY <1>1, MadeLater
<1>5. Started(o) /\ Live(o) BY <1>1 DEF Started, Live, Places
<1>6. "creates" \in Places \ {"unmade", "made"} BY DEF Places
<1> QED BY <1>1, <1>3, <1>4, <1>5, <1>6, MoveStep

LEMMA MakesNothingStep ==
  ASSUME Inv, NEW o \in Threads, MakesNothing(o) PROVE Inv'
<1>1. /\ o \in Objects /\ "flagged" \in Places
      /\ at' = [at EXCEPT ![o] = "flagged"] /\ at[o] = "creates"
      /\ UNCHANGED <<maker, first, handle, inSlab, owned, torn>>
  BY DEF MakesNothing, Threads, Places
<1>2. at'[o] = "flagged" BY <1>1 DEF Inv, ObjectsTypeOK
<1>3. ArgGone(o)' = ArgGone(o) BY <1>1, <1>2 DEF ArgGone
<1> QED BY <1>1, <1>3, MadeLater, MoveStep DEF Started, Live, Places

LEMMA NoArrayStep == ASSUME Inv, NEW t \in Threads, NoArray(t) PROVE Inv'
<1>1. /\ t \in Objects /\ "flagged" \in Places
      /\ at' = [at EXCEPT ![t] = "flagged"] /\ at[t] = "creates"
      /\ UNCHANGED <<maker, first, handle, inSlab, owned, torn>>
  BY DEF NoArray, Threads, Places
<1>2. at'[t] = "flagged" BY <1>1 DEF Inv, ObjectsTypeOK
<1>3. ArgGone(t)' = ArgGone(t) BY <1>1, <1>2 DEF ArgGone
<1> QED BY <1>1, <1>3, MadeLater, MoveStep DEF Started, Live, Places

\* The first object of a thread is the only one of it that is started.
LEMMA SeesFlagStep == ASSUME Inv, NEW t \in Threads, SeesFlag(t) PROVE Inv'
<1>1. /\ "deletes" \in Places /\ at' = [at EXCEPT ![t] = "deletes"] /\ at[t] = "waits"
      /\ UNCHANGED <<maker, first, handle, inSlab, owned, torn>>
      /\ FlagSet(first[t])
  BY DEF SeesFlag, Places
<1>2. at'[t] = "deletes" BY <1>1 DEF Inv, ObjectsTypeOK
<1>3. ArgGone(t)' = ArgGone(t) BY <1>1, <1>2 DEF ArgGone
<1>4. ASSUME NEW o \in Objects, maker[o] = t PROVE ~Live(o)
  <2>1. ObjectInv(o) BY DEF Inv
  <2> QED BY <1>1, <1>4, <2>1 DEF ObjectInv, Live, Started, FlagSet, Places
<1> QED BY <1>1, <1>3, <1>4, MoveStep DEF Started, Live, Places

LEMMA FinishStep == ASSUME Inv, NEW t \in Threads, Finish(t) PROVE Inv'
<1> DEFINE a == IF t = User THEN "leaves" ELSE "flagged"
<1>1. /\ a \in Places /\ at' = [at EXCEPT ![t] = a] /\ at[t] = "deletes"
      /\ UNCHANGED <<maker, first, handle, inSlab, owned, torn>>
  BY DEF Finish, Places
<1>2. at'[t] = a BY <1>1 DEF Inv, ObjectsTypeOK
<1>3. t \in Objects => a = "flagged" /\ ArgGone(t)' = ArgGone(t)
  BY <1>1, <1>2, ObjectsAssumption DEF ArgGone
<1>4. ASSUME NEW o \in Objects, maker[o] = t PROVE ~Live(o)
  <2>1. ObjectInv(o) BY DEF Inv
  <2> QED BY <1>1, <1>4, <2>1 DEF ObjectInv
<1>5. a \in {"flagged", "leaves"} OBVIOUS
<1> HIDE DEF a
<1> QED BY <1>1, <1>3, <1>4, <1>5, MoveStep DEF Started, Places

LEMMA ExitStep == ASSUME Inv, NEW t \in Threads, Exit(t) PROVE Inv'
<1>1. /\ "exited" \in Places /\ at' = [at EXCEPT ![t] = "exited"] /\ at[t] = "leaves"
      /\ UNCHANGED <<maker, first, handle, inSlab, owned, torn>>
  BY DEF Exit, Places
<1>2. at'[t] = "exited" BY <1>1 DEF Inv, ObjectsTypeOK
<1>3. ArgGone(t)' = ArgGone(t) BY <1>1, <1>2 DEF ArgGone
<1>4. ASSUME NEW o \in Objects, maker[o] = t PROVE ~Live(o)
  <2>1. ObjectInv(o) BY DEF Inv
  <2> QED BY <1>1, <1>4, <2>1 DEF ObjectInv
<1> QED BY <1>1, <1>3, <1>4, MoveStep DEF Started, Places
-----------------------------------------------------------------------------
(* Steps that make, start and give back *)

\* An object that is not changed, and whose maker has not moved to a place where it would
\* matter, keeps its part of the invariant.
LEMMA SameObject ==
  ASSUME Inv, NEW o \in Objects,
         at'[o] = at[o], maker'[o] = maker[o], owned'[o] = owned[o], torn'[o] = torn[o],
         o \in handle' <=> o \in handle, o \in inSlab' <=> o \in inSlab,
         maker[o] \in Threads => /\ first'[maker[o]] = first[maker[o]] \/ ~Started(o)
                                 /\ at'[maker[o]] = at[maker[o]]
                                      \/ (~Started(o) /\ ~Live(o) /\ torn[o] = 0)
  PROVE  ObjectInv(o)'
<1>1. ObjectInv(o) BY DEF Inv
<1>2. (Started(o)' <=> Started(o)) /\ (Live(o)' <=> Live(o)) BY DEF Started, Live
<1>3. Gone(o)' = Gone(o) BY DEF Gone, ArgGone, PcbGone, ObjectGone
<1>4. (AllOf(maker[o]))' = AllOf(maker[o]) BY DEF AllOf
<1>5. torn[o] \in 0..Steps BY DEF Inv, ObjectsTypeOK
<1>6. Started(o) \/ Live(o) \/ torn[o] > 0 => maker[o] \in Threads
  BY <1>1, <1>5 DEF ObjectInv, Started, Live
<1> QED BY <1>1, <1>2, <1>3, <1>4, <1>5, <1>6 DEF ObjectInv

LEMMA ConstructStep ==
  ASSUME Inv, NEW t \in Threads, NEW o \in Objects, Construct(t, o) PROVE Inv'
<1>1. /\ at \in [Threads -> Places] /\ maker \in [Objects -> Threads \cup {NoOne}]
      /\ first \in [Threads -> Objects \cup {NoOne}] /\ handle \subseteq Objects
      /\ owned \in [Objects -> SUBSET Parts] /\ torn \in [Objects -> 0..Steps]
      /\ Objects \subseteq Threads
  BY DEF Inv, ObjectsTypeOK, Threads
<1>2. PICK outcome \in Outcomes(t) :
        /\ owned' = [owned EXCEPT ![o] = outcome]
        /\ handle' = IF outcome = AllOf(t) THEN handle \cup {o} ELSE handle
  BY DEF Construct
<1>3. /\ at[t] = "creates" /\ at[o] = "unmade"
      /\ at' = [at EXCEPT ![o] = "made"] /\ maker' = [maker EXCEPT ![o] = t]
      /\ first' = IF first[t] = NoOne THEN [first EXCEPT ![t] = o] ELSE first
      /\ inSlab' \in {inSlab, inSlab \cup {o}} /\ UNCHANGED torn
  BY DEF Construct
<1>4. outcome \subseteq Parts /\ (t # User => "object" \in outcome)
  BY DEF Outcomes, AllOf, Parts
<1>5. ObjectsTypeOK'
  <2>1. at' \in [Threads -> Places] BY <1>1, <1>3 DEF Places
  <2>2. maker' \in [Objects -> Threads \cup {NoOne}]
        /\ first' \in [Threads -> Objects \cup {NoOne}]
    BY <1>1, <1>3
  <2>3. handle' \subseteq Objects /\ owned' \in [Objects -> SUBSET Parts]
    BY <1>1, <1>2, <1>4
  <2> QED BY <1>1, <1>3, <2>1, <2>2, <2>3 DEF ObjectsTypeOK
<1>6. ObjectInv(o) BY DEF Inv
<1>7. /\ at'[o] = "made" /\ maker'[o] = t /\ owned'[o] = outcome /\ torn'[o] = 0
      /\ o \in handle' <=> outcome = AllOf(t)
  BY <1>1, <1>2, <1>3, <1>6 DEF ObjectInv
<1>8. ObjectInv(o)'
  <2>1. Gone(o)' = {}
    BY <1>7 DEF Gone, ArgGone, PcbGone, ObjectGone
  <2>2. ~Started(o)' /\ ~Live(o)' BY <1>7 DEF Started, Live
  <2>3. (AllOf(maker[o]))' = AllOf(t) BY <1>7 DEF AllOf
  <2>4. o \in handle' => owned'[o] = AllOf(t) \ {} BY <1>7
  <2> QED BY <1>4, <1>7, <2>1, <2>2, <2>3, <2>4 DEF ObjectInv
<1>9. ASSUME NEW p \in Objects, p # o PROVE ObjectInv(p)'
  <2>1. /\ at'[p] = at[p] /\ maker'[p] = maker[p] /\ owned'[p] = owned[p]
        /\ torn'[p] = torn[p]
        /\ p \in handle' <=> p \in handle
        /\ p \in inSlab' <=> p \in inSlab
    BY <1>1, <1>2, <1>3, <1>9
  <2>2. ASSUME maker[p] \in Threads
        PROVE  /\ first'[maker[p]] = first[maker[p]] \/ ~Started(p)
               /\ at'[maker[p]] = at[maker[p]]
                    \/ (~Started(p) /\ ~Live(p) /\ torn[p] = 0)
    <3>1. ObjectInv(p) /\ torn[p] \in 0..Steps BY <1>1 DEF Inv
    <3>2. CASE maker[p] = o
      <4>1. ~Started(p) /\ ~Live(p) /\ ~(torn[p] > 0)
        BY <1>3, <3>1, <3>2 DEF ObjectInv
      <4> QED BY <3>1, <4>1 DEF Steps
    <3>3. CASE maker[p] = t
      <4>1. ~Started(p) BY <1>3, <3>1, <3>3 DEF ObjectInv
      <4>2. at'[t] = at[t] BY <1>1, <1>3
      <4> QED BY <3>3, <4>1, <4>2
    <3>4. CASE maker[p] # o /\ maker[p] # t
      BY <1>1, <1>3, <2>2, <3>4
    <3> QED BY <3>2, <3>3, <3>4
  <2> QED BY <2>1, <2>2, SameObject
<1>10. ASSUME NEW u \in Threads PROVE FirstInv(u)'
  <2>1. FirstInv(u) /\ NoOne \notin Threads
    BY ObjectsAssumption DEF Inv, Threads
  <2>2. CASE u = t /\ first[t] = NoOne
    <3>1. first'[u] = o BY <1>1, <1>3, <2>2
    <3> QED BY <1>7, <2>2, <3>1 DEF FirstInv
  <2>3. CASE ~(u = t /\ first[t] = NoOne)
    <3>1. first'[u] = first[u] BY <1>1, <1>3, <2>3
    <3>2. first[u] # NoOne => first[u] # o
      BY <1>3, <1>6, <2>1 DEF FirstInv, ObjectInv
    <3>3. first[u] # NoOne => maker'[first[u]] = maker[first[u]]
      BY <1>1, <1>3, <3>2
    <3> QED BY <2>1, <3>1, <3>3 DEF FirstInv
  <2> QED BY <2>2, <2>3
<1> QED BY <1>5, <1>8, <1>9, <1>10 DEF Inv

LEMMA StartStep == ASSUME Inv, NEW t \in Threads, Start(t) PROVE Inv'
<1>0. PICK f \in Objects : f = first[t]
  BY DEF Inv, ObjectsTypeOK, Start
<1>1. /\ at \in [Threads -> Places] /\ f \in Objects /\ maker[f] = t /\ f \in Threads
      /\ first \in [Threads -> Objects \cup {NoOne}] /\ Objects \subseteq Threads
  BY <1>0, ObjectsAssumption DEF Inv, ObjectsTypeOK, FirstInv, Start, Threads
<1>2. at[t] = "creates" /\ UNCHANGED <<maker, first, handle, inSlab, owned, torn>>
  BY DEF Start
<1>3. at[f] = "made" /\ torn[f] = 0 BY <1>1, <1>2, MadeLater
<1>4. /\ at'[t] = AfterStart(t) /\ at'[f] = (IF f \in handle THEN "listed" ELSE "made")
      /\ \A u \in Threads : u \notin {t, f} => at'[u] = at[u]
      /\ at' \in [Threads -> Places]
  BY <1>0, <1>1, <1>2, <1>3 DEF Start, AfterStart, Places
<1>5. AfterStart(t) \in {"waits", "deletes"} /\ (f \in handle => AfterStart(t) = "waits")
  BY <1>0 DEF AfterStart
<1>6. ObjectsTypeOK' BY <1>2, <1>4 DEF Inv, ObjectsTypeOK
<1>7. \A u \in Threads : FirstInv(u)' BY <1>2 DEF Inv, FirstInv
<1>8. ObjectInv(f)'
  <2>1. ObjectInv(f) BY <1>1 DEF Inv
  <2>2. Gone(f)' = Gone(f)
    BY <1>2, <1>3, <1>4 DEF Gone, ArgGone, PcbGone, ObjectGone
  <2>3. (AllOf(maker[f]))' = AllOf(maker[f]) /\ maker'[f] = t /\ first'[t] = f
        /\ torn'[f] = 0 /\ (f \in handle' <=> f \in handle) /\ owned'[f] = owned[f]
    BY <1>0, <1>1, <1>2, <1>3 DEF AllOf
  <2>4. Started(f)' \/ Live(f)' => f \in handle
    BY <1>4 DEF Started, Live
  <2>5. at'[f] # "unmade" /\ at[f] # "unmade" BY <1>3, <1>4
  <2> QED BY <1>1, <1>3, <1>4, <1>5, <2>1, <2>2, <2>3, <2>4, <2>5 DEF ObjectInv
<1>9. ASSUME NEW p \in Objects, p # f PROVE ObjectInv(p)'
  <2>1. CASE p = t
    <3>1. Live(p) /\ Live(p)' /\ Started(p) /\ Started(p)'
      BY <1>2, <1>4, <1>5, <2>1 DEF Live, Started, Places
    <3>2. ObjectInv(p) BY DEF Inv
    <3>3. maker[p] \in Threads /\ at[maker[p]] = "waits"
      BY <1>2, <2>1, <3>1, <3>2 DEF ObjectInv
    <3>4. maker[p] # t /\ maker[p] # f BY <1>2, <1>3, <3>3
    <3>5. at'[maker[p]] = "waits" BY <1>4, <3>3, <3>4
    <3>6. Gone(p)' = Gone(p)
      <4>1. ArgGone(p)' = ArgGone(p) BY <1>2, <1>4, <1>5, <2>1 DEF ArgGone
      <4> QED BY <1>2, <4>1 DEF Gone, PcbGone, ObjectGone
    <3>7. (AllOf(maker[p]))' = AllOf(maker[p]) BY <1>2 DEF AllOf
    <3>8. at[p] # "unmade" /\ at'[p] # "unmade" BY <3>1 DEF Live
    <3> QED BY <1>2, <3>1, <3>2, <3>3, <3>5, <3>6, <3>7, <3>8 DEF ObjectInv
  <2>2. CASE p # t
    <3>1. at'[p] = at[p] BY <1>1, <1>4, <1>9, <2>2
    <3>2. ASSUME maker[p] \in Threads
          PROVE  at'[maker[p]] = at[maker[p]] \/ (~Started(p) /\ ~Live(p) /\ torn[p] = 0)
      <4>1. CASE maker[p] = t BY <1>2, <4>1, MadeLater
      <4>2. CASE maker[p] = f
        <5>1. ObjectInv(p) /\ torn[p] \in 0..Steps BY DEF Inv, ObjectsTypeOK
        <5>2. ~Started(p) /\ ~Live(p) /\ ~(torn[p] > 0)
          BY <1>3, <4>2, <5>1 DEF ObjectInv
        <5> QED BY <5>1, <5>2 DEF Steps
      <4>3. CASE maker[p] \notin {t, f} BY <1>4, <3>2, <4>3
      <4> QED BY <4>1, <4>2, <4>3
    <3> QED BY <1>2, <3>1, <3>2, SameObject
  <2> QED BY <2>1, <2>2
<1> QED BY <1>6, <1>7, <1>8, <1>9 DEF Inv

LEMMA FreeArgStep == ASSUME Inv, NEW o \in Objects, FreeArg(o) PROVE Inv'
<1>1. /\ at \in [Threads -> Places] /\ owned \in [Objects -> SUBSET Parts]
      /\ Objects \subseteq Threads
      /\ maker \in [Objects -> Threads \cup {NoOne}] /\ torn \in [Objects -> 0..Steps]
  BY DEF Inv, ObjectsTypeOK, Threads
<1>2. /\ at[o] = "flagged" /\ at' = [at EXCEPT ![o] = "leaves"]
      /\ owned' = [owned EXCEPT ![o] = @ \ {"arg"}]
      /\ UNCHANGED <<maker, first, handle, inSlab, torn>>
  BY DEF FreeArg
<1>3. ObjectsTypeOK' BY <1>1, <1>2 DEF Inv, ObjectsTypeOK, Places
<1>4. \A u \in Threads : FirstInv(u)' BY <1>2 DEF Inv, FirstInv
<1>5. /\ at'[o] = "leaves" /\ owned'[o] = owned[o] \ {"arg"}
      /\ \A p \in Threads : p # o => at'[p] = at[p]
      /\ \A p \in Objects : p # o => owned'[p] = owned[p]
  BY <1>1, <1>2
<1>6. ASSUME NEW p \in Objects PROVE ObjectInv(p)'
  <2>1. ObjectInv(p) BY DEF Inv
  <2>2. CASE p = o
    <3>1. Started(o) /\ Started(o)' /\ ~Live(o)'
      BY <1>2, <1>5 DEF Started, Live, Places
    <3>2. /\ maker[o] \in Threads
          /\ o \in handle /\ first[maker[o]] = o
          /\ at[maker[o]] \in {"waits", "deletes", "flagged", "leaves", "exited"}
      BY <1>2, <1>5, <2>1, <2>2, <3>1 DEF ObjectInv
    <3>3. torn[o] > 0 => at[maker[o]] \in {"deletes", "flagged", "leaves", "exited"}
      BY <2>1, <2>2 DEF ObjectInv
    <3>4. at'[maker[o]] = at[maker[o]] \/ at'[maker[o]] = "leaves"
      BY <1>5, <3>2
    <3>5. Gone(o)' = Gone(o) \cup {"arg"}
      BY <1>2, <1>5 DEF Gone, ArgGone, PcbGone, ObjectGone
    <3>6. owned'[o] = AllOf(maker[o]) \ (Gone(o) \cup {"arg"})
      BY <1>5, <2>1, <2>2, <3>2 DEF ObjectInv
    <3>7. (AllOf(maker[o]))' = AllOf(maker[o]) BY <1>2 DEF AllOf
    <3>8. at'[o] # "unmade" BY <1>5
    <3> QED BY <1>2, <2>2, <3>1, <3>2, <3>3, <3>4, <3>5, <3>6, <3>7, <3>8 DEF ObjectInv
  <2>3. CASE p # o /\ maker[p] # o
    <3>1. maker[p] \in Threads => at'[maker[p]] = at[maker[p]] BY <1>5, <2>3
    <3>2. at'[p] = at[p] /\ owned'[p] = owned[p] BY <1>1, <1>5, <2>3
    <3> QED BY <1>2, <3>1, <3>2, SameObject
  <2>4. CASE p # o /\ maker[p] = o
    <3>1. at'[p] = at[p] /\ owned'[p] = owned[p] BY <1>1, <1>5, <2>4
    <3>2. (Started(p)' <=> Started(p)) /\ (Live(p)' <=> Live(p))
      BY <3>1 DEF Started, Live
    <3>3. Gone(p)' = Gone(p) BY <1>2, <3>1 DEF Gone, ArgGone, PcbGone, ObjectGone
    <3>4. (AllOf(maker[p]))' = AllOf(maker[p]) BY <1>2 DEF AllOf
    <3>5. ~Live(p) BY <1>2, <2>1, <2>4 DEF ObjectInv
    <3> QED BY <1>2, <1>5, <2>1, <2>4, <3>1, <3>2, <3>3, <3>4, <3>5 DEF ObjectInv
  <2> QED BY <2>2, <2>3, <2>4
<1> QED BY <1>3, <1>4, <1>6 DEF Inv
\* The next step of the destruction of an object with a PCB gives back what is left of the
\* part it is about, and nothing that it is about is gone before.
LEMMA GivenBackProperties ==
  ASSUME Inv, NEW o \in Objects, o \in handle, torn[o] < Steps, maker[o] \in Threads
  PROVE  /\ torn[o] + 1 \in 1..Steps
         /\ GivenBack(o, torn[o] + 1) \subseteq AllOf(maker[o]) \ Gone(o)
         /\ Gone(o) \cup GivenBack(o, torn[o] + 1) =
              ArgGone(o) \cup {"stack"}
                         \cup (IF torn[o] + 1 >= 2 THEN {"sysStack"} ELSE {})
                         \cup (IF torn[o] + 1 >= 3 /\ o \notin inSlab THEN {"pcb"} ELSE {})
                         \cup (IF torn[o] + 1 >= 4 /\ maker[o] # User THEN {"object"} ELSE {})
<1>1. torn[o] \in {0, 1, 2, 3} BY DEF Inv, ObjectsTypeOK, Steps
<1>2. CASE torn[o] = 0
  <2>1. GivenBack(o, torn[o] + 1) = {"stack"} BY <1>2 DEF GivenBack
  <2> QED BY <1>2, <2>1 DEF Gone, ArgGone, PcbGone, ObjectGone, AllOf, Parts, Steps
<1>3. CASE torn[o] = 1
  <2>1. GivenBack(o, torn[o] + 1) = {"sysStack"} BY <1>3 DEF GivenBack
  <2> QED BY <1>3, <2>1 DEF Gone, ArgGone, PcbGone, ObjectGone, AllOf, Parts, Steps
<1>4. CASE torn[o] = 2
  <2>1. GivenBack(o, torn[o] + 1) = IF o \in inSlab THEN {} ELSE {"pcb"}
    BY <1>4 DEF GivenBack
  <2> QED BY <1>4, <2>1 DEF Gone, ArgGone, PcbGone, ObjectGone, AllOf, Parts, Steps
<1>5. CASE torn[o] = 3
  <2>1. GivenBack(o, torn[o] + 1) = IF maker[o] = User THEN {} ELSE {"object"}
    BY <1>5 DEF GivenBack
  <2> QED BY <1>5, <2>1 DEF Gone, ArgGone, PcbGone, ObjectGone, AllOf, Parts, Steps
<1> QED BY <1>1, <1>2, <1>3, <1>4, <1>5

LEMMA DeleteStep ==
  ASSUME Inv, NEW t \in Threads, NEW o \in Objects, Delete(t, o) PROVE Inv'
<1>1. /\ owned \in [Objects -> SUBSET Parts] /\ torn \in [Objects -> 0..Steps]
      /\ maker[o] = t /\ at[t] = "deletes" /\ torn[o] < Steps
  BY DEF Inv, ObjectsTypeOK, Delete, Made
<1>2. /\ torn' = [torn EXCEPT ![o] = NextStep(o)]
      /\ owned' = [owned EXCEPT ![o] = @ \ GivenBack(o, NextStep(o))]
      /\ UNCHANGED <<at, maker, first, handle, inSlab>>
  BY DEF Delete
<1>3. ObjectInv(o) BY DEF Inv
<1>4. at[o] # "unmade" BY <1>1, <1>3, ObjectsAssumption DEF ObjectInv, Threads
<1>5. NextStep(o) \in 1..Steps
  BY <1>1, GivenBackProperties DEF NextStep, Steps
<1>6. /\ torn'[o] = NextStep(o) /\ owned'[o] = owned[o] \ GivenBack(o, NextStep(o))
      /\ \A p \in Objects : p # o => torn'[p] = torn[p] /\ owned'[p] = owned[p]
  BY <1>1, <1>2
<1>7. ObjectsTypeOK' BY <1>1, <1>2, <1>5 DEF Inv, ObjectsTypeOK
<1>8. \A u \in Threads : FirstInv(u)' BY <1>2 DEF Inv, FirstInv
<1>9. ObjectInv(o)'
  <2>1. (Started(o)' <=> Started(o)) /\ (Live(o)' <=> Live(o))
    BY <1>2 DEF Started, Live
  <2>2. o \in handle => owned'[o] = (AllOf(maker[o]) \ Gone(o))'
    <3> SUFFICES ASSUME o \in handle PROVE owned'[o] = (AllOf(maker[o]) \ Gone(o))'
      OBVIOUS
    <3>1. torn'[o] = torn[o] + 1 BY <1>6 DEF NextStep
    <3>2. Gone(o)' = Gone(o) \cup GivenBack(o, torn[o] + 1)
      <4>1. ArgGone(o)' = ArgGone(o) BY <1>2 DEF ArgGone
      <4>2. torn[o] + 1 >= 1 BY <1>5 DEF NextStep
      <4>3. Gone(o)' = ArgGone(o) \cup {"stack"}
              \cup (IF torn[o] + 1 >= 2 THEN {"sysStack"} ELSE {})
              \cup (IF torn[o] + 1 >= 3 /\ o \notin inSlab THEN {"pcb"} ELSE {})
              \cup (IF torn[o] + 1 >= 4 /\ maker[o] # User THEN {"object"} ELSE {})
        BY <1>2, <3>1, <4>1, <4>2 DEF Gone, PcbGone, ObjectGone
      <4> QED BY <1>1, <4>3, GivenBackProperties
    <3>3. owned'[o] = (AllOf(maker[o]) \ Gone(o)) \ GivenBack(o, torn[o] + 1)
      BY <1>3, <1>6 DEF ObjectInv, NextStep
    <3>4. (AllOf(maker[o]))' = AllOf(maker[o]) BY <1>2 DEF AllOf
    <3> QED BY <3>2, <3>3, <3>4
  <2>3. o \notin handle => torn'[o] = Steps BY <1>6 DEF NextStep
  <2>4. ~Live(o) BY <1>1, <1>3 DEF ObjectInv
  <2>5. at'[maker'[o]] = "deletes" BY <1>1, <1>2
  <2> QED BY <1>1, <1>2, <1>3, <1>4, <2>1, <2>2, <2>3, <2>4, <2>5 DEF ObjectInv
<1>10. ASSUME NEW p \in Objects, p # o PROVE ObjectInv(p)'
  BY <1>2, <1>6, <1>10, SameObject
<1> QED BY <1>7, <1>8, <1>9, <1>10 DEF Inv

-----------------------------------------------------------------------------
(* The theorems *)

LEMMA InitInv == ASSUME Init PROVE Inv
<1>1. Objects \subseteq Threads /\ NoOne \notin Threads /\ User \notin Objects
  BY ObjectsAssumption DEF Threads
<1>2. ObjectsTypeOK BY <1>1 DEF Init, ObjectsTypeOK, Places, Steps
<1>3. \A o \in Objects : ObjectInv(o)
  BY <1>1 DEF Init, ObjectInv, Started, Live, Places
<1>4. \A t \in Threads : FirstInv(t) BY <1>1 DEF Init, FirstInv
<1> QED BY <1>2, <1>3, <1>4 DEF Inv

LEMMA StutterStep ==
  ASSUME Inv, UNCHANGED <<at, maker, first, handle, inSlab, owned, torn>> PROVE Inv'
<1>1. ObjectsTypeOK' BY DEF Inv, ObjectsTypeOK
<1>2. \A o \in Objects : ObjectInv(o)' BY SameObject
<1>3. \A t \in Threads : FirstInv(t)' BY DEF Inv, FirstInv
<1> QED BY <1>1, <1>2, <1>3 DEF Inv

\* Every reachable state satisfies the inductive invariant.
THEOREM ObjectsInvariantCorrect == Spec => []Inv
<1>1. Init => Inv BY InitInv
<1>2. Inv /\ [Next]_vars => Inv'
  <2> SUFFICES ASSUME Inv, [Next]_vars PROVE Inv'
    OBVIOUS
  <2>1. CASE UNCHANGED vars BY <2>1, StutterStep DEF vars
  <2>2. ASSUME NEW t \in Threads, Runs(t) PROVE Inv'
    <3>1. CASE \E o \in Objects : Construct(t, o) BY <3>1, ConstructStep
    <3>2. CASE RunsOut(t) BY <3>2, StutterStep DEF RunsOut
    <3>3. CASE Start(t) BY <3>3, StartStep
    <3>4. CASE NoArray(t) BY <3>4, NoArrayStep
    <3>5. CASE t \in Objects /\ FirstRun(t) BY <3>5, FirstRunStep
    <3>6. CASE MakesNothing(t) BY <3>6, MakesNothingStep
    <3>7. CASE SeesFlag(t) BY <3>7, SeesFlagStep
    <3>8. CASE \E o \in Objects : Delete(t, o) BY <3>8, DeleteStep
    <3>9. CASE Finish(t) BY <3>9, FinishStep
    <3>10. CASE t \in Objects /\ FreeArg(t) BY <3>10, FreeArgStep
    <3>11. CASE Exit(t) BY <3>11, ExitStep
    <3> QED BY <2>2, <3>1, <3>2, <3>3, <3>4, <3>5, <3>6, <3>7, <3>8, <3>9, <3>10,
               <3>11 DEF Runs
  <2> QED BY <2>1, <2>2 DEF Next
<1> QED BY <1>1, <1>2, PTL DEF Spec

\* Nothing that a thread needs is given back before it has set its flag
\* (userMain.cpp:34-43 and syscall_cpp.cpp:51-54).
THEOREM WholeCorrect == Spec => []WholeUntilFlag
<1>1. ASSUME Inv PROVE WholeUntilFlag
  <2> SUFFICES ASSUME NEW o \in Objects, Live(o) PROVE owned[o] = AllOf(maker[o])
    BY DEF WholeUntilFlag, Live
  <2>1. ObjectInv(o) /\ torn[o] \in 0..Steps BY <1>1 DEF Inv, ObjectsTypeOK
  <2>2. Started(o) BY DEF Live, Started, Places
  <2>3. torn[o] = 0
    <3>1. ~(torn[o] > 0) BY <2>1 DEF ObjectInv
    <3> QED BY <2>1, <3>1 DEF Steps
  <2>4. Gone(o) = {} BY <2>3 DEF Live, Gone, ArgGone, PcbGone, ObjectGone
  <2> QED BY <2>1, <2>2, <2>4 DEF ObjectInv
<1> QED BY <1>1, ObjectsInvariantCorrect, PTL

\* The destructor and the end of the thread give back only what is still allocated,
\* however they interleave and whichever allocations have failed (PCB.cpp:64-67,
\* syscall_cpp.cpp:56-61).
THEOREM FreesWhatItHasCorrect == Spec => []FreesWhatItHas
<1>1. ASSUME Inv PROVE FreesWhatItHas
  <2>1. ASSUME NEW o \in Objects
        PROVE  ObjectInv(o) /\ torn[o] \in 0..Steps /\ NoOne \notin Threads
    BY <1>1, ObjectsAssumption DEF Inv, ObjectsTypeOK, Threads
  <2>2. ASSUME NEW o \in Objects, at[o] = "flagged" PROVE "arg" \in owned[o]
    <3>1. o \in handle /\ owned[o] = AllOf(maker[o]) \ Gone(o)
      BY <2>1, <2>2 DEF ObjectInv, Started, Places
    <3>2. "arg" \notin Gone(o)
      BY <2>2 DEF Gone, ArgGone, PcbGone, ObjectGone
    <3> QED BY <3>1, <3>2 DEF AllOf, Parts
  <2>3. ASSUME NEW o \in Objects, torn[o] < Steps, at[o] # "unmade"
        PROVE  GivenBack(o, NextStep(o)) \subseteq owned[o]
    <3>1. maker[o] \in Threads BY <2>1, <2>3 DEF ObjectInv
    <3>2. CASE o \in handle
      <4>1. owned[o] = AllOf(maker[o]) \ Gone(o) BY <2>1, <3>2 DEF ObjectInv
      <4>2. NextStep(o) = torn[o] + 1 BY <3>2 DEF NextStep
      <4> QED BY <1>1, <2>3, <3>1, <3>2, <4>1, <4>2, GivenBackProperties
    <3>3. CASE o \notin handle
      <4>1. maker[o] # User => "object" \in owned[o]
        BY <2>1, <2>3, <3>3 DEF ObjectInv, Steps
      <4>2. GivenBack(o, NextStep(o)) = IF maker[o] = User THEN {} ELSE {"object"}
        BY <3>3 DEF GivenBack, NextStep, Steps
      <4> QED BY <4>1, <4>2
    <3> QED BY <3>2, <3>3
  <2> QED BY <2>2, <2>3 DEF FreesWhatItHas
<1> QED BY <1>1, ObjectsInvariantCorrect, PTL
=============================================================================
