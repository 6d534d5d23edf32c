------------------------------ MODULE Printing ------------------------------
(***************************************************************************)
(* printing.cpp over the console: printString and getString take the spin  *)
(* lock lockPrint for a whole string or line (LOCK and UNLOCK), with the   *)
(* copy_and_swap of lock.S, which is a load-reserved and a conditional     *)
(* store that a thread can be interrupted between.  printInt differs from  *)
(* printString in how it finds the characters.                             *)
(*                                                                         *)
(* The hart has one reservation.  A trap takes it away (QEMU drops it on a *)
(* change of mode; the kernel does nothing about it), so it is the thread's *)
(* that executed lr, as long as no other thread has run and no system call *)
(* has been made.                                                          *)
(***************************************************************************)
EXTENDS Console

CONSTANTS Workloads,  \* what is typed and which calls each client makes
          StringLen,  \* characters in a string
          LineLen,    \* characters getString takes at most
          NoOne

ASSUME PrintingAssumption ==
  /\ NoOne \notin Clients
  /\ StringLen \in Nat \ {0}
  /\ LineLen \in Nat \ {0}
  /\ \A w \in Workloads :
       w.typed \in 0..MaxTyped
       /\ w.calls \in [Clients -> Seq({"printString", "getString", "getc"})]

VARIABLES
  load,       \* the workload
  todo,       \* calls each client has still to finish
  place,      \* where it is in LOCK .. UNLOCK
  count,      \* characters it has put or asked for there
  lockPrint,
  reserved,   \* the thread whose reservation of lockPrint holds
  author      \* which character of whose string each character put is

printVars == <<load, todo, place, count, lockPrint, reserved, author>>
allVars   == <<vars, printVars>>

-----------------------------------------------------------------------------
(* copy_and_swap *)

Next1(p) == IF todo[p] = <<>> THEN "nothing" ELSE Head(todo[p])

\* The client is about to call copy_and_swap in LOCK, or in UNLOCK.
Locks(p) == place[p] = "user" /\ Next1(p) \in {"printString", "getString"}

\* The loop of printString is over; that of getString is over at the latest when the
\* buffer is full, or after a character that ends the line.
BodyDone(p) ==
  /\ place[p] = "body"
  /\ p \notin inGetc
  /\ CASE Next1(p) = "printString" -> count[p] = StringLen
       [] Next1(p) = "getString"   -> count[p] > 0

\* lr.w: goes on to the store if the value is the one expected, and fails, to be
\* called again, otherwise.
LoadReserved(p, expected, there) ==
  /\ reserved' = p
  /\ place' = IF lockPrint = expected THEN [place EXCEPT ![p] = there] ELSE place
  /\ UNCHANGED <<vars, load, todo, count, lockPrint, author>>

\* Mutant: a plain store.
Succeeds_Always(p) == TRUE

Succeeds(p) == reserved = p

\* sc.w: stores if the reservation holds, and otherwise starts again.
StoreConditional(p, desired, there, back) ==
  /\ reserved' = NoOne
  /\ \/ /\ Succeeds(p)
        /\ lockPrint' = desired
        /\ place' = [place EXCEPT ![p] = there]
        /\ count' = [count EXCEPT ![p] = 0]
        /\ todo' = IF desired = 0 THEN [todo EXCEPT ![p] = Tail(@)] ELSE todo
     \/ /\ ~Succeeds(p)
        /\ place' = [place EXCEPT ![p] = back]
        /\ UNCHANGED <<lockPrint, count, todo>>
  /\ UNCHANGED <<vars, load, author>>

LockLoad(p)    == Locks(p) /\ LoadReserved(p, 0, "acquire")
LockStore(p)   == place[p] = "acquire" /\ StoreConditional(p, 1, "body", "user")
UnlockLoad(p)  == BodyDone(p) /\ LoadReserved(p, 1, "release")
UnlockStore(p) == place[p] = "release" /\ StoreConditional(p, 0, "user", "body")

-----------------------------------------------------------------------------
(* The calls *)

\* A system call, or any other trap.
Trapped == reserved' = NoOne

PrintChar(p) ==
  /\ place[p] = "body" /\ Next1(p) = "printString"
  /\ count[p] < StringLen
  /\ Putc(p)
  /\ count' = [count EXCEPT ![p] = @ + 1]
  /\ author' = Append(author, [by |-> p, nth |-> count[p] + 1])
  /\ Trapped
  /\ UNCHANGED <<load, todo, place, lockPrint>>

GetStringChar(p) ==
  /\ place[p] = "body" /\ Next1(p) = "getString"
  /\ count[p] < LineLen
  /\ Getc(p)
  /\ count' = [count EXCEPT ![p] = @ + 1]
  /\ Trapped
  /\ UNCHANGED <<load, todo, place, lockPrint, author>>

CallGetc(p) ==
  /\ place[p] = "user" /\ Next1(p) = "getc"
  /\ Getc(p)
  /\ todo' = [todo EXCEPT ![p] = Tail(@)]
  /\ Trapped
  /\ UNCHANGED <<load, place, count, lockPrint, author>>

\* A timer interrupt that leads back to the same thread, or by way of one that
\* finds nothing to do.
Tick ==
  /\ reserved # NoOne
  /\ Trapped
  /\ UNCHANGED <<vars, load, todo, place, count, lockPrint, author>>

-----------------------------------------------------------------------------

PrintInit ==
  /\ Init
  /\ load \in Workloads
  /\ todo = load.calls
  /\ place = [p \in Clients |-> "user"]
  /\ count = [p \in Clients |-> 0]
  /\ lockPrint = 0
  /\ reserved = NoOne
  /\ author = <<>>

\* A step of another thread than the clients.
Other(A) == A /\ Trapped /\ UNCHANGED <<load, todo, place, count, lockPrint, author>>

Swap(p) == LockLoad(p) \/ LockStore(p) \/ UnlockLoad(p) \/ UnlockStore(p)

Client(p) ==
  \/ Swap(p)
  \/ PrintChar(p)
  \/ GetStringChar(p)
  \/ CallGetc(p)
  \/ Other(GetcResume(p))

Device ==
  /\ (typed < load.typed /\ Type) \/ Transmit
  /\ UNCHANGED printVars

PrintNext ==
  /\ ~returned
  /\ \/ Device
     \/ Other(InputThread)
     \/ Other(OutputThread)
     \/ \E p \in Clients : Client(p)
     \/ Other(todo[User] = <<>> /\ UserFinish)
     \/ Other(MainReturn)
     \/ Tick

PrintSpec == PrintInit /\ [][PrintNext]_allVars

\* Each thread gets its turn (ReadyRuns of Kernel) and executes its program, the
\* device finishes what it sends, and not every attempt of a thread to swap is
\* interrupted between its two instructions.  Nobody is obliged to type.
Fairness ==
  /\ WF_allVars(~returned /\ Transmit /\ UNCHANGED printVars)
  /\ WF_allVars(~returned /\ Other(InputThread))
  /\ WF_allVars(~returned /\ Other(OutputThread))
  /\ WF_allVars(~returned /\ Other(MainReturn))
  /\ WF_allVars(~returned /\ Other(todo[User] = <<>> /\ UserFinish))
  /\ \A p \in Clients :
       /\ WF_allVars(~returned /\ Client(p))
       /\ SF_allVars(~returned /\ reserved = p /\ (LockStore(p) \/ UnlockStore(p)))

FairSpec == PrintSpec /\ Fairness

-----------------------------------------------------------------------------
(* Properties *)

\* Between LOCK and UNLOCK; the conditional store of UNLOCK is still to come.
InRegion(p) == place[p] \in {"body", "release"}

\* One client at a time is in a region that takes lockPrint, and lockPrint is 1 while
\* it is, wherever the clients are interrupted in copy_and_swap (lock.S:8-11).
RegionExclusive ==
  /\ \A p, q \in Clients : InRegion(p) /\ InRegion(q) => p = q
  /\ lockPrint = 1 <=> \E p \in Clients : InRegion(p)

Inside == {p \in Clients : InRegion(p)}

L == INSTANCE PrintLock WITH inside <- Inside

\* The lock keeps its promise: who is let in finds nobody inside, and nobody else prints
\* or leaves until he does.
ImplementsPrintLock == L!Spec

\* Strings are printed whole: what follows a character that is not the last one of
\* its string is the next one of the same string (printing.cpp:14-20).
StringsWhole ==
  \A i \in 1 .. Len(author) - 1 :
    author[i + 1] = IF author[i].nth < StringLen
                    THEN [author[i] EXCEPT !.nth = @ + 1]
                    ELSE [by |-> author[i + 1].by, nth |-> 1]

\* As long as no update of size is lost and no 0 is put, main returns once the user
\* process has ended: the output thread sends everything (main.cpp:50-56).
MainReturns ==
  [](OutputExact /\ \A i \in 1..put : OutChar(i) # Nul) => (finished ~> returned)

\* As long as no update of size is lost, and no 0 is typed, a character that somebody
\* waits for in getc is given to somebody (kernel.cpp:139-148).
TypedIsDelivered ==
  [](InputExact /\ \A i \in 1..typed : InChar(i) # Nul) =>
    \A n \in 0..MaxTyped :
      (Len(got) = n /\ inGetc # {} /\ typed > n) ~> (Len(got) > n \/ returned)

\* lockPrint is given back, unless its holder waits in getc for something that
\* has not been typed (getString, printing.cpp:24-39).
LockIsGivenBack ==
  [](InputExact /\ OutputExact /\ \A i \in 1..typed : InChar(i) # Nul) =>
    \A p \in Clients :
      InRegion(p) ~> \/ ~InRegion(p)
                     \/ p \in inGetc /\ Len(got) = typed
                     \/ returned

\* A character given to putc is printed on the console (syscall_c.h:88-89).
PutIsPrinted == \A n \in 1..MaxUnsent : put = n ~> Len(sent) >= n
=============================================================================
