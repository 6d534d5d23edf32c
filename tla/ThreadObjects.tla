--------------------------- MODULE ThreadObjects ---------------------------
(***************************************************************************)
(* The life of Thread objects (syscall_cpp.cpp): what the constructor      *)
(* allocates through thread_create_only and PCB::initObject, who gives     *)
(* what back, and when.  The programs are userMain with the ForkThreads of *)
(* userMain.cpp, any of which may also create nothing: a thread creates    *)
(* objects, starts the first, waits for the flag that this one sets at the *)
(* end of run(), and deletes them all.                                     *)
(*                                                                         *)
(* A thread can lose the processor between any two steps, which are the    *)
(* calls that give memory back and the accesses to the flag.  The calls of *)
(* a constructor are one step: nobody knows of the object before its end.  *)
(* Which thread runs when is left open, as Kernel has it, and so is what   *)
(* becomes of the memory that has been given back.                         *)
(***************************************************************************)
EXTENDS Naturals, FiniteSets

CONSTANTS Objects,   \* Thread objects
          User,      \* the thread that executes userMain
          MayFail,   \* whether allocations may return nullptr
          NoOne

ASSUME ObjectsAssumption ==
  /\ IsFiniteSet(Objects)
  /\ User \notin Objects
  /\ NoOne \notin Objects \cup {User}
  /\ MayFail \in BOOLEAN

VARIABLES
  at,      \* where each thread is
  maker,   \* the thread that has made each object
  first,   \* the object each thread makes first and starts
  handle,  \* objects with a myHandle other than nullptr
  inSlab,  \* objects whose PCB is of pcbCache
  mode,    \* the privilege each thread runs with
  owned,   \* what is allocated for each object
  torn,    \* how many steps of its destruction are done
  hung     \* something was written through nullptr

vars == <<at, maker, first, handle, inSlab, mode, owned, torn, hung>>

Threads == Objects \cup {User}

Parts == {"object", "arg", "stack", "pcb", "registers", "sysStack"}

Made(t) == {o \in Objects : maker[o] = t}

-----------------------------------------------------------------------------
(* Creation *)

\* What is allocated when all goes well.  userMain has its object on the stack.
AllOf(t) == IF t = User THEN Parts \ {"object"} ELSE Parts

\* What the constructor leaves behind: a stack that cannot be had ends
\* thread_create_only, registers or a sysStack that cannot be had make createProccess
\* return nullptr, and nobody gives back what has been allocated before.
Outcomes(t) ==
  {AllOf(t)} \cup
  IF MayFail THEN {AllOf(t) \ {"stack", "pcb", "registers", "sysStack"},
                   AllOf(t) \ {"registers", "sysStack"},
                   AllOf(t) \ {"sysStack"}}
             ELSE {}

\* new ForkThread, or the definition of the one in userMain, which is its only one.
\* thread_create takes the PCB from the slab if it is called in supervisor mode.
Construct(t, o) ==
  /\ at[t] = "creates"
  /\ t = User => first[t] = NoOne
  /\ at[o] = "unmade"
  /\ at' = [at EXCEPT ![o] = "made"]
  /\ maker' = [maker EXCEPT ![o] = t]
  /\ first' = IF first[t] = NoOne THEN [first EXCEPT ![t] = o] ELSE first
  /\ \E outcome \in Outcomes(t) :
       /\ owned' = [owned EXCEPT ![o] = outcome]
       /\ handle' = IF outcome = AllOf(t) THEN handle \cup {o} ELSE handle
  /\ inSlab' = IF mode[t] = "supervisor" THEN inSlab \cup {o} ELSE inSlab
  /\ UNCHANGED <<mode, torn, hung>>

\* The object, its argument or the PCB cannot be had.  No operator new is noexcept, so
\* that none of the constructors is kept from writing through nullptr.
RunsOut(t) ==
  /\ MayFail
  /\ at[t] = "creates"
  /\ hung' = TRUE
  /\ UNCHANGED <<at, maker, first, handle, inSlab, mode, owned, torn>>

\* Mutant: a thread waits for one that could not be started.
AfterStart_Waits(t) == "waits"

\* userMain does not look at what start returns.
AfterStart(t) == IF t = User \/ first[t] \in handle THEN "waits" ELSE "deletes"

\* Thread::start of the first object.
Start(t) ==
  /\ at[t] = "creates"
  /\ first[t] # NoOne
  /\ at' = [at EXCEPT ![t] = AfterStart(t),
                      ![first[t]] = IF first[t] \in handle THEN "listed" ELSE @]
  /\ UNCHANGED <<maker, first, handle, inSlab, mode, owned, torn, hung>>

\* The array of objects cannot be had: the first object is neither started nor deleted.
NoArray(t) ==
  /\ MayFail
  /\ t # User
  /\ at[t] = "creates"
  /\ Made(t) = {first[t]}
  /\ at' = [at EXCEPT ![t] = "flagged"]
  /\ UNCHANGED <<maker, first, handle, inSlab, mode, owned, torn, hung>>

-----------------------------------------------------------------------------
(* Execution *)

\* popSppSpie: a thread gets the privilege of the one that gives the processor up,
\* which may be one of the console threads, or main.
FirstRun(o) ==
  /\ at[o] = "listed"
  /\ at' = [at EXCEPT ![o] = "creates"]
  /\ \E m \in {"supervisor"} \cup
              {mode[t] : t \in {u \in Threads : at[u] \in {"creates", "waits", "deletes",
                                                          "flagged", "leaves"}}} :
       mode' = [mode EXCEPT ![o] = m]
  /\ UNCHANGED <<maker, first, handle, inSlab, owned, torn, hung>>

\* A run() that makes nothing.
MakesNothing(o) ==
  /\ o # User
  /\ at[o] = "creates"
  /\ Made(o) = {}
  /\ at' = [at EXCEPT ![o] = "flagged"]
  /\ UNCHANGED <<maker, first, handle, inSlab, mode, owned, torn, hung>>

\* Mutant: the flag is set at the beginning of run().
FlagSet_Early(o) == at[o] \in {"creates", "waits", "deletes", "flagged", "leaves", "exited"}

\* isFinished() of the object.
FlagSet(o) == at[o] \in {"flagged", "leaves", "exited"}

\* The loop of thread_dispatch finds the flag set.
SeesFlag(t) ==
  /\ at[t] = "waits"
  /\ FlagSet(first[t])
  /\ at' = [at EXCEPT ![t] = "deletes"]
  /\ UNCHANGED <<maker, first, handle, inSlab, mode, owned, torn, hung>>

\* delete tArg in threadWrapper, after run().
FreeArg(o) ==
  /\ at[o] = "flagged"
  /\ owned' = [owned EXCEPT ![o] = @ \ {"arg"}]
  /\ at' = [at EXCEPT ![o] = "leaves"]
  /\ UNCHANGED <<maker, first, handle, inSlab, mode, torn, hung>>

\* thread_exit in proccessWrapper.
Exit(t) ==
  /\ at[t] = "leaves"
  /\ at' = [at EXCEPT ![t] = "exited"]
  /\ UNCHANGED <<maker, first, handle, inSlab, mode, owned, torn, hung>>

-----------------------------------------------------------------------------
(* Destruction *)

Steps == 4

\* ~PCB gives back the two stacks, not the argument (which syscall_cpp.cpp:52 expects of
\* it) and not the registers; PCB::operator delete gives back the PCB, which mem_free
\* refuses if it is in the slab's memory.  The object is last.
GivenBack(o, step) ==
  CASE step = 1 -> {"stack"}
    [] step = 2 -> {"sysStack"}
    [] step = 3 -> IF o \in inSlab THEN {} ELSE {"pcb"}
    [] step = 4 -> IF maker[o] = User THEN {} ELSE {"object"}

\* Mutant: the destructor takes every object to have a PCB.
NextStep_NoTest(o) == torn[o] + 1

\* The next step of the destruction of o; there is no PCB behind a handle of nullptr.
NextStep(o) == IF o \in handle THEN torn[o] + 1 ELSE Steps

\* One object after the other is deleted, the first one first.
Delete(t, o) ==
  /\ at[t] = "deletes"
  /\ o \in Made(t)
  /\ torn[o] < Steps
  /\ o # first[t] => torn[first[t]] = Steps
  /\ \A p \in Made(t) \ {o} : torn[p] \in {0, Steps}
  /\ torn' = [torn EXCEPT ![o] = NextStep(o)]
  /\ owned' = [owned EXCEPT ![o] = @ \ GivenBack(o, NextStep(o))]
  /\ UNCHANGED <<at, maker, first, handle, inSlab, mode, hung>>

\* finished = true at the end of run().  userMain has no flag to set, and what its
\* thread was started with has nothing to give back.
Finish(t) ==
  /\ at[t] = "deletes"
  /\ \A o \in Made(t) : torn[o] = Steps
  /\ at' = [at EXCEPT ![t] = IF t = User THEN "leaves" ELSE "flagged"]
  /\ UNCHANGED <<maker, first, handle, inSlab, mode, owned, torn, hung>>

-----------------------------------------------------------------------------

Init ==
  /\ at = [t \in Threads |-> IF t = User THEN "creates" ELSE "unmade"]
  /\ maker = [o \in Objects |-> NoOne]
  /\ first = [t \in Threads |-> NoOne]
  /\ handle = {}
  /\ inSlab = {}
  /\ mode = [t \in Threads |-> "user"]
  /\ owned = [o \in Objects |-> {}]
  /\ torn = [o \in Objects |-> 0]
  /\ hung = FALSE

Runs(t) ==
  \/ \E o \in Objects : Construct(t, o)
  \/ RunsOut(t)
  \/ Start(t)
  \/ NoArray(t)
  \/ t \in Objects /\ FirstRun(t)
  \/ MakesNothing(t)
  \/ SeesFlag(t)
  \/ \E o \in Objects : Delete(t, o)
  \/ Finish(t)
  \/ t \in Objects /\ FreeArg(t)
  \/ Exit(t)

Next == ~hung /\ \E t \in Threads : Runs(t)

Spec == Init /\ [][Next]_vars

\* Each thread gets its turn (ReadyRuns of Kernel).
FairSpec == Spec /\ \A t \in Threads : WF_vars(~hung /\ Runs(t))

-----------------------------------------------------------------------------
(* Properties *)

\* As long as a thread is in the ready list or executes run(), nothing of what it needs
\* has been given back, whoever deletes what (userMain.cpp:34-43).  From the moment its
\* flag is set this is not so: it frees its argument and exits on stacks and with a
\* PCB that may already belong to somebody else.
WholeUntilFlag ==
  \A o \in Objects :
    at[o] \in {"listed", "creates", "waits", "deletes"} => owned[o] = AllOf(maker[o])

\* What is going to be given back is allocated, for every object and whatever could not be
\* had for it: neither the destructor (syscall_cpp.cpp:23-33, PCB.cpp:64-67) nor the end of
\* the thread (syscall_cpp.cpp:60) frees anything twice, or frees what the other frees,
\* however the two interleave.  Nothing is said of what is never given back.
FreesWhatItHas ==
  /\ \A o \in Objects : at[o] = "flagged" => "arg" \in owned[o]
  /\ \A o \in Objects :
       torn[o] < Steps /\ at[o] # "unmade" => GivenBack(o, NextStep(o)) \subseteq owned[o]

\* userMain ends, unless the object it made has no thread, which it does not notice
\* (userMain.cpp:68-72), or the memory runs out in a constructor.
UserMainEnds == <>(at[User] = "exited" \/ hung \/ first[User] \in Objects \ handle)
=============================================================================
