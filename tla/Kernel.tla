------------------------------- MODULE Kernel -------------------------------
(***************************************************************************)
(* The kernel proper: the trap handler of kernel.cpp with the scheduler,   *)
(* the semaphores and the sleeping list it drives.                         *)
(*                                                                         *)
(* One hart runs one thread at a time.  A trap handler runs with S-mode    *)
(* interrupts masked, so a handler is one atomic step, up to the point     *)
(* where PCB::dispatch switches to another kernel stack; what the thread   *)
(* switched to had left to do in its own handler is then done in the same  *)
(* step (resume tells what that is).  The machine-mode timer is not masked *)
(* and may raise SSIP between any two instructions.                        *)
(*                                                                         *)
(* The lists are sequences here.  KernelLists keeps them as the code does, *)
(* as head and tail pointers over one nextInList field per PCB, and        *)
(* implements this module.                                                 *)
(***************************************************************************)
EXTENDS Integers, Sequences, Functions

CONSTANTS Threads,             \* PCBs, created and still to be created
          Main,                \* the thread main() runs on
          Idle,                \* Scheduler::idleProcess
          Pollers,             \* threads that never block, as main (main.cpp:46-56)
          BootThreads,         \* what main has started before it enables interrupts
          Sems,                \* SCBs
          SemInits,            \* initial values given to sem_open
          MaxSemValue,         \* bound: sem_signal is not called beyond this value
          SleepTimes,          \* arguments of time_sleep
          WindowTicks,         \* bound: timer interrupts between the two ecalls of time_sleep
          DEFAULT_TIME_SLICE,  \* hw.h
          NoRet                \* no sem_wait has just returned

ASSUME ThreadAssumption ==
  /\ Main \in Threads
  /\ Idle \notin Threads
  /\ Pollers \subseteq Threads
  /\ BootThreads \in Seq(Threads \ {Main})
  /\ IsInjective(BootThreads)
  /\ DEFAULT_TIME_SLICE \in Nat \ {0}

ASSUME SemAssumption ==
  /\ MaxSemValue \in Nat
  /\ SemInits \subseteq 0..MaxSemValue
  /\ NoRet \notin Int

\* One tick may fall into the handler of the first ecall of time_sleep.  A sleep
\* is longer than the number of ticks that can fall into the gap
\* between the ecall that enters the sleeping list and the ecall that gives
\* the processor up (syscall_c.cpp:125-127).  KernelLists drops this.
ASSUME SleepAssumption ==
  /\ WindowTicks \in Nat \ {0}
  /\ SleepTimes \subseteq Nat
  /\ \A t \in SleepTimes : t > WindowTicks

VARIABLES
  running,           \* PCB::running
  ready,             \* Scheduler::head .. Scheduler::tail
  sleeping,          \* SleepingProcesses::head ..
  left,              \* timer interrupts left to each sleeper (0 for the others)
  timeSliceCounter,  \* PCB::timeSliceCounter
  open,              \* semaphores that exist
  semValue,          \* SCB::semValue
  waiting,           \* SCB::head .. SCB::tail
  life,              \* "none", "created" (PCB exists) or "started" (given to the scheduler)
  finished,          \* PCB::finished
  blocked,           \* PCB::blocked
  semDeleted,        \* PCB::semDeleted
  resume,            \* where a thread goes on when it gets the processor
  ssip,              \* SIP.SSIP, the pending timer interrupt, see AfterHandler
  window,            \* threads between the two ecalls of time_sleep
  winTicks,          \* timer interrupts taken by the running thread in its window
  ret                \* what the sem_wait that has just returned gave its caller

sleepVars == <<sleeping, left>>
semVars   == <<open, semValue, waiting>>
vars == <<running, ready, timeSliceCounter, resume, ssip, winTicks, ret,
          sleeping, left, open, semValue, waiting,
          life, finished, blocked, semDeleted, window>>

-----------------------------------------------------------------------------
(* Sequences *)

\* n is the length of the longest prefix of q whose members are all in S.
LongestPrefix(n, q, S) ==
  /\ n \in 0..Len(q)
  /\ \A i \in 1..n : q[i] \in S
  /\ n < Len(q) => q[n + 1] \notin S

FirstN(q, n) == SubSeq(q, 1, n)

\* Mutant: the list is cut one element too early.
AfterN_KeepsLast(q, n) == SubSeq(q, IF n = 0 THEN 1 ELSE n, Len(q))

\* Mutant: the list is cut one element too late.
AfterN_DropsOne(q, n) == SubSeq(q, n + 2, Len(q))

AfterN(q, n) == SubSeq(q, n + 1, Len(q))

-----------------------------------------------------------------------------
(* Pieces of the handlers *)

\* Mutant: the idle thread keeps the default slice.
TimeSlice_Default(p) == DEFAULT_TIME_SLICE

\* Idle's slice is 1 (main.cpp:35), every other thread has the default.
TimeSlice(p) == IF p = Idle THEN 1 ELSE DEFAULT_TIME_SLICE

SliceUsedUp(c, p) == c >= TimeSlice(p)

\* Mutant: putInFront for put.
Put_InFront(q, p) == <<p>> \o q

\* Scheduler::put.
Put(q, p) == Append(q, p)

\* Scheduler::get: the first ready thread, the idle thread when there is none.
Chosen(q) == IF q = <<>> THEN Idle ELSE Head(q)

\* Mutant: get does not move head.
Rest_Keeps(q) == q

Rest(q)   == IF q = <<>> THEN <<>> ELSE Tail(q)

\* Mutant: block puts the thread at the front.
Block_InFront(q, p) == <<p>> \o q

\* SCB::block.
Block(q, p) == Append(q, p)

\* SCB::wait blocks when the decremented value is v, signal releases when the
\* incremented value is v.
MustBlock(v) == v < 0

\* Mutant: < for <=.
MustRelease_Strict(v) == v < 0

MustRelease(v) == v <= 0

\* Mutant: a sleeper goes to the front of the list.
EndBefore_Nobody(t) == {}

\* SleepingProcesses: who is passed by a thread that goes to sleep for t, and
\* whose time ends with the next timer interrupt.
EndBefore(t) == {p \in Threads : left[p] < t}
EndNow       == {p \in Threads : left[p] = 1}

\* Mutant: wakeUp does not count.
LeftAfterTick_Same(p) == left[p]

\* wakeUp takes one interrupt off the time of every sleeper.
LeftAfterTick(p) == IF p \in Range(sleeping) THEN left[p] - 1 ELSE left[p]

\* Mutant: wait does not look at semDeleted.
WaitResult_Zero(p, deleted) == 0

\* What SCB::wait returns to the thread that leaves it.
WaitResult(p, deleted) == IF p \in deleted THEN -2 ELSE 0

\* Mutant: dispatch looks only at finished.
GoesBack_Blocked(p, fin, blk) == p \notin fin

\* Mutant: dispatch looks only at blocked.
GoesBack_Finished(p, fin, blk) == p \notin blk

\* Whether dispatch puts the thread that gives the processor up back.
GoesBack(p, fin, blk) == p \notin fin /\ p \notin blk

\* A tick is taken at once by a thread and is "raised" only while it waits for
\* the handler it fell into; when a handler returns with SSIP still set, the
\* interrupt comes before the next instruction and is "due".
AfterHandler(sip) == IF sip = "clear" THEN "clear" ELSE "due"

\* PCB::dispatch, called by the running thread in a handler it will go on
\* with as k, when q is the ready list and fin and blk the two flags.  The
\* thread switched to finishes its own handler: a timer handler clears SSIP,
\* SCB::wait looks at semDeleted, the others have nothing left to do.
Dispatch(k, q, fin, blk) ==
  LET q1   == IF GoesBack(running, fin, blk) THEN Put(q, running) ELSE q
      new  == Chosen(q1)
      from == IF new = running THEN k ELSE resume[new]
  IN /\ running' = new
     /\ ready' = Rest(q1)
     /\ resume' = [resume EXCEPT ![running] = k, ![new] = "running"]
     /\ timeSliceCounter' = 0
     /\ ssip' = IF from = "timer" THEN "clear" ELSE AfterHandler(ssip)
     /\ ret' = IF from = "wait" THEN WaitResult(new, semDeleted) ELSE NoRet
     /\ winTicks' = 0

\* A handler that returns to the thread it interrupted, with q as ready list.
Return(q) ==
  /\ ready' = q
  /\ ssip' = AfterHandler(ssip)
  /\ ret' = NoRet
  /\ UNCHANGED <<running, timeSliceCounter, resume, winTicks>>

\* The running thread may make a system call when no interrupt is due; inside
\* time_sleep it makes only the thread_dispatch that follows.
Caller == running \in Threads \ window /\ ssip # "due"
Client == Caller /\ running \notin Pollers

-----------------------------------------------------------------------------
(* Boot: the state in which main enables interrupts (main.cpp:44). *)

Init ==
  /\ running = Main
  /\ ready = BootThreads
  /\ timeSliceCounter = 0
  /\ resume = [p \in Threads \cup {Idle} |-> IF p = Main THEN "running" ELSE "first"]
  /\ ssip \in {"clear", "due"}
  /\ winTicks = 0
  /\ ret = NoRet
  /\ sleeping = <<>>
  /\ left = [p \in Threads |-> 0]
  /\ open = {}
  /\ semValue = [s \in Sems |-> 0]
  /\ waiting = [s \in Sems |-> <<>>]
  /\ life = [p \in Threads |->
               IF p = Main \/ p \in Range(BootThreads) THEN "started" ELSE "none"]
  /\ finished = {Idle}
  /\ blocked = {}
  /\ semDeleted = {}
  /\ window = {}

-----------------------------------------------------------------------------
(* Interrupts *)

\* The machine-mode timer raises the supervisor software interrupt.
Tick ==
  /\ ssip = "clear"
  /\ ssip' = "raised"
  /\ UNCHANGED <<running, ready, timeSliceCounter, resume, winTicks, ret,
                 sleepVars, semVars, life, finished, blocked, semDeleted, window>>

\* The timer branch of interruptHandler: SleepingProcesses::wakeUp, then a
\* dispatch when the slice is used up.  SSIP is cleared last, by the handler
\* that returns.
TimerInterrupt ==
  /\ ssip # "clear"
  /\ running \in window => winTicks < WindowTicks
  /\ \E n \in 0..Len(sleeping) :
       LET woken == FirstN(sleeping, n)
           blk   == blocked \ Range(woken)
       IN /\ LongestPrefix(n, sleeping, EndNow)
          /\ sleeping' = AfterN(sleeping, n)
          /\ left' = [p \in Threads |-> LeftAfterTick(p)]
          /\ blocked' = blk
          /\ IF SliceUsedUp(timeSliceCounter + 1, running)
             THEN Dispatch("timer", ready \o woken, finished, blk)
             ELSE /\ timeSliceCounter' = timeSliceCounter + 1
                  /\ ready' = ready \o woken
                  /\ ssip' = "clear"
                  /\ ret' = NoRet
                  /\ winTicks' = IF running \in window THEN winTicks + 1 ELSE 0
                  /\ UNCHANGED <<running, resume>>
  /\ UNCHANGED <<semVars, life, finished, semDeleted, window>>

-----------------------------------------------------------------------------
(* System calls *)

ThreadDispatch ==
  /\ running \in Threads
  /\ ssip # "due"
  /\ Dispatch("syscall", ready, finished, blocked)
  /\ window' = window \ {running}
  /\ UNCHANGED <<sleepVars, semVars, life, finished, blocked, semDeleted>>

ThreadExit ==
  /\ Client
  /\ finished' = finished \cup {running}
  /\ Dispatch("syscall", ready, finished', blocked)
  /\ UNCHANGED <<sleepVars, semVars, life, blocked, semDeleted, window>>

\* thread_create_only: a PCB, its stack and its registers; not scheduled yet.
ThreadCreate(p) ==
  /\ Caller
  /\ life[p] = "none"
  /\ life' = [life EXCEPT ![p] = "created"]
  /\ Return(ready)
  /\ UNCHANGED <<sleepVars, semVars, finished, blocked, semDeleted, window>>

\* The second half of thread_create, or Thread::start: Scheduler::put.
ThreadStart(p) ==
  /\ Caller
  /\ life[p] = "created"
  /\ life' = [life EXCEPT ![p] = "started"]
  /\ Return(Put(ready, p))
  /\ UNCHANGED <<sleepVars, semVars, finished, blocked, semDeleted, window>>

SemOpen(s, v) ==
  /\ Client
  /\ s \notin open
  /\ open' = open \cup {s}
  /\ semValue' = [semValue EXCEPT ![s] = v]
  /\ Return(ready)
  /\ UNCHANGED <<sleepVars, waiting, life, finished, blocked, semDeleted, window>>

SemWait(s) ==
  /\ Client
  /\ s \in open
  /\ semValue' = [semValue EXCEPT ![s] = @ - 1]
  /\ IF MustBlock(semValue[s] - 1)
     THEN /\ waiting' = [waiting EXCEPT ![s] = Block(@, running)]
          /\ blocked' = blocked \cup {running}
          /\ Dispatch("wait", ready, finished, blocked')
     ELSE /\ ret' = WaitResult(running, semDeleted)
          /\ ssip' = AfterHandler(ssip)
          /\ UNCHANGED <<running, ready, timeSliceCounter, resume, winTicks,
                         waiting, blocked>>
  /\ UNCHANGED <<sleepVars, open, life, finished, semDeleted, window>>

SemSignal(s) ==
  /\ Client
  /\ s \in open
  /\ semValue[s] < MaxSemValue
  /\ semValue' = [semValue EXCEPT ![s] = @ + 1]
  /\ IF MustRelease(semValue[s] + 1) /\ waiting[s] # <<>>
     THEN /\ waiting' = [waiting EXCEPT ![s] = Tail(@)]
          /\ blocked' = blocked \ {Head(waiting[s])}
          /\ Return(Put(ready, Head(waiting[s])))
     ELSE /\ Return(ready)
          /\ UNCHANGED <<waiting, blocked>>
  /\ UNCHANGED <<sleepVars, open, life, finished, semDeleted, window>>

\* SCB::signalClosing, then the SCB is deleted.
SemClose(s) ==
  /\ Client
  /\ s \in open
  /\ open' = open \ {s}
  /\ semDeleted' = semDeleted \cup Range(waiting[s])
  /\ blocked' = blocked \ Range(waiting[s])
  /\ Return(ready \o waiting[s])
  /\ waiting' = [waiting EXCEPT ![s] = <<>>]
  /\ semValue' = [semValue EXCEPT ![s] = 0]
  /\ UNCHANGED <<sleepVars, life, finished, window>>

\* The first ecall of time_sleep: SleepingProcesses::putToSleep, behind the
\* sleepers that have less time left.  The caller goes on running.
TimeSleep(t) ==
  /\ Client
  /\ \E n \in 0..Len(sleeping) :
       /\ LongestPrefix(n, sleeping, EndBefore(t))
       /\ sleeping' = FirstN(sleeping, n) \o <<running>> \o AfterN(sleeping, n)
  /\ left' = [left EXCEPT ![running] = t]
  /\ blocked' = blocked \cup {running}
  /\ window' = window \cup {running}
  /\ winTicks' = 0
  /\ ret' = NoRet
  /\ ssip' = AfterHandler(ssip)
  /\ UNCHANGED <<running, ready, timeSliceCounter, resume,
                 semVars, life, finished, semDeleted>>

-----------------------------------------------------------------------------

Interrupts == Tick \/ TimerInterrupt

Syscalls ==
  \/ ThreadDispatch
  \/ ThreadExit
  \/ \E p \in Threads : ThreadCreate(p) \/ ThreadStart(p)
  \/ \E s \in Sems : \/ \E v \in SemInits : SemOpen(s, v)
                     \/ SemWait(s)
                     \/ SemSignal(s)
                     \/ SemClose(s)
  \/ \E t \in SleepTimes : TimeSleep(t)

Next == Interrupts \/ Syscalls

Spec == Init /\ [][Next]_vars

\* The timer keeps ticking, a pending interrupt is taken, and a thread inside
\* time_sleep gets to its second ecall.  No client is obliged to make a call.
Fairness ==
  /\ WF_vars(Tick)
  /\ WF_vars(TimerInterrupt)
  /\ WF_vars(running \in window /\ ThreadDispatch)

FairSpec == Spec /\ Fairness

-----------------------------------------------------------------------------
(* Properties *)

TypeOK ==
  /\ running \in Threads \cup {Idle}
  /\ ready \in Seq(Threads)
  /\ timeSliceCounter \in Nat
  /\ resume \in [Threads \cup {Idle} -> {"first", "running", "syscall", "wait", "timer"}]
  /\ ssip \in {"clear", "raised", "due"}
  /\ winTicks \in 0..WindowTicks
  /\ ret \in {0, -2, NoRet}
  /\ sleeping \in Seq(Threads)
  /\ left \in [Threads -> Int]
  /\ open \subseteq Sems
  /\ semValue \in [Sems -> Int]
  /\ waiting \in [Sems -> Seq(Threads)]
  /\ life \in [Threads -> {"none", "created", "started"}]
  /\ finished \subseteq Threads \cup {Idle}
  /\ blocked \subseteq Threads
  /\ semDeleted \subseteq Threads
  /\ window \subseteq Threads

\* The places where a started thread can be.
InReady(p)    == p \in Range(ready)
InSleeping(p) == p \in Range(sleeping)
Waits(p, s)   == p \in Range(waiting[s])
InSem(p)      == \E s \in Sems : Waits(p, s)

\* A PCB has one nextInList field for three kinds of list (PCB.h:87-90), so
\* a thread may be at one place of one list at a time.
OneList ==
  /\ IsInjective(ready) /\ IsInjective(sleeping)
  /\ \A s \in Sems : IsInjective(waiting[s])
  /\ \A p \in Threads :
       /\ InReady(p) => ~InSleeping(p) /\ ~InSem(p)
       /\ InSleeping(p) => ~InSem(p)
       /\ \A s1, s2 \in Sems : Waits(p, s1) /\ Waits(p, s2) => s1 = s2

\* The processor is never given to a thread that is still on a ready or on a
\* semaphore list; it is on the sleeping list only between the two ecalls of
\* time_sleep (PCB::dispatch, syscall_c.cpp:120-130).
RunningIsOnNoList ==
  /\ ~InReady(running)
  /\ ~InSem(running)
  /\ InSleeping(running) => running \in window

\* A thread that was started and has not exited runs or is on a list: dispatch,
\* wake-up, signal and close lose nobody; and a thread that has exited is
\* on no list.
NoThreadLost ==
  \A p \in Threads :
    (life[p] = "started" /\ p \notin finished)
      <=> (p = running \/ InReady(p) \/ InSleeping(p) \/ InSem(p))

\* PCB::blocked, which decides whether dispatch puts a thread back, says
\* exactly that the thread is on the sleeping list or on a semaphore's.
BlockedIsExact == \A p \in Threads : p \in blocked <=> InSleeping(p) \/ InSem(p)

\* A negative value counts the waiting threads, and there are none otherwise
\* (SCB::wait, signal, signalClosing).
SemValueCountsWaiters ==
  \A s \in Sems : Len(waiting[s]) = IF semValue[s] < 0 THEN -semValue[s] ELSE 0

\* The sleeping list is sorted, so that wakeUp may stop at the first thread
\* whose time is not up, and nobody on it is overdue.
SleepersInOrder ==
  /\ \A i, j \in 1..Len(sleeping) : i < j => left[sleeping[i]] <= left[sleeping[j]]
  /\ \A i \in 1..Len(sleeping) : left[sleeping[i]] > 0

\* The idle thread has the processor only while nobody else could have it.
IdleOnlyWhenNoneReady == running = Idle => ready = <<>>

\* A thread never runs with its slice used up: whoever gets the processor
\* starts with a counter that is below its slice (kernel.cpp:162-169).
SliceNotExceeded == timeSliceCounter < TimeSlice(running)

\* main() polls (main.cpp:50-56), so it always has the processor or waits for
\* it, and the idle thread never runs at all.
PollingMainKeepsIdleOut ==
  Main \in Pollers => running # Idle /\ (Main = running \/ InReady(Main))

\* Every ready thread gets the processor (round robin).
ReadyRuns == \A p \in Threads : InReady(p) ~> running = p

\* Every sleeper leaves the sleeping list.
SleeperWakes == \A p \in Threads : InSleeping(p) ~> ~InSleeping(p)

\* A waiting thread is released when its semaphore is signalled again and again.
WaiterServed ==
  \A s \in Sems : []<><<SemSignal(s)>>_vars =>
    \A p \in Threads : Waits(p, s) ~> ~Waits(p, s)
=============================================================================
