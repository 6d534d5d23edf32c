----------------------------- MODULE KernelLists -----------------------------
(***************************************************************************)
(* Kernel with its lists as the code keeps them: the ready list, the       *)
(* sleeping list and the queue of every semaphore are singly linked        *)
(* through the one nextInList field of a PCB, with a head and (except for  *)
(* the sleepers) a tail pointer, and a sleeper's timeSleeping counts from  *)
(* the end of the sleeper in front of it.  Next implements Kernel!Next     *)
(* when the lists are read off the pointers.                               *)
(***************************************************************************)
EXTENDS Integers, Sequences, FiniteSets

CONSTANTS Threads, Main, Idle, Pollers, BootThreads, Sems, SemInits, MaxSemValue,
          SleepTimes, WindowTicks, DEFAULT_TIME_SLICE, NoRet,
          NULL   \* nullptr

VARIABLES
  lists,     \* the pointers, see ListsInit
  running, timeSliceCounter, open, semValue, life, finished, blocked,
  semDeleted, resume, ssip, window, winTicks, ret

vars == <<lists, running, timeSliceCounter, open, semValue, life, finished, blocked,
          semDeleted, resume, ssip, window, winTicks, ret>>

-----------------------------------------------------------------------------
(* Reading the lists off the pointers *)

\* The list that starts at p; one element too many shows that it has a cycle.
ListFrom(p) ==
  LET walk[fuel \in 0..Cardinality(Threads) + 1, q \in Threads \cup {NULL}] ==
        IF q = NULL \/ fuel = 0 THEN <<>>
        ELSE <<q>> \o walk[fuel - 1, lists.next[q]]
  IN walk[Cardinality(Threads) + 1, p]

ReadyList    == ListFrom(lists.readyHead)
SleepingList == ListFrom(lists.sleepHead)
SemQueue     == [s \in Sems |-> ListFrom(lists.semHead[s])]

\* A sleeper's time is the sum of timeSleeping up to and including its own.
TimeLeft ==
  LET q   == SleepingList
      sum[i \in 0..Len(q)] == IF i = 0 THEN 0 ELSE sum[i - 1] + lists.time[q[i]]
  IN [p \in Threads |->
        IF \E i \in 1..Len(q) : q[i] = p THEN sum[CHOOSE i \in 1..Len(q) : q[i] = p] ELSE 0]

K == INSTANCE Kernel WITH ready <- ReadyList, sleeping <- SleepingList,
                          waiting <- SemQueue, left <- TimeLeft

-----------------------------------------------------------------------------
(* Scheduler *)

SchedulerPut(l, p) ==
  LET l1 == [l EXCEPT !.next[p] = NULL]
  IN IF l.readyTail = NULL
     THEN [l1 EXCEPT !.readyHead = p, !.readyTail = p]
     ELSE [l1 EXCEPT !.next[l.readyTail] = p, !.readyTail = p]

Got(l) == IF l.readyHead = NULL THEN Idle ELSE l.readyHead

\* Mutant: get leaves the tail on the last thread it takes.
SchedulerGet_StaleTail(l) ==
  IF l.readyHead = NULL THEN l
  ELSE [l EXCEPT !.readyHead = l.next[l.readyHead]]

SchedulerGet(l) ==
  IF l.readyHead = NULL THEN l
  ELSE LET second == l.next[l.readyHead]
       IN [l EXCEPT !.readyHead = second,
                    !.readyTail = IF @ = l.readyHead THEN second ELSE @]

-----------------------------------------------------------------------------
(* SleepingProcesses *)

\* Where putToSleep stops: behind prev and before curr, with time left to go.
RECURSIVE SleepPlace(_, _, _, _)
SleepPlace(l, prev, curr, time) ==
  IF curr # NULL /\ l.time[curr] < time
  THEN SleepPlace(l, curr, l.next[curr], time - l.time[curr])
  ELSE [prev |-> prev, curr |-> curr, time |-> time]

PutToSleep(l, p, t) ==
  LET l1 == [l EXCEPT !.time[p] = t]
      at == SleepPlace(l1, NULL, l1.sleepHead, t)
      l2 == [l1 EXCEPT !.time[p] = at.time]
      l3 == IF at.prev = NULL
            THEN [l2 EXCEPT !.sleepHead = p, !.next[p] = at.curr]
            ELSE [l2 EXCEPT !.next = [@ EXCEPT ![at.prev] = p, ![p] = at.curr]]
  IN IF at.curr = NULL THEN l3
     ELSE [l3 EXCEPT !.time[at.curr] = @ - l3.time[p]]

RECURSIVE WakeFrom(_, _, _)
WakeFrom(l, curr, woken) ==
  IF curr # NULL /\ l.time[curr] = 0
  THEN WakeFrom(SchedulerPut(l, curr), l.next[curr], woken \cup {curr})
  ELSE [l |-> [l EXCEPT !.sleepHead = curr], woken |-> woken]

\* Only the first sleeper counts down; it takes all that end with it along.
WakeUp(l) ==
  IF l.sleepHead = NULL THEN [l |-> l, woken |-> {}]
  ELSE WakeFrom([l EXCEPT !.time[l.sleepHead] = @ - 1], l.sleepHead, {})

-----------------------------------------------------------------------------
(* SCB *)

SemBlock(l, s, p) ==
  LET l1 == [l EXCEPT !.next[p] = NULL]
  IN IF l.semTail[s] = NULL
     THEN [l1 EXCEPT !.semHead[s] = p, !.semTail[s] = p]
     ELSE [l1 EXCEPT !.next[l.semTail[s]] = p, !.semTail[s] = p]

SemUnblock(l, s) ==
  LET first  == l.semHead[s]
      second == l.next[first]
  IN [l EXCEPT !.semHead[s] = second,
               !.semTail[s] = IF @ = first THEN second ELSE @,
               !.next[first] = NULL]

\* SCB::signalClosing: puts every waiting thread into the scheduler.
RECURSIVE CloseFrom(_, _, _, _)
CloseFrom(l, s, curr, released) ==
  IF curr # NULL
  THEN CloseFrom(SchedulerPut(l, curr), s, l.next[curr], released \cup {curr})
  ELSE [l |-> [l EXCEPT !.semHead[s] = NULL, !.semTail[s] = NULL], released |-> released]

-----------------------------------------------------------------------------
(* The handlers; see Kernel for what they do. *)

Dispatch(k, l, fin, blk) ==
  LET l1   == IF K!GoesBack(running, fin, blk) THEN SchedulerPut(l, running) ELSE l
      new  == Got(l1)
      from == IF new = running THEN k ELSE resume[new]
  IN /\ running' = new
     /\ lists' = SchedulerGet(l1)
     /\ resume' = [resume EXCEPT ![running] = k, ![new] = "running"]
     /\ timeSliceCounter' = 0
     /\ ssip' = IF from = "timer" THEN "clear" ELSE K!AfterHandler(ssip)
     /\ ret' = IF from = "wait" THEN K!WaitResult(new, semDeleted) ELSE NoRet
     /\ winTicks' = 0

Return(l) ==
  /\ lists' = l
  /\ ssip' = K!AfterHandler(ssip)
  /\ ret' = NoRet
  /\ UNCHANGED <<running, timeSliceCounter, resume, winTicks>>

Caller == running \in Threads \ window /\ ssip # "due"
Client == Caller /\ running \notin Pollers

BootLists ==
  LET put[i \in 0..Len(BootThreads)] ==
        IF i = 0
        THEN [next |-> [p \in Threads |-> NULL], time |-> [p \in Threads |-> 0],
              readyHead |-> NULL, readyTail |-> NULL, sleepHead |-> NULL,
              semHead |-> [s \in Sems |-> NULL], semTail |-> [s \in Sems |-> NULL]]
        ELSE SchedulerPut(put[i - 1], BootThreads[i])
  IN put[Len(BootThreads)]

Init ==
  /\ lists = BootLists
  /\ running = Main
  /\ timeSliceCounter = 0
  /\ resume = [p \in Threads \cup {Idle} |-> IF p = Main THEN "running" ELSE "first"]
  /\ ssip \in {"clear", "due"}
  /\ winTicks = 0
  /\ ret = NoRet
  /\ open = {}
  /\ semValue = [s \in Sems |-> 0]
  /\ life = [p \in Threads |->
               IF p = Main \/ \E i \in 1..Len(BootThreads) : BootThreads[i] = p
               THEN "started" ELSE "none"]
  /\ finished = {Idle}
  /\ blocked = {}
  /\ semDeleted = {}
  /\ window = {}

Tick ==
  /\ ssip = "clear"
  /\ ssip' = "raised"
  /\ UNCHANGED <<lists, running, timeSliceCounter, open, semValue, life, finished,
                 blocked, semDeleted, resume, window, winTicks, ret>>

TimerInterrupt ==
  /\ ssip # "clear"
  /\ running \in window => winTicks < WindowTicks
  /\ LET wake == WakeUp(lists)
     IN /\ blocked' = blocked \ wake.woken
        /\ IF K!SliceUsedUp(timeSliceCounter + 1, running)
           THEN Dispatch("timer", wake.l, finished, blocked')
           ELSE /\ timeSliceCounter' = timeSliceCounter + 1
                /\ lists' = wake.l
                /\ ssip' = "clear"
                /\ ret' = NoRet
                /\ winTicks' = IF running \in window THEN winTicks + 1 ELSE 0
                /\ UNCHANGED <<running, resume>>
  /\ UNCHANGED <<open, semValue, life, finished, semDeleted, window>>

ThreadDispatch ==
  /\ running \in Threads
  /\ ssip # "due"
  /\ Dispatch("syscall", lists, finished, blocked)
  /\ window' = window \ {running}
  /\ UNCHANGED <<open, semValue, life, finished, blocked, semDeleted>>

ThreadExit ==
  /\ Client
  /\ finished' = finished \cup {running}
  /\ Dispatch("syscall", lists, finished', blocked)
  /\ UNCHANGED <<open, semValue, life, blocked, semDeleted, window>>

ThreadCreate(p) ==
  /\ Caller
  /\ life[p] = "none"
  /\ life' = [life EXCEPT ![p] = "created"]
  /\ Return(lists)
  /\ UNCHANGED <<open, semValue, finished, blocked, semDeleted, window>>

ThreadStart(p) ==
  /\ Caller
  /\ life[p] = "created"
  /\ life' = [life EXCEPT ![p] = "started"]
  /\ Return(SchedulerPut(lists, p))
  /\ UNCHANGED <<open, semValue, finished, blocked, semDeleted, window>>

SemOpen(s, v) ==
  /\ Client
  /\ s \notin open
  /\ open' = open \cup {s}
  /\ semValue' = [semValue EXCEPT ![s] = v]
  /\ Return([lists EXCEPT !.semHead[s] = NULL, !.semTail[s] = NULL])
  /\ UNCHANGED <<life, finished, blocked, semDeleted, window>>

SemWait(s) ==
  /\ Client
  /\ s \in open
  /\ semValue' = [semValue EXCEPT ![s] = @ - 1]
  /\ IF K!MustBlock(semValue'[s])
     THEN /\ blocked' = blocked \cup {running}
          /\ Dispatch("wait", SemBlock(lists, s, running), finished, blocked')
     ELSE /\ ret' = K!WaitResult(running, semDeleted)
          /\ ssip' = K!AfterHandler(ssip)
          /\ UNCHANGED <<lists, running, timeSliceCounter, resume, winTicks, blocked>>
  /\ UNCHANGED <<open, life, finished, semDeleted, window>>

SemSignal(s) ==
  /\ Client
  /\ s \in open
  /\ semValue[s] < MaxSemValue
  /\ semValue' = [semValue EXCEPT ![s] = @ + 1]
  /\ IF K!MustRelease(semValue'[s]) /\ lists.semHead[s] # NULL
     THEN /\ blocked' = blocked \ {lists.semHead[s]}
          /\ Return(SchedulerPut(SemUnblock(lists, s), lists.semHead[s]))
     ELSE /\ Return(lists)
          /\ UNCHANGED blocked
  /\ UNCHANGED <<open, life, finished, semDeleted, window>>

SemClose(s) ==
  /\ Client
  /\ s \in open
  /\ LET close == CloseFrom(lists, s, lists.semHead[s], {})
     IN /\ semDeleted' = semDeleted \cup close.released
        /\ blocked' = blocked \ close.released
        /\ Return(close.l)
  /\ open' = open \ {s}
  /\ semValue' = [semValue EXCEPT ![s] = 0]
  /\ UNCHANGED <<life, finished, window>>

TimeSleep(t) ==
  /\ Client
  /\ lists' = PutToSleep(lists, running, t)
  /\ blocked' = blocked \cup {running}
  /\ window' = window \cup {running}
  /\ winTicks' = 0
  /\ ret' = NoRet
  /\ ssip' = K!AfterHandler(ssip)
  /\ UNCHANGED <<running, timeSliceCounter, resume,
                 open, semValue, life, finished, semDeleted>>

Next ==
  \/ Tick
  \/ TimerInterrupt
  \/ ThreadDispatch
  \/ ThreadExit
  \/ \E p \in Threads : ThreadCreate(p) \/ ThreadStart(p)
  \/ \E s \in Sems : \/ \E v \in SemInits : SemOpen(s, v)
                     \/ SemWait(s)
                     \/ SemSignal(s)
                     \/ SemClose(s)
  \/ \E t \in SleepTimes : TimeSleep(t)

Spec == Init /\ [][Next]_vars

-----------------------------------------------------------------------------
(* Properties *)

\* The linked lists implement the sequences of Kernel: no operation on one
\* list disturbs another one through the nextInList field they share, the
\* tail pointers stay on the last element, and the relative times add up.
ImplementsKernel == K!Spec

\* A thread that was started and has not exited runs or can be reached from the
\* head of a list: who is woken is put into the scheduler (SleepingProcesses.h:46-47,
\* Scheduler.h:15-16).
NoThreadLost == K!NoThreadLost
=============================================================================
