---------------------------- MODULE KernelHistory ----------------------------
(***************************************************************************)
(* Kernel with two history variables, which no action of Kernel reads:     *)
(* which threads were released by the closing of their semaphore, and how  *)
(* many timer ticks each sleeper still has to see.                         *)
(***************************************************************************)
EXTENDS Kernel

VARIABLES
  viaClose,   \* threads whose sem_wait was ended by sem_close and has not been followed up
  ticksDue    \* hardware ticks still to come before a sleeper's time is up

hvars == <<vars, viaClose, ticksDue>>

HInit ==
  /\ Init
  /\ viaClose = {}
  /\ ticksDue = [p \in Threads |-> 0]

\* Closing marks those it releases.  The mark is kept while ret is the result of the
\* sem_wait that was ended, which is until the next step but a tick.
RecordClose ==
  LET closed   == open \ open'
      answered == IF ret # NoRet /\ ssip' # "raised" THEN {running} ELSE {}
  IN viaClose' = (viaClose \ answered) \cup UNION {Range(waiting[s]) : s \in closed}

\* A tick that is pending when time_sleep is called is the first of its period.
RecordTicks ==
  LET entered(p) == p \in Range(sleeping') /\ p \notin Range(sleeping)
      ticked     == ssip = "clear" /\ ssip' = "raised"
  IN ticksDue' = [p \in Threads |->
       CASE entered(p)                   -> left'[p] - (IF ssip = "clear" THEN 0 ELSE 1)
         [] ticked /\ ticksDue[p] > 0    -> ticksDue[p] - 1
         [] OTHER                        -> ticksDue[p]]

HNext == Next /\ RecordClose /\ RecordTicks

HSpec == HInit /\ [][HNext]_hvars

\* Without the ticks, for what does not ask about them.
CloseSpec == HInit /\ [][Next /\ RecordClose /\ UNCHANGED ticksDue]_hvars

FairCloseSpec == CloseSpec /\ Fairness

-----------------------------------------------------------------------------
(* Properties *)

\* A sem_wait that was ended by the closing of its semaphore returns an error:
\* no waiter takes the closing for a signal (SCB.h:14, syscall_c.h:58-59).
CloseIsReported == ret = 0 => running \notin viaClose

\* And only such a sem_wait does.
OnlyCloseIsReported == ret = -2 => running \in viaClose

\* A thread is not released from the sleeping list before as many timer ticks
\* as it asked for have come (syscall_c.h:74-75, PCB.h:98).
NoEarlyWakeUp == \A p \in Threads : ~InSleeping(p) => ticksDue[p] = 0
=============================================================================
