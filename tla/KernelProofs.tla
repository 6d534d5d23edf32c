---------------------------- MODULE KernelProofs ----------------------------
(***************************************************************************)
(* Theorems about Kernel for every number of threads and semaphores, every *)
(* slice and every sleep that satisfies the assumptions of Kernel.         *)
(*                                                                         *)
(*   TypeInv   types, and Idle counts as finished so that dispatch never   *)
(*             puts it into the ready list                                 *)
(*   ListInv   who is on which list; its parts are inductive only together *)
(*   SliceInv, SemInv, PollInv   the time slices, the semaphore values and *)
(*             the polling main thread                                     *)
(*   CloseInv  who was released by the closing of a semaphore              *)
(***************************************************************************)
EXTENDS KernelHistory, TLAPS

-----------------------------------------------------------------------------
(* Sequences as lists of threads *)


\* Scheduler::put keeps the members, adds p, and repeats nobody if p was not there.
LEMMA PutProperties ==
  ASSUME NEW S, NEW q \in Seq(S), NEW p \in S
  PROVE  /\ Put(q, p) \in Seq(S)
         /\ Range(Put(q, p)) = Range(q) \cup {p}
         /\ IsInjective(q) /\ p \notin Range(q) => IsInjective(Put(q, p))
<1>1. Put(q, p) \in Seq(S) /\ Len(Put(q, p)) = Len(q) + 1 /\ DOMAIN Put(q,p) = 1..Len(q)+1
  BY DEF Put
<1>2. \A i \in 1..Len(q) : Put(q, p)[i] = q[i]
  BY DEF Put
<1>3. Put(q, p)[Len(q) + 1] = p
  BY DEF Put
<1>4. Range(Put(q, p)) = Range(q) \cup {p}
  BY <1>1, <1>2, <1>3 DEF Range
<1>5. IsInjective(q) /\ p \notin Range(q) => IsInjective(Put(q, p))
  BY <1>1, <1>2, <1>3 DEF Range, IsInjective
<1> QED BY <1>1, <1>4, <1>5

\* Scheduler::get on a list that is not empty takes exactly one member out.
LEMMA RestProperties ==
  ASSUME NEW S, NEW q \in Seq(S), q # <<>>
  PROVE  /\ Rest(q) \in Seq(S)
         /\ Chosen(q) \in S
         /\ Range(q) = Range(Rest(q)) \cup {Chosen(q)}
         /\ IsInjective(q) => IsInjective(Rest(q)) /\ Chosen(q) \notin Range(Rest(q))
<1>1. Rest(q) \in Seq(S) /\ Chosen(q) \in S /\ Len(Rest(q)) = Len(q) - 1 /\ Len(q) >= 1
  BY DEF Rest, Chosen
<1>2. \A i \in 1..Len(q)-1 : Rest(q)[i] = q[i + 1]
  BY DEF Rest
<1>3. Chosen(q) = q[1]
  BY DEF Chosen
<1>4. Range(q) = Range(Rest(q)) \cup {Chosen(q)}
  <2>1. ASSUME NEW x \in Range(q) PROVE x \in Range(Rest(q)) \cup {Chosen(q)}
    <3>1. PICK i \in 1..Len(q) : x = q[i]
      BY DEF Range
    <3>2. CASE i = 1 BY <3>1, <3>2, <1>3
    <3>3. CASE i # 1
      <4>1. i - 1 \in 1..Len(q) - 1 BY <3>3
      <4>2. Rest(q)[i - 1] = x BY <4>1, <1>2, <3>1
      <4> QED BY <4>1, <4>2, <1>1 DEF Range
    <3> QED BY <3>2, <3>3
  <2>2. Range(Rest(q)) \subseteq Range(q)
    BY <1>1, <1>2 DEF Range
  <2> QED BY <2>1, <2>2, <1>1, <1>3 DEF Range
<1>5. IsInjective(q) => IsInjective(Rest(q)) /\ Chosen(q) \notin Range(Rest(q))
  <2> SUFFICES ASSUME \A i, j \in 1..Len(q) : q[i] = q[j] => i = j
               PROVE  IsInjective(Rest(q)) /\ Chosen(q) \notin Range(Rest(q))
    BY DEF IsInjective
  <2>1. DOMAIN Rest(q) = 1..Len(q) - 1
    BY <1>1
  <2>2. IsInjective(Rest(q))
    <3> SUFFICES ASSUME NEW i \in 1..Len(q) - 1, NEW j \in 1..Len(q) - 1,
                        Rest(q)[i] = Rest(q)[j]
                 PROVE  i = j
      BY <2>1 DEF IsInjective
    <3>1. q[i + 1] = q[j + 1] BY <1>2
    <3> QED BY <3>1
  <2>3. Chosen(q) \notin Range(Rest(q))
    <3> SUFFICES ASSUME NEW i \in 1..Len(q) - 1, q[1] = Rest(q)[i] PROVE FALSE
      BY <2>1, <1>3 DEF Range
    <3>1. q[1] = q[i + 1] BY <1>2
    <3> QED BY <3>1, <1>1
  <2> QED BY <2>2, <2>3
<1> QED BY <1>1, <1>4, <1>5

\* Two lists without a common member, one behind the other.
LEMMA ConcatProperties ==
  ASSUME NEW S, NEW q \in Seq(S), NEW r \in Seq(S)
  PROVE  /\ q \o r \in Seq(S)
         /\ Range(q \o r) = Range(q) \cup Range(r)
         /\ IsInjective(q) /\ IsInjective(r) /\ Range(q) \cap Range(r) = {} => IsInjective(q \o r)
<1>1. q \o r \in Seq(S) /\ Len(q \o r) = Len(q) + Len(r)
  OBVIOUS
<1>2. \A i \in 1..Len(q) : (q \o r)[i] = q[i]
  OBVIOUS
<1>3. \A i \in 1..Len(r) : (q \o r)[Len(q) + i] = r[i]
  OBVIOUS
<1>4. \A i \in 1..Len(q \o r) : i \in 1..Len(q) \/ (i - Len(q) \in 1..Len(r) /\ (q \o r)[i] = r[i - Len(q)])
  BY <1>1
<1>5. Range(q \o r) = Range(q) \cup Range(r)
  <2>1. Range(q \o r) \subseteq Range(q) \cup Range(r)
    BY <1>1, <1>2, <1>4 DEF Range
  <2>2. Range(q) \subseteq Range(q \o r)
    BY <1>1, <1>2 DEF Range
  <2>3. Range(r) \subseteq Range(q \o r)
    <3> SUFFICES ASSUME NEW i \in 1..Len(r) PROVE r[i] \in Range(q \o r)
      BY DEF Range
    <3>1. Len(q) + i \in DOMAIN (q \o r) BY <1>1
    <3> QED BY <3>1, <1>3 DEF Range
  <2> QED BY <2>1, <2>2, <2>3
<1>6. IsInjective(q) /\ IsInjective(r) /\ Range(q) \cap Range(r) = {} => IsInjective(q \o r)
  <2> SUFFICES ASSUME IsInjective(q), IsInjective(r), Range(q) \cap Range(r) = {},
                      NEW i \in 1..Len(q \o r), NEW j \in 1..Len(q \o r),
                      (q \o r)[i] = (q \o r)[j]
               PROVE  i = j
    BY <1>1 DEF IsInjective
  <2>1. CASE i \in 1..Len(q) /\ j \in 1..Len(q)
    BY <1>2, <2>1 DEF IsInjective
  <2>2. CASE i \in 1..Len(q) /\ j \notin 1..Len(q)
    <3>1. q[i] \in Range(q) /\ (q \o r)[i] = q[i] BY <1>2, <2>2 DEF Range
    <3>2. j - Len(q) \in 1..Len(r) /\ (q \o r)[j] = r[j - Len(q)] BY <1>4, <2>2
    <3>3. r[j - Len(q)] \in Range(r) BY <3>2 DEF Range
    <3> QED BY <3>1, <3>2, <3>3
  <2>3. CASE i \notin 1..Len(q) /\ j \in 1..Len(q)
    <3>1. q[j] \in Range(q) /\ (q \o r)[j] = q[j] BY <1>2, <2>3 DEF Range
    <3>2. i - Len(q) \in 1..Len(r) /\ (q \o r)[i] = r[i - Len(q)] BY <1>4, <2>3
    <3>3. r[i - Len(q)] \in Range(r) BY <3>2 DEF Range
    <3> QED BY <3>1, <3>2, <3>3
  <2>4. CASE i \notin 1..Len(q) /\ j \notin 1..Len(q)
    <3>1. i - Len(q) \in 1..Len(r) /\ j - Len(q) \in 1..Len(r)
          /\ r[i - Len(q)] = r[j - Len(q)]
      BY <1>4, <2>4
    <3>2. i - Len(q) = j - Len(q) BY <3>1 DEF IsInjective
    <3> QED BY <1>1, <3>2
  <2> QED BY <2>1, <2>2, <2>3, <2>4
<1> QED BY <1>1, <1>5, <1>6

\* Cutting a list in two loses nobody and leaves two lists without a common member.
LEMMA CutProperties ==
  ASSUME NEW S, NEW q \in Seq(S), NEW n \in 0..Len(q)
  PROVE  /\ FirstN(q, n) \in Seq(S) /\ AfterN(q, n) \in Seq(S)
         /\ Range(q) = Range(FirstN(q, n)) \cup Range(AfterN(q, n))
         /\ IsInjective(q) => /\ IsInjective(FirstN(q, n)) /\ IsInjective(AfterN(q, n))
                              /\ Range(FirstN(q, n)) \cap Range(AfterN(q, n)) = {}
<1>1. FirstN(q, n) \in Seq(S) /\ Len(FirstN(q, n)) = n
  BY DEF FirstN
<1>2. AfterN(q, n) \in Seq(S) /\ Len(AfterN(q, n)) = Len(q) - n
  BY DEF AfterN
<1>3. \A i \in 1..n : FirstN(q, n)[i] = q[i]
  BY DEF FirstN
<1>4. \A i \in 1..Len(q) - n : AfterN(q, n)[i] = q[n + i]
  <2>1. AfterN(q, n) = [i \in 1..Len(q) - n |-> q[n + i]]
    <3>1. Len(q) + 1 - (n + 1) = Len(q) - n OBVIOUS
    <3>2. \A i \in 1..Len(q) - n : (n + 1) + i - 1 = n + i OBVIOUS
    <3> QED BY <3>1, <3>2 DEF AfterN
  <2> QED BY <2>1
<1>5. \A i \in n+1..Len(q) : i - n \in 1..Len(q) - n /\ AfterN(q, n)[i - n] = q[i]
  BY <1>4
<1>6. Range(q) = Range(FirstN(q, n)) \cup Range(AfterN(q, n))
  <2>1. Range(FirstN(q, n)) \subseteq Range(q)
    BY <1>1, <1>3 DEF Range
  <2>2. Range(AfterN(q, n)) \subseteq Range(q)
    <3>1. ASSUME NEW i \in 1..Len(q) - n PROVE AfterN(q, n)[i] \in Range(q)
      <4>1. n + i \in 1..Len(q) /\ AfterN(q, n)[i] = q[n + i] BY <1>4
      <4> QED BY <4>1 DEF Range
    <3>2. DOMAIN AfterN(q, n) = 1..Len(q) - n BY <1>2
    <3> QED BY <3>1, <3>2 DEF Range
  <2>3. ASSUME NEW i \in 1..Len(q) PROVE q[i] \in Range(FirstN(q, n)) \cup Range(AfterN(q, n))
    <3>1. CASE i <= n BY <3>1, <1>1, <1>3 DEF Range
    <3>2. CASE i > n
      <4>1. i \in n+1..Len(q) BY <3>2
      <4>2. i - n \in DOMAIN AfterN(q, n) BY <4>1, <1>2, <1>5
      <4> QED BY <4>1, <4>2, <1>5 DEF Range
    <3> QED BY <3>1, <3>2
  <2>4. Range(q) \subseteq Range(FirstN(q, n)) \cup Range(AfterN(q, n))
    BY <2>3 DEF Range
  <2> QED BY <2>1, <2>2, <2>4
<1>7. IsInjective(q) => /\ IsInjective(FirstN(q, n)) /\ IsInjective(AfterN(q, n))
                        /\ Range(FirstN(q, n)) \cap Range(AfterN(q, n)) = {}
  <2> SUFFICES ASSUME \A i, j \in 1..Len(q) : q[i] = q[j] => i = j
               PROVE  /\ IsInjective(FirstN(q, n)) /\ IsInjective(AfterN(q, n))
                      /\ Range(FirstN(q, n)) \cap Range(AfterN(q, n)) = {}
    BY DEF IsInjective
  <2>1. DOMAIN FirstN(q, n) = 1..n /\ DOMAIN AfterN(q, n) = 1..Len(q) - n
    BY <1>1, <1>2
  <2>2. IsInjective(FirstN(q, n))
    BY <2>1, <1>3 DEF IsInjective
  <2>3. IsInjective(AfterN(q, n))
    <3> SUFFICES ASSUME NEW i \in 1..Len(q) - n, NEW j \in 1..Len(q) - n,
                        AfterN(q, n)[i] = AfterN(q, n)[j]
                 PROVE  i = j
      BY <2>1 DEF IsInjective
    <3>1. q[n + i] = q[n + j] BY <1>4
    <3> QED BY <3>1
  <2>4. Range(FirstN(q, n)) \cap Range(AfterN(q, n)) = {}
    <3> SUFFICES ASSUME NEW i \in 1..n, NEW j \in 1..Len(q) - n,
                        FirstN(q, n)[i] = AfterN(q, n)[j]
                 PROVE  FALSE
      BY <2>1 DEF Range
    <3>1. q[i] = q[n + j] BY <1>3, <1>4
    <3> QED BY <3>1
  <2> QED BY <2>2, <2>3, <2>4
<1> QED BY <1>1, <1>2, <1>6, <1>7
-----------------------------------------------------------------------------
(* Type correctness *)

TypeInv == TypeOK /\ Idle \in finished

\* What dispatch leaves in the variables it assigns has their types.
DispatchTyped ==
  /\ running' \in Threads \cup {Idle}
  /\ ready' \in Seq(Threads)
  /\ timeSliceCounter' = 0
  /\ resume' \in [Threads \cup {Idle} -> {"first", "running", "syscall", "wait", "timer"}]
  /\ ssip' \in {"clear", "raised", "due"}
  /\ winTicks' = 0
  /\ ret' \in {0, -2, NoRet}

\* PCB::dispatch from any of the handlers respects the types.
LEMMA DispatchTypes ==
  ASSUME TypeInv, NEW k \in {"syscall", "wait", "timer"}, NEW q \in Seq(Threads),
         NEW fin, NEW blk, Idle \in fin, Dispatch(k, q, fin, blk)
  PROVE  DispatchTyped
<1> DEFINE q1 == IF GoesBack(running, fin, blk) THEN Put(q, running) ELSE q
<1>1. q1 \in Seq(Threads)
  BY PutProperties DEF TypeInv, TypeOK, GoesBack
<1>2. running' = Chosen(q1) /\ ready' = Rest(q1)
  BY DEF Dispatch
<1>3. running' \in Threads \cup {Idle} /\ ready' \in Seq(Threads)
  <2>1. CASE q1 = <<>>
    BY <1>2, <2>1 DEF Chosen, Rest
  <2>2. CASE q1 # <<>>
    BY <1>1, <1>2, <2>2, RestProperties
  <2> QED BY <2>1, <2>2
<1>4. resume' = [resume EXCEPT ![running] = k, ![running'] = "running"]
  BY DEF Dispatch
<1>5. resume' \in [Threads \cup {Idle} -> {"first", "running", "syscall", "wait", "timer"}]
  BY <1>3, <1>4 DEF TypeInv, TypeOK
<1>6. ssip' \in {"clear", "raised", "due"}
  BY DEF Dispatch, AfterHandler
<1>7. ret' \in {0, -2, NoRet}
  BY DEF Dispatch, WaitResult
<1>8. timeSliceCounter' = 0 /\ winTicks' = 0
  BY DEF Dispatch
<1> QED BY <1>3, <1>5, <1>6, <1>7, <1>8 DEF DispatchTyped

\* The members of a sequence over S are in S.
LEMMA RangeOfSeq ==
  ASSUME NEW S, NEW q \in Seq(S) PROVE Range(q) \subseteq S
BY DEF Range

\* Init establishes the types.
LEMMA TypeInvInit == Init => TypeInv
<1> SUFFICES ASSUME Init PROVE TypeInv
  OBVIOUS
<1>1. ready \in Seq(Threads)
  BY ThreadAssumption DEF Init
<1> QED
  BY <1>1, ThreadAssumption, SemAssumption, SleepAssumption DEF Init, TypeInv, TypeOK

\* Every step preserves them.
LEMMA TypeInvStep == TypeInv /\ [Next]_vars => TypeInv'
<1> SUFFICES ASSUME TypeInv, [Next]_vars PROVE TypeInv'
  OBVIOUS
<1> USE DEF TypeInv, TypeOK
<1>1. CASE Tick
  BY <1>1 DEF Tick, sleepVars, semVars
<1>2. CASE TimerInterrupt
  <2>1. PICK n \in 0..Len(sleeping) :
          LET woken == FirstN(sleeping, n)
              blk   == blocked \ Range(woken)
          IN /\ sleeping' = AfterN(sleeping, n)
             /\ left' = [p \in Threads |-> LeftAfterTick(p)]
             /\ blocked' = blk
             /\ IF SliceUsedUp(timeSliceCounter + 1, running)
                THEN Dispatch("timer", ready \o woken, finished, blk)
                ELSE /\ timeSliceCounter' = timeSliceCounter + 1
                     /\ ready' = ready \o woken
                     /\ ssip' = "clear"
                     /\ ret' = NoRet
                     /\ winTicks' = IF running \in window THEN winTicks + 1 ELSE 0
                     /\ UNCHANGED <<running, resume>>
    BY <1>2 DEF TimerInterrupt
  <2>2. sleeping' \in Seq(Threads) /\ ready \o FirstN(sleeping, n) \in Seq(Threads)
    BY <2>1, CutProperties, ConcatProperties
  <2>3. left' \in [Threads -> Int] /\ blocked' \subseteq Threads
    BY <2>1 DEF LeftAfterTick
  <2>4. UNCHANGED <<semVars, life, finished, semDeleted, window>>
    BY <1>2 DEF TimerInterrupt
  <2>5. CASE SliceUsedUp(timeSliceCounter + 1, running)
    <3>1. Dispatch("timer", ready \o FirstN(sleeping, n), finished, blocked')
      BY <2>1, <2>5
    <3>2. DispatchTyped
      BY <2>2, <3>1, DispatchTypes
    <3> QED BY <2>2, <2>3, <2>4, <3>2, SleepAssumption DEF semVars, DispatchTyped
  <2>6. CASE ~SliceUsedUp(timeSliceCounter + 1, running)
    <3>1. winTicks' \in 0..WindowTicks
      BY <1>2, <2>1, <2>6, SleepAssumption DEF TimerInterrupt
    <3>2. /\ timeSliceCounter' = timeSliceCounter + 1 /\ ready' = ready \o FirstN(sleeping, n)
          /\ ssip' = "clear" /\ ret' = NoRet /\ UNCHANGED <<running, resume>>
      BY <2>1, <2>6
    <3> QED BY <2>2, <2>3, <2>4, <3>1, <3>2 DEF semVars
  <2> QED BY <2>5, <2>6
<1>3. CASE ThreadDispatch
  <2>1. DispatchTyped
    BY <1>3, DispatchTypes DEF ThreadDispatch
  <2> QED BY <1>3, <2>1, SleepAssumption DEF ThreadDispatch, DispatchTyped, sleepVars, semVars
<1>4. CASE ThreadExit
  <2>1. finished' = finished \cup {running}
    BY <1>4 DEF ThreadExit
  <2>2. Dispatch("syscall", ready, finished', blocked)
    BY <1>4 DEF ThreadExit
  <2>3. UNCHANGED <<sleepVars, semVars, life, blocked, semDeleted, window>>
    BY <1>4 DEF ThreadExit
  <2>4. DispatchTyped
    BY <2>1, <2>2, DispatchTypes
  <2>5. finished' \subseteq Threads \cup {Idle} /\ Idle \in finished'
    BY <2>1
  <2> QED BY <2>3, <2>4, <2>5, SleepAssumption DEF sleepVars, semVars, DispatchTyped
<1>5. ASSUME NEW p \in Threads, ThreadCreate(p) PROVE TypeInv'
  BY <1>5 DEF ThreadCreate, Return, AfterHandler, sleepVars, semVars
<1>6. ASSUME NEW p \in Threads, ThreadStart(p) PROVE TypeInv'
  BY <1>6, PutProperties DEF ThreadStart, Return, AfterHandler, sleepVars, semVars
<1>7. ASSUME NEW s \in Sems, NEW v \in SemInits, SemOpen(s, v) PROVE TypeInv'
  BY <1>7, SemAssumption DEF SemOpen, Return, AfterHandler, sleepVars, semVars
<1>8. ASSUME NEW s \in Sems, SemWait(s) PROVE TypeInv'
  <2>1. running \in Threads /\ semValue' \in [Sems -> Int]
    BY <1>8 DEF SemWait, Client, Caller
  <2>2. UNCHANGED <<sleeping, left, open, life, finished, semDeleted, window>>
    BY <1>8 DEF SemWait, sleepVars
  <2>3. CASE MustBlock(semValue[s] - 1)
    <3>1. Block(waiting[s], running) \in Seq(Threads)
      BY <2>1 DEF Block
    <3>2. waiting' \in [Sems -> Seq(Threads)] /\ blocked' \subseteq Threads
      BY <1>8, <2>1, <2>3, <3>1 DEF SemWait
    <3>3. Dispatch("wait", ready, finished, blocked')
      BY <1>8, <2>3 DEF SemWait
    <3>4. DispatchTyped
      BY <3>3, DispatchTypes
    <3> QED BY <2>1, <2>2, <3>2, <3>4, SleepAssumption DEF DispatchTyped
  <2>4. CASE ~MustBlock(semValue[s] - 1)
    BY <1>8, <2>1, <2>2, <2>4 DEF SemWait, WaitResult, AfterHandler
  <2> QED BY <2>3, <2>4
<1>9. ASSUME NEW s \in Sems, SemSignal(s) PROVE TypeInv'
  <2>1. semValue' \in [Sems -> Int]
    BY <1>9 DEF SemSignal
  <2>2. UNCHANGED <<sleepVars, open, life, finished, semDeleted, window>>
    BY <1>9 DEF SemSignal
  <2>3. CASE MustRelease(semValue[s] + 1) /\ waiting[s] # <<>>
    <3>1. Head(waiting[s]) \in Threads /\ Tail(waiting[s]) \in Seq(Threads)
      BY <2>3
    <3>2. Put(ready, Head(waiting[s])) \in Seq(Threads)
      BY <3>1, PutProperties
    <3> QED BY <1>9, <2>1, <2>2, <2>3, <3>1, <3>2
            DEF SemSignal, Return, AfterHandler, sleepVars
  <2>4. CASE ~(MustRelease(semValue[s] + 1) /\ waiting[s] # <<>>)
    BY <1>9, <2>1, <2>2, <2>4 DEF SemSignal, Return, AfterHandler, sleepVars
  <2> QED BY <2>3, <2>4
<1>10. ASSUME NEW s \in Sems, SemClose(s) PROVE TypeInv'
  <2>1. Range(waiting[s]) \subseteq Threads
    BY RangeOfSeq
  <2>2. ready \o waiting[s] \in Seq(Threads)
    OBVIOUS
  <2> QED BY <1>10, <2>1, <2>2 DEF SemClose, Return, AfterHandler, sleepVars
<1>11. ASSUME NEW t \in SleepTimes, TimeSleep(t) PROVE TypeInv'
  <2>1. PICK n \in 0..Len(sleeping) :
          sleeping' = FirstN(sleeping, n) \o <<running>> \o AfterN(sleeping, n)
    BY <1>11 DEF TimeSleep
  <2>2. running \in Threads
    BY <1>11 DEF TimeSleep, Client, Caller
  <2>3. <<running>> \in Seq(Threads)
    BY <2>2
  <2>4. sleeping' \in Seq(Threads)
    BY <2>1, <2>3, CutProperties
  <2> QED BY <1>11, <2>2, <2>4, SleepAssumption DEF TimeSleep, AfterHandler, semVars
<1>12. CASE UNCHANGED vars
  BY <1>12 DEF vars
<1> QED
  BY <1>1, <1>2, <1>3, <1>4, <1>5, <1>6, <1>7, <1>8, <1>9, <1>10, <1>11, <1>12
  DEF Next, Interrupts, Syscalls

\* Type correctness of the kernel, for any number of threads and semaphores.
THEOREM TypeCorrect == Spec => []TypeOK
<1>1. TypeInv => TypeOK
  BY DEF TypeInv
<1> QED BY <1>1, TypeInvInit, TypeInvStep, PTL DEF Spec
-----------------------------------------------------------------------------
(* The lists *)

\* A thread on the sleeping list that still runs has more time left than
\* timer interrupts can come before it gives the processor up, so it is never
\* woken while it runs.
WindowOutlastsTicks == InSleeping(running) => left[running] > WindowTicks - winTicks

\* Only a thread that was started can have exited.
ExitedWasStarted == \A p \in Threads : p \in finished => life[p] = "started"

\* The inductive invariant: the list invariants support each other (dispatch
\* keeps the lists apart because blocked is exact), and WindowOutlastsTicks
\* keeps wakeUp from putting the running thread into the ready list.
ListInv ==
  /\ TypeInv
  /\ OneList
  /\ RunningIsOnNoList
  /\ NoThreadLost
  /\ BlockedIsExact
  /\ IdleOnlyWhenNoneReady
  /\ WindowOutlastsTicks
  /\ ExitedWasStarted

\* What dispatch does to the threads of the ready list q: the one it chooses
\* leaves, the one that gives the processor up enters if it goes back.
DispatchMoves(q, fin, blk) ==
  /\ IsInjective(ready')
  /\ running' \notin Range(ready')
  /\ Range(ready') \subseteq Threads
  /\ running' \in Threads \cup {Idle}
  /\ \A p \in Threads : (p = running' \/ p \in Range(ready'))
                          <=> (p \in Range(q) \/ (p = running /\ GoesBack(p, fin, blk)))
  /\ running' = Idle => ready' = <<>>

\* The empty list has no members.
LEMMA EmptyRange == Range(<<>>) = {} /\ IsInjective(<<>>)
BY DEF Range, IsInjective

\* PCB::dispatch makes exactly these moves when the running thread is not on q.
LEMMA DispatchMovesLemma ==
  ASSUME TypeInv, NEW k, NEW q \in Seq(Threads), NEW fin, NEW blk, Idle \in fin,
         IsInjective(q), running \notin Range(q), Dispatch(k, q, fin, blk)
  PROVE  DispatchMoves(q, fin, blk)
<1> DEFINE q1 == IF GoesBack(running, fin, blk) THEN Put(q, running) ELSE q
<1>1. GoesBack(running, fin, blk) => running \in Threads
  BY DEF TypeInv, TypeOK, GoesBack
<1>2. q1 \in Seq(Threads) /\ IsInjective(q1)
  BY <1>1, PutProperties
<1>3. \A p : p \in Range(q1) <=> (p \in Range(q) \/ (p = running /\ GoesBack(p, fin, blk)))
  BY <1>1, PutProperties
<1>4. running' = Chosen(q1) /\ ready' = Rest(q1)
  BY DEF Dispatch
<1>5. CASE q1 = <<>>
  <2>1. running' = Idle /\ ready' = <<>>
    BY <1>4, <1>5 DEF Chosen, Rest
  <2>2. Range(q1) = {} /\ Range(ready') = {} /\ IsInjective(ready')
    BY <2>1, <1>5, EmptyRange
  <2> QED BY <2>1, <2>2, <1>3, ThreadAssumption DEF DispatchMoves
<1>6. CASE q1 # <<>>
  <2>1. /\ running' \in Threads /\ ready' \in Seq(Threads)
        /\ Range(q1) = Range(ready') \cup {running'}
        /\ IsInjective(ready') /\ running' \notin Range(ready')
    BY <1>2, <1>4, <1>6, RestProperties
  <2>2. Range(ready') \subseteq Threads
    BY <2>1, RangeOfSeq
  <2> QED BY <2>1, <2>2, <1>3, ThreadAssumption DEF DispatchMoves
<1> QED BY <1>5, <1>6

\* thread_dispatch keeps the lists in order.
LEMMA ListInvDispatch ==
  ASSUME ListInv, ThreadDispatch PROVE ListInv'
<1>1. TypeInv' BY TypeInvStep DEF ListInv, Next, Syscalls
<1>2. DispatchMoves(ready, finished, blocked)
  BY DispatchMovesLemma DEF ListInv, ThreadDispatch, RunningIsOnNoList, OneList, InReady, TypeInv, TypeOK
<1>3. /\ Range(ready) \subseteq Threads /\ Range(sleeping) \subseteq Threads
      /\ \A s \in Sems : Range(waiting[s]) \subseteq Threads
  BY RangeOfSeq DEF ListInv, TypeInv, TypeOK
<1>4. UNCHANGED <<sleeping, left, open, semValue, waiting, life, finished, blocked>>
  BY DEF ThreadDispatch, sleepVars, semVars
<1> USE ThreadAssumption DEF ListInv, DispatchMoves, GoesBack, InReady, InSleeping, InSem, Waits
<1>5. OneList'
  BY <1>2, <1>3, <1>4 DEF OneList, RunningIsOnNoList, BlockedIsExact
<1>6. RunningIsOnNoList' /\ ~InSleeping(running)'
  BY <1>2, <1>3, <1>4 DEF OneList, RunningIsOnNoList, BlockedIsExact
<1>7. NoThreadLost' /\ ExitedWasStarted'
  BY <1>2, <1>3, <1>4 DEF ExitedWasStarted, OneList, RunningIsOnNoList, BlockedIsExact, NoThreadLost
<1>8. BlockedIsExact'
  BY <1>4 DEF BlockedIsExact
<1>9. IdleOnlyWhenNoneReady' /\ WindowOutlastsTicks'
  BY <1>2, <1>6 DEF IdleOnlyWhenNoneReady, WindowOutlastsTicks
<1> QED BY <1>1, <1>5, <1>6, <1>7, <1>8, <1>9

\* The typing facts every step below starts from.
LEMMA ListTypes ==
  ASSUME ListInv
  PROVE  /\ Range(ready) \subseteq Threads /\ Range(sleeping) \subseteq Threads
         /\ \A s \in Sems : Range(waiting[s]) \subseteq Threads
         /\ ready \in Seq(Threads) /\ sleeping \in Seq(Threads)
         /\ waiting \in [Sems -> Seq(Threads)]
         /\ left \in [Threads -> Int] /\ winTicks \in 0..WindowTicks
         /\ running \in Threads \cup {Idle} /\ Idle \in finished
         /\ blocked \subseteq Threads
BY RangeOfSeq DEF ListInv, TypeInv, TypeOK

\* thread_exit keeps the lists in order: the caller is put on none.
LEMMA ListInvExit ==
  ASSUME ListInv, ThreadExit PROVE ListInv'
<1>1. TypeInv' BY TypeInvStep DEF ListInv, Next, Syscalls
<1>2. running \in Threads /\ running \notin window
  BY DEF ThreadExit, Client, Caller
<1>3. DispatchMoves(ready, finished', blocked)
  BY ListTypes, DispatchMovesLemma
  DEF ListInv, ThreadExit, RunningIsOnNoList, OneList, InReady
<1>4. UNCHANGED <<sleeping, left, open, semValue, waiting, life, blocked, window>>
      /\ finished' = finished \cup {running}
  BY DEF ThreadExit, sleepVars, semVars
<1> USE ThreadAssumption DEF ListInv, DispatchMoves, GoesBack, InReady, InSleeping, InSem, Waits
<1>5. OneList'
  BY <1>2, <1>3, <1>4, ListTypes DEF OneList, RunningIsOnNoList, BlockedIsExact
<1>6. RunningIsOnNoList' /\ ~InSleeping(running)'
  BY <1>2, <1>3, <1>4, ListTypes DEF OneList, RunningIsOnNoList, BlockedIsExact
<1>7. NoThreadLost' /\ ExitedWasStarted'
  BY <1>2, <1>3, <1>4, ListTypes DEF ExitedWasStarted, OneList, RunningIsOnNoList, BlockedIsExact, NoThreadLost
<1>8. BlockedIsExact'
  BY <1>4 DEF BlockedIsExact
<1>9. IdleOnlyWhenNoneReady' /\ WindowOutlastsTicks'
  BY <1>3, <1>6 DEF IdleOnlyWhenNoneReady, WindowOutlastsTicks
<1> QED BY <1>1, <1>5, <1>6, <1>7, <1>8, <1>9

\* thread_start keeps the lists in order: the new thread was on none.
LEMMA ListInvStart ==
  ASSUME ListInv, NEW p \in Threads, ThreadStart(p) PROVE ListInv'
<1>1. TypeInv' BY TypeInvStep DEF ListInv, Next, Syscalls
<1>2. /\ running \in Threads /\ life[p] = "created" /\ life' = [life EXCEPT ![p] = "started"]
      /\ ready' = Put(ready, p) /\ running' = running /\ winTicks' = winTicks
      /\ UNCHANGED <<sleeping, left, waiting, finished, blocked, window>>
  BY DEF ThreadStart, Caller, Return, sleepVars, semVars
<1> USE DEF ListInv, InReady, InSleeping, InSem, Waits
<1>3. p # running /\ ~InReady(p) /\ ~InSleeping(p) /\ ~InSem(p)
  BY <1>2 DEF NoThreadLost
<1>4. Range(ready') = Range(ready) \cup {p} /\ IsInjective(ready')
  BY <1>2, <1>3, ListTypes, PutProperties DEF OneList
<1>5. p \notin finished
  BY <1>2 DEF ExitedWasStarted
<1>6. OneList' /\ RunningIsOnNoList'
  BY <1>2, <1>3, <1>4 DEF OneList, RunningIsOnNoList
<1>7. NoThreadLost' /\ ExitedWasStarted'
  BY <1>2, <1>3, <1>4, <1>5, ListTypes DEF ExitedWasStarted, NoThreadLost, TypeInv, TypeOK
<1>8. BlockedIsExact' /\ WindowOutlastsTicks'
  BY <1>2 DEF BlockedIsExact, WindowOutlastsTicks
<1>9. IdleOnlyWhenNoneReady'
  BY <1>2, ThreadAssumption DEF IdleOnlyWhenNoneReady
<1> QED BY <1>1, <1>6, <1>7, <1>8, <1>9

\* sem_wait keeps the lists in order, whether it blocks or not.
LEMMA ListInvWait ==
  ASSUME ListInv, NEW s \in Sems, SemWait(s) PROVE ListInv'
<1>1. TypeInv' BY TypeInvStep DEF ListInv, Next, Syscalls
<1>2. /\ running \in Threads /\ running \notin window
      /\ UNCHANGED <<sleeping, left, life, finished, window>>
  BY DEF SemWait, Client, Caller, sleepVars
<1> USE ThreadAssumption DEF ListInv, InReady, InSleeping, InSem, Waits
<1>3. CASE MustBlock(semValue[s] - 1)
  <2>1. /\ waiting' = [waiting EXCEPT ![s] = Put(@, running)]
        /\ blocked' = blocked \cup {running}
        /\ Dispatch("wait", ready, finished, blocked')
    BY <1>3 DEF SemWait, Block, Put
  <2>2. DispatchMoves(ready, finished, blocked')
    BY <2>1, ListTypes, DispatchMovesLemma DEF RunningIsOnNoList, OneList
  <2>3. /\ \A r \in Sems : r # s => waiting'[r] = waiting[r]
        /\ Range(waiting'[s]) = Range(waiting[s]) \cup {running}
        /\ IsInjective(waiting'[s])
    BY <1>2, <2>1, ListTypes, PutProperties DEF RunningIsOnNoList, OneList
  <2> USE DEF DispatchMoves, GoesBack
  <2>4. ~InSleeping(running) /\ ~InSem(running) /\ ~InReady(running)
    BY <1>2 DEF RunningIsOnNoList
  <2>5. OneList'
    BY <1>2, <2>1, <2>2, <2>3, <2>4, ListTypes DEF OneList, BlockedIsExact
  <2>6. RunningIsOnNoList' /\ ~InSleeping(running)'
    BY <1>2, <2>1, <2>2, <2>3, <2>4, ListTypes DEF OneList, RunningIsOnNoList, BlockedIsExact
  <2>7. NoThreadLost' /\ ExitedWasStarted'
    BY <1>2, <2>1, <2>2, <2>3, <2>4, ListTypes DEF ExitedWasStarted, OneList, BlockedIsExact, NoThreadLost
  <2>8. BlockedIsExact'
    BY <1>2, <2>1, <2>3 DEF BlockedIsExact
  <2>9. IdleOnlyWhenNoneReady' /\ WindowOutlastsTicks'
    BY <2>2, <2>6 DEF IdleOnlyWhenNoneReady, WindowOutlastsTicks
  <2> QED BY <1>1, <2>5, <2>6, <2>7, <2>8, <2>9
<1>4. CASE ~MustBlock(semValue[s] - 1)
  <2>1. UNCHANGED <<running, ready, winTicks, waiting, blocked>>
    BY <1>4 DEF SemWait
  <2> QED BY <1>1, <1>2, <2>1
      DEF OneList, RunningIsOnNoList, NoThreadLost, ExitedWasStarted, BlockedIsExact,
          IdleOnlyWhenNoneReady, WindowOutlastsTicks
<1> QED BY <1>3, <1>4

\* sem_signal moves one thread from the semaphore to the ready list, or none.
LEMMA ListInvSignal ==
  ASSUME ListInv, NEW s \in Sems, SemSignal(s) PROVE ListInv'
<1>1. TypeInv' BY TypeInvStep DEF ListInv, Next, Syscalls
<1>2. /\ running \in Threads /\ running' = running /\ winTicks' = winTicks
      /\ UNCHANGED <<sleeping, left, life, finished, window>>
  BY DEF SemSignal, Client, Caller, Return, sleepVars
<1> USE ThreadAssumption DEF ListInv, InReady, InSleeping, InSem, Waits
<1>3. CASE MustRelease(semValue[s] + 1) /\ waiting[s] # <<>>
  <2> DEFINE p == Chosen(waiting[s])
  <2>1. /\ waiting' = [waiting EXCEPT ![s] = Rest(@)]
        /\ blocked' = blocked \ {p}
        /\ ready' = Put(ready, p)
    BY <1>3, ListTypes DEF SemSignal, Return, Chosen, Rest
  <2>2. /\ \A r \in Sems : r # s => waiting'[r] = waiting[r]
        /\ waiting'[s] = Rest(waiting[s])
        /\ waiting[s] \in Seq(Threads) /\ IsInjective(waiting[s])
    BY <2>1, ListTypes DEF OneList
  <2>3. /\ p \in Threads
        /\ Range(waiting[s]) = Range(waiting'[s]) \cup {p}
        /\ p \notin Range(waiting'[s])
        /\ IsInjective(waiting'[s])
    BY <1>3, <2>2, RestProperties
  <2>4. ~InReady(p) /\ ~InSleeping(p) /\ p # running /\ \A r \in Sems : r # s => ~Waits(p, r)
    BY <2>3 DEF OneList, RunningIsOnNoList
  <2> HIDE DEF p
  <2>5. Range(ready') = Range(ready) \cup {p} /\ IsInjective(ready')
    <3>1. ready \in Seq(Threads) /\ IsInjective(ready) /\ p \notin Range(ready)
      BY <2>4, ListTypes DEF OneList
    <3> QED BY <2>1, <2>3, <3>1, PutProperties
  <2>6. OneList'
    BY <1>2, <2>2, <2>3, <2>4, <2>5 DEF OneList
  <2>7. RunningIsOnNoList'
    BY <1>2, <2>2, <2>3, <2>4, <2>5 DEF RunningIsOnNoList
  <2>8. NoThreadLost' /\ ExitedWasStarted'
    BY <1>2, <2>2, <2>3, <2>4, <2>5 DEF ExitedWasStarted, NoThreadLost
  <2>9. BlockedIsExact'
    BY <1>2, <2>1, <2>2, <2>3, <2>4 DEF BlockedIsExact
  <2>10. IdleOnlyWhenNoneReady' /\ WindowOutlastsTicks'
    BY <1>2 DEF IdleOnlyWhenNoneReady, WindowOutlastsTicks
  <2> QED BY <1>1, <2>6, <2>7, <2>8, <2>9, <2>10
<1>4. CASE ~(MustRelease(semValue[s] + 1) /\ waiting[s] # <<>>)
  <2>1. UNCHANGED <<ready, waiting, blocked>>
    BY <1>4 DEF SemSignal, Return
  <2> QED BY <1>1, <1>2, <2>1
      DEF OneList, RunningIsOnNoList, NoThreadLost, ExitedWasStarted, BlockedIsExact,
          IdleOnlyWhenNoneReady, WindowOutlastsTicks
<1> QED BY <1>3, <1>4

\* sem_close moves all waiting threads to the ready list.
LEMMA ListInvClose ==
  ASSUME ListInv, NEW s \in Sems, SemClose(s) PROVE ListInv'
<1>1. TypeInv' BY TypeInvStep DEF ListInv, Next, Syscalls
<1>2. /\ running \in Threads /\ running' = running /\ winTicks' = winTicks
      /\ UNCHANGED <<sleeping, left, life, finished, window>>
      /\ blocked' = blocked \ Range(waiting[s])
      /\ ready' = ready \o waiting[s]
      /\ waiting' = [waiting EXCEPT ![s] = <<>>]
  BY DEF SemClose, Client, Caller, Return, sleepVars
<1> USE ThreadAssumption DEF ListInv, InReady, InSleeping, InSem, Waits
<1>3. /\ \A r \in Sems : r # s => waiting'[r] = waiting[r]
      /\ Range(waiting'[s]) = {} /\ IsInjective(waiting'[s])
  BY <1>2, ListTypes, EmptyRange
<1>4. Range(ready) \cap Range(waiting[s]) = {}
  BY ListTypes DEF OneList
<1>5. Range(ready') = Range(ready) \cup Range(waiting[s]) /\ IsInjective(ready')
  BY <1>2, <1>4, ListTypes, ConcatProperties DEF OneList
<1>6. OneList'
  BY <1>2, <1>3, <1>5 DEF OneList
<1>7. RunningIsOnNoList'
  BY <1>2, <1>3, <1>5 DEF RunningIsOnNoList
<1>8. NoThreadLost' /\ ExitedWasStarted'
  BY <1>2, <1>3, <1>5 DEF ExitedWasStarted, NoThreadLost
<1>9. BlockedIsExact'
  BY <1>2, <1>3 DEF BlockedIsExact, OneList
<1>10. IdleOnlyWhenNoneReady' /\ WindowOutlastsTicks'
  BY <1>2 DEF IdleOnlyWhenNoneReady, WindowOutlastsTicks
<1> QED BY <1>1, <1>6, <1>7, <1>8, <1>9, <1>10

\* A thread inserted somewhere into a list it was not on.
LEMMA InsertProperties ==
  ASSUME NEW S, NEW q \in Seq(S), NEW n \in 0..Len(q), NEW p \in S,
         IsInjective(q), p \notin Range(q)
  PROVE  LET r == FirstN(q, n) \o <<p>> \o AfterN(q, n)
         IN r \in Seq(S) /\ IsInjective(r) /\ Range(r) = Range(q) \cup {p}
<1> DEFINE f == FirstN(q, n)  a == AfterN(q, n)  g == f \o <<p>>
<1>1. /\ f \in Seq(S) /\ a \in Seq(S) /\ Range(q) = Range(f) \cup Range(a)
      /\ IsInjective(f) /\ IsInjective(a) /\ Range(f) \cap Range(a) = {}
  BY CutProperties
<1> HIDE DEF f, a
<1>2. g \in Seq(S) /\ Range(g) = Range(f) \cup {p} /\ IsInjective(g)
  <2>1. g = Put(f, p)
    BY <1>1 DEF Put
  <2>2. p \notin Range(f)
    BY <1>1
  <2> HIDE DEF g
  <2>3. /\ Put(f, p) \in Seq(S) /\ Range(Put(f, p)) = Range(f) \cup {p}
        /\ IsInjective(Put(f, p))
    BY <1>1, <2>2, PutProperties
  <2> QED BY <2>1, <2>3
<1> HIDE DEF g
<1>3. g \o a \in Seq(S) /\ Range(g \o a) = Range(g) \cup Range(a) /\ IsInjective(g \o a)
  BY <1>1, <1>2, ConcatProperties
<1> QED BY <1>1, <1>2, <1>3 DEF f, a, g

\* The first ecall of time_sleep enters the caller, which was on no list.
LEMMA ListInvSleep ==
  ASSUME ListInv, NEW t \in SleepTimes, TimeSleep(t) PROVE ListInv'
<1>1. TypeInv' BY TypeInvStep DEF ListInv, Next, Syscalls
<1>2. /\ running \in Threads /\ running \notin window /\ running' = running
      /\ left' = [left EXCEPT ![running] = t] /\ winTicks' = 0
      /\ blocked' = blocked \cup {running} /\ window' = window \cup {running}
      /\ UNCHANGED <<ready, waiting, life, finished>>
  BY DEF TimeSleep, Client, Caller, semVars
<1> USE ThreadAssumption DEF ListInv, InReady, InSleeping, InSem, Waits
<1>3. running \notin Range(sleeping) /\ ~InReady(running) /\ ~InSem(running)
  BY <1>2 DEF RunningIsOnNoList
<1>4. Range(sleeping') = Range(sleeping) \cup {running} /\ IsInjective(sleeping')
  <2>1. PICK n \in 0..Len(sleeping) :
          sleeping' = FirstN(sleeping, n) \o <<running>> \o AfterN(sleeping, n)
    BY DEF TimeSleep
  <2>2. sleeping \in Seq(Threads) /\ IsInjective(sleeping)
    BY ListTypes DEF OneList
  <2> QED BY <1>2, <1>3, <2>1, <2>2, InsertProperties
<1>5. OneList'
  BY <1>2, <1>3, <1>4 DEF OneList
<1>6. RunningIsOnNoList'
  BY <1>2, <1>3, <1>4 DEF RunningIsOnNoList
<1>7. NoThreadLost' /\ ExitedWasStarted'
  BY <1>2, <1>3, <1>4 DEF NoThreadLost, ExitedWasStarted
<1>8. BlockedIsExact'
  BY <1>2, <1>4 DEF BlockedIsExact
<1>9. IdleOnlyWhenNoneReady'
  BY <1>2 DEF IdleOnlyWhenNoneReady
<1>10. WindowOutlastsTicks'
  <2>1. left'[running'] = t
    BY <1>2, ListTypes
  <2> QED BY <1>2, <2>1, SleepAssumption DEF WindowOutlastsTicks
<1> QED BY <1>1, <1>5, <1>6, <1>7, <1>8, <1>9, <1>10

\* A timer interrupt moves the threads it wakes, none of which runs, and may dispatch.
LEMMA ListInvTimer ==
  ASSUME ListInv, TimerInterrupt PROVE ListInv'
<1>1. TypeInv' BY TypeInvStep DEF ListInv, Next, Interrupts
<1>2. PICK n \in 0..Len(sleeping) :
        LET woken == FirstN(sleeping, n)
            blk   == blocked \ Range(woken)
        IN /\ LongestPrefix(n, sleeping, EndNow)
           /\ sleeping' = AfterN(sleeping, n)
           /\ left' = [p \in Threads |-> LeftAfterTick(p)]
           /\ blocked' = blk
           /\ IF SliceUsedUp(timeSliceCounter + 1, running)
              THEN Dispatch("timer", ready \o woken, finished, blk)
              ELSE /\ timeSliceCounter' = timeSliceCounter + 1
                   /\ ready' = ready \o woken
                   /\ ssip' = "clear"
                   /\ ret' = NoRet
                   /\ winTicks' = IF running \in window THEN winTicks + 1 ELSE 0
                   /\ UNCHANGED <<running, resume>>
  BY DEF TimerInterrupt
<1> DEFINE woken == FirstN(sleeping, n)
           q     == ready \o woken
<1>3. /\ sleeping' = AfterN(sleeping, n)
      /\ left' = [p \in Threads |-> LeftAfterTick(p)]
      /\ blocked' = blocked \ Range(woken)
      /\ UNCHANGED <<waiting, life, finished, window>>
  BY <1>2 DEF TimerInterrupt, semVars
<1> USE ThreadAssumption DEF ListInv, InReady, InSleeping, InSem, Waits
<1>4. /\ woken \in Seq(Threads)
      /\ Range(sleeping) = Range(woken) \cup Range(sleeping')
      /\ Range(woken) \cap Range(sleeping') = {}
      /\ IsInjective(woken) /\ IsInjective(sleeping')
  BY <1>3, ListTypes, CutProperties DEF OneList
<1>5. \A p \in Range(woken) : left[p] = 1
  <2>1. \A i \in 1..n : sleeping[i] \in EndNow
    BY <1>2 DEF LongestPrefix
  <2>2. Len(woken) = n /\ \A i \in 1..n : woken[i] = sleeping[i]
    BY ListTypes DEF FirstN
  <2> QED BY <1>4, <2>1, <2>2 DEF Range, EndNow
<1>6. running \notin Range(woken)
  <2>1. CASE running \in Range(sleeping)
    <3>1. running \in window /\ left[running] > WindowTicks - winTicks
      BY <2>1 DEF RunningIsOnNoList, WindowOutlastsTicks
    <3>2. winTicks < WindowTicks
      BY <3>1 DEF TimerInterrupt
    <3>3. left[running] \in Int
      BY <2>1, ListTypes
    <3>4. left[running] # 1
      BY <3>1, <3>2, <3>3, ListTypes, SleepAssumption
    <3> QED BY <3>4, <1>5
  <2>2. CASE running \notin Range(sleeping)
    BY <2>2, <1>4
  <2> QED BY <2>1, <2>2
<1>7. q \in Seq(Threads) /\ Range(q) = Range(ready) \cup Range(woken) /\ IsInjective(q)
  <2>1. Range(ready) \cap Range(woken) = {}
    BY <1>4, ListTypes DEF OneList
  <2> QED BY <1>4, <2>1, ListTypes, ConcatProperties DEF OneList
<1>8. CASE SliceUsedUp(timeSliceCounter + 1, running)
  <2>1. Dispatch("timer", q, finished, blocked')
    BY <1>2, <1>8
  <2>2. running \notin Range(q)
    BY <1>6, <1>7 DEF RunningIsOnNoList
  <2>3. DispatchMoves(q, finished, blocked')
    BY <1>7, <2>1, <2>2, DispatchMovesLemma, ListTypes
  <2> HIDE DEF woken, q
  <2> USE DEF DispatchMoves, GoesBack
  <2>4. OneList'
    BY <1>3, <1>4, <1>6, <1>7, <2>3, ListTypes DEF OneList, RunningIsOnNoList, BlockedIsExact
  <2>5. RunningIsOnNoList' /\ ~InSleeping(running)'
    BY <1>3, <1>4, <1>6, <1>7, <2>3, ListTypes DEF OneList, RunningIsOnNoList, BlockedIsExact
  <2>6. NoThreadLost' /\ ExitedWasStarted'
    BY <1>3, <1>4, <1>6, <1>7, <2>3, ListTypes
       DEF OneList, RunningIsOnNoList, BlockedIsExact, NoThreadLost, ExitedWasStarted
  <2>7. BlockedIsExact'
    BY <1>3, <1>4, ListTypes DEF BlockedIsExact, OneList
  <2>8. IdleOnlyWhenNoneReady' /\ WindowOutlastsTicks'
    BY <2>3, <2>5 DEF IdleOnlyWhenNoneReady, WindowOutlastsTicks
  <2> QED BY <1>1, <2>4, <2>5, <2>6, <2>7, <2>8
<1>9. CASE ~SliceUsedUp(timeSliceCounter + 1, running)
  <2>1. /\ ready' = q /\ running' = running
        /\ winTicks' = IF running \in window THEN winTicks + 1 ELSE 0
    BY <1>2, <1>9
  <2>2. running # Idle
    BY <1>9 DEF SliceUsedUp, TimeSlice, TypeInv, TypeOK
  <2> HIDE DEF woken, q
  <2>3. OneList'
    BY <1>3, <1>4, <1>6, <1>7, <2>1, ListTypes DEF OneList
  <2>4. RunningIsOnNoList'
    BY <1>3, <1>4, <1>6, <1>7, <2>1, ListTypes DEF RunningIsOnNoList
  <2>5. NoThreadLost' /\ ExitedWasStarted'
    BY <1>3, <1>4, <1>6, <1>7, <2>1 DEF NoThreadLost, ExitedWasStarted
  <2>6. BlockedIsExact'
    BY <1>3, <1>4, ListTypes DEF BlockedIsExact, OneList
  <2>7. WindowOutlastsTicks'
    <3> SUFFICES ASSUME running \in Range(sleeping') PROVE left'[running] > WindowTicks - winTicks'
      BY <2>1 DEF WindowOutlastsTicks
    <3>1. running \in Range(sleeping) /\ running \in window /\ running \in Threads
      BY <1>4, ListTypes DEF RunningIsOnNoList
    <3>2. left'[running] = left[running] - 1 /\ winTicks' = winTicks + 1
      BY <1>3, <2>1, <3>1 DEF LeftAfterTick
    <3>3. left[running] > WindowTicks - winTicks /\ left[running] \in Int
      BY <3>1, ListTypes DEF WindowOutlastsTicks
    <3> QED BY <3>2, <3>3, ListTypes, SleepAssumption
  <2> QED BY <1>1, <2>1, <2>2, <2>3, <2>4, <2>5, <2>6, <2>7 DEF IdleOnlyWhenNoneReady
<1> QED BY <1>8, <1>9

\* The boot state satisfies the list invariants: main runs, what it started is ready.
LEMMA ListInvInit == Init => ListInv
<1> SUFFICES ASSUME Init PROVE ListInv
  OBVIOUS
<1>1. TypeInv BY TypeInvInit
<1>2. /\ Range(ready) \subseteq Threads \ {Main} /\ IsInjective(ready)
  BY ThreadAssumption, RangeOfSeq DEF Init
<1>3. Range(sleeping) = {} /\ IsInjective(sleeping)
      /\ \A s \in Sems : Range(waiting[s]) = {} /\ IsInjective(waiting[s])
  BY EmptyRange DEF Init
<1> USE ThreadAssumption DEF InReady, InSleeping, InSem, Waits
<1>4. OneList
  BY <1>2, <1>3 DEF OneList
<1>5. RunningIsOnNoList
  BY <1>2, <1>3 DEF RunningIsOnNoList, Init
<1>6. NoThreadLost /\ ExitedWasStarted /\ BlockedIsExact
  BY <1>2, <1>3 DEF NoThreadLost, ExitedWasStarted, BlockedIsExact, Init
<1>7. IdleOnlyWhenNoneReady /\ WindowOutlastsTicks
  BY <1>3 DEF IdleOnlyWhenNoneReady, WindowOutlastsTicks, Init
<1> QED BY <1>1, <1>4, <1>5, <1>6, <1>7 DEF ListInv

\* Every step keeps the lists in order.
LEMMA ListInvStep == ListInv /\ [Next]_vars => ListInv'
<1> SUFFICES ASSUME ListInv, [Next]_vars PROVE ListInv'
  OBVIOUS
<1>1. TypeInv' BY TypeInvStep DEF ListInv
<1> DEFINE listVars == <<running, ready, sleeping, left, waiting, finished, blocked,
                         window, winTicks>>
<1>2. ASSUME UNCHANGED listVars,
             \A p \in Threads : \/ life'[p] = life[p]
                                \/ life[p] # "started" /\ life'[p] # "started"
      PROVE  ListInv'
  BY <1>1, <1>2
  DEF ListInv, OneList, RunningIsOnNoList, NoThreadLost, BlockedIsExact, ExitedWasStarted,
      IdleOnlyWhenNoneReady, WindowOutlastsTicks, InReady, InSleeping, InSem, Waits
<1>3. CASE Tick
  BY <1>2, <1>3 DEF Tick, sleepVars, semVars
<1>4. CASE TimerInterrupt
  BY <1>4, ListInvTimer
<1>5. CASE ThreadDispatch
  BY <1>5, ListInvDispatch
<1>6. CASE ThreadExit
  BY <1>6, ListInvExit
<1>7. ASSUME NEW p \in Threads, ThreadCreate(p) PROVE ListInv'
  BY <1>2, <1>7 DEF ThreadCreate, Return, sleepVars, semVars, ListInv, TypeInv, TypeOK
<1>8. ASSUME NEW p \in Threads, ThreadStart(p) PROVE ListInv'
  BY <1>8, ListInvStart
<1>9. ASSUME NEW s \in Sems, NEW v \in SemInits, SemOpen(s, v) PROVE ListInv'
  BY <1>2, <1>9 DEF SemOpen, Return, sleepVars
<1>10. ASSUME NEW s \in Sems, SemWait(s) PROVE ListInv'
  BY <1>10, ListInvWait
<1>11. ASSUME NEW s \in Sems, SemSignal(s) PROVE ListInv'
  BY <1>11, ListInvSignal
<1>12. ASSUME NEW s \in Sems, SemClose(s) PROVE ListInv'
  BY <1>12, ListInvClose
<1>13. ASSUME NEW t \in SleepTimes, TimeSleep(t) PROVE ListInv'
  BY <1>13, ListInvSleep
<1>14. CASE UNCHANGED vars
  BY <1>2, <1>14 DEF vars
<1> QED
  BY <1>3, <1>4, <1>5, <1>6, <1>7, <1>8, <1>9, <1>10, <1>11, <1>12, <1>13, <1>14
  DEF Next, Interrupts, Syscalls

\* So the list invariants always hold together.
LEMMA ListInvAlways == Spec => []ListInv
BY ListInvInit, ListInvStep, PTL DEF Spec

\* No thread is on two lists or twice on one, in any instance in which sleeps are
\* longer than the window (PCB.h:87-90).
THEOREM OneListCorrect == Spec => []OneList
<1>1. ListInv => OneList BY DEF ListInv
<1> QED BY <1>1, ListInvAlways, PTL

\* Whoever has the processor is on no ready and on no semaphore list.
THEOREM RunningCorrect == Spec => []RunningIsOnNoList
<1>1. ListInv => RunningIsOnNoList BY DEF ListInv
<1> QED BY <1>1, ListInvAlways, PTL

\* No started thread is ever lost, and no exited one comes back.
THEOREM NoThreadLostCorrect == Spec => []NoThreadLost
<1>1. ListInv => NoThreadLost BY DEF ListInv
<1> QED BY <1>1, ListInvAlways, PTL

\* The blocked flag says exactly who is on the sleeping or on a semaphore list.
THEOREM BlockedCorrect == Spec => []BlockedIsExact
<1>1. ListInv => BlockedIsExact BY DEF ListInv
<1> QED BY <1>1, ListInvAlways, PTL

\* The idle thread runs only while no thread is ready.
THEOREM IdleCorrect == Spec => []IdleOnlyWhenNoneReady
<1>1. ListInv => IdleOnlyWhenNoneReady BY DEF ListInv
<1> QED BY <1>1, ListInvAlways, PTL
-----------------------------------------------------------------------------
(* Time slices *)

SliceInv == TypeInv /\ SliceNotExceeded

\* Dispatch hands out a fresh slice.
LEMMA FreshSlice ==
  ASSUME NEW k, NEW q, NEW fin, NEW blk, Dispatch(k, q, fin, blk) PROVE SliceNotExceeded'
<1>1. timeSliceCounter' = 0
  BY DEF Dispatch
<1>2. 0 < TimeSlice(running')
  BY ThreadAssumption DEF TimeSlice
<1> QED BY <1>1, <1>2 DEF SliceNotExceeded, TimeSlice

\* A step keeps the counter below the slice: it leaves both alone, it is a
\* dispatch, or it is a timer interrupt that did not use the slice up.
LEMMA SliceInvStep == SliceInv /\ [Next]_vars => SliceInv'
<1> SUFFICES ASSUME SliceInv, [Next]_vars PROVE SliceNotExceeded'
  BY TypeInvStep DEF SliceInv
<1>1. ASSUME UNCHANGED <<running, timeSliceCounter>> PROVE SliceNotExceeded'
  BY <1>1 DEF SliceInv, SliceNotExceeded, TimeSlice
<1>2. CASE Tick
  BY <1>1, <1>2 DEF Tick
<1>3. CASE TimerInterrupt
  <2>1. PICK q, blk :
          IF SliceUsedUp(timeSliceCounter + 1, running)
          THEN Dispatch("timer", q, finished, blk)
          ELSE timeSliceCounter' = timeSliceCounter + 1 /\ UNCHANGED running
    BY <1>3 DEF TimerInterrupt
  <2>2. CASE SliceUsedUp(timeSliceCounter + 1, running)
    BY <2>1, <2>2, FreshSlice
  <2>3. CASE ~SliceUsedUp(timeSliceCounter + 1, running)
    BY <2>1, <2>3, ThreadAssumption
    DEF SliceUsedUp, SliceNotExceeded, TimeSlice, SliceInv, TypeInv, TypeOK
  <2> QED BY <2>2, <2>3
<1>4. CASE ThreadDispatch
  BY <1>4, FreshSlice DEF ThreadDispatch
<1>5. CASE ThreadExit
  BY <1>5, FreshSlice DEF ThreadExit
<1>6. ASSUME NEW p \in Threads, ThreadCreate(p) \/ ThreadStart(p) PROVE SliceNotExceeded'
  BY <1>1, <1>6 DEF ThreadCreate, ThreadStart, Return
<1>7. ASSUME NEW s \in Sems, NEW v \in SemInits, SemOpen(s, v) PROVE SliceNotExceeded'
  BY <1>1, <1>7 DEF SemOpen, Return
<1>8. ASSUME NEW s \in Sems, SemWait(s) PROVE SliceNotExceeded'
  <2>1. CASE MustBlock(semValue[s] - 1)
    BY <1>8, <2>1, FreshSlice DEF SemWait
  <2>2. CASE ~MustBlock(semValue[s] - 1)
    BY <1>1, <1>8, <2>2 DEF SemWait
  <2> QED BY <2>1, <2>2
<1>9. ASSUME NEW s \in Sems, SemSignal(s) \/ SemClose(s) PROVE SliceNotExceeded'
  BY <1>1, <1>9 DEF SemSignal, SemClose, Return
<1>10. ASSUME NEW t \in SleepTimes, TimeSleep(t) PROVE SliceNotExceeded'
  BY <1>1, <1>10 DEF TimeSleep
<1>11. CASE UNCHANGED vars
  BY <1>1, <1>11 DEF vars
<1> QED
  BY <1>2, <1>3, <1>4, <1>5, <1>6, <1>7, <1>8, <1>9, <1>10, <1>11
  DEF Next, Interrupts, Syscalls

\* Nobody runs with a used-up slice, whatever DEFAULT_TIME_SLICE is
\* (kernel.cpp:162-169, PCB::dispatch).
THEOREM SliceCorrect == Spec => []SliceNotExceeded
<1>1. Init => SliceInv
  BY TypeInvInit, ThreadAssumption DEF SliceInv, SliceNotExceeded, TimeSlice, Init
<1>2. SliceInv => SliceNotExceeded
  BY DEF SliceInv
<1> QED BY <1>1, <1>2, SliceInvStep, PTL DEF Spec

-----------------------------------------------------------------------------
(* Semaphore values *)

\* A semaphore that does not exist has value 0 and hence no waiting thread.
ClosedIsZero == \A s \in Sems : s \notin open => semValue[s] = 0

SemInv == TypeInv /\ SemValueCountsWaiters /\ ClosedIsZero

\* Every step preserves SemInv.
LEMMA SemInvStep == SemInv /\ [Next]_vars => SemInv'
<1> SUFFICES ASSUME SemInv, [Next]_vars PROVE SemValueCountsWaiters' /\ ClosedIsZero'
  BY TypeInvStep DEF SemInv
<1> USE DEF SemInv, SemValueCountsWaiters, ClosedIsZero
<1>1. semValue \in [Sems -> Int] /\ waiting \in [Sems -> Seq(Threads)] /\ open \subseteq Sems
  BY DEF TypeInv, TypeOK
<1>2. ASSUME UNCHANGED semVars PROVE SemValueCountsWaiters' /\ ClosedIsZero'
  BY <1>2 DEF semVars
<1>3. CASE Interrupts
  BY <1>2, <1>3 DEF Interrupts, Tick, TimerInterrupt
<1>4. CASE ThreadDispatch \/ ThreadExit
  BY <1>2, <1>4 DEF ThreadDispatch, ThreadExit
<1>5. ASSUME NEW p \in Threads, ThreadCreate(p) \/ ThreadStart(p)
      PROVE  SemValueCountsWaiters' /\ ClosedIsZero'
  BY <1>2, <1>5 DEF ThreadCreate, ThreadStart
<1>6. ASSUME NEW s \in Sems, NEW v \in SemInits, SemOpen(s, v)
      PROVE  SemValueCountsWaiters' /\ ClosedIsZero'
  <2>1. v \in Nat
    BY SemAssumption
  <2>2. s \notin open /\ open' = open \cup {s} /\ waiting' = waiting
        /\ semValue' = [semValue EXCEPT ![s] = v]
    BY <1>6 DEF SemOpen
  <2>3. Len(waiting[s]) = 0
    BY <2>2
  <2> QED BY <1>1, <2>1, <2>2, <2>3
<1>7. ASSUME NEW s \in Sems, SemWait(s) PROVE SemValueCountsWaiters' /\ ClosedIsZero'
  <2>1. s \in open /\ open' = open /\ semValue' = [semValue EXCEPT ![s] = @ - 1]
        /\ running \in Threads
    BY <1>7 DEF SemWait, Client, Caller
  <2>2. Len(Block(waiting[s], running)) = Len(waiting[s]) + 1
    BY <1>1, <2>1 DEF Block
  <2>3. IF MustBlock(semValue[s] - 1)
        THEN waiting' = [waiting EXCEPT ![s] = Block(@, running)] ELSE waiting' = waiting
    BY <1>7 DEF SemWait
  <2> QED BY <1>1, <2>1, <2>2, <2>3 DEF MustBlock
<1>8. ASSUME NEW s \in Sems, SemSignal(s) PROVE SemValueCountsWaiters' /\ ClosedIsZero'
  <2>1. s \in open /\ open' = open /\ semValue' = [semValue EXCEPT ![s] = @ + 1]
    BY <1>8 DEF SemSignal
  <2>2. waiting[s] # <<>> => Len(Tail(waiting[s])) = Len(waiting[s]) - 1
    BY <1>1
  <2>3. waiting[s] # <<>> <=> Len(waiting[s]) > 0
    BY <1>1
  <2>4. IF MustRelease(semValue[s] + 1) /\ waiting[s] # <<>>
        THEN waiting' = [waiting EXCEPT ![s] = Tail(@)] ELSE waiting' = waiting
    BY <1>8 DEF SemSignal
  <2> QED BY <1>1, <2>1, <2>2, <2>3, <2>4 DEF MustRelease
<1>9. ASSUME NEW s \in Sems, SemClose(s) PROVE SemValueCountsWaiters' /\ ClosedIsZero'
  <2>1. open' = open \ {s} /\ semValue' = [semValue EXCEPT ![s] = 0]
        /\ waiting' = [waiting EXCEPT ![s] = <<>>]
    BY <1>9 DEF SemClose
  <2> QED BY <1>1, <2>1
<1>10. ASSUME NEW t \in SleepTimes, TimeSleep(t) PROVE SemValueCountsWaiters' /\ ClosedIsZero'
  BY <1>2, <1>10 DEF TimeSleep
<1>11. CASE UNCHANGED vars
  BY <1>2, <1>11 DEF vars, semVars
<1> QED
  BY <1>3, <1>4, <1>5, <1>6, <1>7, <1>8, <1>9, <1>10, <1>11 DEF Next, Syscalls

\* A negative value is the number of waiting threads, for every open semaphore
\* (SCB::wait, signal, signalClosing).
THEOREM SemValueCorrect == Spec => []SemValueCountsWaiters
<1>1. Init => SemInv
  BY TypeInvInit DEF SemInv, SemValueCountsWaiters, ClosedIsZero, Init
<1>2. SemInv => SemValueCountsWaiters
  BY DEF SemInv
<1> QED BY <1>1, <1>2, SemInvStep, PTL DEF Spec

-----------------------------------------------------------------------------
(* The polling main thread *)

\* A polling main neither exits nor blocks.
MainIsLive ==
  Main \in Pollers => life[Main] = "started" /\ Main \notin finished /\ Main \notin blocked

PollInv == ListInv /\ MainIsLive

\* Every step preserves it: the steps that finish or block the caller are not
\* open to a poller, and the others finish and block nobody.
LEMMA PollInvStep == PollInv /\ [Next]_vars => PollInv'
<1> SUFFICES ASSUME PollInv, [Next]_vars PROVE MainIsLive'
  BY ListInvStep DEF PollInv
<1> USE ThreadAssumption DEF PollInv, MainIsLive
<1>0. life \in [Threads -> {"none", "created", "started"}]
  BY DEF ListInv, TypeInv, TypeOK
<1>1. ASSUME UNCHANGED <<life, finished>>, blocked' \subseteq blocked PROVE MainIsLive'
  BY <1>1
<1>2. CASE Tick
  BY <1>1, <1>2 DEF Tick
<1>3. CASE TimerInterrupt
  BY <1>1, <1>3 DEF TimerInterrupt
<1>4. CASE ThreadDispatch
  BY <1>1, <1>4 DEF ThreadDispatch
<1>5. CASE ThreadExit
  BY <1>5 DEF ThreadExit, Client
<1>6. ASSUME NEW p \in Threads, ThreadCreate(p) \/ ThreadStart(p) PROVE MainIsLive'
  BY <1>0, <1>6 DEF ThreadCreate, ThreadStart
<1>7. ASSUME NEW s \in Sems, NEW v \in SemInits, SemOpen(s, v) PROVE MainIsLive'
  BY <1>1, <1>7 DEF SemOpen
<1>8. ASSUME NEW s \in Sems, SemWait(s) PROVE MainIsLive'
  <2>1. running \notin Pollers /\ UNCHANGED <<life, finished>>
        /\ blocked' \subseteq blocked \cup {running}
    BY <1>8 DEF SemWait, Client
  <2> QED BY <2>1
<1>9. ASSUME NEW s \in Sems, SemSignal(s) \/ SemClose(s) PROVE MainIsLive'
  BY <1>1, <1>9 DEF SemSignal, SemClose
<1>10. ASSUME NEW t \in SleepTimes, TimeSleep(t) PROVE MainIsLive'
  BY <1>10 DEF TimeSleep, Client
<1>11. CASE UNCHANGED vars
  BY <1>1, <1>11 DEF vars
<1> QED
  BY <1>2, <1>3, <1>4, <1>5, <1>6, <1>7, <1>8, <1>9, <1>10, <1>11
  DEF Next, Interrupts, Syscalls

\* With main in its polling loop the idle thread never gets the processor, and
\* main always has it or is ready (main.cpp:46-56).
THEOREM PollingCorrect == Spec => []PollingMainKeepsIdleOut
<1>1. Init => PollInv
  BY ListInvInit, ThreadAssumption DEF PollInv, MainIsLive, Init
<1>2. ASSUME PollInv PROVE PollingMainKeepsIdleOut
  <2> SUFFICES ASSUME Main \in Pollers
               PROVE  running # Idle /\ (Main = running \/ InReady(Main))
    BY DEF PollingMainKeepsIdleOut
  <2>1. ~InSleeping(Main) /\ ~InSem(Main)
    BY <1>2, ThreadAssumption DEF PollInv, MainIsLive, ListInv, BlockedIsExact
  <2>2. Main = running \/ InReady(Main)
    BY <1>2, <2>1, ThreadAssumption DEF PollInv, MainIsLive, ListInv, NoThreadLost
  <2>3. InReady(Main) => running # Idle
    BY <1>2, EmptyRange DEF PollInv, ListInv, IdleOnlyWhenNoneReady, InReady
  <2> QED BY <2>2, <2>3, ThreadAssumption
<1> QED BY <1>1, <1>2, PollInvStep, PTL DEF Spec
-----------------------------------------------------------------------------
(* The sleeping list *)

\* A thread that goes to sleep is entered where the times left to the sleepers stay in
\* order, and has some time left itself.
LEMMA SleepersSleep ==
  ASSUME ListInv, SleepersInOrder, NEW t \in SleepTimes, TimeSleep(t)
  PROVE  SleepersInOrder'
<1>1. PICK n \in 0..Len(sleeping) :
        /\ LongestPrefix(n, sleeping, EndBefore(t))
        /\ sleeping' = FirstN(sleeping, n) \o <<running>> \o AfterN(sleeping, n)
  BY DEF TimeSleep
<1>2. /\ running \in Threads /\ running \notin Range(sleeping)
      /\ left' = [left EXCEPT ![running] = t]
  BY DEF TimeSleep, Client, Caller, ListInv, RunningIsOnNoList, InSleeping
<1>3. sleeping \in Seq(Threads) /\ left \in [Threads -> Int] BY ListTypes
<1>4. t \in Nat /\ t > 0 BY SleepAssumption
<1> DEFINE N == Len(sleeping)
<1>5. /\ N \in Nat /\ n \in 0..N /\ Len(sleeping') = N + 1
      /\ \A i \in 1..n : sleeping'[i] = sleeping[i]
      /\ sleeping'[n + 1] = running
      /\ \A i \in n + 2 .. N + 1 : sleeping'[i] = sleeping[i - 1]
  <2> DEFINE f == FirstN(sleeping, n)
             a == AfterN(sleeping, n)
  <2>1. f \in Seq(Threads) /\ Len(f) = n /\ \A i \in 1..n : f[i] = sleeping[i]
    BY <1>3 DEF FirstN
  <2>2. a \in Seq(Threads) /\ Len(a) = N - n /\ \A i \in 1 .. N - n : a[i] = sleeping[n + i]
    BY <1>3 DEF AfterN
  <2>3. sleeping' = f \o <<running>> \o a BY <1>1
  <2>4. N \in Nat BY <1>3
  <2> HIDE DEF f, a, N
  <2>5. <<running>> \in Seq(Threads) /\ Len(<<running>>) = 1 /\ <<running>>[1] = running
    BY <1>2
  <2> DEFINE g == f \o <<running>>
  <2>8. /\ g \in Seq(Threads) /\ Len(g) = n + 1 /\ g[n + 1] = running
        /\ \A i \in 1..n : g[i] = f[i]
    BY <2>1, <2>5
  <2>9. sleeping' = g \o a BY <2>3
  <2> HIDE DEF g
  <2>12. /\ Len(g \o a) = Len(g) + Len(a)
         /\ \A i \in 1 .. Len(g) + Len(a) :
              (g \o a)[i] = IF i <= Len(g) THEN g[i] ELSE a[i - Len(g)]
    BY <2>2, <2>8
  <2>10. /\ Len(sleeping') = (n + 1) + (N - n)
         /\ \A i \in 1 .. n + 1 : sleeping'[i] = g[i]
         /\ \A i \in n + 2 .. (n + 1) + (N - n) : sleeping'[i] = a[i - (n + 1)]
    <3>1. n \in 0..N BY DEF N
    <3> QED BY <2>2, <2>4, <2>8, <2>9, <2>12, <3>1
  <2>6. /\ Len(sleeping') = N + 1
        /\ \A i \in 1..n : sleeping'[i] = f[i]
        /\ sleeping'[n + 1] = running
        /\ \A i \in n + 2 .. N + 1 : sleeping'[i] = a[i - n - 1]
    BY <2>4, <2>8, <2>10
  <2>7. \A i \in n + 2 .. N + 1 : i - n - 1 \in 1 .. N - n /\ n + (i - n - 1) = i - 1
    BY <2>4
  <2>11. n \in 0..N BY DEF N
  <2> QED BY <2>1, <2>2, <2>4, <2>6, <2>7, <2>11
<1>6. \A i \in 1..N : sleeping[i] \in Threads /\ left[sleeping[i]] \in Int
                      /\ left'[sleeping[i]] = left[sleeping[i]]
  BY <1>2, <1>3 DEF Range
<1>7. left'[running] = t BY <1>2, <1>3
<1>8. \A i \in 1..n : left[sleeping[i]] < t
  BY <1>1 DEF LongestPrefix, EndBefore
<1>9. \A i \in n + 1 .. N : left[sleeping[i]] >= t
  <2>1. n < N => left[sleeping[n + 1]] >= t
    BY <1>1, <1>4, <1>5, <1>6 DEF LongestPrefix, EndBefore
  <2> QED BY <1>4, <1>5, <1>6, <2>1 DEF SleepersInOrder
<1>10. \A i \in 1 .. N + 1 :
         left'[sleeping'[i]] = IF i <= n THEN left[sleeping[i]]
                               ELSE IF i = n + 1 THEN t ELSE left[sleeping[i - 1]]
  <2> SUFFICES ASSUME NEW i \in 1 .. N + 1
               PROVE  left'[sleeping'[i]] = IF i <= n THEN left[sleeping[i]]
                                            ELSE IF i = n + 1 THEN t ELSE left[sleeping[i - 1]]
    OBVIOUS
  <2>1. CASE i <= n BY <1>5, <1>6, <2>1
  <2>2. CASE i = n + 1 BY <1>5, <1>7, <2>2
  <2>3. CASE i > n + 1
    <3>1. i \in n + 2 .. N + 1 /\ i - 1 \in 1..N BY <1>5, <2>3
    <3> QED BY <1>5, <1>6, <2>3, <3>1
  <2> QED BY <1>5, <2>1, <2>2, <2>3
<1> HIDE DEF N
<1>11. /\ \A i, j \in 1..N : i < j => left[sleeping[i]] <= left[sleeping[j]]
       /\ \A i \in 1..N : left[sleeping[i]] > 0
  BY DEF SleepersInOrder, N
<1>12. ASSUME NEW i \in 1 .. N + 1 PROVE left'[sleeping'[i]] > 0
  <2>1. CASE i <= n + 1 BY <1>4, <1>5, <1>10, <1>11, <2>1 DEF N
  <2>2. CASE i > n + 1
    <3>1. i - 1 \in 1..N /\ ~(i <= n) /\ i # n + 1 BY <1>5, <2>2
    <3> QED BY <1>10, <1>11, <3>1
  <2> QED BY <1>5, <2>1, <2>2
<1>13. ASSUME NEW i \in 1 .. N + 1, NEW j \in 1 .. N + 1, i < j
       PROVE  left'[sleeping'[i]] <= left'[sleeping'[j]]
  <2>1. CASE j <= n
    <3>1. i \in 1..N /\ j \in 1..N /\ i <= n BY <1>5, <1>13, <2>1
    <3> QED BY <1>10, <1>11, <1>13, <2>1, <3>1
  <2>2. CASE j = n + 1
    <3>1. i \in 1..n /\ i <= n /\ ~(j <= n) BY <1>5, <1>13, <2>2
    <3>2. i \in 1..N BY <1>5, <3>1 DEF N
    <3> QED BY <1>4, <1>6, <1>8, <1>10, <2>2, <3>1, <3>2 DEF N
  <2>3. CASE j > n + 1
    <3>1. j - 1 \in n + 1 .. N /\ j - 1 \in 1..N /\ ~(j <= n) /\ j # n + 1
      BY <1>5, <2>3
    <3>2. left'[sleeping'[j]] = left[sleeping[j - 1]] BY <1>10, <3>1
    <3>3. CASE i <= n
      <4>1. i \in 1..N /\ i < j - 1 BY <1>5, <2>3, <3>3 DEF N
      <4> QED BY <1>10, <1>11, <3>1, <3>2, <3>3, <4>1
    <3>4. CASE i = n + 1
      <4>1. left'[sleeping'[i]] = t BY <1>10, <3>4
      <4> QED BY <1>9, <3>1, <3>2, <4>1 DEF N
    <3>5. CASE i > n + 1
      <4>1. i - 1 \in 1..N /\ i - 1 < j - 1 /\ ~(i <= n) /\ i # n + 1
        BY <1>5, <1>13, <3>5
      <4> QED BY <1>10, <1>11, <3>1, <3>2, <4>1
    <3> QED BY <1>5, <3>3, <3>4, <3>5
  <2> QED BY <1>5, <2>1, <2>2, <2>3
<1> QED BY <1>5, <1>12, <1>13 DEF SleepersInOrder, N

\* wakeUp takes away all whose time is up, since they are the first ones.
LEMMA SleepersTimer ==
  ASSUME ListInv, SleepersInOrder, TimerInterrupt
  PROVE  SleepersInOrder'
<1>1. PICK n \in 0..Len(sleeping) :
        /\ LongestPrefix(n, sleeping, EndNow)
        /\ sleeping' = AfterN(sleeping, n)
        /\ left' = [p \in Threads |-> LeftAfterTick(p)]
  BY DEF TimerInterrupt
<1>2. sleeping \in Seq(Threads) /\ left \in [Threads -> Int] BY ListTypes
<1> DEFINE N == Len(sleeping)
<1>3. /\ N \in Nat /\ Len(sleeping') = N - n
      /\ \A i \in 1 .. N - n : sleeping'[i] = sleeping[n + i] /\ n + i \in 1..N
  BY <1>1, <1>2 DEF AfterN
<1>4. \A i \in 1..N : sleeping[i] \in Threads /\ left[sleeping[i]] \in Int
                      /\ left'[sleeping[i]] = left[sleeping[i]] - 1
  BY <1>1, <1>2 DEF LeftAfterTick, Range
<1>5. n < N => left[sleeping[n + 1]] # 1
  BY <1>1, <1>2 DEF LongestPrefix, EndNow
<1>6. \A i \in n + 1 .. N : left[sleeping[i]] > 1
  <2>1. ASSUME n < N PROVE left[sleeping[n + 1]] > 1
    <3>1. n + 1 \in 1..N BY <1>3, <2>1
    <3>2. left[sleeping[n + 1]] \in Int BY <1>4, <3>1
    <3>3. left[sleeping[n + 1]] > 0 BY <3>1 DEF SleepersInOrder
    <3> QED BY <1>5, <2>1, <3>2, <3>3
  <2> TAKE i \in n + 1 .. N
  <2>2. /\ n < N /\ n + 1 \in 1..N /\ i \in 1..N
        /\ left[sleeping[n + 1]] \in Int /\ left[sleeping[i]] \in Int
    BY <1>3, <1>4
  <2>3. CASE i = n + 1 BY <2>1, <2>2, <2>3
  <2>4. CASE i > n + 1
    <3>1. left[sleeping[n + 1]] <= left[sleeping[i]]
      BY <2>2, <2>4 DEF SleepersInOrder
    <3> QED BY <2>1, <2>2, <3>1
  <2> QED BY <1>3, <2>3, <2>4
<1>7. \A i \in 1 .. N - n : left'[sleeping'[i]] = left[sleeping[n + i]] - 1
                            /\ left[sleeping[n + i]] > 1 /\ left[sleeping[n + i]] \in Int
  <2> TAKE i \in 1 .. N - n
  <2>1. n + i \in n + 1 .. N BY <1>3
  <2> QED BY <1>3, <1>4, <1>6, <2>1
<1>8. \A i, j \in 1 .. N - n : i < j => left[sleeping[n + i]] <= left[sleeping[n + j]]
  BY <1>3 DEF SleepersInOrder
<1> HIDE DEF N
<1>9. \A i \in 1 .. N - n : left'[sleeping'[i]] > 0 BY <1>7
<1>10. \A i, j \in 1 .. N - n : i < j => left'[sleeping'[i]] <= left'[sleeping'[j]]
  <2> SUFFICES ASSUME NEW i \in 1 .. N - n, NEW j \in 1 .. N - n, i < j
               PROVE  left'[sleeping'[i]] <= left'[sleeping'[j]]
    OBVIOUS
  <2>1. left[sleeping[n + i]] <= left[sleeping[n + j]] BY <1>8
  <2> QED BY <1>7, <2>1
<1> QED BY <1>3, <1>9, <1>10 DEF SleepersInOrder

LEMMA SleepersStep == ListInv /\ SleepersInOrder /\ [Next]_vars => SleepersInOrder'
<1> SUFFICES ASSUME ListInv, SleepersInOrder, [Next]_vars PROVE SleepersInOrder'
  OBVIOUS
<1>1. ASSUME UNCHANGED sleepVars PROVE SleepersInOrder'
  BY <1>1 DEF SleepersInOrder, sleepVars
<1>2. CASE TimerInterrupt BY <1>2, SleepersTimer
<1>3. ASSUME NEW t \in SleepTimes, TimeSleep(t) PROVE SleepersInOrder'
  BY <1>3, SleepersSleep
<1>4. CASE Tick \/ ThreadDispatch \/ ThreadExit
  BY <1>1, <1>4 DEF Tick, ThreadDispatch, ThreadExit
<1>5. ASSUME NEW p \in Threads, ThreadCreate(p) \/ ThreadStart(p) PROVE SleepersInOrder'
  BY <1>1, <1>5 DEF ThreadCreate, ThreadStart
<1>6. ASSUME NEW s \in Sems, NEW v \in SemInits, SemOpen(s, v) PROVE SleepersInOrder'
  BY <1>1, <1>6 DEF SemOpen
<1>7. ASSUME NEW s \in Sems, SemWait(s) \/ SemSignal(s) \/ SemClose(s)
      PROVE  SleepersInOrder'
  BY <1>1, <1>7 DEF SemWait, SemSignal, SemClose
<1>8. CASE UNCHANGED vars
  BY <1>1, <1>8 DEF vars, sleepVars
<1> QED
  BY <1>2, <1>3, <1>4, <1>5, <1>6, <1>7, <1>8 DEF Next, Interrupts, Syscalls

\* The sleeping list is in the order of the times left and nobody on it is overdue
\* (SleepingProcesses.cpp), in any instance in which sleeps are longer than the window.
THEOREM SleepersCorrect == Spec => []SleepersInOrder
<1>1. Init => SleepersInOrder BY DEF Init, SleepersInOrder
<1> QED BY <1>1, SleepersStep, ListInvAlways, PTL DEF Spec

-----------------------------------------------------------------------------
(* The history of closings *)

\* A behaviour of KernelHistory is one of Kernel, as its actions are those of Kernel with
\* a condition on the history more: what is proved of Kernel holds of it.
LEMMA HistoryIsKernel == CloseSpec => Spec
<1>1. HInit => Init BY DEF HInit
<1>2. [Next /\ RecordClose /\ UNCHANGED ticksDue]_hvars => [Next]_vars BY DEF hvars
<1> QED BY <1>1, <1>2, PTL DEF CloseSpec, Spec

\* Whoever a closing has released has the flag that its sem_wait will look at.
ClosedAreMarked == viaClose \subseteq semDeleted

CloseInv == ClosedAreMarked /\ CloseIsReported

\* A step that can end a sem_wait closes no semaphore.
LEMMA CloseStep ==
  ASSUME CloseInv, Next, RecordClose PROVE CloseInv'
<1>1. ASSUME UNCHANGED <<open, semDeleted>>, ret' = 0 => running' \notin semDeleted
      PROVE  CloseInv'
  <2>1. viaClose' \subseteq viaClose BY <1>1 DEF RecordClose
  <2> QED BY <1>1, <2>1 DEF CloseInv, ClosedAreMarked, CloseIsReported
<1>2. NoRet # 0 BY SemAssumption
<1>3. ASSUME NEW k, NEW q, NEW fin, NEW blk, Dispatch(k, q, fin, blk)
      PROVE  ret' = 0 => running' \notin semDeleted
  BY <1>2, <1>3 DEF Dispatch, WaitResult
<1>4. CASE Tick
  <2>1. UNCHANGED <<open, semDeleted, ret, running>> /\ ssip' = "raised"
    BY <1>4 DEF Tick, semVars
  <2>2. viaClose' = viaClose BY <2>1 DEF RecordClose
  <2> QED BY <2>1, <2>2 DEF CloseInv, ClosedAreMarked, CloseIsReported
<1>5. CASE TimerInterrupt
  <2>1. UNCHANGED <<open, semDeleted>> BY <1>5 DEF TimerInterrupt, semVars
  <2>2. ret' = NoRet \/ \E q, blk : Dispatch("timer", q, finished, blk)
    BY <1>5 DEF TimerInterrupt
  <2> QED BY <1>1, <1>2, <1>3, <2>1, <2>2
<1>6. CASE ThreadDispatch
  BY <1>1, <1>3, <1>6 DEF ThreadDispatch, semVars
<1>7. CASE ThreadExit
  BY <1>1, <1>3, <1>7 DEF ThreadExit, semVars
<1>8. ASSUME NEW p \in Threads, ThreadCreate(p) \/ ThreadStart(p) PROVE CloseInv'
  BY <1>1, <1>2, <1>8 DEF ThreadCreate, ThreadStart, Return, semVars
<1>9. ASSUME NEW s \in Sems, NEW v \in SemInits, SemOpen(s, v) PROVE CloseInv'
  <2>1. open \ open' = {} /\ semDeleted' = semDeleted /\ ret' = NoRet
    BY <1>9 DEF SemOpen, Return
  <2>2. viaClose' \subseteq viaClose BY <2>1 DEF RecordClose
  <2> QED BY <1>2, <2>1, <2>2 DEF CloseInv, ClosedAreMarked, CloseIsReported
<1>10. ASSUME NEW s \in Sems, SemWait(s) PROVE CloseInv'
  <2>1. UNCHANGED <<open, semDeleted>> BY <1>10 DEF SemWait
  <2>2. CASE MustBlock(semValue[s] - 1)
    BY <1>1, <1>3, <1>10, <2>1, <2>2 DEF SemWait
  <2>3. CASE ~MustBlock(semValue[s] - 1)
    BY <1>1, <1>2, <1>10, <2>1, <2>3 DEF SemWait, WaitResult
  <2> QED BY <2>2, <2>3
<1>11. ASSUME NEW s \in Sems, SemSignal(s) PROVE CloseInv'
  <2>1. UNCHANGED <<open, semDeleted>> BY <1>11 DEF SemSignal
  <2>2. ret' = NoRet BY <1>11 DEF SemSignal, Return
  <2> QED BY <1>1, <1>2, <2>1, <2>2
<1>12. ASSUME NEW s \in Sems, SemClose(s) PROVE CloseInv'
  <2>1. /\ open \ open' \subseteq {s} /\ ret' = NoRet
        /\ semDeleted' = semDeleted \cup Range(waiting[s])
    BY <1>12 DEF SemClose, Return
  <2>2. viaClose' \subseteq viaClose \cup Range(waiting[s])
    BY <2>1 DEF RecordClose
  <2> QED BY <1>2, <2>1, <2>2 DEF CloseInv, ClosedAreMarked, CloseIsReported
<1>13. ASSUME NEW t \in SleepTimes, TimeSleep(t) PROVE CloseInv'
  BY <1>1, <1>2, <1>13 DEF TimeSleep, semVars
<1> QED
  BY <1>4, <1>5, <1>6, <1>7, <1>8, <1>9, <1>10, <1>11, <1>12, <1>13
  DEF Next, Interrupts, Syscalls

\* No waiter of a semaphore that is closed is told that it was signalled, however long it
\* takes until it gets the processor (SCB.cpp:70-83).
THEOREM CloseCorrect == CloseSpec => []CloseIsReported
<1>1. HInit => CloseInv
  BY SemAssumption DEF HInit, Init, CloseInv, ClosedAreMarked, CloseIsReported
<1>2. CloseInv /\ [Next /\ RecordClose /\ UNCHANGED ticksDue]_hvars => CloseInv'
  <2>1. CloseInv /\ UNCHANGED hvars => CloseInv'
    BY DEF CloseInv, ClosedAreMarked, CloseIsReported, hvars, vars
  <2> QED BY <2>1, CloseStep
<1>3. CloseInv => CloseIsReported BY DEF CloseInv
<1> QED BY <1>1, <1>2, <1>3, PTL DEF CloseSpec
=============================================================================
