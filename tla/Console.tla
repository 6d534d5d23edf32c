------------------------------ MODULE Console ------------------------------
(***************************************************************************)
(* The console: the two threads and the two buffers of CCB.cpp, the putc   *)
(* and getc system calls that fill and empty them (kernel.cpp:132-149) and *)
(* the loop in which main waits for the output (main.cpp:54-56).           *)
(*                                                                         *)
(* The console threads run with interrupts enabled and can lose the        *)
(* processor between any two instructions; a system call is one step, up   *)
(* to the SCB::wait in getc that gives the processor up.  Which thread     *)
(* makes the next step is left open: Kernel shows that each gets its turn. *)
(* A round of a polling loop that finds nothing to do is a stuttering      *)
(* step, and so is the console interrupt, which only completes itself.     *)
(*                                                                         *)
(* The i-th character typed, and the i-th given to putc, is the number i,  *)
(* or Nul.                                                                 *)
(***************************************************************************)
EXTENDS IOBuffer, Sequences, FiniteSets

CONSTANTS Clients,    \* threads that call putc and getc
          User,       \* userProcess, for which main waits
          MaxTyped,   \* bound on the characters that are typed
          MaxUnsent,  \* bound on the characters putc is ahead of the device
          NulTyped,   \* which characters typed are 0
          NulPut      \* which characters given to putc are 0

\* A buffer that is full is overwritten by the next character: the output is
\* slower than the clients only as long as it has room.
ASSUME ConsoleAssumption ==
  /\ User \in Clients
  /\ IsFiniteSet(Clients)
  /\ MaxTyped \in Nat
  /\ MaxUnsent \in 0..capacity
  /\ NulTyped \subseteq Nat
  /\ NulPut \subseteq Nat

VARIABLES
  typed,             \* characters typed so far
  taken,             \* how many of them the input thread has read
  inputBuffer,       \* CCB::inputBuffer
  inputPc,           \* where the input thread is in inputBody
  inputSize,         \* the size it has loaded
  semInput,          \* CCB::semInput->semValue; the input thread waits on it
  inputBufferEmpty,  \* CCB::inputBufferEmpty->semValue
  emptyQueue,        \* clients waiting on it
  inGetc,            \* clients in the getc system call
  got,               \* what the calls of getc have returned, in their order
  outputBuffer,      \* CCB::outputBuffer
  outputPc,          \* where the output thread is in outputBody
  outputSize,        \* the size it has loaded
  outputChar,        \* the character it is going to send
  semOutput,         \* CCB::semOutput->semValue; the output thread waits on it
  put,               \* calls of putc
  txReady,           \* CONSOLE_TX_STATUS_BIT
  sent,              \* what the device has been given
  finished,          \* userProcess->isFinished()
  returned           \* main has returned

inputVars  == <<typed, taken, inputBuffer, inputPc, inputSize, semInput,
                inputBufferEmpty, emptyQueue, inGetc, got>>
outputVars == <<outputBuffer, outputPc, outputSize, outputChar, semOutput, put,
                txReady, sent>>
mainVars   == <<finished, returned>>
vars       == <<inputVars, outputVars, mainVars>>

InChar(i)  == IF i \in NulTyped THEN Nul ELSE i
OutChar(i) == IF i \in NulPut THEN Nul ELSE i

-----------------------------------------------------------------------------
(* The device *)

Type ==
  /\ typed < MaxTyped
  /\ typed' = typed + 1
  /\ UNCHANGED <<taken, inputBuffer, inputPc, inputSize, semInput,
                 inputBufferEmpty, emptyQueue, inGetc, got, outputVars, mainVars>>

Transmit ==
  /\ ~txReady
  /\ txReady' = TRUE
  /\ UNCHANGED <<inputVars, outputBuffer, outputPc, outputSize, outputChar,
                 semOutput, put, sent, mainVars>>

-----------------------------------------------------------------------------
(* The input thread: inputBody *)

\* It finds a character in the device, reads it and stores it behind the others.
InputStore ==
  /\ inputPc = "poll"
  /\ taken < typed
  /\ taken' = taken + 1
  /\ inputBuffer' = Stored(inputBuffer, InChar(taken + 1))
  /\ inputPc' = "load"
  /\ UNCHANGED <<typed, inputSize, semInput, inputBufferEmpty, emptyQueue,
                 inGetc, got, outputVars, mainVars>>

\* size++, the load,
InputLoad ==
  /\ inputPc = "load"
  /\ inputSize' = inputBuffer.size
  /\ inputPc' = "add"
  /\ UNCHANGED <<typed, taken, inputBuffer, semInput, inputBufferEmpty,
                 emptyQueue, inGetc, got, outputVars, mainVars>>

\* and the store.
InputAdd ==
  /\ inputPc = "add"
  /\ inputBuffer' = Pushed(inputBuffer, inputSize)
  /\ inputSize' = 0
  /\ inputPc' = "signal"
  /\ UNCHANGED <<typed, taken, semInput, inputBufferEmpty, emptyQueue, inGetc,
                 got, outputVars, mainVars>>

\* Mutant: < for <=.
ReleasesReader_Strict(v) == v < 0

\* SCB::signal releases a waiting thread when the incremented value is v.
ReleasesReader(v) == v <= 0

\* sem_signal(inputBufferEmpty).
InputSignal ==
  /\ inputPc = "signal"
  /\ inputBufferEmpty' = inputBufferEmpty + 1
  /\ emptyQueue' = IF ReleasesReader(inputBufferEmpty')
                   THEN Tail(emptyQueue) ELSE emptyQueue
  /\ inputPc' = "wait"
  /\ UNCHANGED <<typed, taken, inputBuffer, inputSize, semInput, inGetc, got,
                 outputVars, mainVars>>

\* Mutant: wait blocks but does not count.
Waited_Kept(v) == v

\* The value of a semaphore after SCB::wait.
Waited(v) == v - 1

\* sem_wait(semInput).
InputWait ==
  /\ inputPc = "wait"
  /\ semInput' = Waited(semInput)
  /\ inputPc' = IF semInput' < 0 THEN "blocked" ELSE "poll"
  /\ UNCHANGED <<typed, taken, inputBuffer, inputSize, inputBufferEmpty,
                 emptyQueue, inGetc, got, outputVars, mainVars>>

InputThread == InputStore \/ InputLoad \/ InputAdd \/ InputSignal \/ InputWait

-----------------------------------------------------------------------------
(* The output thread: outputBody *)

\* The device is ready and the first character is not 0: it is read, and size
\* is loaded.
OutputTake ==
  /\ outputPc = "poll"
  /\ txReady
  /\ PeekFront(outputBuffer) # Nul
  /\ outputChar' = PeekFront(outputBuffer)
  /\ outputSize' = outputBuffer.size
  /\ outputPc' = "subtract"
  /\ UNCHANGED <<inputVars, outputBuffer, semOutput, put, txReady, sent, mainVars>>

\* size is stored, head moves on and the device gets the character.
OutputSend ==
  /\ outputPc = "subtract"
  /\ outputBuffer' = Popped(outputBuffer, outputSize)
  /\ sent' = Append(sent, outputChar)
  /\ txReady' = FALSE
  /\ outputPc' = "wait"
  /\ outputSize' = 0
  /\ outputChar' = Nul
  /\ UNCHANGED <<inputVars, semOutput, put, mainVars>>

\* sem_wait(semOutput).
OutputWait ==
  /\ outputPc = "wait"
  /\ semOutput' = Waited(semOutput)
  /\ outputPc' = IF semOutput' < 0 THEN "blocked" ELSE "poll"
  /\ UNCHANGED <<inputVars, outputBuffer, outputSize, outputChar, put, txReady,
                 sent, mainVars>>

OutputThread == OutputTake \/ OutputSend \/ OutputWait

-----------------------------------------------------------------------------
(* System calls *)

Calls(p) == p \notin inGetc /\ (p = User => ~finished)

Putc(p) ==
  /\ Calls(p)
  /\ put - Len(sent) < MaxUnsent
  /\ put' = put + 1
  /\ outputBuffer' = PushBack(outputBuffer, OutChar(put + 1))
  /\ semOutput' = semOutput + 1
  /\ outputPc' = IF semOutput' <= 0 /\ outputPc = "blocked" THEN "poll" ELSE outputPc
  /\ UNCHANGED <<inputVars, outputSize, outputChar, txReady, sent, mainVars>>

\* The loop of the getc handler, up to its return or to the wait that blocks.  A
\* positive value of inputBufferEmpty only makes for further rounds.
GetcLoop(p) ==
  \/ /\ PeekFront(inputBuffer) # Nul
     /\ got' = Append(got, PeekFront(inputBuffer))
     /\ inputBuffer' = PopFront(inputBuffer)
     /\ inGetc' = inGetc \ {p}
     /\ UNCHANGED <<inputBufferEmpty, emptyQueue>>
  \/ /\ PeekFront(inputBuffer) = Nul
     /\ inputBufferEmpty' = Waited(IF inputBufferEmpty > 0 THEN 0 ELSE inputBufferEmpty)
     /\ emptyQueue' = Append(emptyQueue, p)
     /\ inGetc' = inGetc \cup {p}
     /\ UNCHANGED <<got, inputBuffer>>

\* Mutant: getc asks for a character only when it is going to wait for one.
Asks_WhenEmpty(v) == IF PeekFront(inputBuffer) = Nul THEN v + 1 ELSE v

\* The value of semInput after sem_signal.
Asks(v) == v + 1

Getc(p) ==
  /\ Calls(p)
  /\ semInput' = Asks(semInput)
  /\ inputPc' = IF semInput < semInput' /\ semInput' <= 0 /\ inputPc = "blocked"
                THEN "poll" ELSE inputPc
  /\ GetcLoop(p)
  /\ UNCHANGED <<typed, taken, inputSize, outputVars, mainVars>>

\* A client that inputBufferEmpty has released goes on in the loop.
GetcResume(p) ==
  /\ p \in inGetc
  /\ \A i \in 1..Len(emptyQueue) : emptyQueue[i] # p
  /\ GetcLoop(p)
  /\ UNCHANGED <<typed, taken, inputPc, inputSize, semInput, outputVars, mainVars>>

-----------------------------------------------------------------------------
(* main *)

UserFinish ==
  /\ Calls(User)
  /\ finished' = TRUE
  /\ UNCHANGED <<inputVars, outputVars, returned>>

\* Mutant: main does not wait for the output.
OutputDone_Always(v) == TRUE

OutputDone(v) == v = 0

\* Both loops of main have ended.  The machine is then stopped.
MainReturn ==
  /\ finished
  /\ OutputDone(semOutput)
  /\ returned' = TRUE
  /\ UNCHANGED <<inputVars, outputVars, finished>>

-----------------------------------------------------------------------------

Init ==
  /\ typed = 0
  /\ taken = 0
  /\ \E fill \in {Nul, Junk} : /\ inputBuffer = NewBuffer(fill)
                               /\ outputBuffer = NewBuffer(fill)
  /\ inputPc = "poll"
  /\ inputSize = 0
  /\ semInput = 0
  /\ inputBufferEmpty = 0
  /\ emptyQueue = <<>>
  /\ inGetc = {}
  /\ got = <<>>
  /\ outputPc = "poll"
  /\ outputSize = 0
  /\ outputChar = Nul
  /\ semOutput = 0
  /\ put = 0
  /\ txReady \in BOOLEAN
  /\ sent = <<>>
  /\ finished = FALSE
  /\ returned = FALSE

Next ==
  /\ ~returned
  /\ \/ Type
     \/ Transmit
     \/ InputThread
     \/ OutputThread
     \/ \E p \in Clients : Putc(p) \/ Getc(p) \/ GetcResume(p)
     \/ UserFinish
     \/ MainReturn

Spec == Init /\ [][Next]_vars

-----------------------------------------------------------------------------
(* Properties *)

Chars == Nat \cup {Junk}

Buffers == [array : [Slots -> Chars], head : Slots, tail : Slots, size : Nat]

ConsoleTypeOK ==
  /\ typed \in 0..MaxTyped /\ taken \in 0..typed
  /\ inputBuffer \in Buffers
  /\ inputPc \in {"poll", "load", "add", "signal", "wait", "blocked"}
  /\ inputSize \in Nat
  /\ semInput \in Int
  /\ inputBufferEmpty \in Int
  /\ emptyQueue \in Seq(Clients)
  /\ inGetc \subseteq Clients
  /\ got \in Seq(Chars)
  /\ outputBuffer \in Buffers
  /\ outputPc \in {"poll", "subtract", "wait", "blocked"}
  /\ outputSize \in Nat
  /\ outputChar \in Chars
  /\ semOutput \in Int
  /\ put \in Nat
  /\ txReady \in BOOLEAN
  /\ sent \in Seq(Chars)
  /\ finished \in BOOLEAN
  /\ returned \in BOOLEAN

\* The device gets the characters in the order of the calls of putc, none twice
\* and none left out, as long as putc is not more than a buffer ahead, wherever
\* the output thread is interrupted (outputBody, pushBack, popFront).
SentInOrder == \A i \in 1..Len(sent) : sent[i] = OutChar(i)

\* When main returns, every character given to putc has been sent (main.cpp:54-56):
\* semOutput is 0 only then, and not while the output thread has one in its hands.
NothingUnsentAtTheEnd == returned => Len(sent) = put

\* The input thread reads at most one character that no getc has asked for
\* (inputBody waits on semInput after each), so that the input buffer holds one
\* more than there are threads in getc and cannot overflow.
ReadAheadByOne == taken <= Len(got) + Cardinality(inGetc) + 1

\* Characters that have been stored and counted in the input buffer.
Counted == taken - (IF inputPc \in {"load", "add"} THEN 1 ELSE 0)

\* size is what it should be: no update of it has been lost (CCB.cpp:49, :57).
InputExact  == inputBuffer.size = Counted - Len(got)
OutputExact == outputBuffer.size = put - Len(sent)

\* As long as no update of size is lost, the calls of getc return what was typed
\* and in that order, whichever of several readers is released.
GotInOrder == InputExact => \A i \in 1..Len(got) : got[i] = InChar(i)

\* No reader waits on inputBufferEmpty for a character that is in the buffer: there
\* are at most as many as readers that have been released and will take them, and
\* the one the input thread is about to signal.
Released == {p \in inGetc : \A i \in 1..Len(emptyQueue) : emptyQueue[i] # p}

NoStrandedReader ==
  InputExact /\ PeekFront(inputBuffer) # Nul /\ emptyQueue # <<>> =>
    inputBuffer.size <= Cardinality(Released) + (IF inputPc = "signal" THEN 1 ELSE 0)
=============================================================================
