---------------------------- MODULE ConsoleProofs ----------------------------
(***************************************************************************)
(* Theorems about Console, for every capacity of the buffers, every number *)
(* of clients and every interleaving.  Inv is the inductive invariant: the *)
(* types, what the three semaphores count, and what lies in the ring of    *)
(* the output buffer.  ReadInv is a second one, on top of Inv, about the   *)
(* input buffer and its readers.                                           *)
(***************************************************************************)
EXTENDS Console, FiniteSetTheorems, TLAPS

-----------------------------------------------------------------------------
(* The invariant *)

\* A negative value of inputBufferEmpty is the number of threads that wait on it.
EmptyInv ==
  Len(emptyQueue) = IF inputBufferEmpty < 0 THEN -inputBufferEmpty ELSE 0

\* The input thread has taken a character and not yet waited for the next request.
InputBusy == inputPc \in {"load", "add", "signal", "wait"}

\* semInput counts the calls of getc less the waits of the input thread, which
\* waits exactly while it is negative.
InputInv ==
  /\ semInput + taken = Len(got) + Cardinality(inGetc) + (IF InputBusy THEN 1 ELSE 0)
  /\ IF inputPc = "blocked" THEN semInput = -1 ELSE semInput >= 0

\* semOutput counts the calls of putc less the waits of the output thread.  The size of
\* the buffer, and the one the output thread has loaded, are never too big: an update
\* that is lost makes them smaller.
OutputInv ==
  /\ semOutput + Len(sent) = put + (IF outputPc = "wait" THEN 1 ELSE 0)
  /\ Len(sent) + outputBuffer.size <= put
  /\ outputPc = "subtract" => outputSize > 0 /\ Len(sent) + outputSize <= put
  /\ returned => Len(sent) = put

\* The slot d places behind the first one.
Slot(b, d) == IF b.head + d < capacity THEN b.head + d ELSE b.head + d - capacity

\* What has been put and not sent lies in the ring from head on, in order, whatever
\* the value of size.
RingInv ==
  /\ put - Len(sent) \in 0..capacity
  /\ outputBuffer.tail = Slot(outputBuffer, put - Len(sent))
  /\ \A d \in 0 .. put - Len(sent) - 1 :
       outputBuffer.array[Slot(outputBuffer, d)] = OutChar(Len(sent) + 1 + d)
  /\ outputPc = "subtract" => outputChar = OutChar(Len(sent) + 1)

Inv == ConsoleTypeOK /\ EmptyInv /\ InputInv /\ OutputInv /\ RingInv /\ SentInOrder

-----------------------------------------------------------------------------
(* The operations of the buffer *)

LEMMA CharTypes ==
  /\ Nul \in Chars
  /\ \A i \in Nat : InChar(i) \in Chars /\ OutChar(i) \in Chars
BY DEF Nul, Chars, InChar, OutChar

LEMMA AfterProperties ==
  ASSUME NEW i \in Slots PROVE After(i) \in Slots
BY CapacityAssumption DEF Slots, After

LEMMA PeekFrontType ==
  ASSUME NEW b \in Buffers PROVE PeekFront(b) \in Chars
BY CharTypes DEF Buffers, PeekFront

LEMMA StoredProperties ==
  ASSUME NEW b \in Buffers, NEW c \in Chars
  PROVE  /\ Stored(b, c) \in Buffers
         /\ Stored(b, c).head = b.head /\ Stored(b, c).tail = b.tail
         /\ Stored(b, c).size = b.size
         /\ Stored(b, c).array = [b.array EXCEPT ![b.tail] = c]
BY DEF Stored, Buffers

LEMMA PushedProperties ==
  ASSUME NEW b \in Buffers, NEW s \in Nat
  PROVE  /\ Pushed(b, s) \in Buffers
         /\ Pushed(b, s).head = b.head /\ Pushed(b, s).tail = After(b.tail)
         /\ Pushed(b, s).size = s + 1 /\ Pushed(b, s).array = b.array
<1>1. b.tail \in Slots BY DEF Buffers
<1>2. After(b.tail) \in Slots BY <1>1, AfterProperties
<1> DEFINE c == [b EXCEPT !.size = s + 1]
<1>3. c \in Buffers BY s + 1 \in Nat DEF Buffers
<1>4. c.head = b.head /\ c.tail = b.tail /\ c.size = s + 1 /\ c.array = b.array
  BY DEF Buffers
<1>5. Pushed(b, s) = [c EXCEPT !.tail = After(b.tail)] BY DEF Pushed
<1> HIDE DEF c
<1> QED BY <1>2, <1>3, <1>4, <1>5 DEF Buffers

LEMMA PoppedProperties ==
  ASSUME NEW b \in Buffers, NEW s \in Nat \ {0}
  PROVE  /\ Popped(b, s) \in Buffers
         /\ Popped(b, s).head = After(b.head) /\ Popped(b, s).tail = b.tail
         /\ Popped(b, s).size = s - 1 /\ Popped(b, s).array = b.array
<1>1. b.head \in Slots BY DEF Buffers
<1>2. After(b.head) \in Slots BY <1>1, AfterProperties
<1> DEFINE c == [b EXCEPT !.size = s - 1]
<1>3. c \in Buffers BY s - 1 \in Nat DEF Buffers
<1>4. c.head = b.head /\ c.tail = b.tail /\ c.size = s - 1 /\ c.array = b.array
  BY DEF Buffers
<1>5. Popped(b, s) = [c EXCEPT !.head = After(b.head)] BY DEF Popped
<1> HIDE DEF c
<1> QED BY <1>2, <1>3, <1>4, <1>5 DEF Buffers

LEMMA PopFrontType ==
  ASSUME NEW b \in Buffers PROVE PopFront(b) \in Buffers
<1>1. b.size \in Nat BY DEF Buffers
<1> QED BY <1>1, PoppedProperties DEF PopFront

\* A slot less than capacity places behind is a slot, two of them differ, and moving
\* head on makes every place one less.
LEMMA SlotProperties ==
  ASSUME NEW b \in Buffers, NEW n \in 0..capacity
  PROVE  /\ \A d \in 0 .. capacity : Slot(b, d) \in Slots
         /\ \A d \in 0 .. n - 1 : n < capacity => Slot(b, d) # Slot(b, n)
         /\ n < capacity => After(Slot(b, n)) = Slot(b, n + 1)
         /\ Slot(b, 0) = b.head
<1>1. b.head \in 0 .. capacity - 1 BY DEF Buffers, Slots
<1> QED BY <1>1, CapacityAssumption DEF Slot, Slots, After

\* When the first character is taken, each of the others comes one place nearer.
LEMMA SlotAfterHead ==
  ASSUME NEW b \in Buffers, NEW c, c.head = After(b.head)
  PROVE  \A d \in 0 .. capacity - 1 : Slot(c, d) = Slot(b, d + 1)
<1>1. b.head \in 0 .. capacity - 1 BY DEF Buffers, Slots
<1>2. c.head = IF b.head = capacity - 1 THEN 0 ELSE b.head + 1 BY DEF After
<1> QED BY <1>1, <1>2, CapacityAssumption DEF Slot

-----------------------------------------------------------------------------
(* The steps of the device and of the input thread *)

LEMMA InputFrame ==
  ASSUME EmptyInv, InputInv, UNCHANGED inputVars
  PROVE  EmptyInv' /\ InputInv'
BY DEF EmptyInv, InputInv, InputBusy, inputVars

LEMMA OutputFrame ==
  ASSUME OutputInv, RingInv, SentInOrder, UNCHANGED <<outputVars, mainVars>>
  PROVE  OutputInv' /\ RingInv' /\ SentInOrder'
BY DEF OutputInv, RingInv, Slot, SentInOrder, outputVars, mainVars

LEMMA DeviceStep == ASSUME Inv, ~returned, Type \/ Transmit PROVE Inv'
<1>1. CASE Type
  <2>1. ConsoleTypeOK'
    BY <1>1, ConsoleAssumption DEF Inv, ConsoleTypeOK, Type, outputVars, mainVars
  <2>2. EmptyInv' /\ InputInv'
    BY <1>1 DEF Inv, EmptyInv, InputInv, InputBusy, Type
  <2>3. OutputInv' /\ RingInv' /\ SentInOrder'
    BY <1>1, OutputFrame DEF Inv, Type
  <2> QED BY <2>1, <2>2, <2>3 DEF Inv
<1>2. CASE Transmit
  <2>1. ConsoleTypeOK'
    BY <1>2 DEF Inv, ConsoleTypeOK, Transmit, inputVars, mainVars
  <2>2. EmptyInv' /\ InputInv'
    BY <1>2, InputFrame DEF Inv, Transmit
  <2>3. OutputInv' /\ RingInv' /\ SentInOrder'
    BY <1>2 DEF Inv, OutputInv, RingInv, Slot, SentInOrder, Transmit, mainVars
  <2> QED BY <2>1, <2>2, <2>3 DEF Inv
<1> QED BY <1>1, <1>2

LEMMA InputStep == ASSUME Inv, InputThread PROVE Inv'
<1>1. OutputInv' /\ RingInv' /\ SentInOrder'
  BY OutputFrame
  DEF Inv, InputThread, InputStore, InputLoad, InputAdd, InputSignal, InputWait
<1>2. semInput \in Int /\ taken \in Nat /\ inputBufferEmpty \in Int
      /\ inputBuffer \in Buffers /\ inputSize \in Nat /\ got \in Seq(Chars)
      /\ emptyQueue \in Seq(Clients)
  BY ConsoleAssumption DEF Inv, ConsoleTypeOK
<1>3. Cardinality(inGetc) \in Nat
  BY ConsoleAssumption, FS_Subset, FS_CardinalityType DEF Inv, ConsoleTypeOK
<1>4. CASE InputStore
  <2>1. inputBuffer' \in Buffers
    <3>1. InChar(taken + 1) \in Chars BY <1>2, CharTypes
    <3> QED BY <1>2, <1>4, <3>1, StoredProperties DEF InputStore
  <2>2. ConsoleTypeOK'
    BY <1>4, <2>1, ConsoleAssumption
    DEF Inv, ConsoleTypeOK, InputStore, outputVars, mainVars
  <2>3. EmptyInv' /\ InputInv'
    BY <1>2, <1>3, <1>4 DEF Inv, EmptyInv, InputInv, InputBusy, InputStore
  <2> QED BY <1>1, <2>2, <2>3 DEF Inv
<1>5. CASE InputLoad
  <2>1. inputSize' \in Nat
    BY <1>2, <1>5 DEF InputLoad, Buffers
  <2>2. ConsoleTypeOK'
    BY <1>5, <2>1 DEF Inv, ConsoleTypeOK, InputLoad, outputVars, mainVars
  <2>3. EmptyInv' /\ InputInv'
    BY <1>5 DEF Inv, EmptyInv, InputInv, InputBusy, InputLoad
  <2> QED BY <1>1, <2>2, <2>3 DEF Inv
<1>6. CASE InputAdd
  <2>1. inputBuffer' \in Buffers
    BY <1>2, <1>6, PushedProperties DEF InputAdd
  <2>2. ConsoleTypeOK'
    BY <1>6, <2>1 DEF Inv, ConsoleTypeOK, InputAdd, outputVars, mainVars
  <2>3. EmptyInv' /\ InputInv'
    BY <1>6 DEF Inv, EmptyInv, InputInv, InputBusy, InputAdd
  <2> QED BY <1>1, <2>2, <2>3 DEF Inv
<1>7. CASE InputSignal
  <2>1. /\ emptyQueue' \in Seq(Clients)
        /\ EmptyInv'
    <3>1. CASE inputBufferEmpty < 0
      <4>1. emptyQueue # <<>> BY <1>2, <3>1 DEF Inv, EmptyInv
      <4>2. /\ emptyQueue' = Tail(emptyQueue) /\ emptyQueue' \in Seq(Clients)
            /\ Len(emptyQueue') = Len(emptyQueue) - 1
        BY <1>2, <1>7, <3>1, <4>1 DEF InputSignal, ReleasesReader
      <4> QED BY <1>2, <1>7, <3>1, <4>2 DEF Inv, EmptyInv, InputSignal
    <3>2. CASE inputBufferEmpty >= 0
      BY <1>2, <1>7, <3>2 DEF Inv, EmptyInv, InputSignal, ReleasesReader
    <3> QED BY <1>2, <3>1, <3>2
  <2>2. ConsoleTypeOK'
    BY <1>7, <2>1 DEF Inv, ConsoleTypeOK, InputSignal, outputVars, mainVars
  <2>3. InputInv'
    BY <1>7 DEF Inv, InputInv, InputBusy, InputSignal
  <2> QED BY <1>1, <2>1, <2>2, <2>3 DEF Inv
<1>8. CASE InputWait
  <2>1. ConsoleTypeOK'
    BY <1>8 DEF Inv, ConsoleTypeOK, InputWait, Waited, outputVars, mainVars
  <2>2. EmptyInv' /\ InputInv'
    BY <1>2, <1>3, <1>8 DEF Inv, EmptyInv, InputInv, InputBusy, InputWait, Waited
  <2> QED BY <1>1, <2>1, <2>2 DEF Inv
<1> QED BY <1>4, <1>5, <1>6, <1>7, <1>8 DEF InputThread

-----------------------------------------------------------------------------
(* The steps of the output thread *)

LEMMA OutputTakeStep == ASSUME Inv, OutputTake PROVE Inv'
<1>1. /\ outputBuffer \in Buffers /\ outputBuffer.size \in Nat
      /\ put \in Nat /\ sent \in Seq(Chars) /\ semOutput \in Int
  BY DEF Inv, ConsoleTypeOK, Buffers
<1>2. outputBuffer.size > 0 /\ outputChar' = outputBuffer.array[outputBuffer.head]
  BY <1>1 DEF OutputTake, PeekFront
<1>3. ConsoleTypeOK'
  <2>1. outputChar' \in Chars BY <1>1, PeekFrontType DEF OutputTake
  <2>2. outputSize' \in Nat BY <1>1 DEF OutputTake
  <2> QED BY <2>1, <2>2 DEF Inv, ConsoleTypeOK, OutputTake, inputVars, mainVars
<1>4. EmptyInv' /\ InputInv' BY InputFrame DEF Inv, OutputTake
<1>5. OutputInv' BY <1>1, <1>2 DEF Inv, OutputInv, OutputTake, mainVars
<1>6. RingInv' /\ SentInOrder'
  <2>1. 0 \in 0 .. put - Len(sent) - 1 BY <1>1, <1>2 DEF Inv, OutputInv
  <2>2. Slot(outputBuffer, 0) = outputBuffer.head
    BY <1>1, CapacityAssumption DEF Slot, Buffers, Slots
  <2>3. outputChar' = OutChar(Len(sent) + 1 + 0)
    BY <1>2, <2>1, <2>2 DEF Inv, RingInv
  <2>4. outputChar' = OutChar(Len(sent) + 1)
    BY <1>1, <2>3
  <2> QED BY <2>4 DEF Inv, RingInv, Slot, SentInOrder, OutputTake
<1> QED BY <1>3, <1>4, <1>5, <1>6 DEF Inv

LEMMA OutputSendStep == ASSUME Inv, ~returned, OutputSend PROVE Inv'
<1>1. /\ outputBuffer \in Buffers /\ outputSize \in Nat \ {0}
      /\ put \in Nat /\ sent \in Seq(Chars) /\ semOutput \in Int
      /\ outputChar \in Chars
  BY DEF Inv, ConsoleTypeOK, OutputInv, OutputSend
<1>2. /\ sent' \in Seq(Chars) /\ Len(sent') = Len(sent) + 1
      /\ \A i \in 1..Len(sent) : sent'[i] = sent[i]
      /\ sent'[Len(sent) + 1] = outputChar
  BY <1>1 DEF OutputSend
<1>3. /\ outputBuffer' \in Buffers
      /\ outputBuffer'.head = After(outputBuffer.head)
      /\ outputBuffer'.tail = outputBuffer.tail
      /\ outputBuffer'.size = outputSize - 1
      /\ outputBuffer'.array = outputBuffer.array
  BY <1>1, PoppedProperties DEF OutputSend
<1>4. ConsoleTypeOK'
  BY <1>2, <1>3, CharTypes
  DEF Inv, ConsoleTypeOK, OutputSend, inputVars, mainVars
<1>5. EmptyInv' /\ InputInv' BY InputFrame DEF Inv, OutputSend
<1>6. /\ outputPc = "subtract" /\ outputPc' = "wait"
      /\ UNCHANGED <<semOutput, put, returned>>
  BY DEF OutputSend, mainVars
<1>7. Len(sent) + outputSize <= put /\ put - Len(sent) \in 0..capacity
  BY <1>6 DEF Inv, OutputInv, RingInv
<1>8. OutputInv'
  <2>1. /\ semOutput + Len(sent) = put + (IF outputPc = "wait" THEN 1 ELSE 0)
        /\ ~returned
    BY DEF Inv, OutputInv
  <2> QED BY <1>1, <1>2, <1>3, <1>6, <1>7, <2>1 DEF OutputInv
<1>9. SentInOrder'
  <2>1. outputChar = OutChar(Len(sent) + 1) BY DEF Inv, RingInv, OutputSend
  <2> QED BY <1>1, <1>2, <2>1 DEF Inv, SentInOrder, OutChar
<1>10. RingInv'
  <2> DEFINE n == put - Len(sent)
  <2>1. n \in 1..capacity /\ put' - Len(sent') = n - 1
    <3>1. Len(sent) \in Nat /\ put \in Nat /\ put' = put BY <1>1, <1>6
    <3>2. n >= outputSize /\ n \in Int BY <1>1, <1>7, <3>1
    <3>3. n <= capacity /\ capacity \in Nat BY <1>7, CapacityAssumption
    <3>4. put' - Len(sent') = n - 1 BY <1>2, <3>1
    <3> HIDE DEF n
    <3> QED BY <1>1, <3>2, <3>3, <3>4
  <2>2. \A d \in 0 .. capacity - 1 : Slot(outputBuffer', d) = Slot(outputBuffer, d + 1)
    BY <1>1, <1>3, SlotAfterHead
  <2>3. outputBuffer'.tail = Slot(outputBuffer', n - 1)
    <3>1. n - 1 \in 0 .. capacity - 1 /\ (n - 1) + 1 = n
      BY <2>1, CapacityAssumption
    <3> QED BY <1>3, <2>2, <3>1 DEF Inv, RingInv
  <2>4. ASSUME NEW d \in 0 .. (n - 1) - 1
        PROVE  outputBuffer'.array[Slot(outputBuffer', d)] = OutChar(Len(sent') + 1 + d)
    <3>1. d \in 0 .. capacity - 1 /\ d + 1 \in 0 .. n - 1
      BY <2>1, CapacityAssumption
    <3>2. outputBuffer.array[Slot(outputBuffer, d + 1)] = OutChar(Len(sent) + 1 + (d + 1))
      BY <3>1 DEF Inv, RingInv
    <3>3. Len(sent) + 1 + (d + 1) = Len(sent') + 1 + d
      BY <1>1, <1>2, <3>1
    <3> QED BY <1>3, <2>2, <3>1, <3>2, <3>3
  <2>5. outputPc' # "subtract" BY DEF OutputSend
  <2>6. n - 1 \in 0..capacity BY <2>1, CapacityAssumption
  <2> HIDE DEF n
  <2> QED BY <2>1, <2>3, <2>4, <2>5, <2>6 DEF RingInv
<1> QED BY <1>4, <1>5, <1>8, <1>9, <1>10 DEF Inv

LEMMA OutputWaitStep == ASSUME Inv, OutputWait PROVE Inv'
<1>1. put \in Nat /\ sent \in Seq(Chars) /\ semOutput \in Int
  BY DEF Inv, ConsoleTypeOK
<1>2. ConsoleTypeOK'
  BY DEF Inv, ConsoleTypeOK, OutputWait, Waited, inputVars, mainVars
<1>3. EmptyInv' /\ InputInv' BY InputFrame DEF Inv, OutputWait
<1>4. OutputInv' BY <1>1 DEF Inv, OutputInv, OutputWait, Waited, mainVars
<1>5. RingInv' /\ SentInOrder'
  BY DEF Inv, RingInv, Slot, SentInOrder, OutputWait
<1> QED BY <1>2, <1>3, <1>4, <1>5 DEF Inv

-----------------------------------------------------------------------------
(* The system calls *)

LEMMA PutcStep == ASSUME Inv, ~returned, NEW p \in Clients, Putc(p) PROVE Inv'
<1>1. /\ outputBuffer \in Buffers /\ put \in Nat /\ sent \in Seq(Chars)
      /\ semOutput \in Int /\ outputBuffer.size \in Nat
      /\ outputBuffer.tail \in Slots
      /\ outputBuffer.array \in [Slots -> Chars]
  BY DEF Inv, ConsoleTypeOK, Buffers
<1> DEFINE c == OutChar(put + 1)
           n == put - Len(sent)
           b == Stored(outputBuffer, c)
<1>2. c \in Chars BY <1>1, CharTypes
<1>3. /\ b \in Buffers
      /\ b.head = outputBuffer.head /\ b.tail = outputBuffer.tail
      /\ b.size = outputBuffer.size
      /\ b.array = [outputBuffer.array EXCEPT ![outputBuffer.tail] = c]
  <2> HIDE DEF c
  <2> QED BY <1>1, <1>2, StoredProperties
<1>4. outputBuffer' = Pushed(b, outputBuffer.size)
  BY DEF Putc, PushBack
<1>5. /\ outputBuffer' \in Buffers
      /\ outputBuffer'.head = outputBuffer.head
      /\ outputBuffer'.tail = After(outputBuffer.tail)
      /\ outputBuffer'.size = outputBuffer.size + 1
      /\ outputBuffer'.array = [outputBuffer.array EXCEPT ![outputBuffer.tail] = c]
  <2> HIDE DEF b, c
  <2> QED BY <1>1, <1>3, <1>4, PushedProperties
<1>6. n \in 0 .. capacity - 1 /\ put' = put + 1 /\ put' - Len(sent') = n + 1
  BY <1>1, ConsoleAssumption, CapacityAssumption DEF Inv, RingInv, Putc
<1>7. ConsoleTypeOK'
  <2>1. ConsoleTypeOK BY DEF Inv
  <2>2. /\ put' = put + 1 /\ semOutput' = semOutput + 1
        /\ outputPc' \in {outputPc, "poll"}
        /\ UNCHANGED <<inputVars, outputSize, outputChar, txReady, sent, mainVars>>
    BY DEF Putc
  <2> QED BY <1>1, <1>5, <2>1, <2>2 DEF ConsoleTypeOK, inputVars, mainVars
<1>8. EmptyInv' /\ InputInv' BY InputFrame DEF Inv, Putc
<1>9. OutputInv'
  <2>1. /\ put' = put + 1 /\ sent' = sent /\ semOutput' = semOutput + 1
        /\ outputSize' = outputSize /\ ~returned'
        /\ outputPc' = "wait" <=> outputPc = "wait"
        /\ outputPc' = "subtract" <=> outputPc = "subtract"
        /\ outputBuffer'.size = outputBuffer.size + 1
    BY <1>5 DEF Putc, mainVars
  <2>2. outputSize \in Nat /\ Len(sent) \in Nat BY <1>1 DEF Inv, ConsoleTypeOK
  <2> QED BY <1>1, <2>1, <2>2 DEF Inv, OutputInv
<1>10. SentInOrder' BY DEF Inv, SentInOrder, Putc
<1>11. RingInv'
  <2> HIDE DEF b, c
  <2>1. \A d \in 0..capacity : Slot(outputBuffer', d) = Slot(outputBuffer, d)
    BY <1>5 DEF Slot
  <2>2. n \in 0..capacity /\ n + 1 \in 0..capacity /\ n < capacity
    BY <1>6, CapacityAssumption
  <2>3. outputBuffer.tail = Slot(outputBuffer, n) BY DEF Inv, RingInv
  <2>4. outputBuffer'.tail = Slot(outputBuffer', n + 1)
    <3> HIDE DEF n
    <3> QED BY <1>1, <1>5, <2>1, <2>2, <2>3, SlotProperties
  <2>5. ASSUME NEW d \in 0 .. (n + 1) - 1
        PROVE  outputBuffer'.array[Slot(outputBuffer', d)] = OutChar(Len(sent) + 1 + d)
    <3>1. d \in 0..capacity BY <2>2, CapacityAssumption
    <3>2. Slot(outputBuffer', d) = Slot(outputBuffer, d) BY <2>1, <3>1
    <3>3. Slot(outputBuffer, d) \in Slots BY <1>1, <2>2, <3>1, SlotProperties
    <3>4. CASE d = n
      <4>1. Len(sent) + 1 + d = put + 1 BY <1>1, <3>4
      <4>2. outputBuffer'.array[outputBuffer.tail] = c BY <1>1, <1>5
      <4> QED BY <2>3, <3>2, <3>4, <4>1, <4>2 DEF c
    <3>5. CASE d # n
      <4>1. d \in 0 .. n - 1 BY <2>2, <3>5
      <4>2. Slot(outputBuffer, d) # outputBuffer.tail
        <5> HIDE DEF n
        <5> QED BY <1>1, <2>2, <2>3, <4>1, SlotProperties
      <4>3. outputBuffer'.array[Slot(outputBuffer, d)] = outputBuffer.array[Slot(outputBuffer, d)]
        BY <1>1, <1>5, <3>3, <4>2
      <4> QED BY <3>2, <4>1, <4>3 DEF Inv, RingInv
    <3> QED BY <3>4, <3>5
  <2>6. outputPc' = "subtract" => outputPc = "subtract" BY DEF Putc
  <2>7. outputChar' = outputChar /\ sent' = sent BY DEF Putc
  <2> HIDE DEF n
  <2> QED BY <1>6, <2>2, <2>4, <2>5, <2>6, <2>7 DEF Inv, RingInv
<1> QED BY <1>7, <1>8, <1>9, <1>10, <1>11 DEF Inv

\* The loop of getc keeps the types and what inputBufferEmpty counts, and either
\* returns a character or leaves its caller in the call.
LEMMA GetcLoopProperties ==
  ASSUME Inv, NEW p \in Clients, GetcLoop(p)
  PROVE  /\ inputBuffer' \in Buffers /\ got' \in Seq(Chars)
         /\ inputBufferEmpty' \in Int /\ emptyQueue' \in Seq(Clients)
         /\ inGetc' \subseteq Clients
         /\ EmptyInv'
         /\ Cardinality(inGetc) \in Nat /\ Cardinality(inGetc') \in Nat
         /\ Len(got') + Cardinality(inGetc')
              = Len(got) + Cardinality(inGetc) + (IF p \in inGetc THEN 0 ELSE 1)
<1>1. /\ inputBuffer \in Buffers /\ got \in Seq(Chars)
      /\ inputBufferEmpty \in Int /\ emptyQueue \in Seq(Clients)
      /\ inGetc \subseteq Clients
  BY DEF Inv, ConsoleTypeOK
<1>2. IsFiniteSet(inGetc) /\ Cardinality(inGetc) \in Nat
  BY <1>1, ConsoleAssumption, FS_Subset, FS_CardinalityType
<1>3. CASE PeekFront(inputBuffer) # Nul
  <2>1. /\ got' = Append(got, PeekFront(inputBuffer))
        /\ inputBuffer' = PopFront(inputBuffer)
        /\ inGetc' = inGetc \ {p}
        /\ UNCHANGED <<inputBufferEmpty, emptyQueue>>
    BY <1>3 DEF GetcLoop
  <2>2. got' \in Seq(Chars) /\ Len(got') = Len(got) + 1
    BY <1>1, <2>1, PeekFrontType
  <2>3. inputBuffer' \in Buffers BY <1>1, <2>1, PopFrontType
  <2>4. /\ Cardinality(inGetc') = IF p \in inGetc THEN Cardinality(inGetc) - 1
                                  ELSE Cardinality(inGetc)
        /\ Cardinality(inGetc') \in Nat
    BY <1>2, <2>1, FS_RemoveElement, FS_CardinalityType
  <2>5. EmptyInv' BY <2>1 DEF Inv, EmptyInv
  <2>6. Len(got') + Cardinality(inGetc')
          = Len(got) + Cardinality(inGetc) + (IF p \in inGetc THEN 0 ELSE 1)
    BY <1>1, <1>2, <2>2, <2>4
  <2>7. inGetc' \subseteq Clients BY <1>1, <2>1
  <2> QED BY <1>1, <1>2, <2>1, <2>2, <2>3, <2>4, <2>5, <2>6, <2>7
<1>4. CASE PeekFront(inputBuffer) = Nul
  <2>1. /\ inputBufferEmpty' = Waited(IF inputBufferEmpty > 0 THEN 0 ELSE inputBufferEmpty)
        /\ emptyQueue' = Append(emptyQueue, p)
        /\ inGetc' = inGetc \cup {p}
        /\ UNCHANGED <<got, inputBuffer>>
    BY <1>4 DEF GetcLoop
  <2>2. /\ Cardinality(inGetc') = IF p \in inGetc THEN Cardinality(inGetc)
                                  ELSE Cardinality(inGetc) + 1
        /\ Cardinality(inGetc') \in Nat
    BY <1>2, <2>1, FS_AddElement, FS_CardinalityType
  <2>3. emptyQueue' \in Seq(Clients) /\ Len(emptyQueue') = Len(emptyQueue) + 1
    BY <1>1, <2>1
  <2>4. EmptyInv' BY <1>1, <2>1, <2>3 DEF Inv, EmptyInv, Waited
  <2>5. inputBufferEmpty' \in Int BY <1>1, <2>1 DEF Waited
  <2> QED BY <1>1, <1>2, <2>1, <2>2, <2>3, <2>4, <2>5
<1> QED BY <1>3, <1>4

LEMMA GetcStep == ASSUME Inv, NEW p \in Clients, Getc(p) PROVE Inv'
<1>1. semInput \in Int /\ taken \in Nat /\ got \in Seq(Chars)
  BY ConsoleAssumption DEF Inv, ConsoleTypeOK
<1>2. GetcLoop(p) /\ p \notin inGetc BY DEF Getc, Calls
<1>3. /\ inputBuffer' \in Buffers /\ got' \in Seq(Chars)
      /\ inputBufferEmpty' \in Int /\ emptyQueue' \in Seq(Clients)
      /\ inGetc' \subseteq Clients
      /\ EmptyInv'
      /\ Cardinality(inGetc) \in Nat /\ Cardinality(inGetc') \in Nat
      /\ Len(got') + Cardinality(inGetc') = Len(got) + Cardinality(inGetc) + 1
  BY <1>2, GetcLoopProperties
<1>4. ConsoleTypeOK'
  BY <1>3 DEF Inv, ConsoleTypeOK, Getc, Asks, outputVars, mainVars
<1>5. InputInv'
  BY <1>1, <1>3 DEF Inv, InputInv, InputBusy, Getc, Asks
<1>6. OutputInv' /\ RingInv' /\ SentInOrder' BY OutputFrame DEF Inv, Getc
<1> QED BY <1>3, <1>4, <1>5, <1>6 DEF Inv

LEMMA GetcResumeStep == ASSUME Inv, NEW p \in Clients, GetcResume(p) PROVE Inv'
<1>1. semInput \in Int /\ taken \in Nat /\ got \in Seq(Chars)
  BY ConsoleAssumption DEF Inv, ConsoleTypeOK
<1>2. GetcLoop(p) /\ p \in inGetc BY DEF GetcResume
<1>3. /\ inputBuffer' \in Buffers /\ got' \in Seq(Chars)
      /\ inputBufferEmpty' \in Int /\ emptyQueue' \in Seq(Clients)
      /\ inGetc' \subseteq Clients
      /\ EmptyInv'
      /\ Cardinality(inGetc) \in Nat /\ Cardinality(inGetc') \in Nat
      /\ Len(got') + Cardinality(inGetc') = Len(got) + Cardinality(inGetc)
  BY <1>2, GetcLoopProperties
<1>4. ConsoleTypeOK'
  BY <1>3 DEF Inv, ConsoleTypeOK, GetcResume, outputVars, mainVars
<1>5. InputInv'
  BY <1>1, <1>3 DEF Inv, InputInv, InputBusy, GetcResume
<1>6. OutputInv' /\ RingInv' /\ SentInOrder' BY OutputFrame DEF Inv, GetcResume
<1> QED BY <1>3, <1>4, <1>5, <1>6 DEF Inv

-----------------------------------------------------------------------------
(* main *)

LEMMA MainStep == ASSUME Inv, UserFinish \/ MainReturn PROVE Inv'
<1>1. put \in Nat /\ sent \in Seq(Chars) /\ semOutput \in Int
      /\ outputBuffer.size \in Nat
  BY DEF Inv, ConsoleTypeOK, Buffers
<1>2. UNCHANGED <<inputVars, outputVars>> BY DEF UserFinish, MainReturn
<1>3. ConsoleTypeOK'
  BY <1>2 DEF Inv, ConsoleTypeOK, UserFinish, MainReturn, inputVars, outputVars
<1>4. EmptyInv' /\ InputInv' BY <1>2, InputFrame DEF Inv
<1>5. OutputInv'
  BY <1>1, <1>2 DEF Inv, OutputInv, UserFinish, MainReturn, OutputDone, outputVars
<1>6. RingInv' /\ SentInOrder'
  BY <1>2 DEF Inv, RingInv, Slot, SentInOrder, outputVars
<1> QED BY <1>3, <1>4, <1>5, <1>6 DEF Inv

-----------------------------------------------------------------------------
(* The theorems *)

LEMMA InitInv == ASSUME Init PROVE Inv
<1>1. PICK fill \in {Nul, Junk} : /\ inputBuffer = NewBuffer(fill)
                                  /\ outputBuffer = NewBuffer(fill)
  BY DEF Init
<1>2. fill \in Chars BY CharTypes DEF Chars
<1>3. NewBuffer(fill) \in Buffers
  BY <1>2, CapacityAssumption DEF NewBuffer, Buffers, Slots
<1>4. ConsoleTypeOK
  <2>1. inputBuffer \in Buffers /\ outputBuffer \in Buffers BY <1>1, <1>3
  <2>2. typed \in 0..MaxTyped /\ taken \in 0..typed
    BY ConsoleAssumption DEF Init
  <2>3. emptyQueue \in Seq(Clients) /\ got \in Seq(Chars) /\ sent \in Seq(Chars)
    BY DEF Init
  <2>4. txReady \in BOOLEAN /\ finished \in BOOLEAN /\ returned \in BOOLEAN
    BY DEF Init
  <2>5. /\ inputPc = "poll" /\ inputSize = 0 /\ semInput = 0 /\ inputBufferEmpty = 0
        /\ inGetc = {} /\ outputPc = "poll" /\ outputSize = 0 /\ outputChar = Nul
        /\ semOutput = 0 /\ put = 0
    BY DEF Init
  <2> QED BY <2>1, <2>2, <2>3, <2>4, <2>5, CharTypes DEF ConsoleTypeOK
<1>5. EmptyInv BY DEF Init, EmptyInv
<1>6. InputInv BY FS_EmptySet DEF Init, InputInv, InputBusy
<1>7. OutputInv BY <1>1 DEF Init, OutputInv, NewBuffer
<1>8. RingInv
  BY <1>1, CapacityAssumption DEF Init, RingInv, NewBuffer, Slot
<1>9. SentInOrder BY DEF Init, SentInOrder
<1> QED BY <1>4, <1>5, <1>6, <1>7, <1>8, <1>9 DEF Inv

\* Every reachable state satisfies the inductive invariant.
THEOREM InvariantCorrect == Spec => []Inv
<1>1. Init => Inv BY InitInv
<1>2. Inv /\ [Next]_vars => Inv'
  <2> SUFFICES ASSUME Inv, [Next]_vars PROVE Inv'
    OBVIOUS
  <2>1. CASE UNCHANGED vars
    <3>1. ConsoleTypeOK'
      BY <2>1 DEF Inv, ConsoleTypeOK, vars, inputVars, outputVars, mainVars
    <3>2. EmptyInv' /\ InputInv' BY <2>1, InputFrame DEF Inv, vars
    <3>3. OutputInv' /\ RingInv' /\ SentInOrder' BY <2>1, OutputFrame DEF Inv, vars
    <3> QED BY <3>1, <3>2, <3>3 DEF Inv
  <2>2. CASE Next
    BY <2>2, DeviceStep, InputStep, OutputTakeStep, OutputSendStep, OutputWaitStep,
       PutcStep, GetcStep, GetcResumeStep, MainStep
    DEF Next, OutputThread
  <2> QED BY <2>1, <2>2
<1> QED BY <1>1, <1>2, PTL DEF Spec

\* The variables of the console keep their types (ConsoleTypeOK).
THEOREM ConsoleTypeCorrect == Spec => []ConsoleTypeOK
<1>1. Inv => ConsoleTypeOK BY DEF Inv
<1> QED BY <1>1, InvariantCorrect, PTL

\* The device is given the characters of putc in their order, none left out and none
\* twice, although updates of size can be lost (CCB.cpp:48-70).
THEOREM SentInOrderCorrect == Spec => []SentInOrder
<1>1. Inv => SentInOrder BY DEF Inv
<1> QED BY <1>1, InvariantCorrect, PTL

\* When main returns, the device has been given every character (main.cpp:54-56).
THEOREM EndCorrect == Spec => []NothingUnsentAtTheEnd
<1>1. Inv => NothingUnsentAtTheEnd BY DEF Inv, OutputInv, NothingUnsentAtTheEnd
<1> QED BY <1>1, InvariantCorrect, PTL

\* The input thread is at most one character ahead of the calls of getc
\* (CCB.cpp:17-29 and kernel.cpp:139).
THEOREM ReadAheadCorrect == Spec => []ReadAheadByOne
<1>1. ASSUME Inv PROVE ReadAheadByOne
  <2>1. semInput \in Int /\ taken \in Nat /\ got \in Seq(Chars)
    BY <1>1, ConsoleAssumption DEF Inv, ConsoleTypeOK
  <2>2. Cardinality(inGetc) \in Nat
    BY <1>1, ConsoleAssumption, FS_Subset, FS_CardinalityType DEF Inv, ConsoleTypeOK
  <2> QED BY <1>1, <2>1, <2>2 DEF Inv, InputInv, InputBusy, ReadAheadByOne
<1> QED BY <1>1, InvariantCorrect, PTL
-----------------------------------------------------------------------------
(* What the readers get *)

\* The input thread is the only one that can lose an update of size: a getc between its
\* load and its store takes a character that is then counted again.  So size is never too
\* small, and an update that is lost is lost for good.
SizeInv ==
  /\ inputBuffer.size >= Counted - Len(got)
  /\ inputPc = "add" => inputSize >= inputBuffer.size

\* A thread waits on inputBufferEmpty once, inside getc.
WaitersInv ==
  /\ \A i \in 1..Len(emptyQueue) : emptyQueue[i] \in inGetc
  /\ \A i, j \in 1..Len(emptyQueue) : emptyQueue[i] = emptyQueue[j] => i = j

\* What has been taken and not got lies in the ring from head on, in order.
ReadRing ==
  /\ inputBuffer.tail = Slot(inputBuffer, Counted - Len(got))
  /\ \A d \in 0 .. taken - Len(got) - 1 :
       inputBuffer.array[Slot(inputBuffer, d)] = InChar(Len(got) + 1 + d)
  /\ \A i \in 1..Len(got) : got[i] = InChar(i)

\* A reader waits behind a character 0, or the readers that have been released, and the
\* one about to be, are enough for the characters that are there.
Served ==
  emptyQueue # <<>> =>
    \/ inputBuffer.size > 0 /\ PeekFront(inputBuffer) = Nul
    \/ inputBuffer.size <= Cardinality(Released) + (IF inputPc = "signal" THEN 1 ELSE 0)

ReadInv == SizeInv /\ WaitersInv /\ (InputExact => ReadRing /\ Served)

LEMMA ReadTypes ==
  ASSUME Inv
  PROVE  /\ taken \in Nat /\ inputSize \in Nat /\ inputBufferEmpty \in Int
         /\ got \in Seq(Chars) /\ Len(got) \in Nat
         /\ inputBuffer \in Buffers /\ inputBuffer.size \in Nat
         /\ inputBuffer.head \in Slots /\ inputBuffer.tail \in Slots
         /\ inputBuffer.array \in [Slots -> Chars]
         /\ emptyQueue \in Seq(Clients) /\ Len(emptyQueue) \in Nat
         /\ inGetc \subseteq Clients /\ IsFiniteSet(inGetc)
         /\ Cardinality(inGetc) \in Nat /\ Cardinality(inGetc) <= Cardinality(Clients)
<1>1. /\ taken \in Nat /\ inputSize \in Nat /\ inputBufferEmpty \in Int
      /\ got \in Seq(Chars) /\ inputBuffer \in Buffers
      /\ emptyQueue \in Seq(Clients) /\ inGetc \subseteq Clients
  BY ConsoleAssumption DEF Inv, ConsoleTypeOK
<1>2. /\ IsFiniteSet(inGetc) /\ Cardinality(inGetc) \in Nat
      /\ Cardinality(inGetc) <= Cardinality(Clients)
  BY <1>1, ConsoleAssumption, FS_Subset, FS_CardinalityType
<1> QED BY <1>1, <1>2 DEF Buffers

\* Fewer clients than the buffer has room for cannot make it overflow.
LEMMA RoomAhead ==
  ASSUME Inv, Cardinality(Clients) < capacity
  PROVE  /\ taken - Len(got) <= capacity
         /\ inputPc = "poll" => taken - Len(got) < capacity
<1>1. semInput \in Int /\ Cardinality(Clients) \in Nat
  BY ConsoleAssumption, FS_CardinalityType DEF Inv, ConsoleTypeOK
<1> QED BY <1>1, ReadTypes, CapacityAssumption DEF Inv, InputInv, InputBusy

LEMMA ReadFrame ==
  ASSUME ReadInv,
         UNCHANGED <<taken, inputBuffer, inputPc, inputSize, emptyQueue, inGetc, got>>
  PROVE  ReadInv'
BY DEF ReadInv, SizeInv, WaitersInv, InputExact, Counted, ReadRing, Slot, Served, Released

LEMMA StoreReads ==
  ASSUME Inv, ReadInv, Cardinality(Clients) < capacity, InputStore
  PROVE  ReadInv'
<1> DEFINE c == InChar(taken + 1)
           n == taken - Len(got)
<1>1. /\ inputPc = "poll" /\ inputPc' = "load" /\ taken' = taken + 1
      /\ inputBuffer' = Stored(inputBuffer, c)
      /\ UNCHANGED <<emptyQueue, inGetc, got>>
  BY DEF InputStore
<1>2. c \in Chars BY ReadTypes, CharTypes
<1>3. /\ inputBuffer'.head = inputBuffer.head /\ inputBuffer'.tail = inputBuffer.tail
      /\ inputBuffer'.size = inputBuffer.size
      /\ inputBuffer'.array = [inputBuffer.array EXCEPT ![inputBuffer.tail] = c]
  <2> HIDE DEF c
  <2> QED BY <1>1, <1>2, ReadTypes, StoredProperties
<1>4. Counted' = Counted /\ Counted = taken BY <1>1, ReadTypes DEF Counted
<1>5. SizeInv' BY <1>1, <1>3, <1>4 DEF ReadInv, SizeInv
<1>6. WaitersInv' BY <1>1 DEF ReadInv, WaitersInv
<1>7. ASSUME InputExact' PROVE ReadRing' /\ Served'
  <2>1. InputExact /\ inputBuffer.size = n BY <1>1, <1>3, <1>4, <1>7 DEF InputExact
  <2>2. ReadRing /\ Served BY <2>1 DEF ReadInv
  <2>3. n \in Nat /\ n < capacity /\ n \in 0..capacity
    BY <1>1, <2>1, ReadTypes, RoomAhead, CapacityAssumption
  <2>4. inputBuffer.tail = Slot(inputBuffer, n) BY <1>4, <2>2 DEF ReadRing
  <2>5. \A d \in 0 .. n - 1 :
          /\ Slot(inputBuffer, d) \in Slots /\ Slot(inputBuffer, d) # inputBuffer.tail
          /\ inputBuffer.array[Slot(inputBuffer, d)] = InChar(Len(got) + 1 + d)
    <3>1. \A d \in 0 .. n - 1 : inputBuffer.array[Slot(inputBuffer, d)] = InChar(Len(got) + 1 + d)
      BY <2>2 DEF ReadRing
    <3> HIDE DEF n
    <3>2. \A d \in 0 .. n - 1 : d \in 0..capacity BY <2>3, CapacityAssumption
    <3> QED BY <2>3, <2>4, <3>1, <3>2, ReadTypes, SlotProperties
  <2>6. \A d \in 0..capacity : Slot(inputBuffer', d) = Slot(inputBuffer, d)
    BY <1>3 DEF Slot
  <2>7. ASSUME NEW d \in 0 .. n
        PROVE  inputBuffer'.array[Slot(inputBuffer', d)] = InChar(Len(got) + 1 + d)
    <3> HIDE DEF n, c
    <3>1. Slot(inputBuffer', d) = Slot(inputBuffer, d)
      BY <2>3, <2>6, CapacityAssumption
    <3>2. CASE d = n
      <4>1. Len(got) + 1 + d = taken + 1 BY <3>2, ReadTypes DEF n
      <4>2. inputBuffer'.array[inputBuffer.tail] = c BY <1>3, ReadTypes
      <4> QED BY <2>4, <3>1, <3>2, <4>1, <4>2 DEF c
    <3>3. CASE d # n
      <4>1. d \in 0 .. n - 1 BY <2>3, <3>3
      <4> QED BY <1>3, <2>5, <3>1, <4>1, ReadTypes
    <3> QED BY <3>2, <3>3
  <2>8. ReadRing'
    <3>1. Len(got') = Len(got) /\ taken' - Len(got') - 1 = n /\ Counted' - Len(got') = n
      BY <1>1, <1>4, ReadTypes
    <3>2. inputBuffer'.tail = Slot(inputBuffer', n)
      BY <1>3, <2>3, <2>4, <2>6
    <3>3. \A i \in 1..Len(got) : got'[i] = InChar(i) BY <1>1, <2>2 DEF ReadRing
    <3> HIDE DEF n
    <3> QED BY <2>7, <3>1, <3>2, <3>3 DEF ReadRing
  <2>9. Served'
    <3>1. inputBuffer.size > 0 => inputBuffer'.array[inputBuffer.head] = inputBuffer.array[inputBuffer.head]
      <4>1. Slot(inputBuffer, 0) = inputBuffer.head
        BY ReadTypes, CapacityAssumption DEF Slot, Slots
      <4>2. inputBuffer.size > 0 => 0 \in 0 .. n - 1 BY <2>1, <2>3
      <4> HIDE DEF n
      <4> QED BY <1>3, <2>5, <4>1, <4>2, ReadTypes
    <3>2. inputBuffer.size > 0 => PeekFront(inputBuffer') = PeekFront(inputBuffer)
      BY <1>3, <3>1 DEF PeekFront
    <3>3. Released' = Released BY <1>1 DEF Released
    <3> QED BY <1>1, <1>3, <2>2, <3>2, <3>3 DEF Served
  <2> QED BY <2>8, <2>9
<1> QED BY <1>5, <1>6, <1>7 DEF ReadInv

LEMMA AddReads ==
  ASSUME Inv, ReadInv, Cardinality(Clients) < capacity, InputAdd
  PROVE  ReadInv'
<1>1. /\ inputPc = "add" /\ inputPc' = "signal"
      /\ inputBuffer' = Pushed(inputBuffer, inputSize)
      /\ UNCHANGED <<taken, emptyQueue, inGetc, got>>
  BY DEF InputAdd
<1>2. /\ inputBuffer'.head = inputBuffer.head /\ inputBuffer'.tail = After(inputBuffer.tail)
      /\ inputBuffer'.size = inputSize + 1 /\ inputBuffer'.array = inputBuffer.array
  BY <1>1, ReadTypes, PushedProperties
<1>3. Counted' = Counted + 1 /\ Counted = taken - 1 BY <1>1, ReadTypes DEF Counted
<1>4. SizeInv' BY <1>1, <1>2, <1>3, ReadTypes DEF ReadInv, SizeInv
<1>5. WaitersInv' BY <1>1 DEF ReadInv, WaitersInv
<1>6. ASSUME InputExact' PROVE ReadRing' /\ Served'
  <2>1. InputExact /\ inputSize = inputBuffer.size
    BY <1>1, <1>2, <1>3, <1>6, ReadTypes DEF InputExact, ReadInv, SizeInv
  <2>2. ReadRing /\ Served BY <2>1 DEF ReadInv
  <2> DEFINE m == Counted - Len(got)
  <2>3. m \in Nat /\ m < capacity /\ m \in 0..capacity
    BY <1>3, <2>1, ReadTypes, RoomAhead, CapacityAssumption DEF InputExact
  <2>4. \A d \in 0..capacity : Slot(inputBuffer', d) = Slot(inputBuffer, d)
    BY <1>2 DEF Slot
  <2>5. ReadRing'
    <3>1. inputBuffer.tail = Slot(inputBuffer, m) BY <2>2 DEF ReadRing
    <3>2. inputBuffer'.tail = Slot(inputBuffer', m + 1)
      <4>1. m + 1 \in 0..capacity BY <2>3, CapacityAssumption
      <4> HIDE DEF m
      <4>2. After(Slot(inputBuffer, m)) = Slot(inputBuffer, m + 1)
        BY <2>3, ReadTypes, SlotProperties
      <4> QED BY <1>2, <2>4, <3>1, <4>1, <4>2
    <3>3. Counted' - Len(got') = m + 1 /\ taken' - Len(got') - 1 = m /\ taken - Len(got) - 1 = m
      BY <1>1, <1>3, ReadTypes
    <3>4. \A d \in 0..m : inputBuffer'.array[Slot(inputBuffer', d)] = InChar(Len(got) + 1 + d)
      <4>1. \A d \in 0..m : inputBuffer.array[Slot(inputBuffer, d)] = InChar(Len(got) + 1 + d)
        BY <2>2, <3>3 DEF ReadRing
      <4> HIDE DEF m
      <4>2. \A d \in 0..m : d \in 0..capacity BY <2>3, CapacityAssumption
      <4> QED BY <1>2, <2>4, <4>1, <4>2
    <3>5. \A i \in 1..Len(got) : got'[i] = InChar(i) BY <1>1, <2>2 DEF ReadRing
    <3> HIDE DEF m
    <3> QED BY <1>1, <3>2, <3>3, <3>4, <3>5 DEF ReadRing
  <2>6. Served'
    <3>1. Released' = Released BY <1>1 DEF Released
    <3>2. inputBuffer.size > 0 => PeekFront(inputBuffer') = PeekFront(inputBuffer)
      BY <1>2, ReadTypes DEF PeekFront
    <3>3. inputBuffer'.size = inputBuffer.size + 1 BY <1>2, <2>1
    <3>4. Cardinality(Released) \in Nat
      BY ReadTypes, FS_Subset, FS_CardinalityType DEF Released
    <3> QED BY <1>1, <2>2, <3>1, <3>2, <3>3, <3>4, ReadTypes DEF Served
  <2> QED BY <2>5, <2>6
<1> QED BY <1>4, <1>5, <1>6 DEF ReadInv

LEMMA SignalReads == ASSUME Inv, ReadInv, InputSignal PROVE ReadInv'
<1>1. /\ inputPc = "signal" /\ inputPc' = "wait"
      /\ UNCHANGED <<taken, inputBuffer, inputSize, inGetc, got>>
      /\ emptyQueue' = IF inputBufferEmpty + 1 <= 0 THEN Tail(emptyQueue) ELSE emptyQueue
  BY DEF InputSignal, ReleasesReader
<1>2. Len(emptyQueue) = IF inputBufferEmpty < 0 THEN -inputBufferEmpty ELSE 0
  BY DEF Inv, EmptyInv
<1>3. CASE inputBufferEmpty >= 0
  <2>1. emptyQueue' = emptyQueue /\ emptyQueue = <<>> BY <1>1, <1>2, <1>3, ReadTypes
  <2> QED BY <1>1, <2>1
          DEF ReadInv, SizeInv, WaitersInv, InputExact, Counted, ReadRing, Slot, Served
<1>4. CASE inputBufferEmpty < 0
  <2>1. emptyQueue # <<>> /\ emptyQueue' = Tail(emptyQueue)
    BY <1>1, <1>2, <1>4, ReadTypes
  <2>2. /\ Len(emptyQueue') = Len(emptyQueue) - 1
        /\ \A i \in 1..Len(emptyQueue') : emptyQueue'[i] = emptyQueue[i + 1]
    BY <2>1, ReadTypes
  <2> DEFINE p == emptyQueue[1]
  <2>3. p \in inGetc BY <2>1, ReadTypes DEF ReadInv, WaitersInv
  <2>4. WaitersInv'
    <3>1. \A i \in 1..Len(emptyQueue') : i + 1 \in 1..Len(emptyQueue) BY <2>2, ReadTypes
    <3> QED BY <1>1, <2>2, <3>1 DEF ReadInv, WaitersInv
  <2>5. Released' = Released \cup {p} /\ p \notin Released
    <3>1. ASSUME NEW q
          PROVE  (\E i \in 1..Len(emptyQueue') : emptyQueue'[i] = q)
                   <=> (\E i \in 1..Len(emptyQueue) : emptyQueue[i] = q) /\ q # p
      <4>1. ASSUME NEW i \in 1..Len(emptyQueue'), emptyQueue'[i] = q
            PROVE  (\E j \in 1..Len(emptyQueue) : emptyQueue[j] = q) /\ q # p
        <5>1. i + 1 \in 1..Len(emptyQueue) /\ 1 \in 1..Len(emptyQueue) /\ i + 1 # 1
          BY <2>2, ReadTypes
        <5>2. emptyQueue[i + 1] = q BY <2>2, <4>1
        <5> QED BY <5>1, <5>2 DEF ReadInv, WaitersInv
      <4>2. ASSUME NEW i \in 1..Len(emptyQueue), emptyQueue[i] = q, q # p
            PROVE  \E j \in 1..Len(emptyQueue') : emptyQueue'[j] = q
        <5>1. i - 1 \in 1..Len(emptyQueue') /\ (i - 1) + 1 = i
          BY <2>2, <4>2, ReadTypes
        <5> QED BY <2>2, <4>2, <5>1
      <4> QED BY <4>1, <4>2
    <3>2. p \notin Released BY <2>1, ReadTypes DEF Released
    <3>3. \A q : q \in Released' <=> q \in inGetc /\ ~(\E i \in 1..Len(emptyQueue') : emptyQueue'[i] = q)
      BY <1>1 DEF Released
    <3>4. \A q : q \in Released <=> q \in inGetc /\ ~(\E i \in 1..Len(emptyQueue) : emptyQueue[i] = q)
      BY DEF Released
    <3> HIDE DEF p
    <3>5. \A q : q \in Released' <=> q \in Released \/ q = p
      <4> TAKE q
      <4>1. CASE q = p BY <2>3, <3>1, <3>3, <4>1
      <4>2. CASE q # p BY <3>1, <3>3, <3>4, <4>2
      <4> QED BY <4>1, <4>2
    <3>6. Released' = Released \cup {p} BY <3>5
    <3> QED BY <3>2, <3>6
  <2>6. IsFiniteSet(Released) /\ Cardinality(Released) \in Nat
    BY ReadTypes, FS_Subset, FS_CardinalityType DEF Released
  <2>7. Cardinality(Released') = Cardinality(Released) + 1
    BY <2>5, <2>6, FS_AddElement
  <2>8. InputExact' => InputExact /\ ReadRing'
    BY <1>1 DEF ReadInv, InputExact, Counted, ReadRing, Slot
  <2>9. InputExact => Served'
    BY <1>1, <2>1, <2>6, <2>7, ReadTypes DEF ReadInv, Served
  <2>10. SizeInv' BY <1>1 DEF ReadInv, SizeInv, Counted
  <2> QED BY <2>4, <2>8, <2>9, <2>10 DEF ReadInv
<1> QED BY <1>3, <1>4, ReadTypes

LEMMA GetcReads ==
  ASSUME Inv, ReadInv, Cardinality(Clients) < capacity, NEW p \in Clients, GetcLoop(p),
         \A i \in 1..Len(emptyQueue) : emptyQueue[i] # p,
         UNCHANGED <<taken, inputSize>>,
         inputPc' = inputPc \/ (inputPc = "blocked" /\ inputPc' = "poll")
  PROVE  ReadInv'
<1>1. IsFiniteSet(Released) /\ Cardinality(Released) \in Nat
  BY ReadTypes, FS_Subset, FS_CardinalityType DEF Released
<1>2. Counted' = Counted BY DEF Counted
<1>3. CASE PeekFront(inputBuffer) # Nul
  <2>1. /\ got' = Append(got, PeekFront(inputBuffer))
        /\ inputBuffer' = PopFront(inputBuffer)
        /\ inGetc' = inGetc \ {p} /\ emptyQueue' = emptyQueue
    BY <1>3 DEF GetcLoop
  <2>2. inputBuffer.size > 0 /\ PeekFront(inputBuffer) = inputBuffer.array[inputBuffer.head]
    BY <1>3 DEF PeekFront
  <2>3. /\ inputBuffer'.head = After(inputBuffer.head) /\ inputBuffer'.tail = inputBuffer.tail
        /\ inputBuffer'.size = inputBuffer.size - 1 /\ inputBuffer'.array = inputBuffer.array
    BY <2>1, <2>2, ReadTypes, PoppedProperties DEF PopFront
  <2>4. /\ Len(got') = Len(got) + 1 /\ got'[Len(got) + 1] = PeekFront(inputBuffer)
        /\ \A i \in 1..Len(got) : got'[i] = got[i]
    BY <2>1, ReadTypes, PeekFrontType
  <2>5. Counted \in Int BY ReadTypes DEF Counted
  <2>6. SizeInv' BY <1>2, <2>3, <2>4, <2>5, ReadTypes DEF ReadInv, SizeInv
  <2>7. WaitersInv' BY <2>1 DEF ReadInv, WaitersInv
  <2>8. ASSUME InputExact' PROVE ReadRing' /\ Served'
    <3>1. InputExact BY <1>2, <2>3, <2>4, <2>5, <2>8, ReadTypes DEF InputExact
    <3>2. ReadRing /\ Served BY <3>1 DEF ReadInv
    <3> DEFINE m == Counted - Len(got)
               n == taken - Len(got)
    <3>3. /\ m \in 1..capacity /\ n \in 1..capacity
          /\ Counted' - Len(got') = m - 1 /\ taken' - Len(got') - 1 = n - 2
      <4>1. m = inputBuffer.size /\ inputBuffer.size \in Nat /\ inputBuffer.size > 0
        BY <2>2, <3>1, ReadTypes DEF InputExact
      <4>2. Counted <= taken /\ taken \in Nat /\ Len(got) \in Nat /\ taken' = taken
        BY ReadTypes DEF Counted
      <4>3. n <= capacity BY RoomAhead
      <4>4. capacity \in Nat BY CapacityAssumption
      <4>5. m <= n BY <2>5, <4>2
      <4>6. Counted' - Len(got') = m - 1 BY <1>2, <2>4, <2>5, <4>2
      <4>7. taken' - Len(got') - 1 = n - 2 BY <2>4, <4>2
      <4>8. n \in Int /\ m \in Int BY <2>5, <4>2
      <4> HIDE DEF m, n
      <4> QED BY <4>1, <4>3, <4>4, <4>5, <4>6, <4>7, <4>8
    <3>4. \A d \in 0 .. capacity - 1 : Slot(inputBuffer', d) = Slot(inputBuffer, d + 1)
      BY <2>3, ReadTypes, SlotAfterHead
    <3>5. inputBuffer'.tail = Slot(inputBuffer', m - 1)
      <4>1. inputBuffer.tail = Slot(inputBuffer, m) BY <3>2 DEF ReadRing
      <4>2. m - 1 \in 0 .. capacity - 1 /\ (m - 1) + 1 = m BY <3>3, CapacityAssumption
      <4> HIDE DEF m
      <4> QED BY <2>3, <3>4, <4>1, <4>2
    <3>6. ASSUME NEW d \in 0 .. n - 2
          PROVE  inputBuffer'.array[Slot(inputBuffer', d)] = InChar(Len(got') + 1 + d)
      <4>1. d \in 0 .. capacity - 1 /\ d + 1 \in 0 .. n - 1 BY <3>3, CapacityAssumption
      <4>2. inputBuffer.array[Slot(inputBuffer, d + 1)] = InChar(Len(got) + 1 + (d + 1))
        BY <3>2, <4>1 DEF ReadRing
      <4>3. Len(got) + 1 + (d + 1) = Len(got') + 1 + d BY <2>4, <4>1, ReadTypes
      <4> QED BY <2>3, <3>4, <4>1, <4>2, <4>3
    <3>7. PeekFront(inputBuffer) = InChar(Len(got) + 1)
      <4>1. Slot(inputBuffer, 0) = inputBuffer.head
        BY ReadTypes, CapacityAssumption DEF Slot, Slots
      <4>2. 0 \in 0 .. taken - Len(got) - 1 /\ Len(got) + 1 + 0 = Len(got) + 1
        BY <3>3, ReadTypes
      <4> QED BY <2>2, <3>2, <4>1, <4>2 DEF ReadRing
    <3>8. \A i \in 1..Len(got') : got'[i] = InChar(i)
      BY <2>4, <3>2, <3>7, ReadTypes DEF ReadRing
    <3>9. ReadRing'
      <4> HIDE DEF m, n
      <4> QED BY <3>3, <3>5, <3>6, <3>8 DEF ReadRing
    <3>10. Served'
      <4>1. p \in inGetc => p \in Released BY DEF Released
      <4>2. Released' = Released \ {p} BY <2>1 DEF Released
      <4>3. /\ Cardinality(Released \ {p}) \in Nat
            /\ Cardinality(Released \ {p}) >= Cardinality(Released) - 1
        BY <1>1, FS_RemoveElement, FS_CardinalityType
      <4> QED BY <1>1, <1>3, <2>1, <2>3, <3>2, <4>2, <4>3, ReadTypes DEF Served
    <3> QED BY <3>9, <3>10
  <2> QED BY <2>6, <2>7, <2>8 DEF ReadInv
<1>4. CASE PeekFront(inputBuffer) = Nul
  <2>1. /\ emptyQueue' = Append(emptyQueue, p)
        /\ inGetc' = inGetc \cup {p}
        /\ UNCHANGED <<got, inputBuffer>>
    BY <1>4 DEF GetcLoop
  <2>2. /\ Len(emptyQueue') = Len(emptyQueue) + 1
        /\ emptyQueue'[Len(emptyQueue) + 1] = p
        /\ \A i \in 1..Len(emptyQueue) : emptyQueue'[i] = emptyQueue[i]
    BY <2>1, ReadTypes
  <2>3. SizeInv' BY <1>2, <2>1 DEF ReadInv, SizeInv
  <2>4. WaitersInv'
    <3>1. \A i \in 1..Len(emptyQueue') : i \in 1..Len(emptyQueue) \/ i = Len(emptyQueue) + 1
      BY <2>2, ReadTypes
    <3> QED BY <2>1, <2>2, <3>1 DEF ReadInv, WaitersInv
  <2>5. InputExact' => InputExact /\ ReadRing'
    BY <1>2, <2>1 DEF ReadInv, InputExact, ReadRing, Slot
  <2>6. Served'
    <3>1. inputBuffer.size = 0 \/ (inputBuffer.size > 0 /\ PeekFront(inputBuffer) = Nul)
      BY <1>4, ReadTypes
    <3>2. IsFiniteSet(Released') /\ Cardinality(Released') \in Nat
      <4>1. IsFiniteSet(inGetc') BY <2>1, ReadTypes, FS_AddElement
      <4> QED BY <4>1, FS_Subset, FS_CardinalityType DEF Released
    <3> QED BY <2>1, <3>1, <3>2 DEF Served
  <2> QED BY <2>3, <2>4, <2>5, <2>6 DEF ReadInv
<1> QED BY <1>3, <1>4

LEMMA ReadStep ==
  ASSUME Inv, ReadInv, Cardinality(Clients) < capacity, [Next]_vars
  PROVE  ReadInv'
<1>1. CASE UNCHANGED inputVars BY <1>1, ReadFrame DEF inputVars
<1>2. CASE Type BY <1>2, ReadFrame DEF Type
<1>3. CASE InputThread
  <2>1. CASE InputLoad
    <3>1. /\ inputPc = "load" /\ inputPc' = "add" /\ inputSize' = inputBuffer.size
          /\ UNCHANGED <<taken, inputBuffer, emptyQueue, inGetc, got>>
      BY <2>1 DEF InputLoad
    <3>2. Counted' = Counted /\ Released' = Released BY <3>1 DEF Counted, Released
    <3> QED BY <3>1, <3>2, ReadTypes
            DEF ReadInv, SizeInv, WaitersInv, InputExact, ReadRing, Slot, Served
  <2>2. CASE InputWait
    <3>1. /\ inputPc = "wait" /\ inputPc' \in {"blocked", "poll"}
          /\ UNCHANGED <<taken, inputBuffer, inputSize, emptyQueue, inGetc, got>>
      BY <2>2 DEF InputWait
    <3>2. Counted' = Counted /\ Released' = Released BY <3>1 DEF Counted, Released
    <3> QED BY <3>1, <3>2
            DEF ReadInv, SizeInv, WaitersInv, InputExact, ReadRing, Slot, Served
  <2> QED BY <1>3, <2>1, <2>2, StoreReads, AddReads, SignalReads DEF InputThread
<1>4. CASE \E p \in Clients : Getc(p) \/ GetcResume(p)
  <2>1. PICK p \in Clients : Getc(p) \/ GetcResume(p) BY <1>4
  <2>2. \A i \in 1..Len(emptyQueue) : emptyQueue[i] # p
    BY <2>1 DEF Getc, Calls, GetcResume, ReadInv, WaitersInv
  <2>3. /\ GetcLoop(p) /\ UNCHANGED <<taken, inputSize>>
        /\ inputPc' = inputPc \/ (inputPc = "blocked" /\ inputPc' = "poll")
    BY <2>1 DEF Getc, GetcResume
  <2> QED BY <2>2, <2>3, GetcReads
<1> QED
  BY <1>1, <1>2, <1>3, <1>4
  DEF Next, Transmit, OutputThread, OutputTake, OutputSend, OutputWait, Putc, UserFinish,
      MainReturn, vars

LEMMA InitReads == ASSUME Init PROVE ReadInv
<1>1. PICK fill \in {Nul, Junk} : inputBuffer = NewBuffer(fill) BY DEF Init
<1>2. /\ taken = 0 /\ got = <<>> /\ emptyQueue = <<>> /\ inputPc = "poll"
      /\ inputBuffer.size = 0 /\ inputBuffer.head = 0 /\ inputBuffer.tail = 0
  BY <1>1 DEF Init, NewBuffer
<1> QED BY <1>2, CapacityAssumption
        DEF ReadInv, SizeInv, WaitersInv, InputExact, Counted, ReadRing, Slot, Served

LEMMA ReadInvariance ==
  ASSUME Cardinality(Clients) < capacity PROVE Spec => [](Inv /\ ReadInv)
<1>1. Init => ReadInv BY InitReads
<1>2. Inv /\ ReadInv /\ [Next]_vars => ReadInv' BY ReadStep
<1> QED BY <1>1, <1>2, InvariantCorrect, PTL DEF Spec

\* The calls of getc return what was typed, in that order, as long as no update of size is
\* lost (CCB.cpp:48-70, kernel.cpp:136-149).  There are fewer clients than a buffer has
\* room for characters (4000, CCB.h:28), so that the input does not overflow.
THEOREM GotInOrderCorrect ==
  ASSUME Cardinality(Clients) < capacity PROVE Spec => []GotInOrder
<1>1. ReadInv => GotInOrder BY DEF ReadInv, ReadRing, GotInOrder
<1> QED BY <1>1, ReadInvariance, PTL

\* No reader sleeps on inputBufferEmpty for a character that is in the buffer
\* (kernel.cpp:139-145 against CCB.cpp:22-24), under the same condition.
THEOREM NoStrandedReaderCorrect ==
  ASSUME Cardinality(Clients) < capacity PROVE Spec => []NoStrandedReader
<1>1. Inv /\ ReadInv => NoStrandedReader BY DEF ReadInv, Served, NoStrandedReader
<1> QED BY <1>1, ReadInvariance, PTL
=============================================================================
