# Verification of the OSProjekat kernel

OSProjekat is a small multithreading kernel for one RISC-V hart. This directory
holds TLA+ models of it, the TLC runs that check them on small instances, and
proofs checked by TLAPS. Paths are relative to the repository root.

## 1. Inventory

### The system

A thread enters the kernel by `ecall` or by a timer interrupt. `src/interrupt.S`
saves its registers into its PCB, switches to its kernel stack and calls
`interruptHandler` (`src/kernel.cpp`), which performs the system call or counts
the tick, and may call `PCB::dispatch`, which switches to another thread's kernel
stack *inside* the handler. Supervisor interrupts are masked in a handler; the
machine-mode timer (in `lib/`) is not, and sets SIP.SSIP at any time.

| Component | State | Operations | Talks to |
|---|---|---|---|
| Trap handler and system calls (`src/kernel.cpp`, `src/interrupt.S`, `src/changeContext.S`, `src/syscall_c.cpp`) | SSIP, `sepc` and `sstatus` on the kernel stack, the saved registers | one case per system call; timer branch; console branch | everything below |
| Scheduler (`src/Scheduler.cpp`) | `head`, `tail`, `idleProcess` | `put`, `get`, `putInFront` (never called) | `PCB::nextInList` |
| Threads (`src/PCB.cpp`) | `running`, `timeSliceCounter`; per PCB `finished`, `blocked`, `semDeleted`, `timeSlice`, `firstCall`, stacks, registers | `dispatch`, creation in two steps, `delete` | Scheduler, allocators |
| Semaphores (`src/SCB.cpp`) | `semValue`, `head`, `tail` | `wait`, `signal`, `signalClosing`, `prioritySignal` (never called) | Scheduler, `dispatch` |
| Sleeping threads (`src/SleepingProcesses.cpp`) | `head`; `timeSleeping`, relative to the sleeper in front | `putToSleep`, `wakeUp` | Scheduler; called by `time_sleep` and by every tick |
| Boot and main (`src/main.cpp`) | `userProcess` | boot, two polling loops | all |
| First-fit allocator (`src/MemoryAllocator.cpp`) | address-ordered free list, a size header per segment | `mem_alloc`, `mem_free` | kernel, C++ API directly |
| Buddy allocator (`src/BuddyAllocator.cpp`) | one ordered free list per power of two | `buddyAlloc`, `buddyFree` | slab allocator |
| Slab allocator (`src/Cache.cpp`, `src/SlabAllocator.cpp`, `src/slab.cpp`) | three slab lists per cache, `allocatedSlots`, `state` and the `allocated` flags | `kmem_cache_create/alloc/free/shrink/destroy`, `kmalloc`, `kfree` | buddy allocator |
| Console (`src/CCB.cpp`) | two ring buffers, three semaphores, an input and an output thread | `putc`, `getc`, the two thread bodies | semaphores, device registers |
| C++ API (`src/syscall_cpp.cpp`) | `Thread`, `Semaphore`, `PeriodicThread` objects | wrappers; destructors that delete a PCB or close a semaphore | system calls, first-fit allocator without a trap |
| Printing (`src/printing.cpp`, `src/lock.S`) | `lockPrint` | `printString`, `printInt`, `getString` under a spin lock | `putc`, `getc` |
| User program, tests, `h/list.h`, `lib/` | | example and test programs; an unused template; binaries | |

### What is hard, and what makes each part correct

* **Handlers that switch stacks half-way.** What a thread still has to do in its
  handler (clear SSIP, look at `semDeleted`) happens when it next gets the
  processor. Correct: one tick is counted once; `wait` tells success from closing.
* **A timer that comes between any two instructions**, in particular between the
  two `ecall`s of `time_sleep`. Correct: the running thread is on no list from which
  a tick could hand it out.
* **One link field for three kinds of list**, with loops that put into one list
  what they are taking off another. Correct: every thread is in exactly one place,
  tails are last, nobody is cut off.
* **Two flags decide about a third thing.** `dispatch` puts a thread back unless it
  is `finished` or `blocked`. Correct: the flags say exactly which list it is on.
* **Progress.** Only the timer guarantees it. Correct: round robin reaches every
  ready thread, every sleeper wakes, a signalled waiter leaves.
* **Allocators.** Correct: blocks handed out are disjoint, and what is free plus what
  is allocated is the whole arena (nothing is lost or free twice); a slab is on the list
  its state says, and its count is that of its allocated slots.
* **Console.** Correct: no character is lost, doubled or reordered while the buffers
  are not full; `getc` returns when a character is there; main's second loop ends.
* **Life cycle.** Correct: what a thread needs is not given back before it has set its flag,
  and nothing is given back twice or by two threads.
* **The print lock.** Correct: strings are printed whole wherever a timer interrupt falls in
  `copy_and_swap`, and the lock is given back unless its holder waits for the keyboard.

`PROJECT.json` lists these at their lines, under "hazards", with the properties that
cover each or the reason why none does.

## 2. The modules

| Module | Models | Checked instance |
|---|---|---|
| `Kernel` | trap handler, scheduler, threads, semaphores, sleeping, over sequences | with `KernelHistory` |
| `KernelHistory` | `Kernel` with two history variables | `MCKernelHistory`: 3 threads, 1 semaphore |
| `KernelLists` | the same handlers over the linked lists of the code; implements `Kernel` | `MCKernelLists`: the same |
| `IOBuffer` | the ring buffer of `CCB.h` | with `Console` |
| `Console` | the two console threads, `putc`, `getc`, main's second loop | with `Printing` |
| `Printing` | the spin lock of `lock.S` and `printString`, `getString` over it and over `Console`; implements `PrintLock` | `MCPrinting`: 2 clients, 3 workloads, buffers of 3 |
| `PrintLock` | what the lock promises: who is let in, who leaves, who prints | |
| `ThreadObjects` | creation, execution and destruction of `Thread` objects | `MCThreadObjects.cfg`: 3 objects below `userMain` |
| `Heap` | what an allocator promises its clients | |
| `MemoryAllocator` | the first-fit allocator; implements `Heap` | `MCMemoryAllocator.cfg`: 5 blocks and a rest, 3 sizes of requests |
| `BuddyAllocator` | the buddy allocator; implements `Heap` | with `SlabLinks`: 8 blocks, 4 levels |
| `SlabCache` | the slab allocator composed with `BuddyAllocator`, lists as sequences | with `SlabLinks` |
| `SlabLinks` | `SlabCache` with the lists of slabs over the one `next` field of the code | `MCSlabCache`: 2 caches, 8 blocks, 5 objects |

`KernelProofs` (with those about `KernelHistory`), `ConsoleProofs`, `PrintingProofs`, `ThreadObjectsProofs`, `MemoryAllocatorProofs`,
`BuddyAllocatorProofs` and `SlabCacheProofs` (with those about `SlabLinks`) hold the theorems about the module of that name, for every
instance. `Induction` is about no part of the system: see the end of section 4.

### Kernel

*One handler is one step.* With interrupts masked and one hart nothing else can
run in a handler, except the machine-mode timer, whose only effect is SSIP. A handler
that dispatches ends, for the thread that called it, when it gets the processor
again; `resume[p]` records in which handler `p` has to go on:

| `resume` | Where the thread goes on | What it does there |
|---|---|---|
| `"first"` | `proccessWrapper` (`switchContext1`) | leaves the handler |
| `"syscall"` | after `dispatch` in thread_dispatch | leaves the handler |
| `"wait"` | `SCB::wait`, after `dispatch` | looks at `semDeleted`, returns 0 or -2 (`ret`) |
| `"timer"` | `kernel.cpp:167-170` | clears SSIP |

`Dispatch` does that part of the new thread's handler in the same step, as nothing
can come in between.

*SSIP* is `"clear"`; `"raised"` when a tick has come and either interrupts a thread
at once or has fallen into the handler that comes next; `"due"` when a handler
has returned with it set, so that the interrupt is taken before the thread's next
instruction. System calls are possible unless it is due.

*State.* `ready`, `sleeping` and `waiting[s]` are the three kinds of list, `left[p]`
the absolute number of timer interrupts a sleeper still sleeps, `life[p]` tells whether the
PCB exists and has been given to the scheduler, `window` holds the threads between the two
`ecall`s of `time_sleep`, `winTicks` how many timer interrupts the running one
has taken there. `ret` is the result of a `sem_wait` that has just been left and is reset by
the next handler. The other variables have the names of the code.

*Clients.* Any thread may make any system call at any time, on a semaphore that exists, except
that a thread inside `time_sleep` can only make its second `ecall`, and a thread in `Pollers`
(as `main`, which only calls thread_dispatch after boot) never exits, waits, signals or sleeps.
Use of a handle after `sem_close` is outside the model.

### KernelLists

The same handlers over `lists`: `next` and `time` per PCB and the head and tail
pointers, in the order of assignments of the code. `K == INSTANCE Kernel WITH ...` reads
the sequences off the pointers and the absolute times off the relative ones. `ListFrom`
stops after one element too many, so that a cycle shows up as a wrong sequence
and not as a recursion that does not end.

### KernelHistory

`viaClose` (whose latest `sem_wait` was ended by `sem_close`) and `ticksDue` (how many
hardware ticks each sleeper should still see) are read by no action of `Kernel`; the
properties relate what threads were told to what has happened.

### Console and IOBuffer

*What a step is.* The console threads run with interrupts enabled, so that each
access to a `size` is a step of its own: `InputStore`, `InputLoad`, `InputAdd` are `pushBack` in
`inputBody`, `OutputTake` and `OutputSend` the two halves of `popFront` in `outputBody`
(`inputPc` and `outputPc` say where each is, `inputSize` and `outputSize` what it has loaded). A
system call masks interrupts and is one step; `getc` has two, as `SCB::wait` gives the
processor up: `Getc` up to its return or its wait, `GetcResume` from there on, in the same
loop. The semaphores are their values and, for `inputBufferEmpty`, the queue; the two others have
one waiter, whose program counter is then `"blocked"`.

*Characters.* The *i*-th character typed and the *i*-th given to `putc` is the number *i*; so order, loss and
duplication show. `Junk` is what an array contains before it is written (it comes from `kmalloc`),
`Nul` the 0 that `peekFront` returns for an empty buffer. `NulTyped` and `NulPut` let characters be 0; they are empty in
the runs, and the theorems hold for any.

*main.* `UserFinish` sets `finished`, `MainReturn` ends the second loop and with it the machine.

### Printing

`Printing` gives the clients of `Console` programs: calls of `printString`, `getString` and `getc`.
`LOCK` and `UNLOCK` are `LoadReserved` (`lr.w`) and `StoreConditional` (`sc.w`), between which a thread
can lose the processor. `reserved` is the thread whose reservation holds; every trap takes it away (`Trapped`), as the
steps of other threads do, since there is one hart. That a trap clears the reservation is what QEMU does and is external to
this code: the kernel has no `sc` of its own in its trap entry. `author[i]` tells which character of whose
string the *i*-th one is.

### ThreadObjects

The program is that of `userMain.cpp`: `userMain` makes a `ForkThread` on its stack and starts it; a
`ForkThread` makes any number of others with `new`, starts the first, polls its flag and deletes all. A
`run()` may also make nothing, as those of the worker threads do. `at[t]` is where a thread is
(`"unmade"`, `"made"`, `"listed"`, `"creates"`, `"waits"`, `"deletes"`, `"flagged"`, `"leaves"`, `"exited"`), `owned[o]`
which of the six pieces of memory of an object are allocated, `torn[o]` how far its destructor has come.
Each allocation may fail. `mode` is the privilege a thread runs with: `popSppSpie` returns with the
`SPP` of whoever gave the processor up, so that it may be the supervisor's, and then `thread_create` takes the PCB from the
slab allocator and `mem_free` refuses it (`inSlab`).

`WholeUntilFlag` ends where the flag is set: from there on the creator may delete the object while its thread still
frees its argument and exits, on a stack that has been given back. What happens to that memory then is not followed.

`FreesWhatItHas` is about the other direction: the destructor and the end of the thread both give memory back, in either order, and neither
may give back what is no longer, or never was, allocated. No property says what must be given back. Three things are not: the
registers of every PCB (`PCB.cpp:64-67`), what a creation that fails half-way had already (`syscall_c.cpp:51`), and the argument of an object that
is deleted without having been started. The last is against the code's own word: `syscall_cpp.cpp:52` says that the argument is freed in the destructor of the PCB
("oslobodice se u destruktoru PCB-a"), but `~PCB` frees the stacks only and `threadWrapper` frees the argument, which it does after `run()` and so never for an object that was not
started. In the model, the invariant that a deleted object which was never started owns no argument fails after a `ForkThread` deletes the objects it has only made; and if `GivenBack` gave the
argument back as the comment says, with `threadWrapper` as it is, `FreesWhatItHas` would fail, as both would free it. It is no run of its own, as its one line shows
it without a model.

### The allocators

`Heap` knows the set `allocated` of segments that clients own, and says that a new one lies in
the memory and overlaps no other. Both allocators have that variable and implement it (`ImplementsHeap`).

`MemoryAllocator` keeps the free list where the code has it, in the free memory: `mem[a]` holds
the three words of the `FreeSegment` at `a`. The header of an allocated segment is the first of them.
That is the reason for the failure of `first_fit_split`: the size in the header is written over `baseAddr` of a
segment that is still on the list. `SplitsBehind` tells whether clients make requests that split
a segment other than the first; without them the properties hold. `call` is the latest call and its
result. `Pointers` are what is handed to `mem_free`: what `mem_alloc` returned, and some that it did not.
A segment is freed once.

`BuddyAllocator` has a sequence per level for the list of entries. `AddEntry` drops an entry that
belongs between two others, as `addEntry` does; all properties of the run `slab_cache` hold with this.
`Freed` is the loop of `buddyFree` in closed form: the levels on which the other half is free, starting from
the block's own, are those on which it merges.

`SlabCache` EXTENDS `BuddyAllocator`: its actions call `BuddyAlloc` and `Freed`. `slab[s]` is the header at
`s`, `h.slots` the slots whose `allocated` flag is set, `allocatedSlots` the separate count. `deallocSlab` gives
one block back whatever the slab has (`DeallocLevel`), so that the rest of a larger slab is lost. When
`buddyAlloc` refuses, the code writes through `nullptr`; the trap it takes returns to the same
instruction, which is `hung`. A Cache is not constructed, and its `errortype` is what was in
memory: the link of the entry of the buddy list (`"next"` unless that was `nullptr`).

`SlabLinks` EXTENDS `SlabCache`: every action is one of `SlabCache` together with what the code does to
`links`, the heads `slabList` and the field `next` of the headers. `PutFirst` leaves `next` as it is when the
list is empty, as `slabListPut` does; that this does not lead from one list into another is `SlabsLinked`.

## 3. The runs

| Run | Asks | Result |
|---|---|---|
| `kernel` | 8 invariants of `Kernel`; does a closed wait ever report success? does every ready thread run, every sleeper wake, every waiter of a signalled semaphore leave? | they hold, never, and yes under the fairness below; 280 thousand states |
| `kernel_lists` | do the linked lists implement the sequences? | yes, while sleeps outlast the window |
| `kernel_sticky_close` | does -2 mean that the semaphore was closed? | no: `semDeleted` is never reset (`SCB.cpp:38`, `:71`) |
| `kernel_early_wake_up` | does a sleeper see all its ticks? | no: SSIP is cleared after the dispatch (`kernel.cpp:166`, `:170`) |
| `kernel_sleep_one` | is anybody lost when a sleep can end inside its window? | yes: a thread put twice cuts off the one behind it |
| `console` | is what is sent what was put, in order? is it all sent when main returns? is input read ahead? do readers get what was typed, in order, and is none stranded? are strings whole, is the lock exclusive? do main, readers and the lock make progress? | yes; order of the input and progress as long as no update of a size is lost; 65 thousand states |
| `console_lost` | is every character put printed? | no: `size--` of the output thread overwrites `size++` of `putc` (`CCB.cpp:57`) |
| `thread_objects` | is a thread whole until its flag? is what is given back always still allocated? does `userMain` end? | yes, unless memory runs out in a constructor or for the object on its stack; 48 thousand states |
| `first_fit` | are free and owned segments a partition of the heap? does everything merge? is a refusal ever without a cause? does it implement `Heap`? | yes, while only the first segment is split; 280 thousand states |
| `first_fit_split` | is the free list one of free segments when another one is split? | no (`MemoryAllocator.cpp:54`) |
| `slab_cache` | do links, states, counts and flags agree? is what a client owns safe from shrink and destroy? does a cache grow only when full? are the buddy allocator's blocks disjoint and merged, and does it implement `Heap`? | yes; 440 thousand states |
| `buddy_lost` | is every block on a list or owned? | no (`BuddyAllocator.cpp:140`) |

**Findings.** The six runs that end in a violation are disagreements of the code with
its headers. (One more, of a comment on who frees an argument, is described under *ThreadObjects* in section 2.)

1. `kernel_sticky_close`: a semaphore is closed while *a* waits; *a* gets -2, as it
   should; its next `sem_wait`, on another semaphore, succeeds and returns -2 too.
2. `kernel_early_wake_up`: a tick uses up the slice of *m*, whose handler
   dispatches to *a*. *a* did not stop in a timer handler, so nobody clears SSIP, and *a*
   returns and takes the same tick again. `wakeUp` counts it twice.
3. `kernel_sleep_one`: *a* and *b* sleep and their time ends with the tick that falls into
   the window of *b*. The handler puts *b*, which still runs, and *a* into the ready list; *b*'s
   second `ecall` puts *b* again, `Scheduler::put` resets its link, and *a* is reached from no
   head any more.
4. `first_fit_split`: two blocks are allocated and the first freed. A request of two blocks does not fit in that one
   and splits the segment behind. `add(prev, curr)` links the segment handed out, and not its
   rest, behind the first.
5. `buddy_lost`: three blocks of one level are freed, the one in the middle last. `prev->next = curr`
   changes nothing, and the block is on no list.
6. `console_lost`: the output thread has loaded `size` 1 when a tick leads to a client, whose `putc` makes it 2; the output thread
   stores 0. The second character is in the array and is not seen until a third one is put, and then one is always
   left behind. `semOutput` stays positive, so that main polls for ever instead of returning too early.

### Bounds

* Three threads (`m` for main, `a` started at boot, `b` to be created): the smallest
  number with a running thread and a list of two, where order, tails and links between
  list elements matter. One semaphore suffices as what a semaphore shares with
  another one is a thread's link and flags; the theorems cover any number.
* `SleepTimes` is {2, 3} in the runs of `KernelLists`, which gives equal and different times, insertion in front
  of, between and behind others; it is {2} in the run `kernel`, which is about progress: times then differ by when the sleep
  began, and `SleepersCorrect` covers the others. `MaxSemValue` and `SemInits` bound the positive side of a value only;
  below 0 it is bounded by the threads.
* `WindowTicks` = 1: one timer interrupt may hit between the `ecall`s of a `time_sleep`
  (apart from one that falls into the first handler). The period of the timer is by orders of
  magnitude longer than the window, but a thread may be preempted in it at most as often as ticks come
  before it runs again, and it leaves the window when it runs. `SleepAssumption` states
  that sleeps are longer than that. It is where correctness ends: `kernel_sleep_one` takes a
  sleep of 1 and fails.
* `DEFAULT_TIME_SLICE` = 2 is the value of `h/hw.h`.
* The console buffers have 3 places instead of 4000: both wrap around, and the output is full at 3 unsent characters.
  `MaxUnsent` is at most the capacity: a client that is further ahead overwrites what has not been sent, which the code does not
  prevent (hazard at `CCB.cpp:48`, which no property covers on the output's side). Nothing bounds the input but the code (`ReadAheadByOne`). The three workloads are strings against strings,
  readers against readers with four characters to be typed, and a line against a string.
* Two clients: one holds the lock or the character that the other wants. The theorems cover any number.
* Three `Thread` objects: a chain of three threads, or one with two objects of which the second is never started.
* The first-fit heap has five blocks and three words: gaps of one, two and three blocks, segments on both
  sides of a freed one, and a rest smaller than a block at the end. Requests of 5, 8 and 20 words take one,
  two (one word more than fits into one) and three blocks.
* The buddy arena has 8 blocks: four levels, so that a block can merge three times. Lists of three and more entries, with one
  between others, come up in `buddy_lost`, and in the run `slab_cache` with the Cache objects, which take a block each.
* The caches have slabs of one and of three blocks (rounded up to four) with two slots and one slot; with 5
  objects a cache has several slabs, in every state. Cache objects are never given back, which bounds the number of
  creations.
* `Init` of `Kernel` has SSIP clear or due: the timer may have ticked during boot.

### Fairness

* `Kernel`: weak fairness of `Tick` (the timer is periodic), of `TimerInterrupt` (the
  hart takes a pending interrupt) and of the second `ecall` of `time_sleep` (the thread that has the
  processor executes its next instructions). No thread is obliged to make any call. A
  signal is never assumed: `WaiterServed` has "infinitely often signalled" as its premise.
* `Printing`: weak fairness of each console thread, each client, main and the device; `ReadyRuns` of `Kernel` is what
  justifies it, as a thread that polls is always ready or runs. Strong fairness of the conditional store: not every attempt of a
  thread at `copy_and_swap` is interrupted between its two instructions, which are a few cycles of a period. Nobody is obliged to type.
* `ThreadObjects`: weak fairness of each thread, justified in the same way.

## 4. The proofs

For every value of the constants that the named assumptions allow:

| Theorem | Says |
|---|---|
| `KernelProofs`: `TypeCorrect` | `Spec => []TypeOK` |
| `OneListCorrect` | no thread on two lists or twice on one |
| `RunningCorrect` | the running thread is on no list but, in its window, the sleeping list |
| `NoThreadLostCorrect` | a started thread that has not exited is somewhere, an exited one nowhere |
| `BlockedCorrect` | `blocked` is exact |
| `SleepersCorrect` | the sleeping list is in the order of the times left, and nobody on it is overdue |
| `IdleCorrect` | the idle thread runs only when nobody is ready |
| `SliceCorrect` | nobody runs with a used-up slice |
| `SemValueCorrect` | a negative value counts the waiters |
| `PollingCorrect` | a polling main keeps the idle thread off the processor |
| `CloseCorrect` | (of `KernelHistory`) a wait that was ended by `sem_close` does not report success |
| `ConsoleProofs`: `ConsoleTypeCorrect`, `SentInOrderCorrect`, `EndCorrect`, `ReadAheadCorrect` | types; what is sent is what was put, in order; all of it is sent when main returns; input is read ahead by one at most |
| `GotInOrderCorrect`, `NoStrandedReaderCorrect` | with fewer clients than places in the buffer, and as long as no update of the input's `size` is lost: readers get what was typed, in order; nobody waits for a character that is there |
| `PrintingProofs`: `PrintingConsoleCorrect`, `PrintingReadersCorrect` | these six hold of the console under the clients of `Printing` |
| `RegionCorrect`, `StringsWholeCorrect` | one thread at a time between LOCK and UNLOCK; strings are printed whole |
| `PrintingImplementsPrintLock` | the spin lock lets a client in only when nobody is inside and out only by its own UNLOCK, and only the one inside prints |
| `ThreadObjectsProofs`: `WholeCorrect`, `FreesWhatItHasCorrect` | a thread is whole until its flag; nothing is freed twice, by two threads, or without having been allocated |
| `MemoryAllocatorProofs`: `HeapTypeCorrect`, `NothingLostCorrect`, `CoalescedCorrect` | unless a segment other than the first is split: types; every word is in one free or one owned segment; no two free segments touch |
| `RefusalsCorrect` | so: a request is refused only if no run of free blocks is large enough, a pointer only if `mem_alloc` did not return it |
| `FirstFitImplementsHeap`, `FirstFitDisjoint`, `OwnedOffList` | so: `mem_alloc` and `mem_free` do what `Heap` promises; owned segments are disjoint; nothing owned is on the free list |
| `BuddyAllocatorProofs`: `BuddyBlocksDisjoint`, `BuddyHalvesMerged` | no two blocks, free or owned, overlap; no two halves of a block are both free |
| `BuddyImplementsHeap`, `BuddySegmentsDisjoint` | `buddyAlloc` and `buddyFree` do what `Heap` promises; owned blocks are disjoint |
| `SlabCacheProofs`: `SlabTypeCorrect`, `HeldCorrect`, `ListedCorrect` | types; what clients own is in use, once; each slab is on the one list its slots say |
| `GrowthCorrect` | a cache grows only when full |
| `SlabBlocksCorrect` | each slab lies in a block that the buddy allocator has given it |
| `SlabBlocksDisjoint`, `SlabHalvesMerged`, `SlabImplementsHeap` | the buddy allocator keeps its promises as the slab allocator uses it, several blocks given back in a step included |
| `SlabsLinkedCorrect` | (of `SlabLinks`) the `next` fields lead through the lists |

*Kernel.* The list properties are not inductive one by one. `dispatch` puts the
running thread back if it is neither finished nor blocked; that this puts nobody on two lists
needs `BlockedIsExact` and `RunningIsOnNoList`, and that it loses nobody needs `NoThreadLost`.
`wakeUp` keeps the lists apart only if the running thread is not among the woken, which is
`WindowOutlastsTicks`: the running sleeper has more time left than ticks can still come
before it gives the processor up. `ListInv` is the conjunction of these with
`ExitedWasStarted` (so that a thread that is started now has not exited). The lemmas on `Put`, `Rest`, concatenation, cutting
and inserting state what list operations do to the set of members; `DispatchMovesLemma` states the
same for a whole dispatch, and each action has a lemma of its own. `SliceInv`, `SemInv` and
`PollInv` are separate invariants over the types or over `ListInv`; so is `SleepersInOrder`, which is inductive as it stands: `LongestPrefix` is
what makes the first of those left have more than one tick to go.

*Closing.* `CloseIsReported` needs `ClosedAreMarked`, that whoever was released by a close has `semDeleted` set, whichever handlers
run before it goes on.

*Console.* `Inv` of `ConsoleProofs` adds to the types what the three semaphores count. `OutputInv` allows for lost updates: `size`, and the
copy the output thread has loaded, are at most what is unsent, never more, so that `popFront` never runs ahead. `RingInv` says
that what is unsent lies in the ring from `head` on whatever `size` is, which is why nothing is reordered even when an update is lost.
`semOutput + Len(sent)` is `put`, but for one character in the hands of the output thread: hence `EndCorrect`.

*Readers.* `ReadInv` has what lost updates leave standing and what they do not. `SizeInv`: only the input thread can lose an update of its `size`,
namely that of a `getc` between its load and its store, so that `size` is never too small, and once it is too large it stays so.
`WaitersInv`: a thread is on the semaphore's queue once, inside `getc`. As long as nothing is lost (`InputExact`), `ReadRing` says
that the characters taken and not got lie in the ring from `head` on, in order, and `Served` that there are at least as many threads released from the
queue, or about to be, as characters, if anybody waits. The number of clients comes in because
the input is read ahead by one beyond what the threads inside `getc` want (`ReadAheadByOne`), and nothing else keeps it from running over what has
not been got. The code has 4000 places (`CCB.h:28`); the run has two clients and three.

*Printing.* Each action is one of `Console` with conditions more or leaves the console alone, so that what is proved of `Console` holds here (`PrintingImplementsConsole`, a lemma:
it says nothing about the lock). `LockInv` adds to `RegionExclusive`
that whoever has read a free lock and still has the reservation finds it free (`ReservedFree`). `AuthorInv` ties the
last character put to the count of the client that prints. With them `PrintingImplementsPrintLock` goes through the steps: a conditional store of LOCK that succeeds finds the region
empty because its reservation has lasted since the lock was read as free, and one of UNLOCK is by the only client inside. TLC agrees on the instance of the run `console`; without the
reservation it does not.

*ThreadObjects.* The invariant has one part for each relation between an object, its maker and its memory: who has made it, what is
allocated at each stage, how far its destruction can be while its thread is where it is, and that the maker of an object whose thread runs waits for it.

*Slabs.* `Inv` of `SlabCacheProofs` says of each header that its state, its count, its flags and the objects that clients own in it agree,
and of each list that it has the slabs of its state, once each. `MovedProperties` is the step from list to list, which `AllocateSlot` and `FreeSlot` share; `DropStep`
the loss of slabs, which `Shrink` and `Destroy` share: an empty slab has no owner (`EmptySlab`). The buddy
allocator's `BuddyInv` is part of the invariant (`SlabInv`): a new slab is not where another one is because the blocks are disjoint, and
`FreedAllKeeps` says that giving back several of them, as `Shrink` and `Destroy` do, keeps `BuddyOK`, block by block.

*Links.* `SlabLinks` conjoins conditions on `links` to the actions of `SlabCache`, so that all the above holds of it (`LinksAreSlabCache`; `HistoryIsKernel` is the like for `KernelHistory`). `LinkInv` says that from each head the `next` fields lead through the slabs of its list in their order and end in `nullptr`, and that
`next` is `nullptr` where there is no slab. Lists are apart, as each slab is on one: so a `next` that `PutFirst` leaves as it is cannot lead into another list. That
`ListFrom` finds the list needs that a walk exists, and that it is shorter than the number of addresses at which it stops.

*Buddy.* `BuddyOK` is stated of the lists and of the set of owned blocks as values: every block is aligned to its size and in the arena, no two
entries of the lists overlap (`FreeOK`), nor do two owned blocks (`OwnedOK`), nor one of each (`FreeNotOwned`), and no two halves of a block are listed. What makes
it inductive is that blocks of powers of two either nest or are apart. `buddyAlloc` splits a block of the lowest level that has one; `Freed`, the
closed form of the merging, is handled with the least level whose other half is not listed (`LeastElement`): below it each half
taken off a list lies next to what has been merged so far, above it nothing changes (`FreedKeeps`). Nothing is said of a block
that `addEntry` drops: it is neither listed nor owned, which is what `buddy_lost` shows.

*First fit.* `HeapInv` is: there is a set *F* of addresses so that `HeapOK` holds, or the allocator has not been used yet. `ListOK` says that from `head` on the pointers in memory
lead through *F* in the order of the addresses, `FreeOK` and `UsedOK` what the words of a free and of an owned segment hold, `FreeNotUsed` that they are
apart, `Covered` that no word of the heap is outside of both, and `Parted` that free segments do not touch. `mem_free` breaks `Parted` for two steps:
it puts the segment on the list and then merges it with the next one and with the one before, so that `Parted` has an exception *p*, at
which a free segment may end where the next one begins. `FreeList` returns *F* in order because each pointer leads to the least address beyond.
`RefusesOnlyForCause` follows from `Covered` and `Parted`: a run of free blocks lies within
one free segment, and the search has found all of those too small. `HeapAssumption` says that a `FreeSegment`, three words, fits into a block, without which a segment's words would lie in
the one behind; the code's block has 64 bytes. The hypothesis `~SplitsBehind` is one about the clients, and the run `first_fit_split` shows that it cannot go.

*Induction.* What a recursive function computes is proved with `Induction`: `LeastElement` (a set of natural numbers has a least one), `InductionFrom`, `InductionFromZero` and
`RecursiveFunction` (a function defined by recursion over `Nat` satisfies its equation) are stated with sets and functions where the library's theorems take operators, which
the provers cannot instantiate. `FreeList`, `ListFrom` of `SlabLinks`, `PowerOf2` and `FreedAll` are recursive functions for that reason.

*Only model-checked:* liveness (`ReadyRuns`, `SleeperWakes`, `WaiterServed`, `MainReturns`, `TypedIsDelivered`, `LockIsGivenBack`, `UserMainEnds`), which is out of the
prover's reach; and that `KernelLists` implements `Kernel`, an invariant about `next`, `head`, `tail` and the relative times like `LinkInv`, which is the next
thing to prove.

## 5. Not modelled

* Number formatting (`printInt`), device programming beyond the status bits, the binaries in `lib/`,
  `h/list.h` (unused), the test programs, and code without a caller: `putInFront`, `prioritySignal`, `peekBack`, `getFreeBlock`.
* `kPutc` and the unexpected trap that calls it: only the stop is modelled (`hung`), not the characters.
* The order of boot, before interrupts are enabled, when nothing can come in between.
* Calls of the first-fit allocator by preemptible threads (`syscall_cpp.cpp` calls it without a trap): two searches may interleave at every
  access of the list, and nothing in the repository says that they may not corrupt it.
* The memory of a semaphore after `sem_close`, and of a thread after its flag: what is found there depends on what the allocators have put there
  since. The clients of `Kernel` make no call on a closed semaphore.
* Privilege in `Kernel` (`userMode`, `SPP`): it decides only which allocator is used, and is part of `ThreadObjects`.
* `PeriodicThread`, which loops over `time_sleep`, and the `Semaphore` and `Console` classes, which call the system calls.
* Constructors and destructors of cached objects (objects have no content), the initial `errortype` of a cache, which is what lay in its block, and the
  choice of a cache by `kmalloc`.
* The character 0 in the runs: `getc` would wait on it for ever, as on an empty buffer.
