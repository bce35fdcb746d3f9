# Verification of lib_dispatch

`lib_dispatch` is a dispatch queue for XMOS xCORE devices: clients add tasks
(functions) and groups of tasks, a fixed set of worker threads performs them in
FIFO order, and clients wait for a task, for a group or for the whole queue.
There are three implementations of one API: bare-metal, FreeRTOS and x86 host.
This directory models the library in TLA+, checks the models with TLC and proves
the most important of their properties with TLAPS.

`PROJECT.json` is the index: components, runs, the source lines behind every
definition (`map`), one deliberate bug per property (`mutants`), the findings,
the hazards and the theorems.

## Inventory

| Component | State | Operations | What makes it correct |
|---|---|---|---|
| Spinlock (`spinlock_asm.S`, `spinlock.c`) | one word: 0 or a core's claim | try_acquire, acquire, release | mutual exclusion from timing alone; no orphaned claim; somebody gets the lock |
| Condition variable (`condition_variable_metal.c`) | list of nodes on the waiters' stacks, a spinlock | wait, broadcast, terminate (signal has no caller) | no lost wake-up; nodes are read while they exist; terminate reaches everybody |
| Queue (`queue_metal.c`) | ring buffer, head, tail, full, a hardware lock, a condition variable | create, send, receive, size, delete | a bounded FIFO queue; blocked calls return |
| Event counter (`event_counter_metal.c`) | count, spinlock, streaming channel | create, signal, wait, delete | exactly one token, sent when the last task is done and before the counter is freed |
| Dispatch queue, bare-metal (`dispatch_queue_metal.c`) | queue, busy flags, worker threads and stacks | create, add, wait, delete | each task performed once; tasks and counters freed once and not used afterwards; waits return, and not too early |
| Task, group (`dispatch_task.c`, `dispatch_group.c`) | function, waitable flag, private_data; array of tasks | create, add, perform, delete | ownership: the worker deletes non-waitable tasks, the waiter the waitable ones |
| Dispatch queue, FreeRTOS (`dispatch_queue_rtos.c`, `event_counter_rtos.c`) | FreeRTOS queue, event group of ready bits, counters with a semaphore | as bare-metal | as bare-metal; deletion stops one worker after the other while the rest go on |
| Dispatch queue, host (`dispatch_queue_host.cc`) | mutex, condition variable, deque, quit flag, ready semaphores, EventCounters | as bare-metal | as bare-metal; no notification is missed, delete joins every worker |

How they interact. The dispatch queue calls the queue to hand tasks to workers;
the queue uses a hardware lock for the ring and the condition variable to block;
the condition variable protects its list by a spinlock and wakes threads over
channel ends. Workers and clients share the busy flags (no lock), the task
objects and the event counters (a spinlock, then a token on a channel). The
FreeRTOS build has a FreeRTOS queue, an event group of ready bits and counters
with a binary semaphore in their place, the host build one mutex and condition
variable for deque and quit flag, and a mutex and condition variable in every
counter and ready semaphore.

What is hard: a lock whose safety is a matter of instruction timing; list nodes
that live on the stacks of the threads being woken; flags and sizes read one
after the other without a lock; objects freed by one thread as soon as another
has signalled; a terminate protocol that takes no lock; notifications sent after
the lock has been released; workers stopped or joined one by one while the others
go on. The `hazards` of
`PROJECT.json` give each of these with its line and the properties about it.

## Modules

| Module | Models | Extends / uses |
|---|---|---|
| `LockSpec` | abstract lock: one owner at a time | |
| `Spinlock` | `spinlock_asm.S` instruction by instruction, `spinlock.c` | refines `LockSpec` |
| `SpinlockProof` | theorems about `Spinlock` | extends `Spinlock` |
| `BoundedQueue` | abstract bounded FIFO queue | |
| `QueueMetal` | `queue_metal.c` over `condition_variable_metal.c` | refines `BoundedQueue` |
| `QueueMetalProof` | theorems about `QueueMetal` | extends `QueueMetal` |
| `DispatchSpec` | abstract dispatch queue: what `dispatch_queue.h` promises | |
| `DispatchObjects` | `dispatch_task.c`, `dispatch_group.c`, and the steps and properties the three builds share | instantiates `DispatchSpec` |
| `DispatchMetal` | `dispatch_queue_metal.c`, `event_counter_metal.c` | extends `DispatchObjects`, refines `DispatchSpec` |
| `DispatchRtos` | `dispatch_queue_rtos.c`, `event_counter_rtos.c` | extends `DispatchObjects`, refines `DispatchSpec` |
| `DispatchHost` | `dispatch_queue_host.cc` | extends `DispatchObjects`, refines `DispatchSpec` |
| `DispatchObjectsProof` | the inductive invariant over the shared variables and the steps that keep it | extends `DispatchObjects` |
| `DispatchPropertiesProof` | what follows from it: the shared properties, tokens, the refinement | extends `DispatchObjectsProof` |
| `DispatchMetalProof`, `DispatchRtosProof`, `DispatchHostProof` | theorems about the three builds | extend their build and `DispatchPropertiesProof` |
| `WorkerStacks` | layout of the bare-metal workers' stacks | |
| `WorkerStacksProof` | theorem about `WorkerStacks` | extends `WorkerStacks` |

The layers are stacked by the abstract specifications: `QueueMetal` takes the
spinlock as a lock (`spin`), which `Spinlock` implements, and `DispatchMetal`
takes the queue as a FIFO queue, which `QueueMetal` implements, together with
the wake-up of all blocked threads by every send (`NoLostWakeup`). On top,
`DispatchSpec` is what a user of the library may rely on, whatever the build.

### Spinlock

`pc[c]` is the instruction core `c` executes next; `Load`, `Branch`, `Store`,
`Nop`, `Reload` are the instructions of `spinlock_try_acquire`, `Call` and
`Release` are `spinlock.c`. The register set-up before the load (lines 17-19)
touches no shared state and is part of `Load`.

Without a bound on relative speed the algorithm is not a lock: a core that has
loaded 0 may store its claim arbitrarily late. The bound is the constant `Skew`:
while a core is between its load and its store, no other core issues more than
`Skew` instructions between two of its own (`Issue`, `lag`). It stands for the
hardware's thread scheduler, which is outside the repository, and it is the
assumption the comment on lines 24-25 of `spinlock_asm.S` alludes to.
`DelayAssumption` is the sizing rule that follows from it, `Nops + 2 > 2 * Skew`:
7 nops tolerate a skew of 4, 1 nop (XS1B) a skew of 1, that is strict rotation.
The mutant with one nop less violates mutual exclusion at 7 nops and a skew of 4,
so the rule is tight in the model.

### QueueMetal

A thread of the model is a producer, a consumer or the deleter; `pc[t]` goes
through the operations on shared state in the order of the code: mutex, test of
the predicate, spinlock and list (`Enlist`), release of the mutex (`Drop`), the
channel input (`"in"`), the update of the ring, the broadcast (`SpinGet`,
`SendEvent`, `NextWaiter`, `SpinPut`), release of the mutex. An event on a channel is a
rendezvous (`SendEvent`): `chan_out_byte` and `chan_in_byte` complete together,
which is why the sender blocks until a waiter that has linked its node, and still
holds the mutex, is ready for it.

A list node is named by the thread whose stack it is on; `NodeAlive` says whether
that thread is still in `condition_variable_wait`. A read of `next` from a dead
node is undefined behaviour; `NextDeadWaiter` chooses between the old value, NULL
and a wild pointer. In a broadcast it cannot happen (`BroadcastReadsLiveNodes`,
proved); in terminate it can.

`queue_delete` takes no lock. Its caller has to know the queue is at rest;
`AtRest` is the state `test_queue_metal.c` waits for.

### DispatchSpec and DispatchObjects

`DispatchSpec` has the tasks that are queued (`order`), taken by a worker
(`running`), performed (`done`), waited for (`waited`) and `freed`. Workers take
the oldest task, a wait returns only for tasks that are done, a task is freed
only when it is done. With use_callers_thread (`CallersRun`) the caller may take the
task it was about to add (`PitchIn`), which then overtakes the queued ones: that much
of FIFO order the option gives up, and no more.

`DispatchObjects` has the variables and steps that are the same in all builds:
the client's calls on objects (`GroupCreate`, `GroupTaskAdd`, `GroupPerform`,
`TaskDelete`, `GroupDelete`), the beginning of an add (`FunctionAdd`,
`GroupAddBegins`), its loop over the tasks (`NextTask`, `AddReturns`), the
beginning and end of a wait, and what a worker does with a task (`Dequeue`,
`Perform`, `DeleteTask`, `CountDown`, `SendToken`). Each takes the label the
thread goes on with; a build conjoins what happens to its own variables. The
`map` gives the lines of one implementation, the bare-metal one; the others
have the same lines in their files, and where they differ the build has an action of
its own.

There is one client, because all sends of a bare-metal dispatch queue use its one
channel end. It follows the contract of the headers: it adds an object once,
waits once for what is waitable, deletes only tasks it has performed itself with
dispatch_group_perform, and deletes the queue when nothing is left to
wait for. Tasks that nobody waits for may then still be queued or running on
FreeRTOS and the host; on bare metal the client deletes the queue as `README.rst`
lines 42-46 show it (below). `test_dispatch_queue.c` lines 188-190 delete a waitable task that
was added and not waited for, which `README.rst` line 73 rules out ("you must wait on the task");
the client of the model does not.

Tasks are numbers and are created in ascending order (`Fresh`): which memory
dispatch_task_create returns is of no importance, and fixing it takes the place of a
symmetry set, which would be unsound for liveness. A worker that is done with a task
forgets it (`TaskDone`): the variable of the code still points to it, and is never read
again before the next receive. `life` and the `life` field of `counter` record allocation
and free, `performed` counts calls of a task's function. The client's guards use them
to keep the contract; no step of the library's code depends on them.

### DispatchMetal

Workers: `Receive` or `Block`, `MarkBusy`, `RunTask` (perform, then delete the
task, or count down and possibly send the token), `MarkReady`. The client: an add
goes through `EachTask`, with `use_callers_thread` the scan of the flags
(`ReadStatus`, one flag at a time) and `PitchInOrSend`, and `Send`;
`Wait`/`WaitReturns` is task_wait and group_wait; `QueueWait`, `ReadStatus`,
`QueueWaitReturns`, `QueueWaitAgain` are dispatch_queue_wait. Two variables record
history for properties and guards about calls: `begun` has the tasks that were running
when dispatch_queue_wait was called and still are (`QueueWaitCoversBegun`), `settled`
says that dispatch_queue_wait was the last call.

dispatch_queue_delete is three actions, because its steps interleave with the workers'.
`Delete` is queue_delete: the client has added something and has then waited, for the queue
or for every object it added; that is the documented use and does not mean that the workers
are done (findings 2 and 3). Some of the blocked workers are released, one at least:
which of them condition_variable_terminate reaches is the matter of `QueueMetal` and
finding 1. A released worker still frees its channel end and reads its worker_data
(`Leave`), while the client goes on to free stacks, worker_data and flags
(`FreeMemory`). Workers do not touch a queue that is freed, and nothing is
modelled of a worker whose stack is freed: from there on `NoWorkerOutlivesQueue` is
violated already.

### DispatchRtos

One call of FreeRTOS is one step: `Receive` and `Send` are its queue, `ClearBit`,
`SetBit` and `QueueWaitReturns` its event group, `Signal` is the critical section
of event_counter_signal and `Give` the semaphore that follows it. `xReadyBits` is
the mask `0xFFFFFFFF >> (32 - thread_count)` as a set of bit positions,
`BitsAssumption` the 24 bits an event group has. `DeleteThread` is one turn of the
loop over vTaskDelete: the worker stops at whatever label it has and the others
go on. `FreeMemory` stands for all the frees after the loop (lines 251-254), which is not
the structure of line 102; they are one step because no worker is left to see them.

### DispatchHost

`lock` is the mutex of the queue. A worker keeps it from `Ready` (the ready signal
at the top of the loop) through `Sleep` or `Take`; `Relock` is the end of
`cv.wait`. The client's critical sections touch nothing else and are one step each
(`Push`, `SeesQueueEmpty`, `SetQuit`); notifications are separate steps, because
the code sends them without the lock (`NotifyOne`, `NotifyAll`, `NotifyWaiter`).
`Take` resets the ready signal and pops the task in one step, since the worker holds the
lock for both and nobody else can tell their order. What the mutant tests is therefore that
the reset is there, not that it comes before the pop.
A sleeper has its own label, from which a notification or a spurious wake-up
takes it back to the test of its predicate. `ready[w]` is the count of a
BinarySemaphore (0: signalled).

`EventCounter::Signal` reads `count` after releasing its mutex, a data race. Every
outcome is covered: the model reads at any later moment, and a value read earlier
is that of an earlier step.

### WorkerStacks

`dispatch_queue_create` allocates the block (`Allocated`), each turn of the loop of
`dispatch_queue_init` places one stack (`Launch`). Addresses are bytes.

## Runs

| Run | Bounds | Shows |
|---|---|---|
| `spinlock` | 3 cores, 7 nops, skew 4 | TypeOK, MutualExclusion, NoOrphanedClaim, SomeCoreAcquires; implements `LockSpec` |
| `queue` | 2 producers x 2 sends, 2 consumers, 1 deleter, 2 slots | TypeOK, HoldsMutex, NoLostWakeup, BroadcastReadsLiveNodes, NoUseAfterFree, SendReturns, ItemsAreReceived; implements `BoundedQueue` |
| `queue_terminate` | 1 producer, 2 consumers, 1 deleter | violation: DeleteReleasesWaiters |
| `metal` | 3 tasks, 1 group of up to 2, 2 workers, 2 slots, use_callers_thread | TypeOK, PerformedOnce, NoTaskUseAfterFree, NoCounterUseAfterFree, NoLeak, QueueWaitCoversBegun, CallsReturn, AddedIsPerformed; implements `DispatchSpec` |
| `metal_queuewait` | 2 tasks, 2 workers (as test_wait_queue) | violation: QueueWaitCoversAll |
| `metal_delete` | 2 tasks, 2 workers | violation: NoWorkerOutlivesQueue |
| `metal_stacks` | up to 8 workers, up to 8 words | violation: StacksWithinAllocation |
| `rtos` | 3 tasks, 1 group of up to 2, 2 workers, 2 slots | TypeOK, PerformedOnce, NoTaskUseAfterFree, NoCounterUseAfterFree, NoLeak, QueueWaitMissesOnlyReceived, CallsReturn, AddedIsPerformed; implements `DispatchSpec` |
| `rtos_queuewait` | 2 tasks, 2 workers (as test_wait_queue) | violation: QueueWaitCoversAll |
| `host` | 3 tasks, 1 group of up to 2, 2 workers, spurious wake-ups | TypeOK, PerformedOnce, LeaksOnlyGroupTasks, QueueWaitCoversAll, CallsReturn, AddedIsPerformed; implements `DispatchSpec` |
| `host_leak` | 1 group of 1 task, 1 worker | violation: NoLeak |
| `host_counter` | 1 task, 1 worker | violation: NoCounterUseAfterFree |

Why the bounds are enough to be interesting. Three cores allow a collision of two
claims observed by a third. Two threads on each side of a queue of two slots
make the ring wrap around, fill up and run empty, and put lists of two nodes in
front of a broadcast. Two slots and three tasks let an order be wrong; a group of two
and two workers let both finish tasks of one group at the same time, next to a task of
its own. On bare metal the client runs a task itself when it finds both workers busy,
and sends it when it does not, into a queue that fills up while the workers have yet to
mark themselves. With `UseCallersThread = FALSE` the same configuration passes too
(731,317 distinct states instead of 859,597); the safety theorems below cover both modes. On
FreeRTOS the third add blocks while no worker has received yet. The host
has no slots to fill; every sleeper may wake at any time.

The three dispatch runs take from one to four minutes, the others less. Checking safety and
liveness in one run costs little, as there is no symmetry to keep apart.

The bounds themselves are `MaxSends` (calls per producer), the finite sets of tasks
and groups, each used once, and `MaxThreads` and `MaxStack`; everything else is
unbounded or a parameter of the code. The theorems below remove the bounds for
all safety properties.

Deadlock is checked for the spinlock. The others may stop: consumers and workers
wait for ever when nobody sends, and the tasks are finite.

### Fairness

- `Spinlock`: weak fairness of each core's steps in a call. Hardware threads are
  issued instructions for ever; nobody has to call `spinlock_acquire`, but an
  owner releases. A given core may starve (the code has no queue of waiters), so
  the property is that some core gets the lock.
- `QueueMetal`: weak fairness of each thread inside a call and of consumers
  calling again. With a bounded number of sends, competition for the mutex
  ends, so weak fairness is enough and no strong fairness of the lock is assumed.
- `DispatchMetal`, `DispatchRtos`, `DispatchHost`: weak fairness of each worker
  and of the client inside a call. The client never has to make another call.
  Bare-metal workers have a hardware thread each.
  On FreeRTOS the wait for an empty queue (`dispatch_queue_rtos.c` line 230) polls without
  blocking: the assumption is that the workers run nevertheless, that is they
  have the client's priority or a higher one, with time slicing, or a core of
  their own. On the host the operating system runs every thread, and no condition
  variable wakes by itself for ever (`FairSpec`: spurious wake-ups end at some time,
  nobody says when); the tasks are finite, so nobody competes for the lock for ever.
  A notification that only a spurious wake-up could replace is still missed: the mutants
  of `NotifyOne` and `NotifyAll` violate the two properties.

### Findings

1. `condition_variable_terminate` reads `next` from the stack of a thread it has
   just released. With two waiters the second may never be told
   (`queue_terminate`). The broadcast has the same loop and is safe, because its
   waiters first queue for the mutex which the broadcaster holds.
2. The bare-metal `dispatch_queue_wait` returns while a worker holds a task it has
   received but not yet announced by its busy flag (`metal_queuewait`). What does
   hold is `QueueWaitCoversBegun`: tasks already running when it is called are covered.
3. The bare-metal `dispatch_queue_delete` frees queue, flags and stacks at once. After
   the documented wait a worker may still have a task (finding 2), be on its way back to
   `queue_receive`, not have been reached by terminate (finding 1), or have been
   released and still be about to read its worker_data (`metal_delete`).
4. The block for the bare-metal workers' stacks has as many bytes as the stacks have
   words, a quarter of what they need (`metal_stacks`). The stacks do not overlap each
   other (proved), but only about `thread_count / 4` of them lie inside the block.
5. The FreeRTOS `dispatch_queue_wait` has a window like that of finding 2, between
   xQueueReceive and xEventGroupClearBits (`rtos_queuewait`).
   `QueueWaitMissesOnlyReceived` shows that this is all it misses. The host has no such
   window (`QueueWaitCoversAll` holds).
6. The host's `dispatch_queue_group_wait` does not delete the tasks of the group, unlike
   the other two builds and against `README.rst` line 73 (`host_leak`);
   `LeaksOnlyGroupTasks` shows that nothing else leaks.
7. The host's `EventCounter::Signal` reads the count and notifies after it has
   released the mutex; by then the waiter may have deleted the counter
   (`host_counter`). The other two builds signal through a channel or a semaphore
   that the waiter needs in order to go on, and do not have this
   (`NoCounterUseAfterFree` holds).

Seen while modelling, and not a run of their own:

- The FreeRTOS `dispatch_queue_delete` does not free the structure allocated at
  line 102, though `dispatch_queue.h` line 38 says that it frees the memory
  dispatch_queue_create allocated.
- The host ignores `length`: an add never blocks (`README.rst` line 77).
- With `use_callers_thread` the queue never holds more tasks than there are workers,
  says `test/src/dispatch_config.h` lines 23-25, because the caller pitches in. It is the
  length, which the same comment asks to be the number of workers, that ensures
  this: a worker that has not received or not marked itself yet looks READY, and the client
  sends as long as there is room.

## Proofs

All theorems hold for every value of the constants that satisfies the named
assumptions; no assumption goes beyond what the code or its asserts say, except
`DelayAssumption` (above).

**Spinlock** (`SpinlockTypeCorrect`, `SpinlockMutualExclusion`,
`SpinlockNoOrphanedClaim`, `SpinlockImplementsLock`), from `CoresAssumption` and
`DelayAssumption`. Mutual exclusion is not inductive: it has to be known that
when a core has counted its nops down with its claim in place, no other core can
still be about to store. The inductive invariant relates the remaining delay of
a claiming core to the lag of every core between load and store: each nop of the
first costs one unit of the second's lag, and the second has two instructions
to issue, each worth at most `Skew`. It follows that a core that succeeds in
`Reload` sees no core lagging (`OwnerIsSafe`), which gives mutual exclusion and
the step simulation to `LockSpec`.

**Queue** (`QueueTypeCorrect`, `QueueHoldsMutex`, `QueueNoLostWakeup`,
`QueueBroadcastReadsLiveNodes`, `QueueNoUseAfterFree`,
`QueueImplementsBoundedQueue`), from `LengthAssumption` and `ThreadsAssumption`.
The inductive invariant `Inv` conjoins the properties with what they need:
who holds the spinlock (`HoldsSpin`), that `full` implies head = tail
(`FullMeansMet`), that a thread about to change the ring has checked its
predicate and it still holds (`Checked`), that the list holds exactly the threads
that wait, without repetition (`WaitersListed`), that during a broadcast the
first node belongs to a thread that queues for the mutex (`FirstIsRelocking`),
and the phases of deletion. There is one lemma per action. The refinement maps
ring, head, tail and full to the sequence `Contents`; the lemmas `PutSends` and
`TakeReceives` show that the updates of the ring are Append and Tail on it, for
every length and position, and every other action stutters.

**Worker stacks** (`WorkerStacksDisjoint`), for every thread count and stack size.
The inductive invariant `PlacedBelow` adds to disjointness that every stack placed
so far ends at or below the next offset.

**Dispatch queues**, from `SizeAssumption`, `ModeAssumption` and `NamesAssumption`, and
on FreeRTOS `BitsAssumption`: for any number of workers, any sets of tasks and groups and
any length, on bare metal with and without use_callers_thread.

| Property | bare-metal | FreeRTOS | host |
|---|---|---|---|
| TypeOK | `MetalTypeCorrect` | `RtosTypeCorrect` | `HostTypeCorrect` (with mutual exclusion) |
| PerformedOnce | `MetalPerformedOnce` | `RtosPerformedOnce` | `HostPerformedOnce` |
| NoTaskUseAfterFree | `MetalNoTaskUseAfterFree` | `RtosNoTaskUseAfterFree` | `HostNoTaskUseAfterFree` |
| NoCounterUseAfterFree | `MetalNoCounterUseAfterFree` | `RtosNoCounterUseAfterFree` | refuted (finding 7) |
| one token per counter | `MetalTokenOnce` | `RtosTokenOnce` | no token |
| what is freed at rest | `MetalNoLeak` | `RtosNoLeak` | `HostLeaksOnlyGroupTasks`; more is refuted (finding 6) |
| dispatch_queue_wait | `MetalQueueWait`: covers what has begun; more is refuted (finding 2) | `RtosQueueWait`: misses only what was just received; more is refuted (finding 5) | `HostQueueWait`: covers all |
| wake-up and deletion | refuted (finding 3) | by construction of the loop over vTaskDelete | `HostNoMissedNotification`, `HostDeleteJoinsAll` |
| implements `DispatchSpec` | `MetalImplementsDispatch` | `RtosImplementsDispatch` | `HostImplementsDispatch` |

The argument is made once, over the variables of `DispatchObjects`. `SharedStep`
(`DispatchObjectsProof`) is the disjunction of everything a build may do to them:
the actions of `DispatchObjects` at labels that are left open, and `Move`, in which
threads change labels without taking, performing or finishing a task (a thread may forget
a task it is done with). The inductive
invariant `Inv` is preserved by it (`SharedStepInv`, with a lemma for each kind of
step):

- `Owned`, `Queued`, `ToSend`: a task is in the hands of one thread at most, once in
  the queue or once in the list still to send, and these exclude each other;
  `NotLost`: one that was handed over and not performed is at one of these places.
  Together they give PerformedOnce. None of them is inductive alone: a worker that
  takes the oldest task must know that no other thread has it and that it is not
  queued a second time.
- `Grouped`: a task belongs to one object, and its waitable flag is the group's.
  Without it two groups could send the same task, and a worker and a waiter could
  both free it.
- `Allocated`, `Disposed`: what is freed has been performed, and a task nobody waits
  for is freed by the thread that has performed it.
- `Given`, `Counted`: a task on its way has the counter of its object, and the count
  is the number of its `Outstanding` tasks, those not yet performed or performed and
  not yet counted down. This is what makes a wait that sees a count of zero free only
  tasks that every worker is done with. The lemmas on finite sets around `CountDown`
  show that the count goes down exactly when a task leaves `Outstanding`.
- `InItsCall`, `HasJob`, `Labelled`, `ObjectsTypeOK`: what the labels mean.

`DispatchPropertiesProof` derives the properties. A counter that is signalled is alive
as long as `Sending` holds: the thread at `token` is the only one for its counter, its
object is still waited for, and no token has been sent before. `TokenOnce` is
inductive for the steps of the two builds that wait for a token (`TokenStep`, which
implies `SharedStep`); on the host the waiter looks at the count instead and may be
gone, which is finding 7. `WaitedFreed(D)` says that a wait frees the tasks of the
objects of `D`: all objects on bare metal and FreeRTOS, only single tasks on the host.
`SharedStepRefines` shows that every shared step is a step of `DispatchSpec` or
invisible to it; a client that turns to performing the task it has is `PitchIn`, and
`PitchesIn` says that it does so only with use_callers_thread.

Each build then shows that its `Next` is such a step (`StepIsShared`) and adds what its
own variables need:

- bare metal: a worker is marked busy from before it performs until after it is done
  (`MarkedBusy`), and during the scan of dispatch_queue_wait every task of `begun` is with
  a worker that is ahead of the scan or was counted (`NotMissed`); a scan begins with
  nothing counted (`ScanBegins`);
- FreeRTOS: the ready bit of a worker with a task is clear (`BitsClear`), a client that
  waits for the bits has seen the queue empty, and only itself could fill it
  (`SeenEmpty`);
- host: who holds the lock (`Locking`), a worker whose ready signal is given has no
  task (`ReadyIdle`), and the workers the client has passed stay ready, because the
  deque stays empty (`PassedReady`). For the notifications, `Leaving` says when
  workers end and which of them have been joined.

**Only model-checked**: all liveness properties (CallsReturn, AddedIsPerformed,
SendReturns, ItemsAreReceived, SomeCoreAcquires), which are outside the prover's
reach, and the refuted properties of the findings. `TokenOnce`,
`NoMissedNotification` and `DeleteJoinsAll` are stated in the proof modules and are not part of a run; the
invariants over the shared variables were checked with TLC on the instances of the
runs before they were proved.

## Not modelled

- `condition_variable_signal`: no caller.
- Contents of tasks (function, argument), printing, asserts as code; what an
  assert demands of a caller is a guard.
- Failure of `malloc`, `xTaskCreate` and the like, and exhaustion of locks, channel
  ends and timers: the code does not handle it.
- Several clients of one dispatch queue, and tasks that add tasks: what threads
  that share a channel end do is not described in the repository, and no document
  promises it.
- Empty groups: a group is a container "for one or more tasks" (`README.rst` line
  69), and dispatch_queue_group_wait reads its first task.
- What becomes of tasks that are dropped by dispatch_queue_delete: the models let
  it happen, no document says what should.
- Thread priorities (see Fairness); FreeRTOS and the C++ library beyond what the
  code uses of them.
- Tests, examples and build files: clients of the library, which are the source of the
  contracts in the guards.

## Plan

1. Done: all components that are modelled have their modules and runs; the safety
   properties of the passing runs and the refinements are proved, on bare metal with and
   without use_callers_thread.
2. Left: the wake-up of the bare-metal waiters as a theorem of `DispatchMetal` from
   `NoLostWakeup` of `QueueMetal`.
