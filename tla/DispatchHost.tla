---------------------------- MODULE DispatchHost ----------------------------
(***************************************************************************)
(* The dispatch queue of the x86 build: dispatch_queue_host.cc.            *)
(*                                                                         *)
(* Workers hold the mutex `lock' except while they run a task or sleep on  *)
(* the condition variable `cv'.  A critical section that touches nothing   *)
(* else is one step that needs the lock to be free.  The mutex of an       *)
(* EventCounter is held for one step, too, but Signal goes on without it.  *)
(* A sleeper may be woken by a notification or, where SpuriousWakeups is   *)
(* TRUE, for no reason; it then has to look again.                         *)
(***************************************************************************)
EXTENDS DispatchObjects

CONSTANT SpuriousWakeups  \* may std::condition_variable::wait wake by itself?

ASSUME WakeupAssumption == SpuriousWakeups \in BOOLEAN

VARIABLES lock,    \* who holds dispatch_queue->lock, or None
          ready,   \* ready[w]: the count of worker w's BinarySemaphore
          quit,    \* dispatch_queue->quit
          scanned  \* the loop index in dispatch_queue_wait and dispatch_queue_delete

hostVars == <<lock, ready, quit, scanned>>
vars == <<baseVars, hostVars>>

\* dispatch_queue_create and dispatch_queue_init: the workers have not run yet.
Init ==
  /\ ObjectsInit("start")
  /\ lock = None
  /\ ready = [w \in Workers |-> 1]
  /\ quit = FALSE
  /\ scanned = 0

-----------------------------------------------------------------------------
(***************************************************************************)
(* dispatch_queue_worker.                                                  *)
(***************************************************************************)
\* EventCounter::Signal of worker w's semaphore wakes the client that sleeps on it;
\* nobody deletes it before the worker has been joined.
ReadyLabels(w) ==
  [pc EXCEPT ![w] = "receive",
             ![Client] = IF @ = "sleepready" /\ scanned + 1 = w THEN "waitready" ELSE @]

\* The worker gets the lock, for the first time or after a task, and gives the ready
\* signal.
Ready(w) ==
  /\ pc[w] = "start" \/ (pc[w] = "ready" /\ ~quit)
  /\ lock = None
  /\ lock' = w
  /\ ready' = [ready EXCEPT ![w] = 0]
  /\ TaskDone(w, ReadyLabels(w))
  /\ UNCHANGED <<quit, scanned>>

\* cv.wait: there is nothing to do; the lock is released and the worker sleeps.
Sleep(w) ==
  /\ pc[w] = "receive"
  /\ queue = <<>>
  /\ ~quit
  /\ lock' = None
  /\ Step(w, "blocked")
  /\ UNCHANGED <<ready, quit, scanned>>

\* A mutant of Relock: the worker goes on without the lock.
WakeUnlocked(w) == pc[w] = "woken" /\ Step(w, "receive") /\ UNCHANGED hostVars

\* cv.wait: a worker that was woken gets the lock and looks again.
Relock(w) ==
  /\ pc[w] = "woken"
  /\ lock = None
  /\ lock' = w
  /\ Step(w, "receive")
  /\ UNCHANGED <<ready, quit, scanned>>

\* A mutant of ReadyReset: the ready signal is not cleared.
ReadyKept(w) == ready

\* BinarySemaphore::Reset
ReadyReset(w) == [ready EXCEPT ![w] = 1]

\* The worker clears the ready signal, takes the oldest task and unlocks.
Take(w) ==
  /\ pc[w] = "receive"
  /\ ~quit
  /\ ready' = ReadyReset(w)
  /\ Dequeue(w, "perform")
  /\ lock' = None
  /\ UNCHANGED <<quit, scanned>>

\* The loop ends, in cv.wait or after a task; returning unlocks.
Exit(w) ==
  /\ quit
  /\ (pc[w] = "receive" /\ lock = w) \/ (pc[w] = "ready" /\ lock = None)
  /\ lock' = None
  /\ Step(w, "exited")
  /\ UNCHANGED <<ready, quit, scanned>>

\* A mutant of AfterTask: the worker runs the task it has once more.
RunsAgain(w) == "perform"

AfterTask(w) == "ready"

\* EventCounter::Signal, after the mutex: count is read again and, if it is zero, the
\* client that sleeps on the counter is woken.  Reading it earlier, which the data
\* race allows, is an earlier step.  Of a freed counter nobody is woken: its only
\* waiter has left.
NotifyWaiter(w) ==
  /\ pc[w] = "token"
  /\ LET k == private_data[job[w]]
         wakes == /\ counter[k].life = "alive"
                  /\ counter[k].count = 0
                  /\ pc[Client] = "sleep"
                  /\ WaitCounter(call) = k
     IN pc' = [pc EXCEPT ![w] = AfterTask(w), ![Client] = IF wakes THEN "wait" ELSE @]
  /\ UNCHANGED <<queue, job, objectVars, callVars, performed>>

\* The task is performed, then its counter is signalled or the task deleted.
RunTask(w) ==
  /\ \/ Perform(w)
     \/ CountDown(w, "token")
     \/ NotifyWaiter(w)
     \/ DeleteTask(w, AfterTask(w))
  /\ UNCHANGED hostVars

Work(w) ==
  \/ Ready(w)
  \/ Sleep(w)
  \/ Relock(w)
  \/ Take(w)
  \/ Exit(w)
  \/ RunTask(w)

-----------------------------------------------------------------------------
(***************************************************************************)
(* dispatch_queue_task_add and dispatch_queue_group_add.                   *)
(***************************************************************************)
TaskAdd(t, w) == FunctionAdd(t, w) /\ UNCHANGED hostVars

GroupAdd(g) == GroupAddBegins(g) /\ UNCHANGED hostVars

\* task_add: the task is given the counter.
EachTask == NextTask("send") /\ UNCHANGED hostVars

\* task_add: deque.push_back, under the lock.
Push ==
  /\ pc[Client] = "send"
  /\ lock = None
  /\ Enqueue([pc EXCEPT ![Client] = "notify"])
  /\ UNCHANGED hostVars

Blocked == {w \in Workers : pc[w] = "blocked"}

\* The workers of S are woken and the client goes on at label.
Wake(S, label) ==
  /\ pc' = [e \in Threads |-> IF e = Client THEN label ELSE IF e \in S THEN "woken" ELSE pc[e]]
  /\ UNCHANGED <<queue, job, objectVars, callVars, performed>>

\* A mutant of NotifyOne: the notification is forgotten.
NotifyNone == pc[Client] = "notify" /\ Wake({}, "each") /\ UNCHANGED hostVars

\* task_add: cv.notify_one, after the lock was released.
NotifyOne ==
  /\ pc[Client] = "notify"
  /\ \E S \in SUBSET Blocked :
       /\ Cardinality(S) = (IF Blocked = {} THEN 0 ELSE 1)
       /\ Wake(S, "each")
  /\ UNCHANGED hostVars

-----------------------------------------------------------------------------
(***************************************************************************)
(* dispatch_queue_task_wait, dispatch_queue_group_wait, dispatch_queue_wait *)
(***************************************************************************)
Wait(o) == WaitBegins(o) /\ UNCHANGED hostVars

\* EventCounter::Wait tests the count under the counter's mutex, and sleeps.
WaitSleeps ==
  /\ pc[Client] = "wait"
  /\ counter[WaitCounter(call)].count # 0
  /\ Step(Client, "sleep")
  /\ UNCHANGED hostVars

\* dispatch_queue_task_wait deletes the counter and the task, dispatch_queue_group_wait
\* only the counter.
WaitReturns ==
  /\ pc[Client] = "wait"
  /\ counter[WaitCounter(call)].count = 0
  /\ WaitEnds(IF call \in Tasks THEN {call} ELSE {})
  /\ UNCHANGED hostVars

QueueWait == pc[Client] = "idle" /\ Step(Client, "waitempty") /\ UNCHANGED hostVars

\* The loop that looks at the deque, under the lock, finds it empty.
SeesQueueEmpty ==
  /\ pc[Client] = "waitempty"
  /\ lock = None
  /\ queue = <<>>
  /\ Step(Client, "waitready")
  /\ UNCHANGED hostVars

\* thread_ready_semaphores[i]->Wait(): the client goes on to the next worker or sleeps.
WaitReady ==
  /\ pc[Client] = "waitready"
  /\ scanned < ThreadCount
  /\ IF ready[scanned + 1] = 0
     THEN scanned' = scanned + 1 /\ UNCHANGED baseVars
     ELSE Step(Client, "sleepready") /\ UNCHANGED scanned
  /\ UNCHANGED <<lock, ready, quit>>

QueueWaitReturns ==
  /\ pc[Client] = "waitready"
  /\ scanned = ThreadCount
  /\ scanned' = 0
  /\ Step(Client, "idle")
  /\ UNCHANGED <<lock, ready, quit>>

-----------------------------------------------------------------------------
(***************************************************************************)
(* dispatch_queue_delete.  Tasks that nobody waits for may still be queued *)
(* or running.                                                             *)
(***************************************************************************)
Delete ==
  /\ pc[Client] = "idle"
  /\ pending = {}
  /\ Step(Client, "delete")
  /\ UNCHANGED hostVars

\* quit is set, under the lock.
SetQuit ==
  /\ pc[Client] = "delete"
  /\ lock = None
  /\ quit' = TRUE
  /\ Step(Client, "quit")
  /\ UNCHANGED <<lock, ready, scanned>>

\* A mutant of NotifyAll: notify_one, as in task_add.
NotifyFirst ==
  /\ pc[Client] = "quit"
  /\ Wake({w \in Blocked : \A v \in Blocked : w <= v}, "join")
  /\ UNCHANGED hostVars

\* cv.notify_all
NotifyAll == pc[Client] = "quit" /\ Wake(Blocked, "join") /\ UNCHANGED hostVars

\* threads[i].join()
Join ==
  /\ pc[Client] = "join"
  /\ scanned < ThreadCount
  /\ pc[scanned + 1] = "exited"
  /\ scanned' = scanned + 1
  /\ UNCHANGED <<baseVars, lock, ready, quit>>

\* The semaphores and the queue are deleted.
FreeMemory ==
  /\ pc[Client] = "join"
  /\ scanned = ThreadCount
  /\ Step(Client, "stopped")
  /\ UNCHANGED hostVars

-----------------------------------------------------------------------------
\* The client starts a call.
Call ==
  \/ ObjectCall /\ UNCHANGED hostVars
  \/ \E t \in Tasks, w \in BOOLEAN : TaskAdd(t, w)
  \/ \E g \in Groups : GroupAdd(g)
  \/ \E o \in Objects : Wait(o)
  \/ QueueWait
  \/ Delete

\* The client goes on with the call it is in.
Continue ==
  \/ EachTask
  \/ AddReturns /\ UNCHANGED hostVars
  \/ Push
  \/ NotifyOne
  \/ WaitSleeps
  \/ WaitReturns
  \/ SeesQueueEmpty
  \/ WaitReady
  \/ QueueWaitReturns
  \/ SetQuit
  \/ NotifyAll
  \/ Join
  \/ FreeMemory

AfterWakeup == [blocked |-> "woken", sleep |-> "wait", sleepready |-> "waitready"]

SpuriousWakeup(e) ==
  /\ SpuriousWakeups
  /\ pc[e] \in DOMAIN AfterWakeup
  /\ Step(e, AfterWakeup[pc[e]])
  /\ UNCHANGED hostVars

Next ==
  \/ \E w \in Workers : Work(w)
  \/ Call
  \/ Continue
  \/ \E e \in Threads : SpuriousWakeup(e)

Spec == Init /\ [][Next]_vars

\* The operating system runs every thread that can run.  The tasks are finite and no
\* condition variable wakes by itself for ever, so that nobody competes for the lock
\* for ever.
FairSpec ==
  /\ Spec
  /\ \A w \in Workers : WF_vars(Work(w))
  /\ WF_vars(Continue)
  /\ <>[][\A e \in Threads : ~SpuriousWakeup(e)]_vars

-----------------------------------------------------------------------------
\* The types of the state; the lock is held exactly by the worker that looks at the deque.
TypeOK ==
  /\ ObjectsTypeOK
  /\ pc \in [Threads -> {"start", "receive", "blocked", "woken", "perform", "finish",
                         "token", "ready", "exited", "idle", "each", "send", "notify",
                         "wait", "sleep", "waitempty", "waitready", "sleepready",
                         "delete", "quit", "join", "stopped"}]
  /\ \A w \in Workers : pc[w] = "receive" <=> lock = w
  /\ lock \in Workers \cup {None}
  /\ ready \in [Workers -> {0, 1}]
  /\ quit \in BOOLEAN
  /\ scanned \in 0..ThreadCount

\* "Wait synchronously in the caller's thread for all tasks to finish executing"
\* (dispatch_queue.h lines 101 and 102): a worker clears its ready signal before the
\* task leaves the deque, so no task is overlooked.
QueueWaitCoversAll ==
  [][QueueWaitReturns => \A t \in Handed : performed[t] = 1]_vars

\* NoLeak is not what the code does.  This is how much of it is true: at rest every
\* event counter and every task that was added has been freed, and what is left is
\* only the tasks of waitable groups, of which dispatch_queue_group_wait deletes the
\* counter alone.
LeaksOnlyGroupTasks ==
  AtRest => /\ \A o \in added : counter[o].life # "alive"
            /\ \A t \in Handed : life[t] = "freed" \/ private_data[t] \in Groups
=============================================================================
