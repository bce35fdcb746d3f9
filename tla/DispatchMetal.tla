--------------------------- MODULE DispatchMetal ---------------------------
(***************************************************************************)
(* The dispatch queue of the bare-metal build: dispatch_queue_metal.c with *)
(* event_counter_metal.c.                                                  *)
(*                                                                         *)
(* There is one client: dispatch_queue->cend, the channel end it blocks    *)
(* on, cannot be shared.  The queue of tasks is the bounded FIFO queue     *)
(* that QueueMetal is shown to implement; a worker that finds it empty     *)
(* blocks in the condition variable and every send wakes all blocked       *)
(* workers.                                                                *)
(***************************************************************************)
EXTENDS DispatchObjects

VARIABLES status,        \* thread_status: is worker w marked busy?
          scanned, busy, \* busy_workers: the loop index and busy_count
          begun,         \* the tasks that were running when dispatch_queue_wait was called,
                         \* and still are
          settled        \* was dispatch_queue_wait the last call?

metalVars == <<status, scanned, busy, begun, settled>>
vars == <<baseVars, metalVars>>

\* dispatch_queue_create and dispatch_queue_init.
Init ==
  /\ ObjectsInit("receive")
  /\ status = [w \in Workers |-> "READY"]
  /\ scanned = 0
  /\ busy = 0
  /\ begun = {}
  /\ settled = FALSE

-----------------------------------------------------------------------------
(***************************************************************************)
(* dispatch_queue_worker.                                                  *)
(***************************************************************************)
\* queue_receive returns a task.
Receive(w) == pc[w] = "receive" /\ Dequeue(w, "mark") /\ UNCHANGED metalVars

\* queue_receive finds the queue empty and waits on its condition variable.
Block(w) ==
  /\ pc[w] = "receive"
  /\ queue = <<>>
  /\ Step(w, "blocked")
  /\ UNCHANGED metalVars

\* *status = ...
Mark(w, value) ==
  /\ status' = [status EXCEPT ![w] = value]
  /\ UNCHANGED <<scanned, busy, begun, settled>>

MarkBusy(w) == pc[w] = "mark" /\ Step(w, "perform") /\ Mark(w, "BUSY")

MarkReady(w) ==
  /\ pc[w] = "ready"
  /\ TaskDone(w, [pc EXCEPT ![w] = "receive"])
  /\ Mark(w, "READY")

-----------------------------------------------------------------------------
(***************************************************************************)
(* run_task, by a worker or (use_callers_thread) by the client.            *)
(***************************************************************************)
\* A mutant of AfterTask: the client goes on to send the task it has run.
SendsToo(e) == IF e = Client THEN "send" ELSE "ready"

\* Where a thread goes on after run_task.
AfterTask(e) == IF e = Client THEN "each" ELSE "ready"

\* event_counter_signal, and dispatch_task_delete of a task nobody waits for.
RunTask(e) ==
  /\ \/ Perform(e)
     \/ CountDown(e, AfterSignal(e, AfterTask(e)))
     \/ SendToken(e, AfterTask(e))
     \/ DeleteTask(e, AfterTask(e))
  /\ begun' = begun \ (IF pc[e] = "perform" THEN {job[e]} ELSE {})
  /\ UNCHANGED <<status, scanned, busy, settled>>

-----------------------------------------------------------------------------
(***************************************************************************)
(* dispatch_queue_task_add and dispatch_queue_group_add.                   *)
(***************************************************************************)
TaskAdd(t, w) ==
  /\ FunctionAdd(t, w)
  /\ settled' = FALSE
  /\ UNCHANGED <<status, scanned, busy, begun>>

GroupAdd(g) ==
  /\ GroupAddBegins(g)
  /\ settled' = FALSE
  /\ UNCHANGED <<status, scanned, busy, begun>>

\* One turn of the loop: the task is given the counter, then it is sent or, with
\* use_callers_thread, the workers are looked at first.
EachTask == NextTask(IF UseCallersThread THEN "scan" ELSE "send") /\ UNCHANGED metalVars

\* A mutant of IsBusy: the loop misses the first worker.
IsBusyAfterFirst(w) == w > 1 /\ status[w] = "BUSY"

IsBusy(w) == status[w] = "BUSY"

\* busy_workers reads one flag after the other, with no lock.
ReadStatus ==
  /\ pc[Client] \in {"scan", "waitscan"}
  /\ scanned < ThreadCount
  /\ scanned' = scanned + 1
  /\ busy' = IF IsBusy(scanned + 1) THEN busy + 1 ELSE busy
  /\ UNCHANGED <<baseVars, status, begun, settled>>

\* "all the workers are busy and this thread is configured to pitch in"; otherwise
\* the task is left to the workers.
PitchInOrSend ==
  /\ pc[Client] = "scan"
  /\ scanned = ThreadCount
  /\ Step(Client, IF busy = ThreadCount THEN "perform" ELSE "send")
  /\ scanned' = 0
  /\ busy' = 0
  /\ UNCHANGED <<status, begun, settled>>

\* A mutant of HasRoom: one slot too many.
HasRoomForMore == Len(queue) <= Length

HasRoom == Len(queue) < Length

\* A mutant of Woken: blocked workers stay blocked.
NotWoken(label) == label

\* The broadcast of queue_send wakes the workers that are waiting.
Woken(label) == IF label = "blocked" THEN "receive" ELSE label

\* queue_send returns.
Send ==
  /\ pc[Client] = "send"
  /\ HasRoom
  /\ Enqueue([e \in Threads |-> IF e = Client THEN "each" ELSE Woken(pc[e])])
  /\ UNCHANGED metalVars

-----------------------------------------------------------------------------
(***************************************************************************)
(* dispatch_queue_task_wait, dispatch_queue_group_wait, dispatch_queue_wait *)
(***************************************************************************)
Wait(o) ==
  /\ WaitBegins(o)
  /\ settled' = FALSE
  /\ UNCHANGED <<status, scanned, busy, begun>>

\* event_counter_wait blocks until the end token is there; then the counter and the
\* tasks are deleted.
WaitReturns ==
  /\ pc[Client] = "wait"
  /\ counter[WaitCounter(call)].token
  /\ WaitEnds(TasksOf(call))
  /\ UNCHANGED metalVars

QueueWait ==
  /\ pc[Client] = "idle"
  /\ begun' = {job[w] : w \in {v \in Workers : pc[v] = "perform"}}
  /\ settled' = FALSE
  /\ Step(Client, "waitscan")
  /\ UNCHANGED <<status, scanned, busy>>

\* if ((busy_count + waiting_count) == 0) return
QueueWaitReturns ==
  /\ pc[Client] = "waitscan"
  /\ scanned = ThreadCount
  /\ busy + Len(queue) = 0
  /\ scanned' = 0
  /\ busy' = 0
  /\ settled' = TRUE
  /\ Step(Client, "idle")
  /\ UNCHANGED <<status, begun>>

QueueWaitAgain ==
  /\ pc[Client] = "waitscan"
  /\ scanned = ThreadCount
  /\ busy + Len(queue) # 0
  /\ scanned' = 0
  /\ busy' = 0
  /\ UNCHANGED <<baseVars, status, begun, settled>>

-----------------------------------------------------------------------------
(***************************************************************************)
(* dispatch_queue_delete, as it is documented: the client has used the     *)
(* queue and then waited, for the queue or for everything it has added.    *)
(***************************************************************************)
Blocked == {w \in Workers : pc[w] = "blocked"}

\* queue_delete: condition_variable_terminate releases blocked workers, at least the
\* first of its list, which lies on the stacks of the threads it has released (see
\* QueueMetal), and the queue is freed.
Delete ==
  /\ pc[Client] = "idle"
  /\ added # {}
  /\ pending = {}
  /\ settled \/ \A o \in added : waitable[o]
  /\ \E T \in SUBSET Blocked :
       /\ Blocked # {} => T # {}
       /\ pc' = [e \in Threads |-> IF e = Client THEN "free"
                                   ELSE IF e \in T THEN "leave" ELSE pc[e]]
  /\ UNCHANGED <<queue, job, objectVars, callVars, performed, metalVars>>

\* A released worker frees its channel end, reads worker_data and returns.
Leave(w) == pc[w] = "leave" /\ Step(w, "stopped") /\ UNCHANGED metalVars

\* The stacks, worker_data and the status flags are freed.
FreeMemory == pc[Client] = "free" /\ Step(Client, "stopped") /\ UNCHANGED metalVars

-----------------------------------------------------------------------------
\* What a worker does with the queue, and without it.  One that is left behind when the
\* memory it uses is freed is not followed further.
Work(w) ==
  \/ /\ pc[Client] \notin {"free", "stopped"}
     /\ Receive(w) \/ Block(w)
  \/ /\ pc[Client] # "stopped"
     /\ MarkBusy(w) \/ RunTask(w) \/ MarkReady(w) \/ Leave(w)

\* The client starts a call.
Call ==
  \/ ObjectCall /\ settled' = FALSE /\ UNCHANGED <<status, scanned, busy, begun>>
  \/ \E t \in Tasks, w \in BOOLEAN : TaskAdd(t, w)
  \/ \E g \in Groups : GroupAdd(g)
  \/ \E o \in Objects : Wait(o)
  \/ QueueWait
  \/ Delete

\* The client goes on with the call it is in.
Continue ==
  \/ EachTask
  \/ AddReturns /\ UNCHANGED metalVars
  \/ ReadStatus
  \/ PitchInOrSend
  \/ RunTask(Client)
  \/ Send
  \/ WaitReturns
  \/ QueueWaitReturns
  \/ QueueWaitAgain
  \/ FreeMemory

Next ==
  \/ \E w \in Workers : Work(w)
  \/ Call
  \/ Continue

Spec == Init /\ [][Next]_vars

\* Workers and the client have hardware threads of their own; the client is not
\* obliged to make another call.
FairSpec ==
  /\ Spec
  /\ \A w \in Workers : WF_vars(Work(w))
  /\ WF_vars(Continue)

-----------------------------------------------------------------------------
\* The types of the state; the queue (queue_metal.c) never holds more than Length tasks.
TypeOK ==
  /\ ObjectsTypeOK
  /\ Len(queue) <= Length
  /\ pc \in [Threads -> {"receive", "blocked", "mark", "perform", "finish", "token", "ready",
                         "leave", "idle", "each", "scan", "send", "wait", "waitscan",
                         "free", "stopped"}]
  /\ status \in [Workers -> {"READY", "BUSY"}]
  /\ scanned \in 0..ThreadCount
  /\ busy \in 0..scanned
  /\ begun \subseteq Tasks
  /\ settled \in BOOLEAN

\* dispatch_queue_wait returns only when the tasks that were running when it was
\* called have been performed, whichever flags it read in between.
QueueWaitCoversBegun == [][QueueWaitReturns => begun = {}]_vars

\* "Wait synchronously in the caller's thread for all tasks to finish executing"
\* (dispatch_queue.h lines 101 and 102).
QueueWaitCoversAll ==
  [][QueueWaitReturns => \A t \in Handed : performed[t] = 1]_vars

\* The workers' threads can be used for other things once the queue is deleted
\* (README.rst line 84): when dispatch_queue_delete returns, after a documented wait,
\* every worker has returned and none is left on the freed queue, flags and stacks.
NoWorkerOutlivesQueue ==
  pc[Client] = "stopped" => \A w \in Workers : pc[w] = "stopped"
=============================================================================
