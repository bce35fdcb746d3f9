---------------------------- MODULE DispatchRtos ----------------------------
(***************************************************************************)
(* The dispatch queue of the FreeRTOS build: dispatch_queue_rtos.c with    *)
(* event_counter_rtos.c.                                                   *)
(*                                                                         *)
(* A call of FreeRTOS is one step: its queue blocks senders when full and  *)
(* receivers when empty, an event group is a set of bits, a binary         *)
(* semaphore is the counter's token, and between taskENTER_CRITICAL and    *)
(* taskEXIT_CRITICAL no other thread runs.  vTaskDelete stops a thread     *)
(* wherever it is.                                                         *)
(***************************************************************************)
EXTENDS DispatchObjects

\* "1 << i" has to be a bit that an event group can hold.
ASSUME BitsAssumption == ThreadCount <= 24

VARIABLES bits,     \* xEventGroup: the bits that are set, by position
          deleted   \* the workers vTaskDelete has stopped

rtosVars == <<bits, deleted>>
vars == <<baseVars, rtosVars>>

\* worker_data[i].xReadyBit = 1 << i
xReadyBit(w) == w - 1

\* A mutant of xReadyBits: the mask has a bit too few.
xReadyBitsShort == {b \in 0..31 : b + (33 - ThreadCount) \in 0..31}

\* 0xFFFFFFFF >> (32 - thread_count)
xReadyBits == {b \in 0..31 : b + (32 - ThreadCount) \in 0..31}

\* dispatch_queue_create and dispatch_queue_init, which sets all ready bits.
Init ==
  /\ ObjectsInit("receive")
  /\ bits = xReadyBits
  /\ deleted = {}

-----------------------------------------------------------------------------
(***************************************************************************)
(* dispatch_queue_worker.                                                  *)
(***************************************************************************)
\* xQueueReceive(xQueue, &task, portMAX_DELAY)
Receive(w) == pc[w] = "receive" /\ Dequeue(w, "mark") /\ UNCHANGED rtosVars

\* xEventGroupClearBits
ClearBit(w) ==
  /\ pc[w] = "mark"
  /\ bits' = bits \ {xReadyBit(w)}
  /\ Step(w, "perform")
  /\ UNCHANGED deleted

\* A mutant of AfterTask: the worker runs the task it has once more.
RunsAgain(w) == "mark"

AfterTask(w) == "ready"

\* event_counter_signal, inside the critical section.
Signal(w) == CountDown(w, AfterSignal(w, AfterTask(w)))

\* xSemaphoreGive(counter->semaphore)
Give(w) == SendToken(w, AfterTask(w))

\* dispatch_task_perform, then the event counter is signalled or the task deleted.
RunTask(w) ==
  /\ \/ Perform(w)
     \/ Signal(w)
     \/ Give(w)
     \/ DeleteTask(w, AfterTask(w))
  /\ UNCHANGED rtosVars

\* xEventGroupSetBits
SetBit(w) ==
  /\ pc[w] = "ready"
  /\ bits' = bits \cup {xReadyBit(w)}
  /\ TaskDone(w, [pc EXCEPT ![w] = "receive"])
  /\ UNCHANGED deleted

\* dispatch_queue_worker, as long as the thread exists.
Work(w) ==
  /\ w \notin deleted
  /\ Receive(w) \/ ClearBit(w) \/ RunTask(w) \/ SetBit(w)

-----------------------------------------------------------------------------
(***************************************************************************)
(* The functions of dispatch_queue.h.                                      *)
(***************************************************************************)
TaskAdd(t, w) == FunctionAdd(t, w) /\ UNCHANGED rtosVars

GroupAdd(g) == GroupAddBegins(g) /\ UNCHANGED rtosVars

EachTask == NextTask("send") /\ UNCHANGED rtosVars

\* A mutant of HasRoom: xQueueCreate is given a slot too many.
HasRoomForMore == Len(queue) <= Length

\* xQueueCreate(length, ...)
HasRoom == Len(queue) < Length

\* A mutant of Send: xQueueSend without a delay gives up when the queue is full.
SendNoWait ==
  /\ pc[Client] = "send"
  /\ IF HasRoom THEN Enqueue([pc EXCEPT ![Client] = "each"]) ELSE Step(Client, "each")
  /\ UNCHANGED rtosVars

\* xQueueSend(..., portMAX_DELAY)
Send ==
  /\ pc[Client] = "send"
  /\ HasRoom
  /\ Enqueue([pc EXCEPT ![Client] = "each"])
  /\ UNCHANGED rtosVars

Wait(o) == WaitBegins(o) /\ UNCHANGED rtosVars

\* xSemaphoreTake returns; the counter with its semaphore and the tasks are deleted.
WaitReturns ==
  /\ pc[Client] = "wait"
  /\ counter[WaitCounter(call)].token
  /\ WaitEnds(TasksOf(call))
  /\ UNCHANGED rtosVars

QueueWait == pc[Client] = "idle" /\ Step(Client, "waitempty") /\ UNCHANGED rtosVars

\* The busy wait on uxQueueMessagesWaiting ends.
SeesQueueEmpty ==
  /\ pc[Client] = "waitempty"
  /\ queue = <<>>
  /\ Step(Client, "waitbits")
  /\ UNCHANGED rtosVars

\* xEventGroupWaitBits, for all of xReadyBits; FreeRTOS releases the client at the
\* moment they are all set, whatever becomes of them before it runs again.
QueueWaitReturns ==
  /\ pc[Client] = "waitbits"
  /\ xReadyBits \subseteq bits
  /\ Step(Client, "idle")
  /\ UNCHANGED rtosVars

\* dispatch_queue_delete.  Tasks that nobody waits for may still be queued or running.
Delete ==
  /\ pc[Client] = "idle"
  /\ pending = {}
  /\ Step(Client, "delete")
  /\ UNCHANGED rtosVars

\* vTaskDelete(dispatch_queue->threads[i]); the others run on.
DeleteThread(w) ==
  /\ pc[Client] = "delete"
  /\ deleted = 1..(w - 1)
  /\ deleted' = deleted \cup {w}
  /\ UNCHANGED <<baseVars, bits>>

\* The event group, the queue and two arrays are freed; all workers have been stopped.
FreeMemory ==
  /\ pc[Client] = "delete"
  /\ Workers \subseteq deleted
  /\ Step(Client, "stopped")
  /\ UNCHANGED rtosVars

-----------------------------------------------------------------------------
\* The client starts a call.
Call ==
  \/ ObjectCall /\ UNCHANGED rtosVars
  \/ \E t \in Tasks, w \in BOOLEAN : TaskAdd(t, w)
  \/ \E g \in Groups : GroupAdd(g)
  \/ \E o \in Objects : Wait(o)
  \/ QueueWait
  \/ Delete

\* The client goes on with the call it is in.
Continue ==
  \/ EachTask
  \/ AddReturns /\ UNCHANGED rtosVars
  \/ Send
  \/ WaitReturns
  \/ SeesQueueEmpty
  \/ QueueWaitReturns
  \/ \E w \in Workers : DeleteThread(w)
  \/ FreeMemory

Next ==
  \/ \E w \in Workers : Work(w)
  \/ Call
  \/ Continue

Spec == Init /\ [][Next]_vars

\* The scheduler runs every thread that can run.  The busy wait of dispatch_queue_wait
\* never blocks, so this asks for workers of the client's priority or above, with
\* time slicing, or on cores of their own.
FairSpec ==
  /\ Spec
  /\ \A w \in Workers : WF_vars(Work(w))
  /\ WF_vars(Continue)

-----------------------------------------------------------------------------
\* The types of the state; the FreeRTOS queue never holds more than Length tasks and
\* no bit is set that dispatch_queue_wait does not wait for.
TypeOK ==
  /\ ObjectsTypeOK
  /\ Len(queue) <= Length
  /\ pc \in [Threads -> {"receive", "mark", "perform", "finish", "token", "ready", "idle",
                         "each", "send", "wait", "waitempty", "waitbits", "delete",
                         "stopped"}]
  /\ bits \subseteq xReadyBits
  /\ deleted \subseteq Workers

\* "Wait synchronously in the caller's thread for all tasks to finish executing"
\* (dispatch_queue.h lines 101 and 102).
QueueWaitCoversAll ==
  [][QueueWaitReturns => \A t \in Handed : performed[t] = 1]_vars

\* QueueWaitCoversAll is not what the code does.  This is how much of it is true: the
\* only tasks overlooked when dispatch_queue_wait returns are those that a worker has
\* received at this moment and not yet cleared its ready bit for.
QueueWaitMissesOnlyReceived ==
  [][QueueWaitReturns =>
       \A t \in Handed : \/ performed[t] = 1
                        \/ \E w \in Workers : pc[w] = "mark" /\ job[w] = t]_vars
=============================================================================
