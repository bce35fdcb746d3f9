------------------------- MODULE DispatchRtosProof -------------------------
(***************************************************************************)
(* The dispatch queue of the FreeRTOS build keeps its promises for every   *)
(* number of workers an event group has bits for, every set of tasks and   *)
(* groups and every length.                                                *)
(***************************************************************************)
EXTENDS DispatchRtos, DispatchPropertiesProof

-----------------------------------------------------------------------------
(***************************************************************************)
(* What the invariant says of the variables of this build.                 *)
(***************************************************************************)
Labels ==
  /\ \A w \in Workers : pc[w] \in {"receive", "mark", "perform", "finish", "token", "ready"}
  /\ pc[Client] \in {"idle", "each", "send", "wait", "waitempty", "waitbits", "delete", "stopped"}

\* The ready bit of a worker is clear from before it performs a task until it is done
\* with it.
BitsClear ==
  /\ bits \subseteq xReadyBits
  /\ \A w \in Workers :
       pc[w] \in {"perform", "finish", "token", "ready"} => xReadyBit(w) \notin bits

\* A client that waits for the bits has seen the queue empty, and only itself fills it.
SeenEmpty == pc[Client] = "waitbits" => queue = <<>>

RtosInv == Labels /\ Len(queue) <= Length /\ BitsClear /\ SeenEmpty /\ deleted \subseteq Workers

IInv == Inv /\ TokenOnce /\ WaitedFreed(Objects) /\ RtosInv

-----------------------------------------------------------------------------
\* Every worker has a bit of its own that dispatch_queue_wait waits for.
LEMMA ReadyBits ==
  /\ \A w \in Workers : xReadyBit(w) \in xReadyBits
  /\ \A v, w \in Workers : xReadyBit(v) = xReadyBit(w) => v = w
BY SizeAssumption, BitsAssumption DEF xReadyBit, xReadyBits, Workers

\* A step of a worker or of the client is one of the shared steps.
LEMMA StepIsShared == ASSUME IInv, [Next]_vars PROVE TokenStep
<1> USE DEF IInv, RtosInv
<1>1. Client \in Threads /\ \A w \in Workers : w \in Threads /\ w # Client
  BY NamesAssumption DEF Threads
<1>2. ASSUME NEW w \in Workers, Work(w) PROVE TokenStep
  <2>1. CASE Receive(w)
    BY <2>1 DEF Receive, TokenStep
  <2>2. CASE ClearBit(w)
    <3>1. pc[w] = "mark" /\ Step(w, "perform")
      BY <2>2 DEF ClearBit
    <3> QED BY <1>1, <3>1, StepMoves DEF Holding, Taken, TokenStep
  <2>3. CASE RunTask(w)
    <3>1. After(w, AfterTask(w)) /\ AfterTask(w) # "token"
      BY <1>1 DEF After, AfterTask, Holding
    <3> QED BY <1>1, <2>3, <3>1 DEF RunTask, Signal, Give, TokenStep
  <2>4. CASE SetBit(w)
    BY <2>4, BackToQueueMoves DEF SetBit, TokenStep
  <2> QED BY <1>2, <2>1, <2>2, <2>3, <2>4 DEF Work
<1>3. ASSUME NEW from, NEW label, pc[Client] = from, Step(Client, label),
             from \in {"idle", "waitempty", "waitbits", "delete"},
             label \in {"idle", "waitempty", "waitbits", "delete", "stopped"}
      PROVE  TokenStep
  BY <1>1, <1>3, StepMoves DEF Holding, Taken, Adding, Waiting, TokenStep
<1>4. CASE Call
  <2>1. CASE QueueWait \/ Delete
    BY <1>3, <2>1 DEF QueueWait, Delete
  <2> QED BY <1>4, <2>1 DEF Call, TaskAdd, GroupAdd, Wait, TokenStep
<1>5. CASE Continue
  <2>1. CASE SeesQueueEmpty \/ QueueWaitReturns \/ FreeMemory
    BY <1>3, <2>1 DEF SeesQueueEmpty, QueueWaitReturns, FreeMemory
  <2>2. CASE \E w \in Workers : DeleteThread(w)
    BY <2>2, StutterInv DEF DeleteThread, TokenStep, baseVars
  <2>3. CASE Send
    <3>1. SendStep
      BY <1>1, <2>3 DEF Send, SendStep, Enqueue, Inv, Labelled
    <3> QED BY <3>1 DEF TokenStep
  <2>4. CASE EachTask
    BY <2>4 DEF EachTask, TokenStep
  <2> QED BY <1>5, <2>1, <2>2, <2>3, <2>4 DEF Continue, WaitReturns, TokenStep
<1>6. CASE UNCHANGED vars
  BY <1>6, StutterInv DEF vars, TokenStep, baseVars
<1> QED BY <1>2, <1>4, <1>5, <1>6 DEF Next

-----------------------------------------------------------------------------
(***************************************************************************)
(* The variables of this build.                                            *)
(***************************************************************************)
\* A step of a worker.
LEMMA WorkInv == ASSUME IInv, NEW w \in Workers, Work(w) PROVE RtosInv'
<1> USE DEF IInv, RtosInv
<1>1. CASE Receive(w)
  <2>1. Goto(w, "mark") /\ queue # <<>> /\ queue' = Tail(queue) /\ UNCHANGED rtosVars
    BY <1>1 DEF Receive, Dequeue
  <2>2. Len(queue') <= Length
    BY <2>1, SizeAssumption DEF Inv, ObjectsTypeOK
  <2> QED BY <2>1, <2>2, WorkerMoves DEF Labels, BitsClear, SeenEmpty, rtosVars
<1>2. CASE ClearBit(w)
  <2>1. Goto(w, "perform") /\ bits' = bits \ {xReadyBit(w)} /\ UNCHANGED <<queue, deleted>>
    BY <1>2 DEF ClearBit, Step
  <2> QED BY <2>1, WorkerMoves DEF Labels, BitsClear, SeenEmpty
<1>3. CASE RunTask(w)
  <2>1. PICK label : Goto(w, label) /\ label \in {"finish", "token", "ready"}
    BY <1>3 DEF RunTask, Perform, Signal, Give, CountDown, SendToken, DeleteTask, AfterTask, AfterSignal
  <2>2. pc[w] \in {"perform", "finish", "token"} /\ UNCHANGED <<queue, rtosVars>>
    BY <1>3 DEF RunTask, Perform, Signal, Give, CountDown, SendToken, DeleteTask
  <2> QED BY <2>1, <2>2, WorkerMoves DEF Labels, BitsClear, SeenEmpty, rtosVars
<1>4. CASE SetBit(w)
  <2>1. Goto(w, "receive") /\ bits' = bits \cup {xReadyBit(w)} /\ UNCHANGED <<queue, deleted>>
    BY <1>4 DEF SetBit, TaskDone, Goto
  <2> QED BY <2>1, WorkerMoves, ReadyBits DEF Labels, BitsClear, SeenEmpty
<1> QED BY <1>1, <1>2, <1>3, <1>4 DEF Work

\* The client begins a call.
LEMMA CallInv == ASSUME IInv, Call PROVE RtosInv'
<1> USE DEF IInv, RtosInv
<1>1. UNCHANGED <<queue, rtosVars>> /\ pc[Client] = "idle"
  BY DEF Call, ObjectCall, GroupCreate, GroupTaskAdd, GroupPerform, GroupDelete, TaskDelete,
         TaskAdd, FunctionAdd, GroupAdd, GroupAddBegins, BeginAdd, Wait, WaitBegins, QueueWait,
         Delete, Step
<1>2. \/ UNCHANGED pc
      \/ \E label \in {"each", "wait", "waitempty", "delete"} : Goto(Client, label)
  BY DEF Call, ObjectCall, GroupCreate, GroupTaskAdd, GroupPerform, GroupDelete, TaskDelete,
         TaskAdd, FunctionAdd, GroupAdd, GroupAddBegins, BeginAdd, Wait, WaitBegins, QueueWait,
         Delete, Step
<1> QED BY <1>1, <1>2, ClientMoves DEF Labels, BitsClear, SeenEmpty, rtosVars

\* The client goes on with a call.
LEMMA ContinueInv == ASSUME IInv, Continue PROVE RtosInv'
<1> USE DEF IInv, RtosInv
<1>1. CASE \/ EachTask
           \/ AddReturns /\ UNCHANGED rtosVars
           \/ WaitReturns \/ QueueWaitReturns \/ FreeMemory
  <2>1. UNCHANGED <<queue, rtosVars>>
    BY <1>1 DEF EachTask, NextTask, AddReturns, WaitReturns, WaitEnds, QueueWaitReturns, FreeMemory, Step
  <2>2. \E label \in {"send", "idle", "stopped"} : Goto(Client, label)
    BY <1>1 DEF EachTask, NextTask, AddReturns, WaitReturns, WaitEnds, QueueWaitReturns, FreeMemory, Step
  <2> QED BY <2>1, <2>2, ClientMoves DEF Labels, BitsClear, SeenEmpty, rtosVars
<1>2. CASE Send
  <2>1. /\ pc[Client] = "send" /\ Goto(Client, "each") /\ Len(queue) < Length
        /\ queue' = Append(queue, job[Client]) /\ UNCHANGED rtosVars
    BY <1>2 DEF Send, HasRoom, Enqueue, Goto
  <2>2. job[Client] \in Tasks /\ queue \in Seq(Tasks)
    BY <2>1 DEF Inv, HasJob, Holding, Threads, ObjectsTypeOK
  <2>3. Len(queue') <= Length
    BY <2>1, <2>2, SizeAssumption
  <2> QED BY <2>1, <2>3, ClientMoves DEF Labels, BitsClear, SeenEmpty, rtosVars
<1>3. CASE SeesQueueEmpty
  <2>1. /\ pc[Client] = "waitempty" /\ Goto(Client, "waitbits") /\ queue = <<>>
        /\ UNCHANGED <<queue, rtosVars>>
    BY <1>3 DEF SeesQueueEmpty, Step
  <2> QED BY <2>1, ClientMoves DEF Labels, BitsClear, SeenEmpty, rtosVars
<1>4. ASSUME NEW w \in Workers, DeleteThread(w) PROVE RtosInv'
  BY <1>4 DEF DeleteThread, baseVars, Labels, BitsClear, SeenEmpty
<1> QED BY <1>1, <1>2, <1>3, <1>4 DEF Continue

LEMMA InitIInv == Init => IInv
<1> SUFFICES ASSUME Init PROVE IInv
  OBVIOUS
<1>1. ObjectsInit("receive")
  BY DEF Init
<1>2. Inv /\ TokenOnce /\ WaitedFreed(Objects)
  BY <1>1, ObjectsInitInv, ObjectsInitTokens DEF Holding
<1>3. /\ pc[Client] = "idle" /\ \A w \in Workers : pc[w] = "receive"
      /\ queue = <<>>
  BY <1>1, NamesAssumption DEF ObjectsInit, Threads
<1>4. Len(queue) <= Length
  BY <1>3, SizeAssumption
<1> QED BY <1>2, <1>3, <1>4 DEF IInv, RtosInv, Init, Labels, BitsClear, SeenEmpty

LEMMA StepIInv == IInv /\ [Next]_vars => IInv'
<1> SUFFICES ASSUME IInv, [Next]_vars PROVE IInv'
  OBVIOUS
<1>1. TokenStep
  BY StepIsShared
<1>2. Inv' /\ TokenOnce' /\ WaitedFreed(Objects)'
  BY <1>1, TokenStepShared, SharedStepInv, TokenStepOnce, TokenStepWaitedFreed DEF IInv
<1>3. ASSUME UNCHANGED vars PROVE RtosInv'
  BY <1>3 DEF IInv, RtosInv, vars, baseVars, rtosVars, Labels, BitsClear, SeenEmpty
<1>4. RtosInv'
  BY <1>3, WorkInv, CallInv, ContinueInv DEF Next
<1> QED BY <1>2, <1>4 DEF IInv

LEMMA Invariance == Spec => []IInv
BY InitIInv, StepIInv, PTL DEF Spec

-----------------------------------------------------------------------------
(***************************************************************************)
(* The theorems.                                                           *)
(***************************************************************************)
\* The FreeRTOS queue holds at most Length tasks and no bit is set that
\* dispatch_queue_wait does not wait for, whatever threads and calls interleave.
THEOREM RtosTypeCorrect == Spec => []TypeOK
<1>1. IInv => TypeOK
  <2> SUFFICES ASSUME IInv PROVE TypeOK
    OBVIOUS
  <2>1. pc = [e \in Threads |-> pc[e]]
    BY DEF IInv, Inv, Labelled
  <2>2. \A e \in Threads : pc[e] \in {"receive", "mark", "perform", "finish", "token", "ready",
                                      "idle", "each", "send", "wait", "waitempty", "waitbits",
                                      "delete", "stopped"}
    BY DEF IInv, RtosInv, Labels, Threads
  <2> QED BY <2>1, <2>2 DEF IInv, Inv, RtosInv, TypeOK, BitsClear
<1> QED BY <1>1, Invariance, PTL

\* A task handed to dispatch_queue_task_add or dispatch_queue_group_add is performed
\* once: it is never lost and never run twice.
THEOREM RtosPerformedOnce == Spec => []PerformedOnce
<1>1. IInv => PerformedOnce
  BY InvPerformedOnce DEF IInv
<1> QED BY <1>1, Invariance, PTL

\* event_counter_signal never uses a counter that the waiting client has deleted.
THEOREM RtosNoCounterUseAfterFree == Spec => []NoCounterUseAfterFree
<1>1. IInv => NoCounterUseAfterFree
  BY InvNoCounterUseAfterFree DEF IInv
<1> QED BY <1>1, Invariance, PTL

\* The worker reads task->waitable and task->private_data of tasks that are not freed,
\* and no freed task is queued.
THEOREM RtosNoTaskUseAfterFree == Spec => []NoTaskUseAfterFree
<1>1. IInv => NoTaskUseAfterFree
  BY InvNoTaskUseAfterFree DEF IInv
<1> QED BY <1>1, Invariance, PTL

\* The waiter of an event counter is woken over the semaphore once: no two workers
\* find that they were the last, and a token is sent only while somebody has to wait and
\* the count is zero.
THEOREM RtosTokenOnce == Spec => []TokenOnce
<1>1. IInv => TokenOnce
  BY DEF IInv
<1> QED BY <1>1, Invariance, PTL

\* When nothing is left to wait for and the workers are idle, every event counter and
\* every task that was added has been freed.
THEOREM RtosNoLeak == Spec => []NoLeak
<1>1. IInv => NoLeak
  BY InvNoLeak DEF IInv
<1> QED BY <1>1, Invariance, PTL

\* dispatch_queue_wait misses no task but those a worker has received without having
\* cleared its ready bit yet.
THEOREM RtosQueueWait == Spec => QueueWaitMissesOnlyReceived
<1>1. ASSUME IInv, QueueWaitReturns, NEW t \in Handed
      PROVE  performed[t] = 1 \/ \E w \in Workers : pc[w] = "mark" /\ job[w] = t
  <2>1. pc[Client] = "waitbits" /\ queue = <<>> /\ todo = <<>>
    BY <1>1 DEF IInv, RtosInv, SeenEmpty, QueueWaitReturns, Inv, InItsCall, Adding
  <2>2. ~Among(t, todo) /\ ~Among(t, queue)
    BY <2>1 DEF Among
  <2>3. \A w \in Workers : pc[w] \notin {"perform", "finish", "token", "ready"}
    BY <1>1, ReadyBits DEF IInv, RtosInv, BitsClear, QueueWaitReturns
  <2>4. \A e \in Threads : Has(e, t) => e \in Workers /\ pc[e] = "mark" /\ job[e] = t
    BY <1>1, <2>1, <2>3 DEF Has, Threads, IInv, RtosInv, Labels
  <2> QED BY <1>1, <2>2, <2>4 DEF IInv, Inv, NotLost
<1>2. IInv /\ [Next]_vars =>
        [QueueWaitReturns =>
           \A t \in Handed : \/ performed[t] = 1
                            \/ \E w \in Workers : pc[w] = "mark" /\ job[w] = t]_vars
  BY <1>1
<1> QED BY <1>2, Invariance, PTL DEF Spec, QueueWaitMissesOnlyReceived

\* The FreeRTOS build implements the abstract dispatch queue: tasks are taken in FIFO
\* order and by one worker each, none is waited for or freed before it was performed.
THEOREM RtosImplementsDispatch == Spec => ImplementsDispatch
<1>1. Init => Abstract!Init
  BY ObjectsInitRefines DEF Init, Holding
<1>2. IInv /\ [Next]_vars => [Abstract!Next]_(Abstract!vars)
  BY StepIsShared, TokenStepShared, SharedStepRefines DEF IInv
<1> QED BY <1>1, <1>2, Invariance, PTL DEF Spec, ImplementsDispatch, Abstract!Spec
=============================================================================
