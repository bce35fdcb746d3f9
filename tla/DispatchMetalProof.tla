------------------------- MODULE DispatchMetalProof -------------------------
(***************************************************************************)
(* The dispatch queue of the bare-metal build keeps its promises for every *)
(* number of workers, every set of tasks and groups and every length, with *)
(* and without use_callers_thread.                                         *)
(***************************************************************************)
EXTENDS DispatchMetal, DispatchPropertiesProof

-----------------------------------------------------------------------------
(***************************************************************************)
(* What the invariant says of the variables of this build.                 *)
(***************************************************************************)
Labels ==
  /\ \A w \in Workers : pc[w] \in {"receive", "blocked", "mark", "perform", "finish", "token",
                                   "ready", "leave", "stopped"}
  /\ pc[Client] \in {"idle", "each", "scan", "send", "perform", "finish", "token", "wait",
                     "waitscan", "free", "stopped"}

\* Without use_callers_thread the client leaves all tasks to the workers.
LeavesTasks == ~UseCallersThread => pc[Client] \notin {"scan", "perform", "finish", "token"}

MetalTypes ==
  /\ Len(queue) <= Length
  /\ status \in [Workers -> {"READY", "BUSY"}]
  /\ scanned \in 0..ThreadCount
  /\ busy \in 0..scanned
  /\ begun \subseteq Tasks
  /\ settled \in BOOLEAN

\* The loop of busy_workers begins with the first worker.
ScanBegins == pc[Client] \notin {"scan", "waitscan"} => scanned = 0

\* A worker is marked busy from before it performs a task until it is done with it.
MarkedBusy ==
  \A w \in Workers : pc[w] \in {"perform", "finish", "token", "ready"} => status[w] = "BUSY"

\* Of the tasks that were running when dispatch_queue_wait was called, each that still
\* is has a worker that was not looked at yet in this scan, or was found busy.
NotMissed ==
  pc[Client] = "waitscan" =>
    \A t \in begun :
      \E w \in Workers : pc[w] = "perform" /\ job[w] = t /\ (w <= scanned => busy > 0)

MetalInv == Labels /\ LeavesTasks /\ MetalTypes /\ ScanBegins /\ MarkedBusy /\ NotMissed

IInv == Inv /\ TokenOnce /\ WaitedFreed(Objects) /\ MetalInv

-----------------------------------------------------------------------------
\* A step of a worker or of the client is one of the shared steps.
LEMMA StepIsShared == ASSUME IInv, [Next]_vars PROVE TokenStep
<1> USE DEF IInv, MetalInv
<1>1. Client \in Threads /\ \A w \in Workers : w \in Threads /\ w # Client
  BY NamesAssumption DEF Threads
<1>2. ASSUME NEW e \in Threads, RunTask(e) PROVE TokenStep
  <2>1. After(e, AfterTask(e)) /\ AfterTask(e) # "token"
    BY DEF After, AfterTask, Holding, Adding
  <2> QED BY <1>2, <2>1 DEF RunTask, TokenStep
<1>3. ASSUME NEW w \in Workers, Work(w) PROVE TokenStep
  <2>1. CASE Receive(w)
    BY <2>1 DEF Receive, TokenStep
  <2>2. CASE Block(w)
    <3>1. pc[w] = "receive" /\ Step(w, "blocked")
      BY <2>2 DEF Block
    <3> QED BY <1>1, <3>1, StepMoves DEF Holding, Taken, TokenStep
  <2>3. CASE MarkBusy(w)
    <3>1. pc[w] = "mark" /\ Step(w, "perform")
      BY <2>3 DEF MarkBusy, Mark
    <3> QED BY <1>1, <3>1, StepMoves DEF Holding, Taken, TokenStep
  <2>4. CASE MarkReady(w)
    BY <2>4, BackToQueueMoves DEF MarkReady, TokenStep
  <2>5. CASE Leave(w)
    <3>1. pc[w] = "leave" /\ Step(w, "stopped")
      BY <2>5 DEF Leave
    <3> QED BY <1>1, <3>1, StepMoves DEF Holding, Taken, TokenStep
  <2> QED BY <1>1, <1>2, <1>3, <2>1, <2>2, <2>3, <2>4, <2>5 DEF Work
<1>4. CASE QueueWait \/ QueueWaitReturns \/ FreeMemory
  <2>1. \/ pc[Client] = "idle" /\ Step(Client, "waitscan")
        \/ pc[Client] = "waitscan" /\ Step(Client, "idle")
        \/ pc[Client] = "free" /\ Step(Client, "stopped")
    BY <1>4 DEF QueueWait, QueueWaitReturns, FreeMemory
  <2> QED BY <1>1, <2>1, StepMoves DEF Holding, Taken, Adding, Waiting, TokenStep
<1>5. CASE PitchInOrSend
  <2>1. /\ pc[Client] = "scan" /\ UseCallersThread
        /\ Step(Client, "perform") \/ Step(Client, "send")
    BY <1>5 DEF PitchInOrSend, LeavesTasks
  <2> QED BY <1>1, <2>1, StepMoves DEF Holding, Taken, Adding, Waiting, TokenStep
<1>6. CASE Delete
  <2>1. /\ pc[Client] = "idle" /\ pc'[Client] = "free" /\ Labelled'
        /\ \A w \in Workers : pc'[w] = pc[w] \/ (pc[w] = "blocked" /\ pc'[w] = "leave")
        /\ UNCHANGED <<queue, job, objectVars, callVars, performed>>
    BY <1>1, <1>6 DEF Delete, Blocked, Labelled
  <2>2. Relabelled
    BY <2>1 DEF Relabelled, Holding, Adding, Waiting, Taken, Threads
  <2>3. JobsKept
    BY <2>1 DEF JobsKept, Inv, ObjectsTypeOK
  <2> QED BY <2>1, <2>2, <2>3 DEF Move, TokenStep, Threads
<1>7. CASE Send
  <2>1. SendStep
    <3>1. /\ pc'[Client] = "each" /\ \A w \in Workers : pc'[w] = Woken(pc[w])
          /\ Labelled'
      BY <1>1, <1>7 DEF Send, Enqueue, Labelled
    <3> QED BY <1>7, <3>1 DEF Send, SendStep, Woken, Holding, Taken
  <2> QED BY <2>1 DEF TokenStep
<1>8. CASE EachTask
  BY <1>8 DEF EachTask, TokenStep
<1>9. CASE ReadStatus \/ QueueWaitAgain \/ UNCHANGED vars
  BY <1>9, StutterInv DEF ReadStatus, QueueWaitAgain, vars, TokenStep, baseVars
<1>10. CASE Call
  BY <1>4, <1>6, <1>10 DEF Call, TaskAdd, GroupAdd, Wait, TokenStep
<1>11. CASE Continue
  BY <1>1, <1>2, <1>4, <1>5, <1>7, <1>8, <1>9, <1>11 DEF Continue, WaitReturns, TokenStep
<1> QED BY <1>3, <1>9, <1>10, <1>11 DEF Next

-----------------------------------------------------------------------------
(***************************************************************************)
(* The variables of this build.                                            *)
(***************************************************************************)
\* As long as the client scans, workers only finish the tasks they perform.
LEMMA NotMissedStays ==
  ASSUME IInv,
         pc'[Client] = "waitscan" =>
           pc[Client] = "waitscan" /\ UNCHANGED <<scanned, busy>> /\ begun' \subseteq begun,
         \A w \in Workers :
           pc[w] = "perform" /\ job[w] \in begun' => pc'[w] = "perform" /\ job'[w] = job[w]
  PROVE  NotMissed'
<1> SUFFICES ASSUME pc'[Client] = "waitscan", NEW t \in begun'
             PROVE  \E w \in Workers : /\ pc'[w] = "perform" /\ job'[w] = t
                                       /\ w <= scanned => busy > 0
  BY DEF NotMissed
<1>1. PICK w \in Workers : pc[w] = "perform" /\ job[w] = t /\ (w <= scanned => busy > 0)
  BY DEF IInv, MetalInv, NotMissed
<1> QED BY <1>1

\* run_task, by a worker or by the client.
LEMMA RunTaskInv == ASSUME IInv, NEW e \in Threads, RunTask(e) PROVE MetalInv'
<1> USE DEF IInv, MetalInv
<1>1. PICK label : Goto(e, label) /\ label \in {"finish", "token", AfterTask(e)}
  BY DEF RunTask, Perform, CountDown, SendToken, DeleteTask, AfterSignal
<1>2. /\ pc[e] \in {"perform", "finish", "token"}
      /\ begun' = begun \ (IF pc[e] = "perform" THEN {job[e]} ELSE {})
      /\ UNCHANGED <<queue, job, status, scanned, busy, settled>>
  BY DEF RunTask, Perform, CountDown, SendToken, DeleteTask
<1>3. /\ pc'[e] = label /\ \A f \in Threads : f # e => pc'[f] = pc[f]
      /\ Client \in Threads /\ Workers \subseteq Threads /\ Client \notin Workers
  BY <1>1, NamesAssumption DEF Goto, Inv, Labelled, Threads
<1>4. Labels' /\ LeavesTasks' /\ ScanBegins' /\ MarkedBusy'
  BY <1>1, <1>2, <1>3 DEF Labels, LeavesTasks, ScanBegins, MarkedBusy, AfterTask
<1>5. MetalTypes'
  BY <1>2 DEF MetalTypes
<1>6. NotMissed'
  <2>1. pc'[Client] # "waitscan" \/ pc'[Client] = pc[Client]
    BY <1>1, <1>3 DEF AfterTask
  <2>2. \A w \in Workers : pc[w] = "perform" /\ job[w] \in begun' => w # e
    BY <1>2
  <2> QED BY <1>2, <1>3, <2>1, <2>2, NotMissedStays
<1> QED BY <1>4, <1>5, <1>6

\* A step of a worker.
LEMMA WorkInv == ASSUME IInv, NEW w \in Workers, Work(w) PROVE MetalInv'
<1> USE DEF IInv, MetalInv
<1>1. CASE Receive(w)
  <2>1. /\ pc[w] = "receive" /\ Goto(w, "mark") /\ queue # <<>> /\ queue' = Tail(queue)
        /\ UNCHANGED metalVars /\ \A v \in Workers : v # w => job'[v] = job[v]
    BY <1>1 DEF Receive, Dequeue, Inv, ObjectsTypeOK, Threads
  <2>2. Len(queue') <= Length
    BY <2>1, SizeAssumption DEF Inv, ObjectsTypeOK, MetalTypes
  <2>3. NotMissed'
    BY <2>1, WorkerMoves, NotMissedStays DEF metalVars
  <2> QED BY <2>1, <2>2, <2>3, WorkerMoves
          DEF Labels, LeavesTasks, MetalTypes, ScanBegins, MarkedBusy, metalVars
<1>2. CASE Block(w) \/ Leave(w)
  <2>1. /\ pc[w] \in {"receive", "leave"} /\ UNCHANGED <<queue, job, metalVars>>
        /\ Goto(w, "blocked") \/ Goto(w, "stopped")
    BY <1>2 DEF Block, Leave, Step
  <2>2. NotMissed'
    BY <2>1, WorkerMoves, NotMissedStays DEF metalVars
  <2> QED BY <2>1, <2>2, WorkerMoves
          DEF Labels, LeavesTasks, MetalTypes, ScanBegins, MarkedBusy, metalVars
<1>3. ASSUME NEW value \in {"READY", "BUSY"}, Mark(w, value), NEW to, Goto(w, to),
             pc[w] \in {"mark", "ready"}, to \in {"perform", "receive"},
             to = "perform" => value = "BUSY",
             UNCHANGED queue, \A v \in Workers : v # w => job'[v] = job[v]
      PROVE  MetalInv'
  <2>1. status' = [status EXCEPT ![w] = value] /\ UNCHANGED <<scanned, busy, begun, settled>>
    BY <1>3 DEF Mark
  <2>2. NotMissed'
    BY <1>3, <2>1, WorkerMoves, NotMissedStays
  <2>3. MetalTypes'
    BY <1>3, <2>1 DEF MetalTypes
  <2>4. MarkedBusy'
    BY <1>3, <2>1, WorkerMoves DEF MarkedBusy, MetalTypes
  <2> QED BY <1>3, <2>1, <2>2, <2>3, <2>4, WorkerMoves DEF Labels, LeavesTasks, ScanBegins
<1>4. CASE MarkBusy(w)
  BY <1>3, <1>4 DEF MarkBusy, Step
<1>5. CASE MarkReady(w)
  <2>1. /\ pc[w] = "ready" /\ Mark(w, "READY") /\ Goto(w, "receive") /\ UNCHANGED queue
        /\ \A v \in Workers : v # w => job'[v] = job[v]
    BY <1>5 DEF MarkReady, TaskDone, Goto, Inv, ObjectsTypeOK, Threads
  <2> QED BY <1>3, <2>1
<1>6. CASE RunTask(w)
  BY <1>6, RunTaskInv DEF Threads
<1> QED BY <1>1, <1>2, <1>4, <1>5, <1>6 DEF Work

\* The client begins a call.
LEMMA CallInv == ASSUME IInv, Call PROVE MetalInv'
<1> USE DEF IInv, MetalInv
<1>1. CASE QueueWait
  <2>1. /\ Goto(Client, "waitscan") /\ scanned' = 0 /\ busy' = 0
        /\ begun' = {job[w] : w \in {v \in Workers : pc[v] = "perform"}}
        /\ UNCHANGED <<queue, job, status>>
    BY <1>1, SizeAssumption DEF QueueWait, Step, ScanBegins, MetalTypes
  <2>2. pc'[Client] = "waitscan" /\ \A w \in Workers : pc'[w] = pc[w]
    BY <2>1, ClientMoves
  <2>3. \A w \in Workers : pc[w] = "perform" => job[w] \in Tasks
    BY DEF Inv, HasJob, Holding, Threads
  <2>4. MetalTypes'
    <3>1. settled' \in BOOLEAN
      BY <1>1 DEF QueueWait
    <3> QED BY <2>1, <2>3, <3>1, SizeAssumption DEF MetalTypes
  <2>5. \A w \in Workers : ~(w <= 0)
    BY SizeAssumption DEF Workers
  <2>6. NotMissed'
    BY <2>1, <2>2, <2>5 DEF NotMissed
  <2> QED BY <2>1, <2>2, <2>4, <2>6 DEF Labels, LeavesTasks, ScanBegins, MarkedBusy
<1>2. CASE Delete
  <2>1. /\ pc[Client] = "idle" /\ pc'[Client] = "free" /\ UNCHANGED <<queue, metalVars>>
        /\ \A w \in Workers : pc'[w] \in {pc[w], "leave"}
    BY <1>2, NamesAssumption DEF Delete, Threads
  <2> QED BY <2>1 DEF Labels, LeavesTasks, MetalTypes, ScanBegins, MarkedBusy, NotMissed, metalVars
<1>3. ASSUME UNCHANGED <<queue, status, scanned, busy, begun>>, settled' = FALSE,
             pc[Client] = "idle", UNCHANGED pc \/ \E label \in {"each", "wait"} : Goto(Client, label)
      PROVE  MetalInv'
  BY <1>3, ClientMoves DEF Labels, LeavesTasks, MetalTypes, ScanBegins, MarkedBusy, NotMissed
<1>4. CASE \/ ObjectCall /\ settled' = FALSE /\ UNCHANGED <<status, scanned, busy, begun>>
           \/ \E t \in Tasks, w \in BOOLEAN : TaskAdd(t, w)
           \/ \E g \in Groups : GroupAdd(g)
           \/ \E o \in Objects : Wait(o)
  <2>1. /\ UNCHANGED <<queue, status, scanned, busy, begun>> /\ settled' = FALSE
        /\ pc[Client] = "idle"
    BY <1>4 DEF ObjectCall, GroupCreate, GroupTaskAdd, GroupPerform, GroupDelete, TaskDelete,
                TaskAdd, FunctionAdd, GroupAdd, GroupAddBegins, BeginAdd, Wait, WaitBegins
  <2>2. UNCHANGED pc \/ \E label \in {"each", "wait"} : Goto(Client, label)
    BY <1>4 DEF ObjectCall, GroupCreate, GroupTaskAdd, GroupPerform, GroupDelete, TaskDelete,
                TaskAdd, FunctionAdd, GroupAdd, GroupAddBegins, BeginAdd, Wait, WaitBegins
  <2> QED BY <1>3, <2>1, <2>2
<1> QED BY <1>1, <1>2, <1>4 DEF Call

\* The client goes on with a call.
LEMMA ContinueInv == ASSUME IInv, Continue PROVE MetalInv'
<1> USE DEF IInv, MetalInv
<1>1. CASE ReadStatus
  <2>1. /\ scanned < ThreadCount /\ scanned' = scanned + 1
        /\ busy' = IF status[scanned + 1] = "BUSY" THEN busy + 1 ELSE busy
        /\ pc[Client] \in {"scan", "waitscan"}
        /\ UNCHANGED <<queue, pc, job, status, begun, settled>>
    BY <1>1 DEF ReadStatus, IsBusy, baseVars
  <2>2. scanned \in Nat /\ busy \in Nat /\ busy <= scanned /\ ThreadCount \in Nat
    BY SizeAssumption DEF MetalTypes
  <2>3. MetalTypes'
    <3>1. scanned' \in 0..ThreadCount /\ busy' \in 0..scanned'
      BY <2>1, <2>2
    <3> QED BY <2>1, <3>1 DEF MetalTypes
  <2>4. ASSUME NEW w \in Workers, pc[w] = "perform", w <= scanned => busy > 0, w <= scanned'
        PROVE  busy' > 0
    <3>1. w \in Nat /\ status[w] = "BUSY"
      BY <2>4, SizeAssumption DEF Workers, MarkedBusy
    <3>2. CASE w <= scanned
      BY <2>1, <2>2, <2>4, <3>2
    <3>3. CASE w = scanned + 1
      BY <2>1, <2>2, <3>1, <3>3
    <3> QED BY <2>1, <2>2, <2>4, <3>1, <3>2, <3>3
  <2>5. NotMissed'
    BY <2>1, <2>4 DEF NotMissed
  <2> QED BY <2>1, <2>3, <2>5 DEF Labels, LeavesTasks, ScanBegins, MarkedBusy
<1>2. CASE QueueWaitAgain
  <2>1. scanned' = 0 /\ busy' = 0 /\ UNCHANGED <<queue, pc, job, status, begun, settled>>
    BY <1>2 DEF QueueWaitAgain, baseVars
  <2>2. MetalTypes'
    BY <2>1, SizeAssumption DEF MetalTypes
  <2>3. \A w \in Workers : ~(w <= 0)
    BY SizeAssumption DEF Workers
  <2>4. NotMissed'
    BY <2>1, <2>3 DEF NotMissed
  <2> QED BY <2>1, <2>2, <2>4 DEF Labels, LeavesTasks, ScanBegins, MarkedBusy
<1>3. CASE Send
  <2>1. /\ pc[Client] = "send" /\ Len(queue) < Length
        /\ queue' = Append(queue, job[Client]) /\ UNCHANGED metalVars
        /\ pc' = [e \in Threads |-> IF e = Client THEN "each" ELSE Woken(pc[e])]
    BY <1>3 DEF Send, HasRoom, Enqueue
  <2>2. pc'[Client] = "each" /\ \A w \in Workers : pc'[w] = Woken(pc[w])
    BY <2>1, NamesAssumption DEF Threads
  <2>3. job[Client] \in Tasks /\ queue \in Seq(Tasks)
    BY <2>1 DEF Inv, HasJob, Holding, Threads, ObjectsTypeOK
  <2>4. Len(queue') <= Length
    BY <2>1, <2>3, SizeAssumption
  <2> QED BY <2>1, <2>2, <2>4
          DEF Labels, LeavesTasks, MetalTypes, ScanBegins, MarkedBusy, NotMissed, Woken, metalVars
<1>4. CASE RunTask(Client)
  BY <1>4, RunTaskInv DEF Threads
<1>5. ASSUME NEW label, Goto(Client, label), UNCHANGED <<queue, status, begun>>,
             label \in {"idle", "scan", "send", "perform", "stopped"},
             label \in {"scan", "perform"} => UseCallersThread,
             scanned' = 0, busy' = 0, settled' \in BOOLEAN
      PROVE  MetalInv'
  <2>1. MetalTypes'
    BY <1>5, SizeAssumption DEF MetalTypes
  <2> QED BY <1>5, <2>1, ClientMoves DEF Labels, LeavesTasks, ScanBegins, MarkedBusy, NotMissed
<1>6. ASSUME pc[Client] \notin {"scan", "waitscan"}, UNCHANGED metalVars
      PROVE  /\ scanned' = 0 /\ busy' = 0 /\ settled' \in BOOLEAN /\ UNCHANGED <<status, begun>>
  BY <1>6, SizeAssumption DEF ScanBegins, MetalTypes, metalVars
<1>7. CASE EachTask
  <2>1. /\ pc[Client] = "each" /\ UNCHANGED <<queue, metalVars>>
        /\ Goto(Client, IF UseCallersThread THEN "scan" ELSE "send")
    BY <1>7 DEF EachTask, NextTask
  <2> QED BY <1>5, <1>6, <2>1
<1>8. CASE (AddReturns /\ UNCHANGED metalVars) \/ WaitReturns \/ FreeMemory
  <2>1. /\ pc[Client] \in {"each", "wait", "free"} /\ UNCHANGED <<queue, metalVars>>
        /\ Goto(Client, "idle") \/ Goto(Client, "stopped")
    BY <1>8 DEF AddReturns, WaitReturns, WaitEnds, FreeMemory, Step
  <2> QED BY <1>5, <1>6, <2>1
<1>9. CASE QueueWaitReturns
  BY <1>5, <1>9 DEF QueueWaitReturns, Step
<1>10. CASE PitchInOrSend
  <2>1. /\ pc[Client] = "scan" /\ UNCHANGED <<queue, status, begun, settled>>
        /\ scanned' = 0 /\ busy' = 0
        /\ Goto(Client, IF busy = ThreadCount THEN "perform" ELSE "send")
    BY <1>10 DEF PitchInOrSend, Step
  <2>2. UseCallersThread
    BY <2>1 DEF LeavesTasks
  <2> QED BY <1>5, <2>1, <2>2 DEF MetalTypes
<1> QED BY <1>1, <1>2, <1>3, <1>4, <1>7, <1>8, <1>9, <1>10 DEF Continue

LEMMA InitIInv == Init => IInv
<1> SUFFICES ASSUME Init PROVE IInv
  OBVIOUS
<1>1. ObjectsInit("receive")
  BY DEF Init
<1>2. Inv /\ TokenOnce /\ WaitedFreed(Objects)
  BY <1>1, ObjectsInitInv, ObjectsInitTokens DEF Holding
<1>3. /\ pc[Client] = "idle" /\ \A w \in Workers : pc[w] = "receive"
      /\ queue = <<>>
  BY <1>1, NamesAssumption DEF ObjectsInit, Threads
<1>4. MetalTypes
  <2>1. settled \in BOOLEAN
    BY DEF Init
  <2>2. Len(queue) <= Length /\ scanned \in 0..ThreadCount /\ busy \in 0..scanned
    BY <1>3, SizeAssumption DEF Init
  <2> QED BY <2>1, <2>2 DEF Init, MetalTypes
<1> QED BY <1>2, <1>3, <1>4 DEF Init, IInv, MetalInv, Labels, LeavesTasks, ScanBegins, MarkedBusy, NotMissed

LEMMA StepIInv == IInv /\ [Next]_vars => IInv'
<1> SUFFICES ASSUME IInv, [Next]_vars PROVE IInv'
  OBVIOUS
<1>1. TokenStep
  BY StepIsShared
<1>2. Inv' /\ TokenOnce' /\ WaitedFreed(Objects)'
  BY <1>1, TokenStepShared, SharedStepInv, TokenStepOnce, TokenStepWaitedFreed DEF IInv
<1>3. ASSUME UNCHANGED vars PROVE MetalInv'
  BY <1>3 DEF IInv, MetalInv, vars, baseVars, metalVars, Labels, LeavesTasks, MetalTypes,
              ScanBegins, MarkedBusy, NotMissed
<1>4. MetalInv'
  BY <1>3, WorkInv, CallInv, ContinueInv DEF Next
<1> QED BY <1>2, <1>4 DEF IInv

LEMMA Invariance == Spec => []IInv
BY InitIInv, StepIInv, PTL DEF Spec

-----------------------------------------------------------------------------
(***************************************************************************)
(* The theorems.                                                           *)
(***************************************************************************)
\* queue_send and queue_receive keep the queue within its length and busy_workers
\* counts no more busy workers than it has looked at, whatever threads and calls
\* interleave.
THEOREM MetalTypeCorrect == Spec => []TypeOK
<1>1. IInv => TypeOK
  <2> SUFFICES ASSUME IInv PROVE TypeOK
    OBVIOUS
  <2>1. pc = [e \in Threads |-> pc[e]]
    BY DEF IInv, Inv, Labelled
  <2>2. \A e \in Threads : pc[e] \in {"receive", "blocked", "mark", "perform", "finish", "token",
                                      "ready", "leave", "idle", "each", "scan", "send",
                                      "wait", "waitscan", "free", "stopped"}
    BY DEF IInv, MetalInv, Labels, Threads
  <2>3. ObjectsTypeOK /\ MetalTypes
    BY DEF IInv, Inv, MetalInv
  <2> QED BY <2>1, <2>2, <2>3 DEF TypeOK, MetalTypes
<1> QED BY <1>1, Invariance, PTL

\* A task handed to dispatch_queue_task_add or dispatch_queue_group_add is performed
\* once, by a worker or by the caller that pitches in: it is never lost and never run
\* twice.
THEOREM MetalPerformedOnce == Spec => []PerformedOnce
<1>1. IInv => PerformedOnce
  BY InvPerformedOnce DEF IInv
<1> QED BY <1>1, Invariance, PTL

\* run_task reads task->waitable and task->private_data of tasks that are not freed,
\* and no freed task is queued.
THEOREM MetalNoTaskUseAfterFree == Spec => []NoTaskUseAfterFree
<1>1. IInv => NoTaskUseAfterFree
  BY InvNoTaskUseAfterFree DEF IInv
<1> QED BY <1>1, Invariance, PTL

\* event_counter_signal never uses a counter that the waiting client has deleted.
THEOREM MetalNoCounterUseAfterFree == Spec => []NoCounterUseAfterFree
<1>1. IInv => NoCounterUseAfterFree
  BY InvNoCounterUseAfterFree DEF IInv
<1> QED BY <1>1, Invariance, PTL

\* The waiter of an event counter is woken over the streaming channel once: no two workers
\* find that they were the last, and a token is sent only while somebody has to wait and
\* the count is zero.
THEOREM MetalTokenOnce == Spec => []TokenOnce
<1>1. IInv => TokenOnce
  BY DEF IInv
<1> QED BY <1>1, Invariance, PTL

\* When nothing is left to wait for and the workers are idle, every event counter and
\* every task that was added has been freed.
THEOREM MetalNoLeak == Spec => []NoLeak
<1>1. IInv => NoLeak
  BY InvNoLeak DEF IInv
<1> QED BY <1>1, Invariance, PTL

\* dispatch_queue_wait returns only when the tasks that were running when it was called
\* have been performed, though busy_workers reads the flags one by one and unlocked.
THEOREM MetalQueueWait == Spec => QueueWaitCoversBegun
<1>1. ASSUME IInv, QueueWaitReturns PROVE begun = {}
  <2>1. pc[Client] = "waitscan" /\ scanned = ThreadCount /\ busy + Len(queue) = 0
    BY <1>1 DEF QueueWaitReturns
  <2>2. busy \in Nat /\ Len(queue) \in Nat
    BY <1>1, SizeAssumption DEF IInv, Inv, ObjectsTypeOK, MetalInv, MetalTypes
  <2>3. ~(busy > 0)
    BY <2>1, <2>2
  <2>4. \A w \in Workers : w <= scanned
    BY <2>1, SizeAssumption DEF Workers
  <2> QED BY <1>1, <2>1, <2>3, <2>4 DEF IInv, MetalInv, NotMissed
<1>2. IInv /\ [Next]_vars => [QueueWaitReturns => begun = {}]_vars
  BY <1>1
<1> QED BY <1>2, Invariance, PTL DEF Spec, QueueWaitCoversBegun

\* The bare-metal build implements the abstract dispatch queue: workers take the tasks in
\* FIFO order, each task is taken once, by a worker or, only with use_callers_thread, by
\* the caller that pitches in, and none is waited for or freed before it was performed.
THEOREM MetalImplementsDispatch == Spec => ImplementsDispatch
<1>1. Init => Abstract!Init
  BY ObjectsInitRefines DEF Init, Holding
<1>2. IInv /\ [Next]_vars => [Abstract!Next]_(Abstract!vars)
  BY StepIsShared, TokenStepShared, SharedStepRefines DEF IInv
<1> QED BY <1>1, <1>2, Invariance, PTL DEF Spec, ImplementsDispatch, Abstract!Spec
=============================================================================
