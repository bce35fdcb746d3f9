------------------------- MODULE DispatchHostProof -------------------------
(***************************************************************************)
(* The dispatch queue of the x86 build keeps its promises for every number *)
(* of workers and every set of tasks and groups, with and without spurious *)
(* wake-ups.  It does not keep all of them: see DispatchHost_counter.cfg   *)
(* for what a worker does with a counter that was deleted.                 *)
(***************************************************************************)
EXTENDS DispatchHost, DispatchPropertiesProof

-----------------------------------------------------------------------------
(***************************************************************************)
(* What the invariant says of the variables of this build.                 *)
(***************************************************************************)
Labels ==
  /\ \A w \in Workers : pc[w] \in {"start", "receive", "blocked", "woken", "perform", "finish",
                                   "token", "ready", "exited"}
  /\ pc[Client] \in {"idle", "each", "send", "notify", "wait", "sleep", "waitempty", "waitready",
                     "sleepready", "delete", "quit", "join", "stopped"}

\* The lock is held by the worker that looks at the deque, and by nobody else.
Locking ==
  /\ lock \in Workers \cup {None}
  /\ \A w \in Workers : pc[w] = "receive" <=> lock = w

HostTypes ==
  /\ ready \in [Workers -> {0, 1}]
  /\ quit \in BOOLEAN
  /\ scanned \in 0..ThreadCount

\* A worker that has given the ready signal and not cleared it has no task.
ReadyIdle == \A w \in Workers : ready[w] = 0 => pc[w] \in {"receive", "blocked", "woken", "exited"}

\* A client that waits for the ready signals has seen the deque empty, and only itself
\* fills it: a worker it has passed finds no task to clear its signal for.
PassedReady ==
  pc[Client] \in {"waitready", "sleepready"} =>
    queue = <<>> /\ \A w \in Workers : w <= scanned => ready[w] = 0

\* The loops of dispatch_queue_wait and dispatch_queue_delete begin with the first worker.
ScanBegins == pc[Client] \notin {"waitready", "sleepready", "join", "stopped"} => scanned = 0

HostInv == Labels /\ Locking /\ HostTypes /\ ReadyIdle /\ PassedReady /\ ScanBegins

\* dispatch_queue_task_wait frees the task, dispatch_queue_group_wait does not.
IInv == Inv /\ WaitedFreed(Tasks) /\ HostInv

-----------------------------------------------------------------------------
\* The client and a worker go on together: a worker wakes the client, or the client wakes workers.
LEMMA WakesMove ==
  ASSUME IInv, Labelled', JobsKept, UNCHANGED <<queue, objectVars, callVars, performed>>,
         \A w \in Workers : \/ pc'[w] = pc[w]
                            \/ /\ pc[w] \in {"start", "ready", "blocked", "token"}
                               /\ pc'[w] \in {"receive", "woken", "ready"},
         \/ pc'[Client] = pc[Client]
         \/ pc[Client] = "sleepready" /\ pc'[Client] = "waitready"
         \/ pc[Client] = "sleep" /\ pc'[Client] = "wait"
         \/ pc[Client] = "notify" /\ pc'[Client] = "each"
         \/ pc[Client] = "quit" /\ pc'[Client] = "join"
  PROVE  Move
<1>1. \A e \in Threads : e # Client => e \in Workers
  BY DEF Threads
<1>2. \A w \in Workers : /\ pc'[w] \in Holding <=> pc[w] \in Holding
                         /\ pc'[w] = "finish" <=> pc[w] = "finish"
                         /\ pc'[w] \in Taken <=> pc[w] \in Taken
  BY DEF Holding, Taken
<1>3. /\ pc'[Client] \in Holding <=> pc[Client] \in Holding
      /\ pc'[Client] = "finish" <=> pc[Client] = "finish"
      /\ pc'[Client] \in Taken <=> pc[Client] \in Taken
      /\ pc'[Client] \in Adding <=> pc[Client] \in Adding
      /\ pc'[Client] \in Waiting => pc[Client] \in Waiting
  BY DEF Holding, Taken, Adding, Waiting
<1> QED BY <1>1, <1>2, <1>3 DEF Move, Relabelled

\* What the ready signal and a notification do to the labels.
LEMMA ReadyMoves ==
  ASSUME IInv, NEW w \in Workers, Ready(w)
  PROVE  /\ Labelled' /\ pc'[w] = "receive" /\ \A v \in Workers : v # w => pc'[v] = pc[v]
         /\ \/ pc'[Client] = pc[Client]
            \/ pc[Client] = "sleepready" /\ pc'[Client] = "waitready"
BY NamesAssumption DEF IInv, Inv, Labelled, Ready, ReadyLabels, TaskDone, Threads

LEMMA NotifyMoves ==
  ASSUME IInv, NEW w \in Workers, NotifyWaiter(w)
  PROVE  /\ Labelled' /\ pc'[w] = "ready" /\ \A v \in Workers : v # w => pc'[v] = pc[v]
         /\ \/ pc'[Client] = pc[Client]
            \/ pc[Client] = "sleep" /\ pc'[Client] = "wait"
BY NamesAssumption DEF IInv, Inv, Labelled, NotifyWaiter, AfterTask, Threads

LEMMA WakeMoves ==
  ASSUME IInv, NEW S \in SUBSET Blocked, NEW label, Wake(S, label)
  PROVE  /\ Labelled' /\ pc'[Client] = label
         /\ \A w \in Workers : \/ pc'[w] = pc[w]
                               \/ pc[w] = "blocked" /\ pc'[w] = "woken"
BY NamesAssumption DEF Labelled, Wake, Blocked, Threads

\* A step of a worker or of the client is one of the shared steps.
LEMMA StepIsShared == ASSUME IInv, [Next]_vars PROVE SharedStep
<1> USE DEF IInv, HostInv
<1>1. Client \in Threads /\ \A w \in Workers : w \in Threads /\ w # Client
  BY NamesAssumption DEF Threads
<1>0. UNCHANGED job => JobsKept
  BY DEF JobsKept, Inv, ObjectsTypeOK
<1>2. ASSUME NEW w \in Workers, Work(w) PROVE SharedStep
  <2>1. CASE Ready(w)
    <3>1. pc[w] \in {"start", "ready"} /\ UNCHANGED <<queue, objectVars, callVars, performed>>
      BY <2>1 DEF Ready, TaskDone
    <3>2. JobsKept
      BY <2>1, ReadyMoves DEF JobsKept, Ready, TaskDone, Inv, ObjectsTypeOK, Holding
    <3>3. Move
      BY <2>1, <3>1, <3>2, ReadyMoves, WakesMove
    <3> QED BY <3>3 DEF SharedStep
  <2>2. ASSUME NEW label \in {"blocked", "receive", "exited"}, Step(w, label),
               pc[w] \in {"receive", "woken", "ready"}
        PROVE  SharedStep
    BY <1>1, <2>2, StepMoves DEF Holding, Taken, SharedStep
  <2>3. CASE Sleep(w) \/ Relock(w) \/ Exit(w)
    BY <2>2, <2>3 DEF Sleep, Relock, Exit
  <2>4. CASE Take(w)
    <3>1. pc[w] \notin Holding \cup {"finish"} /\ Dequeue(w, "perform") /\ "perform" \in Taken
      BY <2>4 DEF Take, Holding, Taken
    <3> QED BY <3>1 DEF SharedStep
  <2>5. CASE RunTask(w)
    <3>1. CASE NotifyWaiter(w)
      <4>1. pc[w] = "token" /\ UNCHANGED <<queue, job, objectVars, callVars, performed>>
        BY <3>1 DEF NotifyWaiter
      <4>2. Move
        BY <1>0, <3>1, <4>1, NotifyMoves, WakesMove
      <4> QED BY <4>2 DEF SharedStep
    <3>2. After(w, "token") /\ After(w, AfterTask(w))
      BY <1>1 DEF After, AfterTask, Holding
    <3> QED BY <1>1, <2>5, <3>1, <3>2 DEF RunTask, SharedStep
  <2> QED BY <1>2, <2>1, <2>3, <2>4, <2>5 DEF Work
<1>3. ASSUME NEW from, NEW label, pc[Client] = from, Step(Client, label),
             \/ /\ from \in {"idle", "waitempty", "waitready", "sleepready", "delete", "join"}
                /\ label \in {"idle", "waitempty", "waitready", "sleepready", "delete", "quit",
                              "stopped"}
             \/ from = "wait" /\ label = "sleep"
             \/ from = "sleep" /\ label = "wait"
      PROVE  SharedStep
  BY <1>1, <1>3, StepMoves DEF Holding, Taken, Adding, Waiting, SharedStep
<1>4. CASE Call
  <2>1. CASE QueueWait \/ Delete
    BY <1>3, <2>1 DEF QueueWait, Delete
  <2> QED BY <1>4, <2>1 DEF Call, TaskAdd, GroupAdd, Wait, SharedStep
<1>5. CASE UNCHANGED baseVars
  BY <1>5, StutterInv DEF SharedStep
<1>6. CASE Continue
  <2>1. CASE SeesQueueEmpty \/ QueueWaitReturns \/ SetQuit \/ FreeMemory \/ WaitSleeps
    BY <1>3, <2>1 DEF SeesQueueEmpty, QueueWaitReturns, SetQuit, FreeMemory, WaitSleeps
  <2>2. CASE WaitReady
    BY <1>3, <1>5, <2>2 DEF WaitReady
  <2>3. CASE Join
    BY <1>5, <2>3 DEF Join
  <2>4. CASE Push
    <3>1. /\ pc[Client] = "send" /\ Enqueue([pc EXCEPT ![Client] = "notify"])
          /\ pc' = [pc EXCEPT ![Client] = "notify"]
      BY <2>4 DEF Push, Enqueue
    <3>2. pc'[Client] = "notify" /\ Labelled' /\ \A w \in Workers : pc'[w] = pc[w]
      BY <1>1, <3>1 DEF Inv, Labelled
    <3>3. SendStep
      BY <3>1, <3>2 DEF SendStep
    <3> QED BY <3>3 DEF SharedStep
  <2>5. ASSUME NEW S \in SUBSET Blocked, NEW label, Wake(S, label),
               (pc[Client] = "notify" /\ label = "each") \/ (pc[Client] = "quit" /\ label = "join")
        PROVE  SharedStep
    <3>1. UNCHANGED <<queue, job, objectVars, callVars, performed>>
      BY <2>5 DEF Wake
    <3>2. Move
      BY <1>0, <2>5, <3>1, WakeMoves, WakesMove
    <3> QED BY <3>2 DEF SharedStep
  <2>6. CASE NotifyOne \/ NotifyAll
    BY <2>5, <2>6 DEF NotifyOne, NotifyAll
  <2>7. CASE WaitReturns
    <3>1. (IF call \in Tasks THEN {call} ELSE {}) \in SUBSET TasksOf(call)
      BY DEF TasksOf
    <3> QED BY <2>7, <3>1 DEF WaitReturns, SharedStep
  <2>8. CASE EachTask
    BY <2>8 DEF EachTask, SharedStep
  <2>9. CASE AddReturns
    BY <2>9 DEF SharedStep
  <2> QED BY <1>6, <2>1, <2>2, <2>3, <2>4, <2>6, <2>7, <2>8, <2>9 DEF Continue
<1>7. ASSUME NEW e \in Threads, SpuriousWakeup(e) PROVE SharedStep
  <2>1. /\ Step(e, AfterWakeup[pc[e]])
        /\ \/ pc[e] = "blocked" /\ AfterWakeup[pc[e]] = "woken"
           \/ pc[e] = "sleep" /\ AfterWakeup[pc[e]] = "wait"
           \/ pc[e] = "sleepready" /\ AfterWakeup[pc[e]] = "waitready"
    BY <1>7 DEF SpuriousWakeup, AfterWakeup
  <2> QED BY <1>1, <2>1, StepMoves DEF Holding, Taken, Adding, Waiting, SharedStep
<1>8. CASE UNCHANGED vars
  BY <1>5, <1>8 DEF vars
<1> QED BY <1>2, <1>4, <1>6, <1>7, <1>8 DEF Next

\* Only dispatch_queue_task_wait and dispatch_queue_group_wait end the client's
\* obligation to wait, and the former frees the task.
LEMMA StepWaitedFreed == ASSUME IInv, [Next]_vars PROVE WaitedFreed(Tasks)'
<1> USE DEF IInv
<1>1. SharedStep
  BY StepIsShared
<1>2. CASE WaitReturns
  <2>1. call \in Tasks => TasksOf(call) = {call} /\ life' = TasksDeleted({call})
    BY <1>2 DEF WaitReturns, WaitEnds, TasksOf
  <2>2. call \in Tasks => \A t \in TasksOf(call) : life'[t] = "freed"
    BY <2>1 DEF TasksDeleted, Objects
  <2> QED BY <1>1, <2>2, WaitedFreedStep
<1>3. CASE ~WaitReturns
  <2>1. ASSUME NEW w \in Workers, Work(w) PROVE pending' = pending
    BY <2>1 DEF Work, Ready, TaskDone, Sleep, Relock, Take, Exit, RunTask, Dequeue, Perform, CountDown,
                NotifyWaiter, DeleteTask, Step, callVars
  <2>2. ASSUME Call PROVE pending \subseteq pending'
    BY <2>2 DEF Call, ObjectCall, GroupCreate, GroupTaskAdd, GroupPerform, GroupDelete,
                TaskDelete, TaskAdd, FunctionAdd, GroupAdd, GroupAddBegins, BeginAdd, Wait,
                WaitBegins, QueueWait, Delete, Step, callVars
  <2>3. ASSUME Continue PROVE pending' = pending
    BY <1>3, <2>3 DEF Continue, EachTask, NextTask, AddReturns, Push, Enqueue, NotifyOne, NotifyAll,
                Wake, WaitSleeps, SeesQueueEmpty, WaitReady, QueueWaitReturns, SetQuit, Join,
                FreeMemory, Step, baseVars, callVars
  <2>4. ASSUME NEW e \in Threads, SpuriousWakeup(e) PROVE pending' = pending
    BY <2>4 DEF SpuriousWakeup, Step, callVars
  <2>5. ASSUME UNCHANGED vars PROVE pending' = pending
    BY <2>5 DEF vars, baseVars, callVars
  <2>6. pending \subseteq pending'
    BY <2>1, <2>2, <2>3, <2>4, <2>5 DEF Next
  <2> QED BY <1>1, <2>6, WaitedFreedStep
<1> QED BY <1>2, <1>3

-----------------------------------------------------------------------------
(***************************************************************************)
(* The variables of this build.                                            *)
(***************************************************************************)
\* A step of a worker.
LEMMA WorkInv == ASSUME IInv, NEW w \in Workers, Work(w) PROVE HostInv'
<1> USE DEF IInv, HostInv
<1>0. None \notin Workers
  BY NamesAssumption DEF Threads
<1>1. CASE Ready(w)
  <2>1. /\ pc[w] \in {"start", "ready"} /\ lock = None /\ lock' = w
        /\ ready' = [ready EXCEPT ![w] = 0] /\ UNCHANGED <<queue, quit, scanned>>
    BY <1>1 DEF Ready, TaskDone
  <2>2. HostTypes' /\ \A v \in Workers : ready'[v] = IF v = w THEN 0 ELSE ready[v]
    BY <2>1 DEF HostTypes
  <2>3. Labels' /\ Locking' /\ ReadyIdle'
    BY <1>0, <1>1, <2>1, <2>2, ReadyMoves DEF Labels, Locking, ReadyIdle
  <2>4. PassedReady' /\ ScanBegins'
    BY <1>1, <2>1, <2>2, ReadyMoves DEF PassedReady, ScanBegins
  <2> QED BY <2>2, <2>3, <2>4
<1>2. ASSUME NEW label, Step(w, label), UNCHANGED <<ready, quit, scanned>>,
             label \in {"receive", "blocked", "exited"}, pc[w] \in {"receive", "woken", "ready"},
             lock \in {None, w}, lock' = IF label = "receive" THEN w ELSE None
      PROVE  HostInv'
  <2>1. /\ pc'[w] = label /\ pc'[Client] = pc[Client] /\ queue' = queue
        /\ \A v \in Workers : v # w => pc'[v] = pc[v]
    BY <1>2, WorkerMoves DEF Step
  <2> QED BY <1>0, <1>2, <2>1 DEF Labels, Locking, HostTypes, ReadyIdle, PassedReady, ScanBegins
<1>3. CASE Sleep(w) \/ Relock(w) \/ Exit(w)
  BY <1>2, <1>3 DEF Sleep, Relock, Exit, Locking
<1>4. CASE Take(w)
  <2>1. /\ pc[w] = "receive" /\ lock' = None /\ ready' = [ready EXCEPT ![w] = 1]
        /\ queue # <<>> /\ Goto(w, "perform") /\ UNCHANGED <<quit, scanned>>
    BY <1>4 DEF Take, ReadyReset, Dequeue
  <2>2. HostTypes' /\ \A v \in Workers : ready'[v] = IF v = w THEN 1 ELSE ready[v]
    BY <2>1 DEF HostTypes
  <2>3. lock = w /\ pc[Client] \notin {"waitready", "sleepready"}
    BY <2>1 DEF Locking, PassedReady
  <2> QED BY <1>0, <2>1, <2>2, <2>3, WorkerMoves DEF Labels, Locking, ReadyIdle, PassedReady, ScanBegins
<1>5. CASE RunTask(w)
  <2>1. /\ pc[w] \in {"perform", "finish", "token"} /\ UNCHANGED <<queue, lock, ready, quit, scanned>>
        /\ NotifyWaiter(w) \/ \E label \in {"finish", "token", "ready"} : Goto(w, label)
    BY <1>5 DEF RunTask, Perform, CountDown, NotifyWaiter, DeleteTask, AfterTask, hostVars
  <2>2. /\ pc'[w] \in {"finish", "token", "ready"} /\ \A v \in Workers : v # w => pc'[v] = pc[v]
        /\ pc'[Client] = pc[Client] \/ (pc[Client] = "sleep" /\ pc'[Client] = "wait")
    BY <2>1, NotifyMoves, WorkerMoves
  <2> QED BY <2>1, <2>2 DEF Labels, Locking, HostTypes, ReadyIdle, PassedReady, ScanBegins
<1> QED BY <1>1, <1>3, <1>4, <1>5 DEF Work

\* The client goes from one label to another, alone.
LEMMA ClientInv ==
  ASSUME IInv, NEW label, Goto(Client, label), UNCHANGED <<lock, ready>>,
         label \in {"idle", "each", "send", "notify", "wait", "sleep", "waitempty", "waitready",
                    "sleepready", "delete", "quit", "stopped"},
         quit' \in BOOLEAN, scanned' \in 0..ThreadCount,
         label \notin {"waitready", "sleepready", "stopped"} => scanned' = 0,
         label \in {"waitready", "sleepready"} =>
           queue' = <<>> /\ \A w \in Workers : w <= scanned' => ready[w] = 0
  PROVE  HostInv'
<1> USE DEF IInv, HostInv
<1>1. pc'[Client] = label /\ \A w \in Workers : pc'[w] = pc[w]
  BY ClientMoves
<1> QED BY <1>1 DEF Labels, Locking, HostTypes, ReadyIdle, PassedReady, ScanBegins

\* The client begins a call.
LEMMA CallInv == ASSUME IInv, Call PROVE HostInv'
<1> USE DEF IInv, HostInv
<1>1. UNCHANGED <<queue, hostVars>> /\ pc[Client] = "idle"
  BY DEF Call, ObjectCall, GroupCreate, GroupTaskAdd, GroupPerform, GroupDelete, TaskDelete,
         TaskAdd, FunctionAdd, GroupAdd, GroupAddBegins, BeginAdd, Wait, WaitBegins, QueueWait,
         Delete, Step
<1>2. \/ UNCHANGED pc
      \/ \E label \in {"each", "wait", "waitempty", "delete"} : Goto(Client, label)
  BY DEF Call, ObjectCall, GroupCreate, GroupTaskAdd, GroupPerform, GroupDelete, TaskDelete,
         TaskAdd, FunctionAdd, GroupAdd, GroupAddBegins, BeginAdd, Wait, WaitBegins, QueueWait,
         Delete, Step
<1>3. CASE UNCHANGED pc
  BY <1>1, <1>3 DEF Labels, Locking, HostTypes, ReadyIdle, PassedReady, ScanBegins, hostVars
<1>4. ASSUME NEW label \in {"each", "wait", "waitempty", "delete"}, Goto(Client, label)
      PROVE  HostInv'
  BY <1>1, <1>4, ClientInv DEF HostTypes, ScanBegins, hostVars
<1> QED BY <1>2, <1>3, <1>4

\* The client goes on with a call.
LEMMA ContinueInv == ASSUME IInv, Continue PROVE HostInv'
<1> USE DEF IInv, HostInv
<1>1. CASE \/ EachTask \/ (AddReturns /\ UNCHANGED hostVars) \/ Push \/ WaitSleeps \/ WaitReturns
  <2>1. pc[Client] \in {"each", "send", "wait"} /\ UNCHANGED hostVars
    BY <1>1 DEF EachTask, NextTask, AddReturns, Push, WaitSleeps, WaitReturns
  <2>2. \E label \in {"send", "idle", "notify", "sleep"} : Goto(Client, label)
    BY <1>1 DEF EachTask, NextTask, AddReturns, Push, Enqueue, WaitSleeps, WaitReturns, WaitEnds,
                Step, Goto
  <2> QED BY <2>1, <2>2, ClientInv DEF HostTypes, ScanBegins, hostVars
<1>2. CASE NotifyOne \/ NotifyAll
  <2>1. pc[Client] \in {"notify", "quit"} /\ UNCHANGED hostVars
    BY <1>2 DEF NotifyOne, NotifyAll
  <2>2. PICK S \in SUBSET Blocked, label \in {"each", "join"} : Wake(S, label)
    BY <1>2 DEF NotifyOne, NotifyAll
  <2>3. /\ pc'[Client] = label
        /\ \A w \in Workers : pc'[w] = pc[w] \/ (pc[w] = "blocked" /\ pc'[w] = "woken")
    BY <2>2, WakeMoves
  <2> QED BY <2>1, <2>3 DEF Labels, Locking, HostTypes, ReadyIdle, PassedReady, ScanBegins, hostVars
<1>3. CASE SeesQueueEmpty
  <2>1. Goto(Client, "waitready") /\ queue' = <<>> /\ scanned' = 0 /\ UNCHANGED <<lock, ready, quit>>
    BY <1>3 DEF SeesQueueEmpty, Step, ScanBegins, hostVars
  <2>2. scanned' \in 0..ThreadCount /\ \A w \in Workers : ~(w <= scanned')
    BY <2>1, SizeAssumption DEF Workers
  <2> QED BY <2>1, <2>2, ClientInv DEF HostTypes
<1>4. CASE WaitReady
  <2>1. pc[Client] = "waitready" /\ scanned < ThreadCount /\ UNCHANGED <<lock, ready, quit>>
    BY <1>4 DEF WaitReady
  <2>2. CASE ready[scanned + 1] = 0
    <3>1. scanned' = scanned + 1 /\ UNCHANGED <<queue, pc>>
      BY <1>4, <2>2 DEF WaitReady, baseVars
    <3>2. scanned \in Nat /\ ThreadCount \in Nat /\ Workers \subseteq Nat
      BY SizeAssumption DEF HostTypes, Workers
    <3>3. scanned' \in 0..ThreadCount /\ \A w \in Workers : w <= scanned' => w <= scanned \/ w = scanned + 1
      BY <2>1, <3>1, <3>2
    <3>4. \A w \in Workers : w <= scanned' => ready[w] = 0
      BY <2>1, <2>2, <3>3 DEF PassedReady
    <3> QED BY <2>1, <3>1, <3>3, <3>4 DEF Labels, Locking, HostTypes, ReadyIdle, PassedReady, ScanBegins
  <2>3. CASE ready[scanned + 1] # 0
    <3>1. Goto(Client, "sleepready") /\ UNCHANGED <<queue, scanned>>
      BY <1>4, <2>3 DEF WaitReady, Step
    <3> QED BY <2>1, <3>1, ClientInv DEF HostTypes, PassedReady
  <2> QED BY <2>2, <2>3
<1>5. CASE SetQuit
  <2>1. Goto(Client, "quit") /\ quit' = TRUE /\ scanned' = 0 /\ UNCHANGED <<lock, ready>>
    BY <1>5 DEF SetQuit, Step, ScanBegins
  <2>2. scanned' \in 0..ThreadCount
    BY <2>1, SizeAssumption
  <2> QED BY <2>1, <2>2, ClientInv
<1>6. CASE Join
  <2>1. /\ pc[Client] = "join" /\ scanned < ThreadCount /\ scanned' = scanned + 1
        /\ UNCHANGED <<queue, pc, lock, ready, quit>>
    BY <1>6 DEF Join, baseVars
  <2>2. scanned' \in 0..ThreadCount
    BY <2>1, SizeAssumption DEF HostTypes
  <2> QED BY <2>1, <2>2 DEF Labels, Locking, HostTypes, ReadyIdle, PassedReady, ScanBegins
<1>7. CASE QueueWaitReturns
  <2>1. Goto(Client, "idle") /\ scanned' = 0 /\ UNCHANGED <<lock, ready, quit>>
    BY <1>7 DEF QueueWaitReturns, Step
  <2>2. scanned' \in 0..ThreadCount
    BY <2>1, SizeAssumption
  <2> QED BY <2>1, <2>2, ClientInv DEF HostTypes
<1>8. CASE FreeMemory
  BY <1>8, ClientInv DEF FreeMemory, Step, HostTypes, hostVars
<1> QED BY <1>1, <1>2, <1>3, <1>4, <1>5, <1>6, <1>7, <1>8 DEF Continue

\* A sleeper wakes for no reason and looks again.
LEMMA SpuriousInv == ASSUME IInv, NEW e \in Threads, SpuriousWakeup(e) PROVE HostInv'
<1> USE DEF IInv, HostInv
<1>1. /\ UNCHANGED <<queue, hostVars>>
      /\ \/ pc[e] = "blocked" /\ Goto(e, "woken")
         \/ pc[e] = "sleep" /\ Goto(e, "wait")
         \/ pc[e] = "sleepready" /\ Goto(e, "waitready")
  BY DEF SpuriousWakeup, AfterWakeup, Step
<1>2. CASE e = Client
  <2>1. \E label \in {"wait", "waitready"} :
          Goto(Client, label) /\ (label = "waitready" => pc[Client] = "sleepready")
    BY <1>1, <1>2 DEF Labels
  <2> QED BY <1>1, <1>2, <2>1, ClientInv DEF HostTypes, PassedReady, ScanBegins, hostVars
<1>3. CASE e # Client
  <2>1. e \in Workers /\ pc[e] = "blocked" /\ Goto(e, "woken")
    BY <1>1, <1>3 DEF Labels, Threads
  <2>2. /\ pc'[e] = "woken" /\ pc'[Client] = pc[Client]
        /\ \A v \in Workers : v # e => pc'[v] = pc[v]
    BY <2>1, WorkerMoves
  <2> QED BY <1>1, <2>1, <2>2 DEF Labels, Locking, HostTypes, ReadyIdle, PassedReady, ScanBegins, hostVars
<1> QED BY <1>2, <1>3

LEMMA InitIInv == Init => IInv
<1> SUFFICES ASSUME Init PROVE IInv
  OBVIOUS
<1>1. ObjectsInit("start")
  BY DEF Init
<1>2. Inv /\ WaitedFreed(Tasks)
  BY <1>1, ObjectsInitInv, ObjectsInitTokens DEF Holding
<1>3. /\ pc[Client] = "idle" /\ \A w \in Workers : pc[w] = "start"
      /\ None \notin Workers
  BY <1>1, NamesAssumption DEF ObjectsInit, Threads
<1>4. HostTypes /\ \A w \in Workers : ready[w] = 1
  <2>1. ready = [w \in Workers |-> 1] /\ quit = FALSE /\ scanned = 0
    BY DEF Init
  <2>2. scanned \in 0..ThreadCount
    BY <2>1, SizeAssumption
  <2>3. ready \in [Workers -> {0, 1}] /\ \A w \in Workers : ready[w] = 1
    BY <2>1
  <2> QED BY <2>1, <2>2, <2>3 DEF HostTypes
<1> QED BY <1>2, <1>3, <1>4 DEF IInv, HostInv, Init, Labels, Locking, ReadyIdle, PassedReady, ScanBegins

LEMMA StepIInv == IInv /\ [Next]_vars => IInv'
<1> SUFFICES ASSUME IInv, [Next]_vars PROVE IInv'
  OBVIOUS
<1>1. Inv' /\ WaitedFreed(Tasks)'
  BY StepIsShared, SharedStepInv, StepWaitedFreed DEF IInv
<1>2. ASSUME UNCHANGED vars PROVE HostInv'
  BY <1>2 DEF IInv, HostInv, vars, baseVars, hostVars, Labels, Locking, HostTypes, ReadyIdle,
              PassedReady, ScanBegins
<1>3. HostInv'
  BY <1>2, WorkInv, CallInv, ContinueInv, SpuriousInv DEF Next
<1> QED BY <1>1, <1>3 DEF IInv

LEMMA Invariance == Spec => []IInv
BY InitIInv, StepIInv, PTL DEF Spec

-----------------------------------------------------------------------------
(***************************************************************************)
(* The theorems.                                                           *)
(***************************************************************************)
\* Mutual exclusion of the workers in dispatch_queue_worker: the lock is held exactly by
\* the worker that looks at the deque, also after waking up in cv.wait.
THEOREM HostTypeCorrect == Spec => []TypeOK
<1>1. IInv => TypeOK
  <2> SUFFICES ASSUME IInv PROVE TypeOK
    OBVIOUS
  <2>1. pc = [e \in Threads |-> pc[e]]
    BY DEF IInv, Inv, Labelled
  <2>2. \A e \in Threads : pc[e] \in {"start", "receive", "blocked", "woken", "perform", "finish",
                                      "token", "ready", "exited", "idle", "each", "send",
                                      "notify", "wait", "sleep", "waitempty", "waitready",
                                      "sleepready", "delete", "quit", "join", "stopped"}
    BY DEF IInv, HostInv, Labels, Threads
  <2>3. ObjectsTypeOK /\ HostTypes /\ Locking
    BY DEF IInv, Inv, HostInv
  <2> QED BY <2>1, <2>2, <2>3 DEF TypeOK, HostTypes, Locking
<1> QED BY <1>1, Invariance, PTL

\* A task handed to dispatch_queue_task_add or dispatch_queue_group_add is performed
\* once: it is never lost and never run twice.
THEOREM HostPerformedOnce == Spec => []PerformedOnce
<1>1. IInv => PerformedOnce
  BY InvPerformedOnce DEF IInv
<1> QED BY <1>1, Invariance, PTL

\* The worker reads task->waitable and task->private_data of tasks that are not freed,
\* and no freed task is in the deque.
THEOREM HostNoTaskUseAfterFree == Spec => []NoTaskUseAfterFree
<1>1. IInv => NoTaskUseAfterFree
  BY InvNoTaskUseAfterFree DEF IInv
<1> QED BY <1>1, Invariance, PTL

\* When nothing is left to wait for and the workers are idle, every event counter has been
\* freed, and every task that was added except for those of waitable groups.
THEOREM HostLeaksOnlyGroupTasks == Spec => []LeaksOnlyGroupTasks
<1>1. IInv => LeaksOnlyGroupTasks
  <2> SUFFICES ASSUME IInv, AtRest
               PROVE  /\ \A o \in added : counter[o].life # "alive"
                      /\ \A t \in Handed : life[t] = "freed" \/ private_data[t] \in Groups
    BY DEF LeaksOnlyGroupTasks
  <2>1. /\ \A o \in added : counter[o].life # "alive"
        /\ \A o \in added : \A t \in TasksOf(o) :
             life[t] = "freed" \/ (o \notin Tasks /\ private_data[t] = o)
    BY RestFreed DEF IInv
  <2>2. \A o \in added : o \in Tasks \/ o \in Groups
    BY DEF IInv, Inv, ObjectsTypeOK, Objects
  <2>3. \A t \in Handed : \E o \in added : t \in TasksOf(o)
    BY DEF Handed
  <2> QED BY <2>1, <2>2, <2>3
<1> QED BY <1>1, Invariance, PTL

\* dispatch_queue_wait returns only when every task that was added has been performed:
\* a worker clears its ready signal before the task leaves the deque.
THEOREM HostQueueWait == Spec => QueueWaitCoversAll
<1>1. ASSUME IInv, QueueWaitReturns, NEW t \in Handed PROVE performed[t] = 1
  <2>1. pc[Client] = "waitready" /\ scanned = ThreadCount /\ queue = <<>> /\ todo = <<>>
    BY <1>1 DEF IInv, HostInv, PassedReady, QueueWaitReturns, Inv, InItsCall, Adding
  <2>2. ~Among(t, todo) /\ ~Among(t, queue)
    BY <2>1 DEF Among
  <2>3. \A w \in Workers : w <= scanned
    BY <2>1, SizeAssumption DEF Workers
  <2>4. \A w \in Workers : pc[w] \in {"receive", "blocked", "woken", "exited"}
    BY <1>1, <2>1, <2>3 DEF IInv, HostInv, PassedReady, ReadyIdle
  <2>5. \A e \in Threads : ~Has(e, t)
    BY <2>1, <2>4 DEF Has, Threads
  <2> QED BY <1>1, <2>2, <2>5 DEF IInv, Inv, NotLost
<1>2. IInv /\ [Next]_vars =>
        [QueueWaitReturns => \A t \in Handed : performed[t] = 1]_vars
  BY <1>1
<1> QED BY <1>2, Invariance, PTL DEF Spec, QueueWaitCoversAll

\* The x86 build implements the abstract dispatch queue: tasks are taken in FIFO order
\* and by one worker each, none is waited for or freed before it was performed.
THEOREM HostImplementsDispatch == Spec => ImplementsDispatch
<1>1. Init => Abstract!Init
  BY ObjectsInitRefines DEF Init, Holding
<1>2. IInv /\ [Next]_vars => [Abstract!Next]_(Abstract!vars)
  BY StepIsShared, SharedStepRefines DEF IInv
<1> QED BY <1>1, <1>2, Invariance, PTL DEF Spec, ImplementsDispatch, Abstract!Spec

-----------------------------------------------------------------------------
(***************************************************************************)
(* Notifications are sent without the lock, and dispatch_queue_delete      *)
(* joins the workers one by one.                                           *)
(***************************************************************************)
\* While tasks are queued and their notification is not still to come, some worker is up
\* to take them: it will not sleep before the deque is empty.
NoMissedNotification ==
  queue # <<>> /\ ~quit /\ pc[Client] # "notify" =>
    \E w \in Workers : pc[w] \notin {"blocked", "exited"}

\* A client that has notified all workers in dispatch_queue_delete joins threads that
\* are awake, and it frees the queue when all of them have ended.
DeleteJoinsAll ==
  /\ pc[Client] = "join" => \A w \in Workers : pc[w] # "blocked"
  /\ pc[Client] = "stopped" => \A w \in Workers : pc[w] = "exited"

\* Workers end only when they are told to, and the client has joined those it has passed.
Leaving ==
  /\ quit <=> pc[Client] \in {"quit", "join", "stopped"}
  /\ \A w \in Workers : pc[w] = "exited" => quit
  /\ pc[Client] = "quit" => scanned = 0
  /\ pc[Client] = "join" => \A w \in Workers : w <= scanned => pc[w] = "exited"

Wakeups == NoMissedNotification /\ DeleteJoinsAll /\ Leaving

\* A worker sleeps only when there is nothing to do, and one that has ended does nothing.
LEMMA WorkWakeups == ASSUME IInv, Wakeups, NEW w \in Workers, Work(w) PROVE Wakeups'
<1> USE DEF IInv, HostInv, Wakeups
<1>1. SUFFICES /\ pc[w] # "exited" /\ UNCHANGED <<quit, scanned>>
               /\ \A v \in Workers : v # w => pc'[v] = pc[v]
               /\ \/ pc'[Client] = pc[Client]
                  \/ pc[Client] = "sleepready" /\ pc'[Client] = "waitready"
                  \/ pc[Client] = "sleep" /\ pc'[Client] = "wait"
               /\ pc'[w] = "blocked" => queue' = <<>> /\ ~quit
               /\ pc'[w] = "exited" => quit
  BY <1>1 DEF NoMissedNotification, DeleteJoinsAll, Leaving
<1>2. CASE Ready(w)
  <2>1. pc[w] \in {"start", "ready"} /\ UNCHANGED <<quit, scanned>>
    BY <1>2 DEF Ready
  <2> QED BY <1>2, <2>1, ReadyMoves
<1>3. CASE NotifyWaiter(w) /\ UNCHANGED hostVars
  <2>1. pc[w] = "token"
    BY <1>3 DEF NotifyWaiter
  <2> QED BY <1>3, <2>1, NotifyMoves DEF hostVars
<1>4. CASE Sleep(w) \/ Relock(w) \/ Take(w) \/ Exit(w) \/ (RunTask(w) /\ ~NotifyWaiter(w))
  <2>1. pc[w] # "exited" /\ UNCHANGED <<quit, scanned>>
    BY <1>4 DEF Sleep, Relock, Take, Exit, RunTask, Perform, CountDown, DeleteTask, hostVars
  <2>2. PICK label : /\ Goto(w, label)
                     /\ label = "blocked" => queue' = <<>> /\ ~quit
                     /\ label = "exited" => quit
    BY <1>4 DEF Sleep, Relock, Take, Exit, RunTask, Perform, CountDown, DeleteTask, AfterTask,
                Dequeue, Step
  <2> QED BY <2>1, <2>2, WorkerMoves
<1> QED BY <1>2, <1>3, <1>4 DEF Work, RunTask

\* The client goes on; what it adds it notifies, and what it deletes it has joined.
LEMMA ClientWakeups == ASSUME IInv, Wakeups, Call \/ Continue PROVE Wakeups'
<1> USE DEF IInv, HostInv, Wakeups
<1>1. ASSUME NEW label, Goto(Client, label), UNCHANGED <<queue, quit>>,
             pc[Client] \notin {"notify", "quit", "join", "stopped"},
             label \notin {"notify", "quit", "join", "stopped"}
      PROVE  Wakeups'
  BY <1>1, ClientMoves DEF NoMissedNotification, DeleteJoinsAll, Leaving
<1>2. CASE Call
  <2>1. UNCHANGED <<queue, quit, scanned>> /\ pc[Client] = "idle"
    BY <1>2 DEF Call, ObjectCall, GroupCreate, GroupTaskAdd, GroupPerform, GroupDelete, TaskDelete,
           TaskAdd, FunctionAdd, GroupAdd, GroupAddBegins, BeginAdd, Wait, WaitBegins, QueueWait,
           Delete, Step, hostVars
  <2>2. \/ UNCHANGED pc
        \/ \E label \in {"each", "wait", "waitempty", "delete"} : Goto(Client, label)
    BY <1>2 DEF Call, ObjectCall, GroupCreate, GroupTaskAdd, GroupPerform, GroupDelete, TaskDelete,
           TaskAdd, FunctionAdd, GroupAdd, GroupAddBegins, BeginAdd, Wait, WaitBegins, QueueWait,
           Delete, Step
  <2>3. CASE UNCHANGED pc
    BY <2>1, <2>3 DEF NoMissedNotification, DeleteJoinsAll, Leaving
  <2> QED BY <1>1, <2>1, <2>2, <2>3
<1>3. CASE \/ EachTask \/ (AddReturns /\ UNCHANGED hostVars) \/ WaitSleeps \/ WaitReturns
           \/ SeesQueueEmpty \/ QueueWaitReturns
  <2>1. /\ UNCHANGED <<queue, quit>>
        /\ pc[Client] \in {"each", "wait", "waitempty", "waitready"}
    BY <1>3 DEF EachTask, NextTask, AddReturns, WaitSleeps, WaitReturns, WaitEnds, SeesQueueEmpty,
                QueueWaitReturns, Step, hostVars
  <2>2. \E label \in {"send", "idle", "sleep", "waitready"} : Goto(Client, label)
    BY <1>3 DEF EachTask, NextTask, AddReturns, WaitSleeps, WaitReturns, WaitEnds, SeesQueueEmpty,
                QueueWaitReturns, Step
  <2> QED BY <1>1, <2>1, <2>2
<1>4. CASE WaitReady
  <2>1. pc[Client] = "waitready" /\ UNCHANGED <<queue, quit>>
    BY <1>4 DEF WaitReady, Step, baseVars
  <2>2. UNCHANGED pc \/ Goto(Client, "sleepready")
    BY <1>4 DEF WaitReady, Step, baseVars
  <2>3. CASE UNCHANGED pc
    BY <2>1, <2>3 DEF NoMissedNotification, DeleteJoinsAll, Leaving
  <2> QED BY <1>1, <2>1, <2>2, <2>3
<1>5. CASE Push
  <2>1. pc[Client] = "send" /\ Goto(Client, "notify") /\ UNCHANGED quit
    BY <1>5 DEF Push, Enqueue, Goto, hostVars
  <2> QED BY <2>1, ClientMoves DEF NoMissedNotification, DeleteJoinsAll, Leaving
<1>6. CASE NotifyOne
  <2>1. pc[Client] = "notify" /\ UNCHANGED <<quit, scanned>>
    BY <1>6 DEF NotifyOne, hostVars
  <2>2. PICK S \in SUBSET Blocked : /\ Cardinality(S) = (IF Blocked = {} THEN 0 ELSE 1)
                                    /\ Wake(S, "each")
    BY <1>6 DEF NotifyOne
  <2>3. /\ Labelled' /\ pc'[Client] = "each"
        /\ \A w \in Workers : pc'[w] = pc[w] \/ (pc[w] = "blocked" /\ pc'[w] = "woken")
    BY <2>2, WakeMoves
  <2>4. \E w \in Workers : pc'[w] # "blocked"
    <3>1. CASE Blocked = {}
      BY <2>3, <3>1, SizeAssumption DEF Blocked, Workers
    <3>2. CASE Blocked # {}
      <4>1. PICK w \in S : TRUE
        BY <2>2, <3>2, FS_EmptySet
      <4>2. w \in Workers /\ pc'[w] = "woken"
        BY <2>2, NamesAssumption DEF Blocked, Wake, Threads
      <4> QED BY <4>2
    <3> QED BY <3>1, <3>2
  <2>5. ~quit /\ \A w \in Workers : pc'[w] # "exited"
    BY <2>1, <2>3 DEF Leaving
  <2> QED BY <2>1, <2>3, <2>4, <2>5 DEF NoMissedNotification, DeleteJoinsAll, Leaving
<1>7. CASE SetQuit
  <2>1. /\ pc[Client] = "delete" /\ Goto(Client, "quit") /\ quit' = TRUE /\ scanned' = 0
    BY <1>7 DEF SetQuit, Step, ScanBegins
  <2> QED BY <2>1, ClientMoves DEF NoMissedNotification, DeleteJoinsAll, Leaving
<1>8. CASE NotifyAll
  <2>1. pc[Client] = "quit" /\ UNCHANGED <<quit, scanned>> /\ Wake(Blocked, "join")
    BY <1>8 DEF NotifyAll, hostVars
  <2>2. pc'[Client] = "join" /\ \A w \in Workers : pc'[w] # "blocked"
    BY <2>1, NamesAssumption DEF Wake, Blocked, Threads
  <2>3. quit /\ \A w \in Workers : ~(w <= scanned)
    BY <2>1, SizeAssumption DEF Leaving, Workers
  <2> QED BY <2>1, <2>2, <2>3 DEF NoMissedNotification, DeleteJoinsAll, Leaving
<1>9. CASE Join
  <2>1. /\ pc[Client] = "join" /\ pc[scanned + 1] = "exited" /\ scanned' = scanned + 1
        /\ UNCHANGED <<queue, pc, quit>>
    BY <1>9 DEF Join, baseVars
  <2>2. scanned \in Nat /\ Workers \subseteq Nat
    BY SizeAssumption DEF HostTypes, Workers
  <2>3. \A w \in Workers : w <= scanned' => w <= scanned \/ w = scanned + 1
    BY <2>1, <2>2
  <2>4. \A w \in Workers : w <= scanned' => pc[w] = "exited"
    BY <2>1, <2>3 DEF Leaving
  <2> QED BY <2>1, <2>4 DEF NoMissedNotification, DeleteJoinsAll, Leaving
<1>10. CASE FreeMemory
  <2>1. /\ pc[Client] = "join" /\ scanned = ThreadCount /\ Goto(Client, "stopped")
        /\ UNCHANGED <<queue, quit>>
    BY <1>10 DEF FreeMemory, Step, hostVars
  <2>2. \A w \in Workers : pc[w] = "exited"
    BY <2>1, SizeAssumption DEF Leaving, Workers
  <2> QED BY <2>1, <2>2, ClientMoves DEF NoMissedNotification, DeleteJoinsAll, Leaving
<1> QED BY <1>2, <1>3, <1>4, <1>5, <1>6, <1>7, <1>8, <1>9, <1>10 DEF Continue

LEMMA SpuriousInWakeups ==
  ASSUME IInv, Wakeups, NEW e \in Threads, SpuriousWakeup(e) PROVE Wakeups'
<1> USE DEF IInv, HostInv, Wakeups
<1>1. /\ UNCHANGED <<queue, quit, scanned>>
      /\ \/ pc[e] = "blocked" /\ Goto(e, "woken")
         \/ pc[e] = "sleep" /\ Goto(e, "wait")
         \/ pc[e] = "sleepready" /\ Goto(e, "waitready")
  BY DEF SpuriousWakeup, AfterWakeup, Step, hostVars
<1>2. CASE e = Client
  <2>1. \E label \in {"wait", "waitready"} : Goto(Client, label)
    BY <1>1, <1>2 DEF Labels
  <2>2. pc[Client] \in {"sleep", "sleepready"}
    BY <1>1, <1>2 DEF Labels
  <2> QED BY <1>1, <2>1, <2>2, ClientMoves DEF NoMissedNotification, DeleteJoinsAll, Leaving
<1>3. CASE e # Client
  <2>1. e \in Workers /\ pc[e] = "blocked" /\ Goto(e, "woken")
    BY <1>1, <1>3 DEF Labels, Threads
  <2>2. /\ pc'[e] = "woken" /\ pc'[Client] = pc[Client]
        /\ \A v \in Workers : v # e => pc'[v] = pc[v]
    BY <2>1, WorkerMoves
  <2> QED BY <1>1, <2>1, <2>2 DEF NoMissedNotification, DeleteJoinsAll, Leaving
<1> QED BY <1>2, <1>3

LEMMA WakeupsInvariance == Spec => []Wakeups
<1>1. Init => Wakeups
  <2> SUFFICES ASSUME Init PROVE Wakeups
    OBVIOUS
  <2>1. pc[Client] = "idle" /\ queue = <<>> /\ \A w \in Workers : pc[w] = "start"
    BY NamesAssumption DEF Init, ObjectsInit, Threads
  <2>2. quit = FALSE
    BY DEF Init
  <2> QED BY <2>1, <2>2 DEF Wakeups, NoMissedNotification, DeleteJoinsAll, Leaving
<1>2. IInv /\ Wakeups /\ [Next]_vars => Wakeups'
  <2>1. ASSUME Wakeups, UNCHANGED vars PROVE Wakeups'
    BY <2>1 DEF Wakeups, vars, baseVars, hostVars, NoMissedNotification, DeleteJoinsAll, Leaving
  <2> QED BY <2>1, WorkWakeups, ClientWakeups, SpuriousInWakeups DEF Next
<1> QED BY <1>1, <1>2, Invariance, PTL DEF Spec

\* cv.notify_one after the lock was released misses nobody: with tasks in the deque, a
\* worker is awake or about to be woken.
THEOREM HostNoMissedNotification == Spec => []NoMissedNotification
<1>1. Wakeups => NoMissedNotification
  BY DEF Wakeups
<1> QED BY <1>1, WakeupsInvariance, PTL

\* dispatch_queue_delete never joins a worker that sleeps on the condition variable, and
\* deletes semaphores and queue only when every worker has returned.
THEOREM HostDeleteJoinsAll == Spec => []DeleteJoinsAll
<1>1. Wakeups => DeleteJoinsAll
  BY DEF Wakeups
<1> QED BY <1>1, WakeupsInvariance, PTL
=============================================================================
