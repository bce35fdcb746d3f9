-------------------------- MODULE DispatchObjects --------------------------
(***************************************************************************)
(* What the three implementations of dispatch_queue.h have in common: the  *)
(* task and group objects of dispatch_task.c and dispatch_group.c, the     *)
(* steps of a worker and of a client that differ only in what surrounds    *)
(* them, and the properties that are asked of all three.                   *)
(*                                                                         *)
(* DispatchMetal, DispatchRtos and DispatchHost extend this module.  They  *)
(* add the variables of their build and say that these are unchanged by    *)
(* the actions taken from here.                                            *)
(*                                                                         *)
(* One client thread calls the functions of the headers in any order their *)
(* contract allows: it creates an object, adds it or performs it itself,   *)
(* once, waits once for what it has added as waitable, waits for the queue *)
(* whenever it likes, and deletes the queue when nothing is left to be     *)
(* waited for.  "Groups are containers for one or more tasks" (README.rst  *)
(* line 69): only groups with a task are added or performed.               *)
(***************************************************************************)
EXTENDS Integers, Sequences, FiniteSets

CONSTANTS Tasks,        \* dispatch_task_t objects, numbered as they are created
          Groups,       \* dispatch_group_t objects
          ThreadCount,  \* dispatch_queue_create(length, thread_count, ...)
          Length,       \*
          GroupLength,  \* dispatch_group_create(length, ...)
          UseCallersThread,  \* is use_callers_thread defined? (only bare metal heeds it)
          Client,       \* the thread that uses the dispatch queue
          None          \* a null pointer

Workers == 1..ThreadCount
Threads == Workers \cup {Client}

\* What can be added and waited for.  An event counter has the name of the task
\* or group it was created for.
Objects == Tasks \cup Groups

ASSUME SizeAssumption ==
  /\ ThreadCount \in Nat \ {0}
  /\ Length \in Nat \ {0}
  /\ GroupLength \in Nat \ {0}

ASSUME ModeAssumption == UseCallersThread \in BOOLEAN

ASSUME NamesAssumption ==
  /\ Tasks \subseteq Nat
  /\ Tasks \cap Groups = {}
  /\ Client \notin Workers
  /\ None \notin Objects \cup Threads

VARIABLES
  queue,         \* the tasks queued, oldest first
  pc, job,       \* what a thread does next, and the task it runs or sends
  life,          \* life[o]: is the memory of object o "none", "alive" or "freed"?
  waitable,      \* task->waitable, group->waitable
  private_data,  \* task->private_data: the task's event counter, or None
  members,       \* members[g]: the tasks of group g, in order
  counter,       \* counter[o]: the event counter created for o
  added,         \* what the client has added
  pending,       \* what it has added and must still wait for
  call, todo,    \* the object of the call it is in, and the tasks still to send
  performed      \* performed[t]: how often t's function has been called

objectVars == <<life, waitable, private_data, members, counter>>
callVars == <<added, pending, call, todo>>
baseVars == <<queue, pc, job, objectVars, callVars, performed>>

Goto(e, label) == pc' = [pc EXCEPT ![e] = label]

\* Thread e moves on and touches no object.
Step(e, label) == Goto(e, label) /\ UNCHANGED <<queue, job, objectVars, callVars, performed>>

TasksOf(o) == IF o \in Tasks THEN {o} ELSE {members[o][i] : i \in DOMAIN members[o]}

\* The tasks that have been handed to the dispatch queue.
Handed == UNION {TasksOf(o) : o \in added}

\* No object exists and the client makes no call.  Workers begin at label.
ObjectsInit(label) ==
  /\ queue = <<>>
  /\ pc = [e \in Threads |-> IF e = Client THEN "idle" ELSE label]
  /\ job = [e \in Threads |-> None]
  /\ life = [o \in Objects |-> "none"]
  /\ waitable = [o \in Objects |-> FALSE]
  /\ private_data = [t \in Tasks |-> None]
  /\ members = [g \in Groups |-> <<>>]
  /\ counter = [o \in Objects |-> [life |-> "none", count |-> 0, token |-> FALSE]]
  /\ added = {}
  /\ pending = {}
  /\ call = None
  /\ todo = <<>>
  /\ performed = [t \in Tasks |-> 0]

-----------------------------------------------------------------------------
(***************************************************************************)
(* dispatch_task.c and dispatch_group.c, called by the client.             *)
(***************************************************************************)
\* A task that does not exist yet: dispatch_task_create returns a new object, and which
\* of the unused numbers it is given is of no importance.
Fresh(t) == life[t] = "none" /\ \A u \in Tasks : u < t => life[u] # "none"

\* malloc and dispatch_task_init or dispatch_group_init; private_data and count are
\* cleared, as they are in the initial state.
Created(o) == [life EXCEPT ![o] = "alive"]

\* dispatch_task_delete, of the tasks S.
TasksDeleted(S) == [o \in Objects |-> IF o \in S THEN "freed" ELSE life[o]]

GroupCreate(g, w) ==
  /\ pc[Client] = "idle"
  /\ life[g] = "none"
  /\ life' = Created(g)
  /\ waitable' = [waitable EXCEPT ![g] = w]
  /\ UNCHANGED <<queue, pc, job, private_data, members, counter, callVars, performed>>

\* Has the client neither added nor performed group g?
Unused(g) == g \notin added /\ \A t \in TasksOf(g) : performed[t] = 0

\* dispatch_group_function_add, or dispatch_task_create and dispatch_group_task_add:
\* whatever the task was created with, it takes over the group's waitable flag.
GroupTaskAdd(g, t) ==
  /\ pc[Client] = "idle"
  /\ life[g] = "alive"
  /\ Unused(g)
  /\ Fresh(t)
  /\ Len(members[g]) < GroupLength
  /\ life' = Created(t)
  /\ waitable' = [waitable EXCEPT ![t] = waitable[g]]
  /\ members' = [members EXCEPT ![g] = Append(@, t)]
  /\ UNCHANGED <<queue, pc, job, private_data, counter, callVars, performed>>

\* dispatch_group_perform runs the tasks in the caller's thread; no other thread
\* knows of them.
GroupPerform(g) ==
  /\ pc[Client] = "idle"
  /\ life[g] = "alive"
  /\ Unused(g)
  /\ members[g] # <<>>
  /\ performed' = [t \in Tasks |-> performed[t] + (IF t \in TasksOf(g) THEN 1 ELSE 0)]
  /\ UNCHANGED <<queue, pc, job, objectVars, callVars>>

\* dispatch_task_delete, by the client that has performed the task's group.
TaskDelete(t) ==
  /\ pc[Client] = "idle"
  /\ life[t] = "alive"
  /\ t \notin Handed
  /\ performed[t] > 0
  /\ life' = TasksDeleted({t})
  /\ UNCHANGED <<queue, pc, job, waitable, private_data, members, counter, callVars, performed>>

\* dispatch_group_delete frees the group and leaves its tasks alone, which may still
\* be in the queue when the group is not waitable.
GroupDelete(g) ==
  /\ pc[Client] = "idle"
  /\ life[g] = "alive"
  /\ g \notin pending
  /\ g \in added \/ \A t \in TasksOf(g) : performed[t] > 0
  /\ life' = [life EXCEPT ![g] = "freed"]
  /\ UNCHANGED <<queue, pc, job, waitable, private_data, members, counter, callVars, performed>>

ObjectCall ==
  \/ \E g \in Groups, w \in BOOLEAN : GroupCreate(g, w)
  \/ \E g \in Groups, t \in Tasks : GroupTaskAdd(g, t)
  \/ \E g \in Groups : GroupPerform(g) \/ GroupDelete(g)
  \/ \E t \in Tasks : TaskDelete(t)

-----------------------------------------------------------------------------
(***************************************************************************)
(* The client adds a task or a group.                                      *)
(***************************************************************************)
\* A mutant of event_counter_create: a group is counted like a task.
CountsOne(n) == [life |-> "alive", count |-> IF n > 0 THEN 1 ELSE 0, token |-> FALSE]

\* token stands for what wakes the waiter: an end token in the counter's channel, or
\* its semaphore.  The host's waiter looks at the count and has no token.
event_counter_create(n) == [life |-> "alive", count |-> n, token |-> FALSE]

\* o is handed over, with the tasks s and, if it is waitable, a counter for them.
BeginAdd(o, s, w) ==
  /\ added' = added \cup {o}
  /\ pending' = IF w THEN pending \cup {o} ELSE pending
  /\ call' = o
  /\ todo' = s
  /\ counter' = IF w THEN [counter EXCEPT ![o] = event_counter_create(Len(s))] ELSE counter
  /\ Goto(Client, "each")
  /\ UNCHANGED <<queue, job, private_data, members, performed>>

\* dispatch_queue_function_add: dispatch_task_create and dispatch_queue_task_add.
FunctionAdd(t, w) ==
  /\ pc[Client] = "idle"
  /\ Fresh(t)
  /\ life' = Created(t)
  /\ waitable' = [waitable EXCEPT ![t] = w]
  /\ BeginAdd(t, <<t>>, w)

GroupAddBegins(g) ==
  /\ pc[Client] = "idle"
  /\ life[g] = "alive"
  /\ Unused(g)
  /\ members[g] # <<>>
  /\ BeginAdd(g, members[g], waitable[g])
  /\ UNCHANGED <<life, waitable>>

\* The next task is given the counter; the client goes on to label with it.
NextTask(label) ==
  /\ pc[Client] = "each"
  /\ todo # <<>>
  /\ private_data' = [private_data EXCEPT
                        ![Head(todo)] = IF waitable[call] THEN call ELSE None]
  /\ job' = [job EXCEPT ![Client] = Head(todo)]
  /\ todo' = Tail(todo)
  /\ Goto(Client, label)
  /\ UNCHANGED <<queue, life, waitable, members, counter, added, pending, call, performed>>

\* The last task has been sent and the call returns.
AddReturns ==
  /\ pc[Client] = "each"
  /\ todo = <<>>
  /\ call' = None
  /\ job' = [job EXCEPT ![Client] = None]
  /\ Goto(Client, "idle")
  /\ UNCHANGED <<queue, objectVars, added, pending, todo, performed>>

\* A mutant of Enqueue: the task overtakes the ones that are queued.
EnqueueFirst(labels) ==
  /\ queue' = <<job[Client]>> \o queue
  /\ pc' = labels
  /\ UNCHANGED <<job, objectVars, callVars, performed>>

\* The client's task is queued; the threads go on at labels.
Enqueue(labels) ==
  /\ queue' = Append(queue, job[Client])
  /\ pc' = labels
  /\ UNCHANGED <<job, objectVars, callVars, performed>>

-----------------------------------------------------------------------------
(***************************************************************************)
(* The client waits for a task or a group.                                 *)
(***************************************************************************)
WaitBegins(o) ==
  /\ pc[Client] = "idle"
  /\ o \in pending
  /\ call' = o
  /\ Goto(Client, "wait")
  /\ UNCHANGED <<queue, job, objectVars, added, pending, todo, performed>>

\* The counter the waiter uses: the task's own, or that of the group's first task.
WaitCounter(o) == private_data[IF o \in Tasks THEN o ELSE members[o][1]]

\* A mutant of event_counter_delete: the counter is kept.
CounterKept(k) == [counter EXCEPT ![k].token = FALSE]

event_counter_delete(k) == [counter EXCEPT ![k].token = FALSE, ![k].life = "freed"]

\* The wait is over: the counter and the tasks S are deleted.
WaitEnds(S) ==
  /\ counter' = event_counter_delete(WaitCounter(call))
  /\ life' = TasksDeleted(S)
  /\ pending' = pending \ {call}
  /\ call' = None
  /\ Goto(Client, "idle")
  /\ UNCHANGED <<queue, job, waitable, private_data, members, added, todo, performed>>

-----------------------------------------------------------------------------
(***************************************************************************)
(* A worker takes a task, performs it and disposes of it.                  *)
(***************************************************************************)
Dequeue(w, label) ==
  /\ queue # <<>>
  /\ job' = [job EXCEPT ![w] = Head(queue)]
  /\ queue' = Tail(queue)
  /\ Goto(w, label)
  /\ UNCHANGED <<objectVars, callVars, performed>>

\* Worker w is done with its task, which it never looks at again, and turns back to the
\* queue; the threads go on at labels.
TaskDone(w, labels) ==
  /\ job' = [job EXCEPT ![w] = None]
  /\ pc' = labels
  /\ UNCHANGED <<queue, objectVars, callVars, performed>>

\* dispatch_task_perform: the function runs to its end.
Perform(e) ==
  /\ pc[e] = "perform"
  /\ performed' = [performed EXCEPT ![job[e]] = @ + 1]
  /\ Goto(e, "finish")
  /\ UNCHANGED <<queue, job, objectVars, callVars>>

\* "the contract is that the worker must delete non-waitable tasks"
DeleteTask(e, label) ==
  /\ pc[e] = "finish"
  /\ ~waitable[job[e]]
  /\ life' = TasksDeleted({job[e]})
  /\ Goto(e, label)
  /\ UNCHANGED <<queue, job, waitable, private_data, members, counter, callVars, performed>>

\* event_counter_signal, inside its lock: the count goes down, if it is not zero.
CountDown(e, label) ==
  /\ pc[e] = "finish"
  /\ waitable[job[e]]
  /\ LET k == private_data[job[e]]
     IN counter' = IF counter[k].count > 0 THEN [counter EXCEPT ![k].count = @ - 1] ELSE counter
  /\ Goto(e, label)
  /\ UNCHANGED <<queue, job, life, waitable, private_data, members, callVars, performed>>

\* Mutants of AfterSignal: every task of a group sends the token; the count is
\* tested before it is taken down.
TokenEveryTime(e, label) == IF counter[private_data[job[e]]].count > 0 THEN "token" ELSE label
TokenTooLate(e, label) == IF counter[private_data[job[e]]].count = 0 THEN "token" ELSE label

\* Whoever takes the count down to zero has to wake the waiter, the others go on at label.
AfterSignal(e, label) == IF counter[private_data[job[e]]].count = 1 THEN "token" ELSE label

\* event_counter_signal, after its lock was released: the waiter is woken.
SendToken(e, label) ==
  /\ pc[e] = "token"
  /\ counter' = [counter EXCEPT ![private_data[job[e]]].token = TRUE]
  /\ Goto(e, label)
  /\ UNCHANGED <<queue, job, life, waitable, private_data, members, callVars, performed>>

-----------------------------------------------------------------------------
(***************************************************************************)
(* Properties.                                                             *)
(***************************************************************************)
ObjectsTypeOK ==
  /\ queue \in Seq(Tasks)
  /\ job \in [Threads -> Tasks \cup {None}]
  /\ life \in [Objects -> {"none", "alive", "freed"}]
  /\ waitable \in [Objects -> BOOLEAN]
  /\ private_data \in [Tasks -> Objects \cup {None}]
  /\ members \in [Groups -> Seq(Tasks)]
  /\ counter \in [Objects -> [life : {"none", "alive", "freed"}, count : Nat, token : BOOLEAN]]
  /\ added \subseteq Objects
  /\ pending \subseteq added
  /\ call \in Objects \cup {None}
  /\ todo \in Seq(Tasks)
  /\ performed \in [Tasks -> Nat]

Positions(s, t) == {i \in DOMAIN s : s[i] = t}

\* Thread e has task t and has not performed it yet.
Has(e, t) == pc[e] \in {"mark", "perform", "scan", "send"} /\ job[e] = t

\* A task that was handed to the dispatch queue (dispatch_queue_task_add,
\* dispatch_queue_group_add) is performed once: it is still to be sent, in the queue,
\* with one thread, or it has been performed, and only one of these.
PerformedOnce ==
  \A t \in Handed :
    Cardinality(Positions(todo, t)) + Cardinality(Positions(queue, t))
      + Cardinality({e \in Threads : Has(e, t)}) + performed[t] = 1

\* The worker reads task->waitable and task->private_data after the function has
\* returned: the client, who may already be waiting, has not freed the task by then,
\* and no freed task is queued.
NoTaskUseAfterFree ==
  /\ \A e \in Threads :
       pc[e] \in {"mark", "perform", "finish", "send"} => life[job[e]] = "alive"
  /\ \A i \in DOMAIN queue : life[queue[i]] = "alive"

\* The worker signals the event counter while the client, who frees it as soon as
\* its wait returns, has not done so yet.
NoCounterUseAfterFree ==
  \A e \in Threads :
    pc[e] = "token" \/ (pc[e] = "finish" /\ waitable[job[e]])
      => counter[private_data[job[e]]].life = "alive"

\* The client has waited for all it has to wait for and the workers are back at the queue.
AtRest ==
  /\ pc[Client] = "idle"
  /\ pending = {}
  /\ queue = <<>>
  /\ \A w \in Workers : pc[w] \in {"receive", "blocked"}

\* At rest every task that was added and every event counter has been freed (README.rst
\* line 73: the resources "are freed when the caller waits on the object").
NoLeak ==
  AtRest => /\ \A o \in added : counter[o].life # "alive"
            /\ \A t \in Handed : life[t] = "freed"

InCall == pc[Client] \notin {"idle", "stopped"}

\* Every call returns: adding to a full queue, waiting for a task or a group, waiting
\* for the queue, deleting it.  Again and again the client is in no call.
CallsReturn == []<>~InCall

\* Every task that was added is performed, though nobody waits for it, unless the
\* queue is deleted first.  The tasks are finitely many, so that this is the same as
\* saying that there is always a time when all that were added have been performed.
AddedIsPerformed ==
  []<>(pc[Client] = "stopped" \/ \A t \in Handed : performed[t] = 1)

Abstract == INSTANCE DispatchSpec WITH
  CallersRun <- UseCallersThread,
  order <- queue,
  running <- {job[e] : e \in {f \in Threads : pc[f] \in {"mark", "perform"}}},
  done <- {t \in Handed : performed[t] > 0},
  waited <- UNION {TasksOf(o) : o \in {p \in added \ pending : waitable[p]}},
  freed <- {t \in Handed : life[t] = "freed"}

\* The implementation keeps the promises of the API: workers take the tasks in FIFO
\* order and each is taken once, only with use_callers_thread by the caller, past the
\* queue; none is freed or waited for before it has been performed.
ImplementsDispatch == Abstract!Spec
=============================================================================
