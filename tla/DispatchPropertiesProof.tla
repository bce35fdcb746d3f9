---------------------- MODULE DispatchPropertiesProof ----------------------
(***************************************************************************)
(* What follows from the invariant of DispatchObjectsProof for all three   *)
(* implementations of dispatch_queue.h: each task is performed once and is *)
(* not used after it was freed, nothing is leaked, an event counter is     *)
(* woken once, and every step of the shared variables is a step of         *)
(* DispatchSpec or invisible to it.                                        *)
(***************************************************************************)
EXTENDS DispatchObjectsProof

\* A wait frees the tasks of what was waited for, in the builds and for the objects D
\* where it does.
WaitedFreed(D) ==
  \A o \in added \cap D : waitable[o] /\ o \notin pending => \A t \in TasksOf(o) : life[t] = "freed"

\* In the builds that wake the waiter by a token (a channel, a semaphore) it is sent
\* once, by a thread that has found the count at zero and whose task is performed.
Sending ==
  \A e \in Threads : pc[e] = "token" =>
    /\ job[e] \in Tasks
    /\ performed[job[e]] # 0
    /\ private_data[job[e]] \in pending
    /\ counter[private_data[job[e]]].count = 0
    /\ ~counter[private_data[job[e]]].token
    /\ \A f \in Threads : pc[f] = "token" /\ private_data[job[f]] = private_data[job[e]] => f = e

Sent == \A o \in Objects : counter[o].token => o \in pending /\ counter[o].count = 0

TokenOnce == Sending /\ Sent

-----------------------------------------------------------------------------
\* A set with at most one element.
LEMMA AtMostOne ==
  ASSUME NEW P, \A x, y \in P : x = y
  PROVE  Cardinality(P) = IF P = {} THEN 0 ELSE 1
<1>1. CASE P = {}
  BY <1>1, FS_EmptySet
<1>2. CASE P # {}
  <2>1. PICK x : P = {x}
    BY <1>2
  <2> QED BY <1>2, <2>1, FS_Singleton
<1> QED BY <1>1, <1>2

\* A handed-over task is at one place: to be sent, queued, with one thread or performed.
LEMMA InvPerformedOnce == ASSUME Inv PROVE PerformedOnce
<1> SUFFICES ASSUME NEW t \in Handed
             PROVE  Cardinality(Positions(todo, t)) + Cardinality(Positions(queue, t))
                      + Cardinality({e \in Threads : Has(e, t)}) + performed[t] = 1
  BY DEF PerformedOnce
<1> USE DEF Inv
<1>1. t \in Tasks
  BY TasksOfType
<1>2. Cardinality(Positions(todo, t)) = IF Among(t, todo) THEN 1 ELSE 0
  <2>1. \A i, j \in Positions(todo, t) : i = j
    BY DEF ToSend, Distinct, Positions
  <2>2. Among(t, todo) <=> Positions(todo, t) # {}
    BY DEF Among, Positions
  <2> QED BY <2>1, <2>2, AtMostOne
<1>3. Cardinality(Positions(queue, t)) = IF Among(t, queue) THEN 1 ELSE 0
  <2>1. \A i, j \in Positions(queue, t) : i = j
    BY DEF Queued, Distinct, Positions
  <2>2. Among(t, queue) <=> Positions(queue, t) # {}
    BY DEF Among, Positions
  <2> QED BY <2>1, <2>2, AtMostOne
<1> DEFINE Holders == {e \in Threads : Has(e, t)}
<1>4. Cardinality(Holders) = IF \E e \in Threads : Has(e, t) THEN 1 ELSE 0
  <2>1. \A e, f \in Holders : e = f
    BY <1>1 DEF Owned, Owns
  <2>2. (\E e \in Threads : Has(e, t)) <=> Holders # {}
    OBVIOUS
  <2> HIDE DEF Holders
  <2> QED BY <2>1, <2>2, AtMostOne
<1>5. /\ performed[t] \in {0, 1}
      /\ performed[t] = 0 => Among(t, todo) \/ Among(t, queue) \/ \E e \in Threads : Has(e, t)
  BY DEF NotLost
<1>6. /\ Among(t, todo) => performed[t] = 0 /\ ~Among(t, queue) /\ ~\E e \in Threads : Has(e, t)
      /\ Among(t, queue) => performed[t] = 0 /\ ~\E e \in Threads : Has(e, t)
      /\ (\E e \in Threads : Has(e, t)) => performed[t] = 0
  BY <1>1 DEF ToSend, Queued, Owned, Owns
<1> QED BY <1>2, <1>3, <1>4, <1>5, <1>6

LEMMA InvNoTaskUseAfterFree == ASSUME Inv PROVE NoTaskUseAfterFree
<1> USE DEF Inv
<1>1. ASSUME NEW e \in Threads, pc[e] \in {"mark", "perform", "finish", "send"}
      PROVE  life[job[e]] = "alive"
  <2>1. job[e] \in Tasks /\ Owns(e, job[e])
    BY <1>1 DEF HasJob, Holding, Owns, Has, Finishing
  <2> QED BY <2>1, InHands
<1>2. ASSUME NEW i \in DOMAIN queue PROVE life[queue[i]] = "alive"
  <2>1. queue[i] \in Tasks /\ Among(queue[i], queue)
    BY DEF ObjectsTypeOK, Among
  <2>2. queue[i] \in Handed /\ performed[queue[i]] = 0
    BY <2>1 DEF Queued
  <2>3. life[queue[i]] # "none"
    BY <2>2, TasksOfType, AddedOnce
  <2>4. life[queue[i]] # "freed"
    BY <2>1, <2>2 DEF Allocated
  <2> QED BY <2>1, <2>3, <2>4 DEF ObjectsTypeOK, Objects
<1> QED BY <1>1, <1>2 DEF NoTaskUseAfterFree

LEMMA InvNoCounterUseAfterFree == ASSUME Inv, TokenOnce PROVE NoCounterUseAfterFree
<1> SUFFICES ASSUME NEW e \in Threads, pc[e] = "token" \/ (pc[e] = "finish" /\ waitable[job[e]])
             PROVE  counter[private_data[job[e]]].life = "alive"
  BY DEF NoCounterUseAfterFree
<1>1. CASE pc[e] = "token"
  BY <1>1 DEF TokenOnce, Sending, Inv, Counted, ObjectsTypeOK
<1>2. CASE pc[e] = "finish" /\ waitable[job[e]]
  BY <1>2, SignalsPending
<1> QED BY <1>1, <1>2

\* At rest no counter is left, and no task but those of waitable objects outside D.
LEMMA RestFreed ==
  ASSUME Inv, NEW D, WaitedFreed(D), AtRest
  PROVE  /\ \A o \in added : counter[o].life # "alive"
         /\ \A o \in added : \A t \in TasksOf(o) :
              \/ life[t] = "freed"
              \/ o \notin D /\ private_data[t] = o
<1> USE DEF Inv
<1>1. \A o \in added : counter[o].life # "alive"
  BY DEF AtRest, Counted, ObjectsTypeOK
<1>2. ASSUME NEW o \in added, NEW t \in TasksOf(o), waitable[o]
      PROVE  life[t] = "freed" \/ (o \notin D /\ private_data[t] = o)
  <2>1. todo = <<>>
    BY DEF AtRest, InItsCall, Adding
  <2>2. private_data[t] = o
    BY <1>2, <2>1 DEF Given, Among
  <2> QED BY <1>2, <2>2 DEF AtRest, WaitedFreed
<1>3. ASSUME NEW o \in added, NEW t \in TasksOf(o), ~waitable[o]
      PROVE  life[t] = "freed"
  <2>1. t \in Handed /\ t \in Tasks
    BY AddedOnce
  <2>2. \A e \in Threads : pc[e] \notin Holding \cup {"finish"}
    BY DEF AtRest, Threads, Holding
  <2>3. \A e \in Threads : ~Has(e, t) /\ ~Finishing(e, t)
    BY <2>2 DEF Has, Finishing, Holding
  <2>4. ~Among(t, todo) /\ ~Among(t, queue)
    BY DEF AtRest, InItsCall, Adding, Among
  <2>5. performed[t] # 0
    BY <2>1, <2>3, <2>4 DEF NotLost
  <2> QED BY <1>3, <2>3, <2>5 DEF Disposed
<1> QED BY <1>1, <1>2, <1>3

LEMMA InvNoLeak == ASSUME Inv, WaitedFreed(Objects) PROVE NoLeak
<1> SUFFICES ASSUME AtRest
             PROVE  /\ \A o \in added : counter[o].life # "alive"
                    /\ \A t \in Handed : life[t] = "freed"
  BY DEF NoLeak
<1>1. added \subseteq Objects /\ \A t \in Handed : \E o \in added : t \in TasksOf(o)
  BY TasksOfType DEF Inv, ObjectsTypeOK
<1> QED BY <1>1, RestFreed

-----------------------------------------------------------------------------
(***************************************************************************)
(* What a step does to the objects that were added.                        *)
(***************************************************************************)
\* What was added stays added and keeps its tasks, what is waitable is waited for, and
\* only the end of a wait takes it from what is still pending.
ObjectsKept ==
  /\ added \subseteq added'
  /\ \A o \in added : TasksOf(o)' = TasksOf(o) /\ waitable'[o] = waitable[o]
  /\ \A o \in added' \ added : waitable'[o] => o \in pending'
  /\ \A t \in Handed : life[t] = "freed" => life'[t] = "freed"
  /\ pending \subseteq pending' \cup {call}

LEMMA UndisturbedKeeps == ASSUME Undisturbed PROVE ObjectsKept
BY DEF Undisturbed, ObjectsKept

LEMMA SharedStepKeeps == ASSUME Inv, SharedStep PROVE ObjectsKept
<1> USE DEF Inv
<1>1. /\ added \subseteq Objects /\ pending \subseteq added
      /\ Handed \subseteq Objects /\ \A o \in Objects : life[o] \in {"none", "alive", "freed"}
  BY TasksOfType DEF ObjectsTypeOK, Objects
<1>2. CASE \/ Move
           \/ ObjectCall
           \/ \E o \in Objects : WaitBegins(o)
           \/ AddReturns
           \/ \E e \in Threads : \E label : After(e, label) /\ SendToken(e, label)
  BY <1>2, MoveInv, ObjectCallInv, WaitBeginsInv, AddReturnsInv, SendTokenInv, UndisturbedKeeps
<1>3. ASSUME UNCHANGED <<members, added, pending, waitable>>,
             \A t \in Handed : life[t] = "freed" => life'[t] = "freed"
      PROVE  ObjectsKept
  BY <1>3 DEF ObjectsKept, TasksOf
<1>4. CASE (\E label \in {"scan", "send"} : NextTask(label)) \/ SendStep
  BY <1>3, <1>4 DEF NextTask, SendStep, Enqueue, objectVars, callVars
<1>5. CASE (\E w \in Workers, label \in Taken : Dequeue(w, label)) \/ \E e \in Threads : Perform(e)
  BY <1>3, <1>5 DEF Dequeue, Perform, objectVars, callVars
<1>6. CASE \E e \in Threads : \E label : CountDown(e, label)
  BY <1>3, <1>6 DEF CountDown, callVars
<1>7. CASE \E e \in Threads : \E label : DeleteTask(e, label)
  BY <1>1, <1>3, <1>7 DEF DeleteTask, TasksDeleted, callVars
<1>8. CASE pc[Client] = "wait" /\ \E S \in SUBSET TasksOf(call) : WaitEnds(S)
  <2>1. PICK S \in SUBSET TasksOf(call) : WaitEnds(S)
    BY <1>8
  <2>2. \A t \in Handed : life[t] = "freed" => life'[t] = "freed"
    BY <1>1, <2>1 DEF WaitEnds, TasksDeleted
  <2> QED BY <2>1, <2>2 DEF WaitEnds, ObjectsKept, TasksOf
<1>9. ASSUME NEW t \in Tasks, NEW w \in BOOLEAN, FunctionAdd(t, w) PROVE ObjectsKept
  <2>1. t \in Objects /\ t \notin added /\ t \notin Handed
    BY <1>9, HandedBy DEF FunctionAdd, Fresh, Allocated, Grouped, Objects
  <2>2. waitable'[t] = w /\ \A o \in added : waitable'[o] = waitable[o]
    BY <1>1, <1>9, <2>1 DEF FunctionAdd, ObjectsTypeOK
  <2>3. \A u \in Handed : life'[u] = life[u]
    BY <1>1, <1>9, <2>1 DEF FunctionAdd, Created, ObjectsTypeOK
  <2> QED BY <1>1, <1>9, <2>2, <2>3 DEF FunctionAdd, BeginAdd, ObjectsKept, TasksOf
<1>10. ASSUME NEW g \in Groups, GroupAddBegins(g) PROVE ObjectsKept
  BY <1>1, <1>10 DEF GroupAddBegins, BeginAdd, ObjectsKept, TasksOf
<1> QED BY <1>2, <1>4, <1>5, <1>6, <1>7, <1>8, <1>9, <1>10 DEF SharedStep

LEMMA WaitedFreedStep ==
  ASSUME Inv, SharedStep, NEW D, WaitedFreed(D),
         call \in (pending \ pending') \cap D => \A t \in TasksOf(call) : life'[t] = "freed"
  PROVE  WaitedFreed(D)'
<1>1. ObjectsKept
  BY SharedStepKeeps
<1>2. \A o \in added : \A t \in TasksOf(o) : t \in Handed
  BY TasksOfType DEF Inv
<1>3. ASSUME NEW o \in added' \cap D, waitable'[o], o \notin pending', NEW t \in TasksOf(o)'
      PROVE  life'[t] = "freed"
  <2>1. o \in added /\ waitable[o] /\ t \in TasksOf(o)
    BY <1>1, <1>3 DEF ObjectsKept
  <2>2. CASE o \in pending
    BY <1>1, <1>3, <2>1, <2>2 DEF ObjectsKept
  <2>3. CASE o \notin pending
    BY <1>1, <1>2, <1>3, <2>1, <2>3 DEF ObjectsKept, WaitedFreed
  <2> QED BY <2>2, <2>3
<1> QED BY <1>3 DEF WaitedFreed

-----------------------------------------------------------------------------
(***************************************************************************)
(* The builds in which a token wakes the waiter: the bare-metal and the    *)
(* FreeRTOS build.  A thread is at "token" only when it has taken the      *)
(* count to zero, and a wait ends only when the token has come.            *)
(***************************************************************************)
TokenStep ==
  \/ Move /\ \A e \in Threads : pc'[e] = "token" => pc[e] = "token"
  \/ ObjectCall
  \/ \E t \in Tasks, w \in BOOLEAN : FunctionAdd(t, w)
  \/ \E g \in Groups : GroupAddBegins(g)
  \/ \E label \in {"scan", "send"} : NextTask(label)
  \/ AddReturns
  \/ SendStep
  \/ \E o \in Objects : WaitBegins(o)
  \/ /\ pc[Client] = "wait"
     /\ counter[WaitCounter(call)].token
     /\ WaitEnds(TasksOf(call))
  \/ \E w \in Workers : pc[w] = "receive" /\ Dequeue(w, "mark")
  \/ \E e \in Threads : Perform(e)
  \/ \E e \in Threads : \E label :
       /\ After(e, label)
       /\ label # "token"
       /\ DeleteTask(e, label) \/ CountDown(e, AfterSignal(e, label)) \/ SendToken(e, label)

\* Waiting for the token is waiting for the count to be zero.
LEMMA TokenStepShared == ASSUME Inv, TokenOnce, TokenStep PROVE SharedStep
<1>1. ASSUME pc[Client] = "wait", counter[WaitCounter(call)].token, WaitEnds(TasksOf(call))
      PROVE  SharedStep
  <2>1. counter[WaitCounter(call)].count = 0
    BY <1>1, WaitsForItsOwn DEF TokenOnce, Sent, Waiting
  <2> QED BY <1>1, <2>1 DEF SharedStep
<1>2. ASSUME NEW e \in Threads, NEW label, After(e, label),
             DeleteTask(e, label) \/ CountDown(e, AfterSignal(e, label)) \/ SendToken(e, label)
      PROVE  SharedStep
  <2>1. After(e, AfterSignal(e, label))
    BY <1>2 DEF After, AfterSignal, Holding, Adding
  <2> QED BY <1>2, <2>1 DEF SharedStep
<1>3. ASSUME NEW w \in Workers, pc[w] = "receive", Dequeue(w, "mark") PROVE SharedStep
  BY <1>3 DEF SharedStep, Holding, Taken
<1> QED BY <1>1, <1>2, <1>3 DEF TokenStep, SharedStep

\* Tokens stay what they are when nobody sends or takes one and no count changes.
LEMMA TokensKept ==
  ASSUME Inv, TokenOnce, pending \subseteq pending',
         \A o \in Objects : counter'[o] = counter[o],
         \A e \in Threads : pc'[e] = "token" => pc[e] = "token" /\ job'[e] = job[e],
         \A t \in Tasks : performed[t] # 0 => performed'[t] # 0 /\ private_data'[t] = private_data[t]
  PROVE  TokenOnce'
<1>1. pending \subseteq Objects
  BY DEF Inv, ObjectsTypeOK
<1>2. Sending'
  BY <1>1 DEF TokenOnce, Sending
<1>3. Sent'
  BY DEF TokenOnce, Sent
<1> QED BY <1>2, <1>3 DEF TokenOnce

LEMMA TokenStepOnce == ASSUME Inv, TokenOnce, TokenStep PROVE TokenOnce'
<1> USE DEF Inv
<1>1. Client \in Threads /\ pending \subseteq Objects /\ performed \in [Tasks -> Nat]
  BY DEF Threads, ObjectsTypeOK
<1>2. CASE Move /\ \A e \in Threads : pc'[e] = "token" => pc[e] = "token"
  <2>1. \A e \in Threads : pc'[e] = "token" => job'[e] = job[e]
    BY <1>2 DEF Move, JobsKept
  <2> QED BY <1>2, <2>1, TokensKept DEF Move, objectVars, callVars
<1>3. CASE ObjectCall
  <2>1. UNCHANGED <<pc, job, pending, private_data, counter>>
    BY <1>3 DEF ObjectCall, GroupCreate, GroupTaskAdd, GroupPerform, GroupDelete, TaskDelete,
                callVars, objectVars
  <2>2. \A t \in Tasks : performed[t] # 0 => performed'[t] # 0
    <3>1. UNCHANGED performed \/ \E g \in Groups : GroupPerform(g)
      BY <1>3 DEF ObjectCall, GroupCreate, GroupTaskAdd, GroupDelete, TaskDelete
    <3>2. ASSUME NEW g \in Groups, GroupPerform(g), NEW t \in Tasks, performed[t] # 0
          PROVE  performed'[t] # 0
      <4>1. performed[t] \in Nat
        BY <1>1
      <4>2. performed'[t] = performed[t] \/ performed'[t] = performed[t] + 1
        BY <3>2, <4>1 DEF GroupPerform
      <4> QED BY <3>2, <4>1, <4>2
    <3> QED BY <3>1, <3>2
  <2> QED BY <2>1, <2>2, TokensKept
<1>4. CASE (\E o \in Objects : WaitBegins(o)) \/ AddReturns \/ SendStep
  <2>1. UNCHANGED <<pending, private_data, counter, performed>>
    BY <1>4 DEF WaitBegins, AddReturns, SendStep, Enqueue, callVars, objectVars
  <2>2. \A e \in Threads : pc'[e] = "token" => pc[e] = "token" /\ job'[e] = job[e]
    <3>1. CASE (\E o \in Objects : WaitBegins(o)) \/ AddReturns
      BY <1>1, <3>1 DEF WaitBegins, AddReturns, Goto, Labelled, ObjectsTypeOK
    <3>2. CASE SendStep
      BY <3>2 DEF SendStep, Enqueue, Threads
    <3> QED BY <1>4, <3>1, <3>2
  <2> QED BY <2>1, <2>2, TokensKept
<1>5. CASE \E w \in Workers : pc[w] = "receive" /\ Dequeue(w, "mark")
  <2>1. UNCHANGED <<pending, private_data, counter, performed>>
    BY <1>5 DEF Dequeue, callVars, objectVars
  <2>2. \A e \in Threads : pc'[e] = "token" => pc[e] = "token" /\ job'[e] = job[e]
    BY <1>5 DEF Dequeue, Goto, Labelled, Threads, ObjectsTypeOK
  <2> QED BY <2>1, <2>2, TokensKept
<1>6. ASSUME NEW e \in Threads, Perform(e) PROVE TokenOnce'
  <2>1. UNCHANGED <<pending, private_data, counter, job>>
    BY <1>6 DEF Perform, callVars, objectVars
  <2>2. \A f \in Threads : pc'[f] = "token" => pc[f] = "token"
    BY <1>6 DEF Perform, Goto, Labelled
  <2>3. \A t \in Tasks : performed[t] # 0 => performed'[t] # 0
    BY <1>1, <1>6 DEF Perform
  <2> QED BY <2>1, <2>2, <2>3, TokensKept
<1>7. ASSUME NEW e \in Threads, NEW label, label # "token", DeleteTask(e, label) PROVE TokenOnce'
  <2>1. UNCHANGED <<pending, private_data, counter, job, performed>>
    BY <1>7 DEF DeleteTask, callVars
  <2>2. \A f \in Threads : pc'[f] = "token" => pc[f] = "token"
    BY <1>7 DEF DeleteTask, Goto, Labelled
  <2> QED BY <2>1, <2>2, TokensKept
<1>8. ASSUME NEW label \in {"scan", "send"}, NextTask(label) PROVE TokenOnce'
  <2>1. UNCHANGED <<pending, counter, performed>>
    BY <1>8 DEF NextTask
  <2>2. \A e \in Threads : pc'[e] = "token" => pc[e] = "token" /\ job'[e] = job[e]
    BY <1>1, <1>8 DEF NextTask, Goto, Labelled, ObjectsTypeOK
  <2>3. Head(todo) \in Tasks /\ Among(Head(todo), todo)
    BY <1>8, TailAmong DEF NextTask, ToSend, ObjectsTypeOK
  <2>4. performed[Head(todo)] = 0
    BY <2>3 DEF ToSend
  <2>5. \A t \in Tasks : t # Head(todo) => private_data'[t] = private_data[t]
    BY <1>8 DEF NextTask, ObjectsTypeOK
  <2> QED BY <2>1, <2>2, <2>4, <2>5, TokensKept
<1>9. ASSUME NEW o \in Objects, NEW s, NEW w \in BOOLEAN, BeginAdd(o, s, w), o \notin added
      PROVE  TokenOnce'
  <2>1. UNCHANGED <<job, private_data, performed>> /\ pending \subseteq pending' /\ o \notin pending
    BY <1>9 DEF BeginAdd, ObjectsTypeOK
  <2>2. \A e \in Threads : pc'[e] = "token" => pc[e] = "token"
    BY <1>1, <1>9 DEF BeginAdd, Goto, Labelled
  <2>3. /\ \A p \in Objects : p # o => counter'[p] = counter[p]
        /\ counter'[o] = counter[o] \/ ~counter'[o].token
    BY <1>9 DEF BeginAdd, event_counter_create, ObjectsTypeOK
  <2>4. ~counter[o].token
    BY <2>1 DEF TokenOnce, Sent
  <2>5. Sending'
    BY <1>1, <2>1, <2>2, <2>3 DEF TokenOnce, Sending
  <2>6. Sent'
    BY <2>1, <2>3, <2>4 DEF TokenOnce, Sent
  <2> QED BY <2>5, <2>6 DEF TokenOnce
<1>10. CASE \/ \E t \in Tasks, w \in BOOLEAN : FunctionAdd(t, w)
            \/ \E g \in Groups : GroupAddBegins(g)
  <2>1. ASSUME NEW t \in Tasks, NEW w \in BOOLEAN, FunctionAdd(t, w) PROVE TokenOnce'
    BY <1>9, <2>1 DEF FunctionAdd, Fresh, Allocated, Objects
  <2>2. ASSUME NEW g \in Groups, GroupAddBegins(g) PROVE TokenOnce'
    BY <1>9, <2>2 DEF GroupAddBegins, Unused, Objects, ObjectsTypeOK
  <2> QED BY <1>10, <2>1, <2>2
<1>11. ASSUME NEW e \in Threads, NEW label, label # "token", CountDown(e, AfterSignal(e, label))
       PROVE  TokenOnce'
  <2>1. PICK k : k = private_data[job[e]]
    OBVIOUS
  <2>2. /\ pc[e] = "finish" /\ waitable[job[e]]
        /\ UNCHANGED <<pending, private_data, job, performed>>
    BY <1>11 DEF CountDown, callVars
  <2>3. k \in pending /\ k \in Objects /\ counter[k].count > 0 /\ counter[k].count \in Nat
    BY <1>1, <2>1, <2>2, SignalsPending DEF ObjectsTypeOK
  <2>4. counter' = [counter EXCEPT ![k].count = @ - 1]
    BY <1>11, <2>1, <2>3 DEF CountDown
  <2>5. /\ counter'[k].count = counter[k].count - 1
        /\ counter'[k].token = counter[k].token
        /\ \A p \in Objects : p # k => counter'[p] = counter[p]
    BY <2>3, <2>4 DEF ObjectsTypeOK
  <2>6. /\ \A f \in Threads : f # e => pc'[f] = pc[f]
        /\ pc'[e] = "token" => counter[k].count = 1
    BY <1>11, <2>1 DEF CountDown, AfterSignal, Goto, Labelled
  <2>7. ~counter[k].token /\ \A f \in Threads : pc[f] = "token" => private_data[job[f]] # k
    BY <2>3 DEF TokenOnce, Sending, Sent
  <2>8. job[e] \in Tasks /\ performed[job[e]] # 0
    <3>1. job[e] \in Tasks /\ Finishing(e, job[e])
      BY <2>2 DEF HasJob, Finishing
    <3> QED BY <3>1 DEF Owned
  <2>9. Sending'
    <3>1. ASSUME NEW f \in Threads, pc'[f] = "token", f # e
          PROVE  /\ job[f] \in Tasks /\ performed[job[f]] # 0
                 /\ private_data[job[f]] \in pending /\ private_data[job[f]] # k
                 /\ counter'[private_data[job[f]]].count = 0
                 /\ ~counter'[private_data[job[f]]].token
                 /\ \A i \in Threads : pc[i] = "token" /\ private_data[job[i]] = private_data[job[f]] => i = f
      BY <1>1, <2>5, <2>6, <2>7, <3>1 DEF TokenOnce, Sending
    <3>2. pc'[e] = "token" => counter'[k].count = 0 /\ ~counter'[k].token
      BY <2>3, <2>5, <2>6, <2>7
    <3> QED BY <2>1, <2>2, <2>3, <2>6, <2>8, <3>1, <3>2 DEF Sending
  <2>10. Sent'
    BY <2>2, <2>5, <2>7 DEF TokenOnce, Sent
  <2> QED BY <2>9, <2>10 DEF TokenOnce
<1>12. ASSUME NEW e \in Threads, NEW label, label # "token", SendToken(e, label)
       PROVE  TokenOnce'
  <2>1. PICK k : k = private_data[job[e]]
    OBVIOUS
  <2>2. /\ pc[e] = "token"
        /\ UNCHANGED <<pending, private_data, job, performed>>
        /\ counter' = [counter EXCEPT ![k].token = TRUE]
        /\ \A f \in Threads : pc'[f] = "token" => pc[f] = "token" /\ f # e
    BY <1>12, <2>1 DEF SendToken, callVars, Goto, Labelled
  <2>3. k \in pending /\ k \in Objects /\ counter[k].count = 0
    BY <1>1, <2>1, <2>2 DEF TokenOnce, Sending
  <2>4. /\ counter'[k].count = 0
        /\ \A p \in Objects : p # k => counter'[p] = counter[p]
    BY <2>2, <2>3 DEF ObjectsTypeOK
  <2>5. \A f \in Threads : pc'[f] = "token" => private_data[job[f]] # k
    BY <2>1, <2>2 DEF TokenOnce, Sending
  <2>6. Sending'
    BY <1>1, <2>2, <2>4, <2>5 DEF TokenOnce, Sending
  <2>7. Sent'
    BY <2>2, <2>3, <2>4 DEF TokenOnce, Sent
  <2> QED BY <2>6, <2>7 DEF TokenOnce
<1>13. ASSUME pc[Client] = "wait", counter[WaitCounter(call)].token, WaitEnds(TasksOf(call))
       PROVE  TokenOnce'
  <2>1. PICK k : k = call
    OBVIOUS
  <2>2. WaitCounter(call) = k /\ k \in Objects /\ k \in pending
    BY <1>13, <2>1, WaitsForItsOwn DEF Waiting
  <2>3. /\ UNCHANGED <<private_data, job, performed>>
        /\ pending' = pending \ {k}
        /\ counter' = event_counter_delete(k)
        /\ \A f \in Threads : pc'[f] = "token" => pc[f] = "token"
    BY <1>1, <1>13, <2>1, <2>2 DEF WaitEnds, Goto, Labelled
  <2>4. /\ ~counter'[k].token
        /\ \A p \in Objects : p # k => counter'[p] = counter[p]
    BY <2>2, <2>3 DEF event_counter_delete, ObjectsTypeOK
  <2>5. \A f \in Threads : pc[f] = "token" => private_data[job[f]] # k
    BY <1>13, <2>2 DEF TokenOnce, Sending
  <2>6. Sending'
    BY <1>1, <2>3, <2>4, <2>5 DEF TokenOnce, Sending
  <2>7. Sent'
    BY <2>3, <2>4 DEF TokenOnce, Sent
  <2> QED BY <2>6, <2>7 DEF TokenOnce
<1> QED BY <1>2, <1>3, <1>4, <1>5, <1>6, <1>7, <1>8, <1>10, <1>11, <1>12, <1>13 DEF TokenStep

\* A wait of these builds frees all tasks of what was waited for.
LEMMA TokenStepWaitedFreed ==
  ASSUME Inv, TokenOnce, TokenStep, WaitedFreed(Objects) PROVE WaitedFreed(Objects)'
<1>1. SharedStep
  BY TokenStepShared
<1>2. ASSUME call \in pending \ pending', NEW t \in TasksOf(call)
      PROVE  life'[t] = "freed"
  <2>1. t \in Objects
    BY <1>2, TasksOfType DEF Inv, ObjectsTypeOK, Objects
  <2>2. CASE \/ ObjectCall
             \/ \E u \in Tasks, w \in BOOLEAN : FunctionAdd(u, w)
             \/ \E g \in Groups : GroupAddBegins(g)
    BY <1>2, <2>2 DEF ObjectCall, GroupCreate, GroupTaskAdd, GroupPerform, GroupDelete, TaskDelete,
                      FunctionAdd, GroupAddBegins, BeginAdd, callVars
  <2>3. CASE \/ \E label \in {"scan", "send"} : NextTask(label)
             \/ Move \/ AddReturns \/ SendStep
             \/ \E o \in Objects : WaitBegins(o)
    BY <1>2, <2>3 DEF Move, NextTask, AddReturns, SendStep, Enqueue, WaitBegins, callVars
  <2>4. CASE \/ \E w \in Workers : Dequeue(w, "mark")
             \/ \E e \in Threads : Perform(e)
             \/ \E e \in Threads : \E label :
                  DeleteTask(e, label) \/ CountDown(e, label) \/ SendToken(e, label)
    BY <1>2, <2>4 DEF Dequeue, Perform, DeleteTask, CountDown, SendToken, callVars
  <2>5. CASE WaitEnds(TasksOf(call))
    BY <1>2, <2>1, <2>5 DEF WaitEnds, TasksDeleted
  <2> QED BY <2>2, <2>3, <2>4, <2>5 DEF TokenStep
<1> QED BY <1>1, <1>2, WaitedFreedStep

LEMMA ObjectsInitTokens ==
  ASSUME NEW label, label # "token", ObjectsInit(label)
  PROVE  TokenOnce /\ \A D : WaitedFreed(D)
<1>1. \A e \in Threads : pc[e] # "token"
  BY DEF ObjectsInit
<1>2. \A o \in Objects : ~counter[o].token
  BY DEF ObjectsInit
<1> QED BY <1>1, <1>2 DEF ObjectsInit, TokenOnce, Sending, Sent, WaitedFreed

-----------------------------------------------------------------------------
(***************************************************************************)
(* The refinement of DispatchSpec.                                         *)
(***************************************************************************)
\* The tasks the threads have taken, the performed, the waited for and the freed ones:
\* what Abstract shows of the state, besides the queue.
Running == {job[e] : e \in {f \in Threads : pc[f] \in {"mark", "perform"}}}
Done == {t \in Handed : performed[t] > 0}
Waited == UNION {TasksOf(o) : o \in {p \in added \ pending : waitable[p]}}
Freed == {t \in Handed : life[t] = "freed"}

abstractVars == <<queue, Running, Done, Waited, Freed>>

\* The threads go on with the tasks they have.
LEMMA RunningStays ==
  ASSUME \A e \in Threads : /\ pc'[e] \in Taken <=> pc[e] \in Taken
                            /\ pc[e] \in Taken => job'[e] = job[e]
  PROVE  Running' = Running
BY DEF Running, Taken

LEMMA MoveRunning == ASSUME Move, ~PitchesIn PROVE Running' = Running
<1>1. \A e \in Threads : pc'[e] \in Taken <=> pc[e] \in Taken
  BY DEF Move, Relabelled, Threads
<1>2. \A e \in Threads : pc'[e] \in Taken => job'[e] = job[e]
  BY DEF Move, JobsKept, Holding, Taken
<1> QED BY <1>1, <1>2, RunningStays

LEMMA WaitedIs ==
  ASSUME NEW t
  PROVE  t \in Waited <=> \E o \in added : o \notin pending /\ waitable[o] /\ t \in TasksOf(o)
BY DEF Waited

\* A step that does nothing to the objects of the queue is not seen.
LEMMA Unseen ==
  ASSUME UNCHANGED <<added, pending>>,
         \A o \in added : TasksOf(o)' = TasksOf(o) /\ waitable'[o] = waitable[o],
         \A t \in Handed : performed'[t] = performed[t]
  PROVE  /\ Handed' = Handed
         /\ Done' = Done
         /\ Waited' = Waited
         /\ (\A t \in Handed : life'[t] = life[t]) => Freed' = Freed
<1>1. Handed' = Handed
  BY DEF Handed
<1>2. Waited' = Waited
  BY DEF Waited
<1> QED BY <1>1, <1>2 DEF Done, Freed

LEMMA UndisturbedUnseen ==
  ASSUME Undisturbed, Running' = Running PROVE UNCHANGED abstractVars
BY Unseen DEF Undisturbed, abstractVars

\* What is added is seen when it is sent.
LEMMA BeginAddUnseen ==
  ASSUME Inv, pc[Client] = "idle", NEW o \in Objects, NEW s, NEW w \in BOOLEAN, BeginAdd(o, s, w),
         o \notin added, waitable'[o] = w, Handed' = Handed \cup TasksOf(o),
         \A p \in added : waitable'[p] = waitable[p],
         \A t \in Handed : life'[t] = life[t],
         \A t \in TasksOf(o) : performed[t] = 0 /\ t \notin Handed /\ life'[t] # "freed"
  PROVE  UNCHANGED abstractVars
<1>1. UNCHANGED <<queue, job, members, performed>> /\ added' = added \cup {o}
  BY DEF BeginAdd
<1>2. Running' = Running
  <2>1. \A e \in Threads : pc'[e] \in Taken <=> pc[e] \in Taken
    BY DEF BeginAdd, Goto, Inv, Labelled, Taken
  <2> QED BY <1>1, <2>1, RunningStays
<1>3. Done' = Done
  BY <1>1 DEF Done
<1>4. Freed' = Freed
  BY DEF Freed
<1>5. Waited' = Waited
  <2>1. \A p : TasksOf(p)' = TasksOf(p)
    BY <1>1 DEF TasksOf
  <2>2. \A p \in added' : p \notin pending' /\ waitable'[p] <=> p \in added /\ p \notin pending /\ waitable[p]
    BY <1>1 DEF BeginAdd
  <2> QED BY <1>1, <2>1, <2>2 DEF Waited
<1> QED BY <1>1, <1>2, <1>3, <1>4, <1>5 DEF abstractVars

LEMMA AddBeginsUnseen ==
  ASSUME Inv,
         \/ \E t \in Tasks, w \in BOOLEAN : FunctionAdd(t, w)
         \/ \E g \in Groups : GroupAddBegins(g)
  PROVE  UNCHANGED abstractVars
<1>1. /\ added \subseteq Objects /\ Handed \subseteq Tasks /\ Tasks \subseteq Objects
      /\ life \in [Objects -> {"none", "alive", "freed"}] /\ waitable \in [Objects -> BOOLEAN]
  BY TasksOfType DEF Inv, ObjectsTypeOK, Objects
<1>2. ASSUME NEW t \in Tasks, NEW w \in BOOLEAN, FunctionAdd(t, w) PROVE UNCHANGED abstractVars
  <2>1. t \notin added /\ TasksOf(t) = {t} /\ performed[t] = 0 /\ t \in Objects
    BY <1>1, <1>2 DEF FunctionAdd, Fresh, Inv, Allocated, TasksOf
  <2>2. t \notin Handed
    BY <1>2, <2>1, HandedBy DEF FunctionAdd, Fresh, Inv, Grouped
  <2>3. /\ life'[t] # "freed" /\ waitable'[t] = w
        /\ \A u \in Handed : life'[u] = life[u]
        /\ \A p \in added : waitable'[p] = waitable[p]
    BY <1>1, <1>2, <2>1, <2>2 DEF FunctionAdd, Created
  <2>4. Handed' = Handed \cup TasksOf(t)
    BY <1>2, FunctionAddInv
  <2>5. pc[Client] = "idle" /\ BeginAdd(t, <<t>>, w)
    BY <1>2 DEF FunctionAdd
  <2> QED BY <2>1, <2>2, <2>3, <2>4, <2>5, BeginAddUnseen
<1>3. ASSUME NEW g \in Groups, GroupAddBegins(g) PROVE UNCHANGED abstractVars
  <2>1. /\ g \in Objects /\ g \notin added /\ TasksOf(g) \subseteq Tasks
        /\ waitable[g] \in BOOLEAN /\ waitable'[g] = waitable[g]
        /\ pc[Client] = "idle" /\ BeginAdd(g, members[g], waitable[g]) /\ UNCHANGED <<life, waitable>>
    BY <1>1, <1>3, TasksOfType DEF GroupAddBegins, Unused, Objects, Inv
  <2>2. \A t \in TasksOf(g) : performed[t] = 0 /\ t \notin Handed /\ life[t] # "freed"
    BY <1>3, <2>1, HandedBy DEF GroupAddBegins, Unused, Inv, Grouped, Allocated
  <2>3. Handed' = Handed \cup TasksOf(g)
    BY <1>3, GroupAddBeginsInv
  <2> QED BY <2>1, <2>2, <2>3, BeginAddUnseen
<1> QED BY <1>2, <1>3

\* The client sends a task.
LEMMA SendStepAdds == ASSUME Inv, SendStep PROVE Abstract!Next
<1> USE DEF SendStep, Enqueue, objectVars, callVars
<1>1. PICK h : h = job[Client]
  OBVIOUS
<1>2. h \in Tasks /\ Has(Client, h) /\ Owns(Client, h) /\ Client \in Threads
  BY <1>1 DEF Inv, HasJob, Holding, Has, Owns, Threads
<1>3. h \in Handed /\ performed[h] = 0 /\ ~Among(h, queue) /\ \A e \in Threads : Owns(e, h) => e = Client
  BY <1>2, InHands DEF Inv, Owned
<1>4. h \notin Running /\ h \notin Done
  <2>1. \A e \in Threads : pc[e] \in Taken /\ job[e] = h => FALSE
    BY <1>3 DEF Taken, Owns, Has
  <2> QED BY <1>3, <2>1 DEF Running, Done, Taken
<1>5. Running' = Running
  <2>1. \A e \in Threads : pc'[e] \in Taken <=> pc[e] \in Taken
    BY DEF Threads, Taken
  <2> QED BY <2>1, RunningStays
<1>6. UNCHANGED <<Done, Waited, Freed>>
  BY Unseen DEF TasksOf
<1>7. Abstract!Add(h)
  BY <1>1, <1>3, <1>4, <1>5, <1>6 DEF Abstract!Add, Running, Done, Waited, Freed, Among
<1> QED BY <1>2, <1>7 DEF Abstract!Next

\* A worker takes the oldest task.
LEMMA DequeueStarts ==
  ASSUME Inv, NEW w \in Workers, pc[w] \notin Holding \cup {"finish"}, NEW label \in Taken,
         Dequeue(w, label)
  PROVE  Abstract!Next
<1>1. /\ queue # <<>> /\ queue' = Tail(queue)
      /\ UNCHANGED <<members, added, pending, waitable, performed, life>>
      /\ pc'[w] = label /\ job'[w] = Head(queue)
      /\ w \in Threads /\ \A e \in Threads : e # w => pc'[e] = pc[e] /\ job'[e] = job[e]
  BY DEF Dequeue, objectVars, callVars, Goto, Inv, Labelled, ObjectsTypeOK, Threads
<1>2. UNCHANGED <<Done, Waited, Freed>>
  BY <1>1, Unseen DEF TasksOf
<1>3. Running' = Running \cup {Head(queue)}
  BY <1>1 DEF Running, Holding, Taken
<1>4. Abstract!Start
  BY <1>1, <1>2, <1>3 DEF Abstract!Start, Running, Done, Waited, Freed
<1> QED BY <1>4 DEF Abstract!Next

\* The client runs the task it was about to send.
LEMMA PitchesInTakes == ASSUME Inv, Move, PitchesIn PROVE Abstract!Next
<1>1. PICK h : h = job[Client]
  OBVIOUS
<1>2. Client \in Threads /\ pc[Client] = "scan" /\ pc'[Client] = "perform"
  BY DEF PitchesIn, Threads
<1>3. h \in Tasks /\ Has(Client, h) /\ Owns(Client, h)
  BY <1>1, <1>2 DEF Inv, HasJob, Holding, Has, Owns
<1>4. h \in Handed /\ performed[h] = 0 /\ ~Among(h, queue) /\ \A e \in Threads : Owns(e, h) => e = Client
  BY <1>2, <1>3, InHands DEF Inv, Owned
<1>5. h \notin Running /\ h \notin Done
  <2>1. \A e \in Threads : pc[e] \in Taken /\ job[e] = h => FALSE
    BY <1>2, <1>4 DEF Taken, Owns, Has
  <2> QED BY <1>4, <2>1 DEF Running, Done, Taken
<1>6. /\ job'[Client] = h
      /\ \A e \in Threads : e # Client => (pc'[e] \in Taken <=> pc[e] \in Taken)
      /\ \A e \in Threads : pc'[e] \in Taken => job'[e] = job[e]
  BY <1>1, <1>2 DEF Move, Relabelled, JobsKept, Holding, Taken, Threads
<1>7. Running' = Running \cup {h}
  <2>1. \A e \in Threads : pc'[e] \in Taken <=> pc[e] \in Taken \/ e = Client
    BY <1>2, <1>6 DEF Taken
  <2> QED BY <1>1, <1>2, <1>6, <2>1 DEF Running, Taken
<1>8. UNCHANGED <<queue, Done, Waited, Freed>>
  <2>1. Undisturbed
    BY MoveInv
  <2> QED BY <2>1, Unseen DEF Undisturbed
<1>9. Abstract!PitchIn(h)
  BY <1>4, <1>5, <1>7, <1>8
     DEF Abstract!PitchIn, PitchesIn, Running, Done, Waited, Freed, Among
<1> QED BY <1>3, <1>9 DEF Abstract!Next

\* A thread has performed its task.
LEMMA PerformFinishes ==
  ASSUME Inv, NEW e \in Threads, Perform(e) PROVE Abstract!Next
<1>1. PICK h : h = job[e]
  OBVIOUS
<1>2. /\ pc[e] = "perform" /\ pc'[e] = "finish"
      /\ UNCHANGED <<queue, members, added, pending, waitable, life, job>>
      /\ \A f \in Threads : f # e => pc'[f] = pc[f]
  BY DEF Perform, objectVars, callVars, Goto, Inv, Labelled
<1>3. h \in Tasks /\ Has(e, h) /\ Owns(e, h)
  BY <1>1, <1>2 DEF Inv, HasJob, Holding, Has, Owns
<1>4. h \in Handed /\ performed[h] = 0 /\ \A f \in Threads : Owns(f, h) => f = e
  BY <1>2, <1>3, InHands DEF Inv, Owned
<1>5. performed'[h] = 1 /\ \A t \in Tasks : t # h => performed'[t] = performed[t]
  BY <1>1, <1>3, <1>4 DEF Perform, Inv, ObjectsTypeOK
<1>6. h \in Running /\ Running' = Running \ {h}
  <2>1. \A f \in Threads : pc[f] \in Taken /\ job[f] = h => f = e
    BY <1>4 DEF Taken, Owns, Has
  <2> QED BY <1>1, <1>2, <2>1 DEF Running, Taken
<1>7. /\ \A p : TasksOf(p)' = TasksOf(p)
      /\ Handed' = Handed
  BY <1>2 DEF TasksOf, Handed
<1>8. Done' = Done \cup {h}
  <2>1. \A t \in Handed : t # h => performed'[t] = performed[t]
    BY <1>5, TasksOfType DEF Inv
  <2>2. performed'[h] > 0
    BY <1>5
  <2> QED BY <1>4, <1>7, <2>1, <2>2 DEF Done
<1>9. Waited' = Waited /\ Freed' = Freed
  BY <1>2, <1>7 DEF Waited, Freed
<1>10. Abstract!Finish(h)
  BY <1>2, <1>6, <1>8, <1>9 DEF Abstract!Finish, Running, Done, Waited, Freed
<1> QED BY <1>3, <1>10 DEF Abstract!Next

\* A task is freed by who has performed it.
LEMMA DeleteTaskFrees ==
  ASSUME Inv, NEW e \in Threads, NEW label, After(e, label), DeleteTask(e, label)
  PROVE  Abstract!Next
<1>1. PICK h : h = job[e]
  OBVIOUS
<1>2. /\ pc[e] = "finish" /\ pc'[e] = label
      /\ UNCHANGED <<queue, members, added, pending, waitable, job, performed>>
      /\ \A f \in Threads : f # e => pc'[f] = pc[f]
      /\ life' = TasksDeleted({h})
  BY <1>1 DEF DeleteTask, callVars, Goto, Inv, Labelled
<1>3. h \in Tasks /\ Finishing(e, h) /\ Owns(e, h)
  BY <1>1, <1>2 DEF Inv, HasJob, Finishing, Owns
<1>4. h \in Handed /\ h \in Objects /\ performed[h] = 1 /\ life[h] = "alive"
  BY <1>3, InHands DEF Inv, Owned
<1>5. Running' = Running
  <2>1. \A f \in Threads : pc'[f] \in Taken <=> pc[f] \in Taken
    BY <1>2 DEF After, Holding, Taken
  <2> QED BY <1>2, <2>1, RunningStays
<1>6. /\ \A p : TasksOf(p)' = TasksOf(p)
      /\ Handed' = Handed /\ Handed \subseteq Objects
  BY <1>2, TasksOfType DEF TasksOf, Handed, Inv, Objects
<1>7. Done' = Done /\ Waited' = Waited
  BY <1>2, <1>6 DEF Waited, Done
<1>8. h \in Done \ Freed
  <2>1. performed[h] > 0
    BY <1>4
  <2> QED BY <1>4, <2>1 DEF Done, Freed
<1>9. Freed' = Freed \cup {h}
  BY <1>2, <1>4, <1>6 DEF Freed, TasksDeleted
<1>10. Abstract!Free(h)
  BY <1>2, <1>5, <1>7, <1>8, <1>9 DEF Abstract!Free, Running, Done, Waited, Freed
<1> QED BY <1>3, <1>10 DEF Abstract!Next

\* A wait returns for tasks that are done and have not been waited for.
LEMMA WaitEndsReturns ==
  ASSUME Inv, pc[Client] = "wait", counter[WaitCounter(call)].count = 0,
         NEW S \in SUBSET TasksOf(call), WaitEnds(S)
  PROVE  Abstract!Next
<1>1. PICK o, T, F : o = call /\ T = TasksOf(call) /\ F = S \ Freed
  OBVIOUS
<1>2. o \in pending /\ o \in added /\ o \in Objects /\ counter[o].count = 0
  BY <1>1, WaitsForItsOwn DEF Waiting
<1>3. waitable[o] /\ Outstanding(o) = {}
  BY <1>2, TasksFinite DEF Inv, Counted
<1>4. /\ UNCHANGED <<queue, members, added, waitable, job, performed>>
      /\ pending' = pending \ {o}
      /\ life' = TasksDeleted(S)
      /\ \A e \in Threads : pc'[e] \in Taken <=> pc[e] \in Taken
  BY <1>1 DEF WaitEnds, Goto, Inv, Labelled, Taken
<1>5. /\ \A p : TasksOf(p)' = TasksOf(p)
      /\ Handed' = Handed
  BY <1>4 DEF TasksOf, Handed
<1>6. Running' = Running
  BY <1>4, RunningStays
<1>7. Done' = Done
  BY <1>4, <1>5 DEF Done
<1>8. /\ T = TasksOf(o) /\ T \subseteq Tasks /\ T \subseteq Handed /\ T \subseteq Objects
      /\ Handed \subseteq Objects
  BY <1>1, <1>2, TasksOfType DEF Inv, Objects
<1>9. T \subseteq Done
  <2>1. \A t \in T : performed[t] # 0 /\ performed[t] \in Nat
    BY <1>3, <1>8 DEF Outstanding, Inv, ObjectsTypeOK
  <2>2. \A t \in T : performed[t] > 0
    BY <2>1
  <2> QED BY <1>8, <2>2 DEF Done
<1>10. T \cap Waited = {}
  <2>1. \A p \in added : \A t \in T : t \in TasksOf(p) => p = o
    BY <1>2, <1>8, AddedOnce
  <2> QED BY <1>2, <2>1, WaitedIs
<1>11. Waited' = Waited \cup T
  BY <1>2, <1>3, <1>4, <1>5, <1>8 DEF Waited
<1>12. Freed' = Freed \cup F
  BY <1>1, <1>4, <1>5, <1>8 DEF Freed, TasksDeleted
<1>13. Abstract!Return(T, F)
  BY <1>1, <1>4, <1>6, <1>7, <1>9, <1>10, <1>11, <1>12
     DEF Abstract!Return, Running, Done, Waited, Freed
<1>14. F \in SUBSET T /\ T \in SUBSET Tasks
  BY <1>1, <1>8
<1> QED BY <1>13, <1>14 DEF Abstract!Next

\* Every step of the shared variables is a step of DispatchSpec, or is not seen there.
LEMMA SharedStepRefines ==
  ASSUME Inv, SharedStep PROVE [Abstract!Next]_(Abstract!vars)
<1> SUFFICES Abstract!Next \/ UNCHANGED abstractVars
  BY DEF abstractVars, Abstract!vars, Running, Done, Waited, Freed
<1>1. CASE Move /\ PitchesIn
  BY <1>1, PitchesInTakes
<1>2. CASE Move /\ ~PitchesIn
  <2>1. Undisturbed /\ Running' = Running
    BY <1>2, MoveInv, MoveRunning
  <2> QED BY <2>1, UndisturbedUnseen
<1>3. CASE ObjectCall
  <2>1. Undisturbed /\ Running' = Running
    BY <1>3, ObjectCallInv, RunningStays
  <2> QED BY <2>1, UndisturbedUnseen
<1>4. CASE AddReturns \/ \E o \in Objects : WaitBegins(o)
  <2>1. Undisturbed
    BY <1>4, AddReturnsInv, WaitBeginsInv
  <2>2. \A e \in Threads : /\ pc'[e] \in Taken <=> pc[e] \in Taken
                           /\ pc[e] \in Taken => job'[e] = job[e]
    BY <1>4 DEF AddReturns, WaitBegins, Goto, Inv, Labelled, ObjectsTypeOK, Taken
  <2>3. Running' = Running
    BY <2>2, RunningStays
  <2> QED BY <2>1, <2>3, UndisturbedUnseen
<1>5. ASSUME NEW e \in Threads, NEW label, After(e, label), SendToken(e, label)
      PROVE  UNCHANGED abstractVars
  <2>1. Undisturbed
    BY <1>5, SendTokenInv
  <2>2. \A f \in Threads : (pc'[f] \in Taken <=> pc[f] \in Taken) /\ job'[f] = job[f]
    BY <1>5 DEF SendToken, Goto, Inv, Labelled, After, Holding, Taken
  <2>3. Running' = Running
    BY <2>2, RunningStays
  <2> QED BY <2>1, <2>3, UndisturbedUnseen
<1>6. ASSUME NEW e \in Threads, NEW label, After(e, label), CountDown(e, label)
      PROVE  UNCHANGED abstractVars
  <2>1. \A f \in Threads : (pc'[f] \in Taken <=> pc[f] \in Taken) /\ job'[f] = job[f]
    BY <1>6 DEF CountDown, Goto, Inv, Labelled, After, Holding, Taken
  <2>2. Running' = Running
    BY <2>1, RunningStays
  <2>3. UNCHANGED <<queue, members, waitable, added, pending, performed, life>>
    BY <1>6 DEF CountDown, callVars
  <2>4. UNCHANGED <<Done, Waited, Freed>>
    BY <2>3, Unseen DEF TasksOf
  <2> QED BY <2>2, <2>3, <2>4 DEF abstractVars
<1>7. ASSUME NEW label \in {"scan", "send"}, NextTask(label) PROVE UNCHANGED abstractVars
  <2>1. \A e \in Threads : /\ pc'[e] \in Taken <=> pc[e] \in Taken
                           /\ pc[e] \in Taken => job'[e] = job[e]
    BY <1>7 DEF NextTask, Goto, Inv, Labelled, ObjectsTypeOK, Taken
  <2>2. Running' = Running
    BY <2>1, RunningStays
  <2>3. UNCHANGED <<queue, members, waitable, added, pending, performed, life>>
    BY <1>7 DEF NextTask
  <2>4. UNCHANGED <<Done, Waited, Freed>>
    BY <2>3, Unseen DEF TasksOf
  <2> QED BY <2>2, <2>3, <2>4 DEF abstractVars
<1>8. CASE \/ \E t \in Tasks, w \in BOOLEAN : FunctionAdd(t, w)
           \/ \E g \in Groups : GroupAddBegins(g)
  BY <1>8, AddBeginsUnseen
<1>9. CASE SendStep
  BY <1>9, SendStepAdds
<1>10. CASE \E w \in Workers, label \in Taken :
              pc[w] \notin Holding \cup {"finish"} /\ Dequeue(w, label)
  BY <1>10, DequeueStarts
<1>11. CASE \E e \in Threads : Perform(e)
  BY <1>11, PerformFinishes
<1>12. ASSUME NEW e \in Threads, NEW label, After(e, label), DeleteTask(e, label)
       PROVE  Abstract!Next
  BY <1>12, DeleteTaskFrees
<1>13. CASE /\ pc[Client] = "wait"
            /\ counter[WaitCounter(call)].count = 0
            /\ \E S \in SUBSET TasksOf(call) : WaitEnds(S)
  BY <1>13, WaitEndsReturns
<1> QED BY <1>1, <1>2, <1>3, <1>4, <1>5, <1>6, <1>7, <1>8, <1>9, <1>10, <1>11, <1>12, <1>13
        DEF SharedStep

LEMMA ObjectsInitRefines ==
  ASSUME NEW label, label \notin Holding, ObjectsInit(label) PROVE Abstract!Init
<1>1. Handed = {}
  BY DEF ObjectsInit, Handed
<1>2. Running = {}
  BY DEF ObjectsInit, Running, Holding
<1>3. Done = {} /\ Waited = {} /\ Freed = {} /\ queue = <<>>
  BY <1>1 DEF Done, Waited, Freed, ObjectsInit
<1> QED BY <1>2, <1>3 DEF Abstract!Init, Running, Done, Waited, Freed

\* The shared variables do not change.
LEMMA StutterInv ==
  ASSUME Inv, UNCHANGED baseVars
  PROVE  Move /\ UNCHANGED (Abstract!vars)
<1>1. Move /\ ~PitchesIn
  BY DEF Move, Relabelled, JobsKept, PitchesIn, Inv, Labelled, ObjectsTypeOK, baseVars
<1>2. Undisturbed
  BY <1>1, MoveInv
<1>3. UNCHANGED abstractVars
  BY <1>1, <1>2, MoveRunning, UndisturbedUnseen
<1> QED BY <1>1, <1>3 DEF abstractVars, Abstract!vars, Running, Done, Waited, Freed

\* A thread that goes on, with the task it has or without one, moves.
LEMMA StepMoves ==
  ASSUME Inv, NEW e \in Threads, NEW label, Step(e, label),
         label \in Holding <=> pc[e] \in Holding,
         label = "finish" <=> pc[e] = "finish",
         label # "token",
         \/ label \in Taken <=> pc[e] \in Taken
         \/ e = Client /\ UseCallersThread /\ pc[e] = "scan" /\ label = "perform",
         e = Client => /\ label \in Adding <=> pc[e] \in Adding
                       /\ label \in Waiting => pc[e] \in Waiting
  PROVE  Move /\ \A f \in Threads : pc'[f] = "token" => pc[f] = "token"
<1>1. /\ pc'[e] = label /\ \A f \in Threads : f # e => pc'[f] = pc[f]
      /\ Labelled'
  BY DEF Step, Goto, Inv, Labelled
<1>2. Client \in Threads /\ Workers \subseteq Threads /\ Client \notin Workers
  BY NamesAssumption DEF Threads
<1>3. Relabelled
  BY <1>1, <1>2 DEF Relabelled, PitchesIn
<1>4. JobsKept
  BY DEF JobsKept, Step, Inv, ObjectsTypeOK
<1> QED BY <1>1, <1>3, <1>4 DEF Move, Step

\* A worker that is done with its task forgets it.
LEMMA TaskDoneMoves ==
  ASSUME Inv, NEW w \in Workers, NEW labels, TaskDone(w, labels), Relabelled, pc'[w] = "receive"
  PROVE  Move
<1>1. JobsKept
  BY DEF JobsKept, TaskDone, Inv, ObjectsTypeOK, Holding
<1> QED BY <1>1 DEF Move, TaskDone

LEMMA BackToQueueMoves ==
  ASSUME Inv, NEW w \in Workers, pc[w] = "ready", TaskDone(w, [pc EXCEPT ![w] = "receive"])
  PROVE  Move /\ \A e \in Threads : pc'[e] = "token" => pc[e] = "token"
<1>1. /\ pc'[w] = "receive" /\ w \in Threads /\ w # Client /\ Client \in Threads
      /\ \A e \in Threads : e # w => pc'[e] = pc[e]
      /\ Labelled'
  BY NamesAssumption DEF TaskDone, Inv, Labelled, Threads
<1>2. Relabelled
  BY <1>1 DEF Relabelled, Holding, Taken, Threads
<1> QED BY <1>1, <1>2, TaskDoneMoves

\* The labels, when one thread goes on.
LEMMA WorkerMoves ==
  ASSUME Inv, NEW w \in Workers, NEW label, Goto(w, label)
  PROVE  /\ pc'[w] = label /\ pc'[Client] = pc[Client]
         /\ \A v \in Workers : v # w => pc'[v] = pc[v]
BY NamesAssumption DEF Inv, Labelled, Goto, Threads

LEMMA ClientMoves ==
  ASSUME Inv, NEW label, Goto(Client, label)
  PROVE  pc'[Client] = label /\ \A w \in Workers : pc'[w] = pc[w]
BY NamesAssumption DEF Inv, Labelled, Goto, Threads

\* A task is performed for the first time.
LEMMA PerformsFirst ==
  ASSUME Inv, NEW e \in Threads, Perform(e)
  PROVE  /\ job[e] \in Tasks /\ performed[job[e]] = 0 /\ performed'[job[e]] = 1
         /\ \A t \in Tasks : t # job[e] => performed'[t] = performed[t]
<1>1. job[e] \in Tasks /\ Has(e, job[e])
  BY DEF Perform, Inv, HasJob, Holding, Has
<1>2. performed[job[e]] = 0
  BY <1>1 DEF Inv, Owned
<1> QED BY <1>1, <1>2 DEF Perform, Inv, ObjectsTypeOK
=============================================================================
