------------------------ MODULE DispatchObjectsProof ------------------------
(***************************************************************************)
(* What the three implementations of dispatch_queue.h share, for every set *)
(* of tasks and groups and any number of workers: an inductive invariant   *)
(* over the variables of DispatchObjects and the steps that keep it.  A    *)
(* step of an implementation is, as far as these variables are concerned,  *)
(* a SharedStep: DispatchMetalProof, DispatchRtosProof and                 *)
(* DispatchHostProof show this of their Next.                              *)
(***************************************************************************)
EXTENDS DispatchObjects, FiniteSetTheorems, SequenceTheorems, TLAPS

\* The labels of a client inside an add and inside a wait, and those of a thread that
\* has a task it has not performed yet.
Adding == {"each", "scan", "send", "notify", "perform", "finish", "token"}
Waiting == {"wait", "sleep"}
Holding == {"mark", "perform", "scan", "send"}
Taken == {"mark", "perform"}

Finishing(e, t) == pc[e] = "finish" /\ job[e] = t

\* Thread e has task t in its hands.
Owns(e, t) == Has(e, t) \/ Finishing(e, t)

Among(t, s) == \E i \in DOMAIN s : s[i] = t

Distinct(s) == \A i, j \in DOMAIN s : s[i] = s[j] => i = j

-----------------------------------------------------------------------------
(***************************************************************************)
(* The inductive invariant.                                                *)
(***************************************************************************)
\* Every thread has a label.
Labelled == pc = [e \in Threads |-> pc[e]]

\* A task is in one group, or was added by itself, and has its group's waitable flag.
Grouped ==
  \A g \in Groups :
    /\ Distinct(members[g])
    /\ members[g] # <<>> => life[g] # "none"
    /\ \A t \in TasksOf(g) :
         /\ t \notin added
         /\ life[t] # "none"
         /\ waitable[t] = waitable[g]
         /\ \A h \in Groups : t \in TasksOf(h) => h = g

\* What was added exists, and only tasks that have been performed have been freed.
Allocated ==
  /\ \A o \in added : life[o] # "none"
  /\ \A g \in Groups \cap added : members[g] # <<>>
  /\ \A t \in Tasks : /\ life[t] = "none" => performed[t] = 0
                      /\ life[t] = "freed" => performed[t] > 0

\* What the client's label says of the call it is in.
InItsCall ==
  /\ todo # <<>> => pc[Client] \in Adding
  /\ pc[Client] \in Adding => call \in added
  /\ pc[Client] \in Waiting => call \in pending

\* A thread that has a task has one.
HasJob == \A e \in Threads : pc[e] \in Holding \cup {"finish"} => job[e] \in Tasks

\* A task is at one place at most ...
ToSend ==
  /\ Distinct(todo)
  /\ \A t \in Tasks : Among(t, todo) =>
       t \in TasksOf(call) /\ performed[t] = 0 /\ ~Among(t, queue) /\ \A e \in Threads : ~Owns(e, t)

Queued ==
  /\ Distinct(queue)
  /\ \A t \in Tasks : Among(t, queue) =>
       t \in Handed /\ performed[t] = 0 /\ \A e \in Threads : ~Owns(e, t)

Owned ==
  \A e \in Threads, t \in Tasks :
    /\ Owns(e, t) => t \in Handed /\ \A f \in Threads : Owns(f, t) => f = e
    /\ Has(e, t) => performed[t] = 0
    /\ Finishing(e, t) => performed[t] = 1 /\ life[t] = "alive"

\* ... and one that has not been performed is at one of them.
NotLost ==
  \A t \in Handed :
    /\ performed[t] \in {0, 1}
    /\ performed[t] = 0 => Among(t, todo) \/ Among(t, queue) \/ \E e \in Threads : Has(e, t)

\* Once a task is on its way it has the counter of what it was added with.
Given ==
  \A o \in added : \A t \in TasksOf(o) :
    ~Among(t, todo) => private_data[t] = IF waitable[o] THEN o ELSE None

\* The tasks of o that have not signalled the counter of o yet.
Outstanding(o) ==
  {t \in TasksOf(o) : performed[t] = 0 \/ \E e \in Threads : Finishing(e, t)}

\* The event counter counts them, as long as somebody has to wait for it.
Counted ==
  /\ \A o \in Objects : counter[o].life = "alive" => o \in pending
  /\ \A o \in added :
       /\ o \in pending => /\ waitable[o]
                           /\ counter[o].life = "alive"
                           /\ counter[o].count = Cardinality(Outstanding(o))
       /\ waitable[o] /\ o \notin pending => Outstanding(o) = {}

\* Tasks nobody waits for are freed by those who have performed them.
Disposed ==
  \A o \in added : ~waitable[o] => \A t \in TasksOf(o) :
    life[t] = "freed" \/ performed[t] = 0 \/ \E e \in Threads : Finishing(e, t)

Inv ==
  /\ ObjectsTypeOK
  /\ Labelled
  /\ Grouped
  /\ Allocated
  /\ InItsCall
  /\ HasJob
  /\ ToSend
  /\ Queued
  /\ Owned
  /\ NotLost
  /\ Given
  /\ Counted
  /\ Disposed

-----------------------------------------------------------------------------
(***************************************************************************)
(* The steps of the implementations, seen from the shared variables.       *)
(***************************************************************************)
\* With use_callers_thread the client may run the task it was about to send.
PitchesIn == UseCallersThread /\ pc[Client] = "scan" /\ pc'[Client] = "perform"

\* Threads go on, and nobody performs a task or takes one from the queue.
Relabelled ==
  /\ Labelled'
  /\ \A e \in Threads : /\ pc'[e] \in Holding <=> pc[e] \in Holding
                        /\ pc'[e] = "finish" <=> pc[e] = "finish"
  /\ \A w \in Workers : pc'[w] \in Taken <=> pc[w] \in Taken
  /\ PitchesIn \/ (pc'[Client] \in Taken <=> pc[Client] \in Taken)
  /\ pc'[Client] \in Adding <=> pc[Client] \in Adding
  /\ pc'[Client] \in Waiting => pc[Client] \in Waiting

\* A thread may forget the task it is done with.
JobsKept ==
  /\ job' \in [Threads -> Tasks \cup {None}]
  /\ \A e \in Threads : pc'[e] \in Holding \cup {"finish", "token"} => job'[e] = job[e]

Move == Relabelled /\ JobsKept /\ UNCHANGED <<queue, objectVars, callVars, performed>>

-----------------------------------------------------------------------------
Counters == [Objects -> [life : {"none", "alive", "freed"}, count : Nat, token : BOOLEAN]]

\* A counter that is updated, if there is one, is a counter.
LEMMA CounterUpdates ==
  ASSUME NEW c \in Counters, NEW k, NEW n \in Nat, NEW b \in BOOLEAN
  PROVE  /\ [c EXCEPT ![k].count = n] \in Counters
         /\ [c EXCEPT ![k].token = b] \in Counters
         /\ [c EXCEPT ![k].life = "freed"] \in Counters
<1>1. [c EXCEPT ![k].count = n] \in Counters
  BY DEF Counters
<1>2. [c EXCEPT ![k].token = b] \in Counters
  BY DEF Counters
<1>3. [c EXCEPT ![k].life = "freed"] \in Counters
  BY DEF Counters
<1> QED BY <1>1, <1>2, <1>3

\* An item that is appended is among the items, and distinct ones stay distinct.
LEMMA AppendAmong ==
  ASSUME NEW S, NEW s \in Seq(S), NEW x \in S
  PROVE  /\ Append(s, x) \in Seq(S)
         /\ \A t : Among(t, Append(s, x)) <=> Among(t, s) \/ t = x
         /\ Distinct(s) /\ ~Among(x, s) => Distinct(Append(s, x))
<1>1. /\ Append(s, x) \in Seq(S)
      /\ Len(s) \in Nat
      /\ DOMAIN s = 1..Len(s)
      /\ DOMAIN Append(s, x) = 1..(Len(s) + 1)
      /\ \A i \in 1..Len(s) : Append(s, x)[i] = s[i]
      /\ Append(s, x)[Len(s) + 1] = x
  BY AppendProperties
<1>2. \A i : i \in DOMAIN Append(s, x) <=> i \in DOMAIN s \/ i = Len(s) + 1
  BY <1>1
<1>3. \A t : Among(t, Append(s, x)) <=> Among(t, s) \/ t = x
  BY <1>1, <1>2 DEF Among
<1>4. Distinct(s) /\ ~Among(x, s) => Distinct(Append(s, x))
  BY <1>1, <1>2 DEF Distinct, Among
<1> QED BY <1>1, <1>3, <1>4

\* The tasks of an object, and those handed to the dispatch queue, are tasks.
LEMMA TasksOfType ==
  ASSUME ObjectsTypeOK
  PROVE  /\ \A o \in Objects : TasksOf(o) \subseteq Tasks
         /\ \A t : t \in Handed <=> \E o \in added : t \in TasksOf(o)
         /\ Handed \subseteq Tasks
BY DEF ObjectsTypeOK, Objects, TasksOf, Handed

\* A task is handed over by itself or with its group.
LEMMA HandedBy ==
  ASSUME ObjectsTypeOK, NEW t \in Tasks
  PROVE  t \in Handed <=> t \in added \/ \E g \in Groups \cap added : t \in TasksOf(g)
<1>1. t \in Handed <=> \E o \in added : t \in TasksOf(o)
  BY TasksOfType
<1>2. \A o \in Tasks : t \in TasksOf(o) <=> o = t
  BY DEF TasksOf
<1> QED BY <1>1, <1>2 DEF ObjectsTypeOK, Objects

\* Nothing changes for what was handed to the dispatch queue: not where its tasks are,
\* nor what they, their counters and their owners look like.
Undisturbed ==
  /\ UNCHANGED <<queue, todo, added, pending, private_data>>
  /\ \A e \in Threads, t \in Tasks : /\ Has(e, t)' <=> Has(e, t)
                                     /\ Finishing(e, t)' <=> Finishing(e, t)
  /\ \A o \in added : TasksOf(o)' = TasksOf(o) /\ waitable'[o] = waitable[o]
  /\ \A o \in Objects : /\ counter'[o].life = counter[o].life
                        /\ counter'[o].count = counter[o].count
  /\ \A t \in Handed : performed'[t] = performed[t] /\ life'[t] = life[t]
  /\ todo # <<>> => call' = call

\* What the invariant says of these is not disturbed.
LEMMA UndisturbedInv ==
  ASSUME Inv, Undisturbed
  PROVE  /\ ToSend' /\ Queued' /\ Owned' /\ NotLost' /\ Given' /\ Counted' /\ Disposed'
         /\ Handed' = Handed
<1> USE DEF Inv, Undisturbed
<1>1. Handed' = Handed
  BY DEF Handed
<1>2. /\ added \subseteq Objects
      /\ \A o \in Objects : TasksOf(o) \subseteq Tasks
      /\ \A t : t \in Handed <=> \E o \in added : t \in TasksOf(o)
      /\ Handed \subseteq Tasks
  BY TasksOfType DEF ObjectsTypeOK
<1>3. ToSend'
  <2>1. \A t \in Tasks : Among(t, todo) => call' = call /\ call \in added
    BY DEF InItsCall, Among, ObjectsTypeOK
  <2> QED BY <1>2, <2>1 DEF ToSend, Owns, Among, Distinct
<1>4. Queued' /\ Owned'
  BY <1>1, <1>2 DEF Queued, Owned, Owns, Among, Distinct
<1>5. NotLost'
  BY <1>1, <1>2 DEF NotLost, Among
<1>6. Given'
  BY <1>2 DEF Given, Among
<1>7. Counted'
  <2>1. \A o \in added : Outstanding(o)' = Outstanding(o)
    BY <1>2 DEF Outstanding
  <2> QED BY <1>2, <2>1 DEF Counted
<1>8. Disposed'
  BY <1>2 DEF Disposed
<1> QED BY <1>1, <1>3, <1>4, <1>5, <1>6, <1>7, <1>8

\* Groups stay as they are when no group gets a task and nothing is done to what exists
\* but free it or hand it over with its group.
LEMMA GroupedStays ==
  ASSUME ObjectsTypeOK, Grouped, UNCHANGED members,
         \A o \in Objects : life[o] # "none" => life'[o] # "none" /\ waitable'[o] = waitable[o],
         \A t \in Tasks : life[t] # "none" /\ t \in added' => t \in added
  PROVE  Grouped'
<1>1. \A h \in Groups : TasksOf(h)' = TasksOf(h) /\ TasksOf(h) \subseteq Tasks /\ h \in Objects
  BY TasksOfType DEF TasksOf, Objects
<1>2. \A h \in Groups : Distinct(members[h])'
  BY DEF Grouped, Distinct
<1>3. \A h \in Groups : (members[h] # <<>> => life[h] # "none")'
  BY <1>1 DEF Grouped
<1>4. ASSUME NEW h \in Groups, NEW t \in TasksOf(h)
      PROVE  /\ t \notin added'
             /\ life'[t] # "none"
             /\ waitable'[t] = waitable'[h]
             /\ \A k \in Groups : t \in TasksOf(k)' => k = h
  <2>1. t \in Tasks /\ t \in Objects /\ h \in Objects
    BY <1>1, <1>4 DEF Objects
  <2>2. t \notin added /\ life[t] # "none" /\ waitable[t] = waitable[h]
    BY <1>4 DEF Grouped
  <2>3. life[h] # "none"
    <3>1. members[h] # <<>>
      BY <1>4, NamesAssumption DEF TasksOf
    <3> QED BY <3>1 DEF Grouped
  <2>4. \A k \in Groups : t \in TasksOf(k)' => k = h
    BY <1>1, <1>4 DEF Grouped
  <2> QED BY <2>1, <2>2, <2>3, <2>4
<1> QED BY <1>1, <1>2, <1>3, <1>4 DEF Grouped

\* Nor is it when threads just go on.
LEMMA MoveInv == ASSUME Inv, Move PROVE Inv' /\ Undisturbed
<1> USE DEF Inv, Labelled, Move, objectVars, callVars
<1>1. ObjectsTypeOK'
  BY DEF ObjectsTypeOK, JobsKept
<1>2. Undisturbed
  <2>1. \A e \in Threads, t \in Tasks : /\ Has(e, t)' <=> Has(e, t)
                                        /\ Finishing(e, t)' <=> Finishing(e, t)
    BY DEF Relabelled, JobsKept, Has, Finishing, Holding
  <2> QED BY <2>1 DEF Undisturbed, TasksOf
<1>3. Grouped' /\ Allocated'
  BY GroupedStays DEF Allocated
<1>4. InItsCall'
  BY DEF Relabelled, InItsCall
<1>5. HasJob'
  BY DEF Relabelled, JobsKept, HasJob
<1> QED BY <1>1, <1>2, <1>3, <1>4, <1>5, UndisturbedInv DEF Relabelled

-----------------------------------------------------------------------------
(***************************************************************************)
(* The calls on objects disturb nothing that was handed over.              *)
(***************************************************************************)
LEMMA GroupCreateInv ==
  ASSUME Inv, NEW g \in Groups, NEW w \in BOOLEAN, GroupCreate(g, w)
  PROVE  Inv' /\ Undisturbed
<1> USE DEF Inv, Labelled, GroupCreate, callVars
<1>1. g \in Objects /\ g \notin Tasks /\ g \notin added /\ members[g] = <<>>
  BY NamesAssumption DEF Grouped, Allocated, Objects
<1>2. ObjectsTypeOK'
  BY <1>1 DEF ObjectsTypeOK, Created
<1>3. Undisturbed
  BY <1>1, TasksOfType DEF Undisturbed, Created, Has, Finishing, TasksOf, ObjectsTypeOK, Objects
<1>4. Grouped'
  BY <1>1, GroupedStays DEF Created, ObjectsTypeOK
<1>5. Allocated'
  BY <1>1 DEF Allocated, Created, ObjectsTypeOK, Objects
<1>6. InItsCall'
  BY DEF InItsCall
<1>10. HasJob'
  BY DEF HasJob
<1> QED BY <1>2, <1>3, <1>4, <1>5, <1>6, <1>10, UndisturbedInv

LEMMA GroupTaskAddInv ==
  ASSUME Inv, NEW g \in Groups, NEW t \in Tasks, GroupTaskAdd(g, t)
  PROVE  Inv' /\ Undisturbed
<1> life[t] = "none"
  BY DEF GroupTaskAdd, Fresh
<1> USE DEF Inv, Labelled, GroupTaskAdd, callVars
<1>1. /\ g \in Objects /\ t \in Objects /\ g \notin Tasks /\ g \notin added /\ t \notin added
      /\ \A h \in Groups : t \notin TasksOf(h)
  BY NamesAssumption DEF Grouped, Allocated, Objects, Unused
<1>2. ObjectsTypeOK'
  BY <1>1 DEF ObjectsTypeOK, Created
<1>3. /\ \A o \in Objects : o # g => TasksOf(o)' = TasksOf(o)
      /\ TasksOf(g)' = TasksOf(g) \cup {t}
  <2>1. \A o \in Objects : o # g => TasksOf(o)' = TasksOf(o)
    BY DEF TasksOf, ObjectsTypeOK, Objects
  <2>2. members[g] \in Seq(Tasks) /\ members'[g] = Append(members[g], t)
    BY DEF ObjectsTypeOK
  <2>3. /\ DOMAIN members[g] = 1..Len(members[g])
        /\ DOMAIN members'[g] = 1..Len(members[g]) + 1
        /\ \A i \in DOMAIN members[g] : members'[g][i] = members[g][i]
        /\ members'[g][Len(members[g]) + 1] = t
    BY <2>2, AppendProperties
  <2>4. \A i \in DOMAIN members'[g] : i \in DOMAIN members[g] \/ i = Len(members[g]) + 1
    BY <2>2, <2>3
  <2>5. Len(members[g]) + 1 \in DOMAIN members'[g] /\ DOMAIN members[g] \subseteq DOMAIN members'[g]
    BY <2>2, <2>3
  <2>6. TasksOf(g)' = TasksOf(g) \cup {t}
    BY <1>1, <2>3, <2>4, <2>5 DEF TasksOf
  <2> QED BY <2>1, <2>6
<1>4. t \notin Handed /\ g \notin Handed /\ Handed \subseteq Tasks
  BY <1>1, TasksOfType, HandedBy
<1>5. Undisturbed
  BY <1>1, <1>3, <1>4 DEF Undisturbed, Created, Has, Finishing, ObjectsTypeOK, Objects
<1>6. Grouped'
  <2>1. Distinct(members[g])'
    <3>1. members'[g] = Append(members[g], t) /\ members[g] \in Seq(Tasks) /\ Distinct(members[g])
      BY DEF Grouped, ObjectsTypeOK
    <3>2. ~Among(t, members[g])
      BY <1>1 DEF Among, TasksOf
    <3> QED BY <3>1, <3>2, AppendAmong
  <2>2. \A h \in Groups : Distinct(members[h])'
    BY <2>1 DEF Grouped, Distinct, ObjectsTypeOK
  <2>3. \A h \in Groups : (members[h] # <<>> => life[h] # "none")'
    BY <1>1 DEF Grouped, Created, ObjectsTypeOK
  <2>4. \A h \in Groups : \A u \in TasksOf(h)' :
          /\ u \notin added'
          /\ life'[u] # "none"
          /\ waitable'[u] = waitable'[h]
          /\ \A k \in Groups : u \in TasksOf(k)' => k = h
    <3>1. \A h \in Groups : h \in Objects /\ h \notin Tasks /\ TasksOf(h) \subseteq Tasks
      BY TasksOfType, NamesAssumption DEF Objects
    <3>2. life'[t] = "alive" /\ \A u \in Tasks : u # t => life'[u] = life[u]
      BY DEF Created, ObjectsTypeOK, Objects
    <3>3. /\ waitable'[t] = waitable[g]
          /\ \A o \in Objects : o # t => waitable'[o] = waitable[o]
      BY <1>1 DEF ObjectsTypeOK
    <3> QED BY <1>1, <1>3, <3>1, <3>2, <3>3 DEF Grouped, Objects
  <2> QED BY <2>2, <2>3, <2>4 DEF Grouped
<1>7. Allocated'
  BY <1>1 DEF Allocated, Created, ObjectsTypeOK, Objects
<1>8. InItsCall'
  BY DEF InItsCall
<1>10. HasJob'
  BY DEF HasJob
<1> QED BY <1>2, <1>5, <1>6, <1>7, <1>8, <1>10, UndisturbedInv

\* dispatch_group_perform runs tasks that nobody else knows of.
LEMMA GroupPerformInv ==
  ASSUME Inv, NEW g \in Groups, GroupPerform(g) PROVE Inv' /\ Undisturbed
<1> USE DEF Inv, Labelled, GroupPerform, callVars, objectVars
<1>1. g \in Objects /\ g \notin added /\ TasksOf(g) \subseteq Tasks
  BY TasksOfType DEF Objects, Unused
<1>2. \A t \in TasksOf(g) : t \notin Handed
  BY <1>1, HandedBy DEF Grouped
<1>3. \A t \in Tasks : performed'[t] = performed[t] + IF t \in TasksOf(g) THEN 1 ELSE 0
  OBVIOUS
<1>4. performed \in [Tasks -> Nat] /\ performed' \in [Tasks -> Nat]
  BY DEF ObjectsTypeOK
<1>5. ObjectsTypeOK'
  BY <1>4 DEF ObjectsTypeOK
<1>6. Undisturbed
  <2>1. \A t \in Handed : performed'[t] = performed[t]
    BY <1>2, <1>3, <1>4, TasksOfType
  <2>2. UNCHANGED <<queue, pc, job, objectVars, callVars>>
    OBVIOUS
  <2> HIDE DEF GroupPerform, Inv
  <2> QED BY <2>1, <2>2 DEF Undisturbed, Has, Finishing, TasksOf
<1>7. Grouped'
  BY GroupedStays
<1>8. Allocated'
  <2>1. \A t \in TasksOf(g) : life[t] # "none"
    BY DEF Grouped
  <2>2. \A t \in Tasks : t \notin TasksOf(g) => performed'[t] = performed[t]
    BY <1>3, <1>4
  <2>3. \A t \in Tasks : performed[t] > 0 => performed'[t] > 0
    BY <1>3, <1>4
  <2> QED BY <2>1, <2>2, <2>3 DEF Allocated
<1>9. InItsCall'
  BY DEF InItsCall
<1>10. HasJob'
  BY DEF HasJob
<1> QED BY <1>5, <1>6, <1>7, <1>8, <1>9, <1>10, UndisturbedInv

LEMMA TaskDeleteInv ==
  ASSUME Inv, NEW t \in Tasks, TaskDelete(t) PROVE Inv' /\ Undisturbed
<1> USE DEF Inv, Labelled, TaskDelete, callVars
<1>1. t \in Objects /\ life \in [Objects -> {"none", "alive", "freed"}]
  BY DEF Objects, ObjectsTypeOK
<1>2. life'[t] = "freed" /\ \A o \in Objects : o # t => life'[o] = life[o]
  BY <1>1 DEF TasksDeleted
<1>3. ObjectsTypeOK'
  BY <1>1 DEF ObjectsTypeOK, TasksDeleted
<1>4. Undisturbed
  <2>1. \A u \in Handed : life'[u] = life[u]
    BY <1>2, TasksOfType DEF Objects
  <2> QED BY <2>1 DEF Undisturbed, Has, Finishing, TasksOf
<1>5. Grouped'
  BY <1>2, GroupedStays
<1>6. Allocated'
  BY <1>2 DEF Allocated, ObjectsTypeOK, Objects
<1>7. InItsCall'
  BY DEF InItsCall
<1>10. HasJob'
  BY DEF HasJob
<1> QED BY <1>3, <1>4, <1>5, <1>6, <1>7, <1>10, UndisturbedInv

LEMMA GroupDeleteInv ==
  ASSUME Inv, NEW g \in Groups, GroupDelete(g) PROVE Inv' /\ Undisturbed
<1> USE DEF Inv, Labelled, GroupDelete, callVars
<1>1. g \in Objects /\ g \notin Tasks /\ life \in [Objects -> {"none", "alive", "freed"}]
  BY NamesAssumption DEF Objects, ObjectsTypeOK
<1>2. life'[g] = "freed" /\ \A o \in Objects : o # g => life'[o] = life[o]
  BY <1>1
<1>3. ObjectsTypeOK'
  BY <1>1 DEF ObjectsTypeOK
<1>4. Undisturbed
  <2>1. \A t \in Handed : life'[t] = life[t]
    BY <1>1, <1>2, TasksOfType DEF Objects
  <2> QED BY <2>1 DEF Undisturbed, Has, Finishing, TasksOf
<1>5. Grouped'
  BY <1>2, GroupedStays
<1>6. Allocated'
  BY <1>1, <1>2 DEF Allocated, ObjectsTypeOK, Objects
<1>7. InItsCall'
  BY DEF InItsCall
<1>10. HasJob'
  BY DEF HasJob
<1> QED BY <1>3, <1>4, <1>5, <1>6, <1>7, <1>10, UndisturbedInv

LEMMA ObjectCallInv == ASSUME Inv, ObjectCall PROVE Inv' /\ Undisturbed /\ UNCHANGED <<pc, job>>
<1>1. CASE \E g \in Groups, w \in BOOLEAN : GroupCreate(g, w)
  BY <1>1, GroupCreateInv DEF GroupCreate
<1>2. CASE \E g \in Groups, t \in Tasks : GroupTaskAdd(g, t)
  BY <1>2, GroupTaskAddInv DEF GroupTaskAdd
<1>3. CASE \E g \in Groups : GroupPerform(g)
  BY <1>3, GroupPerformInv DEF GroupPerform
<1>4. CASE \E g \in Groups : GroupDelete(g)
  BY <1>4, GroupDeleteInv DEF GroupDelete
<1>5. CASE \E t \in Tasks : TaskDelete(t)
  BY <1>5, TaskDeleteInv DEF TaskDelete
<1> QED BY <1>1, <1>2, <1>3, <1>4, <1>5 DEF ObjectCall

-----------------------------------------------------------------------------
(***************************************************************************)
(* Nor does the end of an add, the begin of a wait or a token.             *)
(***************************************************************************)
LEMMA AddReturnsInv == ASSUME Inv, AddReturns PROVE Inv' /\ Undisturbed
<1> USE DEF Inv, Labelled, AddReturns, objectVars, Goto
<1>1. pc' = [pc EXCEPT ![Client] = "idle"] /\ Labelled' /\ Client \in Threads
  BY DEF Threads
<1>2. ObjectsTypeOK'
  BY DEF ObjectsTypeOK
<1>3. Undisturbed
  BY DEF Undisturbed, Has, Finishing, TasksOf, Holding
<1>4. Grouped' /\ Allocated'
  BY GroupedStays DEF Allocated
<1>5. InItsCall' /\ HasJob'
  BY <1>1 DEF InItsCall, HasJob, Adding, Waiting, Holding, ObjectsTypeOK
<1> QED BY <1>1, <1>2, <1>3, <1>4, <1>5, UndisturbedInv

LEMMA WaitBeginsInv ==
  ASSUME Inv, NEW o \in Objects, WaitBegins(o) PROVE Inv' /\ Undisturbed
<1> USE DEF Inv, Labelled, WaitBegins, objectVars, Goto
<1>1. pc' = [pc EXCEPT ![Client] = "wait"] /\ Labelled' /\ Client \in Threads
  BY DEF Threads
<1>2. ObjectsTypeOK'
  BY DEF ObjectsTypeOK
<1>3. Undisturbed
  BY DEF Undisturbed, Has, Finishing, TasksOf, Holding, InItsCall, Adding
<1>4. Grouped' /\ Allocated'
  BY GroupedStays DEF Allocated
<1>5. InItsCall' /\ HasJob'
  BY <1>1 DEF InItsCall, HasJob, Adding, Waiting, Holding, ObjectsTypeOK
<1> QED BY <1>1, <1>2, <1>3, <1>4, <1>5, UndisturbedInv

\* Where a thread may go on that is done with its task: not to anything that is done
\* with a task, and the client is still in its add.
After(e, label) ==
  /\ label \notin Holding \cup {"finish"}
  /\ e = Client => label \in Adding

LEMMA SendTokenInv ==
  ASSUME Inv, NEW e \in Threads, NEW label, After(e, label), SendToken(e, label)
  PROVE  Inv' /\ Undisturbed
<1> USE DEF Inv, Labelled, SendToken, callVars, Goto, After
<1>1. pc' = [pc EXCEPT ![e] = label] /\ Labelled'
  OBVIOUS
<1>2. ObjectsTypeOK'
  <2>1. PICK k : counter' = [counter EXCEPT ![k].token = TRUE]
    OBVIOUS
  <2>2. counter' \in Counters
    <3>1. counter \in Counters
      BY DEF ObjectsTypeOK, Counters
    <3> HIDE DEF SendToken, Inv
    <3> QED BY <2>1, <3>1, CounterUpdates
  <2>3. UNCHANGED <<queue, job, life, waitable, private_data, members, callVars, performed>>
    OBVIOUS
  <2> HIDE DEF SendToken
  <2> QED BY <2>2, <2>3 DEF ObjectsTypeOK, Counters
<1>3. Undisturbed
  <2>1. \A o \in Objects : counter'[o].life = counter[o].life /\ counter'[o].count = counter[o].count
    BY DEF ObjectsTypeOK
  <2>2. \A f \in Threads, t \in Tasks : /\ Has(f, t)' <=> Has(f, t)
                                        /\ Finishing(f, t)' <=> Finishing(f, t)
    BY DEF Has, Finishing, Holding
  <2>3. \A o \in added : TasksOf(o)' = TasksOf(o)
    BY <2>2 DEF TasksOf
  <2> HIDE DEF Move
  <2> QED BY <2>1, <2>2, <2>3 DEF Undisturbed
<1>4. Grouped' /\ Allocated'
  BY GroupedStays DEF Allocated
<1>5. InItsCall'
  BY DEF InItsCall, Adding, Waiting
<1>6. HasJob'
  BY DEF HasJob, Holding
<1> QED BY <1>1, <1>2, <1>3, <1>4, <1>5, <1>6, UndisturbedInv

-----------------------------------------------------------------------------
(***************************************************************************)
(* What is in a sequence, and how much.                                    *)
(***************************************************************************)
LEMMA TailAmong ==
  ASSUME NEW S, NEW s \in Seq(S), s # <<>>, Distinct(s)
  PROVE  /\ Head(s) \in S
         /\ Tail(s) \in Seq(S)
         /\ Distinct(Tail(s))
         /\ Among(Head(s), s)
         /\ ~Among(Head(s), Tail(s))
         /\ \A t : t # Head(s) => (Among(t, Tail(s)) <=> Among(t, s))
<1>1. /\ Len(s) \in Nat \ {0}
      /\ DOMAIN s = 1..Len(s)
      /\ Head(s) = s[1]
      /\ Tail(s) \in Seq(S)
      /\ DOMAIN Tail(s) = 1..(Len(s) - 1)
      /\ \A i \in 1..(Len(s) - 1) : Tail(s)[i] = s[i + 1]
  BY HeadTailProperties, EmptySeq
<1>2. 1 \in DOMAIN s /\ Head(s) \in S
  BY <1>1
<1>3. \A i \in DOMAIN Tail(s) : i + 1 \in DOMAIN s /\ i + 1 # 1
  BY <1>1
<1>4. \A i \in DOMAIN s : i # 1 => i - 1 \in DOMAIN Tail(s) /\ Tail(s)[i - 1] = s[i]
  BY <1>1
<1>5. Distinct(Tail(s)) /\ ~Among(Head(s), Tail(s))
  BY <1>1, <1>2, <1>3 DEF Distinct, Among
<1>6. \A t : t # Head(s) => (Among(t, Tail(s)) <=> Among(t, s))
  BY <1>1, <1>3, <1>4 DEF Among
<1> QED BY <1>1, <1>2, <1>5, <1>6 DEF Among

LEMMA DistinctCount ==
  ASSUME NEW S, NEW s \in Seq(S), Distinct(s)
  PROVE  LET R == {s[i] : i \in DOMAIN s} IN IsFiniteSet(R) /\ Cardinality(R) = Len(s)
<1> DEFINE R == {s[i] : i \in DOMAIN s}
<1>1. Len(s) \in Nat /\ DOMAIN s = 1..Len(s) /\ s = [i \in 1..Len(s) |-> s[i]]
  OBVIOUS
<1>2. s \in Bijection(1..Len(s), R)
  BY <1>1 DEF Bijection, Injection, IsInjective, Surjection, Distinct
<1>3. ExistsBijection(1..Len(s), R)
  BY <1>2 DEF ExistsBijection
<1> HIDE DEF R
<1>4. IsFiniteSet(R) /\ Cardinality(R) = Len(s)
  BY <1>1, <1>3, FS_NatBijection, FS_CountingElements
<1> QED BY <1>4 DEF R

\* The tasks of an object are finitely many, and so are those still outstanding.
LEMMA TasksFinite ==
  ASSUME Inv, NEW o \in Objects
  PROVE  /\ IsFiniteSet(TasksOf(o))
         /\ o \in Tasks => Cardinality(TasksOf(o)) = 1
         /\ o \in Groups => Cardinality(TasksOf(o)) = Len(members[o])
         /\ IsFiniteSet(Outstanding(o))
         /\ Cardinality(Outstanding(o)) \in Nat
         /\ Cardinality(Outstanding(o)) = 0 <=> Outstanding(o) = {}
<1>1. o \in Tasks => IsFiniteSet(TasksOf(o)) /\ Cardinality(TasksOf(o)) = 1
  BY FS_Singleton DEF TasksOf
<1>2. ASSUME o \in Groups
      PROVE  IsFiniteSet(TasksOf(o)) /\ Cardinality(TasksOf(o)) = Len(members[o])
  <2>1. members[o] \in Seq(Tasks) /\ Distinct(members[o])
    BY <1>2 DEF Inv, ObjectsTypeOK, Grouped
  <2>2. o \notin Tasks
    BY <1>2, NamesAssumption
  <2> QED BY <2>1, <2>2, DistinctCount DEF TasksOf
<1>3. IsFiniteSet(TasksOf(o))
  BY <1>1, <1>2 DEF Objects
<1>4. Outstanding(o) \subseteq TasksOf(o)
  BY DEF Outstanding
<1>5. IsFiniteSet(Outstanding(o))
  BY <1>3, <1>4, FS_Subset
<1> QED BY <1>1, <1>2, <1>3, <1>5, FS_CardinalityType, FS_EmptySet DEF Objects

\* A task has been added once, and is waitable as what it was added with.
LEMMA AddedOnce ==
  ASSUME Inv, NEW o \in added, NEW t \in TasksOf(o)
  PROVE  /\ t \in Tasks /\ t \in Handed /\ o \in Objects
         /\ waitable[t] = waitable[o]
         /\ life[t] # "none"
         /\ \A p \in added : t \in TasksOf(p) => p = o
<1> USE DEF Inv
<1>1. added \subseteq Objects /\ t \in Tasks /\ t \in Handed /\ o \in Objects
  BY TasksOfType DEF ObjectsTypeOK
<1>2. \A p \in Tasks : t \in TasksOf(p) <=> t = p
  BY DEF TasksOf
<1>3. CASE o \in Tasks
  BY <1>1, <1>2, <1>3 DEF Grouped, Allocated, Objects
<1>4. CASE o \in Groups
  BY <1>1, <1>2, <1>4 DEF Grouped, Objects
<1> QED BY <1>1, <1>3, <1>4 DEF Objects

-----------------------------------------------------------------------------
(***************************************************************************)
(* An add begins: the tasks of o are still to be sent.                     *)
(***************************************************************************)
LEMMA BeginAddInv ==
  ASSUME Inv, pc[Client] = "idle",
         NEW o \in Objects, NEW s \in Seq(Tasks), NEW w \in BOOLEAN, BeginAdd(o, s, w),
         o \notin added, Distinct(s), s # <<>>,
         \A t : Among(t, s) <=> t \in TasksOf(o),
         Cardinality(TasksOf(o)) = Len(s),
         \A t \in TasksOf(o) : performed[t] = 0 /\ t \notin Handed,
         \A t \in Handed : life'[t] = life[t],
         \A p \in added : waitable'[p] = waitable[p],
         waitable'[o] = w
  PROVE  /\ Labelled' /\ InItsCall' /\ HasJob' /\ ToSend' /\ Queued' /\ Owned' /\ NotLost'
         /\ Given' /\ Counted' /\ Disposed'
         /\ Handed' = Handed \cup TasksOf(o)
<1> USE DEF Inv, BeginAdd, Goto
<1>1. /\ Client \in Threads /\ todo = <<>>
      /\ pc'[Client] = "each" /\ \A e \in Threads : e # Client => pc'[e] = pc[e]
  BY DEF Threads, InItsCall, Adding, Labelled
<1>2. Labelled' /\ InItsCall' /\ HasJob'
  BY <1>1 DEF Labelled, InItsCall, HasJob, Adding, Waiting, Holding
<1>3. /\ added \subseteq Objects /\ pending \subseteq added
      /\ \A p \in Objects : TasksOf(p) \subseteq Tasks
      /\ \A t : t \in Handed <=> \E p \in added : t \in TasksOf(p)
      /\ Handed \subseteq Tasks
  BY TasksOfType DEF ObjectsTypeOK
<1>4. \A p : TasksOf(p)' = TasksOf(p)
  BY DEF TasksOf
<1>5. Handed' = Handed \cup TasksOf(o)
  BY <1>4 DEF Handed
<1>6. \A e \in Threads, t \in Tasks : /\ Has(e, t)' <=> Has(e, t)
                                      /\ Finishing(e, t)' <=> Finishing(e, t)
                                      /\ Owns(e, t)' <=> Owns(e, t)
  BY <1>1 DEF Has, Finishing, Owns
<1>7. \A t : ~Among(t, todo)
  BY <1>1 DEF Among
<1>8. \A t \in TasksOf(o) : ~Among(t, queue) /\ \A e \in Threads : ~Owns(e, t)
  BY <1>3 DEF Queued, Owned
<1>9. \A t : /\ Among(t, todo)' <=> t \in TasksOf(o)
             /\ Among(t, queue)' <=> Among(t, queue)
  BY DEF Among
<1>10. ToSend'
  BY <1>3, <1>4, <1>6, <1>8, <1>9 DEF ToSend, Distinct
<1>11. Queued' /\ Owned'
  <2>1. \A e \in Threads, t \in Tasks : Finishing(e, t) => Owns(e, t)
    BY DEF Owns
  <2> QED BY <1>3, <1>5, <1>6, <1>9, <2>1 DEF Queued, Owned, Distinct
<1>12. NotLost'
  BY <1>3, <1>5, <1>6, <1>7, <1>9 DEF NotLost
<1>13. Given'
  BY <1>3, <1>4, <1>7, <1>9 DEF Given
<1>14. Counted'
  <2>1. \A p \in added : Outstanding(p)' = Outstanding(p)
    BY <1>3, <1>4, <1>6 DEF Outstanding
  <2>2. Outstanding(o)' = TasksOf(o)
    BY <1>4 DEF Outstanding
  <2>3. /\ \A p \in Objects : p # o => counter'[p] = counter[p]
        /\ w => counter'[o].life = "alive" /\ counter'[o].count = Len(s)
        /\ ~w => counter'[o] = counter[o]
    BY DEF event_counter_create, ObjectsTypeOK
  <2>4. \A p \in Objects : counter'[p].life = "alive" => p \in pending'
    BY <2>3 DEF Counted
  <2>5. \A p \in added : p \in pending' <=> p \in pending
    OBVIOUS
  <2> QED BY <1>3, <2>1, <2>2, <2>3, <2>4, <2>5 DEF Counted
<1>15. Disposed'
  BY <1>3, <1>4, <1>6 DEF Disposed
<1> QED BY <1>2, <1>5, <1>10, <1>11, <1>12, <1>13, <1>14, <1>15

LEMMA FunctionAddInv ==
  ASSUME Inv, NEW t \in Tasks, NEW w \in BOOLEAN, FunctionAdd(t, w)
  PROVE  Inv' /\ Handed' = Handed \cup TasksOf(t)
<1> life[t] = "none"
  BY DEF FunctionAdd, Fresh
<1> USE DEF Inv, FunctionAdd
<1>1. /\ t \in Objects /\ t \notin added /\ TasksOf(t) = {t} /\ performed[t] = 0
      /\ life \in [Objects -> {"none", "alive", "freed"}]
      /\ waitable \in [Objects -> BOOLEAN]
  BY DEF Objects, TasksOf, Allocated, ObjectsTypeOK
<1>2. t \notin Handed
  BY <1>1, HandedBy DEF Grouped
<1>3. /\ life'[t] = "alive" /\ \A o \in Objects : o # t => life'[o] = life[o]
      /\ waitable'[t] = w /\ \A o \in Objects : o # t => waitable'[o] = waitable[o]
  BY <1>1 DEF Created
<1>4. /\ <<t>> \in Seq(Tasks) /\ <<t>> # <<>> /\ Len(<<t>>) = 1 /\ Distinct(<<t>>)
      /\ \A u : Among(u, <<t>>) <=> u = t
  BY DEF Distinct, Among
<1>5. ObjectsTypeOK'
  BY <1>1, <1>4 DEF ObjectsTypeOK, BeginAdd, Created, event_counter_create
<1>6. Grouped'
  BY <1>3, GroupedStays DEF BeginAdd
<1>7. Allocated'
  <2>1. added' = added \cup {t} /\ UNCHANGED <<members, performed>> /\ t \notin Groups
    BY NamesAssumption DEF BeginAdd
  <2>2. added \subseteq Objects /\ Tasks \subseteq Objects
    BY DEF ObjectsTypeOK, Objects
  <2> HIDE DEF FunctionAdd
  <2> QED BY <1>1, <1>3, <2>1, <2>2 DEF Allocated
<1>8. /\ \A u \in Handed : life'[u] = life[u]
      /\ \A p \in added : waitable'[p] = waitable[p]
  BY <1>1, <1>2, <1>3, TasksOfType DEF Objects, ObjectsTypeOK
<1>9. Cardinality(TasksOf(t)) = Len(<<t>>)
  BY <1>1, <1>4, TasksFinite
<1> QED BY <1>1, <1>2, <1>3, <1>4, <1>5, <1>6, <1>7, <1>8, <1>9, BeginAddInv

LEMMA GroupAddBeginsInv ==
  ASSUME Inv, NEW g \in Groups, GroupAddBegins(g)
  PROVE  Inv' /\ Handed' = Handed \cup TasksOf(g)
<1> USE DEF Inv, GroupAddBegins
<1>1. /\ g \in Objects /\ g \notin Tasks /\ g \notin added
      /\ \A t \in TasksOf(g) : performed[t] = 0
      /\ members[g] \in Seq(Tasks) /\ Distinct(members[g]) /\ waitable[g] \in BOOLEAN
  BY NamesAssumption DEF Objects, Unused, ObjectsTypeOK, Grouped
<1>2. \A t : Among(t, members[g]) <=> t \in TasksOf(g)
  BY <1>1 DEF Among, TasksOf
<1>3. \A t \in TasksOf(g) : t \notin Handed
  BY <1>1, HandedBy, TasksOfType DEF Grouped
<1>4. ObjectsTypeOK'
  BY <1>1 DEF ObjectsTypeOK, BeginAdd, event_counter_create
<1>5. Grouped'
  BY <1>1, GroupedStays DEF BeginAdd
<1>6. Allocated'
  BY <1>1 DEF Allocated, BeginAdd
<1>7. Cardinality(TasksOf(g)) = Len(members[g])
  BY <1>1, TasksFinite
<1> QED BY <1>1, <1>2, <1>3, <1>4, <1>5, <1>6, <1>7, BeginAddInv

-----------------------------------------------------------------------------
(***************************************************************************)
(* The way of a task: to the client's hands, into the queue, to a worker.  *)
(***************************************************************************)
LEMMA NextTaskInv ==
  ASSUME Inv, NEW label \in {"scan", "send"}, NextTask(label)
  PROVE  Inv' /\ Handed' = Handed
<1> USE DEF Inv, NextTask, Goto
<1> DEFINE h == Head(todo)
<1>1. /\ Client \in Threads
      /\ pc'[Client] = label /\ \A e \in Threads : e # Client => pc'[e] = pc[e]
      /\ job'[Client] = h /\ \A e \in Threads : e # Client => job'[e] = job[e]
      /\ Labelled'
  BY DEF Threads, Labelled, ObjectsTypeOK
<1>2. /\ h \in Tasks /\ todo' \in Seq(Tasks) /\ Distinct(todo')
      /\ Among(h, todo) /\ ~Among(h, todo')
      /\ \A t : t # h => (Among(t, todo') <=> Among(t, todo))
  BY TailAmong DEF ToSend, ObjectsTypeOK
<1> HIDE DEF h
<1>3. call \in added /\ call \in Objects
  BY DEF InItsCall, Adding, ObjectsTypeOK
<1>4. /\ h \in TasksOf(call) /\ performed[h] = 0 /\ ~Among(h, queue)
      /\ \A e \in Threads : ~Owns(e, h)
  BY <1>2 DEF ToSend
<1>5. /\ private_data'[h] = IF waitable[call] THEN call ELSE None
      /\ \A t \in Tasks : t # h => private_data'[t] = private_data[t]
  BY <1>2 DEF ObjectsTypeOK, h
<1>6. ObjectsTypeOK'
  BY <1>2, <1>3 DEF ObjectsTypeOK, h
<1>7. Grouped' /\ Allocated'
  BY GroupedStays DEF Allocated
<1>8. InItsCall' /\ HasJob'
  BY <1>1, <1>2, <1>3 DEF InItsCall, HasJob, Adding, Waiting, Holding
<1>9. /\ \A p : TasksOf(p)' = TasksOf(p)
      /\ Handed' = Handed
  BY DEF TasksOf, Handed
<1>10. /\ \A p \in Objects : TasksOf(p) \subseteq Tasks
       /\ \A t : t \in Handed <=> \E p \in added : t \in TasksOf(p)
       /\ Handed \subseteq Tasks /\ added \subseteq Objects
  BY TasksOfType DEF ObjectsTypeOK
<1>11. \A e \in Threads, t \in Tasks :
         /\ Has(e, t)' <=> Has(e, t) \/ (e = Client /\ t = h)
         /\ Finishing(e, t)' <=> Finishing(e, t)
         /\ Owns(e, t)' <=> Owns(e, t) \/ (e = Client /\ t = h)
         /\ Finishing(e, t) \/ Has(e, t) => Owns(e, t)
  BY <1>1 DEF Has, Finishing, Owns
<1>12. ToSend'
  BY <1>2, <1>9, <1>11 DEF ToSend, Among
<1>13. Queued'
  BY <1>4, <1>9, <1>11 DEF Queued, Among, Distinct
<1>14. Owned'
  BY <1>1, <1>3, <1>4, <1>9, <1>10, <1>11 DEF Owned
<1>15. NotLost'
  BY <1>1, <1>2, <1>9, <1>10, <1>11 DEF NotLost
<1>16. Given'
  <2>1. \A o \in added : h \in TasksOf(o) => o = call
    BY <1>3, <1>4, AddedOnce
  <2> QED BY <1>2, <1>5, <1>9, <1>10, <2>1 DEF Given
<1>17. Counted' /\ Disposed'
  <2>1. \A o \in added : Outstanding(o)' = Outstanding(o)
    BY <1>9, <1>10, <1>11 DEF Outstanding
  <2> QED BY <1>9, <1>10, <1>11, <2>1 DEF Counted, Disposed
<1> QED BY <1>1, <1>6, <1>7, <1>8, <1>9, <1>12, <1>13, <1>14, <1>15, <1>16, <1>17

\* The client sends its task; the workers keep what they have.
SendStep ==
  /\ pc[Client] = "send"
  /\ \E labels : Enqueue(labels)
  /\ Labelled'
  /\ pc'[Client] \in {"each", "notify"}
  /\ \A w \in Workers : /\ pc'[w] \in Holding <=> pc[w] \in Holding
                        /\ pc'[w] = "finish" <=> pc[w] = "finish"
                        /\ pc'[w] \in Taken <=> pc[w] \in Taken
                        /\ pc'[w] = "token" <=> pc[w] = "token"

LEMMA SendStepInv == ASSUME Inv, SendStep PROVE Inv' /\ Handed' = Handed
<1> USE DEF Inv, SendStep, Enqueue, objectVars, callVars
<1> DEFINE h == job[Client]
<1>1. /\ Client \in Threads
      /\ \A e \in Threads : e # Client => e \in Workers
  BY DEF Threads
<1>2. h \in Tasks /\ Has(Client, h) /\ Owns(Client, h)
  BY <1>1 DEF HasJob, Holding, Has, Owns
<1>3. /\ h \in Handed /\ performed[h] = 0 /\ ~Among(h, queue) /\ ~Among(h, todo)
      /\ \A e \in Threads : Owns(e, h) => e = Client
  BY <1>1, <1>2 DEF Owned, Queued, ToSend
<1>4. /\ queue' \in Seq(Tasks) /\ Distinct(queue')
      /\ \A t : Among(t, queue') <=> Among(t, queue) \/ t = h
  BY <1>2, <1>3, AppendAmong DEF Queued, ObjectsTypeOK
<1> HIDE DEF h
<1>5. ObjectsTypeOK'
  BY <1>4 DEF ObjectsTypeOK
<1>6. Grouped' /\ Allocated'
  BY GroupedStays DEF Allocated
<1>7. InItsCall' /\ HasJob'
  BY <1>1 DEF InItsCall, HasJob, Adding, Waiting, Holding
<1>8. /\ \A p : TasksOf(p)' = TasksOf(p)
      /\ Handed' = Handed
  BY DEF TasksOf, Handed
<1>9. /\ \A p \in Objects : TasksOf(p) \subseteq Tasks
      /\ \A t : t \in Handed <=> \E p \in added : t \in TasksOf(p)
      /\ Handed \subseteq Tasks /\ added \subseteq Objects
  BY TasksOfType DEF ObjectsTypeOK
<1>10. \A e \in Threads, t \in Tasks :
         /\ Has(e, t)' <=> Has(e, t) /\ ~(e = Client /\ t = h)
         /\ Finishing(e, t)' <=> Finishing(e, t)
         /\ Owns(e, t)' <=> Owns(e, t) /\ ~(e = Client /\ t = h)
         /\ Finishing(e, t) \/ Has(e, t) => Owns(e, t)
  BY <1>1 DEF Has, Finishing, Owns, Holding, h
<1>11. ToSend'
  BY <1>3, <1>4, <1>8, <1>10 DEF ToSend
<1>12. Queued'
  BY <1>3, <1>4, <1>8, <1>10 DEF Queued
<1>13. Owned'
  BY <1>8, <1>9, <1>10 DEF Owned
<1>14. NotLost'
  BY <1>4, <1>8, <1>9, <1>10 DEF NotLost
<1>15. Given'
  BY <1>8, <1>9 DEF Given, Among
<1>16. Counted' /\ Disposed'
  <2>1. \A o \in added : Outstanding(o)' = Outstanding(o)
    BY <1>8, <1>9, <1>10 DEF Outstanding
  <2> QED BY <1>8, <1>9, <1>10, <2>1 DEF Counted, Disposed
<1> QED BY <1>5, <1>6, <1>7, <1>8, <1>11, <1>12, <1>13, <1>14, <1>15, <1>16

LEMMA DequeueInv ==
  ASSUME Inv, NEW w \in Workers, pc[w] \notin Holding \cup {"finish"}, NEW label \in Taken,
         Dequeue(w, label)
  PROVE  Inv' /\ Handed' = Handed
<1> USE DEF Inv, Dequeue, Goto, objectVars, callVars
<1> DEFINE h == Head(queue)
<1>1. /\ w \in Threads /\ w # Client /\ Client \in Threads
      /\ pc'[w] = label /\ \A e \in Threads : e # w => pc'[e] = pc[e]
      /\ job'[w] = h /\ \A e \in Threads : e # w => job'[e] = job[e]
      /\ Labelled'
  BY NamesAssumption DEF Threads, Labelled, ObjectsTypeOK
<1>2. /\ h \in Tasks /\ queue' \in Seq(Tasks) /\ Distinct(queue')
      /\ Among(h, queue) /\ ~Among(h, queue')
      /\ \A t : t # h => (Among(t, queue') <=> Among(t, queue))
  BY TailAmong DEF Queued, ObjectsTypeOK
<1> HIDE DEF h
<1>3. /\ h \in Handed /\ performed[h] = 0 /\ ~Among(h, todo)
      /\ \A e \in Threads : ~Owns(e, h)
  BY <1>2 DEF Queued, ToSend
<1>4. ObjectsTypeOK'
  BY <1>2 DEF ObjectsTypeOK, h
<1>5. Grouped' /\ Allocated'
  BY GroupedStays DEF Allocated
<1>6. InItsCall' /\ HasJob'
  BY <1>1, <1>2 DEF InItsCall, HasJob, Adding, Waiting, Holding
<1>7. /\ \A p : TasksOf(p)' = TasksOf(p)
      /\ Handed' = Handed
  BY DEF TasksOf, Handed
<1>8. /\ \A p \in Objects : TasksOf(p) \subseteq Tasks
      /\ \A t : t \in Handed <=> \E p \in added : t \in TasksOf(p)
      /\ Handed \subseteq Tasks /\ added \subseteq Objects
  BY TasksOfType DEF ObjectsTypeOK
<1>9. \A e \in Threads, t \in Tasks :
        /\ Has(e, t)' <=> Has(e, t) \/ (e = w /\ t = h)
        /\ Finishing(e, t)' <=> Finishing(e, t)
        /\ Owns(e, t)' <=> Owns(e, t) \/ (e = w /\ t = h)
        /\ Finishing(e, t) \/ Has(e, t) => Owns(e, t)
  BY <1>1 DEF Has, Finishing, Owns, Holding, Taken
<1>10. ToSend'
  BY <1>2, <1>3, <1>7, <1>9 DEF ToSend
<1>11. Queued'
  BY <1>2, <1>7, <1>9 DEF Queued
<1>12. Owned'
  BY <1>1, <1>3, <1>7, <1>8, <1>9 DEF Owned
<1>13. NotLost'
  BY <1>1, <1>2, <1>7, <1>8, <1>9 DEF NotLost
<1>14. Given'
  BY <1>7, <1>8 DEF Given
<1>15. Counted' /\ Disposed'
  <2>1. \A o \in added : Outstanding(o)' = Outstanding(o)
    BY <1>7, <1>8, <1>9 DEF Outstanding
  <2> QED BY <1>7, <1>8, <1>9, <2>1 DEF Counted, Disposed
<1> QED BY <1>1, <1>4, <1>5, <1>6, <1>7, <1>10, <1>11, <1>12, <1>13, <1>14, <1>15

\* A task that somebody has in his hands.
LEMMA InHands ==
  ASSUME Inv, NEW e \in Threads, NEW t \in Tasks, Owns(e, t)
  PROVE  /\ t \in Handed /\ life[t] = "alive" /\ t \in Objects
         /\ ~Among(t, todo) /\ ~Among(t, queue)
         /\ \A f \in Threads : Owns(f, t) => f = e
<1> USE DEF Inv
<1>1. t \in Handed /\ ~Among(t, todo) /\ ~Among(t, queue) /\ \A f \in Threads : Owns(f, t) => f = e
  BY DEF Owned, ToSend, Queued
<1>2. life[t] # "none"
  BY <1>1, TasksOfType, AddedOnce
<1>3. performed[t] = 0 => life[t] # "freed"
  BY DEF Allocated
<1>4. performed[t] = 0 \/ life[t] = "alive"
  BY DEF Owned, Owns
<1> QED BY <1>1, <1>2, <1>3, <1>4 DEF ObjectsTypeOK, Objects

LEMMA PerformInv ==
  ASSUME Inv, NEW e \in Threads, Perform(e) PROVE Inv' /\ Handed' = Handed
<1> USE DEF Inv, Perform, Goto, objectVars, callVars
<1> DEFINE h == job[e]
<1>1. /\ pc'[e] = "finish" /\ \A f \in Threads : f # e => pc'[f] = pc[f]
      /\ Labelled'
  BY DEF Labelled
<1>2. h \in Tasks /\ Has(e, h) /\ Owns(e, h)
  BY DEF HasJob, Holding, Has, Owns
<1>3. /\ h \in Handed /\ life[h] = "alive" /\ performed[h] = 0 /\ ~Among(h, todo) /\ ~Among(h, queue)
      /\ \A f \in Threads : Owns(f, h) => f = e
  BY <1>2, InHands DEF Owned
<1>4. performed'[h] = 1 /\ \A t \in Tasks : t # h => performed'[t] = performed[t]
  BY <1>2, <1>3 DEF ObjectsTypeOK
<1>5. ObjectsTypeOK'
  <2>1. performed' \in [Tasks -> Nat]
    BY <1>2 DEF ObjectsTypeOK
  <2> QED BY <2>1 DEF ObjectsTypeOK
<1> HIDE DEF h
<1>6. Grouped' /\ Allocated'
  <2>1. Allocated'
    BY <1>3, <1>4 DEF Allocated
  <2> QED BY <2>1, GroupedStays
<1>7. InItsCall' /\ HasJob'
  BY <1>1 DEF InItsCall, HasJob, Adding, Waiting, Holding
<1>8. /\ \A p : TasksOf(p)' = TasksOf(p)
      /\ Handed' = Handed
  BY DEF TasksOf, Handed
<1>9. /\ \A p \in Objects : TasksOf(p) \subseteq Tasks
      /\ \A t : t \in Handed <=> \E p \in added : t \in TasksOf(p)
      /\ Handed \subseteq Tasks /\ added \subseteq Objects
  BY TasksOfType DEF ObjectsTypeOK
<1>10. \A f \in Threads, t \in Tasks :
         /\ Has(f, t)' <=> Has(f, t) /\ ~(f = e /\ t = h)
         /\ Finishing(f, t)' <=> Finishing(f, t) \/ (f = e /\ t = h)
         /\ Owns(f, t)' <=> Owns(f, t)
         /\ Finishing(f, t) \/ Has(f, t) => Owns(f, t)
  BY <1>1 DEF Has, Finishing, Owns, h
<1>11. ToSend' /\ Queued'
  <2>1. ToSend'
    BY <1>3, <1>4, <1>8, <1>10 DEF ToSend
  <2>2. Queued'
    BY <1>3, <1>4, <1>8, <1>10 DEF Queued
  <2> QED BY <2>1, <2>2
<1>12. Owned'
  BY <1>3, <1>4, <1>8, <1>10 DEF Owned
<1>13. NotLost'
  BY <1>4, <1>8, <1>9, <1>10 DEF NotLost
<1>14. Given'
  BY <1>8, <1>9 DEF Given
<1>15. Counted' /\ Disposed'
  <2>1. \A o \in added : Outstanding(o)' = Outstanding(o)
    BY <1>3, <1>4, <1>8, <1>9, <1>10 DEF Outstanding
  <2>2. Disposed'
    BY <1>4, <1>8, <1>9, <1>10 DEF Disposed
  <2> QED BY <1>9, <2>1, <2>2 DEF Counted
<1> QED BY <1>1, <1>5, <1>6, <1>7, <1>8, <1>11, <1>12, <1>13, <1>14, <1>15

-----------------------------------------------------------------------------
(***************************************************************************)
(* The end of a task: freed by who has performed it, or counted and then   *)
(* waited for.                                                             *)
(***************************************************************************)
LEMMA DeleteTaskInv ==
  ASSUME Inv, NEW e \in Threads, NEW label, After(e, label), DeleteTask(e, label)
  PROVE  Inv' /\ Handed' = Handed
<1> USE DEF Inv, DeleteTask, Goto, callVars, After
<1>0. PICK h : h = job[e]
  OBVIOUS
<1>1. /\ pc'[e] = label /\ \A f \in Threads : f # e => pc'[f] = pc[f]
      /\ Labelled'
  BY DEF Labelled
<1>2. h \in Tasks /\ Finishing(e, h) /\ Owns(e, h)
  BY <1>0 DEF HasJob, Finishing, Owns
<1>3. /\ h \in Handed /\ h \in Objects /\ performed[h] = 1 /\ life[h] = "alive"
      /\ \A f \in Threads : Owns(f, h) => f = e
  BY <1>2, InHands DEF Owned
<1>4. life'[h] = "freed" /\ \A o \in Objects : o # h => life'[o] = life[o]
  BY <1>0, <1>3 DEF TasksDeleted
<1>5. ObjectsTypeOK'
  BY DEF ObjectsTypeOK, TasksDeleted
<1>6. \A o \in added : h \in TasksOf(o) => ~waitable[o] /\ o \notin pending
  BY <1>0, AddedOnce DEF Counted
<1>7. Grouped' /\ Allocated'
  <2>1. \A o \in Objects : life[o] # "none" => life'[o] # "none"
    BY <1>4
  <2>2. Grouped'
    BY <2>1, GroupedStays
  <2>3. Allocated'
    <3>1. added \subseteq Objects /\ Tasks \subseteq Objects
      BY DEF ObjectsTypeOK, Objects
    <3>2. \A t \in Tasks : life'[t] = "freed" => t = h \/ life[t] = "freed"
      BY <1>4, <3>1
    <3>3. \A t \in Tasks : life'[t] = "none" => life[t] = "none"
      BY <1>4, <3>1
    <3>4. \A o \in added : life'[o] # "none"
      BY <2>1, <3>1 DEF Allocated
    <3>5. \A t \in Tasks : life'[t] = "freed" => performed[t] > 0
      <4>1. performed[h] > 0
        BY <1>3
      <4>2. \A t \in Tasks : life[t] = "freed" => performed[t] > 0
        BY DEF Allocated
      <4> QED BY <3>2, <4>1, <4>2
    <3> QED BY <3>3, <3>4, <3>5 DEF Allocated
  <2> QED BY <2>2, <2>3
<1>8. InItsCall' /\ HasJob'
  BY <1>1 DEF InItsCall, HasJob, Adding, Waiting, Holding
<1>9. /\ \A p : TasksOf(p)' = TasksOf(p)
      /\ Handed' = Handed
  BY DEF TasksOf, Handed
<1>10. /\ \A p \in Objects : TasksOf(p) \subseteq Tasks
       /\ \A t : t \in Handed <=> \E p \in added : t \in TasksOf(p)
       /\ Handed \subseteq Tasks /\ added \subseteq Objects /\ Tasks \subseteq Objects
  BY TasksOfType DEF ObjectsTypeOK, Objects
<1>11. \A f \in Threads, t \in Tasks :
         /\ Has(f, t)' <=> Has(f, t)
         /\ Finishing(f, t)' <=> Finishing(f, t) /\ ~(f = e /\ t = h)
         /\ Owns(f, t)' <=> Owns(f, t) /\ ~(f = e /\ t = h)
         /\ Finishing(f, t) \/ Has(f, t) => Owns(f, t)
  BY <1>0, <1>1 DEF Has, Finishing, Owns, Holding
<1>12. ToSend' /\ Queued'
  BY <1>9, <1>11 DEF ToSend, Queued
<1>13. Owned'
  <2>1. \A f \in Threads, t \in Tasks : Owns(f, t)' => life'[t] = life[t]
    BY <1>3, <1>4, <1>10, <1>11
  <2> QED BY <1>9, <1>11, <2>1 DEF Owned
<1>14. NotLost' /\ Given'
  <2>1. NotLost'
    BY <1>9, <1>10, <1>11 DEF NotLost
  <2> QED BY <1>9, <1>10, <2>1 DEF Given
<1>15. Counted'
  <2>1. \A o \in added : h \notin TasksOf(o) => Outstanding(o)' = Outstanding(o)
    BY <1>9, <1>10, <1>11 DEF Outstanding
  <2> QED BY <1>6, <1>10, <2>1 DEF Counted
<1>16. Disposed'
  BY <1>4, <1>9, <1>10, <1>11 DEF Disposed
<1> QED BY <1>1, <1>5, <1>7, <1>8, <1>9, <1>12, <1>13, <1>14, <1>15, <1>16

\* The count of a task that is about to signal is that of an object somebody has to
\* wait for, and it is not zero.
LEMMA SignalsPending ==
  ASSUME Inv, NEW e \in Threads, pc[e] = "finish", waitable[job[e]]
  PROVE  /\ private_data[job[e]] \in pending
         /\ job[e] \in TasksOf(private_data[job[e]])
         /\ job[e] \in Outstanding(private_data[job[e]])
         /\ counter[private_data[job[e]]].count > 0
         /\ counter[private_data[job[e]]].life = "alive"
<1> USE DEF Inv
<1> DEFINE h == job[e]
<1>1. h \in Tasks /\ Finishing(e, h) /\ Owns(e, h)
  BY DEF HasJob, Finishing, Owns
<1>2. h \in Handed /\ ~Among(h, todo)
  BY <1>1, InHands
<1>3. PICK o \in added : h \in TasksOf(o)
  BY <1>2, TasksOfType
<1>4. o \in Objects /\ waitable[o]
  BY <1>3, AddedOnce
<1>5. private_data[h] = o
  BY <1>2, <1>3, <1>4 DEF Given
<1>6. h \in Outstanding(o)
  BY <1>1, <1>3 DEF Outstanding
<1>7. o \in pending /\ counter[o].life = "alive" /\ counter[o].count = Cardinality(Outstanding(o))
  BY <1>4, <1>6 DEF Counted
<1>8. Cardinality(Outstanding(o)) \in Nat /\ Cardinality(Outstanding(o)) # 0
  BY <1>4, <1>6, TasksFinite
<1> QED BY <1>3, <1>5, <1>6, <1>7, <1>8

LEMMA CountDownInv ==
  ASSUME Inv, NEW e \in Threads, NEW label, After(e, label), CountDown(e, label)
  PROVE  Inv' /\ Handed' = Handed
<1> USE DEF Inv, CountDown, Goto, callVars, After
<1>0. PICK h, k : h = job[e] /\ k = private_data[h]
  OBVIOUS
<1>1. /\ pc'[e] = label /\ \A f \in Threads : f # e => pc'[f] = pc[f]
      /\ Labelled'
  BY DEF Labelled
<1>2. h \in Tasks /\ Finishing(e, h) /\ Owns(e, h)
  BY <1>0 DEF HasJob, Finishing, Owns
<1>3. /\ h \in Handed /\ performed[h] = 1
      /\ \A f \in Threads : Owns(f, h) => f = e
  BY <1>2, InHands DEF Owned
<1>4. /\ k \in pending /\ k \in added /\ k \in Objects
      /\ h \in TasksOf(k) /\ h \in Outstanding(k) /\ counter[k].count > 0
  BY <1>0, SignalsPending DEF ObjectsTypeOK
<1>5. counter' = [counter EXCEPT ![k].count = @ - 1]
  BY <1>0, <1>4
<1>6. /\ counter'[k].count = counter[k].count - 1
      /\ \A o \in Objects : counter'[o].life = counter[o].life
      /\ \A o \in Objects : o # k => counter'[o] = counter[o]
  BY <1>4, <1>5 DEF ObjectsTypeOK
<1> /\ pc[e] = "finish" /\ waitable[job[e]]
    /\ UNCHANGED <<queue, job, life, waitable, private_data, members, callVars, performed>>
  OBVIOUS
<1> HIDE DEF CountDown
<1>7. ObjectsTypeOK'
  <2>1. PICK n \in Nat : n = counter[k].count - 1
    BY <1>4 DEF ObjectsTypeOK
  <2>2. counter' = [counter EXCEPT ![k].count = n]
    BY <1>5, <2>1
  <2>3. counter \in Counters
    BY DEF ObjectsTypeOK, Counters
  <2>4. counter' \in Counters
    BY <2>1, <2>2, <2>3, CounterUpdates
  <2> QED BY <2>4 DEF ObjectsTypeOK, Counters
<1>8. Grouped' /\ Allocated'
  BY GroupedStays DEF Allocated
<1>9. InItsCall' /\ HasJob'
  <2>1. Client \in Threads
    BY DEF Threads
  <2> QED BY <1>1, <2>1 DEF InItsCall, HasJob, Adding, Waiting, Holding
<1>10. /\ \A p : TasksOf(p)' = TasksOf(p)
       /\ Handed' = Handed
  BY DEF TasksOf, Handed
<1>11. /\ \A p \in Objects : TasksOf(p) \subseteq Tasks
       /\ \A t : t \in Handed <=> \E p \in added : t \in TasksOf(p)
       /\ Handed \subseteq Tasks /\ added \subseteq Objects
  BY TasksOfType DEF ObjectsTypeOK
<1>12. \A f \in Threads, t \in Tasks :
         /\ Has(f, t)' <=> Has(f, t)
         /\ Finishing(f, t)' <=> Finishing(f, t) /\ ~(f = e /\ t = h)
         /\ Owns(f, t)' <=> Owns(f, t) /\ ~(f = e /\ t = h)
         /\ Finishing(f, t) \/ Has(f, t) => Owns(f, t)
  BY <1>0, <1>1 DEF Has, Finishing, Owns, Holding
<1>13. ToSend' /\ Queued'
  BY <1>10, <1>12 DEF ToSend, Queued
<1>14. Owned'
  BY <1>10, <1>12 DEF Owned
<1>15. NotLost' /\ Given'
  BY <1>10, <1>11, <1>12 DEF NotLost, Given
<1>16. \A o \in added : h \in TasksOf(o) => o = k
  BY <1>4, AddedOnce
<1>17. Counted'
  <2>1. \A o \in added : o # k => Outstanding(o)' = Outstanding(o)
    BY <1>10, <1>11, <1>12, <1>16 DEF Outstanding
  <2>2. Outstanding(k)' = Outstanding(k) \ {h}
    BY <1>3, <1>4, <1>10, <1>11, <1>12 DEF Outstanding
  <2>3. IsFiniteSet(Outstanding(k))
    BY <1>4, TasksFinite
  <2>4. Cardinality(Outstanding(k) \ {h}) = Cardinality(Outstanding(k)) - 1
    BY <1>4, <2>3, FS_RemoveElement
  <2>5. Cardinality(Outstanding(k)') = counter'[k].count
    BY <1>4, <1>6, <2>2, <2>4 DEF Counted
  <2>6. \A o \in added : o # k =>
          /\ o \in pending => /\ waitable[o]
                              /\ counter'[o].life = "alive"
                              /\ counter'[o].count = Cardinality(Outstanding(o)')
          /\ waitable[o] /\ o \notin pending => Outstanding(o)' = {}
    BY <1>6, <1>11, <2>1 DEF Counted
  <2> QED BY <1>4, <1>6, <1>11, <2>5, <2>6 DEF Counted
<1>18. Disposed'
  <2>1. waitable[k]
    BY <1>4 DEF Counted
  <2> QED BY <1>10, <1>11, <1>12, <1>16, <2>1 DEF Disposed
<1> QED BY <1>1, <1>7, <1>8, <1>9, <1>10, <1>13, <1>14, <1>15, <1>17, <1>18

\* The waiter finds the counter of what it waits for.
LEMMA WaitsForItsOwn ==
  ASSUME Inv, pc[Client] \in Waiting
  PROVE  /\ call \in pending /\ call \in added /\ call \in Objects /\ todo = <<>>
         /\ WaitCounter(call) = call
<1> USE DEF Inv
<1>1. call \in pending /\ call \in added /\ call \in Objects /\ todo = <<>> /\ waitable[call]
  BY DEF InItsCall, Adding, Waiting, ObjectsTypeOK, Counted
<1>2. \A t \in TasksOf(call) : private_data[t] = call
  BY <1>1 DEF Given, Among
<1>3. CASE call \in Tasks
  BY <1>1, <1>2, <1>3 DEF WaitCounter, TasksOf
<1>4. CASE call \in Groups
  <2>1. members[call] \in Seq(Tasks) /\ members[call] # <<>> /\ call \notin Tasks
    BY <1>1, <1>4, NamesAssumption DEF Allocated, ObjectsTypeOK
  <2>2. 1 \in DOMAIN members[call]
    BY <2>1
  <2>3. members[call][1] \in TasksOf(call)
    BY <2>1, <2>2 DEF TasksOf
  <2> QED BY <1>1, <1>2, <2>1, <2>3 DEF WaitCounter
<1> QED BY <1>1, <1>3, <1>4 DEF Objects

LEMMA WaitEndsInv ==
  ASSUME Inv, pc[Client] = "wait", counter[WaitCounter(call)].count = 0,
         NEW S \in SUBSET TasksOf(call), WaitEnds(S)
  PROVE  Inv' /\ Handed' = Handed
<1> USE DEF Inv, WaitEnds, Goto
<1>0. PICK o : o = call
  OBVIOUS
<1>1. /\ Client \in Threads
      /\ pc'[Client] = "idle" /\ \A f \in Threads : f # Client => pc'[f] = pc[f]
      /\ Labelled'
  BY DEF Labelled, Threads
<1>2. o \in pending /\ o \in added /\ o \in Objects /\ todo = <<>> /\ counter[o].count = 0
  BY <1>0, WaitsForItsOwn DEF Waiting
<1>3. counter' = event_counter_delete(o)
  BY <1>0, WaitsForItsOwn DEF Waiting
<1>4. /\ counter'[o].life = "freed"
      /\ \A p \in Objects : p # o => counter'[p] = counter[p]
  <2>1. counter \in Counters
    BY DEF ObjectsTypeOK, Counters
  <2>2. PICK d : d = [counter EXCEPT ![o].token = FALSE] /\ counter' = [d EXCEPT ![o].life = "freed"]
    BY <1>3 DEF event_counter_delete
  <2> HIDE DEF WaitEnds, Inv
  <2>3. /\ d \in Counters
        /\ \A p \in Objects : p # o => d[p] = counter[p]
    BY <1>2, <2>1, <2>2, CounterUpdates DEF Counters
  <2> QED BY <1>2, <2>2, <2>3 DEF Counters
<1>5. Outstanding(o) = {}
  BY <1>2, TasksFinite DEF Counted
<1>6. /\ \A p \in Objects : TasksOf(p) \subseteq Tasks
      /\ \A t : t \in Handed <=> \E p \in added : t \in TasksOf(p)
      /\ Handed \subseteq Tasks /\ added \subseteq Objects /\ Tasks \subseteq Objects
  BY TasksOfType DEF ObjectsTypeOK, Objects
<1>7. \A t \in S : /\ t \in Tasks /\ performed[t] > 0
                   /\ \A e \in Threads : ~Finishing(e, t)
  <2>1. \A t \in S : t \in TasksOf(o) /\ t \in Tasks /\ t \in Handed
    BY <1>0, <1>2, <1>6
  <2>2. \A t \in S : performed[t] # 0 /\ \A e \in Threads : ~Finishing(e, t)
    BY <1>5, <2>1 DEF Outstanding
  <2> QED BY <2>1, <2>2 DEF ObjectsTypeOK
<1>8. \A p \in Objects : life'[p] = IF p \in S THEN "freed" ELSE life[p]
  BY DEF TasksDeleted
<1>9. ObjectsTypeOK'
  <2>1. life' \in [Objects -> {"none", "alive", "freed"}]
    BY DEF ObjectsTypeOK, TasksDeleted
  <2>2. counter' \in Counters
    <3> HIDE DEF WaitEnds
    <3>0. counter \in Counters
      BY DEF ObjectsTypeOK, Counters
    <3>1. PICK d : d = [counter EXCEPT ![o].token = FALSE]
      OBVIOUS
    <3>2. counter' = [d EXCEPT ![o].life = "freed"]
      BY <1>3, <3>1 DEF event_counter_delete
    <3>3. d \in Counters
      BY <3>0, <3>1, CounterUpdates
    <3> QED BY <3>2, <3>3, CounterUpdates
  <2> QED BY <2>1, <2>2 DEF ObjectsTypeOK, Counters
<1> /\ UNCHANGED <<queue, job, waitable, private_data, members, added, todo, performed>>
    /\ pending' = pending \ {o}
  BY <1>0
<1> HIDE DEF WaitEnds
<1>10. Grouped' /\ Allocated'
  <2>1. \A p \in Objects : life[p] # "none" => life'[p] # "none"
    BY <1>8
  <2>2. Grouped'
    BY <2>1, GroupedStays
  <2>3. \A t \in Tasks : /\ life'[t] = "none" => performed[t] = 0
                         /\ life'[t] = "freed" => performed[t] > 0
    <3>1. \A t \in Tasks : life'[t] = "freed" => t \in S \/ life[t] = "freed"
      BY <1>6, <1>8
    <3>2. \A t \in Tasks : life'[t] = "none" => life[t] = "none"
      BY <1>6, <1>8
    <3> QED BY <1>7, <3>1, <3>2 DEF Allocated
  <2> QED BY <1>6, <2>1, <2>2, <2>3 DEF Allocated
<1>11. InItsCall' /\ HasJob'
  BY <1>1, <1>2 DEF InItsCall, HasJob, Adding, Waiting, Holding
<1>12. /\ \A p : TasksOf(p)' = TasksOf(p)
       /\ Handed' = Handed
  BY DEF TasksOf, Handed
<1>13. \A f \in Threads, t \in Tasks :
         /\ Has(f, t)' <=> Has(f, t)
         /\ Finishing(f, t)' <=> Finishing(f, t)
         /\ Owns(f, t)' <=> Owns(f, t)
  BY <1>1 DEF Has, Finishing, Owns
<1>14. ToSend'
  BY <1>2 DEF ToSend, Distinct, Among
<1>15. Queued'
  BY <1>12, <1>13 DEF Queued
<1>16. Owned'
  BY <1>6, <1>7, <1>8, <1>12, <1>13 DEF Owned
<1>17. NotLost'
  BY <1>6, <1>12, <1>13 DEF NotLost
<1>18. Given'
  BY <1>6, <1>12 DEF Given
<1>19. \A p \in added : Outstanding(p)' = Outstanding(p)
  BY <1>6, <1>12, <1>13 DEF Outstanding
<1>20. Counted'
  <2>1. \A p \in Objects : counter'[p].life = "alive" => p \in pending'
    BY <1>4 DEF Counted
  <2>2. ASSUME NEW p \in added
        PROVE  /\ p \in pending' => /\ waitable[p]
                                    /\ counter'[p].life = "alive"
                                    /\ counter'[p].count = Cardinality(Outstanding(p))
               /\ waitable[p] /\ p \notin pending' => Outstanding(p) = {}
    BY <1>4, <1>5, <1>6 DEF Counted
  <2> QED BY <1>19, <2>1, <2>2 DEF Counted
<1>21. Disposed'
  BY <1>6, <1>8, <1>12, <1>13 DEF Disposed
<1> QED BY <1>1, <1>9, <1>10, <1>11, <1>12, <1>14, <1>15, <1>16, <1>17, <1>18, <1>20, <1>21

-----------------------------------------------------------------------------
(***************************************************************************)
(* All steps together.                                                     *)
(***************************************************************************)
SharedStep ==
  \/ Move
  \/ ObjectCall
  \/ \E t \in Tasks, w \in BOOLEAN : FunctionAdd(t, w)
  \/ \E g \in Groups : GroupAddBegins(g)
  \/ \E label \in {"scan", "send"} : NextTask(label)
  \/ AddReturns
  \/ SendStep
  \/ \E o \in Objects : WaitBegins(o)
  \/ /\ pc[Client] = "wait"
     /\ counter[WaitCounter(call)].count = 0
     /\ \E S \in SUBSET TasksOf(call) : WaitEnds(S)
  \/ \E w \in Workers, label \in Taken : pc[w] \notin Holding \cup {"finish"} /\ Dequeue(w, label)
  \/ \E e \in Threads : Perform(e)
  \/ \E e \in Threads : \E label :
       After(e, label) /\ (DeleteTask(e, label) \/ CountDown(e, label) \/ SendToken(e, label))

\* No object exists and no thread has a task.
LEMMA ObjectsInitInv ==
  ASSUME NEW label, label \notin Holding \cup {"finish"}, ObjectsInit(label)
  PROVE  Inv
<1> USE DEF ObjectsInit
<1>1. ObjectsTypeOK /\ Labelled
  <2>1. <<>> \in Seq(Tasks)
    OBVIOUS
  <2>2. counter \in [Objects -> [life : {"none", "alive", "freed"}, count : Nat, token : BOOLEAN]]
    OBVIOUS
  <2>3. /\ job \in [Threads -> Tasks \cup {None}]
        /\ life \in [Objects -> {"none", "alive", "freed"}]
        /\ waitable \in [Objects -> BOOLEAN]
        /\ private_data \in [Tasks -> Objects \cup {None}]
        /\ members \in [Groups -> Seq(Tasks)]
        /\ performed \in [Tasks -> Nat]
    BY <2>1
  <2>4. Labelled
    BY DEF Labelled
  <2> QED BY <2>1, <2>2, <2>3, <2>4 DEF ObjectsTypeOK
<1>2. \A e \in Threads : pc[e] \notin Holding \cup {"finish"}
  BY DEF Holding
<1>3. \A e \in Threads, t \in Tasks : ~Has(e, t) /\ ~Finishing(e, t) /\ ~Owns(e, t)
  BY <1>2 DEF Has, Finishing, Owns, Holding
<1>4. pc[Client] = "idle"
  BY DEF Threads
<1>5. InItsCall /\ HasJob
  BY <1>2, <1>4 DEF InItsCall, HasJob, Adding, Waiting
<1>6. Handed = {} /\ Distinct(<<>>) /\ \A t : ~Among(t, <<>>)
  BY DEF Handed, Among, Distinct
<1>7. Grouped
  <2>1. \A g \in Groups : members[g] = <<>> /\ TasksOf(g) = {}
    BY NamesAssumption DEF TasksOf
  <2> QED BY <1>6, <2>1 DEF Grouped
<1>8. Allocated
  BY DEF Allocated, Objects
<1>9. ToSend /\ Queued
  BY <1>6 DEF ToSend, Queued, Distinct
<1>10. Owned /\ NotLost /\ Given /\ Counted /\ Disposed
  BY <1>3, <1>6 DEF Owned, NotLost, Given, Counted, Disposed
<1> QED BY <1>1, <1>5, <1>7, <1>8, <1>9, <1>10 DEF Inv

\* The invariant is inductive.
LEMMA SharedStepInv == ASSUME Inv, SharedStep PROVE Inv'
<1>1. ASSUME NEW e \in Threads, NEW label, After(e, label),
             DeleteTask(e, label) \/ CountDown(e, label) \/ SendToken(e, label)
      PROVE  Inv'
  BY <1>1, DeleteTaskInv, CountDownInv, SendTokenInv
<1>2. CASE \E w \in Workers, label \in Taken :
             pc[w] \notin Holding \cup {"finish"} /\ Dequeue(w, label)
  BY <1>2, DequeueInv
<1>3. CASE /\ pc[Client] = "wait"
           /\ counter[WaitCounter(call)].count = 0
           /\ \E S \in SUBSET TasksOf(call) : WaitEnds(S)
  BY <1>3, WaitEndsInv
<1>4. CASE (\E t \in Tasks, w \in BOOLEAN : FunctionAdd(t, w)) \/ \E g \in Groups : GroupAddBegins(g)
  BY <1>4, FunctionAddInv, GroupAddBeginsInv
<1>5. CASE (\E label \in {"scan", "send"} : NextTask(label)) \/ AddReturns \/ SendStep
  BY <1>5, NextTaskInv, AddReturnsInv, SendStepInv
<1>6. CASE Move \/ ObjectCall \/ (\E o \in Objects : WaitBegins(o)) \/ \E e \in Threads : Perform(e)
  BY <1>6, MoveInv, ObjectCallInv, WaitBeginsInv, PerformInv
<1> QED BY <1>1, <1>2, <1>3, <1>4, <1>5, <1>6 DEF SharedStep
=============================================================================
