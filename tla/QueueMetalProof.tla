--------------------------- MODULE QueueMetalProof ---------------------------
(***************************************************************************)
(* The blocking queue of queue_metal.c is a bounded FIFO queue, loses no   *)
(* wake-up and reads no dead list node, for every set of threads and every *)
(* length.                                                                 *)
(*                                                                         *)
(* NoLostWakeup is not inductive: that a broadcast reaches a waiter needs  *)
(* the waiter to be in the list (WaitersListed), and that what a thread    *)
(* saw of the ring still holds when it acts on it needs the mutex          *)
(* (HoldsMutex, Checked).                                                  *)
(***************************************************************************)
EXTENDS QueueMetal, SequenceTheorems, TLAPS

\* The spinlock of the condition variable belongs to the thread in the loop.
HoldsSpin ==
  \A t \in Threads : pc[t] \in {"loop", "next", "trap"} <=> spin = t

\* full is set only on a ring whose indices have met.
FullMeansMet == full => head = tail

\* What a thread has read of the ring is still so when it acts on it.
Checked ==
  \A t \in Users :
    /\ pc[t] = "update" => ~MustWait(t)
    /\ pc[t] \in {"enlist", "drop"} => MustWait(t)

\* The queue is being deleted, or has been.
Deleting == \E d \in Deleters : pc[d] # "idle"

Listed(t) == \E i \in 1..Len(waiters) : waiters[i] = t

\* Until the queue is deleted, a thread that waits is in the list.
WaitersListed == Deleting \/ \A t \in Users : Waiting(t) => Listed(t)

\* A broadcast that has sent an event to the first waiter finds it still there,
\* queueing for the mutex.
FirstIsRelocking ==
  \A t \in Threads : pc[t] = "next" =>
    waiters # <<>> /\ (t \in Users => pc[Head(waiters)] = "relock")

\* From queue_delete on, the queue is at rest, and the consumers leave the wait.
AtRestWhenDeleted ==
  Deleting =>
    /\ \A p \in Producers : pc[p] = "idle"
    /\ \A c \in Consumers : pc[c] \in {"in", "terminated", "stopped"}
    /\ \A c \in Consumers : pc[c] = "in" => queue_empty

FreedLast == freed => \A d \in Deleters : pc[d] = "stopped"

FreedIsDeleting == freed => Deleting

\* A producer that is going to store has an item left to send.
SendsLeft ==
  \A p \in Producers :
    pc[p] \notin {"idle", "notify", "loop", "next", "unlock"} => sent[p] < MaxSends

Inv ==
  /\ TypeOK
  /\ HoldsMutex
  /\ HoldsSpin
  /\ FullMeansMet
  /\ Checked
  /\ WaitersListed
  /\ FirstIsRelocking
  /\ AtRestWhenDeleted
  /\ FreedLast
  /\ FreedIsDeleting
  /\ SendsLeft
  /\ NoLostWakeup
-----------------------------------------------------------------------------
\* Advancing an index of the ring.
LEMMA AdvanceIs ==
  ASSUME NEW i \in 0..Length-1
  PROVE  /\ Advance(i) \in 0..Length-1
         /\ Advance(i) = IF i + 1 = Length THEN 0 ELSE i + 1
BY LengthAssumption DEF Advance

\* queue_create establishes the invariant.
LEMMA InitInv == Init => Inv
<1> SUFFICES ASSUME Init PROVE Inv
  OBVIOUS
<1> USE DEF Init
<1>1. TypeOK
  <2>1. ring \in [0..Length-1 -> Items \cup {NoItem}] /\ head \in 0..Length-1 /\ tail \in 0..Length-1
    BY LengthAssumption
  <2>2. pc \in [Threads -> Labels]
    BY DEF Labels
  <2>3. sent \in [Producers -> 0..MaxSends] /\ got \in [Consumers -> Items \cup {NoItem}]
    BY ThreadsAssumption
  <2>4. waiters \in Seq(Users)
    OBVIOUS
  <2> QED BY <2>1, <2>2, <2>3, <2>4 DEF TypeOK
<1>2. \A t \in Threads : pc[t] = "idle"
  OBVIOUS
<1>3. HoldsMutex /\ HoldsSpin
  BY <1>2, ThreadsAssumption DEF HoldsMutex, HoldsSpin, Threads, Users
<1>4. FullMeansMet /\ Checked /\ WaitersListed /\ FirstIsRelocking /\ SendsLeft
  BY <1>2 DEF FullMeansMet, Checked, WaitersListed, Waiting, FirstIsRelocking,
              SendsLeft, Threads, Users
<1>5. AtRestWhenDeleted /\ FreedLast /\ FreedIsDeleting
  BY <1>2 DEF AtRestWhenDeleted, Deleting, FreedLast, FreedIsDeleting, Threads
<1>6. NoLostWakeup
  BY <1>2 DEF NoLostWakeup, Waiting, Threads
<1> QED BY <1>1, <1>3, <1>4, <1>5, <1>6 DEF Inv

\* A call of queue_send begins.
LEMMA SendInv == ASSUME Inv, NEW p \in Producers, Send(p) PROVE Inv'
<1> USE DEF Inv, Send, Goto, ringVars, MustWait, queue_full, queue_empty
<1>1. TypeOK'
  BY DEF TypeOK, Labels, Threads, Users
<1>2. HoldsMutex' /\ HoldsSpin'
  BY ThreadsAssumption DEF TypeOK, HoldsMutex, HoldsSpin, Threads, Users
<1>3. FullMeansMet' /\ Checked'
  BY ThreadsAssumption DEF TypeOK, HoldsMutex, FullMeansMet, Checked, Threads, Users
<1>4. WaitersListed' /\ FirstIsRelocking'
  BY ThreadsAssumption DEF TypeOK, HoldsMutex, HoldsSpin, WaitersListed, Waiting, Listed, Deleting,
             FirstIsRelocking, Threads, Users
<1>5. AtRestWhenDeleted' /\ FreedLast' /\ FreedIsDeleting'
  BY ThreadsAssumption DEF TypeOK, AtRestWhenDeleted, Deleting, FreedLast, FreedIsDeleting,
             Threads, Users
<1>6. SendsLeft'
  BY ThreadsAssumption DEF TypeOK, SendsLeft, Threads, Users
<1>7. NoLostWakeup'
  BY ThreadsAssumption DEF TypeOK, HoldsMutex, Checked, NoLostWakeup, Waiting, Notifying, Threads, Users
<1> QED BY <1>1, <1>2, <1>3, <1>4, <1>5, <1>6, <1>7

\* A call of queue_receive begins.
LEMMA ReceiveInv == ASSUME Inv, NEW c \in Consumers, Receive(c) PROVE Inv'
<1> USE DEF Inv, Receive, Goto, ringVars, MustWait, queue_full, queue_empty
<1>1. TypeOK'
  BY DEF TypeOK, Labels, Threads, Users
<1>2. HoldsMutex' /\ HoldsSpin'
  BY ThreadsAssumption DEF TypeOK, HoldsMutex, HoldsSpin, Threads, Users
<1>3. FullMeansMet' /\ Checked'
  BY ThreadsAssumption DEF TypeOK, HoldsMutex, FullMeansMet, Checked, Threads, Users
<1>4. WaitersListed' /\ FirstIsRelocking'
  BY ThreadsAssumption DEF TypeOK, HoldsMutex, HoldsSpin, WaitersListed, Waiting, Listed, Deleting,
             FirstIsRelocking, Threads, Users
<1>5. AtRestWhenDeleted' /\ FreedLast' /\ FreedIsDeleting'
  BY ThreadsAssumption DEF TypeOK, AtRestWhenDeleted, Deleting, FreedLast, FreedIsDeleting,
             Threads, Users
<1>6. SendsLeft'
  BY ThreadsAssumption DEF TypeOK, SendsLeft, Threads, Users
<1>7. NoLostWakeup'
  BY ThreadsAssumption DEF TypeOK, HoldsMutex, Checked, NoLostWakeup, Waiting, Notifying, Threads, Users
<1> QED BY <1>1, <1>2, <1>3, <1>4, <1>5, <1>6, <1>7

\* The mutex is taken.
LEMMA MutexGetInv == ASSUME Inv, NEW t \in Users, MutexGet(t) PROVE Inv'
<1> USE DEF Inv, MutexGet, Goto, ringVars, MustWait, queue_full, queue_empty
<1>1. TypeOK'
  BY DEF TypeOK, Labels, Threads, Users
<1>2. HoldsMutex' /\ HoldsSpin'
  BY ThreadsAssumption DEF TypeOK, HoldsMutex, HoldsSpin, Threads, Users
<1>3. FullMeansMet' /\ Checked'
  BY ThreadsAssumption DEF TypeOK, HoldsMutex, FullMeansMet, Checked, Threads, Users
<1>4. WaitersListed' /\ FirstIsRelocking'
  BY ThreadsAssumption DEF TypeOK, HoldsMutex, HoldsSpin, WaitersListed, Waiting, Listed, Deleting,
             FirstIsRelocking, Threads, Users
<1>5. AtRestWhenDeleted' /\ FreedLast' /\ FreedIsDeleting'
  BY ThreadsAssumption DEF TypeOK, AtRestWhenDeleted, Deleting, FreedLast, FreedIsDeleting,
             Threads, Users
<1>6. SendsLeft'
  BY ThreadsAssumption DEF TypeOK, SendsLeft, Threads, Users
<1>7. NoLostWakeup'
  BY ThreadsAssumption DEF TypeOK, HoldsMutex, Checked, NoLostWakeup, Waiting, Notifying, Threads, Users
<1> QED BY <1>1, <1>2, <1>3, <1>4, <1>5, <1>6, <1>7

\* The condition is read under the mutex.
LEMMA CheckInv == ASSUME Inv, NEW t \in Users, Check(t) PROVE Inv'
<1> USE DEF Inv, Check, Goto, ringVars, MustWait, queue_full, queue_empty
<1>1. TypeOK'
  BY DEF TypeOK, Labels, Threads, Users
<1>2. HoldsMutex' /\ HoldsSpin'
  BY ThreadsAssumption DEF TypeOK, HoldsMutex, HoldsSpin, Threads, Users
<1>3. FullMeansMet' /\ Checked'
  BY ThreadsAssumption DEF TypeOK, HoldsMutex, FullMeansMet, Checked, Threads, Users
<1>4. WaitersListed' /\ FirstIsRelocking'
  BY ThreadsAssumption DEF TypeOK, HoldsMutex, HoldsSpin, WaitersListed, Waiting, Listed, Deleting,
             FirstIsRelocking, Threads, Users
<1>5. AtRestWhenDeleted' /\ FreedLast' /\ FreedIsDeleting'
  BY ThreadsAssumption DEF TypeOK, AtRestWhenDeleted, Deleting, FreedLast, FreedIsDeleting,
             Threads, Users
<1>6. SendsLeft'
  BY ThreadsAssumption DEF TypeOK, SendsLeft, Threads, Users
<1>7. NoLostWakeup'
  BY ThreadsAssumption DEF TypeOK, HoldsMutex, Checked, NoLostWakeup, Waiting, Notifying, Threads, Users
<1> QED BY <1>1, <1>2, <1>3, <1>4, <1>5, <1>6, <1>7

\* The mutex is released at the end.
LEMMA MutexPutInv == ASSUME Inv, NEW t \in Users, MutexPut(t) PROVE Inv'
<1> USE DEF Inv, MutexPut, Goto, ringVars, MustWait, queue_full, queue_empty
<1>1. TypeOK'
  BY DEF TypeOK, Labels, Threads, Users
<1>2. HoldsMutex' /\ HoldsSpin'
  BY ThreadsAssumption DEF TypeOK, HoldsMutex, HoldsSpin, Threads, Users
<1>3. FullMeansMet' /\ Checked'
  BY ThreadsAssumption DEF TypeOK, HoldsMutex, FullMeansMet, Checked, Threads, Users
<1>4. WaitersListed' /\ FirstIsRelocking'
  BY ThreadsAssumption DEF TypeOK, HoldsMutex, HoldsSpin, WaitersListed, Waiting, Listed, Deleting,
             FirstIsRelocking, Threads, Users
<1>5. AtRestWhenDeleted' /\ FreedLast' /\ FreedIsDeleting'
  BY ThreadsAssumption DEF TypeOK, AtRestWhenDeleted, Deleting, FreedLast, FreedIsDeleting,
             Threads, Users
<1>6. SendsLeft'
  BY ThreadsAssumption DEF TypeOK, SendsLeft, Threads, Users
<1>7. NoLostWakeup'
  BY ThreadsAssumption DEF TypeOK, HoldsMutex, Checked, NoLostWakeup, Waiting, Notifying, Threads, Users
<1> QED BY <1>1, <1>2, <1>3, <1>4, <1>5, <1>6, <1>7

\* The node is linked.
LEMMA EnlistInv == ASSUME Inv, NEW t \in Users, Enlist(t) PROVE Inv'
<1> USE DEF Inv, Enlist, Goto, ringVars, MustWait, queue_full, queue_empty
<1>1. TypeOK'
  BY DEF TypeOK, Labels, Threads, Users
<1>2. HoldsMutex' /\ HoldsSpin'
  BY ThreadsAssumption DEF TypeOK, HoldsMutex, HoldsSpin, Threads, Users
<1>3. FullMeansMet' /\ Checked'
  BY ThreadsAssumption DEF TypeOK, HoldsMutex, FullMeansMet, Checked, Threads, Users
<1>4. WaitersListed' /\ FirstIsRelocking'
  BY ThreadsAssumption DEF TypeOK, HoldsMutex, HoldsSpin, WaitersListed, Waiting, Listed, Deleting,
             FirstIsRelocking, Threads, Users
<1>5. AtRestWhenDeleted' /\ FreedLast' /\ FreedIsDeleting'
  BY ThreadsAssumption DEF TypeOK, AtRestWhenDeleted, Deleting, FreedLast, FreedIsDeleting,
             Threads, Users
<1>6. SendsLeft'
  BY ThreadsAssumption DEF TypeOK, SendsLeft, Threads, Users
<1>7. NoLostWakeup'
  BY ThreadsAssumption DEF TypeOK, HoldsMutex, Checked, NoLostWakeup, Waiting, Notifying, Threads, Users
<1> QED BY <1>1, <1>2, <1>3, <1>4, <1>5, <1>6, <1>7

\* The mutex is released for the wait.
LEMMA DropInv == ASSUME Inv, NEW t \in Users, Drop(t) PROVE Inv'
<1> USE DEF Inv, Drop, Goto, ringVars, MustWait, queue_full, queue_empty
<1>1. TypeOK'
  BY DEF TypeOK, Labels, Threads, Users
<1>2. HoldsMutex' /\ HoldsSpin'
  BY ThreadsAssumption DEF TypeOK, HoldsMutex, HoldsSpin, Threads, Users
<1>3. FullMeansMet' /\ Checked'
  BY ThreadsAssumption DEF TypeOK, HoldsMutex, FullMeansMet, Checked, Threads, Users
<1>4. WaitersListed' /\ FirstIsRelocking'
  BY ThreadsAssumption DEF TypeOK, HoldsMutex, HoldsSpin, WaitersListed, Waiting, Listed, Deleting,
             FirstIsRelocking, Threads, Users
<1>5. AtRestWhenDeleted' /\ FreedLast' /\ FreedIsDeleting'
  BY ThreadsAssumption DEF TypeOK, AtRestWhenDeleted, Deleting, FreedLast, FreedIsDeleting,
             Threads, Users
<1>6. SendsLeft'
  BY ThreadsAssumption DEF TypeOK, SendsLeft, Threads, Users
<1>7. NoLostWakeup'
  BY ThreadsAssumption DEF TypeOK, HoldsMutex, Checked, NoLostWakeup, Waiting, Notifying, Threads, Users
<1> QED BY <1>1, <1>2, <1>3, <1>4, <1>5, <1>6, <1>7

\* The wait ends without the mutex.
LEMMA ReturnFalseInv == ASSUME Inv, NEW t \in Users, ReturnFalse(t) PROVE Inv'
<1> USE DEF Inv, ReturnFalse, Goto, ringVars, MustWait, queue_full, queue_empty
<1>1. TypeOK'
  BY DEF TypeOK, Labels, Threads, Users
<1>2. HoldsMutex' /\ HoldsSpin'
  BY ThreadsAssumption DEF TypeOK, HoldsMutex, HoldsSpin, Threads, Users
<1>3. FullMeansMet' /\ Checked'
  BY ThreadsAssumption DEF TypeOK, HoldsMutex, FullMeansMet, Checked, Threads, Users
<1>4. WaitersListed' /\ FirstIsRelocking'
  BY ThreadsAssumption DEF TypeOK, HoldsMutex, HoldsSpin, WaitersListed, Waiting, Listed, Deleting,
             FirstIsRelocking, Threads, Users
<1>5. AtRestWhenDeleted' /\ FreedLast' /\ FreedIsDeleting'
  BY ThreadsAssumption DEF TypeOK, AtRestWhenDeleted, Deleting, FreedLast, FreedIsDeleting,
             Threads, Users
<1>6. SendsLeft'
  BY ThreadsAssumption DEF TypeOK, SendsLeft, Threads, Users
<1>7. NoLostWakeup'
  BY ThreadsAssumption DEF TypeOK, HoldsMutex, Checked, NoLostWakeup, Waiting, Notifying, Threads, Users
<1> QED BY <1>1, <1>2, <1>3, <1>4, <1>5, <1>6, <1>7

\* The item is stored.
LEMMA PutInv == ASSUME Inv, NEW p \in Producers, Put(p) PROVE Inv'
<1> USE DEF Inv, Put, FullAfter, AfterUpdate, Goto, NextItem, ringVars, MustWait, queue_full, queue_empty
<1>1. TypeOK'
  <2>1. NextItem(p) \in Items
    BY ThreadsAssumption DEF TypeOK, SendsLeft, Items, NextItem
  <2>2. sent' \in [Producers -> 0..MaxSends]
    BY ThreadsAssumption DEF TypeOK, SendsLeft
  <2> QED BY <2>1, <2>2, AdvanceIs DEF TypeOK, Labels, Threads, Users
<1>2. HoldsMutex' /\ HoldsSpin'
  BY ThreadsAssumption DEF TypeOK, HoldsMutex, HoldsSpin, Threads, Users
<1>3. FullMeansMet' /\ Checked'
  BY ThreadsAssumption DEF TypeOK, HoldsMutex, FullMeansMet, Checked, Threads, Users
<1>4. WaitersListed' /\ FirstIsRelocking'
  BY ThreadsAssumption DEF TypeOK, HoldsMutex, HoldsSpin, WaitersListed, Waiting, Listed, Deleting,
             FirstIsRelocking, Threads, Users
<1>5. AtRestWhenDeleted' /\ FreedLast' /\ FreedIsDeleting'
  BY ThreadsAssumption DEF TypeOK, AtRestWhenDeleted, Deleting, FreedLast, FreedIsDeleting,
             Threads, Users
<1>6. SendsLeft'
  BY ThreadsAssumption DEF TypeOK, SendsLeft, Threads, Users
<1>7. NoLostWakeup'
  BY ThreadsAssumption DEF TypeOK, HoldsMutex, Checked, NoLostWakeup, Waiting, Notifying, Threads, Users
<1> QED BY <1>1, <1>2, <1>3, <1>4, <1>5, <1>6, <1>7

\* The item is taken.
LEMMA TakeInv == ASSUME Inv, NEW c \in Consumers, Take(c) PROVE Inv'
<1> USE DEF Inv, Take, AfterUpdate, Goto, ringVars, MustWait, queue_full, queue_empty
<1>1. TypeOK'
  BY AdvanceIs DEF TypeOK, Labels, Threads, Users
<1>2. HoldsMutex' /\ HoldsSpin'
  BY ThreadsAssumption DEF TypeOK, HoldsMutex, HoldsSpin, Threads, Users
<1>3. FullMeansMet' /\ Checked'
  BY ThreadsAssumption DEF TypeOK, HoldsMutex, FullMeansMet, Checked, Threads, Users
<1>4. WaitersListed' /\ FirstIsRelocking'
  BY ThreadsAssumption DEF TypeOK, HoldsMutex, HoldsSpin, WaitersListed, Waiting, Listed, Deleting,
             FirstIsRelocking, Threads, Users
<1>5. AtRestWhenDeleted' /\ FreedLast' /\ FreedIsDeleting'
  BY ThreadsAssumption DEF TypeOK, AtRestWhenDeleted, Deleting, FreedLast, FreedIsDeleting,
             Threads, Users
<1>6. SendsLeft'
  BY ThreadsAssumption DEF TypeOK, SendsLeft, Threads, Users
<1>7. NoLostWakeup'
  BY ThreadsAssumption DEF TypeOK, HoldsMutex, Checked, NoLostWakeup, Waiting, Notifying, Threads, Users
<1> QED BY <1>1, <1>2, <1>3, <1>4, <1>5, <1>6, <1>7

\* The list is locked.
LEMMA SpinGetInv == ASSUME Inv, NEW t \in Threads, SpinGet(t) PROVE Inv'
<1> USE DEF Inv, SpinGet, Goto, ringVars, MustWait, queue_full, queue_empty
<1>1. TypeOK'
  BY DEF TypeOK, Labels, Threads, Users
<1>2. HoldsMutex' /\ HoldsSpin'
  BY ThreadsAssumption DEF TypeOK, HoldsMutex, HoldsSpin, Threads, Users
<1>3. FullMeansMet' /\ Checked'
  BY ThreadsAssumption DEF TypeOK, HoldsMutex, FullMeansMet, Checked, Threads, Users
<1>4. WaitersListed' /\ FirstIsRelocking'
  BY ThreadsAssumption DEF TypeOK, HoldsMutex, HoldsSpin, WaitersListed, Waiting, Listed, Deleting,
             FirstIsRelocking, Threads, Users
<1>5. AtRestWhenDeleted' /\ FreedLast' /\ FreedIsDeleting'
  BY ThreadsAssumption DEF TypeOK, AtRestWhenDeleted, Deleting, FreedLast, FreedIsDeleting,
             Threads, Users
<1>6. SendsLeft'
  BY ThreadsAssumption DEF TypeOK, SendsLeft, Threads, Users
<1>7. NoLostWakeup'
  BY ThreadsAssumption DEF TypeOK, HoldsMutex, Checked, NoLostWakeup, Waiting, Notifying, Threads, Users
<1> QED BY <1>1, <1>2, <1>3, <1>4, <1>5, <1>6, <1>7

\* An event is sent to the first waiter.
LEMMA SendEventInv == ASSUME Inv, NEW t \in Threads, SendEvent(t) PROVE Inv'
<1> USE DEF Inv, SendEvent, Goto, OnEvent, Event, ringVars, MustWait, queue_full, queue_empty
<1>1. TypeOK'
  BY DEF TypeOK, Labels, Threads, Users
<1>2. HoldsMutex' /\ HoldsSpin'
  BY ThreadsAssumption DEF TypeOK, HoldsMutex, HoldsSpin, Threads, Users
<1>3. FullMeansMet' /\ Checked'
  BY ThreadsAssumption DEF TypeOK, HoldsMutex, FullMeansMet, Checked, Threads, Users
<1>4. WaitersListed' /\ FirstIsRelocking'
  <2>1. Head(waiters) \in Users /\ Head(waiters) # t
    BY DEF TypeOK
  <2>2. WaitersListed'
    BY <2>1 DEF TypeOK, WaitersListed, Waiting, Listed, Deleting, Threads
  <2>3. FirstIsRelocking'
    BY <2>1, ThreadsAssumption
       DEF TypeOK, HoldsSpin, FirstIsRelocking, Threads, Users
  <2> QED BY <2>2, <2>3
<1>5. AtRestWhenDeleted' /\ FreedLast' /\ FreedIsDeleting'
  BY ThreadsAssumption DEF TypeOK, AtRestWhenDeleted, Deleting, FreedLast, FreedIsDeleting,
             Threads, Users
<1>6. SendsLeft'
  BY ThreadsAssumption DEF TypeOK, SendsLeft, Threads, Users
<1>7. NoLostWakeup'
  BY ThreadsAssumption DEF TypeOK, HoldsMutex, Checked, NoLostWakeup, Waiting, Notifying, Threads, Users
<1> QED BY <1>1, <1>2, <1>3, <1>4, <1>5, <1>6, <1>7

\* The first waiter is unlinked.
LEMMA NextWaiterInv == ASSUME Inv, NEW t \in Threads, NextWaiter(t) PROVE Inv'
<1> USE DEF Inv, NextWaiter, Goto, ringVars, MustWait, queue_full, queue_empty
<1>1. TypeOK'
  <2>1. Tail(waiters) \in Seq(Users)
    BY DEF TypeOK, FirstIsRelocking
  <2> QED BY <2>1 DEF TypeOK, Labels
<1>2. HoldsMutex' /\ HoldsSpin'
  BY ThreadsAssumption DEF TypeOK, HoldsMutex, HoldsSpin, Threads, Users
<1>3. FullMeansMet' /\ Checked'
  BY ThreadsAssumption DEF TypeOK, HoldsMutex, FullMeansMet, Checked, Threads, Users
<1>4. WaitersListed'
  <2> SUFFICES ASSUME ~Deleting', NEW u \in Users, Waiting(u)' PROVE Listed(u)'
    BY DEF WaitersListed
  <2>1. ~Deleting /\ t \in Users
    BY DEF TypeOK, Deleting, Threads
  <2>2. Waiting(u) /\ u # Head(waiters)
    BY <2>1 DEF TypeOK, Waiting, FirstIsRelocking
  <2>3. PICK i \in 1..Len(waiters) : waiters[i] = u
    BY <2>1, <2>2 DEF WaitersListed, Listed
  <2>4. i # 1 /\ waiters # <<>>
    BY <2>2, <2>3 DEF TypeOK
  <2>5. i - 1 \in 1..Len(Tail(waiters)) /\ Tail(waiters)[i - 1] = u
    BY <2>3, <2>4 DEF TypeOK
  <2> QED BY <2>5 DEF Listed
<1>8. FirstIsRelocking'
  BY ThreadsAssumption DEF TypeOK, HoldsSpin, FirstIsRelocking
<1>5. AtRestWhenDeleted' /\ FreedLast' /\ FreedIsDeleting'
  BY ThreadsAssumption DEF TypeOK, AtRestWhenDeleted, Deleting, FreedLast, FreedIsDeleting,
             Threads, Users
<1>6. SendsLeft'
  BY ThreadsAssumption DEF TypeOK, SendsLeft, Threads, Users
<1>7. NoLostWakeup'
  BY ThreadsAssumption DEF TypeOK, HoldsMutex, Checked, NoLostWakeup, Waiting, Notifying, Threads, Users
<1> QED BY <1>1, <1>2, <1>3, <1>4, <1>5, <1>6, <1>7, <1>8

\* The list is unlocked.
LEMMA SpinPutInv == ASSUME Inv, NEW t \in Threads, SpinPut(t) PROVE Inv'
<1> USE DEF Inv, SpinPut, Goto, ringVars, MustWait, queue_full, queue_empty
<1>1. TypeOK'
  BY DEF TypeOK, Labels, Threads, Users
<1>2. HoldsMutex' /\ HoldsSpin'
  BY ThreadsAssumption DEF TypeOK, HoldsMutex, HoldsSpin, Threads, Users
<1>3. FullMeansMet' /\ Checked'
  BY ThreadsAssumption DEF TypeOK, HoldsMutex, FullMeansMet, Checked, Threads, Users
<1>4. WaitersListed' /\ FirstIsRelocking'
  BY ThreadsAssumption DEF TypeOK, HoldsMutex, HoldsSpin, WaitersListed, Waiting, Listed, Deleting,
             FirstIsRelocking, Threads, Users
<1>5. AtRestWhenDeleted' /\ FreedLast' /\ FreedIsDeleting'
  BY ThreadsAssumption DEF TypeOK, AtRestWhenDeleted, Deleting, FreedLast, FreedIsDeleting,
             Threads, Users
<1>6. SendsLeft'
  BY ThreadsAssumption DEF TypeOK, SendsLeft, Threads, Users
<1>7. NoLostWakeup'
  <2>1. CASE Deleting
    BY <2>1, ThreadsAssumption
       DEF TypeOK, AtRestWhenDeleted, NoLostWakeup, Waiting, Threads, Users
  <2>2. CASE ~Deleting
    BY <2>2, ThreadsAssumption
       DEF TypeOK, WaitersListed, Listed, NoLostWakeup, Waiting, Threads, Users
  <2> QED BY <2>1, <2>2
<1> QED BY <1>1, <1>2, <1>3, <1>4, <1>5, <1>6, <1>7

\* A dead node is read.
LEMMA NextDeadWaiterInv == ASSUME Inv, NEW d \in Deleters, NextDeadWaiter(d) PROVE Inv'
<1> USE DEF Inv, NextDeadWaiter, Goto, ringVars, MustWait, queue_full, queue_empty
<1>1. TypeOK'
  <2>1. Tail(waiters) \in Seq(Users)
    BY DEF TypeOK, FirstIsRelocking, Threads
  <2>2. <<>> \in Seq(Users)
    OBVIOUS
  <2> QED BY <2>1, <2>2 DEF TypeOK, Labels
<1>2. HoldsMutex' /\ HoldsSpin'
  BY ThreadsAssumption DEF TypeOK, HoldsMutex, HoldsSpin, Threads, Users
<1>3. FullMeansMet' /\ Checked'
  BY ThreadsAssumption DEF TypeOK, HoldsMutex, FullMeansMet, Checked, Threads, Users
<1>4. WaitersListed' /\ FirstIsRelocking'
  BY ThreadsAssumption DEF TypeOK, HoldsMutex, HoldsSpin, WaitersListed, Waiting, Listed, Deleting,
             FirstIsRelocking, Threads, Users
<1>5. AtRestWhenDeleted' /\ FreedLast' /\ FreedIsDeleting'
  BY ThreadsAssumption DEF TypeOK, AtRestWhenDeleted, Deleting, FreedLast, FreedIsDeleting,
             Threads, Users
<1>6. SendsLeft'
  BY ThreadsAssumption DEF TypeOK, SendsLeft, Threads, Users
<1>7. NoLostWakeup'
  <2>1. Deleting
    BY DEF Deleting
  <2> QED BY <2>1, ThreadsAssumption
             DEF TypeOK, AtRestWhenDeleted, NoLostWakeup, Waiting, Threads, Users
<1> QED BY <1>1, <1>2, <1>3, <1>4, <1>5, <1>6, <1>7

\* queue_delete begins.
LEMMA DeleteInv == ASSUME Inv, NEW d \in Deleters, Delete(d) PROVE Inv'
<1> USE DEF Inv, Delete, Goto, AtRest, ringVars, MustWait, queue_full, queue_empty
<1>1. TypeOK'
  BY DEF TypeOK, Labels, Threads, Users
<1>2. HoldsMutex' /\ HoldsSpin'
  BY ThreadsAssumption DEF TypeOK, HoldsMutex, HoldsSpin, Threads, Users
<1>3. FullMeansMet' /\ Checked'
  BY ThreadsAssumption DEF TypeOK, HoldsMutex, FullMeansMet, Checked, Threads, Users
<1>4. WaitersListed' /\ FirstIsRelocking'
  BY ThreadsAssumption DEF TypeOK, HoldsMutex, HoldsSpin, WaitersListed, Waiting, Listed, Deleting,
             FirstIsRelocking, Threads, Users
<1>5. AtRestWhenDeleted' /\ FreedLast' /\ FreedIsDeleting'
  <2>1. \A u \in Threads : ~Notifying(u)
    BY ThreadsAssumption DEF TypeOK, Notifying, Threads, Users
  <2>2. \A c \in Consumers : queue_empty
    BY <2>1, ThreadsAssumption DEF NoLostWakeup, Waiting, Users
  <2>3. ~freed
    BY ThreadsAssumption DEF FreedLast
  <2> QED BY <2>2, <2>3, ThreadsAssumption
             DEF TypeOK, AtRestWhenDeleted, Deleting, FreedLast, FreedIsDeleting, Threads, Users
<1>6. SendsLeft'
  BY ThreadsAssumption DEF TypeOK, SendsLeft, Threads, Users
<1>7. NoLostWakeup'
  BY ThreadsAssumption DEF TypeOK, HoldsMutex, Checked, NoLostWakeup, Waiting, Notifying, Threads, Users
<1> QED BY <1>1, <1>2, <1>3, <1>4, <1>5, <1>6, <1>7

\* The queue is freed.
LEMMA FreeInv == ASSUME Inv, NEW d \in Deleters, Free(d) PROVE Inv'
<1> USE DEF Inv, Free, Goto, ringVars, MustWait, queue_full, queue_empty
<1>1. TypeOK'
  BY DEF TypeOK, Labels, Threads, Users
<1>2. HoldsMutex' /\ HoldsSpin'
  BY ThreadsAssumption DEF TypeOK, HoldsMutex, HoldsSpin, Threads, Users
<1>3. FullMeansMet' /\ Checked'
  BY ThreadsAssumption DEF TypeOK, HoldsMutex, FullMeansMet, Checked, Threads, Users
<1>4. WaitersListed' /\ FirstIsRelocking'
  BY ThreadsAssumption DEF TypeOK, HoldsMutex, HoldsSpin, WaitersListed, Waiting, Listed, Deleting,
             FirstIsRelocking, Threads, Users
<1>5. AtRestWhenDeleted' /\ FreedLast' /\ FreedIsDeleting'
  BY ThreadsAssumption DEF TypeOK, AtRestWhenDeleted, Deleting, FreedLast, FreedIsDeleting,
             Threads, Users
<1>6. SendsLeft'
  BY ThreadsAssumption DEF TypeOK, SendsLeft, Threads, Users
<1>7. NoLostWakeup'
  BY ThreadsAssumption DEF TypeOK, HoldsMutex, Checked, NoLostWakeup, Waiting, Notifying, Threads, Users
<1> QED BY <1>1, <1>2, <1>3, <1>4, <1>5, <1>6, <1>7

\* Every behaviour of the queue satisfies the invariant.
LEMMA Invariance == Spec => []Inv
<1>1. Inv /\ [Next]_vars => Inv'
  <2> SUFFICES ASSUME Inv, [Next]_vars PROVE Inv'
    OBVIOUS
  <2>1. CASE UNCHANGED vars
    BY <2>1 DEF Inv, vars, ringVars, TypeOK, HoldsMutex, HoldsSpin, FullMeansMet, Checked,
                WaitersListed, Waiting, Listed, Deleting, FirstIsRelocking, AtRestWhenDeleted,
                FreedLast, FreedIsDeleting, SendsLeft, NoLostWakeup, Notifying,
                MustWait, queue_full, queue_empty
  <2>2. ASSUME NEW t \in Threads, Notify(t) PROVE Inv'
    BY <2>2, SpinGetInv, SendEventInv, NextWaiterInv, SpinPutInv DEF Notify
  <2>3. ASSUME NEW t \in Users, Progress(t) PROVE Inv'
    BY <2>2, <2>3, MutexGetInv, CheckInv, PutInv, TakeInv, MutexPutInv, EnlistInv, DropInv,
       ReturnFalseInv DEF Progress, Threads
  <2>4. ASSUME NEW d \in Deleters, Delete(d) \/ NextDeadWaiter(d) \/ Free(d) PROVE Inv'
    BY <2>4, DeleteInv, NextDeadWaiterInv, FreeInv
  <2> QED BY <2>1, <2>2, <2>3, <2>4, SendInv, ReceiveInv DEF Next, Threads
<1> QED BY <1>1, InitInv, PTL DEF Spec

-----------------------------------------------------------------------------
\* The state of queue_metal.c keeps its types: head and tail stay in the ring.
THEOREM QueueTypeCorrect == Spec => []TypeOK
<1>1. Inv => TypeOK
  BY DEF Inv
<1> QED BY <1>1, Invariance, PTL

\* The ring and the list of waiters are touched under the mutex only.
THEOREM QueueHoldsMutex == Spec => []HoldsMutex
<1>1. Inv => HoldsMutex
  BY DEF Inv
<1> QED BY <1>1, Invariance, PTL

\* No thread sleeps on a queue it could use unless a broadcast is on its way.
THEOREM QueueNoLostWakeup == Spec => []NoLostWakeup
<1>1. Inv => NoLostWakeup
  BY DEF Inv
<1> QED BY <1>1, Invariance, PTL

\* A broadcast reads no node of a thread that has left its wait.
THEOREM QueueBroadcastReadsLiveNodes == Spec => []BroadcastReadsLiveNodes
<1>1. Inv => BroadcastReadsLiveNodes
  BY DEF Inv, FirstIsRelocking, BroadcastReadsLiveNodes, NodeAlive, Threads
<1> QED BY <1>1, Invariance, PTL

\* No thread uses a queue that queue_delete has freed.
THEOREM QueueNoUseAfterFree == Spec => []NoUseAfterFree
<1>1. Inv => NoUseAfterFree
  BY DEF Inv, FreedIsDeleting, FreedLast, AtRestWhenDeleted, NoUseAfterFree, Threads, Users
<1> QED BY <1>1, Invariance, PTL

-----------------------------------------------------------------------------
\* The slot of the ring that holds the k-th item from index i on.
Slot(i, k) == (i + k - 1) % Length

LEMMA Wraps ==
  ASSUME NEW n \in 0..2*Length-2
  PROVE  n % Length = IF n < Length THEN n ELSE n - Length
<1>1. CASE n < Length
  BY <1>1, LengthAssumption
<1>2. CASE n >= Length
  BY <1>2, LengthAssumption
<1> QED BY <1>1, <1>2, LengthAssumption

LEMMA SlotIs ==
  ASSUME NEW i \in 0..Length-1, NEW k \in 1..Length
  PROVE  /\ Slot(i, k) \in 0..Length-1
         /\ Slot(i, k) = IF i + k - 1 < Length THEN i + k - 1 ELSE i + k - 1 - Length
<1> DEFINE n == i + k - 1
<1>1. n \in 0..2*Length-2
  BY LengthAssumption
<1>2. Slot(i, k) = n % Length
  BY DEF Slot
<1> HIDE DEF n
<1>3. n % Length = IF n < Length THEN n ELSE n - Length
  BY <1>1, Wraps
<1>4. Slot(i, k) = IF n < Length THEN n ELSE n - Length
  BY <1>2, <1>3
<1> QED BY <1>1, <1>4, LengthAssumption DEF n

\* queue_size is the number of items between tail and head.
LEMMA SizeIs ==
  ASSUME TypeOK, FullMeansMet
  PROVE  /\ queue_size \in 0..Length
         /\ queue_size = Length <=> full
         /\ queue_size = 0 <=> queue_empty
         /\ ~full => head = Slot(tail, queue_size + 1)
<1>1. queue_size \in 0..Length /\ (queue_size = Length <=> full) /\ (queue_size = 0 <=> queue_empty)
  BY LengthAssumption DEF TypeOK, FullMeansMet, queue_size, queue_empty
<1>2. ASSUME ~full PROVE head = Slot(tail, queue_size + 1)
  <2>1. queue_size + 1 \in 1..Length
    BY <1>1, <1>2, LengthAssumption
  <2> QED BY <1>2, <2>1, SlotIs, LengthAssumption DEF TypeOK, queue_size
<1> QED BY <1>1, <1>2

\* What the abstract queue is made of.
RingHolds ==
  /\ Contents \in Seq(Items \cup {NoItem})
  /\ Len(Contents) = queue_size
  /\ \A k \in 1..queue_size : Contents[k] = ring[Slot(tail, k)]

\* Contents is a sequence of queue_size items.
LEMMA ContentsIs == TypeOK /\ FullMeansMet => RingHolds
<1> SUFFICES ASSUME TypeOK, FullMeansMet PROVE RingHolds
  OBVIOUS
<1>1. queue_size \in 0..Length
  BY SizeIs
<1>2. \A k \in 1..queue_size : ring[Slot(tail, k)] \in Items \cup {NoItem}
  BY <1>1, SlotIs, LengthAssumption DEF TypeOK
<1>3. Contents = [k \in 1..queue_size |-> ring[Slot(tail, k)]]
  BY DEF Contents, Slot
<1> HIDE DEF Slot
<1>4. Contents \in [1..queue_size -> Items \cup {NoItem}]
  BY <1>2, <1>3
<1>5. Contents \in Seq(Items \cup {NoItem}) /\ Len(Contents) = queue_size
  BY <1>1, <1>4, LengthAssumption
<1> QED BY <1>3, <1>5 DEF RingHolds

\* A step that leaves the ring alone leaves the abstract queue alone.
LEMMA ContentsStays == UNCHANGED ringVars => UNCHANGED Contents
BY DEF ringVars, Contents, queue_size

\* Storing an item appends it.
LEMMA PutSends == ASSUME Inv, Inv', NEW p \in Producers, Put(p) PROVE Fifo!Send(NextItem(p))
<1> USE DEF Inv
<1>1. ~full
  BY DEF Put, Checked, MustWait, queue_full, Users
<1>2. tail' = tail /\ head' = Advance(head) /\ full' = (head' = tail)
  BY <1>1 DEF Put, FullAfter
<1>3. queue_size' = queue_size + 1
  <2>1. head' = IF head + 1 = Length THEN 0 ELSE head + 1
    BY <1>2, AdvanceIs DEF TypeOK
  <2>2. head \in 0..Length-1 /\ tail \in 0..Length-1
    BY DEF TypeOK
  <2>3. CASE head' = tail
    <3>1. full'
      BY <1>2, <2>3
    <3>2. queue_size = Length - 1
      BY <1>1, <2>1, <2>2, <2>3, LengthAssumption DEF queue_size
    <3> QED BY <3>1, <3>2, LengthAssumption DEF queue_size
  <2>4. CASE head' # tail
    <3>1. ~full'
      BY <1>2, <2>4
    <3> QED BY <1>1, <1>2, <2>1, <2>2, <2>4, <3>1, LengthAssumption DEF queue_size
  <2> QED BY <2>3, <2>4
<1>4. queue_size < Length /\ head = Slot(tail, queue_size + 1) /\ queue_size \in 0..Length
  BY <1>1, SizeIs, LengthAssumption
<1>5. \A k \in 1..Length : Slot(tail', k) = Slot(tail, k)
  BY <1>2 DEF Slot
<1>6. \A k \in 1..queue_size : Slot(tail, k) # head
  <2> SUFFICES ASSUME NEW k \in 1..queue_size PROVE Slot(tail, k) # Slot(tail, queue_size + 1)
    BY <1>4
  <2>1. k \in 1..Length /\ queue_size + 1 \in 1..Length
    BY <1>4, LengthAssumption
  <2>2. tail \in 0..Length-1
    BY DEF TypeOK
  <2>3. Slot(tail, k) = IF tail + k - 1 < Length THEN tail + k - 1 ELSE tail + k - 1 - Length
    BY <2>1, <2>2, SlotIs
  <2> DEFINE m == queue_size + 1
  <2>4. m \in 1..Length /\ k < m
    BY <1>4, <2>1
  <2> HIDE DEF m
  <2>5. Slot(tail, m) = IF tail + m - 1 < Length THEN tail + m - 1 ELSE tail + m - 1 - Length
    BY <2>2, <2>4, SlotIs
  <2>6. Slot(tail, k) # Slot(tail, m)
    BY <2>1, <2>2, <2>3, <2>4, <2>5, LengthAssumption
  <2> QED BY <2>6 DEF m
<1>7. NextItem(p) \in Items \cup {NoItem}
  BY ThreadsAssumption DEF Put, TypeOK, SendsLeft, Items, NextItem
<1>8. /\ Contents' \in Seq(Items \cup {NoItem})
      /\ Len(Contents') = queue_size + 1
      /\ \A k \in 1..queue_size + 1 : Contents'[k] = ring'[Slot(tail, k)]
  <2>1. RingHolds'
    BY ContentsIs, PTL
  <2> QED BY <1>3, <1>4, <1>5, <2>1, LengthAssumption DEF RingHolds
<1>9. /\ Append(Contents, NextItem(p)) \in Seq(Items \cup {NoItem})
      /\ Len(Append(Contents, NextItem(p))) = queue_size + 1
      /\ \A k \in 1..queue_size : Append(Contents, NextItem(p))[k] = ring[Slot(tail, k)]
      /\ Append(Contents, NextItem(p))[queue_size + 1] = NextItem(p)
  BY <1>7, ContentsIs, AppendProperties DEF RingHolds
<1>10. \A k \in 1..queue_size + 1 : Contents'[k] = Append(Contents, NextItem(p))[k]
  <2>1. \A k \in 1..queue_size : ring'[Slot(tail, k)] = ring[Slot(tail, k)]
    BY <1>4, <1>6, SlotIs, LengthAssumption DEF Put, TypeOK
  <2>2. ring'[Slot(tail, queue_size + 1)] = NextItem(p)
    BY <1>4 DEF Put, TypeOK
  <2> QED BY <1>4, <1>8, <1>9, <2>1, <2>2
<1>11. Contents' = Append(Contents, NextItem(p))
  BY <1>8, <1>9, <1>10, SeqEqual
<1> QED BY <1>4, <1>11, ContentsIs DEF Put, Fifo!Send, RingHolds

\* Taking an item removes the first.
LEMMA TakeReceives == ASSUME Inv, Inv', NEW c \in Consumers, Take(c) PROVE Fifo!Receive(c)
<1> USE DEF Inv
<1>1. ~queue_empty
  BY ThreadsAssumption DEF Take, Checked, MustWait, Users
<1>2. tail' = Advance(tail) /\ head' = head /\ ~full' /\ ring' = ring
  BY DEF Take
<1>3. queue_size' = queue_size - 1
  <2>1. tail' = IF tail + 1 = Length THEN 0 ELSE tail + 1
    BY <1>2, AdvanceIs DEF TypeOK
  <2>2. head \in 0..Length-1 /\ tail \in 0..Length-1 /\ (full => head = tail)
    BY DEF TypeOK, FullMeansMet
  <2>3. CASE full
    BY <1>2, <2>1, <2>2, <2>3, LengthAssumption DEF queue_size
  <2>4. CASE ~full
    BY <1>1, <1>2, <2>1, <2>2, <2>4, LengthAssumption DEF queue_size, queue_empty
  <2> QED BY <2>3, <2>4
<1>4. queue_size \in 1..Length
  BY <1>1, SizeIs, LengthAssumption
<1>5. \A k \in 1..queue_size - 1 : Slot(tail', k) = Slot(tail, k + 1)
  <2> SUFFICES ASSUME NEW k \in 1..queue_size - 1 PROVE Slot(tail', k) = Slot(tail, k + 1)
    OBVIOUS
  <2>1. k \in 1..Length /\ k + 1 \in 1..Length
    BY <1>4, LengthAssumption
  <2>2. tail \in 0..Length-1 /\ tail' \in 0..Length-1
    BY DEF TypeOK
  <2>3. Slot(tail', k) = IF tail' + k - 1 < Length THEN tail' + k - 1 ELSE tail' + k - 1 - Length
    BY <2>1, <2>2, SlotIs
  <2> DEFINE m == k + 1
  <2>4. m \in 1..Length /\ m - 1 = k
    BY <2>1
  <2> HIDE DEF m
  <2>5. Slot(tail, m) = IF tail + m - 1 < Length THEN tail + m - 1 ELSE tail + m - 1 - Length
    BY <2>2, <2>4, SlotIs
  <2>6. tail' = IF tail + 1 = Length THEN 0 ELSE tail + 1
    BY <1>2, <2>2, AdvanceIs
  <2>7. Slot(tail', k) = Slot(tail, m)
    BY <2>1, <2>2, <2>3, <2>4, <2>5, <2>6, LengthAssumption
  <2> QED BY <2>7 DEF m
<1>6. Slot(tail, 1) = tail
  BY SlotIs, LengthAssumption DEF TypeOK
<1>7. /\ Contents # <<>>
      /\ Head(Contents) = ring[tail]
      /\ Tail(Contents) \in Seq(Items \cup {NoItem})
      /\ Len(Tail(Contents)) = queue_size - 1
      /\ \A k \in 1..queue_size - 1 : Tail(Contents)[k] = ring[Slot(tail, k + 1)]
  <2>1. Contents # <<>> /\ Contents[1] = ring[tail]
    BY <1>4, <1>6, ContentsIs DEF RingHolds
  <2>2. Head(Contents) = ring[tail]
    BY <2>1, ContentsIs DEF RingHolds
  <2> QED BY <1>4, <2>1, <2>2, ContentsIs, HeadTailProperties, LengthAssumption
         DEF RingHolds
<1>8. /\ Contents' \in Seq(Items \cup {NoItem})
      /\ Len(Contents') = queue_size - 1
      /\ \A k \in 1..queue_size - 1 : Contents'[k] = ring[Slot(tail, k + 1)]
  <2>1. RingHolds'
    BY ContentsIs, PTL
  <2> QED BY <1>2, <1>3, <1>5, <2>1 DEF RingHolds
<1>9. Contents' = Tail(Contents)
  BY <1>7, <1>8, SeqEqual
<1> QED BY <1>7, <1>9 DEF Take, Fifo!Receive

\* Every step of the threads is a step of the abstract queue or leaves it alone.
LEMMA FifoStep ==
  ASSUME Inv, Inv', [Next]_vars PROVE [Fifo!Next]_<<Contents, got>>
<1>1. ASSUME NEW p \in Producers, Put(p) PROVE Fifo!Next
  <2>1. NextItem(p) \in Items
    BY <1>1, ThreadsAssumption DEF Put, Inv, TypeOK, SendsLeft, Items, NextItem
  <2> QED BY <1>1, <2>1, PutSends DEF Fifo!Next
<1>2. ASSUME NEW c \in Consumers, Take(c) PROVE Fifo!Next
  BY <1>2, TakeReceives DEF Fifo!Next
<1>3. ASSUME UNCHANGED <<ringVars, got>> PROVE UNCHANGED <<Contents, got>>
  BY <1>3, ContentsStays
<1>4. ASSUME NEW t \in Threads, Notify(t) PROVE UNCHANGED <<ringVars, got>>
  BY <1>4 DEF Notify, SpinGet, SendEvent, NextWaiter, SpinPut
<1>5. ASSUME NEW t \in Users,
             \/ MutexGet(t) \/ Check(t) \/ MutexPut(t) \/ Enlist(t) \/ Drop(t) \/ ReturnFalse(t)
      PROVE  UNCHANGED <<ringVars, got>>
  BY <1>5 DEF MutexGet, Check, MutexPut, Enlist, Drop, ReturnFalse
<1>6. ASSUME NEW d \in Deleters, Delete(d) \/ NextDeadWaiter(d) \/ Free(d)
      PROVE  UNCHANGED <<ringVars, got>>
  BY <1>6 DEF Delete, NextDeadWaiter, Free
<1>7. ASSUME NEW t \in Users, Send(t) \/ Receive(t) PROVE UNCHANGED <<ringVars, got>>
  BY <1>7 DEF Send, Receive
<1>8. CASE UNCHANGED vars
  BY <1>3, <1>8 DEF vars
<1> QED BY <1>1, <1>2, <1>3, <1>4, <1>5, <1>6, <1>7, <1>8
        DEF Next, Progress, Threads, Users

\* Ring buffer, mutex and condition variable implement a bounded FIFO queue, for
\* every length and every number of producers and consumers.
THEOREM QueueImplementsBoundedQueue == Spec => ImplementsBoundedQueue
<1>1. Init => Fifo!Init
  <2> SUFFICES ASSUME Init PROVE Fifo!Init
    OBVIOUS
  <2>1. TypeOK /\ FullMeansMet /\ queue_size = 0
    BY InitInv DEF Inv, Init, queue_size
  <2>2. Contents = <<>>
    BY <2>1, ContentsIs, EmptySeq DEF RingHolds
  <2> QED BY <2>2 DEF Init, Fifo!Init
<1>2. Inv /\ Inv' /\ [Next]_vars => [Fifo!Next]_<<Contents, got>>
  BY FifoStep
<1> QED BY <1>1, <1>2, Invariance, PTL DEF Spec, ImplementsBoundedQueue, Fifo!Spec
=============================================================================
