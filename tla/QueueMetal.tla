----------------------------- MODULE QueueMetal -----------------------------
(***************************************************************************)
(* The blocking queue of the bare-metal build: queue_metal.c over          *)
(* condition_variable_metal.c.                                             *)
(*                                                                         *)
(* Threads share a ring buffer under a hardware lock (mutex).  A thread    *)
(* that finds the queue full (or empty) links a node of its own stack into *)
(* the condition variable's list, gives up the mutex and blocks on its     *)
(* channel end; whoever changes the ring walks the list under the spinlock *)
(* and sends every waiter an event.  A send on a channel is a rendezvous:  *)
(* chan_out_byte returns when the other side has executed chan_in_byte     *)
(* (this is why condition_variable_send points both ends at each other).   *)
(*                                                                         *)
(* Every thread has a channel end of its own, so a list node is named by   *)
(* the thread that owns it and the linked list is a sequence of threads.   *)
(***************************************************************************)
EXTENDS Integers, Sequences

CONSTANTS Producers,  \* threads that call queue_send
          Consumers,  \* threads that call queue_receive in a loop
          Deleters,   \* threads that call queue_delete: the owner, or nobody
          NoThread,   \* "nobody" in a lock
          NoItem,     \* an uninitialised slot of the ring buffer
          Length,     \* queue_create(length)
          MaxSends    \* bound: calls of queue_send by each producer

ASSUME LengthAssumption == Length \in Nat \ {0}   \* dispatch_assert(length > 0)

ASSUME ThreadsAssumption ==
  /\ Producers \cap Consumers = {}
  /\ (Producers \cup Consumers) \cap Deleters = {}
  /\ NoThread \notin Producers \cup Consumers \cup Deleters
  /\ \A d, e \in Deleters : d = e
  /\ MaxSends \in Nat

VARIABLES
  ring, head, tail, full,  \* queue_t: ring_buffer, head, tail, full
  mutex,                   \* who holds queue->mutex
  spin,                    \* who holds cv->lock
  waiters,                 \* cv->waiters, first node first
  freed,                   \* queue_delete has freed the queue
  pc,                      \* pc[t]: what thread t does next
  sent,                    \* sent[p]: items producer p has put in the ring
  got                      \* got[c]: the item consumer c received last

ringVars == <<ring, head, tail, full>>
vars == <<ringVars, mutex, spin, waiters, freed, pc, sent, got>>

Users == Producers \cup Consumers
Threads == Users \cup Deleters

\* The items of producer p are told apart by the order p sends them in.
Items == Producers \X (1..MaxSends)
NextItem(p) == <<p, sent[p] + 1>>

-----------------------------------------------------------------------------
\* The ring buffer.
queue_full == full
queue_empty == ~full /\ head = tail

\* queue_size; its mutex makes the three reads one.
queue_size ==
  IF full THEN Length
  ELSE IF head >= tail THEN head - tail
  ELSE Length + head - tail

\* A mutant of Advance: the index does not wrap.
AdvanceNoWrap(i) == i + 1

Advance(i) == (i + 1) % Length

\* The queue the ring stands for, oldest item first.
Contents == [i \in 1..queue_size |-> ring[(tail + i - 1) % Length]]

\* queue_create.
Init ==
  /\ ring = [i \in 0..Length-1 |-> NoItem]
  /\ head = 0
  /\ tail = 0
  /\ full = FALSE
  /\ mutex = NoThread
  /\ spin = NoThread
  /\ waiters = <<>>
  /\ freed = FALSE
  /\ pc = [t \in Threads |-> "idle"]
  /\ sent = [p \in Producers |-> 0]
  /\ got = [c \in Consumers |-> NoItem]

Goto(t, label) == pc' = [pc EXCEPT ![t] = label]

-----------------------------------------------------------------------------
(***************************************************************************)
(* queue_send and queue_receive.                                           *)
(***************************************************************************)
\* A producer calls queue_send; nobody does once the queue is being deleted.
Send(p) ==
  /\ pc[p] = "idle"
  /\ sent[p] < MaxSends
  /\ \A d \in Deleters : pc[d] = "idle"
  /\ Goto(p, "lock")
  /\ UNCHANGED <<ringVars, mutex, spin, waiters, freed, sent, got>>

\* A consumer calls queue_receive, again and again.
Receive(c) ==
  /\ pc[c] = "idle"
  /\ Goto(c, "lock")
  /\ UNCHANGED <<ringVars, mutex, spin, waiters, freed, sent, got>>

\* dispatch_mutex_get on entry, and again when condition_variable_wait was signalled.
MutexGet(t) ==
  /\ pc[t] \in {"lock", "relock"}
  /\ mutex = NoThread
  /\ mutex' = t
  /\ Goto(t, "check")
  /\ UNCHANGED <<ringVars, spin, waiters, freed, sent, got>>

\* while (queue_full(queue)), while (queue_empty(queue)).
MustWait(t) == IF t \in Producers THEN queue_full ELSE queue_empty

Check(t) ==
  /\ pc[t] = "check"
  /\ Goto(t, IF MustWait(t) THEN "enlist" ELSE "update")
  /\ UNCHANGED <<ringVars, mutex, spin, waiters, freed, sent, got>>

\* A mutant of FullAfter: a full ring looks like an empty one.
NeverFull(h, t) == FALSE

\* full = (head == tail), after a send.
FullAfter(h, t) == h = t

\* Mutants of AfterUpdate: queue_send, or queue_receive, does not broadcast.
SendIsSilent(t) == IF t \in Producers THEN "unlock" ELSE "notify"
ReceiveIsSilent(t) == IF t \in Consumers THEN "unlock" ELSE "notify"

\* Having changed the ring, both sides broadcast.
AfterUpdate(t) == "notify"

\* queue_send stores the item and advances the ring.
Put(p) ==
  /\ pc[p] = "update"
  /\ ring' = [ring EXCEPT ![head] = NextItem(p)]
  /\ tail' = IF full THEN Advance(tail) ELSE tail
  /\ head' = Advance(head)
  /\ full' = FullAfter(head', tail')
  /\ sent' = [sent EXCEPT ![p] = @ + 1]
  /\ Goto(p, AfterUpdate(p))
  /\ UNCHANGED <<mutex, spin, waiters, freed, got>>

\* queue_receive takes the oldest item.
Take(c) ==
  /\ pc[c] = "update"
  /\ got' = [got EXCEPT ![c] = ring[tail]]
  /\ full' = FALSE
  /\ tail' = Advance(tail)
  /\ Goto(c, AfterUpdate(c))
  /\ UNCHANGED <<ring, head, mutex, spin, waiters, freed, sent>>

\* dispatch_mutex_put: done with the queue.
MutexPut(t) ==
  /\ pc[t] = "unlock"
  /\ mutex' = NoThread
  /\ Goto(t, "idle")
  /\ UNCHANGED <<ringVars, spin, waiters, freed, sent, got>>

-----------------------------------------------------------------------------
(***************************************************************************)
(* condition_variable_wait.                                                *)
(***************************************************************************)
\* Link the node at the front of the list, under the spinlock.
Enlist(t) ==
  /\ pc[t] = "enlist"
  /\ spin = NoThread
  /\ waiters' = <<t>> \o waiters
  /\ Goto(t, "drop")
  /\ UNCHANGED <<ringVars, mutex, spin, freed, sent, got>>

\* Release the mutex while we wait; then block in chan_in_byte.
Drop(t) ==
  /\ pc[t] = "drop"
  /\ mutex' = NoThread
  /\ Goto(t, "in")
  /\ UNCHANGED <<ringVars, spin, waiters, freed, sent, got>>

\* A mutant of OnEvent: the wait returns at once, without queueing for the mutex.
OnEventNoRelock(evt) == IF evt = "SIGNAL" THEN "check" ELSE "terminated"

\* A mutant of OnEvent: the mutex is re-acquired after a terminate event too.
OnEventAlwaysRelock(evt) == IF evt \in {"SIGNAL", "TERMINATE"} THEN "relock" ELSE "terminated"

\* What a waiter does with the event it receives: re-acquire the lock, or
\* (terminate) give up without it.
OnEvent(evt) == IF evt = "SIGNAL" THEN "relock" ELSE "terminated"

\* The wait returns false; the caller leaves its loop and its node is gone.
ReturnFalse(t) ==
  /\ pc[t] = "terminated"
  /\ Goto(t, "stopped")
  /\ UNCHANGED <<ringVars, mutex, spin, waiters, freed, sent, got>>

-----------------------------------------------------------------------------
(***************************************************************************)
(* condition_variable_broadcast and condition_variable_terminate.          *)
(***************************************************************************)
Event(t) == IF t \in Deleters THEN "TERMINATE" ELSE "SIGNAL"

SpinGet(t) ==
  /\ pc[t] = "notify"
  /\ spin = NoThread
  /\ spin' = t
  /\ Goto(t, "loop")
  /\ UNCHANGED <<ringVars, mutex, waiters, freed, sent, got>>

\* condition_variable_send to the first waiter; both sides leave the channel.
SendEvent(t) ==
  /\ pc[t] = "loop"
  /\ waiters # <<>>
  /\ LET w == Head(waiters)
     IN /\ pc[w] = "in"
        /\ pc' = [pc EXCEPT ![t] = "next", ![w] = OnEvent(Event(t))]
  /\ UNCHANGED <<ringVars, mutex, spin, waiters, freed, sent, got>>

\* A node lives on the stack of its thread while the thread is in the wait.
NodeAlive(w) == pc[w] \in {"drop", "in", "relock", "terminated"}

\* cv->waiters = cv->waiters->next
NextWaiter(t) ==
  /\ pc[t] = "next"
  /\ NodeAlive(Head(waiters))
  /\ waiters' = Tail(waiters)
  /\ Goto(t, "loop")
  /\ UNCHANGED <<ringVars, mutex, spin, freed, sent, got>>

\* The same when the node is gone: its memory may still be intact, may read as
\* NULL, or may send the loop after a wild pointer.
NextDeadWaiter(t) ==
  /\ pc[t] = "next"
  /\ ~NodeAlive(Head(waiters))
  /\ \/ waiters' = Tail(waiters) /\ Goto(t, "loop")
     \/ waiters' = <<>> /\ Goto(t, "loop")
     \/ UNCHANGED waiters /\ Goto(t, "trap")
  /\ UNCHANGED <<ringVars, mutex, spin, freed, sent, got>>

\* The list is empty: release the spinlock.
SpinPut(t) ==
  /\ pc[t] = "loop"
  /\ waiters = <<>>
  /\ spin' = NoThread
  /\ Goto(t, IF t \in Deleters THEN "free" ELSE "unlock")
  /\ UNCHANGED <<ringVars, mutex, waiters, freed, sent, got>>

-----------------------------------------------------------------------------
(***************************************************************************)
(* queue_delete.  It takes no lock, so its caller has to know that the     *)
(* queue is at rest; test_queue_metal.c sleeps until it must be.           *)
(***************************************************************************)
AtRest ==
  /\ \A p \in Producers : pc[p] = "idle"
  /\ \A c \in Consumers : pc[c] = "in"

Delete(d) ==
  /\ pc[d] = "idle"
  /\ AtRest
  /\ Goto(d, "notify")
  /\ UNCHANGED <<ringVars, mutex, spin, waiters, freed, sent, got>>

\* condition_variable_delete, dispatch_mutex_delete and the two frees.
Free(d) ==
  /\ pc[d] = "free"
  /\ freed' = TRUE
  /\ Goto(d, "stopped")
  /\ UNCHANGED <<ringVars, mutex, spin, waiters, sent, got>>

-----------------------------------------------------------------------------
\* The walk of the list, by whoever notifies.
Notify(t) ==
  \/ SpinGet(t)
  \/ SendEvent(t)
  \/ NextWaiter(t)
  \/ SpinPut(t)

\* What a call of queue_send or queue_receive does once it has begun.
Progress(t) ==
  \/ MutexGet(t)
  \/ Check(t)
  \/ t \in Producers /\ Put(t)
  \/ t \in Consumers /\ Take(t)
  \/ MutexPut(t)
  \/ Enlist(t)
  \/ Drop(t)
  \/ ReturnFalse(t)
  \/ Notify(t)

Next ==
  \/ \E p \in Producers : Send(p)
  \/ \E c \in Consumers : Receive(c)
  \/ \E t \in Users : Progress(t)
  \/ \E d \in Deleters : Delete(d) \/ Notify(d) \/ NextDeadWaiter(d) \/ Free(d)

Spec == Init /\ [][Next]_vars

\* Threads keep running and consumers keep receiving; nobody has to send.
FairSpec ==
  /\ Spec
  /\ \A t \in Users : WF_vars(Progress(t))
  /\ \A c \in Consumers : WF_vars(Receive(c))

-----------------------------------------------------------------------------
Labels == {"idle", "lock", "check", "enlist", "drop", "in", "relock", "terminated",
           "update", "notify", "loop", "next", "unlock", "free", "stopped", "trap"}

TypeOK ==
  /\ ring \in [0..Length-1 -> Items \cup {NoItem}]
  /\ head \in 0..Length-1
  /\ tail \in 0..Length-1
  /\ full \in BOOLEAN
  /\ mutex \in Users \cup {NoThread}
  /\ spin \in Threads \cup {NoThread}
  /\ waiters \in Seq(Users)
  /\ freed \in BOOLEAN
  /\ pc \in [Threads -> Labels]
  /\ sent \in [Producers -> 0..MaxSends]
  /\ got \in [Consumers -> Items \cup {NoItem}]

\* "NOTE: we are holding the mutex now" (queue_metal.c lines 66 and 99): a user
\* thread holds the mutex wherever it touches the ring or walks the list, also
\* after having waited, and nobody else does.
HoldsMutex ==
  \A t \in Users :
    pc[t] \in {"check", "enlist", "drop", "update", "notify", "loop", "next", "unlock"}
      <=> mutex = t

Notifying(t) == pc[t] \in {"notify", "loop", "next"}

Waiting(t) == pc[t] \in {"drop", "in"}

\* No wake-up is lost: a producer waits only while the queue is full and a
\* consumer only while it is empty, unless a thread is on its way to wake them.
NoLostWakeup ==
  \A t \in Users : Waiting(t) => MustWait(t) \/ \E u \in Threads : Notifying(u)

\* The node read by cv->waiters->next (condition_variable_metal.c line 72) is
\* still on its owner's stack when a broadcast reads it, although the owner has
\* already been sent its event.
BroadcastReadsLiveNodes ==
  \A t \in Users : pc[t] = "next" => waiters # <<>> /\ NodeAlive(Head(waiters))

\* After queue_delete no thread goes on to use the queue: a waiter that is
\* terminated returns without taking the deleted mutex again.
NoUseAfterFree ==
  freed => \A t \in Threads : pc[t] \in {"in", "terminated", "idle", "stopped", "trap"}

\* "send all waiter the terminate event" (condition_variable_metal.c line 83):
\* when queue_delete is done no thread is left waiting on the deleted queue.
DeleteReleasesWaiters ==
  freed => \A t \in Users : pc[t] # "in"

\* Every queue_send that has begun returns, however often the queue is full.
SendReturns ==
  \A p \in Producers : (pc[p] # "idle") ~> (pc[p] = "idle")

\* Every item that has been sent is eventually received.
ItemsAreReceived == (Contents # <<>>) ~> (Contents = <<>>)

Fifo == INSTANCE BoundedQueue
          WITH contents <- Contents, Receivers <- Consumers

\* Ring, mutex and condition variable together are a bounded FIFO queue: no item
\* is overwritten, lost, duplicated or taken out of order.
ImplementsBoundedQueue == Fifo!Spec
=============================================================================
