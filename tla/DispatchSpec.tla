---------------------------- MODULE DispatchSpec ----------------------------
(***************************************************************************)
(* What dispatch_queue.h and README.rst promise of a dispatch queue,       *)
(* whatever its implementation: the tasks are taken in FIFO order, each is *)
(* performed once, a wait returns only for tasks that are done, and a task *)
(* is freed only when it is done.  With use_callers_thread the caller may  *)
(* run a task itself (test/src/dispatch_config.h lines 20 to 28), past the *)
(* queue.                                                                  *)
(***************************************************************************)
EXTENDS Sequences

CONSTANTS Tasks,
          CallersRun  \* may the caller of dispatch_queue_task_add run the task?

VARIABLES order,    \* the tasks waiting for a worker, oldest first
          running,  \* the tasks workers or the caller have taken
          done,     \* the tasks that have been performed
          waited,   \* the tasks a wait has returned for
          freed     \* the tasks whose memory has been freed

vars == <<order, running, done, waited, freed>>

Init ==
  /\ order = <<>>
  /\ running = {} /\ done = {} /\ waited = {} /\ freed = {}

\* dispatch_queue_task_add, or one of the tasks of a dispatch_queue_group_add.
Add(t) ==
  /\ t \notin running \cup done
  /\ \A i \in DOMAIN order : order[i] # t
  /\ order' = Append(order, t)
  /\ UNCHANGED <<running, done, waited, freed>>

\* A worker takes the oldest task.
Start ==
  /\ order # <<>>
  /\ order' = Tail(order)
  /\ running' = running \cup {Head(order)}
  /\ UNCHANGED <<done, waited, freed>>

\* The caller runs the task it was about to add.
PitchIn(t) ==
  /\ CallersRun
  /\ t \notin running \cup done
  /\ \A i \in DOMAIN order : order[i] # t
  /\ running' = running \cup {t}
  /\ UNCHANGED <<order, done, waited, freed>>

Finish(t) ==
  /\ t \in running
  /\ running' = running \ {t}
  /\ done' = done \cup {t}
  /\ UNCHANGED <<order, waited, freed>>

\* dispatch_queue_task_wait or dispatch_queue_group_wait returns for the tasks S
\* and frees those of F.
Return(S, F) ==
  /\ S \subseteq done \ waited
  /\ F \subseteq S \ freed
  /\ waited' = waited \cup S
  /\ freed' = freed \cup F
  /\ UNCHANGED <<order, running, done>>

\* The worker frees a task that nobody waits for.
Free(t) ==
  /\ t \in done \ freed
  /\ freed' = freed \cup {t}
  /\ UNCHANGED <<order, running, done, waited>>

Next ==
  \/ Start
  \/ \E t \in Tasks : Add(t) \/ PitchIn(t) \/ Finish(t) \/ Free(t)
  \/ \E S \in SUBSET Tasks : \E F \in SUBSET S : Return(S, F)

Spec == Init /\ [][Next]_vars
=============================================================================
