---------------------------- MODULE BoundedQueue ----------------------------
(***************************************************************************)
(* What queue_metal.h promises: a first-in first-out queue of at most      *)
(* Length items shared by any number of threads.  An item is handed to one *)
(* receiver, once, in the order of arrival.                                *)
(***************************************************************************)
EXTENDS Naturals, Sequences

CONSTANTS Items,      \* what can be queued
          Receivers,  \* the threads that receive
          NoItem,     \* what a receiver has before its first item
          Length      \* the capacity

VARIABLES contents,   \* the queued items, oldest first
          got         \* got[r]: the item receiver r was handed last

Init ==
  /\ contents = <<>>
  /\ got = [r \in Receivers |-> NoItem]

\* queue_send takes effect: there is room.
Send(x) ==
  /\ Len(contents) < Length
  /\ contents' = Append(contents, x)
  /\ UNCHANGED got

\* queue_receive takes effect: the oldest item goes to r.
Receive(r) ==
  /\ contents # <<>>
  /\ got' = [got EXCEPT ![r] = Head(contents)]
  /\ contents' = Tail(contents)

Next ==
  \/ \E x \in Items : Send(x)
  \/ \E r \in Receivers : Receive(r)

Spec == Init /\ [][Next]_<<contents, got>>
=============================================================================
