------------------------------ MODULE LockSpec ------------------------------
(***************************************************************************)
(* What spinlock.h promises its callers: one core at a time owns the lock, *)
(* and only the owner gives it back.                                       *)
(***************************************************************************)
CONSTANTS Cores,     \* the logical cores that use the lock
          NoCore     \* "nobody": a value outside Cores

VARIABLE owner

\* spinlock_create leaves the lock unowned.
Init == owner = NoCore

\* spinlock_acquire returns in core c.
Acquire(c) ==
  /\ owner = NoCore
  /\ owner' = c

\* spinlock_release by its owner.
Release(c) ==
  /\ owner = c
  /\ owner' = NoCore

Next == \E c \in Cores : Acquire(c) \/ Release(c)

Spec == Init /\ [][Next]_owner
=============================================================================
