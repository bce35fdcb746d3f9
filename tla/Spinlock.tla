------------------------------ MODULE Spinlock ------------------------------
(***************************************************************************)
(* The software lock of the bare-metal build, instruction by instruction:  *)
(* spinlock_asm.S (spinlock_try_acquire) and spinlock.c.                   *)
(*                                                                         *)
(* The lock is an ordinary word of memory.  A core claims it by storing    *)
(* its identifier over the zero it has just loaded, waits a few nops, and  *)
(* owns the lock if the word still holds its claim.  Nothing but the time  *)
(* the nops take keeps two cores from owning the lock together, so the     *)
(* model carries that much of time: lag[u][c] counts the instructions that *)
(* core c issues after the last one issued by core u, and Skew bounds it.  *)
(***************************************************************************)
EXTENDS Integers

CONSTANTS Cores,   \* hardware identifiers, what `get r11, id` returns
          NoCore,  \* "no core", for the abstract lock
          Nops,    \* nops between the claim and its check: 7, or 1 on XS1B
          Skew     \* a running core issues an instruction before any other
                   \* core has issued more than Skew (property of the hardware)

\* The claim is a non-zero word because identifiers start at 0.
ASSUME CoresAssumption ==
  /\ Cores \subseteq Nat
  /\ NoCore \notin Cores

\* The nops outlast the two instructions between the first load and the store
\* of a core that lags: this is the sizing the comment in spinlock_asm.S asks for.
ASSUME DelayAssumption ==
  /\ Nops \in Nat
  /\ Skew \in Nat \ {0}
  /\ Nops + 2 > 2 * Skew

VARIABLES
  word,   \* *lock
  pc,     \* pc[c]: the instruction core c executes next
  r1,     \* r1[c]: the word as first loaded by spinlock_try_acquire
  delay,  \* delay[c]: nops core c has still to execute
  lag     \* lag[u][c]: see above, kept while u is between its load and its store

vars == <<word, pc, r1, delay, lag>>

SPINLOCK_INITIAL_VALUE == 0

\* A mutant of Claim: the identifier itself, without the add.
ClaimIsId(c) == c

\* `get r11, id` and `add r11, r11, 1`: the word a core stores as its claim.
Claim(c) == c + 1

\* A mutant of ClaimDelay: one nop missing.
OneNopShort == Nops - 1

\* The nops a core executes between its claim and the check.
ClaimDelay == Nops

\* A core that has executed the load and not yet the store.
Lagging(u) == pc[u] \in {"bt", "stw"}

\* Core c issues one instruction: allowed when no lagging core falls behind
\* by more than Skew.
Issue(c) ==
  /\ \A u \in Cores \ {c} : Lagging(u) => lag[u][c] < Skew
  /\ lag' = [u \in Cores |->
               IF u = c THEN [x \in Cores |-> 0]
               ELSE IF Lagging(u) THEN [lag[u] EXCEPT ![c] = @ + 1]
               ELSE lag[u]]

-----------------------------------------------------------------------------
\* spinlock_create.
Init ==
  /\ word = SPINLOCK_INITIAL_VALUE
  /\ pc = [c \in Cores |-> "idle"]
  /\ r1 = [c \in Cores |-> SPINLOCK_INITIAL_VALUE]
  /\ delay = [c \in Cores |-> 0]
  /\ lag = [u \in Cores |-> [c \in Cores |-> 0]]

\* A core calls spinlock_acquire.
Call(c) ==
  /\ pc[c] = "idle"
  /\ Issue(c)
  /\ pc' = [pc EXCEPT ![c] = "ldw"]
  /\ UNCHANGED <<word, r1, delay>>

\* `ldw r1, r0[0]`: get the current mutex value.
Load(c) ==
  /\ pc[c] = "ldw"
  /\ Issue(c)
  /\ r1' = [r1 EXCEPT ![c] = word]
  /\ pc' = [pc EXCEPT ![c] = "bt"]
  /\ UNCHANGED <<word, delay>>

\* `bt r1, .Lfailed`: a claimed lock fails the attempt and spinlock_acquire
\* tries again.
Branch(c) ==
  /\ pc[c] = "bt"
  /\ Issue(c)
  /\ pc' = [pc EXCEPT ![c] = IF r1[c] = SPINLOCK_INITIAL_VALUE THEN "stw" ELSE "ldw"]
  /\ UNCHANGED <<word, r1, delay>>

\* A mutant of Store: the claim is added to the word and not stored over it, which is
\* the same as long as no two claims collide.
StoreAdds(c) ==
  /\ pc[c] = "stw"
  /\ Issue(c)
  /\ word' = word + Claim(c)
  /\ pc' = [pc EXCEPT ![c] = "claimed"]
  /\ delay' = [delay EXCEPT ![c] = ClaimDelay]
  /\ UNCHANGED r1

\* `stw r11, r0[0]`: claim the lock.
Store(c) ==
  /\ pc[c] = "stw"
  /\ Issue(c)
  /\ word' = Claim(c)
  /\ pc' = [pc EXCEPT ![c] = "claimed"]
  /\ delay' = [delay EXCEPT ![c] = ClaimDelay]
  /\ UNCHANGED r1

\* One of the nops.
Nop(c) ==
  /\ pc[c] = "claimed"
  /\ delay[c] > 0
  /\ Issue(c)
  /\ delay' = [delay EXCEPT ![c] = @ - 1]
  /\ UNCHANGED <<word, pc, r1>>

\* `ldw r2, r0[0]`, `eq r0, r11, r2` and the loop test of spinlock_acquire:
\* the lock is ours if the claim is still in the word.
Reload(c) ==
  /\ pc[c] = "claimed"
  /\ delay[c] = 0
  /\ Issue(c)
  /\ pc' = [pc EXCEPT ![c] = IF word = Claim(c) THEN "held" ELSE "ldw"]
  /\ UNCHANGED <<word, r1, delay>>

\* A mutant of Release: the word is not reset.
ReleaseKeepsClaim(c) ==
  /\ pc[c] = "held"
  /\ Issue(c)
  /\ pc' = [pc EXCEPT ![c] = "idle"]
  /\ UNCHANGED <<word, r1, delay>>

\* spinlock_release.
Release(c) ==
  /\ pc[c] = "held"
  /\ Issue(c)
  /\ word' = SPINLOCK_INITIAL_VALUE
  /\ pc' = [pc EXCEPT ![c] = "idle"]
  /\ UNCHANGED <<r1, delay>>

\* Everything a core does once it has called spinlock_acquire.
Run(c) ==
  \/ Load(c)
  \/ Branch(c)
  \/ Store(c)
  \/ Nop(c)
  \/ Reload(c)
  \/ Release(c)

Next == \E c \in Cores : Call(c) \/ Run(c)

Spec == Init /\ [][Next]_vars

\* Every hardware thread is issued instructions for ever; a caller that owns
\* the lock releases it, and nobody is obliged to ask for the lock.
FairSpec == Spec /\ \A c \in Cores : WF_vars(Run(c))

-----------------------------------------------------------------------------
\* The types of the state.  However the stores of spinlock_asm.S line 22 collide with
\* each other and with a release, the word, and what a core has loaded of it, is zero
\* or the claim of one core.
TypeOK ==
  /\ word \in {SPINLOCK_INITIAL_VALUE} \cup {Claim(c) : c \in Cores}
  /\ pc \in [Cores -> {"idle", "ldw", "bt", "stw", "claimed", "held"}]
  /\ r1 \in [Cores -> {SPINLOCK_INITIAL_VALUE} \cup {Claim(c) : c \in Cores}]
  /\ delay \in [Cores -> 0..Nops]
  /\ lag \in [Cores -> [Cores -> 0..Skew]]

\* Two cores never own the lock at once, however their instructions interleave:
\* the store of spinlock_asm.S line 22 cannot land after another core's check
\* on line 35 has succeeded.
MutualExclusion ==
  \A c, d \in Cores : pc[c] = "held" /\ pc[d] = "held" => c = d

\* A claimed word always belongs to a core that is still checking the claim or
\* owns the lock; an orphaned claim would make every later `bt` fail for ever.
NoOrphanedClaim ==
  word # SPINLOCK_INITIAL_VALUE =>
    \E c \in Cores : word = Claim(c) /\ pc[c] \in {"claimed", "held"}

\* When cores want the lock, some core gets it: colliding claims do not make
\* all of them fail for ever.  (A given core may starve; the code promises no more.)
SomeCoreAcquires ==
  (\E c \in Cores : pc[c] \in {"ldw", "bt", "stw", "claimed"})
    ~> (\E c \in Cores : pc[c] = "held")

Holder ==
  IF \E c \in Cores : pc[c] = "held"
  THEN CHOOSE c \in Cores : pc[c] = "held"
  ELSE NoCore

Lock == INSTANCE LockSpec WITH owner <- Holder

\* The instruction sequence implements the lock spinlock.h describes: ownership
\* passes only through a released lock, never straight from core to core.
ImplementsLock == Lock!Spec
=============================================================================
