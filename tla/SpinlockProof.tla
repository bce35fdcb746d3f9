--------------------------- MODULE SpinlockProof ---------------------------
(***************************************************************************)
(* Mutual exclusion of the spinlock for every set of cores, every number   *)
(* of nops and every skew the nops outlast.                                *)
(*                                                                         *)
(* MutualExclusion is not inductive: nothing in it forbids a core that     *)
(* loaded zero long ago from storing its claim over the owner's.  What     *)
(* forbids it is time, so the inductive invariant counts: a core whose     *)
(* claim stands has issued at most as many instructions since its store as *)
(* an armed core (one that will still store) has let it issue (Overtaken). *)
(***************************************************************************)
EXTENDS Spinlock, TLAPS

\* Core u has loaded zero and will store its claim.
Armed(u) == Lagging(u) /\ r1[u] = SPINLOCK_INITIAL_VALUE

\* Instructions core c has issued since its claim, the store included.
SinceClaim(c) == 1 + (Nops - delay[c])

\* What an armed core u allows c to have issued since u's load.
Allowance(u, c) == lag[u][c] + (IF pc[u] = "stw" THEN Skew ELSE 0)

\* A core about to store has seen zero.
StoreAfterZero == \A u \in Cores : pc[u] = "stw" => r1[u] = SPINLOCK_INITIAL_VALUE

\* The owner's claim is in the word and no core will overwrite it.
OwnerIsSafe ==
  \A c \in Cores : pc[c] = "held" =>
    word = Claim(c) /\ \A u \in Cores : ~Armed(u)

\* A standing claim is younger than the load of every armed core.
Overtaken ==
  \A c, u \in Cores :
    c # u /\ pc[c] = "claimed" /\ word = Claim(c) /\ Armed(u)
      => SinceClaim(c) <= Allowance(u, c)

Inv == TypeOK /\ StoreAfterZero /\ NoOrphanedClaim /\ OwnerIsSafe /\ Overtaken

-----------------------------------------------------------------------------
\* Claims of different cores differ, and none looks like a free lock.
LEMMA ClaimIsUnique ==
  ASSUME NEW c \in Cores, NEW d \in Cores
  PROVE  /\ Claim(c) \in Nat
         /\ Claim(c) # SPINLOCK_INITIAL_VALUE
         /\ Claim(c) = Claim(d) => c = d
BY CoresAssumption DEF Claim, SPINLOCK_INITIAL_VALUE

\* spinlock_create establishes the invariant.
LEMMA InitInv == Init => Inv
<1> SUFFICES ASSUME Init PROVE Inv
  OBVIOUS
<1>1. TypeOK
  BY DelayAssumption DEF Init, TypeOK
<1>2. \A c \in Cores : pc[c] = "idle"
  BY DEF Init
<1>3. StoreAfterZero /\ OwnerIsSafe /\ Overtaken
  BY <1>2 DEF StoreAfterZero, OwnerIsSafe, Overtaken
<1>4. NoOrphanedClaim
  BY DEF Init, NoOrphanedClaim
<1> QED BY <1>1, <1>3, <1>4 DEF Inv

\* What issuing an instruction does to the lags.
LEMMA IssueLag ==
  ASSUME TypeOK, NEW c \in Cores, Issue(c)
  PROVE  /\ lag' \in [Cores -> [Cores -> 0..Skew]]
         /\ \A d \in Cores : lag'[c][d] = 0
         /\ \A u \in Cores \ {c} : Lagging(u) =>
              /\ lag[u][c] < Skew
              /\ lag'[u][c] = lag[u][c] + 1
              /\ \A d \in Cores \ {c} : lag'[u][d] = lag[u][d]
         /\ \A u \in Cores \ {c} : ~Lagging(u) => lag'[u] = lag[u]
BY DelayAssumption DEF TypeOK, Issue

\* Every step of every core preserves the types.
LEMMA TypeStep == TypeOK /\ [Next]_vars => TypeOK'
<1> SUFFICES ASSUME TypeOK, [Next]_vars PROVE TypeOK'
  OBVIOUS
<1>1. ASSUME NEW c \in Cores, Call(c) PROVE TypeOK'
  BY <1>1, IssueLag DEF Call, TypeOK
<1>2. ASSUME NEW c \in Cores, Load(c) PROVE TypeOK'
  BY <1>2, IssueLag DEF Load, TypeOK
<1>3. ASSUME NEW c \in Cores, Branch(c) PROVE TypeOK'
  BY <1>3, IssueLag DEF Branch, TypeOK
<1>4. ASSUME NEW c \in Cores, Store(c) PROVE TypeOK'
  BY <1>4, IssueLag, DelayAssumption DEF Store, ClaimDelay, TypeOK
<1>5. ASSUME NEW c \in Cores, Nop(c) PROVE TypeOK'
  BY <1>5, IssueLag, DelayAssumption DEF Nop, TypeOK
<1>6. ASSUME NEW c \in Cores, Reload(c) PROVE TypeOK'
  BY <1>6, IssueLag DEF Reload, TypeOK
<1>7. ASSUME NEW c \in Cores, Release(c) PROVE TypeOK'
  BY <1>7, IssueLag DEF Release, TypeOK
<1>8. CASE UNCHANGED vars
  BY <1>8 DEF vars, TypeOK
<1> QED BY <1>1, <1>2, <1>3, <1>4, <1>5, <1>6, <1>7, <1>8 DEF Next, Run

-----------------------------------------------------------------------------
\* Calling spinlock_acquire disturbs nobody.
LEMMA CallInv == ASSUME Inv, NEW c \in Cores, Call(c) PROVE Inv'
<1> USE DEF Inv, Lagging, Armed
<1>1. TypeOK'
  BY TypeStep DEF Next
<1>2. StoreAfterZero' /\ NoOrphanedClaim' /\ OwnerIsSafe'
  BY DEF Call, TypeOK, StoreAfterZero, NoOrphanedClaim, OwnerIsSafe
<1>3. Overtaken'
  BY IssueLag DEF Call, TypeOK, Overtaken, SinceClaim, Allowance
<1> QED BY <1>1, <1>2, <1>3

\* A core is armed only by loading a free lock, when no claim stands.
LEMMA LoadInv == ASSUME Inv, NEW c \in Cores, Load(c) PROVE Inv'
<1> USE DEF Inv, Lagging, Armed
<1>1. TypeOK'
  BY TypeStep DEF Next, Run
<1>2. StoreAfterZero' /\ NoOrphanedClaim'
  BY DEF Load, TypeOK, StoreAfterZero, NoOrphanedClaim
<1>3. OwnerIsSafe'
  BY ClaimIsUnique DEF Load, TypeOK, OwnerIsSafe
<1>4. Overtaken'
  BY IssueLag, ClaimIsUnique DEF Load, TypeOK, Overtaken, SinceClaim, Allowance
<1> QED BY <1>1, <1>2, <1>3, <1>4

\* The branch restarts the lag at zero, and Skew takes its place.
LEMMA BranchInv == ASSUME Inv, NEW c \in Cores, Branch(c) PROVE Inv'
<1> USE DEF Inv, Lagging, Armed
<1>1. TypeOK'
  BY TypeStep DEF Next, Run
<1>2. StoreAfterZero' /\ NoOrphanedClaim' /\ OwnerIsSafe'
  BY DEF Branch, TypeOK, StoreAfterZero, NoOrphanedClaim, OwnerIsSafe
<1>3. Overtaken'
  <2> SUFFICES ASSUME NEW d \in Cores, NEW u \in Cores, d # u,
                      pc'[d] = "claimed", word' = Claim(d), Armed(u)'
               PROVE  SinceClaim(d)' <= Allowance(u, d)'
    BY DEF Overtaken
  <2>1. pc[d] = "claimed" /\ word = Claim(d) /\ Armed(u) /\ d # c
    BY DEF Branch, TypeOK
  <2>2. SinceClaim(d) <= Allowance(u, d)
    BY <2>1 DEF Overtaken
  <2>3. CASE u = c
    BY <2>1, <2>2, <2>3, IssueLag, DelayAssumption
       DEF Branch, TypeOK, SinceClaim, Allowance
  <2>4. CASE u # c
    BY <2>1, <2>2, <2>4, IssueLag, DelayAssumption
       DEF Branch, TypeOK, SinceClaim, Allowance
  <2> QED BY <2>3, <2>4
<1> QED BY <1>1, <1>2, <1>3

\* A claim finds no owner, and starts one instruction behind every armed core.
LEMMA StoreInv == ASSUME Inv, NEW c \in Cores, Store(c) PROVE Inv'
<1> USE DEF Inv, Lagging, Armed
<1>1. TypeOK'
  BY TypeStep DEF Next, Run
<1>2. StoreAfterZero' /\ NoOrphanedClaim'
  BY DEF Store, ClaimDelay, TypeOK, StoreAfterZero, NoOrphanedClaim
<1>3. OwnerIsSafe'
  BY DEF Store, ClaimDelay, TypeOK, OwnerIsSafe, StoreAfterZero
<1>4. Overtaken'
  <2> SUFFICES ASSUME NEW d \in Cores, NEW u \in Cores, d # u,
                      pc'[d] = "claimed", word' = Claim(d), Armed(u)'
               PROVE  SinceClaim(d)' <= Allowance(u, d)'
    BY DEF Overtaken
  <2>1. d = c /\ Armed(u) /\ delay'[d] = Nops
    BY ClaimIsUnique DEF Store, ClaimDelay, TypeOK
  <2>2. lag'[u][c] = lag[u][c] + 1 /\ lag[u][c] \in Nat
    BY <2>1, IssueLag DEF Store, ClaimDelay, TypeOK
  <2> QED BY <2>1, <2>2, DelayAssumption DEF Store, ClaimDelay, TypeOK, SinceClaim, Allowance
<1> QED BY <1>1, <1>2, <1>3, <1>4

\* A nop ages the claim and the allowances by one instruction.
LEMMA NopInv == ASSUME Inv, NEW c \in Cores, Nop(c) PROVE Inv'
<1> USE DEF Inv, Lagging, Armed
<1>1. TypeOK'
  BY TypeStep DEF Next, Run
<1>2. StoreAfterZero' /\ NoOrphanedClaim' /\ OwnerIsSafe'
  BY DEF Nop, TypeOK, StoreAfterZero, NoOrphanedClaim, OwnerIsSafe
<1>3. Overtaken'
  <2> SUFFICES ASSUME NEW d \in Cores, NEW u \in Cores, d # u,
                      pc'[d] = "claimed", word' = Claim(d), Armed(u)'
               PROVE  SinceClaim(d)' <= Allowance(u, d)'
    BY DEF Overtaken
  <2>1. pc[d] = "claimed" /\ word = Claim(d) /\ Armed(u) /\ u # c
    BY DEF Nop, TypeOK
  <2>2. SinceClaim(d) <= Allowance(u, d)
    BY <2>1 DEF Overtaken
  <2>3. CASE d = c
    BY <2>1, <2>2, <2>3, IssueLag, DelayAssumption
       DEF Nop, TypeOK, SinceClaim, Allowance
  <2>4. CASE d # c
    BY <2>1, <2>2, <2>4, IssueLag, DelayAssumption
       DEF Nop, TypeOK, SinceClaim, Allowance
  <2> QED BY <2>3, <2>4
<1> QED BY <1>1, <1>2, <1>3

\* A check that succeeds leaves no core armed: it would have been overtaken by
\* more instructions than the skew allows.
LEMMA ReloadInv == ASSUME Inv, NEW c \in Cores, Reload(c) PROVE Inv'
<1> USE DEF Inv, Lagging, Armed
<1>1. TypeOK'
  BY TypeStep DEF Next, Run
<1>2. StoreAfterZero' /\ NoOrphanedClaim'
  BY ClaimIsUnique DEF Reload, TypeOK, StoreAfterZero, NoOrphanedClaim
<1>3. ASSUME word = Claim(c), NEW u \in Cores, Armed(u) PROVE FALSE
  <2>1. u # c
    BY <1>3 DEF Reload, TypeOK
  <2>2. SinceClaim(c) <= Allowance(u, c)
    BY <1>3, <2>1 DEF Overtaken, Reload
  <2>3. lag[u][c] < Skew
    BY <1>3, <2>1, IssueLag DEF Reload
  <2> QED BY <2>2, <2>3, DelayAssumption
             DEF Reload, TypeOK, SinceClaim, Allowance
<1>4. OwnerIsSafe'
  BY <1>3 DEF Reload, TypeOK, OwnerIsSafe
<1>5. Overtaken'
  <2> SUFFICES ASSUME NEW d \in Cores, NEW u \in Cores, d # u,
                      pc'[d] = "claimed", word' = Claim(d), Armed(u)'
               PROVE  SinceClaim(d)' <= Allowance(u, d)'
    BY DEF Overtaken
  <2>1. pc[d] = "claimed" /\ word = Claim(d) /\ Armed(u) /\ u # c /\ d # c
    BY DEF Reload, TypeOK
  <2>2. SinceClaim(d) <= Allowance(u, d)
    BY <2>1 DEF Overtaken
  <2> QED BY <2>1, <2>2, IssueLag DEF Reload, TypeOK, SinceClaim, Allowance
<1> QED BY <1>1, <1>2, <1>4, <1>5

\* Only the owner frees the lock, and a free lock has no standing claim.
LEMMA ReleaseInv == ASSUME Inv, NEW c \in Cores, Release(c) PROVE Inv'
<1> USE DEF Inv, Lagging, Armed
<1>1. TypeOK'
  BY TypeStep DEF Next, Run
<1>2. StoreAfterZero' /\ NoOrphanedClaim'
  BY DEF Release, TypeOK, StoreAfterZero, NoOrphanedClaim
<1>3. OwnerIsSafe'
  BY ClaimIsUnique DEF Release, TypeOK, OwnerIsSafe
<1>4. Overtaken'
  BY ClaimIsUnique DEF Release, TypeOK, Overtaken
<1> QED BY <1>1, <1>2, <1>3, <1>4

\* Every behaviour of the lock satisfies the invariant.
LEMMA Invariance == Spec => []Inv
<1>1. Inv /\ [Next]_vars => Inv'
  <2> SUFFICES ASSUME Inv, [Next]_vars PROVE Inv'
    OBVIOUS
  <2>1. CASE UNCHANGED vars
    BY <2>1 DEF Inv, vars, TypeOK, StoreAfterZero, NoOrphanedClaim, OwnerIsSafe,
                Overtaken, Armed, Lagging, SinceClaim, Allowance
  <2>2. ASSUME NEW c \in Cores, Call(c) \/ Run(c) PROVE Inv'
    BY <2>2, CallInv, LoadInv, BranchInv, StoreInv, NopInv, ReloadInv, ReleaseInv
       DEF Run
  <2> QED BY <2>1, <2>2 DEF Next
<1> QED BY <1>1, InitInv, PTL DEF Spec

-----------------------------------------------------------------------------
\* The state of spinlock_asm.S keeps its types: in particular the word of the lock is zero
\* or the claim of one core, however the stores of line 22 collide.
THEOREM SpinlockTypeCorrect == Spec => []TypeOK
<1>1. Inv => TypeOK
  BY DEF Inv
<1> QED BY <1>1, Invariance, PTL

\* Two cores never own the spinlock together (spinlock_asm.S lines 20-36), for
\* any number of cores and any nops and skew with Nops + 2 > 2 * Skew.
THEOREM SpinlockMutualExclusion == Spec => []MutualExclusion
<1>1. Inv => MutualExclusion
  BY ClaimIsUnique DEF Inv, OwnerIsSafe, MutualExclusion
<1> QED BY <1>1, Invariance, PTL

\* A claimed lock word is never left behind by a core that gave up its claim.
THEOREM SpinlockNoOrphanedClaim == Spec => []NoOrphanedClaim
<1>1. Inv => NoOrphanedClaim
  BY DEF Inv
<1> QED BY <1>1, Invariance, PTL

-----------------------------------------------------------------------------
\* The abstract owner is the core that holds the lock, if there is one.
LEMMA HolderIs ==
  ASSUME MutualExclusion
  PROVE  /\ \A c \in Cores : pc[c] = "held" => Holder = c
         /\ (\A c \in Cores : pc[c] # "held") => Holder = NoCore
BY DEF Holder, MutualExclusion

\* A step that lets no core in or out of the lock keeps the abstract owner.
LEMMA HolderStays ==
  ASSUME MutualExclusion, MutualExclusion',
         \A c \in Cores : pc'[c] = "held" <=> pc[c] = "held"
  PROVE  UNCHANGED Holder
<1>1. CASE \E c \in Cores : pc[c] = "held"
  BY <1>1 DEF Holder, MutualExclusion
<1>2. CASE \A c \in Cores : pc[c] # "held"
  BY <1>2 DEF Holder
<1> QED BY <1>1, <1>2

\* Every step of the instructions is a step of the abstract lock or leaves it alone.
LEMMA LockStep ==
  ASSUME Inv, Inv', MutualExclusion, MutualExclusion', [Next]_vars
  PROVE  [Lock!Next]_Holder
<1>1. ASSUME NEW c \in Cores, Reload(c), word = Claim(c) PROVE Lock!Acquire(c)
  <2>1. \A d \in Cores : pc[d] # "held"
    BY <1>1, ClaimIsUnique DEF Inv, OwnerIsSafe, Reload
  <2>2. Holder = NoCore
    BY <2>1 DEF Holder
  <2>3. pc'[c] = "held"
    BY <1>1 DEF Reload, Inv, TypeOK
  <2>4. Holder' = c
    BY <2>3 DEF Holder, MutualExclusion
  <2> QED BY <2>2, <2>4 DEF Lock!Acquire
<1>2. ASSUME NEW c \in Cores, Release(c) PROVE Lock!Release(c)
  <2>1. pc[c] = "held"
    BY <1>2 DEF Release
  <2>2. Holder = c
    BY <2>1, HolderIs
  <2>3. \A d \in Cores : pc'[d] # "held"
    BY <1>2, <2>1 DEF Release, Inv, TypeOK, MutualExclusion
  <2>4. Holder' = NoCore
    BY <2>3 DEF Holder
  <2> QED BY <2>2, <2>4 DEF Lock!Release
<1>3. ASSUME NEW c \in Cores,
             \/ Call(c) \/ Load(c) \/ Branch(c) \/ Store(c) \/ Nop(c)
             \/ Reload(c) /\ word # Claim(c)
      PROVE  UNCHANGED Holder
  <2>1. \A d \in Cores : pc'[d] = "held" <=> pc[d] = "held"
    BY <1>3 DEF Call, Load, Branch, Store, Nop, Reload, Inv, TypeOK
  <2> QED BY <2>1, HolderStays
<1>4. CASE UNCHANGED vars
  BY <1>4, HolderStays DEF vars
<1> QED BY <1>1, <1>2, <1>3, <1>4 DEF Next, Run, Lock!Next

\* spinlock_asm.S and spinlock.c implement the lock that spinlock.h describes.
THEOREM SpinlockImplementsLock == Spec => ImplementsLock
<1>1. Init => Lock!Init
  BY DEF Init, Lock!Init, Holder
<1>2. Inv /\ Inv' /\ MutualExclusion /\ MutualExclusion' /\ [Next]_vars
        => [Lock!Next]_Holder
  BY LockStep
<1> QED BY <1>1, <1>2, Invariance, SpinlockMutualExclusion, PTL
        DEF Spec, ImplementsLock, Lock!Spec
=============================================================================
