------------------------- MODULE WorkerStacksProof -------------------------
(***************************************************************************)
(* The stacks of the bare-metal workers do not overlap, for any number of  *)
(* workers and any stack size.                                             *)
(***************************************************************************)
EXTENDS WorkerStacks, TLAPS

\* Every stack that was placed ends at or before the offset of the next one.
PlacedBelow == \A i \in 1..Len(stacks) : stacks[i] + StackBytes <= stack_offset

Inv == TypeOK /\ PlacedBelow /\ StacksDisjoint

\* dispatch_queue_init has placed no stack yet.
LEMMA InitInv == Init => Inv
  BY DEF Init, Inv, TypeOK, PlacedBelow, StacksDisjoint

\* A turn of the loop of dispatch_queue_init, or nothing, preserves the invariant.
LEMMA NextInv == Inv /\ [Next]_vars => Inv'
<1> SUFFICES ASSUME Inv, [Next]_vars PROVE Inv'
  OBVIOUS
<1>1. CASE UNCHANGED vars
  BY <1>1 DEF Inv, TypeOK, PlacedBelow, StacksDisjoint, StackBytes, vars
<1>2. CASE Launch
  <2>1. /\ stacks \in Seq(Nat) /\ stack_offset \in Nat
        /\ thread_stack_size \in Nat \ {0}
        /\ StackBytes \in Nat /\ StackBytes' = StackBytes
        /\ stack_offset' = stack_offset + StackBytes
    BY <1>2 DEF Inv, TypeOK, Launch, OffsetStep, StackBytes, SizeOfInt
  <2>2. /\ stacks' \in Seq(Nat)
        /\ Len(stacks') = Len(stacks) + 1
        /\ \A i \in 1..Len(stacks) : stacks'[i] = stacks[i]
        /\ stacks'[Len(stacks) + 1] = stack_offset
    BY <1>2, <2>1 DEF Launch
  <2>3. TypeOK'
    BY <1>2, <2>1, <2>2 DEF Inv, TypeOK, Launch
  <2>4. PlacedBelow'
    <3> SUFFICES ASSUME NEW i \in 1..Len(stacks')
                 PROVE  stacks'[i] + StackBytes <= stack_offset + StackBytes
      BY <2>1 DEF PlacedBelow
    <3>1. CASE i \in 1..Len(stacks)
      <4>1. stacks[i] + StackBytes <= stack_offset
        BY <3>1 DEF Inv, PlacedBelow
      <4>2. stacks[i] \in Nat /\ stacks'[i] = stacks[i]
        BY <3>1, <2>1, <2>2
      <4> QED
        BY <4>1, <4>2, <2>1
    <3>2. CASE i = Len(stacks) + 1
      BY <3>2, <2>1, <2>2
    <3> QED
      BY <3>1, <3>2, <2>1, <2>2
  <2>5. StacksDisjoint'
    <3> SUFFICES ASSUME NEW i \in 1..Len(stacks'), NEW j \in 1..Len(stacks'), i < j
                 PROVE  stacks'[i] + StackBytes <= stacks'[j]
      BY <2>1 DEF StacksDisjoint
    <3>1. i \in 1..Len(stacks)
      BY <2>1, <2>2
    <3>2. CASE j \in 1..Len(stacks)
      BY <3>1, <3>2, <2>2 DEF Inv, StacksDisjoint
    <3>3. CASE j = Len(stacks) + 1
      BY <3>1, <3>3, <2>2 DEF Inv, PlacedBelow
    <3> QED
      BY <3>2, <3>3, <2>1, <2>2
  <2> QED
    BY <2>3, <2>4, <2>5 DEF Inv
<1> QED
  BY <1>1, <1>2 DEF Next

\* The stacks dispatch_queue_init gives to the workers never overlap.
THEOREM WorkerStacksDisjoint == Spec => []StacksDisjoint
<1>1. Inv => StacksDisjoint
  BY DEF Inv
<1> QED
  BY InitInv, NextInv, <1>1, PTL DEF Spec
=============================================================================
