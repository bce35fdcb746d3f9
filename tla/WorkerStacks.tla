---------------------------- MODULE WorkerStacks ----------------------------
(***************************************************************************)
(* The stacks of the bare-metal workers: dispatch_queue_create of          *)
(* dispatch_queue_metal.c allocates one block for all of them and          *)
(* dispatch_queue_init places them in it, one turn of its loop at a time.  *)
(* Addresses are bytes from the start of the block.                        *)
(***************************************************************************)
EXTENDS Integers, Sequences

CONSTANTS MaxThreads,  \* bound on thread_count: hardware threads of a tile
          MaxStack     \* bound on thread_stack_size, in words

VARIABLES thread_count, thread_stack_size,  \* the arguments of dispatch_queue_create
          stack_offset,                     \* dispatch_queue_init's local variable
          stacks                            \* the addresses given to stack_base so far

vars == <<thread_count, thread_stack_size, stack_offset, stacks>>

\* sizeof(int) of an xCORE
SizeOfInt == 4

\* dispatch_malloc(dispatch_queue->thread_stack_size * thread_count)
Allocated == thread_stack_size * thread_count

\* stack_base(mem, words): the worker's stack takes this many bytes from mem on.
StackBytes == thread_stack_size * SizeOfInt

Init ==
  /\ thread_count \in 1..MaxThreads
  /\ thread_stack_size \in 1..MaxStack
  /\ stack_offset = 0
  /\ stacks = <<>>

OffsetStep == thread_stack_size * SizeOfInt

\* run_async(dispatch_queue_worker, ..., stack_base(...)), and the next offset.
Launch ==
  /\ Len(stacks) < thread_count
  /\ stacks' = Append(stacks, stack_offset)
  /\ stack_offset' = stack_offset + OffsetStep
  /\ UNCHANGED <<thread_count, thread_stack_size>>

Next == Launch

Spec == Init /\ [][Next]_vars

-----------------------------------------------------------------------------
TypeOK ==
  /\ thread_count \in 1..MaxThreads
  /\ thread_stack_size \in 1..MaxStack
  /\ stack_offset \in Nat
  /\ stacks \in Seq(Nat)

\* No two workers' stacks overlap (dispatch_queue_init, the offset of each stack).
StacksDisjoint ==
  \A i, j \in 1..Len(stacks) : i < j => stacks[i] + StackBytes <= stacks[j]

\* "Size (in words) of the stack for each thread worker" (dispatch_queue.h line 21):
\* a stack of that size lies inside the block that was allocated for the stacks.
StacksWithinAllocation ==
  \A i \in 1..Len(stacks) : stacks[i] + StackBytes <= Allocated
=============================================================================
