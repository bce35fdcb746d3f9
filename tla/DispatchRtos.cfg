\* Two workers and three tasks, alone or in a group, through a queue of two slots.
CONSTANTS
  Tasks = {1, 2, 3}
  Groups = {g1}
  ThreadCount = 2
  Length = 2
  GroupLength = 2
  UseCallersThread = FALSE
  Client = Client
  None = None
SPECIFICATION FairSpec
INVARIANTS TypeOK PerformedOnce NoTaskUseAfterFree NoCounterUseAfterFree NoLeak
PROPERTIES ImplementsDispatch QueueWaitMissesOnlyReceived CallsReturn AddedIsPerformed
CHECK_DEADLOCK FALSE
