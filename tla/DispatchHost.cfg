\* Two workers and three tasks, alone or in a group, with spurious wake-ups.
CONSTANTS
  Tasks = {1, 2, 3}
  Groups = {g1}
  ThreadCount = 2
  Length = 1
  GroupLength = 2
  UseCallersThread = FALSE
  SpuriousWakeups = TRUE
  Client = Client
  None = None
SPECIFICATION FairSpec
INVARIANTS TypeOK PerformedOnce LeaksOnlyGroupTasks
PROPERTIES ImplementsDispatch QueueWaitCoversAll CallsReturn AddedIsPerformed
CHECK_DEADLOCK FALSE
