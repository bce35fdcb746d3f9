\* Two workers and three tasks, alone or in a group, through a queue of two slots; a client
\* that runs a task itself when it finds both workers busy.
CONSTANTS
  Tasks = {1, 2, 3}
  Groups = {g1}
  ThreadCount = 2
  Length = 2
  GroupLength = 2
  UseCallersThread = TRUE
  Client = Client
  None = None
SPECIFICATION FairSpec
INVARIANTS TypeOK PerformedOnce NoTaskUseAfterFree NoCounterUseAfterFree NoLeak
PROPERTIES ImplementsDispatch QueueWaitCoversBegun CallsReturn AddedIsPerformed
CHECK_DEADLOCK FALSE
