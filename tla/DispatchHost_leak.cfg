\* A waitable group of one task, added and waited for.
CONSTANTS
  Tasks = {1}
  Groups = {g1}
  ThreadCount = 1
  Length = 1
  GroupLength = 1
  UseCallersThread = FALSE
  SpuriousWakeups = FALSE
  Client = Client
  None = None
SPECIFICATION Spec
INVARIANT NoLeak
CHECK_DEADLOCK FALSE
