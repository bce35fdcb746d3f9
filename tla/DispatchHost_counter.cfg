\* One task, waited for while its worker signals.
CONSTANTS
  Tasks = {1}
  Groups = {}
  ThreadCount = 1
  Length = 1
  GroupLength = 1
  UseCallersThread = FALSE
  SpuriousWakeups = FALSE
  Client = Client
  None = None
SPECIFICATION Spec
INVARIANT NoCounterUseAfterFree
CHECK_DEADLOCK FALSE
