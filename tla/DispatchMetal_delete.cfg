\* A client waits and then deletes the queue, as README.rst shows it.
CONSTANTS
  Tasks = {1, 2}
  Groups = {}
  ThreadCount = 2
  Length = 2
  GroupLength = 1
  UseCallersThread = FALSE
  Client = Client
  None = None
SPECIFICATION Spec
INVARIANT NoWorkerOutlivesQueue
CHECK_DEADLOCK FALSE
