\* test_wait_queue: two tasks, two workers, dispatch_queue_wait.
CONSTANTS
  Tasks = {1, 2}
  Groups = {}
  ThreadCount = 2
  Length = 2
  GroupLength = 1
  UseCallersThread = FALSE
  Client = Client
  None = None
SPECIFICATION Spec
PROPERTY QueueWaitCoversAll
CHECK_DEADLOCK FALSE
