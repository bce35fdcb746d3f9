\* Two idle receivers and a queue_delete, as in test_queue_metal.c.
CONSTANTS
  Producers = {p1}
  Consumers = {c1, c2}
  Deleters = {d}
  NoThread = NoThread
  NoItem = NoItem
  Length = 1
  MaxSends = 1
SPECIFICATION Spec
INVARIANT DeleteReleasesWaiters
CHECK_DEADLOCK FALSE
