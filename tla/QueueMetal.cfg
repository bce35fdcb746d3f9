CONSTANTS
  Producers = {p1, p2}
  Consumers = {c1, c2}
  Deleters = {d}
  NoThread = NoThread
  NoItem = NoItem
  Length = 2
  MaxSends = 2
SPECIFICATION FairSpec
INVARIANTS TypeOK HoldsMutex NoLostWakeup BroadcastReadsLiveNodes NoUseAfterFree
PROPERTIES ImplementsBoundedQueue SendReturns ItemsAreReceived
CHECK_DEADLOCK FALSE
