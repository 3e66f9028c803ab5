\* Two threads, one record, a handler over either, a fork at any moment.
CONSTANTS
  t1 = t1
  t2 = t2
  Threads  <- TwoThreads
  NoThread = NoThread
  Records  <- OneRecord
  NoRecord = NoRecord
  Calls    <- AnyThenSet
  Depth    = 2
SPECIFICATION FairSpec
INVARIANT GetsWhole
PROPERTY SectionsEnd
CHECK_DEADLOCK FALSE
