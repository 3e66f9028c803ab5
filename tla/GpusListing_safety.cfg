\* Two threads share a descriptor; six entries, so four GPUs; fair scheduling.
SPECIFICATION FairSpec
CONSTANTS
  t1 = t1
  t2 = t2
  Threads <- TwoThreads
  Entries = 6
  Room <- WideRooms
INVARIANTS
  TypeOK
  ShownOnce
  EndsAtTheEnd
PROPERTIES
  ListingEnds
CHECK_DEADLOCK FALSE
