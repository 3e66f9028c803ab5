\* One thread, buffers that may hold hidden entries only.
SPECIFICATION Spec
CONSTANTS
  t1 = t1
  t2 = t2
  Threads <- OneThread
  Entries = 5
  Room <- SmallRooms
INVARIANTS
  AllowedAreListed
CHECK_DEADLOCK FALSE
