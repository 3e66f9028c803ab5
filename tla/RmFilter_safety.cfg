\* Two threads, four allowed ids and a table with room for three, fair scheduling.
CONSTANTS
  t1 = t1
  t2 = t2
  g0 = g0
  g1 = g1
  g2 = g2
  g3 = g3
  foreign       = foreign
  Threads       <- TwoThreads
  NoThread      = NoThread
  Minors        <- AllMinors
  AllowedMinors <- OurMinors
  GpuIds        <- AllIds
  Invalid       = Invalid
  MaxGpus       = 3
  CardAnswers   <- SomeCards
  ListAnswers   <- SomeLists
SPECIFICATION FairSpec
INVARIANTS TypeOK LearnedSound CardsTaught ListsAgreeWithCards
PROPERTIES ImplementsAllowList LockReleased
