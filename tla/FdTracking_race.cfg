\* Two threads, interposed calls only.
CONSTANTS
  t1 = t1
  t2 = t2
  Threads   <- TwoThreads
  Fds       <- TwoFds
  FdMapMax  = 2
  Paths     <- CtlAndDirs
  Inherited <- InheritedPlain
  Unseen    <- NoneUnseen
SPECIFICATION Spec
INVARIANTS OpenDescriptorsTracked
