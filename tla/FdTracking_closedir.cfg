\* One thread that uses closedir.
CONSTANTS
  t1 = t1
  t2 = t2
  Threads   <- OneThread
  Fds       <- TwoFds
  FdMapMax  = 2
  Paths     <- DirsOnly
  Inherited <- InheritedPlain
  Unseen    <- ClosedirOnly
SPECIFICATION Spec
INVARIANTS OrdinaryNeverFiltered
