\* Two threads over two tracked numbers, every call, and a path of each kind.
CONSTANTS
  t1 = t1
  t2 = t2
  Threads   <- TwoThreads
  Fds       <- TwoFds
  FdMapMax  = 2
  Paths     <- SomeOfEach
  Inherited <- InheritedGpus
  Unseen    <- AllUnseen
SPECIFICATION Spec
SYMMETRY ThreadSymmetry
INVARIANTS TypeOK Discipline StaleOnlyWhileClosing HookedOpensTracked
PROPERTIES AnswersFit
