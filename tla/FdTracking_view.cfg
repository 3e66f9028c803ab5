\* One thread, every file, two tracked numbers and one beyond the table.
CONSTANTS
  t1 = t1
  t2 = t2
  Threads   <- OneThread
  Fds       <- ThreeFds
  FdMapMax  = 2
  Paths     <- KnownNames
  Inherited <- InheritedPlain
  Unseen    <- NoneUnseen
SPECIFICATION Spec
PROPERTIES ImplementsView
