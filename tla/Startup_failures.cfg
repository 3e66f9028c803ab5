\* Three GPUs and four names in /dev, room for two, one change at any time.
CONSTANTS
  a = a
  b = b
  c = c
  ua = ua
  ub = ub
  uc = uc
  DevNames <- Names
  IntMax   = 25
  Gpus     <- ThreeGpus
  MinorOf  <- Minor
  UuidOf   <- Uuids
  Texts    <- Files
  NoUuid   = NoUuid
  TooLong  = TooLong
  Empty    = Empty
  NoInfo   = NoInfo
  MaxGpus  = 2
  MaxChanges = 1
SPECIFICATION FairSpec
INVARIANTS TypeOK AllowedAreAssigned HiddenOnlyIfLost ViewsAgree
PROPERTY LoadEnds
CHECK_DEADLOCK FALSE
