\* Two GPUs, one of them shown, every path of up to four segments.
CONSTANTS
  Buses      <- TwoBuses
  ShownBuses <- FirstBus
  Long       = "long"
  Oversized  = "oversized"
  MaxSegs    = 4
SPECIFICATION Spec
INVARIANTS DeniedAreHidden SpellingIrrelevant RecordNamesFile
CHECK_DEADLOCK FALSE
