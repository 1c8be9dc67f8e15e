SPECIFICATION Spec
CONSTANTS
  d1 = d1
  d2 = d2
  JobDaemons <- One
  OtherDaemons <- Other
  Earlier = earlier
  Modes <- EveryMode
  NoPid = nopid
  RingCap = 1
  MaxEvents = 2
  MaxCrashes = 1
INVARIANT ReadyMeansAttached
INVARIANT VerdictExact
INVARIANT StopMeansGone
PROPERTY JobEnds
