SPECIFICATION Spec
CONSTANTS
  d1 = d1
  d2 = d2
  JobDaemons <- One
  OtherDaemons <- NoOther
  Earlier = earlier
  Modes <- EveryMode
  NoPid = nopid
  RingCap = 1
  MaxEvents = 1
  MaxCrashes = 0
INVARIANT FlaggedFailsJob
