SPECIFICATION FairSpec
CONSTANTS
  c1 = c1
  c2 = c2
  scripted = scripted
  big = big
  r1 = r1
  r2 = r2
  old = old
  new = new
  Clients <- OneClient
  Packages <- TwoKinds
  Tagged <- TwoKinds
  Revs <- TwoRevs
  Configs <- Evolving
  Trait <- Traits1
  Registry = registry
  None = none
  NoStripNeeded = unneeded
  Failed = failed
  Conditional = FALSE
  MaxRestarts = 1
  MaxRepublish = 1
  MaxMissed = 2
PROPERTY RetrySucceeds
INVARIANT AtMostOneMismatch
