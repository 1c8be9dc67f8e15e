SPECIFICATION Spec
CONSTANTS
  c1 = c1
  c2 = c2
  scripted = scripted
  big = big
  r1 = r1
  r2 = r2
  old = old
  new = new
  Clients <- TwoClients
  Packages <- Scripted
  Tagged <- Scripted
  Revs <- TwoRevs
  Configs <- TwoStrips
  Trait <- Traits1
  Registry = registry
  None = none
  NoStripNeeded = unneeded
  Failed = failed
  Conditional = TRUE
  MaxRestarts = 1
  MaxRepublish = 1
  MaxMissed = 1
SYMMETRY ClientSymmetry
INVARIANT NoStaleEntry
INVARIANT WordKept
