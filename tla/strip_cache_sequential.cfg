SPECIFICATION FaultySpec
CONSTANTS
  k1 = k1
  k2 = k2
  b1 = b1
  b2 = b2
  w1 = w1
  w2 = w2
  w3 = w3
  old = old
  new = new
  none = none
  nofile = nofile
  partial = partial
  Keys <- TwoKeys
  Builds <- OneBuild
  Writers <- OneWriter
  Bodies <- TwoBodies
  Output <- MixedOutput
  NoStripNeeded = none
  NoFile = nofile
  Partial = partial
  Persistent = TRUE
  MaxRestarts = 2
PROPERTY ImplementsAtomicCache
PROPERTY InsertReachesMemory
