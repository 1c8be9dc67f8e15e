SPECIFICATION Spec
CONSTANTS
  k1 = k1
  k2 = k2
  b1 = b1
  b2 = b2
  w1 = w1
  w2 = w2
  w3 = w3
  old = old
  new = new
  none = none
  nofile = nofile
  partial = partial
  Keys <- OneKey
  Builds <- TwoBuilds
  Writers <- ThreeWriters
  Bodies <- TwoBodies
  Output <- RelaxedOutput
  NoStripNeeded = none
  NoFile = nofile
  Partial = partial
  Persistent = TRUE
  MaxRestarts = 2
SYMMETRY WriterSymmetry
INVARIANT QuiescentConsistent
