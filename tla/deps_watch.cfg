SPECIFICATION FairSpec
CONSTANTS
  app = app
  venv = venv
  garbled = garbled
  gone = gone
  untracked = untracked
  Registry <- MCRegistry
  MinAge = 1
  Ignore <- MCIgnore
  Lockfiles <- MCLockfiles
  Hidden <- MCHidden
  Locks <- MCLocks
  LockOf <- MCLockOf
  oldLock = oldLock
  newLock = newLock
  Garbled = garbled
  Gone = gone
  AtStart <- MCAtStart
  InHead <- MCInHead
  Untracked = untracked
  Torn = torn
  Window = 1
  Horizon = 2
  MaxWrites = 1
  MaxFaults = 1
  MaxChecks = 1
CHECK_DEADLOCK FALSE
INVARIANT OnItsWay
INVARIANT PassedIsOld
PROPERTY YoungIsNoticed
