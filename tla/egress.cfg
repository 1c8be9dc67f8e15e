SPECIFICATION EgressSpec
CONSTANTS
  a1 = a1
  a2 = a2
  cdn = cdn
  tracker = tracker
  Addrs <- TwoAddrs
  Hosts <- TwoHosts
  Fixed = {}
  Rules <- TwoRules
  Ports <- TwoPorts
  AnyPort = 0
  Capacity = 3
  Configs <- EachConfig
  MaxRotations = 2
  MaxFaults = 1
CHECK_DEADLOCK FALSE
INVARIANT MapHolds
PROPERTY AnswersReachMap
PROPERTY StopEnds
