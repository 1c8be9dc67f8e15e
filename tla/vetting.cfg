SPECIFICATION Spec
CONSTANTS
  v1 = v1
  c1 = c1
  c2 = c2
  Versions <- OneVersion
  Clients <- TwoClients
  Never = never
  None = none
  Settings <- EachPart
  MinAge = 4
  NegativeTTL = 1
  CacheTTL = 1
  FetchTime = 1
  MaxPages = 0
  Horizon = 4
  MaxFailures = 1
INVARIANT AgesAgree
INVARIANT ExposuresBounded
PROPERTY ListedReachesMirror
