SPECIFICATION SequentialSpec
CONSTANTS
  Nothing = Nothing
  NumberTokens = {"1.0", "2.0"}
  ScopeTokens = {"@types", "@types%2fnode"}
  RegistryBases = {"registration5"}
  CommitTokens = {"sha"}
  MaxEntries = 2
  MaxBundled = 2
  MaxScanned = 2
  Conns = {c1}
  Configs <- MCConfigs
  Requests <- MCRequests
  Archives <- MCArchives
  Refused <- MCRefused
  Malicious <- MCMalicious
  k1 = k1
  k2 = k2
  rA = rA
  rB = rB
  None = none
  Bad = bad
  Garbage = garbage
  Locked = locked
  Contents = {k1, k2}
  Registries = {rA, rB}
  Lockfiles <- MCLockfiles
  Files <- MCFiles
  MaxSwaps = 1
  MaxLosses = 1
  Addrs = {"x", "y", "z"}
  Ports = {0, 80, 443}
  AnyPort = 0
  NoName = "nobody"
  Ptr <- MCPtr
  Answers <- MCAnswers
  Opened <- MCOpened
  SampleCap = 2
  MaxRuns = 2
  MaxEvents = 3
  Letters = {"a", "b"}
  MaxName = 4
  MaxGlob = 4
  MaxRuleGlob = 2
  Segments <- MCSegments
  SegmentGlobs <- MCSegmentGlobs
  MaxPath = 3
  MaxPattern = 3
  WithLists = {"npm", "pypi"}
  WithoutLists = {"git"}
  MirrorBodies <- MCBodies
  Baseline <- MCBaseline
  Threshold = 1
  Asked <- MCAsked
  NoTag = notag
  MaxPublished = 3
  Nodes = {"r", "p", "q"}
  Names = {"a", "b", "c"}
  Root = "r"
  UserLines = {"u", "v"}
  MaxLines = 3
  MaxEdits = 4
  Refs = {"checkout", "third", "image"}
  FirstParty = {"checkout"}
  Commits = {"f1", "f2"}
  Nil = nil
  Repositories <- MCRepositories
  MaxMoves = 2
  Versions <- ThreeVersions
  Rank <- MCRank
  Semver <- TwoVersions
  Ages = {0, 1, 9}
  MinAge = 2
  NoDate = nodate
  NoVersion = noversion
  MaxPages = 1
  Projects <- MCProjects
  Packuments <- MCPackuments
  TagNames = {"latest"}
  Indexes <- MCIndexes
  Extensions <- MCExtensions
  ExtensionNames = {"e1", "e2"}
  CrateLines <- MCCrateLines
  Horizon = 2
INVARIANT AnsweredAsItself
INVARIANT KeptOut
INVARIANT InstallsAreRecordedOnce
INVARIANT VerdictsAreTrue
INVARIANT SuggestionFits
INVARIANT SquatsAreFlagged
INVARIANT ExoticIsExact
INVARIANT BlockComesAndGoes
INVARIANT AuditHolds
INVARIANT PatternsAsMeant
INVARIANT IndexesHold
