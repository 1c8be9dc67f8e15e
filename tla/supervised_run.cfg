SPECIFICATION AllSpec
CONSTANTS
  cmd = cmd
  helper = helper
  other = other
  sakimori = sakimori
  Inside <- Tree
  Outside <- Machine
  Supervisor = sakimori
  Child = cmd
  Paths <- Opened
  Names <- Tools
  FileDeny <- DenySecret
  FileAllow <- NoPaths
  FileDefault = "allow"
  DenyExec <- Denied1
  PrefixLen = 4
  MaxSlots = 1
  RingCap = 1
  PerKindCap = 1
  TotalCap = 2
  Objects <- MCObjects
  SkipDirs <- Built
  MaxFileBytes = 5
  Rules <- Indicators
  Shown <- Needles
  WorkspaceFiles <- Work
  ExtensionFiles <- Ext
  States <- Trees
  InitialTree <- Start
  ExitCodes = {0, 3}
  Options <- Ways
  MaxFaults = 1
  Pids = {1, 2, 3, 4, 5}
  ReaperPid = 1
  SupervisorPid = 2
  CommandPid = 3
  Launched = "npm"
  Programs = {"npm", "sh"}
  Managers = {"npm"}
  MaxDepth = 2
  Hosts <- MCHosts
  Secrets <- MCSecrets
  NoPid = 0
  Gone = "gone"
  MaxChanges = 4
  RemoteAddrs = {"a", "b", "n"}
  DestPorts = {80, 443}
  DenyRules <- MCDenyRules
  DrainDeadline = 2
  DrainFixed = 1
  MaxLatency = 1
  ChildCodes = {0, 3}
  MaxTraced = 2
  MaxMishaps = 1
CHECK_DEADLOCK FALSE
INVARIANT DeniedSurface
INVARIANT BlockRunsProtected
INVARIANT ExitCodeExplained
INVARIANT AttributionHolds
INVARIANT WindowsHolds
