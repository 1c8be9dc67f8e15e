SPECIFICATION FairSpec
CONSTANTS
  service = service
  installer = installer
  child = child
  home = home
  temp = temp
  here = here
  there = there
  Procs <- MCProcs
  Installers <- MCInstallers
  Supervised <- MCSupervised
  Child = child
  Dirs <- MCDirs
  Dir <- MCDir
  Ports <- MCPorts
  Port <- OwnPort
  Absent = absent
  Torn = torn
  Nobody = nobody
  MaxDeaths = 1
CHECK_DEADLOCK FALSE
INVARIANT CaAgrees
INVARIANT JobIsServed
PROPERTY CompleteIsKept
PROPERTY ComesBack
