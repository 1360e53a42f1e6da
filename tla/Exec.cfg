\* Every kind of program on seven hosts, called directly and by posix_spawn().
SPECIFICATION Spec
CONSTANTS
  Root <- MCRoot
  Binds <- MCBinds
  Cwd <- MCCwd
  Termux <- MCTermux
  Bionic <- MCBionic
  LdLinux <- MCLdLinux
  SearchPath <- MCSearchPath
  NameMax = 4
  LibBuf = 12
  CmdlineBuf = 24
  MaxDepth = 2
  Hosts <- MCHosts
  Jobs <- MCJobs
  Fds = {0, 1, 2, 3}
  Opens = {"f"}
  FirstFds <- MCFirstFds
INVARIANTS SearchRight ArgvArrives CmdlineTold LibrariesListed ChildFds
PROPERTIES CallEnds
CHECK_DEADLOCK FALSE
