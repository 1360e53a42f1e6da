\* One process that calls chroot().
SPECIFICATION Spec
CONSTANTS
  Unset = Unset  NoRoot = NoRoot
  Dirs <- HostDirs
  IntMax = 7
  Uids = {0, 7, 14}
  Launches <- LaunchEnvs
  MaxCalls = 2
PROPERTY ChrootMovesRoot
CHECK_DEADLOCK FALSE
