\* One process through four calls and programs.
SPECIFICATION Spec
CONSTANTS
  Unset = Unset  NoRoot = NoRoot
  Dirs <- HostDirs
  IntMax = 7
  Uids = {0, 7, 14}
  Launches <- LaunchEnvs
  MaxCalls = 4
INVARIANT EnvTypeOK
PROPERTIES StaysLoaded IdentitySurvives RootSurvives
CHECK_DEADLOCK FALSE
