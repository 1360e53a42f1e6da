\* A guest with a root, a bind and a faked identity: three calls.
SPECIFICATION Spec
CONSTANTS
  TempNames = {"a", "b"}
  MaxLinks = 3
  MaxSteps = 16
  Owner = 10
  Root <- MCRoot
  Binds <- MCBinds
  FakeUid = 0
  FakeGid = 0
  Calls <- MCCalls
  HostTrees <- MCTrees
  Starts <- MCStarts
  SunPathMax = 6
  ProcStat <- MCProcStat
  ProcExe <- MCProcExe
  Exe <- MCExe
  MaxCalls = 3
INVARIANTS CwdNameable ReadlinkStart
PROPERTIES Confined IsRooted
CHECK_DEADLOCK FALSE
