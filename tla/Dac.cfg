\* Two processes of fake root and one of a user, kills and changes.
SPECIFICATION Spec
CONSTANTS
  root1 = root1  root2 = root2  user = user
  file1 = file1  file2 = file2
  Procs = {root1, root2, user}
  Files = {file1, file2}
  Foreign = {file2}
  FakeRoot = {root1, root2}
  Absent = Absent  NoFile = NoFile
  Ats = {FALSE}
  MaxCalls = 3
INVARIANTS DacTypeOK ModeRestored OverrideWorks NeverNarrowed
CHECK_DEADLOCK FALSE
