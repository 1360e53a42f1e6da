\* One process that renames.
SPECIFICATION Spec
CONSTANTS
  p = p  q = q  a = a  b = b  c = c  d = d  s = s  t = t  f = f  g = g  i1 = i1  i2 = i2  i3 = i3
  Procs = {p}
  Names = {a, b, c, d}
  Stor = {s, t}
  Files = {f, g}
  Inodes = {i1, i2, i3}
  Absent = Absent  NoInode = NoInode  NoProc = NoProc  NoPath = NoPath  Empty = Empty
  StorOf <- AnyStor
  InitDirs <- FilesOrLinked
  Sources = {a, b, c, d}
  Owned <- AllOwned
  Ops = {"link", "unlink", "rename"}
  Crashes = FALSE
  IOErrors = FALSE
  MaxCalls = 3
PROPERTY FailedRenameKeepsNew
CHECK_DEADLOCK FALSE
