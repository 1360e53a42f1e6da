\* Two processes that remove only names of their own.
SPECIFICATION FairSpec
CONSTANTS
  p = p  q = q  a = a  b = b  c = c  d = d  s = s  t = t  f = f  g = g  i1 = i1  i2 = i2  i3 = i3
  Procs = {p, q}
  Names = {a, b, c, d}
  Stor = {s, t}
  Files = {f, g}
  Inodes = {i1, i2, i3}
  Absent = Absent  NoInode = NoInode  NoProc = NoProc  NoPath = NoPath  Empty = Empty
  StorOf <- AnyStor
  InitDirs <- FilesOrLinked
  Sources = {a}
  Owned <- OwnNames
  Ops = {"link", "unlink", "rename"}
  Crashes = FALSE
  IOErrors = FALSE
  MaxCalls = 4
INVARIANTS NeverUndercounted
PROPERTIES PinnedKeepsFile CallsReturn
CHECK_DEADLOCK FALSE
