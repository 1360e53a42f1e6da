\* Two processes, every call on every name, crashes and failing calls.
SPECIFICATION Spec
CONSTANTS
  p = p  q = q  a = a  b = b  c = c  d = d  s = s  t = t  f = f  g = g  i1 = i1  i2 = i2  i3 = i3
  Procs = {p, q}
  Names = {a, b, c}
  Stor = {s, t}
  Files = {f, g}
  Inodes = {i1, i2, i3}
  Absent = Absent  NoInode = NoInode  NoProc = NoProc  NoPath = NoPath  Empty = Empty
  StorOf <- AnyStor
  InitDirs <- Mixed
  Sources = {a, b, c}
  Owned <- AllOwned
  Ops = {"link", "unlink", "rename"}
  Crashes = TRUE
  IOErrors = TRUE
  MaxCalls = 3
INVARIANTS TypeOK CountNotStale LedgerExact NoClobber StorageCovered
CHECK_DEADLOCK FALSE
SYMMETRY Symmetry
