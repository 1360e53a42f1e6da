\* One program, two trees, one replaced file.
SPECIFICATION Spec
CONSTANTS
  Roots = {"host", "guest"}
  Users = {"a", "b"}
  Ids = {0, 1}
  Tables <- MCTables
  FirstTables <- MCFirst
  NoTable = NoTable  Closed = Closed  Null = Null
  MaxCalls = 3
  MaxReplaced = 1
INVARIANTS IterationInOrder LookupsAreRight GroupListComplete
PROPERTIES GroupListRetry
CHECK_DEADLOCK FALSE
