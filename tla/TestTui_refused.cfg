SPECIFICATION Spec
CONSTANTS
  NumKeys = 2
  Readable = {1}
  Writable = {1}
  Observable = {1, 2}
  Refuses = TRUE
  MaxChanges = 2
  MaxCommands = 2
  MaxConnections = 2
  MaxEvents = 2
INVARIANTS
  RowsFollowNode
CHECK_DEADLOCK FALSE
