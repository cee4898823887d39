SPECIFICATION Spec
CONSTANTS
  NumKeys = 3
  Readable = {1}
  Writable = {1, 3}
  Observable = {1, 2}
  Refuses = TRUE
  MaxChanges = 2
  MaxCommands = 2
  MaxConnections = 2
  MaxEvents = 2
INVARIANTS
  TypeOK
  RowsFollowNodeUnlessRefused
  NoStuckModal
CHECK_DEADLOCK FALSE
