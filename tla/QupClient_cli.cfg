SPECIFICATION Spec
CONSTANTS
  Keytab <- MCKeytab
  Names = {"a", "b", "c", "none"}
  Refs = {0, 1, 2}
  MaxChanges = 2
  MaxCommands = 3
INVARIANTS
  TypeOK
  EndsForAReason
  
PROPERTIES
  
  CommandsReturn
CHECK_DEADLOCK FALSE
