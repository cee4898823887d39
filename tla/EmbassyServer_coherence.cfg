SPECIFICATION Spec
CONSTANTS
  NumSlots = 2
  Keyref <- MCKeyref
  Readable <- MCReadable
  Writable <- MCWritable
  Observable <- MCObservable
  Tasks = {t1}
  ServerTask = srv
  Requests <- ObserveRequests
  Fragmented = TRUE
  GenerationModulus = 8
  WireCapacity = 1
  MaxInFlight = 2
  MaxRequests = 3
  MaxUpdates = 2
  MaxConnections = 2
INVARIANTS
  TypeOK
  NoLostWakeup
  NoLostChange
PROPERTIES
  ChangedOnlyWhileObserved
CHECK_DEADLOCK FALSE
