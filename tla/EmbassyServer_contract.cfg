SPECIFICATION Spec
CONSTANTS
  NumSlots = 2
  Keyref <- MCKeyref
  Readable <- MCReadable
  Writable <- MCWritable
  Observable <- MCObservable
  Tasks = {t1}
  ServerTask = srv
  Requests <- AllRequests
  Fragmented = FALSE
  GenerationModulus = 8
  WireCapacity = 1
  MaxInFlight = 2
  MaxRequests = 3
  MaxUpdates = 1
  MaxConnections = 1
PROPERTIES
  ImplementsConnection
  ChangesReported
CHECK_DEADLOCK FALSE
