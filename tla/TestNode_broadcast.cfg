SPECIFICATION Spec
CONSTANTS
  Conns = {1, 2}
  Loop = loop
  Flushes = {f1, f2}
  Keys = {k0, k1, m_in, m_out}
  Readable = {k0, k1, m_out}
  Writable = {k1, m_in}
  Observable = {k0, k1, m_out}
  Voltage = k0
  MirrorIn = m_in
  MirrorOut = m_out
  Values = {v0, v1}
  Initial = v0
  MaxRequests = 3
  MaxUpdates = 2
INVARIANTS
  TypeOK
  NoLostChange
  MirrorSettles
PROPERTIES
  ChangedOnlyIfObservedDuringBroadcast
VIEW Relevant
CHECK_DEADLOCK FALSE
