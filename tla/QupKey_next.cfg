SPECIFICATION Spec
CONSTANTS
  Values = {v0, v1, v2}
  Expected = v1
  Initial = v0
  Setters = {s1, s2}
  Waiters = {w1}
  GenerationModulus = 8
  MaxUpdates = 4
INVARIANTS
  TypeOK
  NextReturnsLandedUpdate
  NoLostSignal
PROPERTIES
  NextReturns
  WaitForReturnsOnOneExecutor
CHECK_DEADLOCK FALSE
