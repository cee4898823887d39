SPECIFICATION Spec
CONSTANTS
  Values = {v0, v1, v2}
  Expected = v1
  Initial = v0
  Setters = {s1}
  Waiters = {w1}
  GenerationModulus = 8
  MaxUpdates = 3
PROPERTIES
  WaitForReturns
CHECK_DEADLOCK FALSE
