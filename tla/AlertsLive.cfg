SPECIFICATION FairSpec
CONSTANTS
  None = None
  Key = {s, q}
  Silence = {q}
  Id = {a1, a2}
  M = 2
  Faults = {}
  MaxFaults = 0
  MaxCrashes = 1
  MaxResolves = 1
  MaxChanges = 3
PROPERTIES
  ViolationOpensAlert
  ConditionClears
CHECK_DEADLOCK FALSE
