SPECIFICATION Spec
CONSTANTS
  None = None
  Key = {s, q}
  Silence = {q}
  Id = {a1, a2, a3}
  M = 2
  Faults = {"store", "publish"}
  MaxFaults = 1
  MaxCrashes = 1
  MaxResolves = 1
  MaxChanges = 4
SYMMETRY Ids
INVARIANTS
  OneOpenPerKey
  NoFlapping
  ClearedIsResolved
  EventsTrailRows
PROPERTIES
  RowsFollowMachine
CHECK_DEADLOCK FALSE
