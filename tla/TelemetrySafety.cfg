SPECIFICATION Spec
CONSTANTS
  p1 = p1
  p2 = p2
  good = good
  orphan = orphan
  garbled = garbled
  empty = empty
  Packet = {p1, p2}
  Reading = {good, orphan, garbled, empty}
  Malformed = Malformed
  Traffic <- MCTraffic
  Sensor = {"x", "y"}
  Axes <- MCAxes
  Registered = {good, garbled, empty}
  Corrupt = {garbled}
  BatchSize = 4
  MaxTime = 1
  Faults = {"link", "ingest", "processor"}
  MaxCrashes = 1
INVARIANTS
  TypeOK
  AckedIsDurable
  RedeliveryIsNoOp
  SettledIsPersisted
PROPERTY DeliversAtLeastOnce
CHECK_DEADLOCK FALSE
