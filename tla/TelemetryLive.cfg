SPECIFICATION ConsumerFairSpec
CONSTANTS
  p1 = p1
  p2 = p2
  good = good
  orphan = orphan
  garbled = garbled
  empty = empty
  Packet = {p1, p2}
  Reading = {good, orphan, garbled, empty}
  Malformed = Malformed
  Traffic <- MCTraffic
  Sensor = {"x", "y"}
  Axes <- MCAxes
  Registered = {good, garbled, empty}
  Corrupt = {garbled}
  BatchSize = 4
  MaxTime = 0
  Faults = {"processor"}
  MaxCrashes = 1
PROPERTY StoredIsSettled
CHECK_DEADLOCK FALSE
