SPECIFICATION FairSpec
CONSTANTS
  KnownSensors = {"cpu", "mem"}
  Patches <- MCPatches
  DefaultInterval = 1000
  Scenario <- MCScenarios
INVARIANTS
  TypeOK
  InSyncIsSound
PROPERTIES
  DesiredIsHandled
  RateTakesEffect
CHECK_DEADLOCK FALSE
