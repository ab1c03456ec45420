SPECIFICATION FairSpec
CONSTANTS
  MaxDevices = 4
  MaxClients = 4
  MaxSlots = 2
  MaxCalls = 2
  Tokens = 3
  Scenario <- MCScenario
INVARIANTS
  TypeOK
  FlagIsHonest
  FleetMatchesTarget
PROPERTY
  ComesBack
CHECK_DEADLOCK FALSE
