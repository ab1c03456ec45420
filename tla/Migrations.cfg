SPECIFICATION FairSpec
CONSTANTS
  Process = {control, processor}
  Statements <- MCStatements
  NoTx = {2, 3}
  MaxCrashes = 2
INVARIANTS
  TypeOK
  RecordedIsComplete
  MovedOnIsApplied
PROPERTY RunsReturn
