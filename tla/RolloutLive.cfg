SPECIFICATION FairSpec
CONSTANTS
  d1 = d1
  d2 = d2
  ra = ra
  rb = rb
  None = None
  Device = {d1, d2}
  Rollouts = {ra, rb}
  Preconfigured = {d1}
  Cohort <- MCCohort
  Bucket <- MCBucket
  Percent <- MCPercent
  Criteria <- MCCriteria
  Scenario <- MCRestarts
PROPERTY RunningEnds
CHECK_DEADLOCK FALSE
