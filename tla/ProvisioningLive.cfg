SPECIFICATION FairSpec
CONSTANTS
  a1 = a1
  a2 = a2
  t1 = t1
  t2 = t2
  None = None
  Claim = {q1, q2}
  Device = {d1}
  Token = {t1, t2}
  Agent = {a1, a2}
  TokenOf <- MCOwn
  Faults = {}
  MaxCrashes = 0
PROPERTY ClaimAnswered
CHECK_DEADLOCK FALSE
