SPECIFICATION Spec
CONSTANTS
  a1 = a1
  a2 = a2
  t1 = t1
  t2 = t2
  None = None
  Claim = {q1, q2}
  Device = {d1, d2}
  Token = {t1, t2}
  Agent = {a1, a2}
  TokenOf <- MCOwn
  Faults = {"redis", "db", "plugin", "disk", "bootstrap"}
  MaxCrashes = 1
SYMMETRY MCSymmetry
INVARIANTS
  OneDevicePerToken
  CredentialedHasRow
  HandlerNeverBlocks
  CachedCredentialsWork
CHECK_DEADLOCK FALSE
