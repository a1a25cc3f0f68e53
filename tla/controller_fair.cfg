SPECIFICATION FairSpec
CONSTANTS
  None = None
  k1 = k1
  n1 = n1
  s1 = s1
  s2 = s2
  s3 = s3
  p1 = p1
  p2 = p2
  Keys = {k1}
  Names = {n1}
  Settings = {s1, s2, s3}
  Invalid = {s3}
  Rejected = {}
  Refused <- NoShrink
  Passwords = {p1, p2}
  Requests <- OneRequest
  MaxLag = 1
  MaxFaults = 1
  MaxEdits = 1
  MaxDrift = 0
  MaxUid = 1
PROPERTIES
  DeletionCompletes
  Converges
  ImplementsLifecycle
CHECK_DEADLOCK FALSE
