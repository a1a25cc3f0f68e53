SPECIFICATION Spec
CONSTANTS
  None = None
  k1 = k1
  n1 = n1
  s1 = s1
  s2 = s2
  s3 = s3
  p1 = p1
  p2 = p2
  Keys = {k1}
  Names = {n1}
  Settings = {s1}
  Invalid = {}
  Rejected = {}
  Refused = {}
  Passwords = {p1, p2}
  Requests <- OneRequest
  MaxLag = 2
  MaxFaults = 1
  MaxEdits = 0
  MaxDrift = 0
  MaxUid = 1
SYMMETRY Symmetry
INVARIANTS
  GoneOnlyWhenCleanedUp
CHECK_DEADLOCK FALSE
