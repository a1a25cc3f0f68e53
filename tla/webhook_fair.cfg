SPECIFICATION FairWebhookSpec
CONSTANTS
  None = None
  k1 = k1
  n1 = n1
  s1 = s1
  p1 = p1
  p2 = p2
  ns1 = ns1
  pod1 = pod1
  pod2 = pod2
  Keys = {k1}
  Names = {n1}
  Settings = {s1}
  Invalid = {}
  Rejected = {}
  Refused = {}
  Passwords = {p1, p2}
  Requests <- OneRequest
  Namespaces = {ns1}
  Pods = {pod1}
  Target <- SameTarget
  MaxLag = 1
  MaxFaults = 0
  MaxEdits = 0
  MaxDrift = 0
  MaxUid = 2
INVARIANTS
  CredentialsInv
  NoAccidentalDeletion
PROPERTIES
  SecretsGoAway
  PodsAreAdmitted
CHECK_DEADLOCK FALSE
