SPECIFICATION FairSpec
CONSTANTS
  None = None
  Former = Former
  r1 = r1
  r2 = r2
  c0 = c0
  c1 = c1
  Replicas = {r1, r2}
  Certs = {c0, c1}
  LeaseDuration = 4
  RenewDeadline = 2
  RetryPeriod = 1
  MaxFaults = 1
  MaxSignals = 2
INVARIANTS
  TypeOK
  AtMostOneActive
  TrustedCertificate
  DefinedFirst
PROPERTIES
  SomeoneLeads
  EveryReplicaServes
  LeaderStops
