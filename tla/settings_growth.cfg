SPECIFICATION Spec
CONSTANTS
  None = None
  f1 = f1
  l1 = l1
  c1 = c1
  InstanceNames = {"db-0", "db-1"}
  Regions = {"europe-west1", "us-east1"}
  Zones = {"b", "c"}
  Hours = {"00:00", "04:00", "23:00"}
  Flags = {f1}
  Labels = {l1}
  Networks = {"vpc-0"}
  Cidrs = {c1}
  Tiers = {"db-custom-1-3840", "db-custom-2-7680"}
  Sizes = {0, 10, 20}
  Values <- Variety
  MaxEdits = 0
  MaxDrift = 1
INVARIANTS
  GrownDiskIsLeftAlone
CHECK_DEADLOCK FALSE
