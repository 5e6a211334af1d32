SPECIFICATION FairSpec
CONSTANTS
  None = None
  Account = {1, 2}
  MaxOthers = 1
  MaxEvents = 2
  MaxFaults = 1
INVARIANTS RoundTells RiseVerified
PROPERTIES HealthConverges
