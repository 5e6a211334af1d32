SPECIFICATION FairSpec
CONSTANTS
  None = None
  MaxCalls = 4
  MaxUser = 1
  MaxHops = 2
  MaxTries = 2
INVARIANTS SentOnce InputKept
PROPERTIES CallsEnd
CHECK_DEADLOCK FALSE
