SPECIFICATION FairStartSpec
CONSTANTS
  None = None
  Proc = {desktop, q1}
  Desktop = desktop
  Release = {1, 2}
  MaxLaunch = 2
  MaxEvents = 1
INVARIANTS OneIsLeft ClickKept
PROPERTIES RouteRestored OnlyCreationLoses HintRises
CHECK_DEADLOCK FALSE
