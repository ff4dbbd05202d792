CONSTANTS
  Clients = {c1}
  Nobody = Nobody
  MaxGeneration = 2
  InboxCapacity = 1
  Loops = {"preview", "level"}
  Commands = {"start", "stop"}
  Observed = {}
  Faults = {}
SPECIFICATION Spec
INVARIANT NothingStaleOnDisplay
PROPERTY NotCutShort
CHECK_DEADLOCK FALSE
