CONSTANTS
  Clients = {c1, c2}
  Nobody = Nobody
  MaxGeneration = 1
  InboxCapacity = 1
  Loops = {}
  Commands = {"start", "stop", "cancel"}
  Observed = {}
  Faults = {}
SPECIFICATION Spec
INVARIANT CanceledMeansUndelivered
CHECK_DEADLOCK FALSE
