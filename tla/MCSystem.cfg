CONSTANTS
  Clients = {c1}
  Nobody = Nobody
  MaxGeneration = 2
  InboxCapacity = 1
  Loops = {"preview"}
  Commands = {"start", "stop", "cancel"}
  Observed = {}
  Faults = {"load"}
SPECIFICATION SystemSpec
PROPERTY KeepsContract
PROPERTY ImplementsDaemon
CHECK_DEADLOCK FALSE
