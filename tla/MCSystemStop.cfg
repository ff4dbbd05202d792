CONSTANTS
  Clients = {c1}
  Nobody = Nobody
  MaxGeneration = 1
  InboxCapacity = 1
  Loops = {"preview", "level"}
  Commands = {"start", "stop"}
  Observed = {}
  Faults = {"protocol", "load"}
SPECIFICATION FairSystem
PROPERTY StopIsAnswered
CHECK_DEADLOCK FALSE
