CONSTANTS
  Clients = {c1, c2}
  Nobody = Nobody
  MaxGeneration = 1
  InboxCapacity = 1
  Loops = {"level"}
  Commands = {"start", "stop", "cancel", "shutdown"}
  Observed = {}
  Faults = {"protocol", "load"}
SPECIFICATION FairSpec
PROPERTY StopIsAnswered
PROPERTY CancelingEnds
PROPERTY DictationsEnd
PROPERTY ModelLossIsShown
PROPERTY ShutdownCompletes
CHECK_DEADLOCK FALSE
