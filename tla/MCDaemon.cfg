CONSTANTS
  Clients = {c1, c2}
  Nobody = Nobody
  MaxGeneration = 2
  InboxCapacity = 1
  Loops = {}
  Commands = {"start", "stop", "toggle", "cancel", "configure", "shutdown"}
  Observed = {"stop"}
  Faults = {"exit", "protocol", "load"}
SPECIFICATION Spec
SYMMETRY Symmetry
INVARIANT TypeOK
INVARIANT OneActivity
INVARIANT StateMatchesActivity
INVARIANT EveryCommandIsSomewhere
INVARIANT StopWaitsForTheEnd
PROPERTY SilentAfterCancel
CHECK_DEADLOCK FALSE
