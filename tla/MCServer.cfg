CONSTANTS
  Daemons = {1, 2}
  Clients = {1, 2}
  MaxClients = 1
  None = None
  Stale = Stale
  MaxStarts = 2
  MaxEvents = 1
  MaxConnections = 2
  MaxKills = 1
SPECIFICATION FairSpec
INVARIANTS TypeOK ServesAlone
PROPERTY ClientsAreServed
CHECK_DEADLOCK FALSE
