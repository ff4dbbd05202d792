CONSTANTS
  Clients = {c1, c2, c3}
  Nobody = Nobody
  MaxGeneration = 2
  InboxCapacity = 4
  Loops = {}
  Commands = {"stop", "toggle", "cancel"}
  Observed = {}
  Faults = {}
SPECIFICATION Spec
SYMMETRY Symmetry
INVARIANT NoDictationForgotten
INVARIANT ResultsAreCurrent
PROPERTY LivesUpToPromise
CHECK_DEADLOCK FALSE
