CONSTANTS
  MaxGeneration = 2
  Faults = {"exit", "protocol", "load"}
SPECIFICATION Spec
INVARIANT TypeOK
INVARIANT CanceledIsGone
INVARIANT HeldOnce
PROPERTY KeepsPromises
CHECK_DEADLOCK FALSE
