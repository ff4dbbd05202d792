CONSTANTS
  MaxGeneration = 2
  MaxQueued = 3
  Faults = {"protocol", "load"}
SPECIFICATION LiveSpec
PROPERTY FinalsAreAnswered
PROPERTY CancelsAreAnswered
PROPERTY RestartsEnd
CHECK_DEADLOCK FALSE
