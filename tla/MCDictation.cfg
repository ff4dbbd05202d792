SPECIFICATION Spec
CONSTANTS
  PoolSize = 2
  BlockFrames = 2
  ChunkSize = 2
  MaxSamples = 5
  Cadence = 2
  Ratios = {1, 2}
  MaxFrames = 7
  InputFrames = {1, 3}
  NoBlock = NoBlock
  Windows = {editor, terminal}
  NoWindow = NoWindow
  Parts = 2
  Scripts <- MCScripts
  Near <- MCNear
  Speech <- MCSpeech
  None = None
INVARIANTS TypeOK AudioIsWhole PreviewFollows TextIsFaithful ReportIsTrue
PROPERTIES OnlyTypesWhileTyping
CHECK_DEADLOCK FALSE
