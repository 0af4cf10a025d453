SPECIFICATION Spec
CONSTANTS
  d1 = d1
  Handle = {h1}
  Device <- Devices
  Target = {t1}
  Format <- Formats
  Size = 3
  Super = 1
  Chunk = 2
  Ends = {1}
  Dumps <- Ranges
  None = None
INVARIANTS DoneMeansAll AnswerIsWhole
PROPERTIES LoopsEnd
