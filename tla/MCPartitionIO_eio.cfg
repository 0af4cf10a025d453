CONSTANTS
  Size = 4
  BufSize = 2
  Word = 16
  ImageSizes <- MCImageSizes
  ReadFaults = {"EPERM", "EIO", "eof"}
SPECIFICATION Spec
INVARIANT DumpReturnMeansCopy
