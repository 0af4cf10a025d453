CONSTANTS
  sda = sda  sdb = sdb  mmc = mmc  f = f  g = g
  Table = {sda, sdb, mmc}
  NoGPT = {mmc}
  Other = Other
  ReadAll = ReadAll
  File = {f, g}
  DefaultFile <- MCDefault
  MaxNames = 2
SPECIFICATION TablesSpec
INVARIANTS TrueMeansAllDone RestUntouched
PROPERTY OldBackupsKept
