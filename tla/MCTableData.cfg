CONSTANTS
  sda = sda  sdb = sdb  a = a  b = b
  Table = {sda, sdb}
  Entry = {1, 2}
  Name = {1, 2}
  Layouts <- MCLayouts
  Obj = {a, b}
  Vanishing = {sdb}
SYMMETRY Symmetry
SPECIFICATION Spec
INVARIANTS TypeOK ListedHasData CurrentListIsData SavedMeansOnDisk
