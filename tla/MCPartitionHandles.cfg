CONSTANTS
  o1 = o1  o2 = o2  boot = boot  locked = locked
  h1 = h1  h2 = h2  h3 = h3
  Obj = {o1, o2}
  Handle = {h1, h2, h3}
  Fd = {3, 4, 5}
  Device = {boot, locked}
  Unreadable = {locked}
  Null = Null
  NoDevice = NoDevice
SYMMETRY Symmetry
SPECIFICATION Spec
INVARIANTS OneOwner NothingLost OwnDevice
CHECK_DEADLOCK FALSE
