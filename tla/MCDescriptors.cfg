SPECIFICATION Spec
CONSTANTS
  Limit = 10
  Files = {f}
  FDs = {d1, d2}
  FPs = {p1, p2}
  Guards = {g1, g2}
  Depth = 2
  MaxOpen = 2
  MaxLive = 2
  Free = Free
  Terminal = Terminal
  Null = Null
  NoPath = NoPath
  Gone = Gone
SYMMETRY Symmetric
INVARIANTS OneOwner OutputBack
PROPERTIES LostOnlyByOpen
CHECK_DEADLOCK FALSE
