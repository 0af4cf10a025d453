CONSTANTS
  t1 = t1  t2 = t2  p1 = p1  p2 = p2
  Task = {t1, t2}
  Place = {p1, p2}
  Target <- MCTarget
  Ambiguous = {t1}
  BadRead = {t2}
SPECIFICATION RunSpec
INVARIANTS ExitZeroMeansAllDone DestroyedUnderJobOnlyAfterThrow DeletedOnlyAfterWrite CutOffOnlyAfterThrow
PROPERTIES RunEnds
