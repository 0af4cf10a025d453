SPECIFICATION Spec
CONSTANTS
  a = a b = b c = c g = g h = h image = image short = short x = x y = y main = main sda = sda sdb = sdb
  Name = {a, b, c}
  Group = {g, h}
  GroupOf <- MCGroupOf
  SizeOf <- MCSizeOf
  Limit <- MCLimit
  SuperSize = 4
  Layouts <- MCLayouts
  Disk = {sda, sdb}
  Super = Super
  Classic <- MCClassic
  Short = {short}
  Image = {image, short, b}
  Object = {main, x, y}
  Main = main
  Asked <- MCAsked
  None = None
  Gone = Gone
SYMMETRY Symmetry
CHECK_DEADLOCK FALSE
INVARIANTS ListIsPrefix UndefinedOnlyUnscanned AnswersCoverAll
