CONSTANTS
  Thread = {t1, t2}
  Handle = {h1, h2, h3}
  Object = {o1, o2}
  Ops = {"copy", "assign", "assignObject", "destroy", "detach"}
  Longest = 5
  Texts <- Short
  Sizes = {0, 1, 3}
  DefaultSize = 2
  Rooms = {1, 3}
  Wants = {1, 3}
SPECIFICATION BothSpec
INVARIANTS CountsTrue SharedMutexAlive NothingLeft NothingLost LinesAreWhole EosComesLast BufferFits
CHECK_DEADLOCK FALSE
