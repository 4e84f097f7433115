CONSTANTS
  State <- Tree
  Root = "Root"
  Top = "Top"
  Above <- TreeAbove
  Kind <- TreeKind
  Persistent = {"A1"}
  Dispatches = 1
SPECIFICATION FairSpec
INVARIANTS EnteredIsPath HistoryRemembers IInv
PROPERTY RattleEnds
CHECK_DEADLOCK FALSE
