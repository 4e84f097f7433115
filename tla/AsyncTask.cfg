CONSTANTS
  Caller = {"c1", "c2"}
  PoolSize = 2
  Starts = 2
  Posts = 3
SPECIFICATION FairSpec
INVARIANTS RunsOnce QuietAfterStop
PROPERTIES StopReturns HandlersLeaveQueue
CHECK_DEADLOCK FALSE
