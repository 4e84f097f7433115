CONSTANTS
  main = main listener = listener worker1 = worker1 worker2 = worker2 owned = owned
  Task <- Tasks
  Caller = {main}
  Stopper = {s1}
  Starts <- StartsOf
  AutoDestroy = {listener, worker1, worker2}
  Endless = {listener}
  MayFail = {worker2}
  MaxTasks = 2
SPECIFICATION FairSpec
INVARIANTS BooksBalance QuietAfterStop NoneUsedDeleted
PROPERTIES AddReturns StopReturns
CHECK_DEADLOCK FALSE
