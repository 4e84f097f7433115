CONSTANTS
  w1 = w1 w2 = w2 w3 = w3
  Waiter <- TestThreads
  Wants <- TestWants
  Scripts <- TestScripts
SPECIFICATION FairSpec
PROPERTY LastValueReachesAll
CHECK_DEADLOCK FALSE
