CONSTANTS
  Sender = {s1, s2}
  Receiver = {r1, r2}
  Closer = {c1}
  Timeouts = {"zero", "finite"}
SPECIFICATION FairSpec
INVARIANTS DeliveredOnce ArgumentsAlive SilentAfterShutdown
PROPERTIES SendersReturn ShutdownCompletes
CHECK_DEADLOCK FALSE
