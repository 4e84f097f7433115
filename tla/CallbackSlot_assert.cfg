CONSTANTS
  Sender = {s1, s2}
  Receiver = {r1}
  Closer = {c1}
  Timeouts = {"zero"}
SPECIFICATION Spec
INVARIANT NothingPending
CHECK_DEADLOCK FALSE
