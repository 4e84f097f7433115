CONSTANTS
  Thread = {t1, t2}
  Handle = {h1, h2, h3}
  Object = {o1, o2}
  Ops = {"copy", "destroy", "detach"}
SPECIFICATION Spec
INVARIANT MutexOutlivesUse
CHECK_DEADLOCK FALSE
