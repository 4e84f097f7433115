CONSTANTS
  p1 = p1 p2 = p2 c1 = c1 c2 = c2 i1 = i1 i2 = i2
  Thread <- Four
  Item <- Items
  Calls <- Busy
  Max = 2
  Bound = 5
SPECIFICATION FairSpec
INVARIANTS EventsTruthful IInv
PROPERTIES ImplementsBoundedQueue ItemsReachPoppers RoomReachesPushers
