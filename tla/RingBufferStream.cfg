CONSTANTS
  Size = 3
  MaxWant = 2
  Bound = 5
  Byte <- Bytes
  Garbage = {0}
  Inputs <- InputRuns
  Reader = {r1}
  Writer = {w1}
SPECIFICATION FairSpec
INVARIANTS BytesAccounted EosIsTheEnd FindsWhatItSaw
PROPERTIES ImplementsByteQueue CallsGoOn
CHECK_DEADLOCK FALSE
