\* Two requests at a time on an array of two files that grows once.
SPECIFICATION FairSpec
CONSTANTS
  Ids = {i1, i2}
  Nodes = {n1}
  Handlers = {h1, h2}
  None = none
  FirstCapacity = 1
  MaxFiles = 2
  MaxArrays = 2
INVARIANTS IInv FoundIsIndexed
PROPERTY AnsweredUnlessReentered
CHECK_DEADLOCK FALSE
