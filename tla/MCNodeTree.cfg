CONSTANTS
  Node = {a, b, c}
  Empty = Empty
  MaxSlots = 2
SPECIFICATION FairSpec
CHECK_DEADLOCK FALSE
INVARIANTS ChildrenKnowTheirPlace NothingLeaks
PROPERTIES ImplementsForest ReleasedTreeGoes
