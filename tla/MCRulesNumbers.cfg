CONSTANTS
  Stem <- MCStem
  Dir <- MCDir
  Projects <- Numbers
SPECIFICATION Spec
CHECK_DEADLOCK FALSE
INVARIANTS NthDependency
