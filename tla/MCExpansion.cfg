SPECIFICATION Spec
CONSTANT Documents <- MCDocuments
INVARIANTS TextKept IndexStandsForNode StopsForAReason
CHECK_DEADLOCK FALSE
