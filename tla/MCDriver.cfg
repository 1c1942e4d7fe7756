CONSTANTS
  Phase <- MCPhase
  Gets <- MCGets
  Puts <- MCPuts
  Reports <- MCReports
  Throws <- MCPhase
  UserLists <- MCUserLists
SPECIFICATION Spec
INVARIANTS AnnotationsInOrder
PROPERTIES ForeignKept CompleteOrNothing
