CONSTANTS
  NoCond = NoCond
  Cond = {"C"}
  Name <- MCName
  Projects <- AllProjects
  ObjectOf <- MCObjectOf
  SubdirOf <- MCSubdirOf
  MaxDepth = 15
SPECIFICATION Spec
CHECK_DEADLOCK FALSE
INVARIANTS RecipesForNeeds ErrorsForGaps OneRuleInMakefile OverflowsOnCyclesOnly
