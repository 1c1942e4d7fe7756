SPECIFICATION FairSpec
CONSTANTS
  Recipe0 <- MCRecipe
  Source <- MCSource
  Derived <- MCDerived
  File <- MCFile
  Rule <- MCRule
  Pattern <- MCPattern
  Stem <- MCStem
  EmptyStem <- EmptyName
  NoMatch <- None
  Prereqs <- MCPrereqs
  StemOf <- MCStemOf
  TargetOf <- MCTargetOf
  StemSize <- MCStemSize
  Doubles <- MCDoubles
CONSTRAINT OneKind
CHECK_DEADLOCK FALSE
INVARIANTS
  TypeOK
  RecipeSound
  Closed
  RecipeForEveryTarget
PROPERTIES
  FilesExplained
  ImplementsBuildGraph
  Terminates
