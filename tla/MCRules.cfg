CONSTANTS
  Stem <- MCStem
  Dir <- MCDir
  Projects <- MCProjects
SPECIFICATION Spec
CHECK_DEADLOCK FALSE
INVARIANTS  DependsOnWhatItSays CodeRunsOnce CleanLocalRunsAll
