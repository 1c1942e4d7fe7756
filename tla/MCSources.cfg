CONSTANTS
  Path <- MCPath
  FileList <- MCFileList
  Buildable <- MCBuildable
  Projects <- MCProjects
  MaxSections = 7
SPECIFICATION Spec
CHECK_DEADLOCK FALSE
INVARIANTS FailsOnMissingFiles EndsForAReason SourcesMeanWhatTheySay
