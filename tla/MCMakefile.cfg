CONSTANTS
  Projects <- MCProjects
  RuleFiles <- MCRuleFiles
  MaxSections = 6
  Cond = {"A", "B"}
  Dirs <- MCDirs
  Canonical <- MCCanonical
SPECIFICATION Spec
CHECK_DEADLOCK FALSE
INVARIANTS TargetsHaveWhatTheyDeclare FlagsComeFromTheirTargets GlobalsCollectAll
  LibrariesInOrder ReadableMakefile 
