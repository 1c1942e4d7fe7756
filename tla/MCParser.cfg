SPECIFICATION Spec
CONSTANTS
  Ids <- MCIds
  Uppers <- MCUppers
  Paths <- MCPaths
  Tails <- MCTails
  FlagIds <- MCFlagIds
  ExtLibs <- MCExtLibs
  Strings <- MCStrings
  Comments <- MCComments
  Inputs <- MCInputs
INVARIANTS
  ReadsWhatIsWritten
PROPERTIES
  NothingLeftOver
  EveryTextIsJudged
CHECK_DEADLOCK FALSE
