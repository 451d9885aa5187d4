CONSTANTS
  Words <- MCWords
  LoopLimit = 2
  CustomTools = {"p"}
  Requests <- MCRequests
  Events <- MCEvents
  MaxEvents = 4
SPECIFICATION FairSpec
INVARIANTS
  SameAnswer
  VerdictIsSeen
  ToolsAreWhole
  StreamFits
PROPERTIES
  StreamCloses
