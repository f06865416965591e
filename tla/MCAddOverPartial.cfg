CONSTANTS
  CallPaths <- MCPaths
  LinksTo <- MCLinks
  Tree <- MCTree
  Scenes <- MCScenes
  ForeignContents <- MCOthers
  MaxForeignWrites = 0
  MaxCallFaults = 0
INIT CallInit
NEXT CallNext
PROPERTY OnlyAttested
CHECK_DEADLOCK FALSE
