SPECIFICATION FairSpec
CONSTANTS
  Obstacles = {"dog"}
  Passing = {"dog"}
  Turns = {"LEFT"}
  Counts = {1}
  CmdCap = 2
  MaxCommands = 1
  MaxNodes = 1
  MaxSightings = 2
PROPERTY NoBlindCrossing
CHECK_DEADLOCK FALSE
