SPECIFICATION HSpec
CONSTANTS
  Obstacles = {"dog"}
  Passing = {"dog"}
  Turns = {"LEFT"}
  Counts = {1}
  CmdCap = 2
  MaxCommands = 1
  MaxNodes = 2
  MaxSightings = 2
PROPERTY KnownBeforeArrival
CHECK_DEADLOCK FALSE
