SPECIFICATION FairSpec
CONSTANTS
  Obstacles = {"dog", "box"}
  Passing = {"dog"}
  Turns = {"LEFT"}
  Counts = {1}
  CmdCap = 2
  MaxCommands = 2
  MaxNodes = 2
  MaxSightings = 3
INVARIANTS TypeOK CountObeyed
PROPERTIES DirectionsFit StraightWhenFree DrivesOn
CHECK_DEADLOCK FALSE
