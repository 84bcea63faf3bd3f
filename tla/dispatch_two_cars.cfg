SPECIFICATION FairSpec
CONSTANTS
  Roads <- MCRoads
  NodeCount = 5
  Pos <- MCPos
  MaxPathLen = 100
  Cars <- TwoCars
  StartArc <- TwoStarts
  Targets = {1, 3, 4}
  Requests = {}
  Places = {}
  TaskCap = 2
  RouteCap = 2
  MqttCap = 8
  Budget <- ThreeTasks
  Patient = TRUE
  Apart = TRUE
  MayTimeOut = FALSE
INVARIANTS
  OccupiedMeansParked
  OccupiesItsRoad
  OnCourse
  NotStranded
PROPERTIES
  MissionsAreJourneys
  NoLostUpdate
  MissionsComplete
CHECK_DEADLOCK FALSE
