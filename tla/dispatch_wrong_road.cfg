SPECIFICATION Spec
CONSTANTS
  Roads <- MCRoads
  NodeCount = 5
  Pos <- MCPos
  MaxPathLen = 100
  Cars <- OneCar
  StartArc <- OneStart
  Targets = {5}
  Requests = {}
  Places = {}
  TaskCap = 2
  RouteCap = 2
  MqttCap = 2
  Budget <- TaskCancelObstacle
  Patient = FALSE
  Apart = FALSE
  MayTimeOut = FALSE
INVARIANT
  OccupiesItsRoad
CHECK_DEADLOCK FALSE
