SPECIFICATION Spec
CONSTANTS
  Roads <- MCSquare
  NodeCount = 4
  Pos <- MCSquarePos
  MaxPathLen = 100
  Cars <- OneCar
  StartArc <- OneStart
  Targets = {4}
  Requests <- MCRequests
  Places <- MCPlaces
  TaskCap = 2
  RouteCap = 2
  MqttCap = 2
  Budget <- AnyThree
  Patient = FALSE
  Apart = FALSE
  MayTimeOut = TRUE
INVARIANTS
  TypeOK
  OnTheMap
  PlanLeadsToTarget
CHECK_DEADLOCK FALSE
