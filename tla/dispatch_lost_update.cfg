SPECIFICATION Spec
CONSTANTS
  Roads <- MCRoads
  NodeCount = 5
  Pos <- MCPos
  MaxPathLen = 100
  Cars <- OneCar
  StartArc <- OneStart
  Targets = {3, 5}
  Requests = {}
  Places = {}
  TaskCap = 2
  RouteCap = 2
  MqttCap = 8
  Budget <- TwoTasks
  Patient = FALSE
  Apart = FALSE
  MayTimeOut = FALSE
PROPERTIES
  NoLostUpdate
CHECK_DEADLOCK FALSE
