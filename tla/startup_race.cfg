SPECIFICATION Spec
CONSTANTS
  Clients = {"planner", "router", "publisher", "subscriber", "Task", "Topo"}
  Objects = {1, 2, 3, 4, 5, 6}
  Policies <- MCSystemd
INVARIANT Connected
CHECK_DEADLOCK FALSE
