SPECIFICATION FairSpec
CONSTANTS
  Clients = {"planner", "publisher", "Task", "Topo"}
  Objects = {1, 2, 3, 4, 5}
  Policies <- MCBoth
INVARIANTS TypeOK ConnectedInOrder SharedSinceUnlink AttachedIsUsable
PROPERTY Recovers
CHECK_DEADLOCK FALSE
