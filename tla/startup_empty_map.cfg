SPECIFICATION Spec
CONSTANTS
  Clients = {"router", "publisher", "Status"}
  Objects = {1, 2, 3, 4}
  Policies <- MCSystemd
INVARIANT AttachedIsFilled
CHECK_DEADLOCK FALSE
