\* A client leaves and the last one is moved into its place.
SPECIFICATION Spec
CHECK_DEADLOCK FALSE
CONSTANTS
  Conns = {a, b}
  MaxClients = 2
  Cap = 4
  MaxUnread = 1
  MaxBytes = 4
  Shapes <- WholeLines
  Leavers = {a}
INVARIANT
  Attribution
