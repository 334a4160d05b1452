\* Nobody leaves, but a line arrives in two parts.
SPECIFICATION Spec
CHECK_DEADLOCK FALSE
CONSTANTS
  Conns = {a, b}
  MaxClients = 2
  Cap = 3
  MaxUnread = 1
  MaxBytes = 3
  Shapes <- Bytewise
  Leavers = {}
INVARIANT
  Integrity
