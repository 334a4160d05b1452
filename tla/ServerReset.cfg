\* A connection is reset before it is read.
SPECIFICATION Spec
CHECK_DEADLOCK FALSE
CONSTANTS
  Conns = {a, b}
  MaxClients = 2
  Cap = 2
  MaxUnread = 1
  MaxBytes = 1
  Shapes <- Bytewise
  Leavers = {a}
PROPERTY
  ReadSurvivesReset
