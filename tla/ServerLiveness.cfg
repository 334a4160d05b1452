\* Peers that come, talk, leave and are cut off, and read what they get.
SPECIFICATION FairSpec
CHECK_DEADLOCK FALSE
CONSTANTS
  Conns = {a, b}
  MaxClients = 2
  Cap = 1
  MaxUnread = 1
  MaxBytes = 3
  Shapes <- EmptyLines
  Leavers = {a}
PROPERTIES
  SignalEndsLoop
  QueuedIsServed
  LeaverReleased
