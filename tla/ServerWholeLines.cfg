\* Two peers that stay and whose lines arrive whole.
SPECIFICATION FairSpec
CHECK_DEADLOCK FALSE
CONSTANTS
  Conns = {a, b}
  MaxClients = 2
  Cap = 4
  MaxUnread = 1
  MaxBytes = 4
  Shapes <- WholeLines
  Leavers = {}
INVARIANTS
  Attribution
  Integrity
  NoLineWaits
PROPERTIES
  EverythingRelayed
