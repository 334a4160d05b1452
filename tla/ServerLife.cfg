\* Three places, and numbers for the two descriptors of the server, the clients
\* and one connection more.
SPECIFICATION Spec
CHECK_DEADLOCK FALSE
CONSTANTS
  Fds = {3, 4, 5, 6, 7, 8}
  MaxClients = 3
INVARIANTS
  TypeOK
  OwnedOnce
  RunsOrHoldsNoDescriptor
