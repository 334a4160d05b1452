\* Three peers for two places whose bytes come one by one: rejections, and
\* removals, of one that left or filled its buffer, while others are ready.
SPECIFICATION Spec
CHECK_DEADLOCK FALSE
CONSTANTS
  Conns = {a, b, c}
  MaxClients = 2
  Cap = 1
  MaxUnread = 1
  MaxBytes = 2
  Shapes <- Bytewise
  Leavers = {a}
SYMMETRY Stayers
INVARIANTS
  TypeOK
  PollfdsParallel
  ReadyCountExact
  FdOwnership
  OnlyPollAndWriteBlock
PROPERTIES
  CloseJustified
  RoundsEnd
  SignalEndsRound
  AdmitsInOrder
