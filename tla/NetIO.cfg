\* Five bytes through a stream that holds three, and two interrupts.
SPECIFICATION FairSpec
CHECK_DEADLOCK FALSE
CONSTANTS
  Size = 5
  Wanted = 4
  Room = 3
  MaxInterrupts = 2
INVARIANTS
  TypeOK
  WritesAllOnce
  ReadsInPlace
PROPERTY
  CallsEnd
