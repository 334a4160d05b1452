\* Two sessions of one object, on a terminal and on a pipe; bytes come one by
\* one and fill the buffers.
SPECIFICATION FairSpec
CHECK_DEADLOCK FALSE
CONSTANTS
  Cap = 2
  Text = {"t"}
  Stdins = {"terminal", "pipe"}
  Constructors = {"default"}
  Host <- Elsewhere
  MaxName = 1
  Shapes <- Bytewise
  MaxTyped <- ByStdin
  MaxTold = 1
  MaxUnread = 1
  MaxRuns = 2
INVARIANTS
  TypeOK
  SentIsTyped
  ShownIsReceived
  SessionIsLines
  ReadsReady
  NoLineWaits
PROPERTIES
  SessionEnds
  LinesGetThrough
