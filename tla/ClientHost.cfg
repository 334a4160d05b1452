\* The client of `tcpchat run client --host 10.0.0.7`.
SPECIFICATION Spec
CHECK_DEADLOCK FALSE
CONSTANTS
  Cap = 2
  Text = {"t"}
  Stdins = {"terminal"}
  Constructors = {"default"}
  Host <- Elsewhere
  MaxName = 1
  Shapes <- Bytewise
  MaxTyped <- ByStdin
  MaxTold = 0
  MaxUnread = 1
  MaxRuns = 1
INVARIANT
  ReachesHost
