SPECIFICATION Spec
CHECK_DEADLOCK FALSE
CONSTANTS
  ann = ann
  bob = bob
  eve = eve
  Members = {ann, bob, eve}
  MaxClients = 3
  Lines <- TwoTalk
  UpRoom = 2
  DownRoom = 1
INVARIANTS
  TypeOK
  LinesCanBeAttributed
  WaitsOnlyWhenDone
PROPERTIES
  RefinesRoom
  CaughtUpUnlessBlocked
