SPECIFICATION FairSettledSpec
CONSTANTS
  Home = home
  Foreign = foreign
  q1 = q1
  Ingest = ingest
  Radios <- MCRadios
  Requests <- MCOne
  AskRoles <- MCSome
  MaxAsks = 1
  MaxResets = 1
  Resetting <- MCPrimary
  Answering <- MCNobody
  LinkDrops = FALSE
  HostRestarts = FALSE
  SavedMode = "capture"
  SavedDwell = 0
  StartRounds = 2
CHECK_DEADLOCK FALSE
PROPERTIES RoleReapplied
