SPECIFICATION FairSerialSpec
CONSTANTS
  Home = home
  Foreign = foreign
  q1 = q1
  Ingest = ingest
  Radios <- MCRadios
  Requests <- MCOne
  AskRoles <- MCMany
  MaxAsks = 2
  MaxResets = 1
  Resetting <- MCRadios
  Answering <- MCSatellite
  LinkDrops = TRUE
  HostRestarts = TRUE
  SavedMode = "capture"
  SavedDwell = 0
  StartRounds = 2
CHECK_DEADLOCK FALSE
INVARIANTS TypeOK RolesPersisted RoleInForce
PROPERTIES RolePrevails
