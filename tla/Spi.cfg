SPECIFICATION FairSpec
CONSTANTS
  Xfer = 2
  RingSize = 3
  OutDepth = 2
  MaxSends = 5
  MaxCommands = 3
CHECK_DEADLOCK FALSE
INVARIANTS TypeOK NothingLost ObeyedInOrder RingSignalled
PROPERTIES NextDelivers
