SPECIFICATION FairLinkSpec
CONSTANTS
  p1 = p1
  p2 = p2
  Ports <- MCOne
  AutoDetect = TRUE
  WakeTime = 5
  FaultKinds = {"mute", "gone"}
  MaxFaults = 3
  OtaMayRun = TRUE
CHECK_DEADLOCK FALSE
INVARIANTS LinkTypeOK FewReconnects OpenIsKnown
PROPERTIES PortsHeal
