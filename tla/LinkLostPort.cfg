SPECIFICATION FairLinkSpec
CONSTANTS
  p1 = p1
  p2 = p2
  Ports <- MCTwo
  AutoDetect = TRUE
  WakeTime = 2
  FaultKinds = {"gone"}
  MaxFaults = 1
  OtaMayRun = FALSE
CHECK_DEADLOCK FALSE
PROPERTIES PortsHeal
