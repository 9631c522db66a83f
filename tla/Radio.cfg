SPECIFICATION FairSpec
CONSTANTS
  Channels = {11, 15, 26}
  HopDwell = 300
INVARIANTS TypeOK DriverOwned TunedWhenListening CaptureListens
PROPERTIES RadioGivenBack
