SPECIFICATION FairSpec
CONSTANTS
  Home = home
  Foreign = foreign
  u1 = u1
  u2 = u2
  Radios <- MCRadios
  Target = 1
  Uploads <- MCTwo
  AskRoles <- MCBoth
  MaxAsks = 1
  Starving <- MCRadios
CHECK_DEADLOCK FALSE
INVARIANTS TypeOK NoOverlap FlagCovers CapturesPaused RolesResumed
PROPERTIES FlagClears
