SPECIFICATION Spec
CONSTANTS
  Home = home
  Foreign = foreign
  u1 = u1
  u2 = u2
  Radios <- MCRadios
  Target = 1
  Uploads <- MCTwo
  AskRoles <- MCCapture
  MaxAsks = 0
  Starving = {}
CHECK_DEADLOCK FALSE
INVARIANTS FlagCovers
