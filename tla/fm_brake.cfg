\* The Spacebar brake while the planner flies.
SPECIFICATION MCSpec
CONSTANTS
  NULL = NULL
  Axes = {"vz", "yaw"}
  MaxPlus <- MCMaxPlus
  MaxMinus <- MCMaxMinus
  Accel <- MCAccel
  Decel <- MCDecel
  DtSteps = {1}
  Alts = {0, 20}
  Positions = {p0, p1}
  Origin = p0
  Headings = {h0}
  North = h0
  NavStates = {"OFFBOARD", "OTHER"}
  Keys = {"T", "1", "2", "L", "SPACE", "E", "Q"}
  Masks = {{}}
  WithReader = FALSE
INVARIANT BrakeInPlace
CHECK_DEADLOCK FALSE
