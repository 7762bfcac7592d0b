\* Mode, take-off and landing flags, planner inputs; no stick key is typed.
SPECIFICATION MCSpec
CONSTANTS
  NULL = NULL
  Axes = {"vz", "yaw"}
  MaxPlus <- MCMaxPlus
  MaxMinus <- MCMaxMinus
  Accel <- MCAccel
  Decel <- MCDecel
  DtSteps = {1}
  Alts = {0, 4, 10, 20}
  Positions = {p0, p1}
  Origin = p0
  Headings = {h0}
  North = h0
  NavStates = {"OFFBOARD", "OTHER"}
  Keys = {"T", "1", "2", "L", "SPACE", "E", "Q"}
  Masks = {{}}
  WithReader = FALSE
INVARIANTS AirborneIsFlagged ToggleOnGround GoalSinceRecall
PROPERTIES QuitLands
CHECK_DEADLOCK FALSE
