\* Terminal keys and the Win32 reader, the ramp, the mode switch in mid-stick.
SPECIFICATION MCFairSpec
CONSTANTS
  NULL = NULL
  Axes = {"vz", "yaw"}
  MaxPlus <- MCMaxPlus
  MaxMinus <- MCMaxMinus
  Accel <- MCAccel
  Decel <- MCDecel
  DtSteps = {1}
  Alts = {0, 20}
  Positions = {p0}
  Origin = p0
  Headings = {h0}
  North = h0
  NavStates = {"OFFBOARD", "OTHER"}
  Keys = {"T", "1", "2", "SPACE", "W", "S"}
  Masks = {{}, {"W"}, {"A"}, {"S", "SPACE"}}
  WithReader = TRUE
INVARIANTS SafetyGate
PROPERTIES SlewLimited TakeoffResolves ReleaseStops
CHECK_DEADLOCK FALSE
