\* A scan with an older header time arrives.
SPECIFICATION Spec
CONSTANTS
  Modes = {"LIVO"}
  MaxTime = 5
  ScanStarts = {1, 3}
  ScanLen = 2
  ScanSizes = {0, 1, 2}
  Jitter = 2
  ImgGap = 2
  MAX_INI_COUNT = 2
  MaxImu = 2
  MaxImg = 3
  MaxLoopBacks = 1
INVARIANT HeadersMatch
CHECK_DEADLOCK FALSE
