\* Three sensors with losses, reordering and an IMU restart; scans in order.
SPECIFICATION FairSpec
CONSTANTS
  Modes = {"LIVO", "ONLY_LIO"}
  MaxTime = 8
  ScanStarts = {1, 5}
  ScanLen = 4
  ScanSizes = {0, 1, 2, 4}
  Jitter = 2
  ImgGap = 1
  MAX_INI_COUNT = 1
  MaxImu = 2
  MaxImg = 2
  MaxLoopBacks = 0
INVARIANTS ImuSorted VioAtCut
PROPERTIES PointTimes ImplementsStream ImagesFlow ScansFlow
CHECK_DEADLOCK FALSE
