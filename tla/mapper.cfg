\* The parts of the mapper before and behind the synchronisation.
SPECIFICATION MapperSpec
CONSTANTS
  \* Visual map: a patch is lost from the fourth on, and a point may converge at its
  \* third.
  Points = {p1, p2}
  Places <- MCPlaces
  Cells = {c1, c2}
  NULL = NULL
  NORMAL_EN = TRUE
  RAYCAST_EN = FALSE
  MAP_SLIDING_EN = TRUE
  HALF_MAP = 0
  SLIDE_THRESH = 1
  OBS_LIMIT = 3
  OBS_REFERENCE = 1
  OBS_CONVERGED = 2
  MaxFrames = 5
  \* LiDAR map: one layer of children; a node is fitted at two points and frozen at
  \* four.
  Voxels <- MCVoxels
  Octants = {o1, o2}
  max_layer = 1
  layer_init_num = 1
  UPDATE_SIZE = 1
  max_points_num = 3
  map_sliding_en = TRUE
  half_map_size = 0
  sliding_thresh = 1
  MaxFirst = 4
  MaxPoints = 6
  \* Filter
  LioIterations = 4
  VioIterations = 3
  PYRAMID = 2
  Errors = {1, 2, 3}
  MaxUpdates = 2
  \* IMU propagation
  MaxEnd = 6
  MaxSamples = 3
  MaxScanPoints = 2
  MAX_INI_COUNT = 2
  \* Loop
  pub_scan_num = 2
  MaxScans = 4
  MaxTime = 4
  MaxKept = 3
  \* Messages: two lines and one that the LiDAR has not; three turns of the slow
  \* handler, gaps of less than a millisecond and of more.
  MsUnits = 2
  Patch = 1
  N_SCANS = 2
  point_filter_num = 2
  Turn = 4
  Steps = {1, 3}
  MaxMessage = 5
SYMMETRY Symmetry
INVARIANTS PointersAlive TreeSound FilterConsistent OutputOnce ScanTimes
PROPERTIES NoDuplicateAhead ConvergedStays FrozenIsFinal MotionConsistent PoseOnTime
\* Every part stops at its bounds.
CHECK_DEADLOCK FALSE
