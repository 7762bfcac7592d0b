\* A LiDAR without an entry: its settings, its stream, the end of the node.
SPECIFICATION FairSpec
CONSTANTS
  NULL = NULL
  LidarCount = 1
  Settings = {s1, s2}
  Network <- MCLidar
  NoAddress = NoAddress
  lidar1 = lidar1
  lidar2 = lidar2
  ConfigFiles <- MCUnlisted
  MaxInFlight = 1
  Size = 1
  Word = 2
  Frames = {f1}
INVARIANTS SamplingIsConfigured
PROPERTIES StreamFlows ExitCompletes ReportedSamples
CHECK_DEADLOCK FALSE
