\* From packets to frames, and through the ring with indices that wrap around.
SPECIFICATION FramesSpec
CONSTANTS
  NULL = NULL
  LidarCount = 1
  Settings = {s1}
  Network <- MCLidars
  NoAddress = NoAddress
  lidar1 = lidar1
  lidar2 = lidar2
  ConfigFiles <- MCListed
  MaxInFlight = 1
  Size = 2
  Word = 4
  Frames = {f1, f2}
  h1 = h1
  h2 = h2
  \* Two milliseconds to a frame, three points to a packet, four units to a
  \* millisecond.
  Handles <- MCHandles
  MsUnits = 4
  Patch = 1
  N_SCANS = 1
  point_filter_num = 1
  publish_interval_ms = 2
  Stamps <- MCStamps
  Spacings = {2}
  PacketPoints = 3
  OffsetWord = 11
  MaxTime = 4
  MaxQueue = 2
  MaxPackets <- MCPackets
INVARIANTS SlotIsSafe FramesTrue
PROPERTIES ImplementsFifo
CHECK_DEADLOCK FALSE
