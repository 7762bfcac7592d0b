\* The watchdog, the shutdown and the recovery.
SPECIFICATION FairSpec
CONSTANTS
  MAX_QUEUE_SIZE = 2
  MaxFrames = 1
  OpenRetries = 2
  RestartAt = 2
  DeadAt = 4
  GetTicks = 1
  WorkTicks = 1
  JoinTicks = 3
  WatchdogTicks = 8
PROPERTIES StreamLossExits ExitCompletes CameraRecovers
