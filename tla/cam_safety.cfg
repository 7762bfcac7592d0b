\* Three threads, cable, signals, respawn.
SPECIFICATION Spec
CONSTANTS
  MAX_QUEUE_SIZE = 2
  MaxFrames = 3
  OpenRetries = 2
  RestartAt = 3
  DeadAt = 6
  GetTicks = 2
  WorkTicks = 1
  JoinTicks = 4
  WatchdogTicks = 20
INVARIANTS HandleSafety NewestInOrder WatchdogSeesStamp
