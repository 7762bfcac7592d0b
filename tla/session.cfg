\* Two scans, two start and two stop requests at a time; what the page shows meanwhile.
SPECIFICATION SessionSpec
CONSTANTS
  MaxScans = 2
  MaxStarts = 2
  MaxStops = 2
  \* Every time as short as it may be; ages up to the largest the property speaks of.
  Sensors = {camera, imu}
  Timeout <- MCTimeout
  InitTime = 2
  StaleAfter = 1
  Grace = 2
  MaxStall = 1
  MaxAge = 4
  NULL = NULL
SYMMETRY Symmetry
INVARIANTS ScriptsApart ShownIsTrue
PROPERTY ArchiveOwn
\* The first part stops after the last scan.
CHECK_DEADLOCK FALSE
