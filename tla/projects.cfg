CONSTANTS
  Project = {p1}
  Caller = {c1, c2}
  Main = main
  None = none
  MaxKeys = 2
  MaxFaults = 1
  main2 = main2
  work = work
  h1 = h1
  Name = {main, main2, work}
  MainName = main
  Harness = {h1}
  Builtin = {h1}
  Longer <- MCLonger
  BaseOf <- MCBaseOf
  Shell = shell
  Gone = gone
  Client = {c1, c2}
  Crowd = {main, main2}
  MaxMishaps = 1
  Path = {f, g}
  Code = {c1, c2}
  NoCode = nocode
  MaxAttempts = 1
  MaxTroubles = 1
SPECIFICATION MCSpec
SYMMETRY MCSymmetry
CHECK_DEADLOCK FALSE
INVARIANTS
  TypeOK
  NothingOrphaned
  MarkerTellsTheKey
  BootHeals
  RecordsTellTheKind
  InstallingIsRunning
  OneTransferAtATime
PROPERTIES
  BootInstallsRecorded
  RefinesOneTransfer
