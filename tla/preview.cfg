\* One project for every race on it, two requests beside the sweeper and main.
CONSTANTS
  Sweeper = sweeper
  Main = main
  Project = {p1}
  Caller = {c1, c2}
  Id = {i1, i2, i3, i4}
  None = none
  MaxFaults = 1
  MaxCrashes = 1
SPECIFICATION FairSpec
INVARIANTS TypeOK WorkerKeepsItsContainers EveryWorkerIsWatched NoContainerLeaks
PROPERTIES RefinesOnePreview IdlePreviewEnds JoinersReturn
