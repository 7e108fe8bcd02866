\* Between a sweep and its stop the page comes back, or another worker does.
CONSTANTS
  Sweeper = sweeper
  Main = main
  Project = {p1}
  Caller = {c1, c2}
  Id = {i1, i2, i3, i4}
  None = none
  MaxFaults = 0
  MaxCrashes = 0
SPECIFICATION Spec
PROPERTY SweepSparesTheWatched
