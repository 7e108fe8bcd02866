CONSTANTS
  Project = {p1}
  Caller = {c1, c2}
  Main = main
  None = none
  MaxKeys = 1
  MaxFaults = 0
SPECIFICATION Spec
PROPERTY TwiceIsAConflict
