SPECIFICATION Spec
CONSTANTS
  p1 = p1
  p2 = p2
  Procs <- TwoProcs
  MaxBytes = 0
  Seconds = 2
  LastTick = 2
  MaxLines <- ThreeAndOne
  MaxFaults = 1
  MaxSetBacks = 1
INVARIANTS TypeOK LinesKeptInOrder SizeBounded RotatedFilesSurvive FiledUnderItsDay
\* The bounds end every behaviour.
CHECK_DEADLOCK FALSE
