SPECIFICATION Spec
CONSTANTS
  Place = {p1, p2}
  NoPlace = NoPlace
  Context = {c1, c2}
  NoContext = NoContext
  FreshFor = 2
  SustainedAfter = 3
  MaxOddTime = 6
  MaxPositions = 5
  StopAfter = 2
  StaleAfter = 2
  MaxMonitorTime = 5
  MaxObserved = 4
  TimerLag = 1
SYMMETRY Alike
INVARIANTS Consistent TransitionsExact SustainedExact MonitorExact
CHECK_DEADLOCK FALSE
