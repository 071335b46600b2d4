\* Expected to fail: the config is loaded again after a run.
SPECIFICATION Spec
CONSTANTS
  a = a
  w1 = w1
  w2 = w2
  Models <- OneModel
  Dirs <- TwoDirs
  None = None
  Start = Start
  Gone = Gone
  MaxLoads = 3
  MaxRuns = 3
INVARIANT FinishedIsKept
