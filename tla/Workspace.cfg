\* Two workdirs or none, three loads, three runs.
SPECIFICATION Spec
CONSTANTS
  a = a
  w1 = w1
  w2 = w2
  Models <- OneModel
  Dirs <- TwoDirs
  None = None
  Start = Start
  Gone = Gone
  MaxLoads = 3
  MaxRuns = 3
INVARIANTS
  TypeOK
  FinishedIsComplete
  KeptUnlessReloaded
  NamedWorkdirStays
  CleansUp
  WorkdirIsConfigs
