\* The config changes twice while the daemon runs.
SPECIFICATION FairSpec
CONSTANTS
  a = a
  b = b
  Pulse = Pulse
  Models <- TwoModels
  BadCrons <- BrokenOnce
  MaxChanges = 2
  EarlyChange = FALSE
INVARIANTS
  TypeOK
  OneAtATime
  OneScheduler
  ScheduleIsConfig
PROPERTIES
  EveryJobRuns
  ReloadCompletes
