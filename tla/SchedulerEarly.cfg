\* Expected to fail: the config file changes while main's Start is running.
SPECIFICATION Spec
CONSTANTS
  a = a
  b = b
  Pulse = Pulse
  Models <- TwoModels
  BadCrons <- BrokenOnce
  MaxChanges = 1
  EarlyChange = TRUE
INVARIANT ScheduleIsConfig
