\* Every type of storage, two models, three runs within three seconds.
SPECIFICATION Spec
CONSTANTS
  a = a
  b = b
  Models <- TwoModels
  Keeps = {1}
  Givens <- SomeOptions
  NoObject = NoObject
  MaxClock = 3
  MaxRuns = 3
INVARIANTS
  TypeOK
  TrackedIsWhole
  NothingForgotten
  NoConnectionLeft
PROPERTY StalledServerIsLeft
