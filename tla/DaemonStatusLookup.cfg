\* Expected to fail: one lookup fails.
SPECIFICATION Spec
CONSTANTS
  Procs <- ThreeProcs
  Groups <- TwoGroups
  Ids <- FourIds
  GroupOf <- GroupsOf
  ProcOf <- ProcsOf
  None = None
  MaxIds = 3
  MaxTime = 3
INVARIANT FailedIsNotRunning
