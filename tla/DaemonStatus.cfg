\* Three processes; three ids, the name of a group among them.
SPECIFICATION Spec
CONSTANTS
  Procs <- ThreeProcs
  Groups <- TwoGroups
  Ids <- FourIds
  GroupOf <- GroupsOf
  ProcOf <- ProcsOf
  None = None
  MaxIds = 3
  MaxTime = 3
INVARIANTS
  TypeOK
  AllIsASnapshot
  HighestUptime
  EveryIdIsReported
