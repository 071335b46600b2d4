\* Expected to fail: a recovered panic is reported as a finished run.
SPECIFICATION Spec
CONSTANTS
  db1 = db1
  db2 = db2
  s1 = s1
  s2 = s2
  secret = secret
  NoPassword = NoPassword
  Nobody = Nobody
  Databases <- TwoDatabases
  DbConfigs <- SomeConfigs
  Storages <- TwoStorages
INVARIANT FinishedMeansStored
