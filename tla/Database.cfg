\* The dump stage of two databases of every type, with every combination of hooks.
SPECIFICATION Spec
CONSTANTS
  db1 = db1
  db2 = db2
  secret = secret
  other = other
  NoPassword = NoPassword
  Nobody = Nobody
  Databases <- TwoDatabases
  DbConfigs <- SomeConfigs
INVARIANTS
  TypeOK
  NilMeansDumped
  HooksPaired
  FailureStopsRun
  PasswordIsLatest
