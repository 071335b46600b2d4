\* Two databases of several configs, two storages.
SPECIFICATION FairSpec
CONSTANTS
  db1 = db1
  db2 = db2
  s1 = s1
  s2 = s2
  secret = secret
  NoPassword = NoPassword
  Nobody = Nobody
  Databases <- TwoDatabases
  DbConfigs <- SomeConfigs
  Storages <- TwoStorages
INVARIANTS
  TypeOK
  StoredIsComplete
  NoticeIsTrue
  EveryStorageTried
PROPERTY EventuallyNotified
