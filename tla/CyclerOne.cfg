\* One process: what is left between runs, and that every upload is settled.
SPECIFICATION FairSpec
CONSTANTS
  daemon = daemon
  cli = cli
  Procs <- OneProc
  Keeps <- Keep12
  MaxClock = 5
  Absent = Absent
  Garbage = Garbage
INVARIANTS
  TypeOK
  NoSilentOrphan
  StorageBounded
PROPERTY EveryUploadSettles
