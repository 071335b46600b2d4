\* Two processes rotate the same storage at once.
SPECIFICATION Spec
CONSTANTS
  daemon = daemon
  cli = cli
  Procs <- TwoProcs
  Keeps <- Keep012
  MaxClock = 4
  Absent = Absent
  Garbage = Garbage
INVARIANTS
  OwnArchiveSafe
  NewestKept
PROPERTY ImplementsRetention
