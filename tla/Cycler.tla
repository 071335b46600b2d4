------------------------------- MODULE Cycler -------------------------------
(***************************************************************************)
(* One storage of one model: the upload of an archive and the cycler that  *)
(* rotates what the storage holds (storage/cycler.go, driven by runModel   *)
(* of storage/base.go).                                                    *)
(*                                                                         *)
(* The cycler keeps its history in a JSON file beside the agent, not in    *)
(* the storage.  Every process that performs the model (the daemon's job,  *)
(* a "launch-agent perform" started by hand) loads, changes and rewrites   *)
(* that file with no lock, so the model takes each file system call as a   *)
(* step of its own.                                                        *)
(***************************************************************************)
EXTENDS Integers, Sequences, FiniteSets

CONSTANTS
  Procs,       \* processes that may perform this model
  Keeps,       \* the values "keep" may have, re-read from the config by each run
  MaxClock,    \* bound: the timestamps 0..MaxClock-1 name archives
  Absent,      \* content of the cycler file: there is no file
  Garbage      \* content of the cycler file: text that is not a JSON list

ASSUME KeepsAssumption == Keeps \subseteq Int /\ Keeps # {}
ASSUME MaxClockAssumption == MaxClock \in Nat
ASSUME FileAssumption ==
  Absent # Garbage /\ Absent \notin Seq(Nat) /\ Garbage \notin Seq(Nat)

VARIABLES
  clock,     \* the second time.Now() is in
  remote,    \* fileKeys of the complete archives the storage holds
  file,      \* content of cyclerPath/<name>.json
  pc,        \* where each process is in runModel
  key,       \* newFileKey of each process's run
  keep,      \* base.keep of each process's run
  packages,  \* Cycler.packages
  isLoaded,  \* Cycler.isLoaded
  stored,    \* history: keys whose upload() returned nil
  count,     \* history: the number of calls of Cycler.add so far
  addedAt,   \* history: which of those calls added a key, 0 if none did
  lost       \* history: keys a failed call or a crash cut off from the file

run     == <<key, keep, packages, isLoaded>>
history == <<stored, count, addedAt, lost>>
vars    == <<clock, remote, file, pc, run, history>>

Keys == 0 .. MaxClock - 1

PCs == {"idle", "upload", "load", "create", "example", "read", "prune", "save", "write"}

(* The run has an uploaded archive and has not left cycler.run yet. *)
AfterUpload == PCs \ {"idle", "upload"}

RangeOf(s) == {s[i] : i \in DOMAIN s}

Init ==
  /\ clock = 0
  /\ remote = {}
  /\ file = Absent
  /\ pc = [p \in Procs |-> "idle"]
  /\ key = [p \in Procs |-> 0]
  /\ keep = [p \in Procs |-> 0]
  /\ packages = [p \in Procs |-> <<>>]
  /\ isLoaded = [p \in Procs |-> FALSE]
  /\ stored = {}
  /\ count = 0
  /\ addedAt = [k \in Keys |-> 0]
  /\ lost = {}

Goto(p, l) == pc' = [pc EXCEPT ![p] = l]

(* The archive is named after the second it was made in: two runs are      *)
(* taken to be a second apart.  newBase gives the run a fresh Cycler and   *)
(* the keep of the config it was started with.                             *)
Begin(p) ==
  /\ pc[p] = "idle"
  /\ clock < MaxClock
  /\ clock' = clock + 1
  /\ key' = [key EXCEPT ![p] = clock]
  /\ \E n \in Keeps : keep' = [keep EXCEPT ![p] = n]
  /\ packages' = [packages EXCEPT ![p] = <<>>]
  /\ isLoaded' = [isLoaded EXCEPT ![p] = FALSE]
  /\ Goto(p, "upload")
  /\ UNCHANGED <<remote, file, history>>

Upload(p) ==
  /\ pc[p] = "upload"
  /\ remote' = remote \cup {key[p]}
  /\ stored' = stored \cup {key[p]}
  /\ Goto(p, "load")
  /\ UNCHANGED <<clock, file, run, count, addedAt, lost>>

(* Mutant: the error of open() or upload() is not returned. *)
UploadErrorDropped(p) ==
  /\ pc[p] = "upload"
  /\ Goto(p, "load")
  /\ UNCHANGED <<clock, remote, file, run, history>>

(* open() or upload() returns an error, or the process dies in them: the   *)
(* object may be complete all the same.  The cycler does not run.          *)
UploadFails(p) ==
  /\ pc[p] = "upload"
  /\ remote' \in {remote, remote \cup {key[p]}}
  /\ lost' = lost \cup {key[p]}
  /\ Goto(p, "idle")
  /\ UNCHANGED <<clock, file, run, stored, count, addedAt>>

-----------------------------------------------------------------------------
(* Cycler.load, then Cycler.add *)

Stat(p) ==
  /\ pc[p] = "load"
  /\ Goto(p, IF file = Absent THEN "create" ELSE "read")
  /\ UNCHANGED <<clock, remote, file, run, history>>

(* os.WriteFile opens with O_TRUNC and writes afterwards. *)
Create(p) ==
  /\ pc[p] = "create"
  /\ file' = Garbage
  /\ Goto(p, "example")
  /\ UNCHANGED <<clock, remote, run, history>>

WriteExample(p) ==
  /\ pc[p] = "example"
  /\ file' = <<>>
  /\ Goto(p, "read")
  /\ UNCHANGED <<clock, remote, run, history>>

(* Mutant: the new package goes to the front of the list. *)
AddInFront(p, pkgs) ==
  /\ packages' = [packages EXCEPT ![p] = <<key[p]>> \o pkgs]
  /\ count' = count + 1
  /\ addedAt' = [addedAt EXCEPT ![key[p]] = count + 1]

Add(p, pkgs) ==
  /\ packages' = [packages EXCEPT ![p] = Append(pkgs, key[p])]
  /\ count' = count + 1
  /\ addedAt' = [addedAt EXCEPT ![key[p]] = count + 1]

(* Mutant: what was decoded before the syntax error stays in the list. *)
ParsedInPart == IF file = Garbage THEN <<MaxClock>> ELSE file

(* A text that does not parse is logged and counts as an empty history. *)
Parsed == IF file = Garbage THEN <<>> ELSE file

Read(p) ==
  /\ pc[p] = "read"
  /\ file # Absent
  /\ Add(p, Parsed)
  /\ isLoaded' = [isLoaded EXCEPT ![p] = TRUE]
  /\ Goto(p, "prune")
  /\ UNCHANGED <<clock, remote, file, key, keep, stored, lost>>

(* MkdirP, WriteFile or ReadFile fails: load returns before isLoaded is    *)
(* set, and the run goes on with a history of its own archive alone.       *)
LoadFails(p) ==
  /\ pc[p] \in {"load", "create", "example", "read"}
  /\ Add(p, <<>>)
  /\ lost' = lost \cup {key[p]}
  /\ Goto(p, "prune")
  /\ UNCHANGED <<clock, remote, file, key, keep, isLoaded, stored>>

-----------------------------------------------------------------------------
(* The loop of Cycler.run *)

(* Mutants: total < keep, and total <= keep + 1. *)
ShiftsOneMore(p) ==
  keep[p] = 0 \/ Len(packages[p]) < keep[p] \/ packages[p] = <<>>

ShiftsOneLess(p) ==
  keep[p] = 0 \/ Len(packages[p]) <= keep[p] + 1 \/ packages[p] = <<>>

(* shiftByKeep returns nil.  With keep < 0 it panics on an empty list      *)
(* instead, and the deferred save runs all the same.                       *)
NothingToShift(p) ==
  \/ keep[p] = 0
  \/ Len(packages[p]) <= keep[p]
  \/ packages[p] = <<>>

(* The package leaves the list whether its deletion succeeds or not: a     *)
(* failure is only logged.                                                 *)
DeleteOldest(p) ==
  /\ pc[p] = "prune"
  /\ ~NothingToShift(p)
  /\ LET k == Head(packages[p]) IN
       \/ /\ remote' = remote \ {k}
          /\ UNCHANGED lost
       \/ /\ lost' = lost \cup {k}
          /\ UNCHANGED remote
  /\ packages' = [packages EXCEPT ![p] = Tail(@)]
  /\ UNCHANGED <<clock, file, pc, key, keep, isLoaded, stored, count, addedAt>>

(* Mutant: the list is saved only once it has reached its full length. *)
SavedWhenFull(p) ==
  /\ pc[p] = "prune"
  /\ NothingToShift(p)
  /\ Goto(p, IF isLoaded[p] /\ Len(packages[p]) >= keep[p] THEN "save" ELSE "idle")
  /\ UNCHANGED <<clock, remote, file, run, history>>

PruneDone(p) ==
  /\ pc[p] = "prune"
  /\ NothingToShift(p)
  /\ Goto(p, IF isLoaded[p] THEN "save" ELSE "idle")
  /\ UNCHANGED <<clock, remote, file, run, history>>

-----------------------------------------------------------------------------
(* Cycler.save: os.WriteFile truncates, then writes. *)

Truncate(p) ==
  /\ pc[p] = "save"
  /\ file' = Garbage
  /\ Goto(p, "write")
  /\ UNCHANGED <<clock, remote, run, history>>

OpenFails(p) ==
  /\ pc[p] = "save"
  /\ lost' = lost \cup {key[p]}
  /\ Goto(p, "idle")
  /\ UNCHANGED <<clock, remote, file, run, stored, count, addedAt>>

Write(p) ==
  /\ pc[p] = "write"
  /\ file' = packages[p]
  /\ Goto(p, "idle")
  /\ UNCHANGED <<clock, remote, run, history>>

(* A short write, or one laid over the longer text that another process    *)
(* has written since Truncate.                                             *)
WriteGarbles(p) ==
  /\ pc[p] = "write"
  /\ file' = Garbage
  /\ lost' = lost \cup remote
  /\ Goto(p, "idle")
  /\ UNCHANGED <<clock, remote, run, stored, count, addedAt>>

(* The process dies (kill, or logger.Fatal from another goroutine) after   *)
(* the upload; the next run of the process starts from the file.           *)
Crash(p) ==
  /\ pc[p] \in AfterUpload
  /\ lost' = lost \cup IF pc[p] = "write" THEN remote ELSE {key[p]}
  /\ Goto(p, "idle")
  /\ UNCHANGED <<clock, remote, file, run, stored, count, addedAt>>

(* The bound on the clock is reached and nothing runs. *)
AllIdle == \A p \in Procs : pc[p] = "idle"

Done == clock = MaxClock /\ AllIdle /\ UNCHANGED vars

Step(p) ==
  \/ Upload(p) \/ UploadFails(p)
  \/ Stat(p) \/ Create(p) \/ WriteExample(p) \/ Read(p) \/ LoadFails(p)
  \/ DeleteOldest(p) \/ PruneDone(p)
  \/ Truncate(p) \/ OpenFails(p) \/ Write(p) \/ WriteGarbles(p)
  \/ Crash(p)

Next == (\E p \in Procs : Begin(p) \/ Step(p)) \/ Done

Spec == Init /\ [][Next]_vars

(* Every call of a run returns, with a result or with an error. *)
FairSpec == Spec /\ \A p \in Procs : WF_vars(Step(p))
-----------------------------------------------------------------------------
(* Correctness *)

TypeOK ==
  /\ clock \in 0 .. MaxClock
  /\ remote \subseteq Keys
  /\ file \in Seq(Keys) \cup {Absent, Garbage}
  /\ pc \in [Procs -> PCs]
  /\ key \in [Procs -> 0 .. MaxClock]
  /\ \A p \in Procs : pc[p] # "idle" => key[p] \in Keys
  /\ keep \in [Procs -> Int]
  /\ packages \in [Procs -> Seq(Keys)]
  /\ isLoaded \in [Procs -> BOOLEAN]
  /\ stored \subseteq Keys
  /\ count \in Nat
  /\ addedAt \in [Keys -> 0 .. count]
  /\ lost \subseteq Keys

Tracked == IF file \in {Absent, Garbage} THEN {} ELSE RangeOf(file)

(* From the moment upload() returns until the run ends, the archive of the *)
(* run is in the storage: neither its own pruning nor that of a concurrent *)
(* run, working from another snapshot of the file, deletes it.             *)
OwnArchiveSafe ==
  \A p \in Procs : pc[p] \in AfterUpload => key[p] \in remote

(* What the rotation promises, whatever snapshots concurrent runs prune    *)
(* from and whatever fails in between: an uploaded archive is gone only if *)
(* it had been added to the history and "keep" others were added since.    *)
NewestKept ==
  \A k \in stored \ remote :
    addedAt[k] # 0 /\ \E n \in Keeps \ {0} : count - addedAt[k] >= n

(* The cycler implements the rotation it stands for: each step of a run is *)
(* a step of Retention or leaves storage and history as they are.          *)
R == INSTANCE Retention WITH live <- remote
ImplementsRetention == R!Spec

(* Between runs of one process, an archive in the storage is in the file   *)
(* that lets the cycler delete it one day, unless a failed call or a crash *)
(* cut it off.                                                             *)
NoSilentOrphan == AllIdle => remote \subseteq Tracked \cup lost

(* So the storage does not grow with the number of runs: apart from what   *)
(* failures cut off, it holds no more than the largest keep.               *)
StorageBounded ==
  AllIdle /\ 0 \notin Keeps =>
    \E n \in Keeps : Cardinality(remote \ lost) <= n

(* An uploaded archive ends up in the history, or with a reason not to.    *)
EveryUploadSettles ==
  \A k \in Keys : k \in stored ~> k \in Tracked \cup lost \/ k \notin remote
=============================================================================
