# Verification of launch-util

launch-util is a backup agent written in Go. A config file lists *models*; each
model names databases to dump, an optional archive of files, a compression, and
storages that receive the result. The agent performs models from the command
line (`perform`) or as a daemon on cron schedules (`run`, `start`), keeps the
last `keep` archives in every storage, and tells a webhook how each run ended.

This directory holds TLA+ models of the agent, the TLC configurations that check
them, and TLAPS proofs. `PROJECT.json` maps every definition to the lines of
`src/` it models and lists the hazards of the code with the properties that
watch them.

## 1. Inventory

| Component | Source | State it keeps | Operations |
|---|---|---|---|
| cycler | `storage/cycler.go` | a JSON file per model and storage: the keys of the packages, oldest first; in a run, `packages` and `isLoaded` | `load`, `add`, `shiftByKeep`, `save` |
| storage run | `storage/base.go` | `keep`, a fresh `Cycler` per run, the list of errors | `newBase`, `new`, `runModel`, `Run` |
| storage backends | `storage/{local,ftp,sftp,scp,s3,gcs,azure,webdav}.go` | a connection, the remote objects | `open`, `close`, `upload`, `delete` (`list`, `download` have no caller) |
| database run | `database/base.go` | none between databases | hooks, `init`, `perform`, `on_exit` |
| database types | `database/*.go` | fields set by `init`, `PGPASSWORD` in the environment | `init`, `build`, `perform` |
| model | `model/model.go` | named result `err`, two deferred functions, the workspace | `Perform`, `after` |
| archive, compressor | `archive/`, `compressor/` | files in the workspace, the process's working directory | `Run` |
| scheduler | `scheduler/scheduler.go` | the global `mycron`, a mutex per `Start`, jobs | `Start`, `Restart`, `Stop` |
| config | `config/config.go` | `Models`, `Pulse`, viper's values and overrides | `Init`, `loadConfig`, the watcher's callback |
| notifier, pulse | `notifier/`, `psutil/` | none | `Notify`, `Fetch`, `Pulse` |
| daemon status | `rpc/rpc.go` | a map of groups during one call | `SendDaemonStatus` |
| command line | `main.go` | the config file name | `perform`, `pulse`, `start`, `run`, `status` |
| logger, helper | `logger/`, `helper/` | the log output | output, paths, `Exec` |

**How they interact.** `main` loads the config (`config.Init`, which also starts
the fsnotify watcher) and, in the daemon, calls `scheduler.Start`. gocron runs
each job in a goroutine; a job locks the mutex of its `Start` and calls
`Model.Perform`, which calls `database.Run`, `archive.Run`, `compressor.Run` and
`storage.Run` in turn, removes the workspace and calls the webhook. `storage.Run`
uploads to each storage and lets the cycler rotate it. The watcher goroutine calls
`loadConfig` and then `scheduler.Restart`, whatever `loadConfig` returned. The
processes of the agent (the daemon, a `perform` by hand) share the cycler files,
the storages and nothing else.

**What is hard.** Two processes rotate one storage with no lock on the history
file. A crash falls between the truncation and the writing of that file. A call
fails after it had its effect. A panic is recovered from in the middle of a run. Two
goroutines call `Start` and share a global. A reload replaces the mutex that
serialises the jobs. `Stop` waits for jobs that wait for each other. The working
directory, the environment and viper's overrides belong to the whole process and
outlive the run or the load that changed them. A server stalls in a call without
a deadline. Supervisor's processes change between two questions.

**What makes each part correct.**

- *cycler*: an archive is deleted only when `keep` younger ones have been added; a
  run never deletes its own archive or that of another run under way; nothing in
  the storage is forgotten unless a failure is to blame.
- *database run*: a nil result means every database was dumped; `after_script`
  runs exactly where the configuration asks for it.
- *model*: only complete archives are stored; every storage gets its chance; a
  notification is sent and its status is true.
- *scheduler and config*: one backup at a time, one scheduler, the schedule
  follows the config, no job and no edit waits for ever.
- *daemon status*: each daemon asked for is reported once, with the state of its
  processes.
- *workspace* (config, archive, compressor, model): a run archives its own files,
  stores them where the config says, and removes them and nothing else.
- *storage backends*: what the history lists is in the storage, complete; what is
  in the storage is in a history; no connection stays open; a deadline holds.
- *database types*: a dump is made with the password of its own config, and which
  one is used without it depends on nothing but the dumps made before.

## 2. Plan

Done, in the order of importance:

1. `Cycler`, with the abstract specification `Retention`, and `CyclerProofs`.
2. `Database`, the dump stage, with what each type requires and may come to.
3. `Perform`, a whole run, which takes the steps of `Database` by `INSTANCE`.
4. `Scheduler`, with the part of `config` that reloads, and the command `perform`.
5. `Workspace`: what `loadConfig`, a run and `after` make of `workdir`,
   `useTempWorkDir` and the working directory over several reloads and runs.
6. `DaemonStatus`: grouping of the processes of supervisor, failed lookups,
   processes that change state between two calls.
7. `Backends`: the eight types of storage, their connections and deadlines, and
   models that share a storage.

8. The proofs: for each of these modules a module of theorems (section 5). To do:
   what a step may never do, as action properties proved from the same inductive
   invariants.

`Scheduler` and `Perform` are not
composed: `Scheduler` needs of a run only that it returns, which is what
`EventuallyNotified` of `Perform` says of it.

## 3. The modules

### Cycler (with Retention, CyclerProofs, CyclerOneProofs, MCCycler)

One storage of one model, performed by the processes `Procs`. A run is the code
from `newBase` to the end of `Cycler.run`, and `pc` says where in it a process
is:

| `pc` | the code is about to | actions |
|---|---|---|
| `idle` | start a run | `Begin` |
| `upload` | call `upload` | `Upload`, `UploadFails` |
| `load` | make the directory, look whether the file exists | `Stat`, `LoadFails` |
| `create`, `example` | create the file; write `[]` into it | `Create`, `WriteExample`, `LoadFails` |
| `read` | read and parse the file, then `add` | `Read`, `LoadFails` |
| `prune` | `shiftByKeep`, then delete | `DeleteOldest`, `PruneDone` |
| `save` | open the file with truncation | `Truncate`, `OpenFails` |
| `write` | write the list | `Write`, `WriteGarbles` |

`Crash` may happen at any of these places after the upload. The file is `Absent`,
`Garbage` (a text that does not parse, such as the empty one after a truncation)
or a list of keys. A package is its key: a package made of several files is taken
as one. `keep` is read from the config by each run, so it may change from run to run.

The history variables do not influence the behaviour: `stored` (keys whose
upload returned nil), `count` and `addedAt` (the order of all calls of `add`) and
`lost` (keys that a failed call or a crash cut off from the history).

`Retention` says the same without file, processes or failures: an archive is
stored, enters the history, and expires once `keep` others have entered
after it. `ImplementsRetention` maps `live` to `remote` and the two counters to
themselves.

Assumed: two runs never name their archive after the same second. In the daemon
runs are serialised; two processes could meet in a second, and
then the guarantee does not hold (see the hazards).

### Database (with DatabaseProofs, MCDatabase)

`database.Run` with hooks. `conf` gives each database a type, what of the
required options is there, its two scripts (unset, a command, one behind `-`,
one without a word) and `on_exit`; the loop takes databases in any order (a Go
map). `result` is what `Run` returns, or `"panic"`: `runHook` indexes the empty
list of words.

Each type has an operator for `init()`, which configs it accepts, and one for
`perform()`, what it may come to. Of the commands they build only two things
matter to the stage. `PostgreSQL.perform` puts its password into the environment
of the process (`Setenv`), where it stays for the next database and the next
run, so that `env` may hold any password at the start; the tool is called in a
step of its own (`CallTool`), and between the two the watcher may load the config
and with it the `.env` file, which sets `PGPASSWORD` where there is none
(`LoadDotEnv`). `found`, `login` and `earlier` are history. `Redis.trySave` appends
`SAVE` to the command of the mode, which is `cp` unless the mode is `sync`: a
mode that is neither `copy` nor `sync` never dumps anything with `invoke_save`.

### Perform (with PerformProofs, MCPerform)

`Model.Perform`: the steps of `Database` (with `Reload` for what the watcher does
in between), then archive, compressor, the loop of `storage.Run`, then the
deferred functions in the order they run. `Compress` returns a path or an error;
`Stat` overwrites that error with its own, so that nothing but the empty path tells
the run to stop. `packed` is history: whether tar came to its end. A panic leaves
`err` as it is, and that is nil at every place that can panic. `kinds` gives each
storage of the model a config that is good, of an unknown type, or with a
negative `keep`; any of them may panic, a good one where it is opened (ftp on an
error that is not of the protocol, s3 on a session it cannot make). `Killed` stands for `kill` and for `logger.Fatal` in another
goroutine.

### Scheduler (with SchedulerProofs, MCScheduler)

The main goroutine, the watcher goroutine, and gocron's jobs. Calls of `Start`
are numbered; the n-th creates scheduler n and mutex n, sets the global `mycron`
and registers jobs one by one on whatever `mycron` then is. `BadCrons` are the
models whose cron does not parse, in each version of the file: gocron drops the job,
`Start` logs it and goes on (`RegisterFails`). A timer may fire at
any time while its scheduler runs. `Stop` first ends the timers, then waits
for the jobs already fired (gocron's behaviour, external). A load may fail half
way, or panic. `EarlyChange` says whether the file may change before main's
`Start` has returned. Several edits before the watcher takes
an event are one event, as one reload reads the file as it then is.

The process is started for `run` or for `perform`. In the latter the main
goroutine performs the models it was asked for in a loop; the watcher and its
callback are the same, since `scheduler.init()` registers the callback whatever
the command. So `OneAtATime` has an exception: a `perform` whose config file is
edited starts a scheduler, whose jobs run beside it.

### Workspace (with WorkspaceProofs, MCWorkspace)

The directories of one process whose runs follow one another. `file` is the
`workdir` of the config file, `read` what viper has read, `override` what
`viper.Set` has put over it; `useTemp` is `useTempWorkDir`. Loads go through the
steps of `loadConfig` (`ReadConfig`, `ClearUseTemp`, `PickWorkdir`, `LoadModels`)
and `Restart`, while a run goes on: it may be at any of its steps when the
watcher loads, and is waited for in `Restart`. Directories are compared by
identity: the n-th load's temporary workdir, and below a workdir a directory per
load and model (`UnixNano`). `disk` holds what matters in them: the dumps, the
tar of the included files, and an archive that a storage has put there. `cwd` is
the working directory of the process: where it was started, a workspace, or
`Gone` once that has been removed.

| action | code |
|---|---|
| `Dump` | `database/base.go` makes the dump's directory below the workspace |
| `ArchiveFiles` | `archive.Run`; relative includes are `Found` in the first directory only |
| `Pack` | `compressor.Run`: `os.Chdir`, then tar over what is there |
| `Store` | `Local.upload` to its `Target`; other storages do not depend on directories |
| `After` | `Model.after`: the workspace, or all of the temporary workdir |
| `ConcurrentMapAccess` | the runtime ends the process: viper's maps are written and read at once |

### DaemonStatus (with DaemonStatusProofs, MCDaemonStatus)

`SendDaemonStatus` beside a supervisor that starts and stops processes between
two of its questions. `status` is `statusMap`: entries by group for processes
found, by id for lookups that failed. `AskAll` is the one question about all and
`GroupNext` a turn of the loop over its answer, in any order; `AskNext` is a
question about one id with what the loop then does. `Updated` is `updateDaemonGroupStatus`,
`Grade` the final loop, `Outcomes` and `Notify` what `Webhook.Notify` makes of the
request (a request that cannot be sent is a nil error). `answers` and `shot` are
history.

### Backends (with BackendsProofs, MCBackends)

One storage of any of the eight types under the runs of models that share it.
For each type there is an operator for `open` (what it requires and the
connections it leaves), `upload` (what it returns and what is then under the name,
given what was there) and `delete`. Files are written as the data comes (local,
ftp, scp, sftp, webdav) or made at the end (s3, gcs, azure); gcs refuses to
replace an object. Names are the seconds of the clock, without the model, as in
`archiveFilePath`. `Answers` blocks a call on a stalled server, and `Timeout` and
`DeleteTimeout` are the calls that have a deadline. The cycler's file is read and
saved without failure here: that is module `Cycler`'s subject.

## 4. The runs

| Run | Instance | Shows |
|---|---|---|
| `cycler_one` | 1 process, keep 1 or 2, 5 runs, fair | `NoSilentOrphan`, `StorageBounded`, `EveryUploadSettles` |
| `cycler_two` | 2 processes, keep 0, 1 or 2, 4 runs | `OwnArchiveSafe`, `NewestKept`, `ImplementsRetention` |
| `database` | 2 databases of 115 configs: all scripts and on_exit, all types, complete and refused, passwords, modes of redis; `.env` may be loaded at any time | `NilMeansDumped`, `HooksPaired`, `FailureStopsRun`, `PasswordIsLatest` |
| `perform` | 2 databases of 7 configurations, 1 or 2 storages of 3 kinds, fair | `StoredIsComplete`, `NoticeIsTrue`, `EveryStorageTried`, `EventuallyNotified` |
| `perform_panic` | the same | **violated**: `FinishedMeansStored` |
| `scheduler` | `run` and `perform`, 2 models and the pulse, 2 edits, the first of which breaks a cron, fair | `OneAtATime`, `OneScheduler`, `ScheduleIsConfig`, `EveryJobRuns`, `ReloadCompletes` |
| `scheduler_early` | the same, 1 edit at any time | **violated**: `ScheduleIsConfig` |
| `workspace` | 1 model, 2 workdirs or none, 3 loads, 3 runs | `FinishedIsComplete`, `KeptUnlessReloaded`, `NamedWorkdirStays`, `CleansUp`, `WorkdirIsConfigs` |
| `workspace_reload` | the same | **violated**: `FinishedIsKept` |
| `status` | 3 processes in 2 groups, up to 3 of 4 ids, 3 moments | `AllIsASnapshot`, `HighestUptime`, `EveryIdIsReported` |
| `status_lookup` | the same | **violated**: `FailedIsNotRunning` |
| `backends` | 8 types, 3 sets of options, 2 models, keep 1, 3 runs in 3 seconds, fair | `TrackedIsWhole`, `NothingForgotten`, `NoConnectionLeft`, `StalledServerIsLeft` |

Each module's `TypeOK` is checked by its first run.

**Why these bounds.** Rotation with keep 2 needs three runs; with five, a crash or
a failure can fall before, into and after the first rotation, and keep can go up
and down. Two processes and four runs let one prune from a list that is two runs
old. keep 0 is left out of `cycler_one` because nothing bounds a storage with
it. With two databases one can fail before or after the other was dumped, and one
may find the password of the other, of `.env`, or of a run before;
with one and two storages both paths of `storage.Run` are taken. Two edits
let the second arrive while the first is being dealt with; the cron that the first
breaks is good before and after, so that a model leaves the schedule and comes
back. One waiting firing of
a job stands for several; the file and its edits are versions with any subset of
the models enabled. Three loads let a workdir be given, withdrawn and given again;
three runs let one run before, across and after a reload. One model is enough
there, as two models' directories never meet but through the temporary workdir, which
two loads of one model share as well. Three ids let a group be found, then
fail, then be found again. Three runs with keep 1 delete twice, with two runs or all
three in the same second, and of one model or two.

**Fairness.** `cycler_one`: each step of a run is a call that returns, with a
result or an error; a run that has begun is not left half way for ever (a crash is a step).
`perform`: the same for the steps of a run; a kill is not forced. `scheduler`:
both goroutines are scheduled; a job ends (nothing in the code ensures it: the
webhook's client has no timeout, listed as a hazard); and `sync.Mutex` does not
pass over a waiter for ever (Go's starvation mode), which is strong fairness of
`Lock` for each model. Timers and edits are not fair. `backends`: a call that
can return does (the server answers and goes on answering), and a deadline
passes; a server may stall for ever.

**What the violations show.**

- `perform_panic`: `recover()` in `Perform` drops the panic and leaves `err` nil;
  the webhook hears "finished". The shortest way there is a hook script without a
  word in it, which `runHook` indexes. A storage whose type has no implementation, a
  negative `keep`, and ftp and s3 in `open` are other ways. `NoticeIsTrue` holds of the runs without a panic.
- `scheduler_early`: an edit during main's `Start` makes two `Start`s share the
  global; the scheduler that runs in the end does not have the jobs of the config.
  `ScheduleIsConfig` holds if edits come after `Start`.
- `workspace_reload`: a run leaves the process in a directory that is then
  removed. A reload after it takes `os.Getwd()` for the base of relative paths and drops
  its error; the local storage then copies the archive into the workspace of the
  run, which is removed at the end. The run is notified as finished.
  `KeptUnlessReloaded` says where this does not happen.
- `status_lookup`: an entry for a failed lookup has no processes, all of which
  run.

**What the tests say.** `rpc/rpc_test.go` does not compile (it assigns to plain
functions, as at line 66), so nothing holds it to the code. Where it states a
result, it departs from it twice. Lines 51-52 expect of the highest uptime, as
`HighestUptime` does, the number 7034, but no process of the test has it: the
highest is 7000. Lines 101-113 expect `SendDaemonStatus` to return an error after
a failed lookup; the code enters the lookup in the report as an error
(`EveryIdIsReported`) and returns what sending the report comes to.

**Exceptions the properties name.** Where the code does something a reader may not
expect, without any line of the repository saying otherwise, the property that
holds states it as an exception: a config refused by `init()` leaves its
`before_script` without its `after_script` (`HooksPaired`); a database of a type
that is not implemented is skipped with a warning, and the archive without it is
stored and reported as finished (`NilMeansDumped`, `StoredIsComplete`,
`NoticeIsTrue`); a PostgreSQL without a password is dumped with that of the last
one before it that has one, or with what the process had (`PasswordIsLatest`); a
model whose cron does not parse is logged and never scheduled
(`ScheduleIsConfig`); relative includes
are missing from the second run on where tar is GNU tar (`FinishedIsComplete`);
a named workdir taken away and given back leaves files in the workspace
(`CleansUp`); a name shared by two runs, or an error on closing a remote
file of sftp, breaks the history (`TrackedIsWhole`); sftp never closes the ssh
connection (`NoConnectionLeft`); without a deadline a run may hang
(`StalledServerIsLeft`); an id can hide a group (`EveryIdIsReported`).

What `cycler_one` does not say of two processes: there, the later of two saves
overwrites the earlier, and an archive may be in the storage and in no history
without any failure. That is no promise of the code; it is listed as a hazard.

## 5. The proofs

Every invariant that a passing run checks is also proved, for every value of the
constants that satisfies the module's named assumptions: any processes, keeps,
databases, configs, storages, models, workdirs, ids, and any number of runs,
loads and edits.

| Module | Theorem | States | Assumes besides |
|---|---|---|---|
| `CyclerProofs` | `TypeCorrect`, `NewestAreKept` | `TypeOK`, `NewestKept` | |
| | `OwnArchiveStays` | `OwnArchiveSafe` | no negative keep |
| | `CyclerImplementsRetention` | `ImplementsRetention` | no negative keep |
| `CyclerOneProofs` | `NothingIsOrphaned` | `NoSilentOrphan` | one process |
| | `StorageIsBounded` | `StorageBounded` | one process, no negative keep |
| `DatabaseProofs` | `TypeCorrect`, `NilIsTrue`, `HooksGoInPairs`, `FirstFailureIsLast`, `PasswordsFollowOrder` | `TypeOK`, `NilMeansDumped`, `HooksPaired`, `FailureStopsRun`, `PasswordIsLatest` | |
| `PerformProofs` | `TypeCorrect`, `OnlyCompleteIsStored`, `NoticeTellsTheTruth`, `StoragesAreTried` | `TypeOK`, `StoredIsComplete`, `NoticeIsTrue`, `EveryStorageTried` | |
| | `RunImplementsDatabase` | `Spec => Database!Spec` | |
| `SchedulerProofs` | `TypeCorrect` | `TypeOK` | |
| | `OneSchedulerRuns`, `BackupsExclude`, `ScheduleFollowsConfig` | `OneScheduler`, `OneAtATime`, `ScheduleIsConfig` | `~EarlyChange` |
| `WorkspaceProofs` | `TypeCorrect`, `ArchiveIsComplete`, `ArchiveIsKept`, `UsersFilesStay`, `WorkspaceIsRemoved`, `JobsAreOfLastLoad` | `TypeOK`, `FinishedIsComplete`, `KeptUnlessReloaded`, `NamedWorkdirStays`, `CleansUp`, `WorkdirIsConfigs` | |
| `BackendsProofs` | `TypeCorrect`, `HistoryCanBeRestored`, `StorageIsListed`, `ConnectionsAreClosed` | `TypeOK`, `TrackedIsWhole`, `NothingForgotten`, `NoConnectionLeft` | |
| `DaemonStatusProofs` | `TypeCorrect`, `ReportOnAllIsASnapshot`, `UptimeIsTheHighest`, `IdsAreReported` | `TypeOK`, `AllIsASnapshot`, `HighestUptime`, `EveryIdIsReported` | |

Each module but `CyclerOneProofs`, which builds on `CyclerProofs`, has its
inductive invariant `IInv` and a theorem `Invariance`; each proof that a step
keeps it has a step per action. TLC checked every `IInv` as an invariant of the
component's run before it was proved.

*Assumptions on the constants.* Finite sets of storages, models and supervisor
processes (a config file and a process table are finite); bounds that are
natural numbers, at least one load and one moment (the program loads its config
before anything else, and a clock shows some time); special values that
differ from all others (`Nobody`, `NoObject`, `None`, `Pulse`, the two texts of the
history file that are not lists). `~EarlyChange` says that the config file is
not edited before main's `Start` has returned. It is needed: with an edit at that time TLC
finds each of the three properties violated (`scheduler_early` for the
last). One process is needed as well, as the hazard of two saves shows. A
negative keep has to be excluded (in `Backends` by an assumption of the module): with
it a run deletes its own archive and panics.

**Arguments.**

*Cycler.* `NewestKept` is not inductive: it does not say what a list read
from the file may contain. `IInv` adds that every list, in the file and in every
run, is `Ranked`: each key in it was added to the history, and keys further
back were added later, by at least their distance in the list. A run only appends
a key that has just been added and only takes keys from the front, so the
property survives whatever snapshot of the file the run works on, a save that
overwrites another run's, and a truncation. If a list of more than `keep` keys is
ranked, at least `keep` keys have been added after its head, which is what
deleting the head needs (`RankedHead`). Besides, `IInv` says that runs have
different keys (`DistinctKeys`) and that a key is in nobody else's list before
its run has saved it (`OwnKeyPrivate`). With keep not negative a run's own key
stays the last of its list (`OwnKeyLast`), and this gives `OwnArchiveSafe` and the
refinement: what is deleted is in the history, behind `keep` others.

*Cycler, one process.* `Known` says at each place of a run where the
archives of the storage are listed: in the file, in the run's `packages` once
they are loaded, or in `lost`. `Short` says that no list that was saved, or is
about to be, is longer than a keep. Both fail with two processes, whose lists
are read before the other's save.

*Database.* The loop touches a database in one stretch. Before it nothing has
been done with the database (`Waiting`); during it `dpc` tells how far hooks and
dump have come (`AtCurrent`); after it all is settled, unless `Run` has returned
(`Past`). No tool is called for a type that is not implemented (`KnownOnly`). For
the passwords, `EnvIsLatest` says what the environment holds at any moment: from its
`Setenv` on the password of the current database, if it has one, and else that of
the last database called that brought one, or, without any, what the process had
from elsewhere. `InOrder` keeps the history of the calls in order, and a load of
`.env` changes nothing once a password is there.

*Perform.* Its steps are steps of module `Database` or leave that stage's
variables alone (`RunImplementsDatabase`), so `DatabaseProofs` is instantiated
and its invariant holds within a run. A stage is only entered when those before
it have succeeded (`Stages`); the loop of `storage.Run` has an error collected
exactly if it has left a storage behind without the archive (`Loop`); so `err`
means what the notice says (`Outcome`). Before the storages only one stage hides an
error: when the compressor's has been dropped for that of `os.Stat`, `Stages` has
to say that the path is empty or the archive whole. `Source` then carries to the
end what every stage has come to.

*Scheduler.* Without an early edit one goroutine at a time is between the `Stop` of
a scheduler and the `StartAsync` of the next (`OneInStart`). This rests on
counting the calls of `Start` (`StartsCounted`): one, and one for each edit. Then
nothing is in flight while a scheduler is made (`Handover`); the jobs in flight are
of the global scheduler, and these share a mutex (`OwnMutex`), which is why two
backups exclude each other although each `Start` makes a mutex of its own.
`Registered` is the loop of `Start`: what is registered and what is left to
register make up the loaded config, without the crons that do not parse.

*Workspace.* viper's override is set once, to a temporary workdir, and never
taken back (`OneTemp`), so each config is below a workdir the file has named or
below that one; `useTempWorkDir` is only set when the override is, and so the
directory that `after` removes as a whole is not the user's. Nothing runs before
the first load is through (`FirstLoad`): as long as it is the only one, the
configs hold the directory the process was started in. `Progress` says what of a
run's files is on disk at each step, and then in its archive.

*Backends.* What a history, or the list of the run under way, names and no
rotation has tried to delete is whole in the storage (`AllWhole`). That needs one more
fact on gcs, where a name that is taken is refused: a name rotated away
is of a second gone by, and is never given again (`Apart`). An object is stored under
the name of its run and listed by its model's history, which still names it while the
run's list is rotated in case the process dies (`Known`). `Counted` gives the
number of open connections at each place of a run.

*DaemonStatus.* While the answer on all is grouped, each entry lists exactly the
members of its group that have been dealt with, once each, with their states at the time of the
question (`Snapshot`); no process was started in the future
(`Started`), so no uptime is negative and the highest starts from zero (`Highest`). An
answer on an id is in its group's entry until a failed lookup of the group's own
name takes its place (`AllAccounted`).

**What the proofs changed in the models.** In `Workspace`, a workdir counted as
removed as a whole when all its possible workspaces were; with a
single load and model a run that removes its own workspace met that. It now
counts if something of no load in it would be removed (`Foreign`). `Target` had overlapping
cases, of which TLC took the first; they are now disjoint. In
`Workspace` `MaxLoads` must be positive and in `Backends` `NoObject` must not be an
archive; both were tacit. In `DaemonStatus` the loop over the answer on all was one
step with a recursive operator; it is now an action per process (`GroupNext`).

**Only model-checked.** Liveness: `EveryUploadSettles`, `EventuallyNotified`,
`EveryJobRuns`, `ReloadCompletes`, `StalledServerIsLeft`; liveness under fairness
and `ENABLED` are out of TLAPS's reach. The four properties expected to be violated
are refuted by TLC's counterexamples.

## 6. Not modelled

- The command lines of the dumps, of tar and of the uploads, and the layout of
  messages and logs: they change no state of the agent.
- Packages of several files: `fileKeys` is always empty, as the compressor makes
  single files; the branches for it in the storages and the cycler are dead.
- The authentications `newSSHClientConfig` offers to a server: `open` succeeds
  or fails with them.
- Durations: `timeout` is a number above zero or not. `GetDuration("timeout") *
  time.Second` (ftp, scp, sftp) overflows for values such as "30s", and
  `GetInt` makes 0, no deadline, of them (s3, gcs, azure).
- A relative `workdir`: the paths below it would mean another place after each
  `os.Chdir`. `Dirs` are absolute.
- Of the `.env` file all but `PGPASSWORD` (`LoadDotEnv` of `Database`):
  `godotenv.Load` does not replace what is set, so that a reload does not see its
  changes.
- The figures of `psutil`; the `pulse` command, a single call.
- The signal handlers of `main.go`: they are registered with go-daemon but
  `ServeSignals` is never called, so no signal reaches them. The fork and the pid
  file of `start` are go-daemon's.
- `list` and `download` of the backends: nothing calls them.
- `logger`: output only, but for `Fatal`, which is the end of the process in the
  modules.
