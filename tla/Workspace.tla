------------------------------ MODULE Workspace ------------------------------
(***************************************************************************)
(* Directories: where a run puts its files, and what it removes.           *)
(*                                                                         *)
(* Each load of the config gives every model a directory of its own below  *)
(* the workdir (config/config.go).  A run makes it, fills it, changes the  *)
(* process's working directory to it (compressor/base.go), stores the      *)
(* archive from it (storage/local.go) and removes it (model/model.go).     *)
(* Which workdir is in force is asked of viper, whose overrides survive a  *)
(* reload, both when the config is loaded and when a run cleans up.        *)
(*                                                                         *)
(* One process, whose runs follow one another: module Scheduler shows that *)
(* the daemon's do, and "perform" calls them in a loop.                    *)
(***************************************************************************)
EXTENDS Integers, FiniteSets

CONSTANTS
  Models,     \* the models of the config
  Dirs,       \* the values "workdir" may have in the config file, absolute
  None,       \* no workdir in the file; no override in viper
  Start,      \* the directory the process was started in
  Gone,       \* a working directory that has been removed
  MaxLoads,   \* bound: how often the config is loaded
  MaxRuns     \* bound: how many runs there are

ASSUME BoundsAssumption == MaxLoads \in Nat \ {0} /\ MaxRuns \in Nat
ASSUME DirsAssumption ==
  Dirs \cap Nat = {} /\ None \notin Dirs \cup Nat /\ Start # Gone

(* The temporary workdir made by the n-th load is written n.               *)
Temps == 1 .. MaxLoads
Roots == Dirs \cup Temps

(* ModelConfig.TempPath: workdir, load and model.  UnixNano is taken to    *)
(* tell loads and models apart.                                            *)
Workspaces == Roots \X (1 .. MaxLoads) \X Models
RootOf(w)  == w[1]

(* What a run leaves in its workspace: the dumps, the files of "archive",  *)
(* and an archive that the storage has put there.                          *)
Items == {"dump", "files", "stored"}

(* ModelConfig.TempPath and ModelConfig.WorkDir.                           *)
Configs == [temp : Workspaces, home : {Start, Gone} \cup Workspaces]

VARIABLES
  file,      \* "workdir" in the config file
  read,      \* "workdir" as viper has read it
  override,  \* the workdir that viper.Set has put over it
  useTemp,   \* useTempWorkDir
  loads,     \* how many loads there were
  wpc,       \* where loadConfig and the Restart after it are
  models,    \* config.Models
  jobs,      \* the configs the scheduler runs
  cwd,       \* the working directory of the process
  disk,      \* what there is in the workspaces
  pc,        \* where the run is
  conf,      \* the config of the run
  made,      \* what the archive of the run holds
  place,     \* where the storage has put it: the user's directory (Start),
             \* or a workspace
  notice,    \* how the last run ended: "none", "finished" or "failed"
  runs,      \* how many runs there were
  rel,       \* which paths of the config are relative
  gnu,       \* helper.IsGnuTar
  wiped,     \* history: workdirs removed as a whole
  stuck,     \* history: a removal has failed
  loaded     \* history: the last load has got as far as the models

viper   == <<read, override, useTemp>>
config  == <<file, viper, loads, wpc, models, jobs>>
run     == <<pc, conf, made, place, notice, runs>>
setting == <<rel, gnu>>
history == <<wiped, stuck, loaded>>
vars    == <<config, cwd, disk, run, setting, history>>

NoConf == [temp |-> None, home |-> Gone]

Init ==
  /\ file \in Dirs \cup {None}
  /\ read = None
  /\ override = None
  /\ useTemp = FALSE
  /\ loads = 0
  /\ wpc = "read"
  /\ models = {}
  /\ jobs = {}
  /\ cwd = Start
  /\ disk = {}
  /\ pc = "idle"
  /\ conf = NoConf
  /\ made = {}
  /\ place = Start
  /\ notice = "none"
  /\ runs = 0
  /\ rel \in SUBSET {"includes", "storage"}
  /\ gnu \in BOOLEAN
  /\ wiped = {}
  /\ stuck = FALSE
  /\ loaded = FALSE

-----------------------------------------------------------------------------
(* loadConfig: at the start by the main goroutine, later by the watcher    *)

(* Mutant: viper.SetDefault for viper.Set, what the file says comes first. *)
WorkdirAsDefault == IF read # None THEN read ELSE override

(* viper.GetString("workdir"). *)
Workdir == IF override # None THEN override ELSE read

EditFile ==
  /\ wpc = "idle"
  /\ loads < MaxLoads
  /\ pc # "dead"
  /\ file' \in Dirs \cup {None}
  /\ wpc' = "read"
  /\ loaded' = FALSE
  /\ UNCHANGED <<viper, loads, models, jobs, cwd, disk, run, setting, wiped, stuck>>

(* A file that cannot be read, before or after its variables are expanded, *)
(* ends the load; Restart follows all the same, but in main, which then    *)
(* exits.                                                                  *)
ReadConfig ==
  /\ wpc = "read"
  /\ pc # "dead"
  /\ loads' = loads + 1
  /\ \/ read' = file /\ wpc' = "clear"
     \/ loads > 0 /\ read' \in {read, file, None} /\ wpc' = "restart"
  /\ UNCHANGED <<file, override, useTemp, models, jobs, cwd, disk, run, setting, history>>

ClearUseTemp ==
  /\ wpc = "clear"
  /\ pc # "dead"
  /\ useTemp' = FALSE
  /\ wpc' = "workdir"
  /\ UNCHANGED <<file, read, override, loads, models, jobs, cwd, disk, run, setting, history>>

(* Mutant: the error of os.MkdirTemp is dropped. *)
PickWorkdirUnchecked ==
  /\ wpc = "workdir"
  /\ pc # "dead"
  /\ IF Workdir # None
       THEN UNCHANGED <<override, useTemp>>
       ELSE override' \in {loads, None} /\ useTemp' = TRUE
  /\ wpc' = "models"
  /\ UNCHANGED <<file, read, loads, models, jobs, cwd, disk, run, setting, history>>

(* Without a workdir a temporary one takes its place, for good.  Making it *)
(* may fail.                                                               *)
PickWorkdir ==
  /\ wpc = "workdir"
  /\ pc # "dead"
  /\ IF Workdir # None
       THEN wpc' = "models" /\ UNCHANGED <<override, useTemp>>
       ELSE \/ /\ override' = loads
               /\ useTemp' = TRUE
               /\ wpc' = "models"
            \/ loads > 1 /\ wpc' = "restart" /\ UNCHANGED <<override, useTemp>>
  /\ UNCHANGED <<file, read, loads, models, jobs, cwd, disk, run, setting, history>>

(* os.Getwd fails in a directory that has been removed, and its error is   *)
(* dropped.  A model in error ends the load with those before it; the      *)
(* daemon does not start on such a config.                                 *)
LoadModels ==
  /\ wpc = "models"
  /\ pc # "dead"
  /\ LET Config(m) == [temp |-> <<Workdir, loads, m>>, home |-> cwd] IN
       \E ms \in SUBSET Models :
         /\ loads = 1 => ms = Models
         /\ models' = {Config(m) : m \in ms}
  /\ wpc' = "restart"
  /\ loaded' = TRUE
  /\ UNCHANGED <<file, viper, loads, jobs, cwd, disk, run, setting, wiped, stuck>>

(* Mutant: the jobs keep the config they were registered with. *)
RestartKeepsJobs ==
  /\ wpc = "restart"
  /\ pc = "idle"
  /\ jobs' = IF jobs = {} THEN models ELSE jobs
  /\ wpc' = "idle"
  /\ UNCHANGED <<file, viper, loads, models, cwd, disk, run, setting, history>>

(* scheduler.Restart waits for the jobs it has fired (module Scheduler),   *)
(* which may be begun until then with the config they were fired with.     *)
Restart ==
  /\ wpc = "restart"
  /\ pc = "idle"
  /\ jobs' = models
  /\ wpc' = "idle"
  /\ UNCHANGED <<file, viper, loads, models, cwd, disk, run, setting, history>>

-----------------------------------------------------------------------------
(* A run *)

Begin ==
  /\ pc = "idle"
  /\ runs < MaxRuns
  /\ conf' \in jobs
  /\ runs' = runs + 1
  /\ made' = {}
  /\ place' = Start
  /\ notice' = "none"
  /\ pc' = "dump"
  /\ UNCHANGED <<config, cwd, disk, setting, history>>

(* A stage returns an error: the deferred functions are next. *)
Fail == pc' = "after" /\ notice' = "failed"

Dump ==
  /\ pc = "dump"
  /\ \/ disk' = disk \cup {<<conf.temp, "dump">>} /\ pc' = "archive" /\ UNCHANGED notice
     \/ Fail /\ UNCHANGED disk
  /\ UNCHANGED <<config, cwd, conf, made, place, runs, setting, history>>

(* Relative includes are looked up in the process's working directory.     *)
Found == "includes" \notin rel \/ cwd = Start

(* tar over "includes".  GNU tar, called with --ignore-failed-read, makes  *)
(* an archive without the files it does not find and succeeds; another tar *)
(* fails.                                                                  *)
ArchiveFiles ==
  /\ pc = "archive"
  /\ LET tar == <<conf.temp, "files">> IN
       \/ /\ Found \/ gnu
          /\ disk' = IF Found THEN disk \cup {tar} ELSE disk \ {tar}
          /\ pc' = "pack"
          /\ UNCHANGED notice
       \/ Fail /\ UNCHANGED disk
  /\ UNCHANGED <<config, cwd, conf, made, place, runs, setting, history>>

Contents(w) == {i \in {"dump", "files"} : <<w, i>> \in disk}

(* Mutant: no os.Chdir before tar, which is given a relative name. *)
PackWithoutChdir ==
  /\ pc = "pack"
  /\ \/ made' = (IF cwd = conf.temp THEN Contents(conf.temp) ELSE {})
        /\ pc' = "store" /\ UNCHANGED notice
     \/ Fail /\ UNCHANGED made
  /\ UNCHANGED <<config, cwd, disk, conf, place, runs, setting, history>>

(* compressor.Run makes the directory if need be, changes to it, and packs *)
(* what it finds there.  Either may fail.                                  *)
Pack ==
  /\ pc = "pack"
  /\ \/ made' = Contents(conf.temp) /\ pc' = "store" /\ UNCHANGED notice
     \/ Fail /\ UNCHANGED made
  /\ cwd' \in {conf.temp} \cup (IF pc' = "after" THEN {cwd} ELSE {})
  /\ UNCHANGED <<config, disk, conf, place, runs, setting, history>>

(* Mutant: s.path is left as it is, relative to the working directory. *)
TargetInCwd == IF "storage" \in rel THEN cwd ELSE Start

(* Local.upload: a relative path is taken from WorkDir, and if that is not *)
(* known, from the working directory, which is the run's workspace then.   *)
Target ==
  CASE "storage" \notin rel                    -> Start
    [] "storage" \in rel /\ conf.home = Gone  -> cwd
    [] "storage" \in rel /\ conf.home # Gone  -> conf.home

Store ==
  /\ pc = "store"
  /\ \/ /\ place' = Target
        /\ disk' = IF Target = Start THEN disk ELSE disk \cup {<<Target, "stored">>}
        /\ notice' = "finished"
        /\ pc' = "after"
     \/ Fail /\ UNCHANGED <<place, disk>>
  /\ UNCHANGED <<config, cwd, conf, made, runs, setting, history>>

(* Mutant: the whole workdir is removed, whoever has made it. *)
CleanedWithWorkdir(w) == RootOf(w) = Workdir

(* Model.after removes the workspace of the run or, if a temporary workdir *)
(* is in use when it looks, all of that.                                   *)
Cleaned(w) == IF useTemp THEN RootOf(w) = Workdir ELSE w = conf.temp

(* What else there may be in a workdir, of no load: the user's files. *)
Foreign(r) == <<r, 0, conf.temp[3]>>

After ==
  /\ pc = "after"
  /\ \/ /\ disk' = {e \in disk : ~Cleaned(e[1])}
        /\ cwd' = IF cwd \in Workspaces /\ Cleaned(cwd) THEN Gone ELSE cwd
        /\ wiped' = wiped \cup {r \in Roots : Cleaned(Foreign(r))}
        /\ UNCHANGED stuck
     \/ stuck' = TRUE /\ UNCHANGED <<disk, cwd, wiped>>
  /\ pc' = "idle"
  /\ UNCHANGED <<config, conf, made, place, notice, runs, setting, loaded>>

(* viper's maps have no lock: Set in loadConfig and GetBool in after at    *)
(* once make the Go runtime end the process.                               *)
ConcurrentMapAccess ==
  /\ pc = "after"
  /\ wpc \in {"clear", "workdir"}
  /\ pc' = "dead"
  /\ UNCHANGED <<config, cwd, disk, conf, made, place, notice, runs, setting, history>>

(* Nothing to do within the bounds. *)
Rest ==
  /\ pc = "dead" \/ (pc = "idle" /\ wpc = "idle")
  /\ UNCHANGED vars

Next ==
  \/ EditFile \/ ReadConfig \/ ClearUseTemp \/ PickWorkdir \/ LoadModels \/ Restart
  \/ Begin \/ Dump \/ ArchiveFiles \/ Pack \/ Store \/ After
  \/ ConcurrentMapAccess
  \/ Rest

Spec == Init /\ [][Next]_vars

-----------------------------------------------------------------------------
(* Correctness *)

TypeOK ==
  /\ {file, read} \subseteq Dirs \cup {None}
  /\ override \in Temps \cup {None}
  /\ {useTemp, gnu, stuck, loaded} \subseteq BOOLEAN
  /\ loads \in 0 .. MaxLoads
  /\ wpc \in {"idle", "read", "clear", "workdir", "models", "restart"}
  /\ models \subseteq Configs
  /\ jobs \subseteq Configs
  /\ cwd \in {Start, Gone} \cup Workspaces
  /\ disk \subseteq Workspaces \X Items
  /\ pc \in {"idle", "dump", "archive", "pack", "store", "after", "dead"}
  /\ conf \in Configs \cup {NoConf}
  /\ made \subseteq {"dump", "files"}
  /\ place \in {Start} \cup Workspaces
  /\ notice \in {"none", "finished", "failed"}
  /\ runs \in 0 .. MaxRuns
  /\ rel \subseteq {"includes", "storage"}
  /\ wiped \subseteq Roots

Finished == pc = "idle" /\ notice = "finished"

(* A finished run has archived its own dumps and the included files,       *)
(* whatever was loaded, removed or entered since the config was read.  The *)
(* exception the code makes: relative includes, once a run has moved the   *)
(* process out of the directory it was started in.                         *)
FinishedIsComplete ==
  Finished =>
    /\ "dump" \in made
    /\ "files" \in made \/ ("includes" \in rel /\ runs > 1)

(* The archive of a finished run outlives the cleanup of the run.          *)
FinishedIsKept == Finished => place = Start \/ <<place, "stored">> \in disk

(* The same where it holds: with an absolute path, or as long as the       *)
(* config has not been loaded again.                                       *)
KeptUnlessReloaded == FinishedIsKept \/ ("storage" \in rel /\ loads > 1)

(* No cleanup removes a workdir the user has named: only temporary ones go *)
(* as a whole, however loads and cleanups interleave.                      *)
NamedWorkdirStays == wiped \cap Dirs = {}

(* A run leaves nothing in its workspace.  The exception the code makes: a *)
(* load during the life of the process found no workdir, and the temporary *)
(* one it made is removed instead.                                         *)
CleansUp ==
  pc = "idle" /\ notice # "none" /\ ~stuck =>
    \/ \A e \in disk : e[1] # conf.temp
    \/ RootOf(conf.temp) \in Dirs /\ override # None

(* Once a load that has come to the models is dealt with, every job works  *)
(* in a directory of that load, below the workdir of the file or below the *)
(* temporary one of the first load that found none: there is never a       *)
(* second one, and no job keeps the config of an older load.               *)
WorkdirIsConfigs ==
  wpc = "idle" /\ loaded =>
    \A c \in jobs : c.temp[2] = loads /\ RootOf(c.temp) \in {file, override}
=============================================================================
