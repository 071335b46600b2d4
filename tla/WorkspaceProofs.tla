--------------------------- MODULE WorkspaceProofs ---------------------------
(***************************************************************************)
(* Proofs about module Workspace, for any workdirs and models and any      *)
(* number of loads and runs.                                               *)
(*                                                                         *)
(* The argument.  viper's override is set once, to a temporary workdir,    *)
(* and never taken back (OneTemp), so every config ever loaded is below a  *)
(* workdir the file has named or below that one.  Nothing runs before the  *)
(* first load is through (Starting): as long as it is the only one, the    *)
(* configs hold the directory the process was started in.  A run has its   *)
(* dumps and files on disk, then in its archive (Progress).                *)
(***************************************************************************)
EXTENDS Workspace, TLAPS

Reading == {"clear", "workdir", "models"}

Running == {"dump", "archive", "pack", "store", "after"}

(* A load goes by the file it has read, and comes to the models with a     *)
(* workdir.                                                                *)
Load ==
  /\ wpc = "read" => loads < MaxLoads
  /\ wpc # "read" => loads > 0
  /\ wpc \in Reading => read = file
  /\ wpc \in Reading \cup {"read"} => ~loaded
  /\ wpc = "models" => Workdir # None

(* The one temporary workdir is the override, whoever uses it. *)
OneTemp ==
  /\ useTemp => override # None
  /\ \A c \in models \cup jobs : RootOf(c.temp) \in Dirs \cup {override}
  /\ runs > 0 => RootOf(conf.temp) \in Dirs \cup {override}

(* The main goroutine loads the config before it starts the scheduler. *)
Starting == loads = 0 \/ (loads = 1 /\ wpc \in Reading \cup {"restart"})

FirstLoad ==
  /\ Starting => jobs = {} /\ pc = "idle" /\ runs = 0 /\ cwd = Start
  /\ loads <= 1 => \A c \in models \cup jobs : c.home = Start
  /\ loads <= 1 /\ runs > 0 => conf.home = Start

(* The models and the jobs, once they are registered, are of the last load. *)
Latest ==
  /\ wpc = "restart" /\ loaded =>
       \A c \in models : c.temp[2] = loads /\ RootOf(c.temp) \in {file, override}
  /\ WorkdirIsConfigs

(* The first run is in the directory the process was started in until it   *)
(* packs.                                                                  *)
Moved ==
  /\ pc \in Running => runs > 0
  /\ runs > 0 => conf \in Configs
  /\ cwd # Start => runs > 0
  /\ cwd # Start /\ pc \in {"dump", "archive", "pack"} => runs > 1
  /\ pc = "store" => cwd = conf.temp

Lacking == "includes" \in rel /\ runs > 1

(* What the run has so far. *)
Progress ==
  /\ pc \in {"archive", "pack"} => <<conf.temp, "dump">> \in disk
  /\ pc = "pack" => <<conf.temp, "files">> \in disk \/ Lacking
  /\ pc = "store" \/ (pc = "after" /\ notice = "finished") =>
       "dump" \in made /\ ("files" \in made \/ Lacking)
  /\ FinishedIsComplete

(* Where the archive has been put. *)
Placed ==
  notice = "finished" => place = Start \/ ("storage" \in rel /\ loads > 1)

IInv ==
  /\ TypeOK /\ Load /\ OneTemp /\ FirstLoad /\ Latest /\ Moved /\ Progress /\ Placed
  /\ NamedWorkdirStays /\ CleansUp

-----------------------------------------------------------------------------
(* Every step keeps every part of the invariant *)

(* The process has read nothing and run nothing.                           *)
LEMMA InitInv == Init => IInv
<1> SUFFICES ASSUME Init PROVE IInv
  OBVIOUS
<1> USE BoundsAssumption, DirsAssumption
<1>1. TypeOK
  <2>1. /\ {file, read} \subseteq Dirs \cup {None}
        /\ override \in Temps \cup {None} /\ conf \in Configs \cup {NoConf}
        /\ loads \in 0 .. MaxLoads /\ runs \in 0 .. MaxRuns
    BY DEF Init
  <2>2. {useTemp, gnu, stuck, loaded} \subseteq BOOLEAN
    BY DEF Init
  <2>3. /\ models \subseteq Configs /\ jobs \subseteq Configs
        /\ disk \subseteq Workspaces \X Items /\ wiped \subseteq Roots
        /\ made \subseteq {"dump", "files"} /\ rel \subseteq {"includes", "storage"}
    BY DEF Init
  <2> QED
    BY <2>2 DEF Init, TypeOK
<1>2. Load /\ OneTemp /\ FirstLoad /\ Latest
  BY DEF Init, Load, OneTemp, FirstLoad, Latest, WorkdirIsConfigs, Reading
<1>3. Moved /\ Progress /\ Placed
  BY DEF Init, Moved, Progress, Placed, Running, FinishedIsComplete, Finished
<1>4. NamedWorkdirStays /\ CleansUp
  BY DEF Init, NamedWorkdirStays, CleansUp
<1> QED
  BY <1>1, <1>2, <1>3, <1>4 DEF IInv

(* Every step keeps the variables in their sets. *)
LEMMA TypeStep ==
  ASSUME TypeOK, Load, Moved, [Next]_vars
  PROVE  TypeOK'
<1> USE BoundsAssumption, DirsAssumption
<1>1. CASE EditFile
   BY <1>1 DEF EditFile, TypeOK, Load, Moved, Reading, Running, Workdir, vars,
     config, viper, run, setting, history
<1>2. CASE ReadConfig
   BY <1>2 DEF ReadConfig, TypeOK, Load, run, setting, history
<1>3. CASE ClearUseTemp
   BY <1>3 DEF ClearUseTemp, TypeOK, Reading, Running, vars, config, viper,
     run, setting, history
<1>4. CASE PickWorkdir
  <2>1. override' \in Temps \cup {None}
    BY <1>4 DEF PickWorkdir, TypeOK, Load, Temps
  <2>2. useTemp' \in BOOLEAN
    BY <1>4 DEF PickWorkdir, TypeOK
  <2>3. wpc' \in {"models", "restart"}
    BY <1>4 DEF PickWorkdir
  <2> QED
     BY <1>4, <2>1, <2>2 DEF PickWorkdir, TypeOK, run, setting, history
<1>5. CASE LoadModels
  <2>1. /\ Workdir \in Roots /\ loads \in 1 .. MaxLoads
        /\ cwd \in {Start, Gone} \cup Workspaces
    BY <1>5 DEF LoadModels, TypeOK, Load, Workdir, Roots
  <2>2. \A m \in Models : [temp |-> <<Workdir, loads, m>>, home |-> cwd] \in Configs
    BY <2>1 DEF Configs, Workspaces
  <2>3. models' \subseteq Configs
    BY <1>5, <2>2 DEF LoadModels
  <2> QED
     BY <1>5, <2>3 DEF LoadModels, TypeOK, viper, run, setting
<1>6. CASE Restart
   BY <1>6 DEF Restart, TypeOK, viper, run, setting, history
<1>7. CASE Begin
   BY <1>7 DEF Begin, TypeOK, config, viper, setting, history
<1>8. CASE Dump
  <2>1. conf \in Configs /\ conf.temp \in Workspaces
    BY <1>8 DEF Dump, Moved, Running, Configs
  <2>2. disk' \subseteq Workspaces \X Items
    BY <1>8, <2>1 DEF Dump, TypeOK, Items
  <2> QED
     BY <1>8, <2>2 DEF Dump, Fail, TypeOK, config, viper, setting, history
<1>9. CASE ArchiveFiles
  <2>1. conf \in Configs /\ conf.temp \in Workspaces
    BY <1>9 DEF ArchiveFiles, Moved, Running, Configs
  <2>2. disk' \subseteq Workspaces \X Items
    BY <1>9, <2>1 DEF ArchiveFiles, TypeOK, Items
  <2> QED
     BY <1>9, <2>2 DEF ArchiveFiles, Fail, TypeOK, config, viper, setting,
       history
<1>10. CASE Pack
  <2>1. conf \in Configs /\ conf.temp \in Workspaces
    BY <1>10 DEF Pack, Moved, Running, Configs
  <2>2. cwd' \in {Start, Gone} \cup Workspaces
    BY <1>10, <2>1 DEF Pack, TypeOK
  <2>3. made' \subseteq {"dump", "files"}
    BY <1>10 DEF Pack, Contents, TypeOK
  <2> QED
     BY <1>10, <2>2, <2>3 DEF Pack, Fail, TypeOK, config, viper, setting,
       history
<1>11. CASE Store
  <2>1. conf \in Configs /\ conf.temp \in Workspaces /\ cwd = conf.temp
    BY <1>11 DEF Store, Moved, Running, Configs
  <2>2. conf.home \in {Start, Gone} \cup Workspaces
    BY <2>1 DEF Configs
  <2>3. Target \in {Start} \cup Workspaces
    BY <2>1, <2>2 DEF Target
  <2>4. disk' \subseteq Workspaces \X Items
    BY <1>11, <2>3 DEF Store, TypeOK, Items
  <2> QED
     BY <1>11, <2>3, <2>4 DEF Store, Fail, TypeOK, config, viper, setting,
       history
<1>12. CASE After
  BY <1>12 DEF After, TypeOK, config, viper, setting
<1>13. CASE ConcurrentMapAccess
   BY <1>13 DEF ConcurrentMapAccess, TypeOK, config, viper, setting, history
<1>14. CASE UNCHANGED vars
   BY <1>14 DEF TypeOK, vars, config, viper, run, setting, history
<1> QED
   BY <1>1, <1>2, <1>3, <1>4, <1>5, <1>6, <1>7, <1>8, <1>9, <1>10, <1>11,
     <1>12, <1>13, <1>14 DEF Next, Rest

(* viper is read, its flag cleared and its workdir picked in this order.   *)
LEMMA LoadInvStep ==
  ASSUME TypeOK, Load, [Next]_vars
  PROVE  Load'
<1> USE BoundsAssumption, DirsAssumption
<1>1. CASE EditFile
   BY <1>1 DEF EditFile, Load, Reading
<1>2. CASE ReadConfig
   BY <1>2 DEF ReadConfig, TypeOK, Load, Reading, history
<1>3. CASE ClearUseTemp
   BY <1>3 DEF ClearUseTemp, Load, Reading, history
<1>4. CASE PickWorkdir
   BY <1>4 DEF PickWorkdir, TypeOK, Load, Reading, Workdir, history
<1>5. CASE LoadModels
   BY <1>5 DEF LoadModels, Load, Reading
<1>6. CASE Restart
   BY <1>6 DEF Restart, Load, Reading
<1>7. CASE Begin
   BY <1>7 DEF Begin, Load, Workdir, config, viper, history
<1>8. CASE Dump
   BY <1>8 DEF Dump, Load, Workdir, config, viper, history
<1>9. CASE ArchiveFiles
   BY <1>9 DEF ArchiveFiles, Load, Workdir, config, viper, history
<1>10. CASE Pack
   BY <1>10 DEF Pack, Load, Workdir, config, viper, history
<1>11. CASE Store
   BY <1>11 DEF Store, Load, Workdir, config, viper, history
<1>12. CASE After
   BY <1>12 DEF After, Load, Workdir, config, viper
<1>13. CASE ConcurrentMapAccess
   BY <1>13 DEF ConcurrentMapAccess, Load, config, viper, history
<1>14. CASE UNCHANGED vars
   BY <1>14 DEF Load, Workdir, vars, config, viper, history
<1> QED
   BY <1>1, <1>2, <1>3, <1>4, <1>5, <1>6, <1>7, <1>8, <1>9, <1>10, <1>11,
     <1>12, <1>13, <1>14 DEF Next, Rest

(* The override is set when there is none, and then stays.                *)
LEMMA OneTempStep ==
  ASSUME TypeOK, Load, OneTemp, Moved, FirstLoad, [Next]_vars
  PROVE  OneTemp'
<1> USE BoundsAssumption, DirsAssumption
<1>1. CASE EditFile
  BY <1>1 DEF EditFile, OneTemp, viper, run
<1>2. CASE ReadConfig
  BY <1>2 DEF ReadConfig, OneTemp, run
<1>3. CASE ClearUseTemp
   BY <1>3 DEF ClearUseTemp, OneTemp, run
<1>4. CASE PickWorkdir
  <2>1. override # None => override' = override
    BY <1>4 DEF PickWorkdir, Workdir
  <2>2. useTemp' => override' # None
    <3>1. CASE Workdir # None
      BY <1>4, <3>1 DEF PickWorkdir, OneTemp
    <3>2. CASE Workdir = None
      <4>1. loads # None
        BY DEF TypeOK
      <4>2. override' = loads \/ UNCHANGED <<override, useTemp>>
        BY <1>4 DEF PickWorkdir
      <4> QED
        BY <4>1, <4>2 DEF OneTemp
    <3> QED
      BY <3>1, <3>2
  <2>3. UNCHANGED <<models, jobs, conf>>
    BY <1>4 DEF PickWorkdir, run
  <2>4. ASSUME NEW c \in Configs, RootOf(c.temp) \in Dirs \cup {override}
        PROVE  RootOf(c.temp) \in Dirs \cup {override'}
    <3>1. RootOf(c.temp) # None
      BY DEF Configs, Workspaces, RootOf, Roots, Temps
    <3> QED
      BY <3>1, <2>1, <2>4
  <2> QED
     BY <2>4, <1>4 DEF OneTemp, TypeOK, Moved, PickWorkdir, run
<1>5. CASE LoadModels
  <2>1. Workdir \in Dirs \cup {override}
    BY DEF TypeOK, Workdir
  <2>2. \A c \in models' : RootOf(c.temp) = Workdir
    BY <1>5 DEF LoadModels, RootOf
  <2> QED
     BY <1>5, <2>1, <2>2 DEF LoadModels, OneTemp, viper, run
<1>6. CASE Restart
  BY <1>6 DEF Restart, OneTemp, viper, run
<1>7. CASE Begin
  BY <1>7 DEF Begin, OneTemp, config, viper
<1>8. CASE Dump
  BY <1>8 DEF Dump, OneTemp, config, viper
<1>9. CASE ArchiveFiles
   BY <1>9 DEF ArchiveFiles, OneTemp, config, viper
<1>10. CASE Pack
   BY <1>10 DEF Pack, OneTemp, config, viper
<1>11. CASE Store
   BY <1>11 DEF Store, OneTemp, config, viper
<1>12. CASE After
   BY <1>12 DEF After, OneTemp, config, viper
<1>13. CASE ConcurrentMapAccess
   BY <1>13 DEF ConcurrentMapAccess, OneTemp, config, viper
<1>14. CASE UNCHANGED vars
  BY <1>14 DEF OneTemp, vars, config, viper, run
<1> QED
   BY <1>1, <1>2, <1>3, <1>4, <1>5, <1>6, <1>7, <1>8, <1>9, <1>10, <1>11,
     <1>12, <1>13, <1>14 DEF Next, Rest

(* Nothing moves the process before the first load is through.             *)
LEMMA FirstLoadStep ==
  ASSUME TypeOK, Load, FirstLoad, Moved, [Next]_vars
  PROVE  FirstLoad'
<1> USE BoundsAssumption, DirsAssumption
<1>1. CASE EditFile
   BY <1>1 DEF EditFile, FirstLoad, Starting, Reading, run
<1>2. CASE ReadConfig
   BY <1>2 DEF ReadConfig, FirstLoad, Starting, TypeOK, run
<1>3. CASE ClearUseTemp
   BY <1>3 DEF ClearUseTemp, FirstLoad, Starting, Reading, run
<1>4. CASE PickWorkdir
   BY <1>4 DEF PickWorkdir, FirstLoad, Starting, Reading, run
<1>5. CASE LoadModels
  <2>1. loads <= 1 => Starting
    BY <1>5 DEF LoadModels, Starting, TypeOK, Reading
  <2>2. \A c \in models' : c.home = cwd
    BY <1>5 DEF LoadModels
  <2>3. loads <= 1 => \A c \in models' : c.home = Start
    BY <2>1, <2>2 DEF FirstLoad
  <2> QED
     BY <1>5, <2>1 DEF LoadModels, FirstLoad, Starting, run
<1>6. CASE Restart
   BY <1>6 DEF Restart, FirstLoad, Starting, Load, Reading, run
<1>7. CASE Begin
   BY <1>7 DEF Begin, FirstLoad, Starting, config
<1>8. CASE Dump
   BY <1>8 DEF Dump, FirstLoad, Starting, config
<1>9. CASE ArchiveFiles
   BY <1>9 DEF ArchiveFiles, FirstLoad, Starting, config
<1>10. CASE Pack
   BY <1>10 DEF Pack, FirstLoad, Starting, config
<1>11. CASE Store
   BY <1>11 DEF Store, FirstLoad, Starting, config
<1>12. CASE After
   BY <1>12 DEF After, FirstLoad, Starting, config
<1>13. CASE ConcurrentMapAccess
   BY <1>13 DEF ConcurrentMapAccess, FirstLoad, Starting, config
<1>14. CASE UNCHANGED vars
   BY <1>14 DEF FirstLoad, Starting, vars, config, run
<1> QED
   BY <1>1, <1>2, <1>3, <1>4, <1>5, <1>6, <1>7, <1>8, <1>9, <1>10, <1>11,
     <1>12, <1>13, <1>14 DEF Next, Rest

(* What a load has put in config.Models, Restart gives to the jobs.        *)
LEMMA LatestStep ==
  ASSUME TypeOK, Load, Latest, [Next]_vars
  PROVE  Latest'
<1> USE BoundsAssumption, DirsAssumption
<1>1. CASE EditFile
   BY <1>1 DEF EditFile, Latest, WorkdirIsConfigs
<1>2. CASE ReadConfig
   BY <1>2 DEF ReadConfig, Latest, WorkdirIsConfigs, Load, history
<1>3. CASE ClearUseTemp
   BY <1>3 DEF ClearUseTemp, Latest, WorkdirIsConfigs
<1>4. CASE PickWorkdir
   BY <1>4 DEF PickWorkdir, Latest, WorkdirIsConfigs, Load, Reading, history
<1>5. CASE LoadModels
  <2>1. Workdir \in {file, override}
    BY <1>5 DEF LoadModels, Load, Workdir, Reading
  <2>2. \A c \in models' : c.temp[2] = loads /\ RootOf(c.temp) = Workdir
    BY <1>5 DEF LoadModels, RootOf
  <2> QED
     BY <1>5, <2>1, <2>2 DEF LoadModels, Latest, WorkdirIsConfigs, viper
<1>6. CASE Restart
   BY <1>6 DEF Restart, Latest, WorkdirIsConfigs, viper, history
<1>7. CASE Begin
   BY <1>7 DEF Begin, Latest, WorkdirIsConfigs, config, viper, history
<1>8. CASE Dump
   BY <1>8 DEF Dump, Latest, WorkdirIsConfigs, config, viper, history
<1>9. CASE ArchiveFiles
   BY <1>9 DEF ArchiveFiles, Latest, WorkdirIsConfigs, config, viper, history
<1>10. CASE Pack
   BY <1>10 DEF Pack, Latest, WorkdirIsConfigs, config, viper, history
<1>11. CASE Store
   BY <1>11 DEF Store, Latest, WorkdirIsConfigs, config, viper, history
<1>12. CASE After
   BY <1>12 DEF After, Latest, WorkdirIsConfigs, config, viper
<1>13. CASE ConcurrentMapAccess
   BY <1>13 DEF ConcurrentMapAccess, Latest, WorkdirIsConfigs, config
<1>14. CASE UNCHANGED vars
   BY <1>14 DEF Latest, WorkdirIsConfigs, vars, config, viper, history
<1> QED
   BY <1>1, <1>2, <1>3, <1>4, <1>5, <1>6, <1>7, <1>8, <1>9, <1>10, <1>11,
     <1>12, <1>13, <1>14 DEF Next, Rest

(* It takes a run to change the working directory, and it does it last.    *)
LEMMA MovedStep ==
  ASSUME TypeOK, FirstLoad, Moved, [Next]_vars
  PROVE  Moved'
<1> USE BoundsAssumption, DirsAssumption
<1>1. CASE EditFile
   BY <1>1 DEF EditFile, Moved, run
<1>2. CASE ReadConfig
   BY <1>2 DEF ReadConfig, Moved, run
<1>3. CASE ClearUseTemp
   BY <1>3 DEF ClearUseTemp, Moved, run
<1>4. CASE PickWorkdir
   BY <1>4 DEF PickWorkdir, Moved, run
<1>5. CASE LoadModels
   BY <1>5 DEF LoadModels, Moved, run
<1>6. CASE Restart
   BY <1>6 DEF Restart, Moved, run
<1>7. CASE Begin
   BY <1>7 DEF Begin, Moved, TypeOK
<1>8. CASE Dump
   BY <1>8 DEF Dump, Fail, Moved, Running
<1>9. CASE ArchiveFiles
   BY <1>9 DEF ArchiveFiles, Fail, Moved, Running
<1>10. CASE Pack
   BY <1>10 DEF Pack, Fail, Moved, Running
<1>11. CASE Store
   BY <1>11 DEF Store, Fail, Moved, Running
<1>12. CASE After
   BY <1>12 DEF After, Moved, Running
<1>13. CASE ConcurrentMapAccess
   BY <1>13 DEF ConcurrentMapAccess, Moved, Running
<1>14. CASE UNCHANGED vars
   BY <1>14 DEF Moved, vars, run
<1> QED
   BY <1>1, <1>2, <1>3, <1>4, <1>5, <1>6, <1>7, <1>8, <1>9, <1>10, <1>11,
     <1>12, <1>13, <1>14 DEF Next, Rest

(* Nothing but a run's own cleanup takes from its workspace what it needs. *)
LEMMA ProgressStep ==
  ASSUME TypeOK, Moved, Progress, [Next]_vars
  PROVE  Progress'
<1> USE BoundsAssumption, DirsAssumption
<1>1. CASE EditFile
   BY <1>1 DEF EditFile, Progress, Lacking, FinishedIsComplete, Finished, run,
     setting
<1>2. CASE ReadConfig
   BY <1>2 DEF ReadConfig, Progress, Lacking, FinishedIsComplete, Finished,
     run, setting
<1>3. CASE ClearUseTemp
   BY <1>3 DEF ClearUseTemp, Progress, Lacking, FinishedIsComplete, Finished,
     run, setting
<1>4. CASE PickWorkdir
   BY <1>4 DEF PickWorkdir, Progress, Lacking, FinishedIsComplete, Finished,
     run, setting
<1>5. CASE LoadModels
   BY <1>5 DEF LoadModels, Progress, Lacking, FinishedIsComplete, Finished,
     run, setting
<1>6. CASE Restart
   BY <1>6 DEF Restart, Progress, FinishedIsComplete, Finished, run, setting
<1>7. CASE Begin
   BY <1>7 DEF Begin, Progress, FinishedIsComplete, Finished
<1>8. CASE Dump
   BY <1>8 DEF Dump, Fail, Progress, FinishedIsComplete, Finished
<1>9. CASE ArchiveFiles
  <2>1. Found \/ Lacking
    BY <1>9 DEF ArchiveFiles, Moved, Found, Lacking
  <2>2. <<conf.temp, "dump">> \in disk'  /\ (pc' = "pack" => <<conf.temp, "files">> \in disk' \/ Lacking)
    BY <1>9, <2>1 DEF ArchiveFiles, Fail, Progress
  <2> QED
     BY <1>9, <2>2 DEF ArchiveFiles, Fail, Progress, FinishedIsComplete,
       Finished, Lacking, setting
<1>10. CASE Pack
   BY <1>10 DEF Pack, Fail, Contents, Progress, Lacking, FinishedIsComplete,
     Finished, setting
<1>11. CASE Store
   BY <1>11 DEF Store, Fail, Progress, Lacking, FinishedIsComplete, setting
<1>12. CASE After
   BY <1>12 DEF After, Progress, Lacking, FinishedIsComplete, Finished,
     setting
<1>13. CASE ConcurrentMapAccess
   BY <1>13 DEF ConcurrentMapAccess, Progress, FinishedIsComplete, Finished
<1>14. CASE UNCHANGED vars
   BY <1>14 DEF Progress, Lacking, FinishedIsComplete, Finished, vars, run,
     setting
<1> QED
   BY <1>1, <1>2, <1>3, <1>4, <1>5, <1>6, <1>7, <1>8, <1>9, <1>10, <1>11,
     <1>12, <1>13, <1>14 DEF Next, Rest

(* Local.upload takes a relative path from WorkDir.                        *)
LEMMA PlacedStep ==
  ASSUME TypeOK, FirstLoad, Moved, Placed, [Next]_vars
  PROVE  Placed'
<1> USE BoundsAssumption, DirsAssumption
<1>1. CASE EditFile
   BY <1>1 DEF EditFile, Placed, run, setting
<1>2. CASE ReadConfig
   BY <1>2 DEF ReadConfig, Placed, TypeOK, run, setting
<1>3. CASE ClearUseTemp
   BY <1>3 DEF ClearUseTemp, Placed, run, setting
<1>4. CASE PickWorkdir
   BY <1>4 DEF PickWorkdir, Placed, run, setting
<1>5. CASE LoadModels
   BY <1>5 DEF LoadModels, Placed, run, setting
<1>6. CASE Restart
   BY <1>6 DEF Restart, Placed, run, setting
<1>7. CASE Begin
   BY <1>7 DEF Begin, Placed
<1>8. CASE Dump
   BY <1>8 DEF Dump, Fail, Placed, config, setting
<1>9. CASE ArchiveFiles
   BY <1>9 DEF ArchiveFiles, Fail, Placed, config, setting
<1>10. CASE Pack
   BY <1>10 DEF Pack, Fail, Placed, config, setting
<1>11. CASE Store
  <2>1. runs > 0
    BY <1>11 DEF Store, Moved, Running
  <2>2. loads <= 1 => conf.home = Start
    BY <2>1 DEF FirstLoad
  <2>3. Target = Start \/ ("storage" \in rel /\ loads > 1)
    BY <2>2 DEF Target, TypeOK
  <2> QED
     BY <1>11, <2>3 DEF Store, Fail, Placed, config, setting
<1>12. CASE After
   BY <1>12 DEF After, Placed, config, setting
<1>13. CASE ConcurrentMapAccess
   BY <1>13 DEF ConcurrentMapAccess, Placed, config, setting
<1>14. CASE UNCHANGED vars
   BY <1>14 DEF Placed, vars, config, run, setting
<1> QED
   BY <1>1, <1>2, <1>3, <1>4, <1>5, <1>6, <1>7, <1>8, <1>9, <1>10, <1>11,
     <1>12, <1>13, <1>14 DEF Next, Rest

(* os.RemoveAll is given the workdir only if that is the temporary one.    *)
LEMMA WipedStep ==
  ASSUME TypeOK, OneTemp, Moved, NamedWorkdirStays, [Next]_vars
  PROVE  NamedWorkdirStays'
<1> USE BoundsAssumption, DirsAssumption
<1>1. CASE EditFile
   BY <1>1 DEF EditFile, NamedWorkdirStays
<1>2. CASE ReadConfig
   BY <1>2 DEF ReadConfig, NamedWorkdirStays, history
<1>3. CASE ClearUseTemp
   BY <1>3 DEF ClearUseTemp, NamedWorkdirStays, history
<1>4. CASE PickWorkdir
   BY <1>4 DEF PickWorkdir, NamedWorkdirStays, history
<1>5. CASE LoadModels
   BY <1>5 DEF LoadModels, NamedWorkdirStays
<1>6. CASE Restart
   BY <1>6 DEF Restart, NamedWorkdirStays, history
<1>7. CASE Begin
   BY <1>7 DEF Begin, NamedWorkdirStays, history
<1>8. CASE Dump
   BY <1>8 DEF Dump, NamedWorkdirStays, history
<1>9. CASE ArchiveFiles
   BY <1>9 DEF ArchiveFiles, NamedWorkdirStays, history
<1>10. CASE Pack
   BY <1>10 DEF Pack, NamedWorkdirStays, history
<1>11. CASE Store
   BY <1>11 DEF Store, NamedWorkdirStays, history
<1>12. CASE After
  <2>1. ASSUME NEW r \in Roots, Cleaned(Foreign(r)) PROVE r \notin Dirs
    <3>1. CASE useTemp
       BY <2>1, <3>1 DEF Cleaned, Foreign, RootOf, Workdir, OneTemp, TypeOK,
         Temps
    <3>2. CASE ~useTemp
      <4>1. conf.temp \in Workspaces
        BY <1>12 DEF After, Moved, Running, Configs
      <4>2. conf.temp[2] # 0
        BY <4>1 DEF Workspaces
      <4> QED
        BY <2>1, <3>2, <4>2 DEF Cleaned, Foreign
    <3> QED
      BY <3>1, <3>2
  <2> QED
    BY <1>12, <2>1 DEF After, NamedWorkdirStays
<1>13. CASE ConcurrentMapAccess
   BY <1>13 DEF ConcurrentMapAccess, NamedWorkdirStays, history
<1>14. CASE UNCHANGED vars
  BY <1>14 DEF NamedWorkdirStays, vars, history
<1> QED
   BY <1>1, <1>2, <1>3, <1>4, <1>5, <1>6, <1>7, <1>8, <1>9, <1>10, <1>11,
     <1>12, <1>13, <1>14 DEF Next, Rest

(* What is left of a workspace is left because a workdir was removed in    *)
(* its place.                                                              *)
LEMMA CleansUpStep ==
  ASSUME TypeOK, OneTemp, Moved, CleansUp, [Next]_vars
  PROVE  CleansUp'
<1> USE BoundsAssumption, DirsAssumption
<1>1. CASE EditFile
   BY <1>1 DEF EditFile, CleansUp, viper, run
<1>2. CASE ReadConfig
   BY <1>2 DEF ReadConfig, CleansUp, run, history
<1>3. CASE ClearUseTemp
   BY <1>3 DEF ClearUseTemp, CleansUp, run, history
<1>4. CASE PickWorkdir
  <2>1. override # None => override' # None
    BY <1>4 DEF PickWorkdir, Workdir
  <2> QED
     BY <1>4, <2>1 DEF PickWorkdir, CleansUp, run, history
<1>5. CASE LoadModels
   BY <1>5 DEF LoadModels, CleansUp, viper, run
<1>6. CASE Restart
   BY <1>6 DEF Restart, CleansUp, viper, run, history
<1>7. CASE Begin
   BY <1>7 DEF Begin, CleansUp
<1>8. CASE Dump
   BY <1>8 DEF Dump, Fail, CleansUp
<1>9. CASE ArchiveFiles
   BY <1>9 DEF ArchiveFiles, Fail, CleansUp
<1>10. CASE Pack
   BY <1>10 DEF Pack, Fail, CleansUp
<1>11. CASE Store
   BY <1>11 DEF Store, Fail, CleansUp
<1>12. CASE After
  <2>1. runs > 0
    BY <1>12 DEF After, Moved, Running
  <2>2. RootOf(conf.temp) \in Dirs \cup {override}
    BY <2>1 DEF OneTemp
  <2>3. Cleaned(conf.temp) \/ (RootOf(conf.temp) \in Dirs /\ override # None)
    BY <2>2 DEF Cleaned, Workdir, OneTemp
  <2> QED
     BY <1>12, <2>3 DEF After, CleansUp, config, viper
<1>13. CASE ConcurrentMapAccess
   BY <1>13 DEF ConcurrentMapAccess, CleansUp
<1>14. CASE UNCHANGED vars
  BY <1>14 DEF CleansUp, vars, config, viper, run, history
<1> QED
   BY <1>1, <1>2, <1>3, <1>4, <1>5, <1>6, <1>7, <1>8, <1>9, <1>10, <1>11,
     <1>12, <1>13, <1>14 DEF Next, Rest

-----------------------------------------------------------------------------
(* The theorems *)

(* The inductive invariant holds of every load and run.                    *)
THEOREM Invariance == Spec => []IInv
<1>1. ASSUME IInv, [Next]_vars PROVE IInv'
  <2>1. TypeOK' /\ Load' /\ OneTemp'
    BY <1>1, TypeStep, LoadInvStep, OneTempStep DEF IInv
  <2>2. FirstLoad' /\ Latest' /\ Moved'
    BY <1>1, FirstLoadStep, LatestStep, MovedStep DEF IInv
  <2>3. Progress' /\ Placed'
    BY <1>1, ProgressStep, PlacedStep DEF IInv
  <2>4. NamedWorkdirStays' /\ CleansUp'
    BY <1>1, WipedStep, CleansUpStep DEF IInv
  <2> QED
    BY <2>1, <2>2, <2>3, <2>4 DEF IInv
<1> QED
  BY <1>1, InitInv, PTL DEF Spec

(* Every variable stays in its set: a config always has a workdir, and a   *)
(* storage is only ever given one of a run that has entered its workspace. *)
THEOREM TypeCorrect == Spec => []TypeOK
<1>1. IInv => TypeOK
  BY DEF IInv
<1> QED
  BY <1>1, Invariance, PTL

(* A run that ends well has archived its dumps and, but for relative       *)
(* includes after the first run, its files, whatever loads came between    *)
(* its stages.                                                             *)
THEOREM ArchiveIsComplete == Spec => []FinishedIsComplete
<1>1. IInv => FinishedIsComplete
  BY DEF IInv, Progress
<1> QED
  BY <1>1, Invariance, PTL

(* As long as the config is loaded once, or with an absolute path, no      *)
(* cleanup takes the archive away: Local.upload has put it elsewhere.      *)
THEOREM ArchiveIsKept == Spec => []KeptUnlessReloaded
<1>1. IInv => KeptUnlessReloaded
  BY DEF IInv, Placed, KeptUnlessReloaded, FinishedIsKept, Finished
<1> QED
  BY <1>1, Invariance, PTL

(* However loads and cleanups interleave, after() removes as a whole only  *)
(* the workdir that loadConfig has made, never one named in the file.      *)
THEOREM UsersFilesStay == Spec => []NamedWorkdirStays
<1>1. IInv => NamedWorkdirStays
  BY DEF IInv
<1> QED
  BY <1>1, Invariance, PTL

(* after() leaves a workspace only by removing the temporary workdir       *)
(* instead, or when a removal fails.                                       *)
THEOREM WorkspaceIsRemoved == Spec => []CleansUp
<1>1. IInv => CleansUp
  BY DEF IInv
<1> QED
  BY <1>1, Invariance, PTL

(* After a load that came to the models and its Restart, every job works   *)
(* below the workdir of the file or the only temporary one.                *)
THEOREM JobsAreOfLastLoad == Spec => []WorkdirIsConfigs
<1>1. IInv => WorkdirIsConfigs
  BY DEF IInv, Latest
<1> QED
  BY <1>1, Invariance, PTL
=============================================================================
