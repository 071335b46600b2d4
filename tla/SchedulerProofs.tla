--------------------------- MODULE SchedulerProofs ---------------------------
(***************************************************************************)
(* Proofs about module Scheduler, for any finite set of models and any     *)
(* number of edits of the config file.                                     *)
(*                                                                         *)
(* The argument.  As long as the file is not edited before the main        *)
(* goroutine's Start has returned, one goroutine at a time is between the  *)
(* Stop of a scheduler and the StartAsync of the next (OneInStart), and    *)
(* nothing is in flight then (Handover).  So the global scheduler is the   *)
(* one its registrations are meant for, all jobs in flight are of it, and  *)
(* these lock one mutex.                                                   *)
(***************************************************************************)
EXTENDS Scheduler, FiniteSetTheorems, TLAPS

InFlightNow == waiting \cup working

(* Each goroutine is at a step of its own code, main in that of the        *)
(* command; the process ends for both.  Main performs models, not the      *)
(* pulse.                                                                  *)
Located ==
  /\ pc["main"] \in {"start", "register", "select", "perform", "dead"}
  /\ pc["watcher"] \in {"idle", "stop", "drain", "start", "register", "dead"}
  /\ pc["main"] = "dead" <=> pc["watcher"] = "dead"
  /\ pc["main"] \in {"start", "register", "select"} => command = "run"
  /\ pc["main"] = "perform" => command = "perform" /\ plan["main"] \subseteq Models
  /\ mine # {} => pc["main"] = "perform"

One(b) == IF b THEN 1 ELSE 0

(* Start is called once by main and then at most once for an edit.         *)
StartsCounted ==
  starts + One(pc["main"] = "start")
         + One(pc["watcher"] \in {"stop", "drain", "start"}) + One(event)
    <= disk.ver + 1

(* Who registers a job has made a scheduler, and no job has a number that  *)
(* the next call of Start will use.                                        *)
Numbered ==
  /\ mycron <= starts
  /\ \A t \in Threads : me[t] <= starts
  /\ \A t \in Threads : pc[t] = "register" => me[t] # 0 /\ mycron # 0
  /\ \A j \in jobs : j.cron <= starts

(* In command "perform" it takes an edit for a scheduler to be started.    *)
EditedFirst ==
  /\ event \/ pc["watcher"] \notin {"idle", "dead"} => disk.ver > 0
  /\ command = "perform" /\ jobs # {} => disk.ver > 0

(* What was loaded is the file, once the watcher has seen the last edit.   *)
LoadedIsDisk == ~event /\ ~broken => loaded = disk

BaseInv ==
  TypeOK /\ Located /\ StartsCounted /\ Numbered /\ EditedFirst /\ LoadedIsDisk

(* While main is in Start the watcher has nothing to do. *)
OneInStart ==
  pc["main"] \in {"start", "register"} => pc["watcher"] = "idle" /\ ~event

(* Only the global scheduler runs, everything in flight was fired by it,   *)
(* and it has been stopped and waited for before the next is made.         *)
Handover ==
  /\ running \subseteq {mycron}
  /\ \A j \in InFlightNow : j.cron = mycron
  /\ InFlightNow # {} => running = {mycron} \/ pc["watcher"] = "drain"
  /\ pc["watcher"] = "drain" => running = {}
  /\ \A t \in Threads : pc[t] \in {"start", "register"} => running = {}

(* A scheduler and the mutex of its jobs are of one call of Start. *)
OwnMutex ==
  /\ \A t \in Threads : pc[t] = "register" => me[t] = mycron
  /\ \A j \in jobs : j.mu = j.cron

OneBackup == \A j, k \in working : j.of # Pulse /\ k.of # Pulse => j = k

JobOf(m) == [cron |-> mycron, of |-> m, ver |-> loaded.ver, mu |-> mycron]

Current == {j \in jobs : j.cron = mycron}

(* The global scheduler has the jobs of the loaded config, but for those   *)
(* that cannot be registered and those the Start in progress has still to. *)
Registered ==
  /\ \A t \in Threads : pc[t] = "register" =>
       /\ ver[t] = loaded.ver
       /\ plan[t] \subseteq loaded.on
       /\ Current = {JobOf(m) : m \in Due(loaded) \ plan[t]}
  /\ pc["main"] = "select" /\ pc["watcher"] = "idle" =>
       /\ running = {mycron}
       /\ Current = {JobOf(m) : m \in Due(loaded)}

IInv == BaseInv /\ OneInStart /\ Handover /\ OwnMutex /\ OneBackup /\ Registered

-----------------------------------------------------------------------------
(* The steps *)

(* The watcher loads the config, or fails to. *)
Load == LoadConfig \/ LoadConfigFails

(* Main goes on to the next of the models it performs. *)
PerformStep == PerformNext \/ PerformReturns

JobStep(j) == Fire(j) \/ FirePulse(j) \/ Lock(j) \/ Finish(j)

(* Every step is one of twelve kinds: whatever ends the process, be it     *)
(* main, a load that panics or the pulse, does it alike.                   *)
LEMMA StepKinds ==
  ASSUME [Next]_vars
  PROVE  \/ FileChanges \/ PerformStep \/ Exit \/ Load \/ Stop \/ Drained
         \/ \E t \in Threads : Create(t) \/ Register(t) \/ RegisterFails(t) \/ StartAsync(t)
         \/ \E j \in jobs : JobStep(j)
         \/ UNCHANGED vars
<1>1. CASE MainStep
  BY <1>1 DEF MainStep, ThreadStep, PerformStep, PerformEnds, Threads
<1>2. CASE WatcherStep
  BY <1>2 DEF WatcherStep, ThreadStep, Load, LoadConfigPanics, Threads
<1>3. ASSUME NEW j \in jobs,
             Fire(j) \/ FirePulse(j) \/ Lock(j) \/ Finish(j) \/ PulseFatal(j)
      PROVE  JobStep(j) \/ Exit
  BY <1>3 DEF JobStep, PulseFatal
<1> QED
  BY <1>1, <1>2, <1>3 DEF Next, Rest

(* What a job does concerns the jobs in flight alone.                      *)
LEMMA JobEffect ==
  ASSUME NEW j \in jobs, JobStep(j)
  PROVE  /\ UNCHANGED <<cli, config, threads, running, jobs>>
         /\ \A k \in InFlightNow' : k \in InFlightNow \/ (k = j /\ j.cron \in running)
  BY DEF JobStep, Fire, FirePulse, Lock, Finish, InFlightNow

-----------------------------------------------------------------------------
(* What holds however early the file is edited *)

(* A config is a version and the jobs it enables.                          *)
LEMMA ConfigIsRecord ==
  AllConfigs = [ver : 0 .. MaxChanges, on : SUBSET (Models \cup {Pulse})]
<1> DEFINE R == [ver : 0 .. MaxChanges, on : SUBSET (Models \cup {Pulse})]
<1>1. ASSUME NEW c \in AllConfigs PROVE c \in R
  BY DEF AllConfigs, ConfigsOf
<1>2. ASSUME NEW c \in R PROVE c \in AllConfigs
  <2>1. c \in ConfigsOf(c.ver) /\ c.ver \in 0 .. MaxChanges
    BY DEF ConfigsOf
  <2> QED
    BY <2>1 DEF AllConfigs
<1> QED
  BY <1>1, <1>2

(* Main has loaded the config and nothing else has happened.               *)
LEMMA InitBase == Init => BaseInv
<1> SUFFICES ASSUME Init PROVE BaseInv
  OBVIOUS
<1> USE SchedulerAssumption
<1>1. /\ pc \in [Threads -> {"idle", "start", "perform"}]
      /\ pc["watcher"] = "idle"
      /\ pc["main"] = IF command = "run" THEN "start" ELSE "perform"
  BY DEF Init, Threads
<1>2. plan \in [Threads -> SUBSET (Models \cup {Pulse})]
  BY DEF Init
<1>3. disk \in AllConfigs /\ disk.ver = 0
  BY DEF Init, AllConfigs, ConfigsOf
<1>4. TypeOK
  <2>1. loaded \in AllConfigs /\ event \in BOOLEAN /\ broken \in BOOLEAN
    BY <1>3 DEF Init
  <2>2. /\ ver \in [Threads -> 0 .. MaxChanges]
        /\ me \in [Threads -> {0} \cup Starts]
        /\ starts \in {0} \cup Starts /\ mycron \in {0} \cup Starts
    BY DEF Init
  <2>3. /\ running = {} /\ jobs = {} /\ waiting = {} /\ working = {} /\ mine = {}
        /\ command \in {"run", "perform"}
    BY DEF Init
  <2> QED
    BY <1>1, <1>2, <1>3, <2>1, <2>2, <2>3 DEF TypeOK
<1>5. Located /\ StartsCounted /\ Numbered /\ EditedFirst /\ LoadedIsDisk
  BY <1>3 DEF Init, Located, StartsCounted, One, Numbered, EditedFirst,
    LoadedIsDisk, Threads
<1> QED
  BY <1>4, <1>5 DEF BaseInv

(* No step takes a goroutine where its code does not go.                   *)
LEMMA LocatedStep == BaseInv /\ [Next]_vars => Located'
<1> SUFFICES ASSUME BaseInv, [Next]_vars PROVE Located'
  OBVIOUS
<1>1. ASSUME FileChanges PROVE Located'
  BY <1>1 DEF FileChanges, cli, threads, BaseInv, Located
<1>2. ASSUME NEW t \in Threads, Create(t) PROVE Located'
  BY <1>2 DEF Create, Goto, cli, BaseInv, Located
<1>3. ASSUME NEW t \in Threads, Register(t) \/ RegisterFails(t) PROVE Located'
  <2>1. CASE Register(t)
    BY <2>1 DEF Register, cli, BaseInv, Located
  <2>2. CASE RegisterFails(t)
    BY <2>2 DEF RegisterFails, cronVars, cli, BaseInv, Located
  <2> QED
    BY <1>3, <2>1, <2>2
<1>4. ASSUME NEW t \in Threads, StartAsync(t) PROVE Located'
  BY <1>4 DEF StartAsync, Goto, cli, BaseInv, Located
<1>5. ASSUME PerformStep PROVE Located'
  BY <1>5 DEF PerformStep, PerformNext, PerformReturns, threads, BaseInv,
    TypeOK, Located
<1>6. ASSUME Exit PROVE Located'
  BY <1>6 DEF Exit, Located, Threads
<1>7. ASSUME Load PROVE Located'
  BY <1>7 DEF Load, LoadConfig, LoadConfigFails, Goto, cli, BaseInv, TypeOK,
    Located, Threads
<1>8. ASSUME Stop PROVE Located'
  BY <1>8 DEF Stop, Goto, cli, BaseInv, Located
<1>9. ASSUME Drained PROVE Located'
  BY <1>9 DEF Drained, Goto, cli, BaseInv, Located
<1>10. ASSUME NEW j \in jobs, JobStep(j) PROVE Located'
  BY <1>10, JobEffect DEF cli, threads, BaseInv, Located
<1>11. ASSUME UNCHANGED vars PROVE Located'
  BY <1>11 DEF vars, cli, threads, BaseInv, Located
<1> QED
  BY <1>1, <1>2, <1>3, <1>4, <1>5, <1>6, <1>7, <1>8, <1>9, <1>10, <1>11, StepKinds

(* No step makes more schedulers than the edits account for.               *)
LEMMA StartsCountedStep == BaseInv /\ [Next]_vars => StartsCounted'
<1> SUFFICES ASSUME BaseInv, [Next]_vars PROVE StartsCounted'
  OBVIOUS
<1>1. ASSUME FileChanges PROVE StartsCounted'
  BY <1>1, ConfigIsRecord DEF FileChanges, ConfigsOf, threads, BaseInv,
    TypeOK, StartsCounted, One
<1>2. ASSUME NEW t \in Threads, Create(t) PROVE StartsCounted'
  BY <1>2 DEF Create, Goto, config, BaseInv, TypeOK, StartsCounted, One,
    Threads
<1>3. ASSUME NEW t \in Threads, Register(t) \/ RegisterFails(t) PROVE StartsCounted'
  BY <1>3 DEF Register, RegisterFails, config, BaseInv, StartsCounted
<1>4. ASSUME NEW t \in Threads, StartAsync(t) PROVE StartsCounted'
  BY <1>4 DEF StartAsync, Goto, config, BaseInv, StartsCounted
<1>5. ASSUME PerformStep PROVE StartsCounted'
  BY <1>5 DEF PerformStep, PerformNext, PerformReturns, config, threads,
    BaseInv, StartsCounted
<1>6. ASSUME Exit PROVE StartsCounted'
  BY <1>6, ConfigIsRecord DEF Exit, config, BaseInv, TypeOK, StartsCounted,
    One, Threads
<1>7. ASSUME Load PROVE StartsCounted'
  BY <1>7, ConfigIsRecord DEF Load, LoadConfig, LoadConfigFails, Goto,
    BaseInv, TypeOK, StartsCounted, One, Threads
<1>8. ASSUME Stop PROVE StartsCounted'
  BY <1>8 DEF Stop, Goto, config, BaseInv, StartsCounted
<1>9. ASSUME Drained PROVE StartsCounted'
  BY <1>9 DEF Drained, Goto, config, BaseInv, StartsCounted
<1>10. ASSUME NEW j \in jobs, JobStep(j) PROVE StartsCounted'
  BY <1>10, JobEffect DEF config, threads, BaseInv, StartsCounted
<1>11. ASSUME UNCHANGED vars PROVE StartsCounted'
  BY <1>11 DEF vars, config, threads, BaseInv, StartsCounted
<1> QED
  BY <1>1, <1>2, <1>3, <1>4, <1>5, <1>6, <1>7, <1>8, <1>9, <1>10, <1>11, StepKinds

(* No step registers a job under a number that is still to come.           *)
LEMMA NumberedStep == BaseInv /\ [Next]_vars => Numbered'
<1> SUFFICES ASSUME BaseInv, [Next]_vars PROVE Numbered'
  OBVIOUS
<1>1. ASSUME FileChanges PROVE Numbered'
  BY <1>1 DEF FileChanges, threads, cronVars, BaseInv, Numbered
<1>2. ASSUME NEW t \in Threads, Create(t) PROVE Numbered'
  BY <1>2 DEF Create, Goto, cronVars, BaseInv, TypeOK, Numbered, Starts, Jobs
<1>3. ASSUME NEW t \in Threads, Register(t) \/ RegisterFails(t) PROVE Numbered'
  <2>1. CASE Register(t)
    BY <2>1 DEF Register, BaseInv, Numbered
  <2>2. CASE RegisterFails(t)
    BY <2>2 DEF RegisterFails, cronVars, BaseInv, Numbered
  <2> QED
    BY <1>3, <2>1, <2>2
<1>4. ASSUME NEW t \in Threads, StartAsync(t) PROVE Numbered'
  BY <1>4 DEF StartAsync, Goto, BaseInv, Numbered
<1>5. ASSUME PerformStep PROVE Numbered'
  BY <1>5 DEF PerformStep, PerformNext, PerformReturns, threads, cronVars,
    BaseInv, Numbered
<1>6. ASSUME Exit PROVE Numbered'
  BY <1>6 DEF Exit, BaseInv, Numbered
<1>7. ASSUME Load PROVE Numbered'
  BY <1>7 DEF Load, LoadConfig, LoadConfigFails, Goto, cronVars, BaseInv,
    TypeOK, Numbered
<1>8. ASSUME Stop PROVE Numbered'
  BY <1>8 DEF Stop, Goto, BaseInv, Numbered
<1>9. ASSUME Drained PROVE Numbered'
  BY <1>9 DEF Drained, Goto, cronVars, BaseInv, Numbered
<1>10. ASSUME NEW j \in jobs, JobStep(j) PROVE Numbered'
  BY <1>10, JobEffect DEF threads, BaseInv, Numbered
<1>11. ASSUME UNCHANGED vars PROVE Numbered'
  BY <1>11 DEF vars, threads, cronVars, BaseInv, Numbered
<1> QED
  BY <1>1, <1>2, <1>3, <1>4, <1>5, <1>6, <1>7, <1>8, <1>9, <1>10, <1>11, StepKinds

(* In command perform no step starts a scheduler before the first edit.    *)
LEMMA EditedFirstStep == BaseInv /\ [Next]_vars => EditedFirst'
<1> SUFFICES ASSUME BaseInv, [Next]_vars PROVE EditedFirst'
  OBVIOUS
<1>1. ASSUME FileChanges PROVE EditedFirst'
  BY <1>1, ConfigIsRecord DEF FileChanges, ConfigsOf, BaseInv, TypeOK,
    EditedFirst
<1>2. ASSUME NEW t \in Threads, Create(t) PROVE EditedFirst'
  BY <1>2 DEF Create, Goto, cli, config, BaseInv, Located, EditedFirst,
    Threads
<1>3. ASSUME NEW t \in Threads, Register(t) \/ RegisterFails(t) PROVE EditedFirst'
  BY <1>3 DEF Register, RegisterFails, cli, config, BaseInv, Located, EditedFirst, Threads
<1>4. ASSUME NEW t \in Threads, StartAsync(t) PROVE EditedFirst'
  BY <1>4 DEF StartAsync, Goto, cli, config, BaseInv, EditedFirst
<1>5. ASSUME PerformStep PROVE EditedFirst'
  BY <1>5 DEF PerformStep, PerformNext, PerformReturns, config, threads,
    cronVars, BaseInv, EditedFirst
<1>6. ASSUME Exit PROVE EditedFirst'
  BY <1>6 DEF Exit, config, BaseInv, EditedFirst, Threads
<1>7. ASSUME Load PROVE EditedFirst'
  BY <1>7 DEF Load, LoadConfig, LoadConfigFails, BaseInv, EditedFirst
<1>8. ASSUME Stop PROVE EditedFirst'
  BY <1>8 DEF Stop, config, BaseInv, EditedFirst
<1>9. ASSUME Drained PROVE EditedFirst'
  BY <1>9 DEF Drained, config, BaseInv, EditedFirst
<1>10. ASSUME NEW j \in jobs, JobStep(j) PROVE EditedFirst'
  BY <1>10, JobEffect DEF cli, config, threads, BaseInv, EditedFirst
<1>11. ASSUME UNCHANGED vars PROVE EditedFirst'
  BY <1>11 DEF vars, cli, config, threads, cronVars, BaseInv, EditedFirst
<1> QED
  BY <1>1, <1>2, <1>3, <1>4, <1>5, <1>6, <1>7, <1>8, <1>9, <1>10, <1>11, StepKinds

(* No step makes the watcher miss an edit.                                 *)
LEMMA LoadedIsDiskStep == BaseInv /\ [Next]_vars => LoadedIsDisk'
<1> SUFFICES ASSUME BaseInv, [Next]_vars PROVE LoadedIsDisk'
  OBVIOUS
<1>1. ASSUME FileChanges PROVE LoadedIsDisk'
  BY <1>1 DEF FileChanges, LoadedIsDisk
<1>2. ASSUME NEW t \in Threads, Create(t) PROVE LoadedIsDisk'
  BY <1>2 DEF Create, config, BaseInv, LoadedIsDisk
<1>3. ASSUME NEW t \in Threads, Register(t) \/ RegisterFails(t) PROVE LoadedIsDisk'
  BY <1>3 DEF Register, RegisterFails, config, BaseInv, LoadedIsDisk
<1>4. ASSUME NEW t \in Threads, StartAsync(t) PROVE LoadedIsDisk'
  BY <1>4 DEF StartAsync, config, BaseInv, LoadedIsDisk
<1>5. ASSUME PerformStep PROVE LoadedIsDisk'
  BY <1>5 DEF PerformStep, PerformNext, PerformReturns, config, BaseInv,
    LoadedIsDisk
<1>6. ASSUME Exit PROVE LoadedIsDisk'
  BY <1>6 DEF Exit, config, BaseInv, LoadedIsDisk
<1>7. ASSUME Load PROVE LoadedIsDisk'
  BY <1>7 DEF Load, LoadConfig, LoadConfigFails, LoadedIsDisk
<1>8. ASSUME Stop PROVE LoadedIsDisk'
  BY <1>8 DEF Stop, config, BaseInv, LoadedIsDisk
<1>9. ASSUME Drained PROVE LoadedIsDisk'
  BY <1>9 DEF Drained, config, BaseInv, LoadedIsDisk
<1>10. ASSUME NEW j \in jobs, JobStep(j) PROVE LoadedIsDisk'
  BY <1>10, JobEffect DEF config, BaseInv, LoadedIsDisk
<1>11. ASSUME UNCHANGED vars PROVE LoadedIsDisk'
  BY <1>11 DEF vars, config, BaseInv, LoadedIsDisk
<1> QED
  BY <1>1, <1>2, <1>3, <1>4, <1>5, <1>6, <1>7, <1>8, <1>9, <1>10, <1>11, StepKinds

(* No step breaks the types.                                               *)
LEMMA TypeStep == BaseInv /\ [Next]_vars => TypeOK'
<1> SUFFICES ASSUME BaseInv, [Next]_vars PROVE TypeOK'
  OBVIOUS
<1>1. ASSUME FileChanges PROVE TypeOK'
  BY <1>1, SchedulerAssumption, ConfigIsRecord DEF FileChanges, ConfigsOf,
    cli, threads, cronVars, BaseInv, TypeOK
<1>2. ASSUME NEW t \in Threads, Create(t) PROVE TypeOK'
  BY <1>2, SchedulerAssumption, ConfigIsRecord DEF Create, Goto, cli, config,
    cronVars, BaseInv, TypeOK, StartsCounted, One, Threads, Starts
<1>3. ASSUME NEW t \in Threads, Register(t) \/ RegisterFails(t) PROVE TypeOK'
  <2>1. CASE Register(t)
    BY <2>1 DEF Register, cli, config, BaseInv, TypeOK, Numbered, Jobs
  <2>2. CASE RegisterFails(t)
    BY <2>2 DEF RegisterFails, cronVars, cli, config, BaseInv, TypeOK, Numbered, Jobs
  <2> QED
    BY <1>3, <2>1, <2>2
<1>4. ASSUME NEW t \in Threads, StartAsync(t) PROVE TypeOK'
  BY <1>4 DEF StartAsync, Goto, cli, config, BaseInv, TypeOK, Numbered
<1>5. ASSUME PerformStep PROVE TypeOK'
  <2>1. CASE PerformReturns
    BY <2>1 DEF PerformReturns, config, threads, cronVars, BaseInv, TypeOK
  <2>2. ASSUME NEW m \in plan["main"], PerformNext, mine' = {m},
               plan' = [plan EXCEPT !["main"] = @ \ {m}]
        PROVE  TypeOK'
    <3>1. plan["main"] \subseteq Models /\ plan["main"] \subseteq Models \cup {Pulse}
      BY <2>2 DEF PerformNext, BaseInv, Located
    <3>2. plan' \in [Threads -> SUBSET (Models \cup {Pulse})] /\ mine' \subseteq Models
      BY <2>2, <3>1 DEF BaseInv, TypeOK
    <3> QED
      BY <2>2, <3>2 DEF PerformNext, config, cronVars, BaseInv, TypeOK
  <2> QED
    BY <1>5, <2>1, <2>2 DEF PerformStep, PerformNext
<1>6. ASSUME Exit PROVE TypeOK'
  BY <1>6 DEF Exit, config, BaseInv, TypeOK
<1>7. ASSUME Load PROVE TypeOK'
  <2>1. loaded' \in AllConfigs
    BY <1>7, ConfigIsRecord DEF Load, LoadConfig, LoadConfigFails, BaseInv, TypeOK
  <2>2. event' \in BOOLEAN /\ broken' \in BOOLEAN
    BY <1>7 DEF Load, LoadConfig, LoadConfigFails
  <2>3. pc' = [pc EXCEPT !["watcher"] = "stop"]
    BY <1>7 DEF Load, LoadConfig, LoadConfigFails, Goto
  <2>4. UNCHANGED <<disk, plan, ver, me, starts, mycron, cronVars, cli>>
    BY <1>7 DEF Load, LoadConfig, LoadConfigFails
  <2> QED
    BY <2>1, <2>2, <2>3, <2>4 DEF BaseInv, TypeOK, cronVars, cli
<1>8. ASSUME Stop PROVE TypeOK'
  BY <1>8 DEF Stop, Goto, cli, config, BaseInv, TypeOK
<1>9. ASSUME Drained PROVE TypeOK'
  BY <1>9 DEF Drained, Goto, cli, config, cronVars, BaseInv, TypeOK
<1>10. ASSUME NEW j \in jobs, JobStep(j) PROVE TypeOK'
  <2>1. UNCHANGED <<cli, config, threads, running, jobs>>
    BY <1>10, JobEffect
  <2>2. waiting' \subseteq jobs /\ working' \subseteq jobs
    BY <1>10, JobEffect DEF InFlightNow, BaseInv, TypeOK
  <2> QED
    BY <2>1, <2>2 DEF BaseInv, TypeOK, cli, config, threads
<1>11. ASSUME UNCHANGED vars PROVE TypeOK'
  BY <1>11 DEF vars, cli, config, threads, cronVars, BaseInv, TypeOK
<1> QED
  BY <1>1, <1>2, <1>3, <1>4, <1>5, <1>6, <1>7, <1>8, <1>9, <1>10, <1>11, StepKinds


(* However early and however often the file is edited, the variables keep  *)
(* their types: there is a number left for every scheduler that is made.   *)
THEOREM TypeCorrect == Spec => []TypeOK
<1>1. BaseInv /\ [Next]_vars => BaseInv'
  BY TypeStep, LocatedStep, StartsCountedStep, NumberedStep, EditedFirstStep,
    LoadedIsDiskStep DEF BaseInv
<1>2. BaseInv => TypeOK
  BY DEF BaseInv
<1> QED
  BY InitBase, <1>1, <1>2, PTL DEF Spec

-----------------------------------------------------------------------------
(* What holds if the file is not edited before main's Start has returned *)

(* Main is about to call Start, or to perform, and nothing is registered.  *)
LEMMA InitInv == Init => IInv
<1> SUFFICES ASSUME Init PROVE IInv
  OBVIOUS
<1>1. BaseInv
  BY InitBase
<1>2. pc["watcher"] = "idle" /\ pc["main"] \in {"start", "perform"}
  BY DEF Init, Threads
<1>3. OneInStart /\ OneBackup
  BY <1>2 DEF Init, OneInStart, OneBackup
<1>4. Handover /\ OwnMutex /\ Registered
  BY <1>2 DEF Init, Handover, InFlightNow, OwnMutex, Registered
<1> QED
  BY <1>1, <1>3, <1>4 DEF IInv

(* No step brings the watcher into a Restart while main is in Start.       *)
LEMMA OneInStartStep ==
  ASSUME ~EarlyChange, BaseInv, OneInStart, [Next]_vars
  PROVE  OneInStart'
<1>1. ASSUME FileChanges PROVE OneInStart'
  BY <1>1 DEF FileChanges, threads, OneInStart
<1>2. ASSUME NEW t \in Threads, Create(t) PROVE OneInStart'
  BY <1>2 DEF Create, Goto, config, OneInStart
<1>3. ASSUME NEW t \in Threads, Register(t) \/ RegisterFails(t) PROVE OneInStart'
  BY <1>3 DEF Register, RegisterFails, config, OneInStart
<1>4. ASSUME NEW t \in Threads, StartAsync(t) PROVE OneInStart'
  BY <1>4 DEF StartAsync, Goto, BaseInv, TypeOK, OneInStart, Threads
<1>5. ASSUME PerformStep PROVE OneInStart'
  BY <1>5 DEF PerformStep, PerformNext, PerformReturns, threads, BaseInv,
    Located, OneInStart
<1>6. ASSUME Exit PROVE OneInStart'
  BY <1>6 DEF Exit, OneInStart, Threads
<1>7. ASSUME Load PROVE OneInStart'
  BY <1>7 DEF Load, LoadConfig, LoadConfigFails, Goto, BaseInv, TypeOK,
    OneInStart, Threads
<1>8. ASSUME Stop PROVE OneInStart'
  BY <1>8 DEF Stop, Goto, OneInStart
<1>9. ASSUME Drained PROVE OneInStart'
  BY <1>9 DEF Drained, Goto, OneInStart
<1>10. ASSUME NEW j \in jobs, JobStep(j) PROVE OneInStart'
  BY <1>10, JobEffect DEF config, threads, OneInStart
<1>11. ASSUME UNCHANGED vars PROVE OneInStart'
  BY <1>11 DEF vars, config, threads, OneInStart
<1> QED
  BY <1>1, <1>2, <1>3, <1>4, <1>5, <1>6, <1>7, <1>8, <1>9, <1>10, <1>11, StepKinds

(* No step leaves a replaced scheduler running, or a job of it.            *)
LEMMA HandoverStep ==
  ASSUME BaseInv, OneInStart, Handover, [Next]_vars
  PROVE  Handover'
<1>1. ASSUME FileChanges PROVE Handover'
  BY <1>1 DEF FileChanges, threads, cronVars, Handover, InFlightNow
<1>2. ASSUME NEW t \in Threads, Create(t) PROVE Handover'
  BY <1>2 DEF Create, cronVars, OneInStart, Handover, InFlightNow, Threads
<1>3. ASSUME NEW t \in Threads, Register(t) \/ RegisterFails(t) PROVE Handover'
  <2>1. CASE Register(t)
    BY <2>1 DEF Register, Handover, InFlightNow
  <2>2. CASE RegisterFails(t)
    BY <2>2 DEF RegisterFails, cronVars, Handover, InFlightNow
  <2> QED
    BY <1>3, <2>1, <2>2
<1>4. ASSUME NEW t \in Threads, StartAsync(t) PROVE Handover'
  BY <1>4 DEF StartAsync, Goto, BaseInv, TypeOK, OneInStart, Handover,
    InFlightNow, Threads
<1>5. ASSUME PerformStep PROVE Handover'
  BY <1>5 DEF PerformStep, PerformNext, PerformReturns, threads, cronVars,
    Handover, InFlightNow
<1>6. ASSUME Exit PROVE Handover'
  BY <1>6 DEF Exit, Handover, InFlightNow
<1>7. ASSUME Load PROVE Handover'
  BY <1>7 DEF Load, LoadConfig, LoadConfigFails, Goto, cronVars, BaseInv,
    TypeOK, Handover, InFlightNow
<1>8. ASSUME Stop PROVE Handover'
  BY <1>8 DEF Stop, Goto, BaseInv, TypeOK, Handover, InFlightNow, Threads
<1>9. ASSUME Drained PROVE Handover'
  BY <1>9 DEF Drained, InFlight, cronVars, Handover, InFlightNow
<1>10. ASSUME NEW j \in jobs, JobStep(j) PROVE Handover'
  <2>1. UNCHANGED <<pc, mycron, running>>
    BY <1>10, JobEffect DEF threads
  <2>2. ASSUME NEW k \in InFlightNow'
        PROVE  k.cron = mycron /\ (InFlightNow # {} \/ running = {mycron})
    BY <1>10, JobEffect DEF Handover
  <2> QED
    BY <2>1, <2>2 DEF Handover
<1>11. ASSUME UNCHANGED vars PROVE Handover'
  BY <1>11 DEF vars, threads, cronVars, Handover, InFlightNow
<1> QED
  BY <1>1, <1>2, <1>3, <1>4, <1>5, <1>6, <1>7, <1>8, <1>9, <1>10, <1>11, StepKinds

(* No step gives a job a mutex of another Start than its scheduler's.      *)
LEMMA OwnMutexStep ==
  ASSUME BaseInv, OneInStart, OwnMutex, [Next]_vars
  PROVE  OwnMutex'
<1>1. ASSUME FileChanges PROVE OwnMutex'
  BY <1>1 DEF FileChanges, threads, cronVars, OwnMutex
<1>2. ASSUME NEW t \in Threads, Create(t) PROVE OwnMutex'
  BY <1>2 DEF Create, Goto, cronVars, BaseInv, TypeOK, OneInStart, OwnMutex,
    Threads
<1>3. ASSUME NEW t \in Threads, Register(t) \/ RegisterFails(t) PROVE OwnMutex'
  <2>1. CASE Register(t)
    BY <2>1 DEF Register, OwnMutex
  <2>2. CASE RegisterFails(t)
    BY <2>2 DEF RegisterFails, cronVars, OwnMutex
  <2> QED
    BY <1>3, <2>1, <2>2
<1>4. ASSUME NEW t \in Threads, StartAsync(t) PROVE OwnMutex'
  BY <1>4 DEF StartAsync, Goto, OwnMutex
<1>5. ASSUME PerformStep PROVE OwnMutex'
  BY <1>5 DEF PerformStep, PerformNext, PerformReturns, threads, cronVars,
    OwnMutex
<1>6. ASSUME Exit PROVE OwnMutex'
  BY <1>6 DEF Exit, OwnMutex
<1>7. ASSUME Load PROVE OwnMutex'
  BY <1>7 DEF Load, LoadConfig, LoadConfigFails, Goto, cronVars, BaseInv,
    TypeOK, OwnMutex
<1>8. ASSUME Stop PROVE OwnMutex'
  BY <1>8 DEF Stop, Goto, OwnMutex
<1>9. ASSUME Drained PROVE OwnMutex'
  BY <1>9 DEF Drained, Goto, cronVars, OwnMutex
<1>10. ASSUME NEW j \in jobs, JobStep(j) PROVE OwnMutex'
  BY <1>10, JobEffect DEF threads, OwnMutex
<1>11. ASSUME UNCHANGED vars PROVE OwnMutex'
  BY <1>11 DEF vars, threads, cronVars, OwnMutex
<1> QED
  BY <1>1, <1>2, <1>3, <1>4, <1>5, <1>6, <1>7, <1>8, <1>9, <1>10, <1>11, StepKinds

(* No step takes the mutex of a backup that another one holds.             *)
LEMMA OneBackupStep ==
  ASSUME BaseInv, OneInStart, Handover, OwnMutex, OneBackup, [Next]_vars
  PROVE  OneBackup'
<1>1. ASSUME FileChanges PROVE OneBackup'
  BY <1>1 DEF FileChanges, cronVars, OneBackup
<1>2. ASSUME NEW t \in Threads, Create(t) PROVE OneBackup'
  BY <1>2 DEF Create, cronVars, OneBackup
<1>3. ASSUME NEW t \in Threads, Register(t) \/ RegisterFails(t) PROVE OneBackup'
  <2>1. CASE Register(t)
    BY <2>1 DEF Register, OneBackup
  <2>2. CASE RegisterFails(t)
    BY <2>2 DEF RegisterFails, cronVars, OneBackup
  <2> QED
    BY <1>3, <2>1, <2>2
<1>4. ASSUME NEW t \in Threads, StartAsync(t) PROVE OneBackup'
  BY <1>4 DEF StartAsync, OneBackup
<1>5. ASSUME PerformStep PROVE OneBackup'
  BY <1>5 DEF PerformStep, PerformNext, PerformReturns, cronVars, OneBackup
<1>6. ASSUME Exit PROVE OneBackup'
  BY <1>6 DEF Exit, OneBackup
<1>7. ASSUME Load PROVE OneBackup'
  BY <1>7 DEF Load, LoadConfig, LoadConfigFails, cronVars, OneBackup
<1>8. ASSUME Stop PROVE OneBackup'
  BY <1>8 DEF Stop, OneBackup
<1>9. ASSUME Drained PROVE OneBackup'
  BY <1>9 DEF Drained, cronVars, OneBackup
<1>10. ASSUME NEW j \in jobs, JobStep(j) PROVE OneBackup'
  BY <1>10 DEF BaseInv, TypeOK, OneBackup, Handover, OwnMutex, InFlightNow,
    Locked, JobStep, Fire, FirePulse, Lock, Finish
<1>11. ASSUME UNCHANGED vars PROVE OneBackup'
  BY <1>11 DEF vars, cronVars, OneBackup
<1> QED
  BY <1>1, <1>2, <1>3, <1>4, <1>5, <1>6, <1>7, <1>8, <1>9, <1>10, <1>11, StepKinds

(* No step leaves out a job of the loaded config, or adds another one.     *)
LEMMA RegisteredStep ==
  ASSUME BaseInv, OneInStart, OwnMutex, Handover, Registered, [Next]_vars
  PROVE  Registered'
<1>1. ASSUME FileChanges PROVE Registered'
  BY <1>1 DEF FileChanges, threads, cronVars, Registered, Current, JobOf
<1>2. ASSUME NEW t \in Threads, Create(t) PROVE Registered'
  <2>1. /\ mycron' = starts + 1 /\ starts \in Nat /\ loaded' = loaded
        /\ plan' = [plan EXCEPT ![t] = loaded.on]
        /\ ver' = [ver EXCEPT ![t] = loaded.ver]
        /\ pc' = [pc EXCEPT ![t] = "register"]
        /\ jobs' = jobs /\ running' = running /\ pc[t] = "start"
    BY <1>2 DEF Create, Goto, config, cronVars, BaseInv, TypeOK, Starts
  <2>2. /\ plan \in [Threads -> SUBSET (Models \cup {Pulse})]
        /\ ver \in [Threads -> 0 .. MaxChanges] /\ DOMAIN pc = Threads
    BY DEF BaseInv, TypeOK
  <2>3. Current' = {}
    <3>1. \A j \in jobs : j.cron <= starts /\ j.cron \in Nat
      BY DEF BaseInv, TypeOK, Numbered, Jobs, Starts
    <3> QED
      BY <2>1, <3>1 DEF Current
  <2>4. \A u \in Threads : pc'[u] = "register" => u = t
    BY <2>1, <2>2 DEF BaseInv, Located, OneInStart, Threads
  <2>5. ~(pc'["main"] = "select" /\ pc'["watcher"] = "idle")
    BY <2>1, <2>2 DEF BaseInv, Located, OneInStart, Threads
  <2>6. /\ ver'[t] = loaded'.ver /\ plan'[t] = loaded'.on
        /\ {JobOf(m)' : m \in Due(loaded)' \ plan'[t]} = {}
    BY <2>1, <2>2 DEF Due
  <2> QED
    BY <2>3, <2>4, <2>5, <2>6 DEF Registered
<1>3. ASSUME NEW t \in Threads, Register(t) \/ RegisterFails(t) PROVE Registered'
  <2>1. /\ pc[t] = "register" /\ pc' = pc /\ ver' = ver /\ mycron' = mycron
        /\ loaded' = loaded
    BY <1>3 DEF Register, RegisterFails, config
  <2>2. /\ ver[t] = loaded.ver /\ plan[t] \subseteq loaded.on
        /\ Current = {JobOf(m) : m \in Due(loaded) \ plan[t]}
    BY <2>1 DEF Registered
  <2>3. \A u \in Threads : pc'[u] = "register" => u = t
    BY <2>1 DEF BaseInv, Located, OneInStart, Threads
  <2>4. ~(pc'["main"] = "select" /\ pc'["watcher"] = "idle")
    BY <2>1 DEF BaseInv, Located, OneInStart, Threads
  <2>5. /\ plan'[t] \subseteq loaded.on
        /\ Current' = {JobOf(m) : m \in Due(loaded) \ plan'[t]}
    <3>1. ASSUME NEW m \in plan[t] \ BadCrons[ver[t]],
                 plan' = [plan EXCEPT ![t] = @ \ {m}],
                 jobs' = jobs \cup {[cron |-> mycron, of |-> m, ver |-> ver[t],
                                     mu |-> me[t]]}
          PROVE  /\ plan'[t] \subseteq loaded.on
                 /\ Current' = {JobOf(n) : n \in Due(loaded) \ plan'[t]}
      <4>1. plan'[t] = plan[t] \ {m} /\ m \in Due(loaded)
        BY <2>2, <3>1 DEF BaseInv, TypeOK, Due
      <4>2. jobs' = jobs \cup {JobOf(m)} /\ JobOf(m).cron = mycron
        BY <2>1, <2>2, <3>1 DEF OwnMutex, JobOf
      <4>3. Current' = Current \cup {JobOf(m)}
        BY <2>1, <4>2 DEF Current
      <4> QED
        BY <2>2, <4>1, <4>3
    <3>2. ASSUME NEW m \in plan[t] \cap BadCrons[ver[t]],
                 plan' = [plan EXCEPT ![t] = @ \ {m}], jobs' = jobs
          PROVE  /\ plan'[t] \subseteq loaded.on
                 /\ Current' = {JobOf(n) : n \in Due(loaded) \ plan'[t]}
      <4>1. plan'[t] = plan[t] \ {m} /\ m \notin Due(loaded)
        BY <2>2, <3>2 DEF BaseInv, TypeOK, Due
      <4> QED
        BY <2>1, <2>2, <3>2, <4>1 DEF Current
    <3> QED
      BY <1>3, <3>1, <3>2 DEF Register, RegisterFails, cronVars
  <2>6. Due(loaded)' = Due(loaded) /\ \A m : JobOf(m)' = JobOf(m)
    BY <2>1 DEF Due, JobOf
  <2> QED
    BY <2>1, <2>2, <2>3, <2>4, <2>5, <2>6 DEF Registered
<1>4. ASSUME NEW t \in Threads, StartAsync(t) PROVE Registered'
  BY <1>4 DEF StartAsync, Goto, config, Handover, Registered, Current, JobOf
<1>5. ASSUME PerformStep PROVE Registered'
  BY <1>5 DEF PerformStep, PerformNext, PerformReturns, config, threads,
    cronVars, BaseInv, TypeOK, Registered, Current, JobOf
<1>6. ASSUME Exit PROVE Registered'
  BY <1>6 DEF Exit, Registered, Threads
<1>7. ASSUME Load PROVE Registered'
  BY <1>7 DEF Load, LoadConfig, LoadConfigFails, Goto, BaseInv, TypeOK,
    OneInStart, Registered, Threads
<1>8. ASSUME Stop PROVE Registered'
  BY <1>8 DEF Stop, Goto, OneInStart, Registered, Threads
<1>9. ASSUME Drained PROVE Registered'
  BY <1>9 DEF Drained, Goto, OneInStart, Registered, Threads
<1>10. ASSUME NEW j \in jobs, JobStep(j) PROVE Registered'
  BY <1>10, JobEffect DEF config, threads, Registered, Current, JobOf
<1>11. ASSUME UNCHANGED vars PROVE Registered'
  BY <1>11 DEF vars, config, threads, cronVars, Registered, Current, JobOf
<1> QED
  BY <1>1, <1>2, <1>3, <1>4, <1>5, <1>6, <1>7, <1>8, <1>9, <1>10, <1>11, StepKinds

(* Every state satisfies the invariant, if the file is not edited before   *)
(* the first schedule is in place.                                         *)
THEOREM Invariance ==
  ASSUME ~EarlyChange
  PROVE  Spec => []IInv
<1>1. BaseInv /\ [Next]_vars => BaseInv'
  BY TypeStep, LocatedStep, StartsCountedStep, NumberedStep, EditedFirstStep,
    LoadedIsDiskStep DEF BaseInv
<1>2. IInv /\ [Next]_vars => IInv'
  BY <1>1, OneInStartStep, HandoverStep, OwnMutexStep, OneBackupStep,
    RegisteredStep DEF IInv
<1> QED
  BY InitInv, <1>2, PTL DEF Spec

(* scheduler.Restart hands over from one gocron scheduler to the next: the *)
(* old one neither runs on nor has a job in flight when the new one runs.  *)
THEOREM OneSchedulerRuns ==
  ASSUME ~EarlyChange
  PROVE  Spec => []OneScheduler
<1>1. IInv => OneScheduler
  BY DEF IInv, Handover, OneScheduler, InFlightNow
<1> QED
  BY <1>1, Invariance, PTL

(* Two backups of the daemon exclude each other for any number of models   *)
(* and of reloads, although every Start makes a mutex of its own.          *)
THEOREM BackupsExclude ==
  ASSUME ~EarlyChange
  PROVE  Spec => []OneAtATime
<1>1. ASSUME IInv PROVE OneAtATime
  <2>1. mine # {} => command = "perform"
    BY <1>1 DEF IInv, BaseInv, Located
  <2>2. working # {} /\ command = "perform" => disk.ver > 0
    BY <1>1 DEF IInv, BaseInv, TypeOK, EditedFirst
  <2> QED
    BY <1>1, <2>1, <2>2 DEF IInv, OneBackup, OneAtATime
<1> QED
  BY <1>1, Invariance, PTL

(* The jobs of a scheduler are as many as the jobs enabled: no model is    *)
(* registered twice, and none is missed.                                   *)
LEMMA JobsAreModels ==
  ASSUME NEW S, IsFiniteSet(S)
  PROVE  Cardinality({JobOf(m) : m \in S}) = Cardinality(S)
<1> DEFINE J == {JobOf(m) : m \in S}
           f == [m \in S |-> JobOf(m)]
<1>1. \A m \in S : f[m] \in J
  OBVIOUS
<1>2. \A m, n \in S : f[m] = f[n] => m = n
  BY DEF JobOf
<1>3. \A j \in J : \E m \in S : f[m] = j
  OBVIOUS
<1>4. f \in Bijection(S, J)
  BY <1>2 DEF Bijection, Injection, Surjection, IsInjective
<1>5. ExistsBijection(S, J)
  BY <1>4 DEF ExistsBijection
<1> QED
  BY <1>5, FS_Bijection

(* Once an edit is dealt with, what is scheduled is the loaded config, but *)
(* for the models whose cron does not parse, which are logged and left     *)
(* out; and the loaded config is the file, unless it is in error.          *)
THEOREM ScheduleFollowsConfig ==
  ASSUME ~EarlyChange
  PROVE  Spec => []ScheduleIsConfig
<1>1. ASSUME IInv, Settled PROVE ScheduleIsConfig
  <2> DEFINE live == {j \in jobs : j.cron \in running}
  <2>1. running = {mycron} /\ Current = {JobOf(m) : m \in Due(loaded)}
    BY <1>1 DEF IInv, Registered, Settled
  <2>2. live = {JobOf(m) : m \in Due(loaded)}
    BY <2>1 DEF Current
  <2>3. IsFiniteSet(Due(loaded))
    <3>1. IsFiniteSet(Models \cup {Pulse})
      BY SchedulerAssumption, FS_AddElement
    <3>2. Due(loaded) \subseteq Models \cup {Pulse}
      BY <1>1, ConfigIsRecord DEF IInv, BaseInv, TypeOK, Due
    <3> QED
      BY <3>1, <3>2, FS_Subset
  <2>4. Cardinality(live) = Cardinality(Due(loaded))
    BY <2>2, <2>3, JobsAreModels
  <2>5. \A m \in Due(loaded) : \E j \in live : j.of = m
    <3> SUFFICES ASSUME NEW m \in Due(loaded) PROVE \E j \in live : j.of = m
      OBVIOUS
    <3>1. JobOf(m) \in live /\ JobOf(m).of = m
      BY <2>2 DEF JobOf
    <3> QED
      BY <3>1
  <2>6. \A j \in live : j.of \in Due(loaded) /\ j.ver = loaded.ver
    BY <2>2 DEF JobOf
  <2>7. broken \/ loaded = disk
    BY <1>1 DEF IInv, BaseInv, LoadedIsDisk, Settled
  <2> QED
    BY <2>4, <2>5, <2>6, <2>7 DEF ScheduleIsConfig
<1>2. IInv => ScheduleIsConfig
  BY <1>1 DEF ScheduleIsConfig
<1> QED
  BY <1>2, Invariance, PTL

==============================================================================
