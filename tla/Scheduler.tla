----------------------------- MODULE Scheduler -----------------------------
(***************************************************************************)
(* The scheduling of a running agent: the main goroutine, which starts the *)
(* scheduler, the watcher goroutine, which reloads the config file and     *)
(* restarts the scheduler when the file changes, and the jobs gocron fires *)
(* (scheduler/scheduler.go, the callback of config.Init).                  *)
(*                                                                         *)
(* Each call of Start makes a gocron scheduler and a mutex of its own; the *)
(* n-th call's are both numbered n here.  The mutex is a local variable,   *)
(* the scheduler a global one that is read anew for every registration.    *)
(***************************************************************************)
EXTENDS Integers, FiniteSets

CONSTANTS
  Models,       \* the models a config file may hold
  Pulse,        \* the pulse job
  BadCrons,     \* the models whose cron does not parse, in each version of the file
  MaxChanges,   \* bound: how often the config file changes
  EarlyChange   \* may it change before the main goroutine's Start returns?

ASSUME SchedulerAssumption ==
  /\ IsFiniteSet(Models)
  /\ Pulse \notin Models
  /\ MaxChanges \in Nat
  /\ EarlyChange \in BOOLEAN
  /\ BadCrons \in [0 .. MaxChanges -> SUBSET Models]

Threads == {"main", "watcher"}

Starts == 1 .. MaxChanges + 1

(* A config: its version, and which of the models and the pulse are        *)
(* enabled with a schedule.                                                *)
ConfigsOf(v) == [ver : {v}, on : SUBSET (Models \cup {Pulse})]
AllConfigs   == UNION {ConfigsOf(v) : v \in 0 .. MaxChanges}

(* What the scheduler can be made to run of a config. *)
Due(c) == c.on \ BadCrons[c.ver]

(* A registered job: on which scheduler, what it runs with which config,   *)
(* and which mutex its closure locks.                                      *)
Jobs == [cron : Starts, of : Models \cup {Pulse}, ver : 0 .. MaxChanges, mu : Starts]

VARIABLES
  disk,     \* the config file
  event,    \* has fsnotify an event that the watcher has not taken?
  loaded,   \* config.Models and config.Pulse
  broken,   \* did the last loadConfig return an error?
  pc,       \* where each thread is
  plan,     \* what the Start of each thread has still to register
  ver,      \* the version of config each thread's Start registers
  me,       \* the number of each thread's call of Start
  starts,   \* how many calls of Start there were
  mycron,   \* the global scheduler, 0 for nil
  running,  \* the schedulers that run
  jobs,     \* the jobs registered
  waiting,  \* the jobs fired and waiting for their mutex
  working,  \* the jobs in Perform, or in the pulse
  command,  \* what the process was started for
  mine      \* the model the main goroutine performs in command "perform"

config   == <<disk, event, loaded, broken>>
threads  == <<pc, plan, ver, me, starts, mycron>>
cronVars == <<running, jobs, waiting, working>>
cli      == <<command, mine>>
vars     == <<config, threads, cronVars, cli>>

(* Main has loaded the config (config.Init) and is about to call Start, in *)
(* command "run", or to perform the models it is asked for, scheduled or   *)
(* not: all or some.  A name that is not in the config ends it before.     *)
(* The watcher has been running since before that.                         *)
Init ==
  /\ disk \in ConfigsOf(0)
  /\ event = FALSE
  /\ loaded = disk
  /\ broken = FALSE
  /\ command \in {"run", "perform"}
  /\ mine = {}
  /\ pc = [t \in Threads |-> IF t = "watcher" THEN "idle"
                             ELSE IF command = "run" THEN "start" ELSE "perform"]
  /\ \E ms \in SUBSET Models :
       /\ command = "run" <=> ms = {}
       /\ plan = [t \in Threads |-> IF t = "main" THEN ms ELSE {}]
  /\ ver = [t \in Threads |-> 0]
  /\ me = [t \in Threads |-> 0]
  /\ starts = 0
  /\ mycron = 0
  /\ running = {}
  /\ jobs = {}
  /\ waiting = {}
  /\ working = {}

Goto(t, l) == pc' = [pc EXCEPT ![t] = l]

(* The process ends; its next start is another behaviour. *)
Exit ==
  /\ pc' = [t \in Threads |-> "dead"]
  /\ running' = {}
  /\ waiting' = {}
  /\ working' = {}
  /\ mine' = {}
  /\ UNCHANGED <<command, config, plan, ver, me, starts, mycron, jobs>>

(* Somebody edits the config file. *)
FileChanges ==
  /\ disk.ver < MaxChanges
  /\ pc["main"] \in {"select", "perform"} \/ (EarlyChange /\ pc["main"] # "dead")
  /\ disk' \in ConfigsOf(disk.ver + 1)
  /\ event' = TRUE
  /\ UNCHANGED <<cli, loaded, broken, threads, cronVars>>

-----------------------------------------------------------------------------
(* The command "perform" *)

PerformNext ==
  /\ pc["main"] = "perform"
  /\ mine = {}
  /\ \E m \in plan["main"] :
       /\ mine' = {m}
       /\ plan' = [plan EXCEPT !["main"] = @ \ {m}]
  /\ UNCHANGED <<command, config, pc, ver, me, starts, mycron, cronVars>>

PerformReturns ==
  /\ mine # {}
  /\ mine' = {}
  /\ UNCHANGED <<command, config, threads, cronVars>>

(* The process ends, with whatever a reload has started in it. *)
PerformEnds ==
  /\ pc["main"] = "perform"
  /\ mine = {}
  /\ plan["main"] = {}
  /\ Exit

-----------------------------------------------------------------------------
(* Start *)

(* Mutant: "mycron := ..." leaves the global scheduler as it was. *)
CreateShadowed(t) ==
  /\ pc[t] = "start"
  /\ starts' = starts + 1
  /\ me' = [me EXCEPT ![t] = starts + 1]
  /\ plan' = [plan EXCEPT ![t] = loaded.on]
  /\ ver' = [ver EXCEPT ![t] = loaded.ver]
  /\ Goto(t, "register")
  /\ UNCHANGED <<cli, config, mycron, cronVars>>

Create(t) ==
  /\ pc[t] = "start"
  /\ starts' = starts + 1
  /\ mycron' = starts + 1
  /\ me' = [me EXCEPT ![t] = starts + 1]
  /\ plan' = [plan EXCEPT ![t] = loaded.on]
  /\ ver' = [ver EXCEPT ![t] = loaded.ver]
  /\ Goto(t, "register")
  /\ UNCHANGED <<cli, config, cronVars>>

Register(t) ==
  /\ pc[t] = "register"
  /\ \E m \in plan[t] \ BadCrons[ver[t]] :
       /\ plan' = [plan EXCEPT ![t] = @ \ {m}]
       /\ jobs' = jobs \cup {[cron |-> mycron, of |-> m, ver |-> ver[t], mu |-> me[t]]}
  /\ UNCHANGED <<cli, config, pc, ver, me, starts, mycron, running, waiting, working>>

(* Mutant: the loop is left where it should go on. *)
FailureEndsLoop(t) ==
  /\ pc[t] = "register"
  /\ plan[t] \cap BadCrons[ver[t]] # {}
  /\ plan' = [plan EXCEPT ![t] = {}]
  /\ UNCHANGED <<cli, config, pc, ver, me, starts, mycron, cronVars>>

(* gocron cannot parse the cron and drops the job; the error of Do is only *)
(* logged.                                                                 *)
RegisterFails(t) ==
  /\ pc[t] = "register"
  /\ \E m \in plan[t] \cap BadCrons[ver[t]] : plan' = [plan EXCEPT ![t] = @ \ {m}]
  /\ UNCHANGED <<cli, config, pc, ver, me, starts, mycron, cronVars>>

(* Mutant: mycron.StartBlocking(), from which the caller does not return. *)
StartBlocking(t) ==
  /\ pc[t] = "register"
  /\ plan[t] = {}
  /\ running' = running \cup {mycron}
  /\ Goto(t, IF t = "main" THEN "select" ELSE "register")
  /\ UNCHANGED <<cli, config, plan, ver, me, starts, mycron, jobs, waiting, working>>

StartAsync(t) ==
  /\ pc[t] = "register"
  /\ plan[t] = {}
  /\ running' = running \cup {mycron}
  /\ Goto(t, IF t = "main" THEN "select" ELSE "idle")
  /\ UNCHANGED <<cli, config, plan, ver, me, starts, mycron, jobs, waiting, working>>

-----------------------------------------------------------------------------
(* The watcher: loadConfig, then, whatever it returned, Restart *)

LoadConfig ==
  /\ pc["watcher"] = "idle"
  /\ event
  /\ event' = FALSE
  /\ loaded' = disk
  /\ broken' = FALSE
  /\ Goto("watcher", "stop")
  /\ UNCHANGED <<cli, disk, plan, ver, me, starts, mycron, cronVars>>

(* The file cannot be read, or one of its models is in error: the models   *)
(* that came before it stay in the list, the pulse is the old one.         *)
LoadConfigFails ==
  /\ pc["watcher"] = "idle"
  /\ event
  /\ event' = FALSE
  /\ \/ UNCHANGED loaded
     \/ \E ms \in SUBSET (disk.on \cap Models) :
          loaded' = [ver |-> disk.ver, on |-> ms \cup (loaded.on \cap {Pulse})]
  /\ broken' = TRUE
  /\ Goto("watcher", "stop")
  /\ UNCHANGED <<cli, disk, plan, ver, me, starts, mycron, cronVars>>

(* loadModel uses the nil that viper's Sub returns for a databases or       *)
(* storages entry without content, and nobody recovers from the panic.     *)
LoadConfigPanics ==
  /\ pc["watcher"] = "idle"
  /\ event
  /\ Exit

(* Mutant: Restart does not stop the old scheduler. *)
NoStop ==
  /\ pc["watcher"] = "stop"
  /\ Goto("watcher", "start")
  /\ UNCHANGED <<cli, config, plan, ver, me, starts, mycron, cronVars>>

(* mycron.Stop on a scheduler that does not run returns at once. *)
Stop ==
  /\ pc["watcher"] = "stop"
  /\ running' = running \ {mycron}
  /\ Goto("watcher", IF mycron \in running THEN "drain" ELSE "start")
  /\ UNCHANGED <<cli, config, plan, ver, me, starts, mycron, jobs, waiting, working>>

InFlight(n) == {j \in waiting \cup working : j.cron = n}

(* Mutant: Stop does not wait. *)
StopDoesNotWait ==
  /\ pc["watcher"] = "drain"
  /\ Goto("watcher", "start")
  /\ UNCHANGED <<cli, config, plan, ver, me, starts, mycron, cronVars>>

(* gocron's Stop waits for the jobs it has fired, those that wait for the  *)
(* mutex among them.                                                       *)
Drained ==
  /\ pc["watcher"] = "drain"
  /\ InFlight(mycron) = {}
  /\ Goto("watcher", "start")
  /\ UNCHANGED <<cli, config, plan, ver, me, starts, mycron, cronVars>>

-----------------------------------------------------------------------------
(* The jobs.  Nothing keeps a job from firing while an earlier firing of   *)
(* it is waiting or working; bound: one waiting firing stands for all.     *)

Fire(j) ==
  /\ j.cron \in running
  /\ j.of # Pulse
  /\ waiting' = waiting \cup {j}
  /\ UNCHANGED <<cli, config, threads, running, jobs, working>>

(* The pulse takes no mutex. *)
FirePulse(j) ==
  /\ j.cron \in running
  /\ j.of = Pulse
  /\ working' = working \cup {j}
  /\ UNCHANGED <<cli, config, threads, running, jobs, waiting>>

Locked(m) == \E j \in working : j.of # Pulse /\ j.mu = m

(* mu.Lock() returns. *)
Lock(j) ==
  /\ j \in waiting
  /\ ~Locked(j.mu)
  /\ waiting' = waiting \ {j}
  /\ working' = working \cup {j}
  /\ UNCHANGED <<cli, config, threads, running, jobs>>

(* Mutant: the mutex is not unlocked, and the job with it never over. *)
NeverUnlocked(j) ==
  /\ j \in working
  /\ working' = IF j.of = Pulse THEN working \ {j} ELSE working
  /\ UNCHANGED <<cli, config, threads, running, jobs, waiting>>

(* Perform returns, and the deferred mu.Unlock runs; or the pulse is over. *)
Finish(j) ==
  /\ j \in working
  /\ working' = working \ {j}
  /\ UNCHANGED <<cli, config, threads, running, jobs, waiting>>

(* psutil.Fetch fails: logger.Fatal ends the process with all its jobs. *)
PulseFatal(j) ==
  /\ j \in working
  /\ j.of = Pulse
  /\ Exit

(* Nothing is left to do: the process is gone, or waits (select {}) with   *)
(* nothing in flight and no further change within the bound.               *)
Settled == pc["main"] = "select" /\ pc["watcher"] = "idle" /\ ~event

Rest ==
  /\ \/ pc["main"] = "dead"
     \/ Settled /\ disk.ver = MaxChanges /\ waiting \cup working = {}
  /\ UNCHANGED vars

ThreadStep(t) == Create(t) \/ Register(t) \/ RegisterFails(t) \/ StartAsync(t)

MainStep == ThreadStep("main") \/ PerformNext \/ PerformReturns \/ PerformEnds

WatcherStep ==
  ThreadStep("watcher") \/ LoadConfig \/ LoadConfigFails \/ LoadConfigPanics \/ Stop \/ Drained

LockOf(m)   == \E j \in jobs : j.of = m /\ Lock(j)
FinishOf(m) == \E j \in jobs : j.of = m /\ Finish(j)

Next ==
  \/ FileChanges
  \/ MainStep
  \/ WatcherStep
  \/ \E j \in jobs : Fire(j) \/ FirePulse(j) \/ Lock(j) \/ Finish(j) \/ PulseFatal(j)
  \/ Rest

Spec == Init /\ [][Next]_vars

(* Both goroutines are scheduled; every Perform and every pulse returns,   *)
(* which no timeout ensures; sync.Mutex hands itself to the waiter that    *)
(* has waited longest, so that none is passed over for ever.               *)
FairSpec ==
  /\ Spec
  /\ WF_vars(MainStep)
  /\ WF_vars(WatcherStep)
  /\ \A m \in Models \cup {Pulse} : WF_vars(FinishOf(m))
  /\ \A m \in Models : SF_vars(LockOf(m))

-----------------------------------------------------------------------------
(* Correctness *)

TypeOK ==
  /\ disk \in AllConfigs
  /\ loaded \in AllConfigs
  /\ {event, broken} \subseteq BOOLEAN
  /\ pc \in [Threads -> {"idle", "start", "register", "select", "perform",
                       "stop", "drain", "dead"}]
  /\ plan \in [Threads -> SUBSET (Models \cup {Pulse})]
  /\ ver \in [Threads -> 0 .. MaxChanges]
  /\ me \in [Threads -> {0} \cup Starts]
  /\ starts \in {0} \cup Starts
  /\ mycron \in {0} \cup Starts
  /\ running \subseteq Starts
  /\ jobs \subseteq Jobs
  /\ waiting \subseteq jobs
  /\ working \subseteq jobs
  /\ command \in {"run", "perform"}
  /\ mine \subseteq Models

(* Two backups never run at once in the daemon, not even across a reload,  *)
(* where the jobs before and after it lock different mutexes.  The         *)
(* exception the code makes: the watcher of a command "perform" starts a   *)
(* scheduler once the file is edited, beside the models main performs.     *)
OneAtATime ==
  LET backups == {j \in working : j.of # Pulse} IN
    /\ \A j, k \in backups : j = k
    /\ mine # {} /\ backups # {} => command = "perform" /\ disk.ver > 0

(* A scheduler that was replaced does not run, and nothing it fired is     *)
(* left when its successor runs.                                           *)
OneScheduler ==
  /\ running \subseteq {mycron}
  /\ running # {} => \A j \in waiting \cup working : j.cron \in running

(* Once an edit has been dealt with, the scheduler runs each enabled model *)
(* of the loaded config once, with that config, and nothing else; and if   *)
(* the file was in order this is what the file says.  The exception the    *)
(* code makes: a model whose cron does not parse is not run at all, and    *)
(* that is only logged.  It takes no other model with it.                  *)
ScheduleIsConfig ==
  Settled =>
    LET live == {j \in jobs : j.cron \in running} IN
      /\ \A m \in Due(loaded) : \E j \in live : j.of = m
      /\ \A j \in live : j.of \in Due(loaded) /\ j.ver = loaded.ver
      /\ Cardinality(live) = Cardinality(Due(loaded))
      /\ broken \/ loaded = disk

(* A fired job is not kept waiting for ever. *)
EveryJobRuns ==
  \A m \in Models :
    (\E j \in waiting : j.of = m) ~> (\A j \in waiting : j.of # m)

(* An edit of the file is dealt with, though the watcher has to wait for   *)
(* the jobs in flight.                                                     *)
ReloadCompletes == event ~> Settled \/ pc["main"] = "dead"
=============================================================================
