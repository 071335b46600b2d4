------------------------------ MODULE Database ------------------------------
(***************************************************************************)
(* The dump stage of a run: database.Run over the databases of a model,    *)
(* with the hook scripts around each dump (database/base.go), and what the *)
(* types require, call and leave in the environment.  How a type puts the  *)
(* command line of its tool together is left out.                          *)
(***************************************************************************)
EXTENDS Integers, FiniteSets

CONSTANTS
  Databases,  \* the databases of the model
  DbConfigs,  \* the configs a database may have
  NoPassword, \* no "password" in a config, no PGPASSWORD in the environment
  Nobody      \* no database is being dumped

ASSUME NobodyAssumption == Nobody \notin Databases

(* A hook script as runHook tells them apart: not set; a command; a        *)
(* command behind "-", whose failure is ignored; and one with no word in   *)
(* it ("-", or blanks), where c[0] is out of range.                        *)
Scripts == {"none", "command", "ignored", "blank"}

OnExits == {"", "always", "success", "failure", "other"}

(* A type that is not implemented is called "other".                       *)
Types == {"mysql", "mariadb", "redis", "postgresql", "mongodb", "sqlite",
          "mssql", "influxdb2", "etcd"}

Options == {"database", "path", "host", "token", "endpoint", "endpoints"}

(* The mode of redis; anything else than the two is called "other".        *)
Modes == {"copy", "sync", "other"}

(* What the code reads of a database's config: of "given", which options   *)
(* are there; mode and save (invoke_save) matter to redis, password to     *)
(* postgresql.                                                             *)
IsConfig(c) ==
  /\ DOMAIN c = {"type", "given", "mode", "save", "password", "before", "after", "onExit"}
  /\ c.type \in Types \cup {"other"}
  /\ c.given \subseteq Options
  /\ c.mode \in Modes
  /\ c.save \in BOOLEAN
  /\ {c.before, c.after} \subseteq Scripts
  /\ c.onExit \in OnExits

ASSUME ConfigsAssumption == \A c \in DbConfigs : IsConfig(c)

Passwords == {c.password : c \in DbConfigs} \cup {NoPassword}

VARIABLES
  conf,    \* the config of each database
  todo,    \* databases the loop of Run has not come to
  cur,     \* the database runModel is at
  dpc,     \* where runModel is
  result,  \* what Run has returned: "none" so far, "nil", "error", or a "panic"
  dump,    \* history: "no", "ok" or "failed" dump of each database
  env,     \* PGPASSWORD in the environment of the process
  opened,  \* history: databases whose before_script has completed
  closed,  \* history: databases whose after_script was run
  found,   \* history: each PGPASSWORD the process had from elsewhere
  login,   \* history: PGPASSWORD as the tool of each database found it
  earlier  \* history: the databases whose tools were called before its own

hooked == <<opened, closed>>
calls  == <<found, login, earlier>>
dbVars == <<conf, todo, cur, dpc, result, dump, env, hooked, calls>>

Start ==
  /\ todo = Databases
  /\ cur = Nobody
  /\ dpc = "loop"
  /\ result = "none"
  /\ dump = [d \in Databases |-> "no"]
  /\ env \in Passwords
  /\ opened = {}
  /\ closed = {}
  /\ found = {env}
  /\ login = [d \in Databases |-> NoPassword]
  /\ earlier = [d \in Databases |-> {}]

Init == conf \in [Databases -> DbConfigs] /\ Start

At(l) == result = "none" /\ dpc = l

(* Mutant: the loop is left with the database still current. *)
ReturnFromInside(r) ==
  /\ result' = r
  /\ dpc' = "loop"
  /\ UNCHANGED cur

Return(r) ==
  /\ result' = r
  /\ dpc' = "loop"
  /\ cur' = Nobody

(* runModel returned nil: the loop goes on to the next database. *)
LoopOn ==
  /\ dpc' = "loop"
  /\ cur' = Nobody
  /\ UNCHANGED result

(* The loop takes the databases in the order of a map.  A type that is not *)
(* implemented is a warning, and the database is skipped.                  *)
PickDatabase ==
  /\ At("loop")
  /\ \E d \in todo :
       /\ todo' = todo \ {d}
       /\ IF conf[d].type \in Types
            THEN cur' = d /\ dpc' = "before"
            ELSE UNCHANGED <<cur, dpc>>
  /\ UNCHANGED <<conf, result, dump, env, hooked, calls>>

AllDone ==
  /\ At("loop")
  /\ todo = {}
  /\ Return("nil")
  /\ UNCHANGED <<conf, todo, dump, env, hooked, calls>>

(* runHook: ok is what its caller does when it returns nil. *)
Hook(script, ok) ==
  \/ script # "blank" /\ ok
  \/ script = "command" /\ Return("error")
  \/ script = "blank" /\ Return("panic")

BeforeScript ==
  /\ At("before")
  /\ Hook(conf[cur].before, dpc' = "init" /\ UNCHANGED <<cur, result>>)
  /\ opened' = IF dpc' = "init" THEN opened \cup {cur} ELSE opened
  /\ UNCHANGED <<conf, todo, dump, env, closed, calls>>

-----------------------------------------------------------------------------
(* What init() of each type requires of a config *)

MySQLInit(c) == "database" \in c.given

MariaDBInit(c) == TRUE

RedisInit(c) == TRUE

PostgreSQLInit(c) == "database" \in c.given

MongoDBInit(c) == TRUE

SQLiteInit(c) == "path" \in c.given

MSSQLInit(c) == TRUE

InfluxDB2Init(c) == {"host", "token"} \subseteq c.given

(* One of the two, but not both. *)
EtcdInit(c) == "endpoint" \in c.given <=> "endpoints" \notin c.given

Accepts(c) ==
  CASE c.type = "mysql"      -> MySQLInit(c)
    [] c.type = "mariadb"    -> MariaDBInit(c)
    [] c.type = "redis"      -> RedisInit(c)
    [] c.type = "postgresql" -> PostgreSQLInit(c)
    [] c.type = "mongodb"    -> MongoDBInit(c)
    [] c.type = "sqlite"     -> SQLiteInit(c)
    [] c.type = "mssql"      -> MSSQLInit(c)
    [] c.type = "influxdb2"  -> InfluxDB2Init(c)
    [] c.type = "etcd"       -> EtcdInit(c)

InitDatabase ==
  /\ At("init")
  /\ IF Accepts(conf[cur])
       THEN dpc' = "perform" /\ UNCHANGED <<cur, result>>
       ELSE Return("error")
  /\ UNCHANGED <<conf, todo, dump, env, hooked, calls>>

-----------------------------------------------------------------------------
(* perform() of each type: what it may come to *)

(* helper.Exec: the tool is not found, or fails, or ends with status 0.    *)
Exec == {"ok", "failed"}

MySQLPerform == Exec

MariaDBPerform == Exec

MongoDBPerform == Exec

SQLitePerform == Exec

MSSQLPerform == Exec

InfluxDB2Perform == Exec

EtcdPerform == Exec

PostgreSQLPerform == Exec

(* Redis.init takes invoke_save back in mode copy. *)
InvokesSave(c) == c.save /\ c.mode # "copy"

(* trySave appends "SAVE" to the command of the mode and wants "OK" for an *)
(* answer.  The command is redis-cli in mode sync alone, and cp, which has *)
(* none to give, in any other.                                             *)
RedisPerform(c) ==
  IF InvokesSave(c) /\ c.mode # "sync" THEN {"failed"} ELSE Exec

Outcomes(c) ==
  CASE c.type = "mysql"      -> MySQLPerform
    [] c.type = "mariadb"    -> MariaDBPerform
    [] c.type = "redis"      -> RedisPerform(c)
    [] c.type = "postgresql" -> PostgreSQLPerform
    [] c.type = "mongodb"    -> MongoDBPerform
    [] c.type = "sqlite"     -> SQLitePerform
    [] c.type = "mssql"      -> MSSQLPerform
    [] c.type = "influxdb2"  -> InfluxDB2Perform
    [] c.type = "etcd"       -> EtcdPerform

BringsPassword(d) == conf[d].type = "postgresql" /\ conf[d].password # NoPassword

(* PostgreSQL.perform: os.Setenv for the whole process, and for good.  No  *)
(* other type touches the environment before it calls its tool.            *)
Setenv ==
  /\ At("perform")
  /\ env' = IF BringsPassword(cur) THEN conf[cur].password ELSE env
  /\ dpc' = "exec"
  /\ UNCHANGED <<conf, todo, cur, result, dump, hooked, calls>>

Called == {d \in Databases : dump[d] # "no"}

(* The tool inherits the environment. *)
CallTool ==
  /\ At("exec")
  /\ login' = [login EXCEPT ![cur] = env]
  /\ earlier' = [earlier EXCEPT ![cur] = Called]
  /\ UNCHANGED <<env, found>>

PerformSucceeds ==
  /\ CallTool
  /\ "ok" \in Outcomes(conf[cur])
  /\ dump' = [dump EXCEPT ![cur] = "ok"]
  /\ dpc' = "after"
  /\ UNCHANGED <<conf, todo, cur, result, hooked>>

(* A failed dump reaches after_script only if there is one and on_exit     *)
(* asks for it.                                                            *)
RunsAfterFailure(d) ==
  conf[d].after # "none" /\ conf[d].onExit \in {"always", "failure"}

(* Mutants: on_exit is not looked at; the error is logged only. *)
RunsAfterAlways ==
  /\ CallTool
  /\ "failed" \in Outcomes(conf[cur])
  /\ dump' = [dump EXCEPT ![cur] = "failed"]
  /\ IF conf[cur].after # "none"
       THEN dpc' = "after" /\ UNCHANGED <<cur, result>>
       ELSE Return("error")
  /\ UNCHANGED <<conf, todo, hooked>>

LoopsOnAfterFailure ==
  /\ CallTool
  /\ "failed" \in Outcomes(conf[cur])
  /\ dump' = [dump EXCEPT ![cur] = "failed"]
  /\ IF RunsAfterFailure(cur)
       THEN dpc' = "after" /\ UNCHANGED <<cur, result>>
       ELSE LoopOn
  /\ UNCHANGED <<conf, todo, hooked>>

PerformFails ==
  /\ CallTool
  /\ "failed" \in Outcomes(conf[cur])
  /\ dump' = [dump EXCEPT ![cur] = "failed"]
  /\ IF RunsAfterFailure(cur)
       THEN dpc' = "after" /\ UNCHANGED <<cur, result>>
       ELSE Return("error")
  /\ UNCHANGED <<conf, todo, hooked>>

(* Mutant: the script's nil replaces the error of the dump. *)
AfterScriptForgives ==
  /\ At("after")
  /\ closed' = IF conf[cur].after = "none" THEN closed ELSE closed \cup {cur}
  /\ Hook(conf[cur].after, LoopOn)
  /\ UNCHANGED <<conf, todo, dump, env, opened, calls>>

(* The error of a failed dump is returned after the script as well.        *)
AfterScript ==
  /\ At("after")
  /\ closed' = IF conf[cur].after = "none" THEN closed ELSE closed \cup {cur}
  /\ Hook(conf[cur].after, IF dump[cur] = "failed" THEN Return("error") ELSE LoopOn)
  /\ UNCHANGED <<conf, todo, dump, env, opened, calls>>

-----------------------------------------------------------------------------
(* The watcher, while the stage runs: loadConfig reads the .env file       *)

(* Mutant: godotenv.Overload, which replaces what is set. *)
OverloadDotEnv ==
  /\ result = "none"
  /\ env' \in Passwords \ {env, NoPassword}
  /\ found' = found \cup {env'}
  /\ UNCHANGED <<conf, todo, cur, dpc, result, dump, hooked, login, earlier>>

(* godotenv.Load sets what the environment has not.  The wait of Restart   *)
(* for the runs under way comes only after that.                           *)
LoadDotEnv ==
  /\ result = "none"
  /\ env = NoPassword
  /\ env' \in Passwords \ {NoPassword}
  /\ found' = found \cup {env'}
  /\ UNCHANGED <<conf, todo, cur, dpc, result, dump, hooked, login, earlier>>

Step ==
  \/ PickDatabase \/ AllDone
  \/ BeforeScript \/ InitDatabase
  \/ Setenv \/ PerformSucceeds \/ PerformFails
  \/ AfterScript

Returned == result # "none" /\ UNCHANGED dbVars

Next == Step \/ LoadDotEnv \/ Returned

Spec == Init /\ [][Next]_dbVars

-----------------------------------------------------------------------------
(* Correctness of the stage *)

TypeOK ==
  /\ conf \in [Databases -> DbConfigs]
  /\ todo \subseteq Databases
  /\ cur \in Databases \cup {Nobody}
  /\ dpc \in {"loop", "before", "init", "perform", "exec", "after"}
  /\ (dpc = "loop") = (cur = Nobody)
  /\ result \in {"none", "nil", "error", "panic"}
  /\ dump \in [Databases -> {"no", "ok", "failed"}]
  /\ env \in Passwords
  /\ opened \subseteq Databases
  /\ closed \subseteq Databases
  /\ found \subseteq Passwords
  /\ login \in [Databases -> Passwords]
  /\ earlier \in [Databases -> SUBSET Databases]

(* database.Run returns nil only if it dumped every database of a known    *)
(* type: no hook, whatever its outcome, hides a failed dump.               *)
NilMeansDumped ==
  result = "nil" => \A d \in Databases : conf[d].type \in Types => dump[d] = "ok"

(* When Run returns, the after_script has been run for each database that  *)
(* was dumped, and after a failed dump exactly where on_exit asks for it;  *)
(* never for one whose before_script did not complete.  The exception the  *)
(* code makes: a config that init() refuses once the before_script has     *)
(* been run, and nothing but that, leaves it without its after_script.     *)
HooksPaired ==
  /\ \A d \in closed : d \in opened /\ dump[d] # "no"
  /\ result # "none" =>
       \A d \in Databases :
         /\ dump[d] = "failed" => (d \in closed <=> RunsAfterFailure(d))
         /\ dump[d] = "ok" => (d \in closed <=> conf[d].after # "none")
         /\ d \in opened /\ dump[d] = "no" => ~Accepts(conf[d])

(* The first database to fail is the last one touched.                     *)
FailureStopsRun ==
  \A d, e \in Databases :
    d # e /\ dump[d] = "failed" => cur # e /\ dump[e] # "failed"

(* The databases of S that brought a password, and the last of them.       *)
Bringers(S) == {d \in S : BringsPassword(d)}
LastOf(S)   == {d \in S : S \ {d} \subseteq earlier[d]}

(* The password v is of the last of them, or, if there is none, what the   *)
(* process had from elsewhere.                                             *)
Latest(S, v) ==
  IF Bringers(S) = {} THEN v \in found
  ELSE \E e \in LastOf(Bringers(S)) : v = conf[e].password

(* Which PGPASSWORD pg_dump is given: that of its own config, even if the  *)
(* config is loaded again between Setenv and the call; without one, that   *)
(* of the last database before it, in the order the loop happened to take, *)
(* that brought one; and only if none did, what the process had from       *)
(* elsewhere.  Neither a database that init() refused nor one that comes   *)
(* later has a part in it.                                                 *)
PasswordIsLatest ==
  \A d \in Called :
    conf[d].type = "postgresql" => Latest(earlier[d] \cup {d}, login[d])
=============================================================================
