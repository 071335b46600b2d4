----------------------------- MODULE MCDatabase -----------------------------
(* Instance of module Database for TLC. *)
EXTENDS Database

CONSTANTS db1, db2, secret, other

TwoDatabases == {db1, db2}

Config(type) ==
  [type |-> type, given |-> Options \ {"endpoints"}, mode |-> "copy", save |-> TRUE,
   password |-> NoPassword, before |-> "none", after |-> "none", onExit |-> ""]

(* Every combination of the hooks; every type, complete and with nothing   *)
(* given; etcd with both options; passwords; modes of redis.               *)
SomeConfigs ==
  {[Config("mysql") EXCEPT !.before = b, !.after = a, !.onExit = e] :
     b \in Scripts, a \in Scripts, e \in OnExits}
  \cup {Config(t) : t \in Types \cup {"other"}}
  \cup {[Config(t) EXCEPT !.given = {}, !.before = b, !.after = "command", !.onExit = "always"] :
          t \in Types, b \in {"none", "command"}}
  \cup {[Config("etcd") EXCEPT !.given = Options]}
  \cup {[Config("postgresql") EXCEPT !.password = p] : p \in {secret, other}}
  \cup {[Config("redis") EXCEPT !.mode = m, !.save = s] : m \in Modes, s \in BOOLEAN}
=============================================================================
