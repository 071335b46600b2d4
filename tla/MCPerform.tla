----------------------------- MODULE MCPerform -----------------------------
(* Instances of module Perform for TLC. *)
EXTENDS Perform

CONSTANTS db1, db2, s1, s2, secret

TwoDatabases == {db1, db2}
TwoStorages  == {s1, s2}

Config(type) ==
  [type |-> type, given |-> {"database"}, mode |-> "copy", save |-> FALSE,
   password |-> NoPassword, before |-> "none", after |-> "none", onExit |-> "always"]

(* With and without scripts, a script that cannot be run, a config that    *)
(* init() refuses, an unknown type, a password.                            *)
SomeConfigs ==
  {[Config("mysql") EXCEPT !.after = a] : a \in {"none", "command"}}
  \cup {[Config("mysql") EXCEPT !.before = b] : b \in {"command", "blank"}}
  \cup {Config("sqlite"), Config("other"),
        [Config("postgresql") EXCEPT !.password = secret]}
=============================================================================
