--------------------------- MODULE MCDaemonStatus ---------------------------
(* Instances of module DaemonStatus for TLC. *)
EXTENDS DaemonStatus

(* Two processes of one group and one without a group. *)
ThreeProcs == {"p", "q", "r"}
TwoGroups  == {"g", ""}
GroupsOf   == [p \in ThreeProcs |-> IF p = "r" THEN "" ELSE "g"]

(* The name of a group with two processes is not the name of a process. *)
FourIds == {"p", "q", "r", "g"}
ProcsOf == [id \in FourIds |-> IF id = "g" THEN None ELSE id]
=============================================================================
