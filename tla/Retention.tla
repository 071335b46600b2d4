----------------------------- MODULE Retention -----------------------------
(***************************************************************************)
(* What the rotation of a storage promises to whoever relies on "keep",    *)
(* without the cycler file, the processes or their failures.  An archive   *)
(* enters the storage once, enters the history once while it is there, and *)
(* leaves the storage only after "keep" others entered the history behind  *)
(* it.  Module Cycler is shown to implement this.                          *)
(***************************************************************************)
EXTENDS Integers

CONSTANTS
  Keys,   \* names of archives
  Keeps   \* the values of "keep" in use; 0 keeps everything

VARIABLES
  live,     \* archives in the storage
  count,    \* how many archives have entered the history
  addedAt   \* at which place of the history each did, 0 if it has not

retVars == <<live, count, addedAt>>

Init ==
  /\ live = {}
  /\ count = 0
  /\ addedAt = [k \in Keys |-> 0]

Store(k) ==
  /\ k \notin live
  /\ addedAt[k] = 0
  /\ live' = live \cup {k}
  /\ UNCHANGED <<count, addedAt>>

Record(k) ==
  /\ k \in live
  /\ addedAt[k] = 0
  /\ count' = count + 1
  /\ addedAt' = [addedAt EXCEPT ![k] = count + 1]
  /\ UNCHANGED live

Expire(k) ==
  /\ k \in live
  /\ addedAt[k] # 0
  /\ \E n \in Keeps \ {0} : count - addedAt[k] >= n
  /\ live' = live \ {k}
  /\ UNCHANGED <<count, addedAt>>

Next == \E k \in Keys : Store(k) \/ Record(k) \/ Expire(k)

Spec == Init /\ [][Next]_retVars
=============================================================================
