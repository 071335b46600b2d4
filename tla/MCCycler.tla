------------------------------ MODULE MCCycler ------------------------------
(* Instances of module Cycler for TLC. *)
EXTENDS Cycler

CONSTANTS daemon, cli  \* the daemon, and a "perform" started by hand

OneProc  == {daemon}
TwoProcs == {daemon, cli}

Keep12  == {1, 2}
Keep012 == {0, 1, 2}
=============================================================================
