---------------------------- MODULE MCScheduler ----------------------------
(* Instances of module Scheduler for TLC. *)
EXTENDS Scheduler

CONSTANTS a, b  \* two models of the config

TwoModels == {a, b}

(* The first edit breaks the cron of one model, the next one mends it. *)
BrokenOnce == [v \in 0 .. MaxChanges |-> IF v = 1 THEN {b} ELSE {}]
=============================================================================
