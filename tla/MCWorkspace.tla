----------------------------- MODULE MCWorkspace -----------------------------
(* Instances of module Workspace for TLC. *)
EXTENDS Workspace

CONSTANTS a, w1, w2  \* a model, two directories

OneModel == {a}
TwoDirs  == {w1, w2}
=============================================================================
