----------------------------- MODULE MCBackends -----------------------------
(* Instance of module Backends for TLC. *)
EXTENDS Backends

CONSTANTS a, b  \* two models

TwoModels == {a, b}

(* Nothing; what the types require; a host alone. *)
SomeOptions ==
  {{}, {"host"},
   {"host", "username", "password", "root", "client"}}
=============================================================================
