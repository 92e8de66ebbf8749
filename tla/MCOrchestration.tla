---------------------------- MODULE MCOrchestration ----------------------------
(* TLC instance of Orchestration: how max_concurrency may be given. *)
EXTENDS Orchestration

Given == {{}, {0}, {2}}
=============================================================================
