---------------------------- MODULE RpcRefinement ----------------------------
(***************************************************************************)
(* RpcBridge implements Execution: pipes, pending_calls, the reader, the   *)
(* process and the microtask queue are the detail the mapping forgets.     *)
(***************************************************************************)
EXTENDS RpcBridge

absProgram ==
  CASE terminal = "complete" -> "returned"
    [] terminal = "error"    -> "raised"
    [] terminal = "none"     -> IF PyHolds THEN "running" ELSE "gone"

\* A tool whose value cannot be serialised counts as one that failed.
absTool == [i \in Ids |->
  IF tool[i] \in Finished THEN (IF tool[i] \in {"ok", "big"} THEN "ok" ELSE "err")
                          ELSE tool[i]]

absCaller == [i \in Ids |->
  IF caller[i] \in {"expired", "timeout", "lost", "cancelled"} THEN "failed" ELSE caller[i]]

Abstract == INSTANCE Execution
  WITH program <- absProgram, tool <- absTool, caller <- absCaller

\* Every step of the bridge is a step of Execution or invisible to it: one
\* verdict, never revised and true to the program; one run per tool call; no
\* caller sees another call's answer, an answer twice, or one after giving up.
ImplementsExecution == Abstract!Spec
=============================================================================
