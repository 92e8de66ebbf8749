------------------------------ MODULE Execution ------------------------------
(***************************************************************************)
(* What one code_execution run promises its two callers, without pipes,    *)
(* event loops or buffers: the agent gets one verdict that agrees with     *)
(* what the program did, and each nested tool call of the program runs its *)
(* tool at most once and, if it is answered at all, is answered with what  *)
(* that tool produced.                                                     *)
(***************************************************************************)
CONSTANT Ids        \* the nested tool calls the program may make

VARIABLES program,  \* "running" | "returned" | "raised" | "gone" (it will never
                    \* report anything any more)
          verdict,  \* what the agent was told, "none" so far
          tool,     \* state of the tool behind each call
          caller    \* what the program has seen of each call

vars == <<program, verdict, tool, caller>>

Init ==
  /\ program = "running" /\ verdict = "none"
  /\ tool = [i \in Ids |-> "idle"] /\ caller = [i \in Ids |-> "idle"]

\* A program that has returned may still have tasks that call tools.
Request(i) ==
  /\ caller[i] = "idle"
  /\ caller' = [caller EXCEPT ![i] = "waiting"]
  /\ UNCHANGED <<program, verdict, tool>>

Run(i) ==
  /\ caller[i] # "idle" /\ tool[i] = "idle"
  /\ tool' = [tool EXCEPT ![i] = "running"]
  /\ UNCHANGED <<program, verdict, caller>>

Finish(i, r) ==
  /\ tool[i] = "running"
  /\ tool' = [tool EXCEPT ![i] = r]
  /\ UNCHANGED <<program, verdict, caller>>

Answer(i) ==
  /\ caller[i] = "waiting" /\ tool[i] \in {"ok", "err"}
  /\ caller' = [caller EXCEPT ![i] = tool[i]]
  /\ UNCHANGED <<program, verdict, tool>>

\* Some calls are given up: their timers fired, or the reader died.
GiveUp(S) ==
  /\ \A i \in S : caller[i] = "waiting"
  /\ caller' = [i \in Ids |-> IF i \in S THEN "failed" ELSE caller[i]]
  /\ UNCHANGED <<program, verdict, tool>>

EndProgram(how) ==
  /\ program = "running" /\ program' = how
  /\ UNCHANGED <<verdict, tool, caller>>

Tell(v) ==
  /\ verdict = "none" /\ verdict' = v
  /\ v = "complete" => program = "returned"
  /\ v = "python" => program \in {"raised", "gone"}
  /\ v = "transport" => program = "gone"
  /\ UNCHANGED <<program, tool, caller>>

NeverStarted ==
  /\ program = "running" /\ program' = "gone"
  /\ verdict = "none" /\ verdict' = "transport"
  /\ UNCHANGED <<tool, caller>>

Verdicts == {"complete", "python", "protocol", "transport", "abort", "timeout"}

Next ==
  \/ \E i \in Ids : Request(i) \/ Run(i) \/ Answer(i)
  \/ \E i \in Ids, r \in {"ok", "err"} : Finish(i, r)
  \/ \E S \in SUBSET Ids : GiveUp(S)
  \/ \E how \in {"returned", "raised", "gone"} : EndProgram(how)
  \/ \E v \in Verdicts : Tell(v)
  \/ NeverStarted

Spec == Init /\ [][Next]_vars
=============================================================================
