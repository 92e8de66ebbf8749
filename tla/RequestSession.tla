--------------------------- MODULE RequestSession ---------------------------
(***************************************************************************)
(* What the extension remembers between the host's events (index.ts,       *)
(* recovery-state.ts): automatic routing narrows the active tools for one  *)
(* user request, and a failed code_execution run may arm one recovery hint *)
(* for the same request.                                                   *)
(*                                                                         *)
(* The host is pi: before_agent_start opens a request, agent_end closes it *)
(* once the tool calls it started have returned, "context" comes before    *)
(* each model turn.  Tool calls of one turn may run concurrently.          *)
(***************************************************************************)
EXTENDS Naturals, FiniteSets

CONSTANTS Tools,          \* names of tools, code_execution apart
          CodeExecution,  \* the tool this extension registers
          Calls           \* bound: code_execution calls one request may make

ASSUME SessionAssumption == CodeExecution \notin Tools /\ IsFiniteSet(Calls)

FailureClasses == {"missing-await", "async-wrapper-iterated"}
Names == Tools \cup {CodeExecution}

VARIABLES
  settings,       \* [autoRoute, autoRecover, autoRecoverMaxAttempts]
  registered,     \* pi knows code_execution
  activeTools,    \* pi.getActiveTools(); the order is left out
  savedTools,     \* activeToolsBeforeRouting: {} for null, {S} for the list S
  recoveryAllowed,
  pending,        \* pendingRecoveryPrompt, named by its class; "none" for null
  recovery,       \* PtcRecoveryState of the request, {} for null
  exec,           \* code_execution calls of the request
  \* the request as the host and the user see it
  request,        \* "none" | "plain" | "mutation": is a request open, which one
  before,         \* activeTools when it was opened
  touched,        \* somebody else changed activeTools since then
  hints,          \* recovery messages added to the context of the request
  earlier,        \* the calls of its request that had ended when a call began
  armedAfter      \* those of the call whose failure armed the hint

sessionVars == <<savedTools, recoveryAllowed, pending, recovery>>
history     == <<before, touched, hints, earlier, armedAfter>>
vars == <<settings, registered, activeTools, sessionVars, exec, request, history>>

Open == request # "none"
Running == {c \in Calls : exec[c] = "running"}

NoCalls == [c \in Calls |-> "idle"]

createPtcRecoveryState ==
  [autoRouted |-> FALSE, attempts |-> 0, recoveryAttempted |-> FALSE,
   failureClass |-> "none", terminalState |-> "none"]

Init ==
  /\ settings \in [autoRoute : BOOLEAN, autoRecover : BOOLEAN,
                   autoRecoverMaxAttempts : {0, 1}]
  /\ registered = FALSE
  /\ activeTools \in SUBSET Tools
  /\ savedTools = {} /\ recoveryAllowed = TRUE /\ pending = "none" /\ recovery = {}
  /\ exec = NoCalls /\ request = "none"
  /\ before = activeTools /\ touched = FALSE /\ hints = 0
  /\ earlier = [c \in Calls |-> {}] /\ armedAfter = {}

\* handleSessionStart: registers code_execution.  What the host and the custom
\* tools it starts do to activeTools is OthersChangeTools here.
SessionStart ==
  /\ ~Open
  /\ registered' = TRUE
  /\ UNCHANGED <<settings, activeTools, sessionVars, exec, request, history>>

\* applyAutoRouting past its early returns.
Routes(fits) == settings.autoRoute /\ fits /\ registered

Narrowed(routable) == (activeTools \ routable) \cup {CodeExecution}

\* The list saved is the one routing replaces; without a change none is saved.
\* getAutoRoutableToolNames answers routable, or throws on a helper name Python
\* cannot use: then handleBeforeAgentStart ends there and the host goes on.
applyAutoRouting(fits, answers, routable) ==
  IF Routes(fits) /\ answers /\ Narrowed(routable) # activeTools
  THEN /\ activeTools' = Narrowed(routable)
       /\ savedTools' = {activeTools}
  ELSE UNCHANGED <<activeTools, savedTools>>

\* handleBeforeAgentStart.  A prompt may be both: "use code_execution to fix..."
\* fits routing and asks for a mutation.
BeforeAgentStart(mutation, fits, answers, routable) ==
  /\ ~Open
  /\ request' = IF mutation THEN "mutation" ELSE "plain"
  /\ pending' = "none"
  /\ recoveryAllowed' = ~mutation
  /\ recovery' = {[createPtcRecoveryState EXCEPT !.autoRouted = Routes(fits)]}
  /\ applyAutoRouting(fits, answers, routable)
  /\ before' = activeTools /\ touched' = FALSE
  /\ hints' = 0 /\ armedAfter' = {}
  /\ UNCHANGED <<settings, registered, exec, earlier>>

\* code_execution.execute up to its await; the agent calls active tools only.
StartExecution(c) ==
  /\ Open /\ registered /\ CodeExecution \in activeTools /\ exec[c] = "idle"
  /\ exec' = [exec EXCEPT ![c] = "running"]
  /\ \E s \in recovery : recovery' = {[s EXCEPT !.attempts = @ + 1]}
  /\ earlier' = [earlier EXCEPT ![c] = {d \in Calls : exec[d] = "done"}]
  /\ UNCHANGED <<settings, registered, activeTools, savedTools, recoveryAllowed,
                 pending, request, before, touched, hints, armedAfter>>

ExecutionSucceeds(c) ==
  /\ exec[c] = "running"
  /\ exec' = [exec EXCEPT ![c] = "done"]
  /\ \E s \in recovery : recovery' = {[s EXCEPT !.terminalState = "success"]}
  /\ UNCHANGED <<settings, registered, activeTools, savedTools, recoveryAllowed,
                 pending, request, history>>

\* Faulty variant: an earlier attempt does not count.
canAttemptAlways(s) ==
  settings.autoRecover /\ settings.autoRecoverMaxAttempts > 0 /\ s.attempts > 0

canAttemptAutomaticRecovery(s) ==
  /\ settings.autoRecover /\ settings.autoRecoverMaxAttempts > 0
  /\ s.attempts > 0 /\ ~s.recoveryAttempted

\* execute's catch block arms a hint for a failure it can classify.
Arms(s, class) ==
  recoveryAllowed /\ class # "none" /\ canAttemptAutomaticRecovery(s)

\* Faulty variant: the catch block gives every classified failure its prompt
\* and only then asks whether it may.
ExecutionFailsUnasked(c, class) ==
  /\ exec[c] = "running"
  /\ exec' = [exec EXCEPT ![c] = "done"]
  /\ \E s \in recovery :
       /\ recovery' = {[s EXCEPT
            !.recoveryAttempted = @ \/ Arms(s, class),
            !.failureClass = IF Arms(s, class) THEN class ELSE @,
            !.terminalState = IF s.recoveryAttempted \/ Arms(s, class)
                              THEN "failed_after_recovery"
                              ELSE "failed_without_recovery"]}
       /\ pending' = IF recoveryAllowed /\ class # "none" THEN class ELSE pending
       /\ armedAfter' = IF Arms(s, class) THEN earlier[c] ELSE armedAfter
  /\ UNCHANGED <<settings, registered, activeTools, savedTools, recoveryAllowed,
                 request, before, touched, hints, earlier>>

\* execute's catch block: a PtcPythonError classified as class, or, with
\* "none", any other failure.
ExecutionFails(c, class) ==
  /\ exec[c] = "running"
  /\ exec' = [exec EXCEPT ![c] = "done"]
  /\ \E s \in recovery :
       /\ recovery' = {[s EXCEPT
            !.recoveryAttempted = @ \/ Arms(s, class),
            !.failureClass = IF Arms(s, class) THEN class ELSE @,
            !.terminalState = IF s.recoveryAttempted \/ Arms(s, class)
                              THEN "failed_after_recovery"
                              ELSE "failed_without_recovery"]}
       /\ pending' = IF Arms(s, class) THEN class ELSE pending
       /\ armedAfter' = IF Arms(s, class) THEN earlier[c] ELSE armedAfter
  /\ UNCHANGED <<settings, registered, activeTools, savedTools, recoveryAllowed,
                 request, before, touched, hints, earlier>>

\* handleContext: the hint goes into the messages of the next turn, once.
Context ==
  /\ Open /\ Running = {} /\ pending # "none"
  /\ hints' = hints + 1
  /\ pending' = "none"
  /\ UNCHANGED <<settings, registered, activeTools, savedTools, recoveryAllowed,
                 recovery, exec, request, before, touched, earlier,
                 armedAfter>>

\* Faulty variant: the saved list stays and is restored again later.
RestoreKeepsList ==
  /\ activeTools' = IF savedTools = {} THEN activeTools ELSE UNION savedTools
  /\ UNCHANGED savedTools

restoreActiveToolsAfterRouting ==
  /\ activeTools' = IF savedTools = {} THEN activeTools ELSE UNION savedTools
  /\ savedTools' = {}

\* Faulty variant: the recovery state outlives its request.
AgentEndKeepsState ==
  /\ Open /\ Running = {}
  /\ restoreActiveToolsAfterRouting
  /\ pending' = "none" /\ recoveryAllowed' = TRUE
  /\ request' = "none" /\ exec' = NoCalls /\ hints' = 0
  /\ UNCHANGED <<settings, registered, recovery, before, touched, earlier,
                 armedAfter>>

AgentEnd ==
  /\ Open /\ Running = {}
  /\ restoreActiveToolsAfterRouting
  /\ pending' = "none" /\ recoveryAllowed' = TRUE /\ recovery' = {}
  /\ request' = "none" /\ exec' = NoCalls /\ hints' = 0
  /\ UNCHANGED <<settings, registered, before, touched, earlier,
                 armedAfter>>

\* setActiveTools called from elsewhere: CustomToolManager.setToolActive and
\* deactivateTool, the host's registerTool, or the user's own selection.
OthersChangeTools(t) ==
  /\ t = CodeExecution => registered
  /\ activeTools' = IF t \in activeTools THEN activeTools \ {t}
                                         ELSE activeTools \cup {t}
  /\ touched' = TRUE
  /\ UNCHANGED <<settings, registered, sessionVars, exec, request, before, hints,
                 earlier, armedAfter>>

Next ==
  \/ SessionStart
  \/ \E mutation, fits, answers \in BOOLEAN, routable \in SUBSET Tools :
       BeforeAgentStart(mutation, fits, answers, routable)
  \/ \E c \in Calls : StartExecution(c) \/ ExecutionSucceeds(c)
  \/ \E c \in Calls, class \in FailureClasses \cup {"none"} :
       ExecutionFails(c, class)
  \/ Context
  \/ AgentEnd
  \/ \E t \in Names : OthersChangeTools(t)

Spec == Init /\ [][Next]_vars

-----------------------------------------------------------------------------
(* Properties *)

RecoveryStates ==
  [autoRouted : BOOLEAN, attempts : Nat, recoveryAttempted : BOOLEAN,
   failureClass : FailureClasses \cup {"none"},
   terminalState : {"none", "success", "failed_without_recovery",
                    "failed_after_recovery"}]

\* Every variable has its type; the recovery state exists exactly while a
\* request is open (PtcSessionState, PtcRecoveryState).
TypeOK ==
  /\ settings \in [autoRoute : BOOLEAN, autoRecover : BOOLEAN,
                   autoRecoverMaxAttempts : {0, 1}]
  /\ registered \in BOOLEAN
  /\ activeTools \in SUBSET Names
  /\ savedTools \in SUBSET SUBSET Names /\ \A S, T \in savedTools : S = T
  /\ recoveryAllowed \in BOOLEAN /\ pending \in FailureClasses \cup {"none"}
  /\ recovery \in SUBSET RecoveryStates /\ \A s, t \in recovery : s = t
  /\ Open <=> recovery # {}
  /\ exec \in [Calls -> {"idle", "running", "done"}]
  /\ request \in {"none", "plain", "mutation"}
  /\ before \in SUBSET Names /\ touched \in BOOLEAN
  /\ hints \in Nat /\ earlier \in [Calls -> SUBSET Calls]
  /\ armedAfter \in SUBSET Calls

\* At most one recovery message per user request, however many calls fail and
\* in whatever order they finish, and none for a mutation prompt or with
\* recovery switched off (README, "Bounded async-only recovery").
MayHint == settings.autoRecover /\ request = "plain"
Hints == hints + (IF pending = "none" THEN 0 ELSE 1)
OneHintPerRequest == Hints <= (IF MayHint THEN 1 ELSE 0)

\* The telemetry agrees with what the user gets: recovery is reported as
\* attempted exactly when its hint is waiting for the next turn or was given in
\* this request, and the hint is for the reported failure (execute,
\* handleContext, buildPtcRecoveryDetails).
HintIsAccountedFor ==
  /\ \A s \in recovery :
       /\ s.recoveryAttempted <=> pending # "none" \/ hints > 0
       /\ pending # "none" => s.failureClass = pending
  /\ pending # "none" => Open

\* Routing lasts for one request: when it ends, the active tools are what they
\* were when it began, unless somebody else changed them meanwhile
\* (docs/PTC-RESEARCH.md, "On agent_end, the previous active-tool state is
\* restored").
RoutingIsTemporary == ~Open /\ ~touched => activeTools = before

\* Recovery is for the first attempt of a request only (README, "only
\* async-only first-attempt failures are eligible"): no call of the request has
\* ended before the one that arms the hint begins.
FirstAttemptOnly == armedAfter = {}

=============================================================================
