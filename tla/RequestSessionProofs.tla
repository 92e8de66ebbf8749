------------------------- MODULE RequestSessionProofs -------------------------
(* Proofs about RequestSession, for any tools and any number of calls. *)
EXTENDS RequestSession, TLAPS

\* What the open request's state says about each other.
RequestInv ==
  /\ recoveryAllowed <=> request # "mutation"
  /\ pending # "none" => request = "plain"
  /\ ~Open => hints = 0
  /\ \A s \in recovery : s.recoveryAttempted => MayHint

\* The list routing has replaced, and nothing else, is kept for the request.
RoutingInv ==
  /\ ~Open => savedTools = {}
  /\ savedTools # {} => savedTools = {before}
  /\ ~touched /\ savedTools = {} => activeTools = before

SessionInv ==
  /\ TypeOK /\ RequestInv /\ RoutingInv
  /\ HintIsAccountedFor /\ OneHintPerRequest

\* A new session has no request, no hint and nothing saved.
LEMMA SessionInit == Init => SessionInv
<1> SUFFICES ASSUME Init PROVE SessionInv
  OBVIOUS
<1>1. TypeOK
  BY DEF Init, TypeOK, Names, NoCalls, Open
<1>2. RequestInv /\ RoutingInv /\ HintIsAccountedFor
  BY DEF Init, RequestInv, RoutingInv, HintIsAccountedFor, Open
<1>3. OneHintPerRequest
  BY DEF Init, OneHintPerRequest, Hints, MayHint
<1>4. QED
  BY <1>1, <1>2, <1>3 DEF SessionInv

\* The one recovery state of an open request.
LEMMA TheState ==
  ASSUME TypeOK, Open
  PROVE  \E s \in RecoveryStates : recovery = {s}
<1>1. PICK s \in recovery : TRUE
  BY DEF TypeOK
<1>2. recovery = {s} /\ s \in RecoveryStates
  BY <1>1 DEF TypeOK
<1>3. QED
  BY <1>2

\* The start of a code_execution call counts an attempt, and no more.
LEMMA StartStep ==
  ASSUME SessionInv, NEW c \in Calls, StartExecution(c)
  PROVE  SessionInv'
<1> USE DEF SessionInv, Open
<1>1. PICK s \in RecoveryStates : recovery = {s}
  BY TheState DEF StartExecution
<1>2. DEFINE t == [s EXCEPT !.attempts = @ + 1]
<1>3. /\ recovery' = {t} /\ earlier' \in [Calls -> SUBSET Calls]
      /\ t \in RecoveryStates /\ s.attempts \in Nat
      /\ t.recoveryAttempted = s.recoveryAttempted
      /\ t.failureClass = s.failureClass
  BY <1>1 DEF StartExecution, RecoveryStates, TypeOK
<1> HIDE DEF t
<1>4. TypeOK'
  BY <1>3 DEF TypeOK, StartExecution
<1>5. RequestInv'
  BY <1>1, <1>3 DEF RequestInv, StartExecution, MayHint
<1>6. RoutingInv'
  BY DEF RoutingInv, StartExecution
<1>7. HintIsAccountedFor'
  BY <1>1, <1>3 DEF HintIsAccountedFor, StartExecution
<1>8. OneHintPerRequest'
  BY DEF OneHintPerRequest, Hints, MayHint, StartExecution
<1>9. QED
  BY <1>4, <1>5, <1>6, <1>7, <1>8

\* A call that succeeds arms nothing.
LEMMA SucceedStep ==
  ASSUME SessionInv, NEW c \in Calls, ExecutionSucceeds(c), Open
  PROVE  SessionInv'
<1> USE DEF SessionInv, Open, history
<1>1. PICK s \in RecoveryStates : recovery = {s}
  BY TheState
<1>2. DEFINE t == [s EXCEPT !.terminalState = "success"]
<1>3. /\ recovery' = {t} /\ t \in RecoveryStates
      /\ t.recoveryAttempted = s.recoveryAttempted
      /\ t.failureClass = s.failureClass
  BY <1>1 DEF ExecutionSucceeds, RecoveryStates
<1> HIDE DEF t
<1>4. TypeOK'
  BY <1>3 DEF TypeOK, ExecutionSucceeds
<1>5. RequestInv'
  BY <1>1, <1>3 DEF RequestInv, ExecutionSucceeds, MayHint
<1>6. RoutingInv'
  BY DEF RoutingInv, ExecutionSucceeds
<1>7. HintIsAccountedFor'
  BY <1>1, <1>3 DEF HintIsAccountedFor, ExecutionSucceeds
<1>8. OneHintPerRequest'
  BY DEF OneHintPerRequest, Hints, MayHint, ExecutionSucceeds
<1>9. QED
  BY <1>4, <1>5, <1>6, <1>7, <1>8

\* A call that fails arms a hint at most once per request, however many calls overlap.
LEMMA FailStep ==
  ASSUME SessionInv, NEW c \in Calls, NEW class \in FailureClasses \cup {"none"},
         ExecutionFails(c, class), Open
  PROVE  SessionInv'
<1> USE DEF SessionInv, Open
<1>1. PICK s \in RecoveryStates : recovery = {s}
  BY TheState
<1>2. DEFINE t == [s EXCEPT
        !.recoveryAttempted = @ \/ Arms(s, class),
        !.failureClass = IF Arms(s, class) THEN class ELSE @,
        !.terminalState = IF s.recoveryAttempted \/ Arms(s, class)
                          THEN "failed_after_recovery"
                          ELSE "failed_without_recovery"]
<1>3. /\ recovery' = {t}
      /\ pending' = IF Arms(s, class) THEN class ELSE pending
      /\ armedAfter' = IF Arms(s, class) THEN earlier[c] ELSE armedAfter
  BY <1>1 DEF ExecutionFails
<1>4. Arms(s, class) \in BOOLEAN /\ s.recoveryAttempted \in BOOLEAN
  BY DEF Arms, canAttemptAutomaticRecovery, RecoveryStates
<1>5. t \in RecoveryStates
  BY <1>4 DEF RecoveryStates
<1>6. /\ t.recoveryAttempted <=> s.recoveryAttempted \/ Arms(s, class)
      /\ t.failureClass = IF Arms(s, class) THEN class ELSE s.failureClass
  BY <1>4 DEF RecoveryStates
<1> HIDE DEF t
<1>7. TypeOK'
  BY <1>3, <1>5 DEF TypeOK, ExecutionFails
<1>8. CASE Arms(s, class)
  <2>1. /\ class # "none" /\ request = "plain" /\ MayHint
        /\ ~s.recoveryAttempted /\ pending = "none" /\ hints = 0
    BY <1>1, <1>8 DEF Arms, canAttemptAutomaticRecovery, RequestInv, TypeOK,
       MayHint, HintIsAccountedFor
  <2>2. RequestInv'
    BY <1>3, <2>1 DEF RequestInv, ExecutionFails, MayHint
  <2>3. HintIsAccountedFor'
    BY <1>3, <1>6, <1>8, <2>1 DEF HintIsAccountedFor, ExecutionFails
  <2>4. OneHintPerRequest'
    BY <1>3, <1>8, <2>1 DEF OneHintPerRequest, Hints, MayHint, ExecutionFails
  <2>5. QED
    BY <1>7, <2>2, <2>3, <2>4 DEF RoutingInv, ExecutionFails
<1>9. CASE ~Arms(s, class)
  <2>1. RequestInv'
    BY <1>1, <1>3, <1>6, <1>9 DEF RequestInv, ExecutionFails, MayHint
  <2>2. HintIsAccountedFor'
    BY <1>1, <1>3, <1>6, <1>9 DEF HintIsAccountedFor, ExecutionFails
  <2>3. OneHintPerRequest'
    BY <1>3, <1>9 DEF OneHintPerRequest, Hints, MayHint, ExecutionFails
  <2>4. QED
    BY <1>7, <2>1, <2>2, <2>3 DEF RoutingInv, ExecutionFails
<1>10. QED
  BY <1>8, <1>9

\* A request opens with no hint and with the list routing has replaced saved.
LEMMA BeforeAgentStep ==
  ASSUME SessionInv, NEW mutation \in BOOLEAN, NEW fits \in BOOLEAN,
         NEW answers \in BOOLEAN, NEW routable \in SUBSET Tools,
         BeforeAgentStart(mutation, fits, answers, routable)
  PROVE  SessionInv'
<1> USE DEF SessionInv, Open
<1>1. Routes(fits) \in BOOLEAN
  BY DEF Routes
<1>2. DEFINE s == [createPtcRecoveryState EXCEPT !.autoRouted = Routes(fits)]
<1>3. recovery' = {s} /\ s \in RecoveryStates /\ s.recoveryAttempted = FALSE
  BY <1>1 DEF BeforeAgentStart, createPtcRecoveryState, RecoveryStates
<1> HIDE DEF s
<1>4. Narrowed(routable) \in SUBSET Names /\ before' \in SUBSET Names
  BY DEF Narrowed, Names, TypeOK, BeforeAgentStart
<1>5. /\ activeTools' \in SUBSET Names
      /\ \/ savedTools' = {} /\ activeTools' = before'
         \/ savedTools' = {before'}
  BY <1>4 DEF BeforeAgentStart, applyAutoRouting, TypeOK, RoutingInv
<1>6. TypeOK'
  <2>1. savedTools' \in SUBSET SUBSET Names /\ \A S, T \in savedTools' : S = T
    BY <1>4, <1>5
  <2>2. QED
    BY <1>3, <1>4, <1>5, <2>1 DEF TypeOK, BeforeAgentStart
<1>7. RequestInv'
  BY <1>3 DEF RequestInv, BeforeAgentStart
<1>8. RoutingInv'
  BY <1>5 DEF RoutingInv, BeforeAgentStart
<1>9. HintIsAccountedFor'
  <2>1. pending' = "none" /\ hints' = 0
    BY DEF BeforeAgentStart
  <2>2. ~(pending' # "none" \/ hints' > 0)
    BY <2>1
  <2>3. \A r \in recovery' : r.recoveryAttempted = FALSE
    BY <1>3
  <2>4. QED
    BY <2>1, <2>2, <2>3 DEF HintIsAccountedFor
<1>10. OneHintPerRequest'
  BY DEF OneHintPerRequest, Hints, MayHint, BeforeAgentStart
<1>11. QED
  BY <1>6, <1>7, <1>8, <1>9, <1>10

\* The next model turn takes the hint that waits.
LEMMA ContextStep ==
  ASSUME SessionInv, Context
  PROVE  SessionInv'
<1> USE DEF SessionInv, Open
<1>1. TypeOK'
  BY DEF TypeOK, Context
<1>2. RequestInv'
  BY DEF RequestInv, Context, MayHint
<1>3. HintIsAccountedFor'
  BY DEF HintIsAccountedFor, Context, TypeOK
<1>4. OneHintPerRequest'
  BY DEF OneHintPerRequest, Hints, MayHint, Context, TypeOK
<1>5. QED
  BY <1>1, <1>2, <1>3, <1>4 DEF RoutingInv, Context

\* Closing a request restores the saved list, which is the one before it.
LEMMA AgentEndStep ==
  ASSUME SessionInv, AgentEnd
  PROVE  SessionInv'
<1> USE DEF SessionInv, Open
<1>1. savedTools # {} => activeTools' = before
  BY DEF AgentEnd, restoreActiveToolsAfterRouting, RoutingInv
<1>2. savedTools = {} => activeTools' = activeTools
  BY DEF AgentEnd, restoreActiveToolsAfterRouting
<1>3. savedTools' = {} /\ before' = before /\ touched' = touched
  BY DEF AgentEnd, restoreActiveToolsAfterRouting
<1>4. RoutingInv'
  BY <1>1, <1>2, <1>3 DEF RoutingInv
<1>5. TypeOK'
  BY <1>1, <1>2, <1>3 DEF TypeOK, AgentEnd, NoCalls
<1>6. RequestInv' /\ HintIsAccountedFor'
  BY DEF RequestInv, HintIsAccountedFor, AgentEnd
<1>7. OneHintPerRequest'
  BY DEF OneHintPerRequest, Hints, MayHint, AgentEnd
<1>8. QED
  BY <1>4, <1>5, <1>6, <1>7

\* What others do to the tools, and a new session, leave the hints alone.
LEMMA QuietSessionStep ==
  ASSUME SessionInv,
         SessionStart \/ (\E t \in Names : OthersChangeTools(t)) \/ UNCHANGED vars
  PROVE  SessionInv'
<1> USE DEF SessionInv, Open, vars, sessionVars, history
<1>1. TypeOK'
  BY DEF TypeOK, SessionStart, OthersChangeTools
<1>2. RequestInv' /\ HintIsAccountedFor'
  BY DEF RequestInv, HintIsAccountedFor, SessionStart, OthersChangeTools, MayHint
<1>3. RoutingInv'
  BY DEF RoutingInv, SessionStart, OthersChangeTools
<1>4. OneHintPerRequest'
  BY DEF OneHintPerRequest, Hints, MayHint, SessionStart, OthersChangeTools
<1>5. QED
  BY <1>1, <1>2, <1>3, <1>4

\* Calls run only while their request is open.
CallsInv == Open \/ Running = {}

\* The invariant holds throughout.
LEMMA SessionInvariant == Spec => [](SessionInv /\ CallsInv)
<1>1. Init => SessionInv /\ CallsInv
  BY SessionInit DEF Init, CallsInv, Running, NoCalls
<1>2. SessionInv /\ CallsInv /\ [Next]_vars => SessionInv' /\ CallsInv'
  <2> SUFFICES ASSUME SessionInv, CallsInv, [Next]_vars
               PROVE  SessionInv' /\ CallsInv'
    OBVIOUS
  <2>1. ASSUME NEW c \in Calls, exec[c] = "running" PROVE Open
    BY <2>1 DEF CallsInv, Running
  <2>2. SessionInv'
    BY <2>1, StartStep, SucceedStep, FailStep, BeforeAgentStep, ContextStep,
       AgentEndStep, QuietSessionStep
       DEF Next, ExecutionSucceeds, ExecutionFails
  <2>3. CallsInv'
    BY DEF CallsInv, Open, Running, Next, vars, sessionVars, history, SessionStart,
       BeforeAgentStart, StartExecution, ExecutionSucceeds, ExecutionFails, Context,
       AgentEnd, OthersChangeTools, NoCalls, SessionInv, TypeOK
  <2>4. QED
    BY <2>2, <2>3
<1>3. QED
  BY <1>1, <1>2, PTL DEF Spec

\* Every reachable state is well typed, and a recovery state exists exactly
\* while a request is open (PtcSessionState).
THEOREM SessionTypeCorrect == Spec => []TypeOK
<1>1. SessionInv => TypeOK
  BY DEF SessionInv
<1>2. QED
  BY <1>1, SessionInvariant, PTL

\* However many code_execution calls fail, concurrently or in turn, a request
\* gets at most one recovery hint, and a mutation prompt none.
THEOREM HintsBounded == Spec => []OneHintPerRequest
<1>1. SessionInv => OneHintPerRequest
  BY DEF SessionInv
<1>2. QED
  BY <1>1, SessionInvariant, PTL

\* The recovery telemetry agrees with the hints the user gets.
THEOREM HintsAccounted == Spec => []HintIsAccountedFor
<1>1. SessionInv => HintIsAccountedFor
  BY DEF SessionInv
<1>2. QED
  BY <1>1, SessionInvariant, PTL

\* Automatic routing is undone when its request ends, unless somebody else
\* changed the active tools.
THEOREM RoutingUndone == Spec => []RoutingIsTemporary
<1>1. SessionInv => RoutingIsTemporary
  BY DEF SessionInv, RoutingInv, RoutingIsTemporary
<1>2. QED
  BY <1>1, SessionInvariant, PTL

=============================================================================
