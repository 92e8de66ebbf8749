----------------------------- MODULE CodeExecutor -----------------------------
(***************************************************************************)
(* CodeExecutor.execute (code-executor.ts) and the sandbox its programs    *)
(* run in (sandbox-manager.ts): one Docker container, used again by        *)
(* execution after execution, that a timer stops once it has been idle     *)
(* for EXECUTION_TIMEOUT.  RpcBridge models what a program does meanwhile. *)
(*                                                                         *)
(* Node waits for docker run and docker stop (execSync), so an execution   *)
(* starts in one step.  Time is counted since the last execution started   *)
(* and, per run, since it started, up to one unit past what is compared.   *)
(*                                                                         *)
(* External: Docker runs a container until docker stop or until it dies,   *)
(* --rm removes it, and a program ends with the container it is in.        *)
(***************************************************************************)
EXTENDS Integers, FiniteSets

CONSTANTS Runs,           \* executions; a container is named after the one it
                          \* was made for
          EXECUTION_TIMEOUT,
          Timeouts,       \* choices of PTC_EXECUTION_TIMEOUT_MS
          MaxOutputs,     \* choices of PTC_MAX_OUTPUT_CHARS
          Sizes           \* lengths of what a program prints

\* No string of Node's JavaScript engine is longer.
MaxStringLength == 536870888

ASSUME ExecutorAssumption ==
  /\ EXECUTION_TIMEOUT \in Nat \ {0} /\ Timeouts \subseteq Nat \ {0}
  /\ MaxOutputs \subseteq Nat \ {0} /\ Sizes \subseteq 0..MaxStringLength
  /\ {"none", "host"} \cap Runs = {}

VARIABLES
  executionTimeout, maxOutputChars,   \* settings
  sandbox,       \* "docker" | "subprocess" | "refused": createSandbox's choice
  containerId,   \* "none" for null
  idle,          \* Date.now() - lastUsed
  armed,         \* cleanupInterval is not null
  up,            \* the containers Docker runs
  status,        \* per run, "new" | "running" | "settled"
  home,          \* per run that runs, its container or "host"
  age,           \* per run that runs, the time since it was started
  output,        \* of the last run that completed: what execute returned
  \* history, for the properties
  printed,       \* the length of what the program of that run had printed
  died,          \* containers that have died on their own
  unstopped,     \* containers whose docker stop has failed
  closed         \* cleanup was called

settings == <<executionTimeout, maxOutputChars, sandbox>>
containerVars == <<containerId, up, unstopped>>
runVars == <<status, home, age>>
result == <<output, printed>>
vars == <<settings, containerVars, idle, armed, runVars, result, died, closed>>

Cap(n, limit) == IF n > limit THEN limit ELSE n
AtLeast(n, least) == IF n < least THEN least ELSE n
Running(r) == status[r] = "running"

-----------------------------------------------------------------------------
(* truncateOutput, by lengths *)

Digits(n) == CHOOSE d \in 1..9 : n < 10^d /\ (d = 1 \/ n >= 10^(d - 1))

\* buildNotice: "\n\n[Output truncated - showing first S characters of N]".
NoticeLength(shown, length) == 52 + Digits(shown) + Digits(length)

\* Faulty variant: room is made for a notice once, with the wrong number in it.
truncateOutputOnce(length, max) ==
  LET limit == AtLeast(max, 1)
      budget == limit - NoticeLength(limit, length)
  IN IF length <= limit THEN [shown |-> length, told |-> {}, length |-> length]
     ELSE [shown |-> budget, told |-> {limit},
           length |-> budget + NoticeLength(limit, length)]

\* The notice counts the characters it leaves room for, which changes its own
\* length: up to four attempts to get both right.
truncateOutput(length, max) ==
  LET limit == AtLeast(max, 1)
      nextBudget(told) == limit - NoticeLength(AtLeast(told, 0), length)
      b0 == nextBudget(limit)
      b1 == nextBudget(b0)
      b2 == nextBudget(b1)
      b3 == nextBudget(b2)
      b4 == nextBudget(b3)
  IN IF length <= limit THEN [shown |-> length, told |-> {}, length |-> length]
     ELSE IF \E b \in {b0, b1, b2, b3, b4} : b <= 0
     THEN [shown |-> limit, told |-> {}, length |-> limit]
     ELSE [shown |-> b4, told |-> {b3}, length |-> b4 + NoticeLength(b3, length)]

-----------------------------------------------------------------------------
(* DockerSandbox *)

createSandbox(useDocker, available, allowUnsandboxed) ==
  IF useDocker THEN IF available THEN "docker" ELSE "refused"
  ELSE IF allowUnsandboxed THEN "subprocess" ELSE "refused"

Init ==
  /\ executionTimeout \in Timeouts /\ maxOutputChars \in MaxOutputs
  /\ \E useDocker, available, allowUnsandboxed \in BOOLEAN :
       sandbox = createSandbox(useDocker, available, allowUnsandboxed)
  /\ containerId = "none" /\ up = {} /\ unstopped = {} /\ died = {}
  /\ idle = EXECUTION_TIMEOUT + 1 /\ armed = (sandbox = "docker")
  /\ status = [r \in Runs |-> "new"]
  /\ home = [r \in Runs |-> "none"] /\ age = [r \in Runs |-> 0]
  /\ output = truncateOutput(0, maxOutputChars) /\ printed = 0 /\ closed = FALSE

\* docker stop of what containerId says; works is Docker's part.  One that is
\* gone makes docker stop fail as well.  The code means to pass over that, but
\* looks for Docker's words in an error that has none: execSync adds stderr to
\* the message only if it is piped, and stdio is "ignore".
Known == {containerId} \ {"none"}
StopThrows(works) == Known # {} /\ (~works \/ ~Known \subseteq up)
LeftUp(works) == IF works THEN {} ELSE Known \cap up

\* Faulty variant: the id is not cleared.
StopContainerKeepsId(works) ==
  /\ UNCHANGED containerId
  /\ up' = up \ (Known \ LeftUp(works))
  /\ unstopped' = unstopped \cup LeftUp(works)

stopContainerNow(works) ==
  /\ containerId' = "none"
  /\ up' = up \ (Known \ LeftUp(works))
  /\ unstopped' = unstopped \cup LeftUp(works)

\* ensureContainer's early return.
Reusable == containerId # "none" /\ idle <= EXECUTION_TIMEOUT

-----------------------------------------------------------------------------
(* execute *)

\* execute returns or throws.
Settle(r) ==
  /\ status' = [status EXCEPT ![r] = "settled"]
  /\ home' = [home EXCEPT ![r] = "none"] /\ age' = [age EXCEPT ![r] = 0]
  /\ UNCHANGED <<settings, idle, armed, died, closed>>

\* validateUserCode, createCallableToolRuntime or the runtime's files throw.
Reject(r) ==
  /\ sandbox # "refused" /\ status[r] = "new"
  /\ Settle(r)
  /\ UNCHANGED <<containerVars, result>>

Started(r, where) ==
  /\ status' = [status EXCEPT ![r] = "running"]
  /\ home' = [home EXCEPT ![r] = where]
  /\ UNCHANGED <<settings, armed, age, result, died, closed>>

SpawnSubprocess(r) ==
  /\ sandbox = "subprocess" /\ status[r] = "new"
  /\ Started(r, "host")
  /\ UNCHANGED <<containerVars, idle>>

\* Faulty variant: lastUsed is set when a container is made.
ReuseContainerIdle(r) ==
  /\ sandbox = "docker" /\ status[r] = "new" /\ Reusable
  /\ Started(r, containerId)
  /\ UNCHANGED <<containerVars, idle>>

\* The container is not asked whether it is still up, nor what it has mounted.
ReuseContainer(r) ==
  /\ sandbox = "docker" /\ status[r] = "new" /\ Reusable
  /\ Started(r, containerId)
  /\ idle' = 0
  /\ UNCHANGED containerVars

\* Faulty variant: the old container is forgotten.
StartContainerForgets(r, works) ==
  /\ sandbox = "docker" /\ status[r] = "new" /\ ~Reusable
  /\ containerId' = r /\ up' = up \cup {r}
  /\ Started(r, r)
  /\ idle' = 0
  /\ UNCHANGED unstopped

\* The old container is stopped, docker run makes a new one.
StartContainer(r, works) ==
  /\ sandbox = "docker" /\ status[r] = "new" /\ ~Reusable
  /\ ~StopThrows(works)
  /\ containerId' = r
  /\ up' = (up \ Known) \cup {r}
  /\ Started(r, r)
  /\ idle' = 0
  /\ UNCHANGED unstopped

\* docker stop, or else docker run, fails: spawn throws.
FailToStart(r, works) ==
  /\ sandbox = "docker" /\ status[r] = "new" /\ ~Reusable
  /\ stopContainerNow(works)
  /\ Settle(r)
  /\ UNCHANGED result

\* The program completes; execute returns what it printed, truncated.
Complete(r, length) ==
  /\ Running(r) /\ home[r] \in up \cup {"host"}
  /\ Settle(r)
  /\ output' = truncateOutput(length, maxOutputChars) /\ printed' = length
  /\ UNCHANGED containerVars

\* waitForCompletion's timer is due, or the caller aborts.
TimeOut(r) ==
  /\ Running(r) /\ age[r] >= executionTimeout
  /\ Settle(r)
  /\ UNCHANGED <<containerVars, result>>

Abort(r) ==
  /\ Running(r)
  /\ Settle(r)
  /\ UNCHANGED <<containerVars, result>>

\* docker exec ends without an answer, for want of the container.
Lose(r) ==
  /\ Running(r) /\ home[r] \notin up \cup {"host"}
  /\ Settle(r)
  /\ UNCHANGED <<containerVars, result>>

-----------------------------------------------------------------------------
(* The timer, cleanup and the world *)

\* Faulty variant: setTimeout where setInterval is meant.
CleanupExpiredOnce(works) ==
  /\ armed
  /\ IF idle > EXECUTION_TIMEOUT THEN stopContainerNow(works) ELSE UNCHANGED containerVars
  /\ armed' = FALSE
  /\ UNCHANGED <<settings, idle, runVars, result, died, closed>>

\* The interval of startCleanupTimer, which catches what docker stop throws.
cleanupExpired(works) ==
  /\ armed /\ Known # {} /\ idle > EXECUTION_TIMEOUT
  /\ stopContainerNow(works)
  /\ UNCHANGED <<settings, idle, armed, runVars, result, died, closed>>

cleanup(works) ==
  /\ sandbox # "refused"
  /\ armed' = FALSE /\ closed' = TRUE
  /\ stopContainerNow(works)
  /\ UNCHANGED <<settings, idle, runVars, result, died>>

\* No run outlives its time: a timer that is due fires first.
Tick ==
  /\ \A r \in Runs : Running(r) => age[r] < executionTimeout
  /\ idle' = Cap(idle + 1, EXECUTION_TIMEOUT + 1)
  /\ age' = [r \in Runs |-> IF Running(r) THEN age[r] + 1 ELSE age[r]]
  /\ UNCHANGED <<settings, containerVars, armed, status, home, result, died, closed>>

ContainerDies(c) ==
  /\ c \in up
  /\ up' = up \ {c} /\ died' = died \cup {c}
  /\ UNCHANGED <<settings, containerId, unstopped, idle, armed, runVars, result, closed>>

Next ==
  \/ \E r \in Runs :
       \/ Reject(r) \/ SpawnSubprocess(r) \/ ReuseContainer(r)
       \/ \E works \in BOOLEAN : StartContainer(r, works) \/ FailToStart(r, works)
       \/ \E length \in Sizes : Complete(r, length)
       \/ TimeOut(r) \/ Abort(r) \/ Lose(r)
  \/ \E works \in BOOLEAN : cleanupExpired(works) \/ cleanup(works)
  \/ Tick
  \/ \E c \in Runs : ContainerDies(c)

Spec == Init /\ [][Next]_vars

\* Time passes, and Node's timers fire.
Fairness ==
  /\ WF_vars(Tick) /\ \A r \in Runs : WF_vars(TimeOut(r))
  /\ WF_vars(\E works \in BOOLEAN : cleanupExpired(works))

FairSpec == Spec /\ Fairness

-----------------------------------------------------------------------------
(* Properties *)

Containers == Runs \cup {"none"}

\* Every variable has its type (PtcSettings, DockerSandbox, CodeExecutionResult).
TypeOK ==
  /\ executionTimeout \in Timeouts /\ maxOutputChars \in MaxOutputs
  /\ sandbox \in {"docker", "subprocess", "refused"}
  /\ containerId \in Containers /\ up \subseteq Runs
  /\ idle \in 0..EXECUTION_TIMEOUT + 1 /\ armed \in BOOLEAN
  /\ status \in [Runs -> {"new", "running", "settled"}]
  /\ home \in [Runs -> Containers \cup {"host"}]
  /\ age \in [Runs -> 0..executionTimeout]
  /\ output.shown \in Nat /\ output.told \subseteq Nat /\ output.length \in Nat
  /\ printed \in Nat
  /\ died \subseteq Runs /\ unstopped \subseteq Runs /\ closed \in BOOLEAN

\* What the sandbox believes is so: its container is up, unless it has died on
\* its own; ensureContainer, which does not ask Docker, relies on it.
KnownContainerIsUp == \A c \in Known : c \in up \/ c \in died

\* No container is left behind: one that is up and that the sandbox has forgotten
\* is one docker stop has failed on (stopContainerNow clears the id first and
\* nobody tries again).
NoContainerIsForgotten == up \subseteq Known \cup unstopped

\* The timer and the next execution spare a program that is running: in its first
\* EXECUTION_TIMEOUT it loses its container only to cleanup or to the container's
\* own death.  (PTC_EXECUTION_TIMEOUT_MS may be longer; EXECUTION_TIMEOUT is a
\* constant of sandbox-manager.ts, and nothing ties one to the other.)
RunsKeepTheirContainer ==
  [][\A r \in Runs :
       (Running(r) /\ home[r] \in up /\ home[r] \notin up') =>
         \/ home[r] \in died'
         \/ \E works \in BOOLEAN : cleanup(works)
         \/ age[r] > EXECUTION_TIMEOUT]_vars

\* A container that is not used any more is stopped in the end (or was tried to),
\* unless cleanup has disarmed the timer: an execution that starts after a
\* shutdown makes one that stays.
IdleContainersStop == <>[](containerId = "none" \/ closed)

\* What execute returns fits PTC_MAX_OUTPUT_CHARS whatever the program has
\* printed, is all of it if that fits, and if it says how many characters it
\* shows, the number is right or one more (the four attempts can end between
\* two budgets at a power of ten).
OutputFits ==
  /\ output.length <= maxOutputChars
  /\ printed <= maxOutputChars => output.shown = printed /\ output.told = {}
  /\ \A told \in output.told : told - output.shown \in {0, 1} /\ output.shown > 0

=============================================================================
