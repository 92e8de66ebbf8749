# Verification of pi-ptc-advanced

TLA+ models of the extension's core: the RPC bridge between Node and the Python child that runs
the agent's code, the state the extension keeps during a user request, the hot reload of custom
tools, the registry that decides which tools a program may call, the sandbox programs run in, and
the helpers with which they make many calls and cut down what they return. TLC checks the models on small instances; TLAPS proves
every safety property of the passing runs, and the refinement, for every value of the constants. Paths below are relative to the repository's root `src/`
(`src/rpc-protocol.ts` is `src/src/rpc-protocol.ts` in PROJECT.json).

## The system

pi is a coding agent; this extension gives it one tool, `code_execution`. Its argument is a
Python program that may call pi's other tools as async functions, so that large intermediate
results stay out of the conversation.

| Component | State | Operations | Modelled in |
| --- | --- | --- | --- |
| RPC bridge, Node side (`src/rpc-protocol.ts`) | completed, collected stdout and stderr, exit state, running tools | handle a line, run a tool and answer, settle, time out, abort, terminate | RpcBridge |
| RPC client (`src/python-runtime/rpc.py`) | call_id, pending_calls, reader task | call, read answers, expire, fail all, cleanup | RpcBridge |
| Runtime (`src/python-runtime/runtime.py`) | stdout buffer | print, trace progress, run user_main, emit the terminal frame | RpcBridge |
| Helpers (`ptc` in `src/python-runtime/runtime.py`) | a semaphore and the calls of each helper | gather_limit, batch_tool, read_many, first_success, reduce_tool | Orchestration |
| Output limits (`ptc.fit_output` in `src/python-runtime/runtime.py`) | none, one call | normalise the limit, measure, cut, fall back | FitOutput |
| Request session (`src/index.ts`, `src/recovery-state.ts`) | saved active tools, recovery state, pending hint | session_start, before_agent_start, execute, context, agent_end | RequestSession |
| Hot reload (`src/custom-tool-manager.ts`) | fileToTool, fileSignatures, debounce timers, watcher, poll timer | start, watch, poll, reload a file, remove, close | HotReload |
| Tool registry (`src/tool-registry.ts`) | custom tools, hashline executors, owned names | upsert, remove, ingest, build the map, filter by policy, explain, route | ToolRegistry, ToolSurface |
| Code executor and sandbox (`src/code-executor.ts`, `src/sandbox-manager.ts`) | container id, last use, clean-up timer | execute, spawn, expire, stop, clean up | CodeExecutor |
| Everything else | none that matters | renderer, benchmarks, adapters, code generation, classifier | listed in PROJECT.json with the reason |

How they interact. The host fires events; `before_agent_start` may narrow pi's active tools to
`code_execution`, `agent_end` puts them back. `code_execution.execute` spawns Python through the
sandbox; the two talk in JSON lines over stdin and stdout. A `tool_call` frame makes Node run a
tool from the registry's snapshot and write a `tool_result` line. Custom tools enter the registry
from files that other processes write at any time; each change rebuilds `code_execution`.

What is hard. Two event loops, two pipes and three sources of process events (stdout, stderr,
exit) are ordered only by chance; timeouts, aborts and SIGTERM race with answers; Node's line
handlers are async, so errors surface one microtask later; calls of one turn share mutable state;
files change between any two steps of a reload; five sources offer tools under one name, and four
parties change which of them are active. PROJECT.json lists these hazards at their lines
with the properties aimed at each.

What makes each part correct:

- bridge: answers reach the call they belong to; no call is run twice, forgotten or leaked; one
  verdict, true to what happened; output complete; always a verdict; no tool after giving up;
- session: at most one hint per request, telemetry that agrees with it, routing undone;
- hot reload: the registry follows the files, rejected names stay out, `close` is final, missed
  events are made up for;
- registry: a removed tool is gone, a function is judged by what its own provider says of it, what
  routing hides from the agent its programs can call, refusals are explained truly;
- executor: a program keeps its container, no container is forgotten or kept for nothing, what is
  returned fits its limit;
- helpers: the limit on concurrency holds, one result per call and in order, failures are reported
  as the mode says, every helper ends;
- output limits: what is returned fits, and no more is given up than must be.

## Modules

**RpcBridge** is one execution. The Python half has user code (`IssueCall`, `ProxyWrite`, `Progress`,
`CancelCall`), the ends of `_runtime_main` (`ReturnValue`, `RaiseException`, `RaiseSystemExit`,
`WindDown`, `Exit`), the reader task (`HandleResponse`, `ReaderFails`) and the per-call timeout,
split where asyncio splits it (`ExpireCall`: the future is cancelled; `ResumeExpired`: the
coroutine runs again and deletes its entry). A call that user code cancels ends without deleting
its entry, at any moment up to the process's end.

The stdout the frames travel on is not Python's alone. User code may close it (`CloseStdout`; a
frame then raises where it is written), and a subprocess may inherit it (`Inherit`), outlive Python
and hold the pipe open as long as it likes (`SubprocessEnds`). Raw text is written to it in whole
lines or without a newline (`RawText`): a fragment becomes one line with whatever follows it, and
`parseMessage` rejects that line as a whole (`HandleMerged`). `spoilt` adds up the text of the
stdout frames lost this way. readline closes only when nobody holds the pipe and it is empty
(`LineReaderClose`), which may be before Python ends or long after.

The Node half has one action per kind of line, the
microtask of a rejected handler (`RunRejection`), tools that end (`FinishTool`), stderr, the end
of stdout, the exit event, spawn errors, the execution timeout, the abort listener and the
SIGKILL timer. `rejecting` blocks Node's other macrotasks until the microtask has run, but not the
next lines of the same chunk: that is Node's order. A frame is reduced to its type and one number
(the call, or an amount of text); an answer to its call and whether it is a value, an error, or
longer than the reader's limit of 4 MiB.

**Execution** is the abstract promise to the program and to the agent, without pipes, buffers or
processes. **RpcRefinement** maps the bridge to it; `ImplementsExecution` is checked as a property.

**RequestSession** is the extension's state between host events. The host is assumed to pair
`before_agent_start` with `agent_end` and to end a request after its tool calls; calls of one turn
overlap. Prompts are input classes (asks for a mutation; fits routing), so is the classified
failure of a call. `before`, `touched`, `hints`, `earlier` (for each call, those that had ended
before it started) and `armedAfter` (those that had ended before the call that armed the hint
started) are history variables. Null is the empty set, a value a singleton, for the saved list and
the recovery state.

**HotReload** is CustomToolManager over a disk others write to. An import is asynchronous: pi may
load the extension's sources with a loader of its own, and a tool file may await at its top level.
So a reload is a task up to its import (`ReconcileCheck`), the reading of the file (`ReadFile`), and
a task after it that registers (`StartRegister`, `ReconcileRegister`) and takes the stat
(`RefreshSignature`). Writers interleave with all of these, Node's other tasks (timers, the poll,
watcher events, `Close`) with the import: reloads of several files, and several of one file, are
under way at once (`Reloads`), `close` may come in the middle of them, and in the middle of `start`
(`StartLoad`, `booting`). `lossy` says whether the watcher may miss events. Names are plain, or
rejected by Python's rules (`Clashing`), which makes the rebuild of `code_execution` throw.
`swallowed`, `overtaken` and `kept`, and the life `"reopened"`, record gaps of the code (below).

**ToolRegistry** is the registry's data and its pure functions, with the source's names:
`createBuiltinTools`, `Overlaid` (hashline), `buildToolMap`, `PassesFilter` and `Eligible` (the filter
of `getCallableTools`), `NamesClash` (the throw at its end), `CallableNames` (what it returns: nothing
while names clash), `getAutoRoutableToolNames`, `GapReason` (`reportAllowlistGaps`). An optional field is
a set of at most one element. A tool carries, besides what the code stores, who provides the
function that runs (`executor`) and what that provider said of it (`claim`): with these the
properties can tell when metadata and function come from different sources.

**ToolSurface** composes it with those who change it: hot reload (a reload is one step here;
HotReload has the steps), the session's routing, hashline's event, other extensions and the user.
A registration runs up to its callback; whether the rebuild of `code_execution` throws is
evaluated in the new state (`Throws'`), as the code does. What throws at start is only warned
about, in a reload it is caught by removal, and what throws there is an unhandled rejection
(`crashed`). Pi is external: it lists every tool ever registered, with or without metadata and
functions (`host`), and keeps `code_execution` active. `emitted`, whether hashline has emitted a tool
during the routed request, is history: the properties need it to tell where a clash may come from.

**CodeExecutor** is `execute` and the two sandboxes. `execSync` makes a start one step: reuse, stop
and run, or fail. Containers are named after the execution they were made for. Time is kept as
differences (`idle` since the last start, `age` per run), counted up to one past what the code
compares, so the state space is finite without a clock. `truncateOutput` is modelled by lengths,
up to V8's longest string (`MaxStringLength`); `printed` keeps the length of what the program wrote.
What a program does while it runs is RpcBridge's. `Reject` is whatever throws before a spawn.

**Orchestration** is a program that uses helpers one after the other. A call is queued, passes the
semaphore in order, and is answered by a value, by a value that is a tool's error, or by an
exception (`_classify_tool_error_payload` tells the first two apart, in collect only). A helper
that raises leaves its other calls running, into the next helper; the end of the program cancels
them. `read_many` differs from `batch_tool` in what it takes for an error, not in its modes.

**FitOutput** is one call of `fit_output`, one action per part of `_fit_result_to_char_budget`. A
value is the lengths the function measures: the result as it is, the envelopes of the three others,
and for each prefix of the preview's text its length in a JSON string, of which the assumption says
only that no character takes less than one place. The text a round leaves is so many characters and
so many dots; slicing may take dots of an earlier round along, as in the code.

**MCRpcBridge, MCRequestSession, MCHotReload, MCToolSurface, MCCodeExecutor, MCOrchestration,
MCFitOutput** add what TLC needs. Definitions called faulty
variants next to an action are plausible bugs; substituting one must break the property that
PROJECT.json pairs it with.

## Runs

| Run | Instance | Shows |
| --- | --- | --- |
| rpc_calls | 2 calls, no output, AnsweringSpec | TypeOK, AnswerMatchesTool, PendingIsExact, NoCallForgotten, ToolRunsAtMostOnce, ImplementsExecution, AnswerArrives |
| rpc_output | 1 call, 2 things done with stdout, FairSpec | TruthfulVerdict, OutputComplete, EventuallySettled, GiveUpQuiesces |
| session | 2 tools, 3 calls | TypeOK, OneHintPerRequest, HintIsAccountedFor, RoutingIsTemporary |
| hot_reload | 2 files, 4 names, 2 writes, 2 overlapping reloads of one file, FairSpec | TypeOK, ToolsFollowFiles, ClashIsRejected, CloseIsFinal, Converges |
| tool_surface | 6 names, 2 files, 3 policies | TypeOK, RemovedToolsAreGone, MutatorsStayOut, RefusalsAreExplained, HiddenToolsStayCallable, ActiveToolsFollowFiles |
| code_executor | 3 runs, 2 time-outs, 3 limits, FairSpec | TypeOK, KnownContainerIsUp, NoContainerIsForgotten, OutputFits, RunsKeepTheirContainer, IdleContainersStop |
| orchestration | 2 helpers, 0 or 3 calls, FairSpec | TypeOK, LimitHolds, ResultsMatchCalls, FailuresAreReported, FirstSuccessIsLast, HelpersSettle |
| fit_output | 94 values, 123 requests | FitsTheLimit, CutsOnce |
| rpc_report | no calls | finding 1 |
| session_first_attempt | 2 calls | finding 2 |
| hot_reload_moved | 2 files, 1 name, 2 writes, FairSpec | finding 3 |
| tool_surface_callers | 2 names, 1 file | finding 4 |

Bounds. Two calls are the least with answers out of order, one expired while the other waits,
and a reader that dies with several pending; the proofs remove the bound. `MaxLines` bounds what
user code and its subprocess do with stdout besides calls and the terminal frame (printing, progress,
raw text, handing it on, closing it): with two, text is buffered and joined by the next or flushed at
the end, a fragment spoils the frame after it, and a subprocess that holds the pipe writes to it
after Python has died; none is needed where the calls are the question. Three calls per request let
a failure come before, during and after the one that arms. Two files, two writes and two reloads of
the first file at once let a file change during its reload while another one is due, a write be
swallowed by the stat, and an older import end after a newer one. The six names of
tool_surface are one of each kind (built-in, alias, bash, hashline's own, a file's own, and `find`,
which every source offers), the metadata contradicts itself where the code allows it, and the
policies are closed, listed with trust, and open; the state space needs no other bound. Three
executions are one that outlives its idle time, one that reuses or replaces its container, and one
after a clean-up; EXECUTION_TIMEOUT is 2 units against a shorter and a longer time limit, and the
limits are those at which the notice's own length changes. Three calls are the least with answers
out of order while a third is queued; two helpers the least for calls left behind by the first. The
envelopes of fit_output have the lengths a dict gives them (47, 93, 326 and the digits), the limits
are those around them, and the texts are plain, all escaped, or escaped at one end, of up to 106
characters, where the count of what is left loses a digit. All counters that are not bounded by
these end with them.
Deadlock is not checked where a run of the system ends (an execution settles, writers stop).

Fairness. `FairSpec` of the bridge: Node's loop reads its pipes, runs microtasks and fires due
timers, the kernel delivers SIGKILL; nothing is assumed of user code, tools, the user, a process
that was sent SIGTERM only, or a subprocess, which may keep stdout open for ever. `AnsweringSpec` adds that tools return and that user code
lets asyncio's reader run, and drops every timer, so an answer must not depend on one. CodeExecutor's
`FairSpec`: time passes, the execution's timer and the clean-up interval fire; nothing is assumed of
programs or of Docker, whose commands may fail each time. Orchestration's: asyncio runs what can
run, and every call is answered, if only by the client's own 300-second timeout. HotReload's
`FairSpec`: Node runs its microtasks and timers, an import that was begun ends, the kernel delivers
the events it does not lose; nobody has to write, start or close.

## Findings

1. *A report that only one side recognises fails the run* (rpc_report). `_is_ptc_report` is looser
   than `isPtcReport`, and the whole `complete` frame is rejected.
2. *Recovery is not limited to first attempts* (session_first_attempt). The README says it is;
   `canAttemptAutomaticRecovery` only asks that there was an attempt. In the run the request's first
   call has succeeded before the second one starts; the second fails and arms the hint.
3. *A moved tool disappears* (hot_reload_moved). Removal is by tool name: when a tool's file is
   copied or moved, the old file's removal takes out the tool the new file has registered.
4. *A tool narrowed to Python stays with the agent* (tool_surface_callers). `setToolActive` only ever
   activates: a tool that is reloaded with `callers: ["code_execution"]`, a "Python-only tool" for
   the README, remains active.

Other gaps are named in the properties instead of being hidden by them. TruthfulVerdict allows a
traceback to be lost: when stdout's end is seen before the data on stderr,
`buildUnexpectedCloseError` takes a Python start-up error for a transport failure. FitsTheLimit
allows the last fallback of `fit_output`, which is 47 characters long and measured by nothing, to
exceed a smaller `max_chars`.

RpcBridge's properties name three more:

- `"cancelled"` in PendingIsExact: `call()` catches TimeoutError only, so a call that user code
  cancels leaves its entry in `pending_calls` until its answer comes; after the reader's end, or the
  program's, none does. NoCallForgotten says that until then the answer is on its way.
- `spoilt` in OutputComplete: unterminated raw text takes the next frame with it. That is a protocol
  error, unless a `complete` frame of the same chunk settles the run before that error's microtask:
  then the run has succeeded and the text of the frame is lost.
- GiveUpQuiesces promises the end of the process and of the calls it wrote, not the end of the pipe:
  `terminateProcess` kills Python only, and a subprocess may hold stdout, and readline, open.

HotReload's name five:

- `swallowed`: a write between a load and its stat is recorded as seen, so only the watcher can
  notice it.
- `overtaken`: two reloads of a file overlap, and the one that has read the older version registers
  last.
- `kept`: `start` leaves a tool registered that it warns about as skipped, after which every rebuild
  of `code_execution` throws.
- CloseIsFinal: `close` cancels no reload that awaits its import; it registers its tool afterwards.
- `"reopened"`: `close` during `start` does not stop it; it goes on loading, then watches and polls.

ToolSurface's name seven:

- `Contradicts`: metadata with `policy: "mutating"` and `readOnly: true`. The stored `readOnly` wins
  for a built-in tool that hashline or Pi has replaced, so it passes as read-only.
- `FunctionWithheld`: Pi lists an active override's metadata without its function; the map then
  judges hashline's or the built-in function by that metadata. The same happens to a tool that is
  hashline's own (no built-in of its name) while it is not active: only built-in tools are kept from
  an inactive override. The proof of MutatorsStayOut found the second half.
- `Disowns`: metadata with `policy: "read-only"` and `readOnly: false` counts as mutating, and as
  read-only once its name is trusted: `getCallableTools` lets the tool through, and
  `reportAllowlistGaps` would call it "mutating" if it were asked. The proof of RefusalsAreExplained
  found it.
- `KnownToPiOnly`: routing deactivates the tools that it sends to Python, and an override only Pi
  knows counts only while it is active. The program gets the built-in function and its class, or
  none, where the README speaks of "the same active tool implementations users see in chat".
- `ClashFromOutside`: while two callable tools have one Python name `getCallableTools` throws and
  nothing is callable. Routing begins without a clash; hashline's event may bring one in the middle
  of a request, so may the tool that an override only Pi knows has covered, and so does a reload until
  it is rejected. The proof of HiddenToolsStayCallable found the second.
- `reloads`: `agent_end` restores the list saved when routing began, so a tool loaded meanwhile is
  dropped from the active ones and a removed one comes back.
- `crashed`: a removal after which names still clash throws where nobody catches.

CodeExecutor's name three: with PTC_EXECUTION_TIMEOUT_MS above 270000 the idle timer stops the
container of a program that is running (`age`); an execution after `cleanup` makes a container
that no timer stops (`closed`); a container whose `docker stop` failed is never tried again
(`unstopped`). Besides, the test for "No such container" never succeeds: `execSync` with
`stdio: "ignore"` has no stderr to put into its message, so replacing a container that has died
costs one failed execution. The truncation notice may claim one character more than it shows,
where the count passes a power of ten.

## Proofs

**RpcBridgeProofs**, from `BoundsAssumption` (the bounds are naturals):

- `TypeCorrect`: `Spec => []TypeOK`.
- `AnswersCorrelate`: `Spec => []AnswerMatchesTool`. Not inductive alone: the strengthening says
  that every answer in the pipe to Python is the one its tool produced, that a call Node has heard
  of was issued, and that only issued calls are in frames.
- `ToolsRunOnce`: the action property `ToolRunsAtMostOnce`, from the invariant that a `tool_call`
  frame is in the pipe at most once and only while its tool is idle.
- `PendingCallsExact`: `Spec => []PendingIsExact`, with every way a call ends, cancellation among them.

**RequestSessionProofs**, from `SessionAssumption`: `SessionTypeCorrect`, `HintsBounded`,
`HintsAccounted` and `RoutingUndone` prove the run's four invariants. The strengthening ties the
recovery state to an open request, a hint to a plain request with recovery switched on, and the
saved list to `before`. For HintsBounded it is what makes the shared `recoveryAttempted` enough
when calls overlap.

**HotReloadProofs**, from `ReloadAssumption` (typing of the constants; the markers "none",
"absent", "invalid" are no tool names):

- `ReloadTypeCorrect`: `Spec => []TypeOK`.
- `ClosedForGood`: `CloseIsFinal`, for any number of files and of overlapping reloads. The invariant
  (`ClosedInv`) is that after `close`, unless `start` is still under way, no debounce timer is armed
  and no reload stands before its import; what it leaves are the reloads whose import was under way.
  `ClosedLife` adds that only `close` leads there, which runs between tasks.
- `RegistryFollowsFiles`: `Spec => []ToolsFollowFiles` if no tool name is used in two files
  (`OwnNames`; finding 3 is what happens otherwise). The strengthening says that a file has given
  the registry only names its author uses, so a removal by name cannot hit another file's tool.
- `ClashesRejected`: `Spec => []ClashIsRejected`, which is inductive.

**RpcVerdictProofs**, from the same assumption and RpcBridgeProofs' invariants:

- `VerdictsTrue`: `Spec => []TruthfulVerdict`. The verdict is decided long after what it speaks of,
  so the strengthening (`VerdictInv`) follows the evidence: a terminal frame on the pipe is of the
  kind Python emitted, one that Node has read has settled the run or is about to, a traceback is
  left only by a process that died without a frame, and nobody settles a run as complete or failed in
  Python while user code still runs, nor as cut off before stdout has ended (`OutcomeOfRunning`,
  `ClosedIsHeard`).
- `OutputIsComplete`: `Spec => []OutputComplete`. `Accounted` is a running sum along the pipe: text
  that has arrived or was spoilt, text in frames and text in the stdout proxy add up to what was
  printed, and the sum ahead of a `complete` frame is all of it, as long as the run is not settled.
  So raw text, wherever it falls, is the only way a successful run loses output.
- `NoneForgotten`: `Spec => []NoCallForgotten`, inductive together with the invariants above: a
  call that leaves one place (frame, tool, answer) must be in the next, or the run be failed.
- `BridgeImplementsExecution`: `Spec => ImplementsExecution`. Each action is shown to be the step of
  Execution named beside it or a stutter; what is needed of the state is `MapInv`, the invariants
  above and that exactly the calls up to `callId` have been issued.

**ToolSurfaceProofs**, from `RegistryAssumption` (an alias such as glob is read-only by its
contract) and `SurfaceAssumption` (typing; another extension registers a name once). The first half
is about the registry's operators, in any state: normalising stored metadata twice changes nothing
and keeps the class and the callers (`NormalTwice`, `SameClass`); `MapTool` says that a name stands
for at most one tool, of the class its metadata gives, whose function is called mutating only as the
property allows. `SurfaceInv` is what the state must satisfy for that: what each source lists was
registered by it and is what the file, hashline or Pi gave (`Provenance`), and a function of a file's
that Pi lists is of an owned name, without which RemovedToolsAreGone is not inductive. For routing it
adds that the list the agent will have when the request ends follows the files (`FilesFollowed`),
and that what is hidden is usable. `HideKeeps` is the argument for the step that hides: taken off the
active list a tool loses at most what Pi alone knew of it. `ClashNoted` is beside it: while tools are
hidden a clash of Python names has one of the causes the property names (`NoNewClash`: hiding brings
none itself). `FilesKnown` ties the registry to the files: every file's tool is one its author offers,
and every tool of the registry has a file. It needs that no two files offer one tool (`OwnTools`,
again what finding 3 is about), the hypothesis of `ActiveFollowFiles`. The six theorems are the run's six
invariants: `SurfaceTypes`, `RemovedAreGone`, `MutatorsAreOut`, `RefusalsExplained`,
`HiddenStayCallable`, `ActiveFollowFiles`. The named gaps are in the properties; `OwnTools` is the only
hypothesis.

**CodeExecutorProofs**, from `ExecutorAssumption` (positive limits and timeouts, outputs no longer
than a JavaScript string can be):

- `OutputsFit`: `Spec => []OutputFits`: within the limit, and all of what was printed if that fits.
  `TruncatedFits` is the lemma about `truncateOutput` for every
  length and limit; it goes by the number of digits the notice shows, which five rounds settle or
  leave alternating between neighbours.
- `ExecutorTypes`; `KnownIsUp` and `NoneLeftBehind`, inductive together: `docker stop` forgets the
  container before it is tried, and what it leaves is `unstopped`.
- `RunsKeepContainers`: the action property, from `IdleIsYounger` (a program in a container has run
  at least as long as the sandbox has been idle).

**OrchestrationProofs**, from `OrchestrationAssumption`: `HelperTypes`, `LimitIsHeld`,
`ResultsAreTheCalls`, `FailuresAreTold`, `OneSuccessIsEnough`, all from `HelpersInv`: helpers before
the current one are settled and those after it untouched; the calls in flight are no more than the
semaphore's value; first_success makes a call once all before it have raised; and a verdict, once
given, stays true of calls that no longer matter to it (`Told`).

**FitOutputProofs**, from `FitAssumption` (a character takes at least one place in JSON; nothing of
how many more): `ResultFits`, `Spec => []FitsTheLimit`, and `OneRound`, the action property
`CutsOnce`. `RoundFits` is the argument: a round takes off at least the overflow and the three dots,
and the number of characters left has no more digits than before (`DigitsGrow`), so the text fits or
is down to one character; `LoopInv` keeps that, which is why a second round never starts, and why
the fallbacks are only reached when no shorter text fits (`NoTextFits`). `FitTypes` is `[]TypeOK`.

Each invariant was checked by TLC before it was proved. Only model-checked is what needs fairness,
which is beyond TLAPS: AnswerArrives, EventuallySettled, GiveUpQuiesces, Converges,
IdleContainersStop and HelpersSettle; and the four findings, which are counterexamples.

## Not modelled

Text (formatting, wording, JSON syntax, regular expressions), terminal rendering, code generation
for the Python wrappers, the benchmark runner, file reading at start-up, telemetry counters, and
what the operating system does with a write to a dead process, or with frames longer than it writes in
one piece, between which a subprocess could write. User code that redirects file descriptor 1, or
forks a process that writes frames of its own, is not modelled, nor are the module loader's caches. Inside Docker, killing the client
leaves the container's Python to the container, and a container is reused for another working
directory than the one it has mounted; CodeExecutor knows neither processes nor mounts. A run's
snapshot of its tools (`createCallableToolRuntime`) is taken once and never changes: a tool that
is removed meanwhile is still executed by that run. HotReload's `SkippedToolsAreOut`, the README's
word on names that clash at start, is stated and not checked by a run: `kept` records the same.
What fit_output's preview leaves out of lists and dicts, and the two report validators, would need
the shapes of JSON values.

## Plan

1. Done: RpcBridge, Execution, RpcRefinement, RequestSession, HotReload, with their proofs;
   ToolRegistry and ToolSurface; CodeExecutor; Orchestration.
2. Done: the proof of every safety property of the passing runs and of the refinement.
3. Done: FitOutput, fit_output by lengths, with its proofs.
4. ReportContract: the two report validators as predicates, and where they differ.
