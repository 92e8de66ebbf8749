------------------------------ MODULE RpcBridge ------------------------------
(***************************************************************************)
(* One code_execution run: the Python child (rpc.py, runtime.py), the two  *)
(* pipes, and the Node side (rpc-protocol.ts) that executes the nested     *)
(* tool calls and settles the execution.                                   *)
(*                                                                         *)
(* A frame is a record [type, arg]; arg is the call number of a tool_call, *)
(* the amount of text of a stdout frame, and 0 otherwise.  Raw text on the *)
(* same stdout is "noise" (whole lines that are no frame) or a "fragment"  *)
(* (text without a newline, which becomes one line with what is written    *)
(* next).  An answer is a tool_result line [id, kind], kind "big" being    *)
(* one that is longer than the 4 MiB limit of the Python StreamReader.     *)
(***************************************************************************)
EXTENDS Naturals, Sequences

CONSTANTS MaxCalls,   \* bound on the nested tool calls one run issues
          MaxLines    \* bound on what else one run does with stdout: text it
                      \* writes, handing it on, closing it

ASSUME BoundsAssumption == MaxCalls \in Nat /\ MaxLines \in Nat

Ids == 1..MaxCalls

VARIABLES
  \* Python process
  py,            \* "running" user_main | "draining" event loop | "exited"
  callId,        \* RpcClient.call_id
  caller,        \* what the coroutine awaiting call i has seen
  pendingCalls,  \* keys of RpcClient.pending_calls
  reader,        \* RpcClient.reader_task: "up" | "dead" | "cancelled"
  buffered,      \* text held by _StdoutProxy._buffer
  printed,       \* text user code has printed through the proxy (history)
  written,       \* what has been done with stdout so far, bounded by MaxLines
  stdoutOpen,    \* Python has not closed its stdout
  inherited,     \* a subprocess of user code holds the same stdout
  terminal,      \* terminal frame _runtime_main has emitted
  traceback,     \* traceback on stderr: "none" | "inflight" | "read" by Node
  \* pipes
  toNode,        \* Python stdout: sequence of frames
  toPy,          \* Python stdin: sequence of answers
  \* Node process
  outcome,       \* how completionPromise settled; completed = (outcome # "none")
  verdict,       \* how waitForCompletion settled
  rejecting,     \* a rejected handleLine whose .catch microtask has not run
  tool,          \* runTool of call i
  nodeOut,       \* RpcProtocol.stdout
  finalOut,      \* stdout text in the CodeExecutionResult
  spoilt,        \* text of stdout frames that were part of an invalid line
                 \* while the run was not settled (history)
  lineClosed,    \* lineReader has emitted "close"
  reaped,        \* "exit" seen by Node: exitCode set, stdin destroyed
  kill,          \* terminateProcess: "none" | "term" (SIGTERM sent, 5 s timer
                 \* armed) | "kill" (SIGKILL sent) | "spent" (nothing to kill)
  aborted        \* the "abort" event has fired

holders  == <<stdoutOpen, inherited>>
pyVars   == <<py, callId, caller, pendingCalls, reader, buffered, printed,
              written, holders, terminal, traceback>>
nodeVars == <<outcome, verdict, rejecting, tool, nodeOut, finalOut, spoilt,
              lineClosed, reaped, kill, aborted>>
vars     == <<pyVars, toNode, toPy, nodeVars>>

\* The frames Python writes (the table of validators also knows update and
\* tool_result, which it never does) and the raw text between them.
FrameTypes == {"tool_call", "stdout", "progress", "complete", "badreport",
               "error", "noise", "fragment"}
Frame(t, a) == [type |-> t, arg |-> a]
Text(f) == IF f.type = "stdout" THEN f.arg ELSE 0
Frames == [type : FrameTypes, arg : Nat]
Answers == [id : Ids, kind : {"ok", "err", "big"}]

Outcomes == {"none", "complete", "python", "protocol", "transport", "abort"}
Finished == {"ok", "big", "bad", "err"}

\* Faulty variant: nobody catches what JSON.stringify throws.
AnswerKindUnchecked(r) == r

\* The line send() writes for a finished tool: a value JSON.stringify rejects
\* ("bad") makes send throw, and the catch block answers with the error.
AnswerKind(r) == CASE r = "ok" -> "ok" [] r = "big" -> "big" [] OTHER -> "err"

Init ==
  /\ py = "running" /\ callId = 0
  /\ caller = [i \in Ids |-> "idle"] /\ pendingCalls = {}
  /\ reader = "up" /\ buffered = 0 /\ printed = 0 /\ written = 0
  /\ stdoutOpen = TRUE /\ inherited = FALSE
  /\ terminal = "none" /\ traceback = "none"
  /\ toNode = <<>> /\ toPy = <<>>
  /\ outcome = "none" /\ verdict = "none" /\ rejecting = FALSE
  /\ tool = [i \in Ids |-> "idle"]
  /\ nodeOut = 0 /\ finalOut = 0 /\ spoilt = 0
  /\ lineClosed = FALSE /\ reaped = FALSE /\ kill = "none"
  \* A signal that was aborted earlier never fires its "abort" event: to the
  \* bridge such a run is one in which Abort never happens.
  /\ aborted = FALSE

-----------------------------------------------------------------------------
(* Python: user code, event loop and runtime *)

Alive == py # "exited"

\* Python can still write a frame.  Once user code has closed the real stdout,
\* every frame raises in _emit_protocol: a call before it is registered, a
\* print() that completes a line, and the terminal frame, so that such a run
\* can only end without one.
PyHolds == Alive /\ stdoutOpen

\* RpcClient.call up to its await: the frame is written and the future is
\* registered with no suspension in between.  Tasks user code left behind
\* still get here while the loop winds down after the terminal frame.
IssueCall ==
  /\ PyHolds /\ callId < MaxCalls
  /\ callId' = callId + 1
  /\ toNode' = Append(toNode, Frame("tool_call", callId + 1))
  /\ pendingCalls' = pendingCalls \cup {callId + 1}
  /\ caller' = [caller EXCEPT ![callId + 1] = "waiting"]
  /\ UNCHANGED <<py, reader, buffered, printed, written, holders, terminal,
                 traceback, toPy, nodeVars>>

\* _StdoutProxy.write: text with a newline leaves as a frame with everything
\* buffered before it, text without one stays in the buffer.
ProxyWrite(newline) ==
  /\ py = "running" /\ PyHolds /\ written < MaxLines
  /\ written' = written + 1 /\ printed' = printed + 1
  /\ IF newline
     THEN /\ toNode' = Append(toNode, Frame("stdout", buffered + 1))
          /\ buffered' = 0
     ELSE buffered' = buffered + 1 /\ UNCHANGED toNode
  /\ UNCHANGED <<py, callId, caller, pendingCalls, reader, holders, terminal,
                 traceback, toPy, nodeVars>>

\* _trace_lines: one execution_progress frame per line of user_main.
Progress ==
  /\ py = "running" /\ PyHolds /\ written < MaxLines
  /\ written' = written + 1
  /\ toNode' = Append(toNode, Frame("progress", 0))
  /\ UNCHANGED <<py, callId, caller, pendingCalls, reader, buffered, printed,
                 holders, terminal, traceback, toPy, nodeVars>>

Unterminated == toNode # <<>> /\ toNode[Len(toNode)].type = "fragment"

\* Text on the real stdout that is no frame: from a subprocess that inherited
\* it, which may outlive Python, from a leftover task once sys.stdout has been
\* restored, or from user code writing to sys.__stdout__.  Without a newline it
\* becomes one line with whatever is written next.
RawText(newline) ==
  /\ PyHolds \/ inherited
  /\ written < MaxLines /\ written' = written + 1
  /\ toNode' =
       IF newline THEN Append(toNode, Frame("noise", 0))
       ELSE IF Unterminated THEN toNode ELSE Append(toNode, Frame("fragment", 0))
  /\ UNCHANGED <<py, callId, caller, pendingCalls, reader, buffered, printed,
                 holders, terminal, traceback, toPy, nodeVars>>

\* A subprocess of user code gets the same stdout...
Inherit ==
  /\ PyHolds /\ ~inherited
  /\ written < MaxLines /\ written' = written + 1
  /\ inherited' = TRUE
  /\ UNCHANGED <<py, callId, caller, pendingCalls, reader, buffered, printed,
                 stdoutOpen, terminal, traceback, toNode, toPy, nodeVars>>

\* ...and ends or closes it, at any time or never.
SubprocessEnds ==
  /\ inherited /\ inherited' = FALSE
  /\ UNCHANGED <<py, callId, caller, pendingCalls, reader, buffered, printed,
                 written, stdoutOpen, terminal, traceback, toNode, toPy,
                 nodeVars>>

\* User code closes the real stdout (sys.__stdout__.close()).
CloseStdout ==
  /\ PyHolds
  /\ written < MaxLines /\ written' = written + 1
  /\ stdoutOpen' = FALSE
  /\ UNCHANGED <<py, callId, caller, pendingCalls, reader, buffered, printed,
                 inherited, terminal, traceback, toNode, toPy, nodeVars>>

\* The common part of leaving _runtime_main: cleanup cancels the reader.
WindDown ==
  /\ py' = "draining"
  /\ reader' = IF reader = "up" THEN "cancelled" ELSE reader

\* The pipe once _StdoutProxy.flush has emitted what it holds.
Flushed == IF buffered > 0 THEN Append(toNode, Frame("stdout", buffered))
                           ELSE toNode

\* Faulty variant: the proxy is not flushed before the complete frame.
ReturnValueUnflushed(f) ==
  /\ py = "running" /\ PyHolds
  /\ toNode' = Append(toNode, Frame(f, 0))
  /\ terminal' = "complete"
  /\ WindDown
  /\ UNCHANGED <<callId, caller, pendingCalls, buffered, printed, written,
                 holders, traceback, toPy, nodeVars>>

\* user_main returns: the proxy is flushed, then the complete frame leaves.
\* "badreport" is a return value _is_ptc_report accepts and isPtcReport does not.
ReturnValue(f) ==
  /\ py = "running" /\ PyHolds
  /\ toNode' = Flushed \o <<Frame(f, 0)>>
  /\ buffered' = 0 /\ terminal' = "complete"
  /\ WindDown
  /\ UNCHANGED <<callId, caller, pendingCalls, printed, written, holders,
                 traceback, toPy, nodeVars>>

\* The error frame leaves: user_main raised an Exception and the proxy's buffer
\* is not flushed, or it returned what _stringify_output cannot serialise,
\* found out after the flush.
RaiseException(returned) ==
  /\ py = "running" /\ PyHolds
  /\ toNode' = (IF returned THEN Flushed ELSE toNode) \o <<Frame("error", 0)>>
  /\ buffered' = IF returned THEN 0 ELSE buffered
  /\ terminal' = "error"
  /\ WindDown
  /\ UNCHANGED <<callId, caller, pendingCalls, printed, written, holders,
                 traceback, toPy, nodeVars>>

\* user_main raises a BaseException that is no Exception (SystemExit, ...), or
\* ends in any way once stdout is closed: no terminal frame, only the finally
\* block.
RaiseSystemExit ==
  /\ py = "running"
  /\ WindDown
  /\ UNCHANGED <<callId, caller, pendingCalls, buffered, printed, written,
                 holders, terminal, traceback, toNode, toPy, nodeVars>>

\* The process ends: normally after winding down, or at any moment (a start-up
\* failure, os._exit, SIGTERM).  The interpreter may leave a traceback on
\* stderr when no handler of _runtime_main caught what ended it.
Exit(tb) ==
  /\ Alive
  /\ tb => terminal = "none"
  /\ py' = "exited"
  /\ traceback' = IF tb THEN "inflight" ELSE traceback
  /\ UNCHANGED <<callId, caller, pendingCalls, reader, buffered, printed,
                 written, holders, terminal, toNode, toPy, nodeVars>>

\* The kernel ends a process that was sent SIGKILL.
KernelKill ==
  /\ Alive /\ kill = "kill"
  /\ py' = "exited"
  /\ UNCHANGED <<callId, caller, pendingCalls, reader, buffered, printed,
                 written, holders, terminal, traceback, toNode, toPy,
                 nodeVars>>

\* Faulty variant: answers are taken in the order of the calls, not by id.
HandleResponseInOrder ==
  /\ py = "running" /\ reader = "up" /\ toPy # <<>> /\ Head(toPy).kind # "big"
  /\ toPy' = Tail(toPy)
  /\ \E i \in pendingCalls :
       /\ \A j \in pendingCalls : i <= j
       /\ caller' = IF caller[i] = "waiting"
                    THEN [caller EXCEPT ![i] = Head(toPy).kind] ELSE caller
       /\ pendingCalls' = pendingCalls \ {i}
  /\ UNCHANGED <<py, callId, reader, buffered, printed, written, holders,
                 terminal, traceback, toNode, nodeVars>>

\* _handle_response: an answer reaches the future registered under its id; an
\* unknown id, and a future wait_for has cancelled already, are ignored.
HandleResponse ==
  /\ py = "running" /\ reader = "up" /\ toPy # <<>> /\ Head(toPy).kind # "big"
  /\ toPy' = Tail(toPy)
  /\ LET a == Head(toPy) IN
       /\ caller' = IF a.id \in pendingCalls /\ caller[a.id] = "waiting"
                    THEN [caller EXCEPT ![a.id] = a.kind] ELSE caller
       /\ pendingCalls' = pendingCalls \ {a.id}
  /\ UNCHANGED <<py, callId, reader, buffered, printed, written, holders,
                 terminal, traceback, toNode, nodeVars>>

\* readline() raises on a line over the limit: every pending future fails and
\* the reader task is gone.
ReaderFails ==
  /\ py = "running" /\ reader = "up" /\ toPy # <<>> /\ Head(toPy).kind = "big"
  /\ reader' = "dead"
  /\ caller' = [i \in Ids |-> IF i \in pendingCalls /\ caller[i] = "waiting"
                              THEN "lost" ELSE caller[i]]
  /\ pendingCalls' = {}
  /\ UNCHANGED <<py, callId, buffered, printed, written, holders, terminal,
                 traceback, toNode, toPy, nodeVars>>

\* wait_for's 300 s timer fires and cancels the future...
ExpireCall(i) ==
  /\ py = "running" /\ caller[i] = "waiting"
  /\ caller' = [caller EXCEPT ![i] = "expired"]
  /\ UNCHANGED <<py, callId, pendingCalls, reader, buffered, printed, written,
                 holders, terminal, traceback, toNode, toPy, nodeVars>>

\* Faulty variant: the timed-out call keeps its entry.
ResumeExpiredLeaky(i) ==
  /\ py = "running" /\ caller[i] = "expired"
  /\ caller' = [caller EXCEPT ![i] = "timeout"]
  /\ UNCHANGED <<py, callId, pendingCalls, reader, buffered, printed, written,
                 holders, terminal, traceback, toNode, toPy, nodeVars>>

\* ...and the coroutine resumes later, drops its entry and raises.
ResumeExpired(i) ==
  /\ py = "running" /\ caller[i] = "expired"
  /\ caller' = [caller EXCEPT ![i] = "timeout"]
  /\ pendingCalls' = pendingCalls \ {i}
  /\ UNCHANGED <<py, callId, reader, buffered, printed, written, holders,
                 terminal, traceback, toNode, toPy, nodeVars>>

\* User code cancels a call it awaits (task.cancel(), wait_for around it, the
\* loop cancelling what is left of a finished program): call() catches only
\* TimeoutError, so the future is cancelled and its entry stays.
CancelCall(i) ==
  /\ Alive /\ caller[i] \in {"waiting", "expired"}
  /\ caller' = [caller EXCEPT ![i] = "cancelled"]
  /\ UNCHANGED <<py, callId, pendingCalls, reader, buffered, printed, written,
                 holders, terminal, traceback, toNode, toPy, nodeVars>>

PythonNext ==
  \/ IssueCall
  \/ \E newline \in BOOLEAN : ProxyWrite(newline)
  \/ Progress
  \/ \E newline \in BOOLEAN : RawText(newline)
  \/ Inherit
  \/ SubprocessEnds
  \/ CloseStdout
  \/ \E f \in {"complete", "badreport"} : ReturnValue(f)
  \/ \E returned \in BOOLEAN : RaiseException(returned)
  \/ RaiseSystemExit
  \/ \E tb \in BOOLEAN : Exit(tb)
  \/ KernelKill
  \/ HandleResponse
  \/ ReaderFails
  \/ \E i \in Ids : ExpireCall(i) \/ ResumeExpired(i) \/ CancelCall(i)

-----------------------------------------------------------------------------
(* Node: line handling, tool execution, settlement *)

\* Faulty variant: the last settlement wins.
SettleLast(o) == outcome' = o /\ verdict' = o

\* resolveOnce / rejectOnce, and the race in waitForCompletion that takes the
\* first settlement.
Settle(o) ==
  /\ outcome' = IF outcome = "none" THEN o ELSE outcome
  /\ verdict' = IF verdict = "none" THEN o ELSE verdict

NextLine(t) == ~lineClosed /\ toNode # <<>> /\ Head(toNode).type = t

\* Faulty variant: a tool call is handled without being taken off the pipe.
HandleToolCallAgain(throws) ==
  /\ NextLine("tool_call")
  /\ IF throws THEN /\ rejecting' = TRUE /\ toNode' = Tail(toNode)
                    /\ UNCHANGED tool
               ELSE /\ tool' = [tool EXCEPT ![Head(toNode).arg] = "running"]
                    /\ UNCHANGED <<rejecting, toNode>>
  /\ UNCHANGED <<pyVars, toPy, outcome, verdict, nodeOut, finalOut, spoilt,
                 lineClosed, reaped, kill, aborted>>

\* handleToolCall up to its await.  A throwing onUpdate rejects handleLine
\* before the try block: the tool does not run and nothing is answered.
HandleToolCall(throws) ==
  /\ NextLine("tool_call")
  /\ toNode' = Tail(toNode)
  /\ IF throws THEN rejecting' = TRUE /\ UNCHANGED tool
               ELSE /\ tool' = [tool EXCEPT ![Head(toNode).arg] = "running"]
                    /\ UNCHANGED rejecting
  /\ UNCHANGED <<pyVars, toPy, outcome, verdict, nodeOut, finalOut, spoilt,
                 lineClosed, reaped, kill, aborted>>

HandleProgress(throws) ==
  /\ NextLine("progress")
  /\ toNode' = Tail(toNode)
  /\ rejecting' = (rejecting \/ throws)
  /\ UNCHANGED <<pyVars, toPy, outcome, verdict, tool, nodeOut, finalOut,
                 spoilt, lineClosed, reaped, kill, aborted>>

HandleStdout ==
  /\ NextLine("stdout")
  /\ toNode' = Tail(toNode)
  /\ nodeOut' = nodeOut + Head(toNode).arg
  /\ UNCHANGED <<pyVars, toPy, outcome, verdict, rejecting, tool, finalOut,
                 spoilt, lineClosed, reaped, kill, aborted>>

\* parseMessage throws: the rejection is only a microtask, so further lines of
\* the same chunk are handled before it.
HandleInvalid ==
  /\ NextLine("noise") \/ NextLine("badreport")
  /\ toNode' = Tail(toNode)
  /\ rejecting' = TRUE
  /\ UNCHANGED <<pyVars, toPy, outcome, verdict, tool, nodeOut, finalOut,
                 spoilt, lineClosed, reaped, kill, aborted>>

\* Unterminated text makes one line with the frame written after it, which
\* parseMessage rejects as a whole, or is the last line of a stdout that ends.
HandleMerged ==
  /\ NextLine("fragment")
  /\ IF Len(toNode) > 1
     THEN /\ toNode' = Tail(Tail(toNode))
          /\ spoilt' = spoilt + IF outcome = "none" THEN Text(toNode[2]) ELSE 0
     ELSE ~PyHolds /\ ~inherited /\ toNode' = <<>> /\ UNCHANGED spoilt
  /\ rejecting' = TRUE
  /\ UNCHANGED <<pyVars, toPy, outcome, verdict, tool, nodeOut, finalOut,
                 lineClosed, reaped, kill, aborted>>

HandleComplete ==
  /\ NextLine("complete")
  /\ toNode' = Tail(toNode)
  /\ Settle("complete")
  /\ finalOut' = IF outcome = "none" THEN nodeOut ELSE finalOut
  /\ UNCHANGED <<pyVars, toPy, rejecting, tool, nodeOut, spoilt, lineClosed,
                 reaped, kill, aborted>>

HandleError ==
  /\ NextLine("error")
  /\ toNode' = Tail(toNode)
  /\ Settle("python")
  /\ UNCHANGED <<pyVars, toPy, rejecting, tool, nodeOut, finalOut, spoilt,
                 lineClosed, reaped, kill, aborted>>

\* The .catch of a rejected handleLine.
RunRejection ==
  /\ rejecting
  /\ rejecting' = FALSE
  /\ Settle("protocol")
  /\ UNCHANGED <<pyVars, toNode, toPy, tool, nodeOut, finalOut, spoilt,
                 lineClosed, reaped, kill, aborted>>

\* Faulty variant: a failing tool is counted but not answered.
FinishToolSilently(i, r) ==
  /\ tool[i] = "running"
  /\ tool' = [tool EXCEPT ![i] = r]
  /\ toPy' = IF ~reaped /\ Alive /\ r \in {"ok", "big"}
             THEN Append(toPy, [id |-> i, kind |-> AnswerKind(r)]) ELSE toPy
  /\ UNCHANGED <<pyVars, toNode, outcome, verdict, rejecting, nodeOut,
                 finalOut, spoilt, lineClosed, reaped, kill, aborted>>

\* The rest of handleToolCall: the tool has produced r and send() answers,
\* unless stdin is destroyed; a line to a dead process is lost.
FinishTool(i, r) ==
  /\ tool[i] = "running"
  /\ tool' = [tool EXCEPT ![i] = r]
  /\ toPy' = IF ~reaped /\ Alive
             THEN Append(toPy, [id |-> i, kind |-> AnswerKind(r)]) ELSE toPy
  /\ UNCHANGED <<pyVars, toNode, outcome, verdict, rejecting, nodeOut,
                 finalOut, spoilt, lineClosed, reaped, kill, aborted>>

StderrData ==
  /\ traceback = "inflight"
  /\ traceback' = "read"
  /\ UNCHANGED <<py, callId, caller, pendingCalls, reader, buffered, printed,
                 written, holders, terminal, toNode, toPy, nodeVars>>

\* A traceback in the stderr read so far is Python's error; with anything else
\* there, or nothing, it is a failure of the transport.
buildUnexpectedCloseError == IF traceback = "read" THEN "python" ELSE "transport"

\* Faulty variant: the process's end settles the run while lines are buffered.
LineReaderCloseEarly ==
  /\ ~Alive /\ ~rejecting /\ ~lineClosed
  /\ lineClosed' = TRUE
  /\ Settle(buildUnexpectedCloseError)
  /\ UNCHANGED <<pyVars, toNode, toPy, rejecting, tool, nodeOut, finalOut,
                 spoilt, reaped, kill, aborted>>

\* lineReader "close" and its microtask, when the last holder of stdout has let
\* go of it: that may be Python while it lives, or a subprocess long after
\* Python was killed.
LineReaderClose ==
  /\ ~PyHolds /\ ~inherited /\ toNode = <<>> /\ ~rejecting /\ ~lineClosed
  /\ lineClosed' = TRUE
  /\ Settle(buildUnexpectedCloseError)
  /\ UNCHANGED <<pyVars, toNode, toPy, rejecting, tool, nodeOut, finalOut,
                 spoilt, reaped, kill, aborted>>

ProcessExit ==
  /\ ~Alive /\ ~reaped /\ ~rejecting
  /\ reaped' = TRUE
  /\ UNCHANGED <<pyVars, toNode, toPy, outcome, verdict, rejecting, tool,
                 nodeOut, finalOut, spoilt, lineClosed, kill, aborted>>

\* spawn() failed: proc emits "error" and there never was a process.
SpawnError ==
  /\ py = "running" /\ PyHolds /\ callId = 0 /\ written = 0
  /\ verdict = "none"
  /\ py' = "exited" /\ reaped' = TRUE
  /\ Settle("transport")
  /\ UNCHANGED <<callId, caller, pendingCalls, reader, buffered, printed,
                 written, holders, terminal, traceback, toNode, toPy,
                 rejecting, tool, nodeOut, finalOut, spoilt, lineClosed, kill,
                 aborted>>

\* SIGTERM now, SIGKILL in five seconds; a second call changes nothing that
\* the first one has not arranged already.
terminateProcess == kill' = IF kill = "none" THEN "term" ELSE kill

\* Faulty variant: the timer does not run while a tool does.
ExecutionTimeoutIdle ==
  /\ outcome = "none" /\ verdict = "none" /\ ~rejecting
  /\ \A i \in Ids : tool[i] # "running"
  /\ verdict' = "timeout"
  /\ terminateProcess
  /\ UNCHANGED <<pyVars, toNode, toPy, outcome, rejecting, tool, nodeOut,
                 finalOut, spoilt, lineClosed, reaped, aborted>>

\* The timer of waitForCompletion; it is cleared once completionPromise
\* settles.  The caller gets the timeout, completed stays false.
ExecutionTimeout ==
  /\ outcome = "none" /\ verdict = "none" /\ ~rejecting
  /\ verdict' = "timeout"
  /\ terminateProcess
  /\ UNCHANGED <<pyVars, toNode, toPy, outcome, rejecting, tool, nodeOut,
                 finalOut, spoilt, lineClosed, reaped, aborted>>

\* The "abort" listener; it is never removed, so it also runs after the end.
Abort ==
  /\ ~aborted /\ ~rejecting
  /\ aborted' = TRUE
  /\ terminateProcess
  /\ Settle("abort")
  /\ UNCHANGED <<pyVars, toNode, toPy, rejecting, tool, nodeOut, finalOut,
                 spoilt, lineClosed, reaped>>

\* Faulty variant: SIGTERM is never followed by SIGKILL.
KillTimerNeverKills ==
  /\ kill = "term" /\ ~rejecting
  /\ kill' = "spent"
  /\ UNCHANGED <<pyVars, toNode, toPy, outcome, verdict, rejecting, tool,
                 nodeOut, finalOut, spoilt, lineClosed, reaped, aborted>>

\* The five-second timer of terminateProcess.  exitCode stays null for a
\* process a signal ended, but there is nothing left to kill then.
KillTimer ==
  /\ kill = "term" /\ ~rejecting
  /\ kill' = IF reaped THEN "spent" ELSE "kill"
  /\ UNCHANGED <<pyVars, toNode, toPy, outcome, verdict, rejecting, tool,
                 nodeOut, finalOut, spoilt, lineClosed, reaped, aborted>>

HandleLine ==
  \/ \E throws \in BOOLEAN : HandleToolCall(throws) \/ HandleProgress(throws)
  \/ HandleStdout
  \/ HandleInvalid
  \/ HandleMerged
  \/ HandleComplete
  \/ HandleError

NodeNext ==
  \/ HandleLine
  \/ RunRejection
  \/ \E i \in Ids, r \in Finished : FinishTool(i, r)
  \/ StderrData
  \/ LineReaderClose
  \/ ProcessExit
  \/ SpawnError
  \/ ExecutionTimeout
  \/ Abort
  \/ KillTimer

Next == PythonNext \/ NodeNext

Spec == Init /\ [][Next]_vars

-----------------------------------------------------------------------------
(* Fairness: what the schedulers of the two processes guarantee.  Nothing is
   assumed of user code, of the tools, of the user who may abort, or of a
   process that was only sent SIGTERM. *)

\* Node's event loop reads the pipes, runs microtasks and fires due timers;
\* the kernel delivers SIGKILL.
NodeFairness ==
  /\ WF_vars(HandleLine) /\ WF_vars(RunRejection) /\ WF_vars(LineReaderClose)
  /\ WF_vars(ProcessExit) /\ WF_vars(StderrData)
  /\ WF_vars(ExecutionTimeout) /\ WF_vars(KillTimer) /\ WF_vars(KernelKill)

\* asyncio's reader task runs as long as the loop does: user code is assumed
\* not to block the loop forever.
ReaderFairness == WF_vars(HandleResponse) /\ WF_vars(ReaderFails)

\* Every tool eventually returns: an assumption about the tools, used only to
\* ask whether the bridge itself loses an answer.
ToolFairness == \A i \in Ids : WF_vars(\E r \in Finished : FinishTool(i, r))

FairSpec == Spec /\ NodeFairness

\* No timer is assumed to fire here: an answer must not depend on one.
AnsweringSpec == /\ Spec
                 /\ WF_vars(HandleLine) /\ WF_vars(RunRejection)
                 /\ ReaderFairness /\ ToolFairness

-----------------------------------------------------------------------------
(* Properties *)

InToNode(i) == \E k \in DOMAIN toNode : toNode[k] = Frame("tool_call", i)
InToPy(i)   == \E k \in DOMAIN toPy : toPy[k].id = i

\* Every variable has its type (declarations of RpcProtocol and RpcClient).
TypeOK ==
  /\ py \in {"running", "draining", "exited"} /\ callId \in 0..MaxCalls
  /\ caller \in [Ids -> {"idle", "waiting", "ok", "err", "expired", "timeout",
                         "lost", "cancelled"}]
  /\ pendingCalls \in SUBSET Ids /\ reader \in {"up", "dead", "cancelled"}
  /\ buffered \in Nat /\ printed \in Nat /\ written \in Nat
  /\ stdoutOpen \in BOOLEAN /\ inherited \in BOOLEAN
  /\ terminal \in {"none", "complete", "error"}
  /\ traceback \in {"none", "inflight", "read"}
  /\ toNode \in Seq(Frames) /\ toPy \in Seq(Answers)
  /\ outcome \in Outcomes /\ verdict \in Outcomes \cup {"timeout"}
  /\ rejecting \in BOOLEAN
  /\ tool \in [Ids -> {"idle", "running"} \cup Finished]
  /\ nodeOut \in Nat /\ finalOut \in Nat /\ spoilt \in Nat
  /\ lineClosed \in BOOLEAN /\ reaped \in BOOLEAN
  /\ kill \in {"none", "term", "kill", "spent"} /\ aborted \in BOOLEAN

\* A coroutine that got a result or an error got the one its own tool
\* produced, whatever order tools finish in and however late answers come
\* (RpcClient._handle_response against RpcProtocol.handleToolCall).
AnswerMatchesTool ==
  \A i \in Ids : caller[i] \in {"ok", "err"} =>
    tool[i] \in Finished /\ caller[i] = AnswerKind(tool[i])

\* A tool is run at most once per call and its result is final
\* (handleToolCall; nothing retries a call).
ToolRunsAtMostOnce ==
  [][\A i \in Ids : tool[i] # "idle" =>
       \/ tool'[i] = tool[i]
       \/ tool[i] = "running" /\ tool'[i] \in Finished]_vars

\* pending_calls holds every call that can still be answered, and nothing but
\* calls whose coroutine has not resumed or was cancelled: no leak on timeouts,
\* late answers or the reader's failure (rpc.py: call, _handle_response,
\* _fail_pending_calls).  A call cancelled by user code is the gap: call() leaves
\* its entry to the answer, see NoCallForgotten.
PendingIsExact ==
  /\ \A i \in Ids : caller[i] = "waiting" => i \in pendingCalls
  /\ \A i \in pendingCalls : caller[i] \in {"waiting", "expired", "cancelled"}

\* While user code runs and the reader lives, every entry of pending_calls - a
\* call that waits, has expired or was cancelled - is on its way to Node, in a
\* tool, or on its way back, where the answer will remove it - unless a rejected
\* handleLine dropped it, which has failed (or is about to fail) the whole
\* execution.
NoCallForgotten ==
  py = "running" /\ reader = "up" =>
    \A i \in pendingCalls :
      \/ InToNode(i) \/ tool[i] = "running" \/ InToPy(i)
      \/ rejecting \/ outcome \in {"protocol", "abort"}

\* The verdict names what happened: success only if user_main returned, a
\* Python error only if one was reported, "transport" only if no terminal frame
\* was written and none can be any more (handleLine, buildUnexpectedCloseError,
\* and a "complete" still buffered when the process exits).  A transport failure
\* may hide a traceback that Node had not read when stdout ended.
TruthfulVerdict ==
  /\ verdict = "complete" => terminal = "complete"
  /\ verdict = "python" => terminal = "error" \/ traceback = "read"
  /\ verdict = "transport" => terminal = "none" /\ ~PyHolds
  /\ verdict = "abort" => aborted

\* When nothing else can disturb the protocol (no tool call, no raw line), a
\* program that returned is not failed as a protocol error, whatever it
\* returned (README, "Report returns are a soft contract").
ReturnIsDelivered == terminal = "complete" => verdict # "protocol"

\* A successful execution returns all the text user code printed, with or
\* without a final newline (_StdoutProxy.flush, appendStdout), but for the text
\* of frames that raw text had been merged with: a protocol error then, unless
\* the complete frame of the same chunk wins over that error's microtask.
OutputComplete == verdict = "complete" => finalOut + spoilt = printed

\* Once Node has given up on the process - timeout or abort - the process ends
\* and the calls it had already written are handled, so that no tool starts
\* afterwards, even if user code ignores SIGTERM or left a subprocess that keeps
\* stdout open (terminateProcess kills Python only; the pipe need not end).
GivenUp == verdict = "timeout" \/ outcome = "abort"
CallsDrained == \A k \in DOMAIN toNode : toNode[k].type # "tool_call"
Quiet == ~Alive /\ CallsDrained
GiveUpQuiesces == GivenUp ~> []Quiet

\* Every execution gets a verdict, even if user code loops forever, every tool
\* hangs and Python never writes a frame (waitForCompletion).
EventuallySettled == <>(verdict # "none")

\* If tools return, a call of running user code is answered without the help
\* of any timer, unless the reader died or handleLine rejected.
AnswerArrives ==
  \A i \in Ids : caller[i] = "waiting" ~>
    \/ caller[i] # "waiting" \/ py # "running"
    \/ reader = "dead" \/ outcome \in {"protocol", "abort"}

=============================================================================
