--------------------------- MODULE RpcVerdictProofs ---------------------------
(***************************************************************************)
(* What an execution is told: no call is forgotten, the verdict is true,   *)
(* a successful one is complete; and all of it together, that RpcBridge    *)
(* implements Execution.  For every number of calls and lines.             *)
(***************************************************************************)
EXTENDS RpcRefinement, RpcBridgeProofs

-----------------------------------------------------------------------------
(* The verdict *)

Terminals == {"complete", "badreport", "error"}

\* The terminal frames on pipe q are of the kind t says was emitted.
Told(q, t) ==
  \A k \in DOMAIN q :
    /\ q[k].type \in {"complete", "badreport"} => t = "complete"
    /\ q[k].type = "error" => t = "error"

Carries(q) == \E k \in DOMAIN q : q[k].type \in Terminals

\* The terminal frame is the last thing _runtime_main does.
RunningIsOpen == py = "running" => terminal = "none"

\* Only the end of the process leaves a traceback, and only without a frame.
TracebackIsLast == traceback # "none" => ~Alive /\ terminal = "none"

\* Node hears of an exit that has happened.
ReapedIsDead == reaped => ~Alive

FramesTold == Told(toNode, terminal)

\* A terminal frame that Node has read has settled the execution, or its
\* rejection is about to.
TerminalHeard ==
  terminal # "none" => Carries(toNode) \/ rejecting \/ verdict # "none"

\* completionPromise and waitForCompletion agree but for the timeout.
Settlements ==
  /\ verdict = "none" => outcome = "none"
  /\ verdict \notin {"none", "timeout"} => outcome # "none"

\* While user code runs and its stdout is read, only its calls, its raw text or
\* the caller can have ended the run.
OutcomeOfRunning ==
  py = "running" /\ ~lineClosed => outcome \notin {"complete", "python", "transport"}

\* No line is left to be rejected once stdout has ended.
ClosedIsHeard == lineClosed => ~rejecting

VerdictInv ==
  /\ RunningIsOpen /\ TracebackIsLast /\ ReapedIsDead /\ FramesTold
  /\ TerminalHeard /\ Settlements /\ OutcomeOfRunning /\ ClosedIsHeard
  /\ TruthfulVerdict

\* A frame of another type than f's concerns nobody: only a terminal frame has
\* to be the one t names.
LEMMA ToldAppend ==
  ASSUME NEW q \in Seq(Frames), NEW t, Told(q, t), NEW f \in Frames,
         f.type \in {"complete", "badreport"} => t = "complete",
         f.type = "error" => t = "error"
  PROVE  Told(Append(q, f), t)
  BY PutLine DEF Told

\* Before any terminal frame is emitted, the pipe agrees with whichever it will be.
LEMMA ToldBefore ==
  ASSUME NEW q, Told(q, "none"), NEW t
  PROVE  Told(q, t)
  BY DEF Told

\* Writing a line keeps a terminal frame on the pipe, and puts one there if it is one.
LEMMA CarriesAppend ==
  ASSUME NEW q \in Seq(Frames), NEW f \in Frames,
         Carries(q) \/ f.type \in Terminals
  PROVE  Carries(Append(q, f))
<1>1. /\ DOMAIN Append(q, f) = 1..(Len(q) + 1)
      /\ \A k \in DOMAIN q : Append(q, f)[k] = q[k]
      /\ Append(q, f)[Len(q) + 1] = f
      /\ DOMAIN q = 1..Len(q) /\ Len(q) \in Nat
  BY PutLine
<1>2. QED
  BY <1>1 DEF Carries

\* Taking a line keeps the agreement.
LEMMA ToldTail ==
  ASSUME NEW q \in Seq(Frames), q # <<>>, NEW t, Told(q, t)
  PROVE  Told(Tail(q), t)
  BY TakeLine DEF Told

\* Taking a line that is no terminal frame leaves a terminal frame where it is.
LEMMA CarriesTail ==
  ASSUME NEW q \in Seq(Frames), q # <<>>, Carries(q), Head(q).type \notin Terminals
  PROVE  Carries(Tail(q))
<1>1. PICK k \in DOMAIN q : q[k].type \in Terminals
  BY DEF Carries
<1>2. k # 1 /\ k \in 1..Len(q) /\ Len(q) \in Nat
  BY <1>1, TakeLine
<1>3. k - 1 \in DOMAIN Tail(q) /\ Tail(q)[k - 1] = q[k]
  BY <1>2
<1>4. QED
  BY <1>1, <1>3 DEF Carries

\* A step that ends nothing, settles nothing and loses no terminal frame.
LEMMA VerdictQuiet ==
  ASSUME VerdictInv, Told(toNode', terminal),
         Carries(toNode) => Carries(toNode') \/ rejecting',
         rejecting => rejecting', rejecting' => rejecting \/ ~lineClosed,
         UNCHANGED <<py, terminal, traceback, reaped, outcome, verdict, aborted,
                     lineClosed>>, PyHolds' => PyHolds
  PROVE  VerdictInv'
  BY DEF VerdictInv, RunningIsOpen, TracebackIsLast, ReapedIsDead, FramesTold,
         TerminalHeard, Settlements, OutcomeOfRunning, ClosedIsHeard, TruthfulVerdict, PyHolds, Alive

\* A frame that is no terminal frame leaves everything a verdict rests on.
LEMMA VerdictOtherFrame ==
  ASSUME TypeOK, VerdictInv, NEW t \in FrameTypes \ Terminals, NEW a \in Nat,
         toNode' = Append(toNode, Frame(t, a)) \/ UNCHANGED toNode,
         UNCHANGED <<rejecting, py, terminal, traceback, reaped, outcome,
                     verdict, aborted, lineClosed, stdoutOpen>>
  PROVE  VerdictInv'
<1>1. /\ Frame(t, a) \in Frames /\ Frame(t, a).type = t
      /\ toNode \in Seq(Frames) /\ Told(toNode, terminal)
  BY DEF Frame, Frames, TypeOK, VerdictInv, FramesTold
<1>2. Told(toNode', terminal)
  BY <1>1, ToldAppend DEF Terminals
<1>3. Carries(toNode) => Carries(toNode')
  BY <1>1, CarriesAppend
<1>4. PyHolds' => PyHolds
  BY DEF PyHolds, Alive
<1>5. QED
  BY <1>2, <1>3, <1>4, VerdictQuiet

\* Leaving _runtime_main with a terminal frame of type f, after any frames that
\* are none.
LEMMA VerdictEmit ==
  ASSUME TypeOK, VerdictInv, py = "running", PyHolds, py' = "draining",
         NEW before \in Seq(Frames), Told(before, "none"),
         NEW f \in Terminals, toNode' = before \o <<Frame(f, 0)>>,
         terminal' = IF f = "error" THEN "error" ELSE "complete",
         UNCHANGED <<rejecting, traceback, reaped, outcome, verdict, aborted,
                     lineClosed, stdoutOpen>>
  PROVE  VerdictInv'
<1>1. Frame(f, 0) \in Frames /\ Frame(f, 0).type = f
  BY DEF Frame, Frames, FrameTypes, Terminals
<1>2. toNode' = Append(before, Frame(f, 0))
  BY <1>1
<1>3. FramesTold'
  BY <1>1, <1>2, ToldBefore, ToldAppend DEF FramesTold, Terminals
<1>4. TerminalHeard'
  BY <1>1, <1>2, CarriesAppend DEF TerminalHeard
<1>5. QED
  BY <1>3, <1>4 DEF VerdictInv, RunningIsOpen, TracebackIsLast, ReapedIsDead,
     Settlements, OutcomeOfRunning, ClosedIsHeard, TruthfulVerdict, PyHolds, Alive

\* The invariant about the verdict survives every Python step.
LEMMA PythonVerdict == TypeOK /\ VerdictInv /\ PythonNext => VerdictInv'
<1> SUFFICES ASSUME TypeOK, VerdictInv, PythonNext PROVE VerdictInv'
  OBVIOUS
<1>a. toNode \in Seq(Frames) /\ Told(toNode, terminal) /\ buffered \in Nat
  BY DEF TypeOK, VerdictInv, FramesTold
<1>b. py = "running" => Told(toNode, "none") /\ Told(Flushed, "none")
                        /\ Flushed \in Seq(Frames)
  <2> SUFFICES ASSUME py = "running"
               PROVE  Told(toNode, "none") /\ Told(Flushed, "none")
                      /\ Flushed \in Seq(Frames)
    OBVIOUS
  <2>1. Told(toNode, "none")
    BY <1>a DEF VerdictInv, RunningIsOpen
  <2>2. Frame("stdout", buffered) \in Frames /\ Frame("stdout", buffered).type = "stdout"
    BY <1>a DEF Frame, Frames, FrameTypes
  <2>3. Told(Append(toNode, Frame("stdout", buffered)), "none")
    BY <1>a, <2>1, <2>2, ToldAppend
  <2>4. QED
    BY <1>a, <2>1, <2>2, <2>3, PutLine DEF Flushed
<1>1. CASE IssueCall
  BY <1>1, VerdictOtherFrame DEF IssueCall, nodeVars, holders, TypeOK,
     FrameTypes, Terminals
<1>2. ASSUME NEW newline \in BOOLEAN, ProxyWrite(newline) PROVE VerdictInv'
  <2>1. buffered + 1 \in Nat /\ "stdout" \in FrameTypes \ Terminals
    BY <1>a DEF FrameTypes, Terminals
  <2>2. toNode' = Append(toNode, Frame("stdout", buffered + 1)) \/ UNCHANGED toNode
    BY <1>2 DEF ProxyWrite
  <2>3. QED
    BY <1>2, <2>1, <2>2, VerdictOtherFrame DEF ProxyWrite, nodeVars, holders
<1>3. CASE Progress
  BY <1>3, VerdictOtherFrame DEF Progress, nodeVars, holders, FrameTypes, Terminals
<1>4. ASSUME NEW newline \in BOOLEAN, RawText(newline) PROVE VerdictInv'
  <2>1. {"noise", "fragment"} \subseteq FrameTypes \ Terminals /\ 0 \in Nat
    BY DEF FrameTypes, Terminals
  <2>2. UNCHANGED <<rejecting, py, terminal, traceback, reaped, outcome,
                    verdict, aborted, lineClosed, stdoutOpen>>
    BY <1>4 DEF RawText, nodeVars, holders
  <2>3. QED
    BY <1>4, <2>1, <2>2, RawTextPuts, VerdictOtherFrame
<1>5. ASSUME NEW f \in {"complete", "badreport"}, ReturnValue(f) PROVE VerdictInv'
  <2>1. f \in Terminals /\ f # "error"
    BY DEF Terminals
  <2>2. /\ py = "running" /\ PyHolds /\ py' = "draining" /\ terminal' = "complete"
        /\ toNode' = Flushed \o <<Frame(f, 0)>>
        /\ UNCHANGED <<rejecting, traceback, reaped, outcome, verdict, aborted,
                       lineClosed, stdoutOpen>>
    BY <1>5 DEF ReturnValue, WindDown, nodeVars, holders
  <2>3. QED
    BY <1>b, <2>1, <2>2, VerdictEmit
<1>6. ASSUME NEW returned \in BOOLEAN, RaiseException(returned) PROVE VerdictInv'
  <2> DEFINE before == IF returned THEN Flushed ELSE toNode
  <2>1. /\ py = "running" /\ PyHolds /\ py' = "draining" /\ terminal' = "error"
        /\ toNode' = before \o <<Frame("error", 0)>>
        /\ UNCHANGED <<rejecting, traceback, reaped, outcome, verdict, aborted,
                       lineClosed, stdoutOpen>>
    BY <1>6 DEF RaiseException, WindDown, nodeVars, holders
  <2>2. before \in Seq(Frames) /\ Told(before, "none")
    BY <1>a, <1>b, <2>1
  <2>3. "error" \in Terminals
    BY DEF Terminals
  <2> HIDE DEF before
  <2>4. QED
    BY <2>1, <2>2, <2>3, VerdictEmit
<1>7. CASE RaiseSystemExit
  BY <1>7 DEF RaiseSystemExit, WindDown, nodeVars, holders, VerdictInv, RunningIsOpen,
     TracebackIsLast, ReapedIsDead, FramesTold, TerminalHeard, Settlements,
     OutcomeOfRunning, ClosedIsHeard, TruthfulVerdict, PyHolds, Alive
<1>8. ASSUME NEW tb \in BOOLEAN, Exit(tb) PROVE VerdictInv'
  BY <1>8 DEF Exit, nodeVars, holders, VerdictInv, RunningIsOpen, TracebackIsLast,
     ReapedIsDead, FramesTold, TerminalHeard, Settlements, OutcomeOfRunning, ClosedIsHeard,
     TruthfulVerdict, PyHolds, Alive
<1>9. CASE KernelKill
  BY <1>9 DEF KernelKill, nodeVars, holders, VerdictInv, RunningIsOpen, TracebackIsLast,
     ReapedIsDead, FramesTold, TerminalHeard, Settlements, OutcomeOfRunning, ClosedIsHeard,
     TruthfulVerdict, PyHolds, Alive
<1>10. CASE /\ UNCHANGED <<toNode, rejecting, py, terminal, traceback, reaped,
                            outcome, verdict, aborted, lineClosed>>
            /\ stdoutOpen' => stdoutOpen
  <2>1. PyHolds' => PyHolds
    BY <1>10 DEF PyHolds, Alive
  <2>2. QED
    BY <1>10, <1>a, <2>1, VerdictQuiet
<1>11. \/ HandleResponse \/ ReaderFails \/ Inherit \/ SubprocessEnds \/ CloseStdout
       \/ \E i \in Ids : ExpireCall(i) \/ ResumeExpired(i) \/ CancelCall(i)
       => /\ UNCHANGED <<toNode, rejecting, py, terminal, traceback, reaped,
                         outcome, verdict, aborted, lineClosed>>
          /\ stdoutOpen' => stdoutOpen
  BY DEF HandleResponse, ReaderFails, Inherit, SubprocessEnds, CloseStdout,
     ExpireCall, ResumeExpired, CancelCall, nodeVars, holders
<1>12. QED
  BY <1>1, <1>2, <1>3, <1>4, <1>5, <1>6, <1>7, <1>8, <1>9, <1>10, <1>11
     DEF PythonNext

\* The invariant about the verdict survives every Node step.
LEMMA NodeVerdict == TypeOK /\ VerdictInv /\ NodeNext => VerdictInv'
<1> SUFFICES ASSUME TypeOK, VerdictInv, NodeNext PROVE VerdictInv'
  OBVIOUS
<1> DEFINE Still == UNCHANGED <<py, terminal, traceback, reaped, outcome,
                                verdict, aborted, lineClosed, stdoutOpen>>
<1>a. toNode \in Seq(Frames) /\ Told(toNode, terminal)
  BY DEF TypeOK, VerdictInv, FramesTold
<1>b. ASSUME toNode # <<>>, toNode' = Tail(toNode)
      PROVE  /\ Told(toNode', terminal)
             /\ Head(toNode).type \notin Terminals /\ Carries(toNode) => Carries(toNode')
             /\ Head(toNode).type = "complete" => terminal = "complete"
             /\ Head(toNode).type = "error" => terminal = "error"
  BY <1>a, <1>b, ToldTail, CarriesTail, TakeLine DEF Told
<1>c. ASSUME toNode # <<>>, toNode' = Tail(toNode), Still,
             Head(toNode).type \notin Terminals \/ rejecting',
             rejecting => rejecting', ~lineClosed
      PROVE  VerdictInv'
  <2>1. PyHolds' => PyHolds
    BY <1>c DEF PyHolds, Alive
  <2>2. QED
    BY <1>b, <1>c, <2>1, VerdictQuiet
<1>d. ASSUME UNCHANGED toNode, Still, UNCHANGED rejecting PROVE VerdictInv'
  <2>1. PyHolds' => PyHolds
    BY <1>d DEF PyHolds, Alive
  <2>2. QED
    BY <1>a, <1>d, <2>1, VerdictQuiet
<1>1. ASSUME HandleLine PROVE VerdictInv'
  <2>1. ASSUME NEW throws \in BOOLEAN, HandleToolCall(throws) PROVE VerdictInv'
    <3>1. Still /\ (rejecting => rejecting')
      BY <2>1 DEF HandleToolCall, pyVars, holders
    <3>2. /\ toNode # <<>> /\ toNode' = Tail(toNode)
          /\ Head(toNode).type = "tool_call" /\ ~lineClosed
      BY <2>1 DEF HandleToolCall, NextLine
    <3>3. QED
      BY <1>c, <3>1, <3>2 DEF Terminals
  <2>2. ASSUME NEW throws \in BOOLEAN, HandleProgress(throws) PROVE VerdictInv'
    BY <1>c, <2>2 DEF HandleProgress, NextLine, pyVars, holders, Terminals
  <2>3. CASE HandleStdout
    BY <1>c, <2>3 DEF HandleStdout, NextLine, pyVars, holders, Terminals
  <2>4. CASE HandleInvalid
    BY <1>c, <2>4 DEF HandleInvalid, NextLine, pyVars, holders
  <2>5. CASE HandleComplete
    <3>1. terminal = "complete" /\ FramesTold'
      BY <1>b, <2>5 DEF HandleComplete, NextLine, pyVars, FramesTold
    <3>2. QED
      BY <2>5, <3>1 DEF HandleComplete, NextLine, Settle, pyVars, holders, VerdictInv, RunningIsOpen,
         TracebackIsLast, ReapedIsDead, TerminalHeard, Settlements,
         OutcomeOfRunning, ClosedIsHeard, TruthfulVerdict, PyHolds, Alive
  <2>6. CASE HandleError
    <3>1. terminal = "error" /\ FramesTold'
      BY <1>b, <2>6 DEF HandleError, NextLine, pyVars, FramesTold
    <3>2. QED
      BY <2>6, <3>1 DEF HandleError, NextLine, Settle, pyVars, holders, VerdictInv, RunningIsOpen,
         TracebackIsLast, ReapedIsDead, TerminalHeard, Settlements,
         OutcomeOfRunning, ClosedIsHeard, TruthfulVerdict, PyHolds, Alive
  <2>7. CASE HandleMerged
    <3>1. Told(toNode', terminal)
      <4>1. CASE Len(toNode) > 1 /\ toNode' = Tail(Tail(toNode))
        BY <1>a, <4>1, TakeTwo, ToldTail
      <4>2. CASE toNode' = <<>>
        BY <4>2 DEF Told
      <4>3. QED
        BY <1>a, <2>7, <4>1, <4>2, MergedTakes
    <3>2. Still /\ rejecting' /\ ~lineClosed
      BY <2>7 DEF HandleMerged, NextLine, pyVars, holders
    <3>3. PyHolds' => PyHolds
      BY <3>2 DEF PyHolds, Alive
    <3>4. QED
      BY <3>1, <3>2, <3>3, VerdictQuiet
  <2>8. QED
    BY <1>1, <2>1, <2>2, <2>3, <2>4, <2>5, <2>6, <2>7 DEF HandleLine
<1>2. CASE RunRejection
  BY <1>2 DEF RunRejection, Settle, pyVars, holders, VerdictInv, RunningIsOpen,
     TracebackIsLast, ReapedIsDead, FramesTold, TerminalHeard, Settlements,
     OutcomeOfRunning, ClosedIsHeard, TruthfulVerdict, PyHolds, Alive
<1>3. ASSUME NEW i \in Ids, NEW r \in Finished, FinishTool(i, r) PROVE VerdictInv'
  BY <1>d, <1>3 DEF FinishTool, pyVars, holders
<1>4. CASE StderrData
  BY <1>4 DEF StderrData, nodeVars, holders, VerdictInv, RunningIsOpen, TracebackIsLast,
     ReapedIsDead, FramesTold, TerminalHeard, Settlements, OutcomeOfRunning, ClosedIsHeard,
     TruthfulVerdict, PyHolds, Alive
<1>5. CASE LineReaderClose
  <2>1. ~Carries(toNode) /\ ~rejecting /\ ~PyHolds
    BY <1>5 DEF LineReaderClose, Carries
  <2>2. QED
    BY <1>5, <2>1 DEF LineReaderClose, buildUnexpectedCloseError, Settle, pyVars, holders,
        VerdictInv, RunningIsOpen,
       TracebackIsLast, ReapedIsDead, FramesTold, TerminalHeard, Settlements,
       OutcomeOfRunning, ClosedIsHeard, TruthfulVerdict, PyHolds, Alive
<1>6. CASE ProcessExit
  BY <1>6 DEF ProcessExit, pyVars, holders, VerdictInv, RunningIsOpen, TracebackIsLast,
     ReapedIsDead, FramesTold, TerminalHeard, Settlements, OutcomeOfRunning, ClosedIsHeard,
     TruthfulVerdict, PyHolds, Alive
<1>7. CASE SpawnError
  BY <1>7 DEF SpawnError, Settle, VerdictInv, RunningIsOpen, TracebackIsLast,
     ReapedIsDead, FramesTold, TerminalHeard, Settlements, OutcomeOfRunning, ClosedIsHeard,
     TruthfulVerdict, PyHolds, Alive
<1>8. CASE ExecutionTimeout
  BY <1>8 DEF ExecutionTimeout, pyVars, holders, VerdictInv, RunningIsOpen,
     TracebackIsLast, ReapedIsDead, FramesTold, TerminalHeard, Settlements,
     OutcomeOfRunning, ClosedIsHeard, TruthfulVerdict, PyHolds, Alive
<1>9. CASE Abort
  BY <1>9 DEF Abort, Settle, pyVars, holders, VerdictInv, RunningIsOpen, TracebackIsLast,
     ReapedIsDead, FramesTold, TerminalHeard, Settlements, OutcomeOfRunning, ClosedIsHeard,
     TruthfulVerdict, PyHolds, Alive
<1>10. CASE KillTimer
  BY <1>d, <1>10 DEF KillTimer, pyVars, holders
<1>11. QED
  BY <1>1, <1>2, <1>3, <1>4, <1>5, <1>6, <1>7, <1>8, <1>9, <1>10 DEF NodeNext

\* The verdict invariant is inductive, given the types.
LEMMA VerdictInvariant == Spec => []VerdictInv
<1>1. Init => VerdictInv
  BY DEF Init, VerdictInv, RunningIsOpen, TracebackIsLast, ReapedIsDead,
     FramesTold, Told, TerminalHeard, Settlements, OutcomeOfRunning, ClosedIsHeard,
     TruthfulVerdict, PyHolds, Alive
<1>2. TypeOK /\ VerdictInv /\ [Next]_vars => VerdictInv'
  <2>1. VerdictInv /\ UNCHANGED vars => VerdictInv'
    BY VerdictQuiet DEF vars, pyVars, nodeVars, holders, VerdictInv, FramesTold,
       PyHolds, Alive
  <2>2. QED
    BY <2>1, PythonVerdict, NodeVerdict DEF Next
<1>3. QED
  BY <1>1, <1>2, TypeCorrect, PTL DEF Spec

\* Whatever order frames, exits, timers and rejections come in, the verdict
\* names what happened to the program.
THEOREM VerdictsTrue == Spec => []TruthfulVerdict
<1>1. VerdictInv => TruthfulVerdict
  BY DEF VerdictInv
<1>2. QED
  BY <1>1, VerdictInvariant, PTL

-----------------------------------------------------------------------------
(* The text printed *)

\* s[k] is the text in n and in the first k frames of q.
Carried(q, s, n) ==
  /\ s \in [0..Len(q) -> Nat] /\ s[0] = n
  /\ \A k \in DOMAIN q : s[k] = s[k - 1] + Text(q[k])

\* All p characters printed are among the n that Node has read, on the pipe or
\* the b that wait in the proxy, and ahead of the complete frame if there is one.
Accounted(q, n, b, p) ==
  \E s : /\ Carried(q, s, n)
         /\ s[Len(q)] + b = p
         /\ \A k \in DOMAIN q : q[k].type = "complete" => s[k] = p

TextAccounted ==
  outcome = "none" => Accounted(toNode, nodeOut + spoilt, buffered, printed)

OutputInv == TextAccounted /\ OutputComplete

\* Of p characters a have arrived or are on the pipe and b wait; a frame takes c
\* of them, and leaves b2 of the p2 printed by then.
LEMMA Conserved ==
  ASSUME NEW a \in Nat, NEW b \in Nat, NEW p \in Nat, NEW c \in Nat,
         NEW b2 \in Nat, NEW p2 \in Nat, a + b = p, c + b2 + p = b + p2
  PROVE  (a + c) + b2 = p2
  OBVIOUS

\* Writing a frame moves the text it holds out of the proxy; more text may be
\* printed with it unless a complete frame has left.
LEMMA AccountedPut ==
  ASSUME NEW q \in Seq(Frames), NEW n \in Nat, NEW b \in Nat, NEW p \in Nat,
         Accounted(q, n, b, p), NEW f \in Frames, NEW b2 \in Nat, NEW p2 \in Nat,
         Text(f) + b2 + p = b + p2,
         p2 # p => Told(q, "none"),
         f.type = "complete" => b2 = 0
  PROVE  Accounted(Append(q, f), n, b2, p2)
<1>1. PICK s : /\ Carried(q, s, n) /\ s[Len(q)] + b = p
               /\ \A k \in DOMAIN q : q[k].type = "complete" => s[k] = p
  BY DEF Accounted
<1> DEFINE L == Len(q)
           t == [k \in 0..(L + 1) |-> IF k <= L THEN s[k] ELSE s[L] + Text(f)]
<1>2. /\ DOMAIN Append(q, f) = 1..(L + 1) /\ Len(Append(q, f)) = L + 1
      /\ \A k \in 1..L : Append(q, f)[k] = q[k]
      /\ Append(q, f)[L + 1] = f
      /\ DOMAIN q = 1..L /\ L \in Nat
  BY PutLine
<1>3. Text(f) \in Nat
  BY DEF Text, Frames
<1>4. s \in [0..L -> Nat] /\ s[0] = n /\ \A k \in 1..L : s[k] = s[k - 1] + Text(q[k])
  BY <1>1, <1>2 DEF Carried
<1> HIDE DEF L
<1>5. t \in [0..(L + 1) -> Nat] /\ t[0] = n /\ t[L + 1] = s[L] + Text(f)
      /\ \A k \in 0..L : t[k] = s[k]
  <2>1. \A k \in 0..(L + 1) : t[k] = IF k <= L THEN s[k] ELSE s[L] + Text(f)
    OBVIOUS
  <2>2. t[L + 1] = s[L] + Text(f) /\ \A k \in 0..L : t[k] = s[k]
    BY <1>2, <2>1
  <2>3. ASSUME NEW k \in 0..(L + 1)
        PROVE  (IF k <= L THEN s[k] ELSE s[L] + Text(f)) \in Nat
    <3>1. s[L] + Text(f) \in Nat
      BY <1>2, <1>3, <1>4
    <3>2. k <= L => s[k] \in Nat
      BY <1>2, <1>4
    <3>3. QED
      BY <3>1, <3>2
  <2>4. t \in [0..(L + 1) -> Nat]
    BY <2>3
  <2>5. QED
    BY <1>2, <1>4, <2>2, <2>4
<1> HIDE DEF t
<1>6. ASSUME NEW k \in 1..(L + 1) PROVE t[k] = t[k - 1] + Text(Append(q, f)[k])
  <2>1. CASE k \in 1..L
    <3>1. k - 1 \in 0..L
      BY <1>2, <2>1
    <3>2. QED
      BY <1>2, <1>4, <1>5, <2>1, <3>1
  <2>2. CASE k = L + 1
    <3>1. k - 1 = L /\ L \in 0..L
      BY <1>2, <2>2
    <3>2. t[k - 1] = s[L]
      BY <1>5, <3>1
    <3>3. t[k] = s[L] + Text(f)
      BY <1>5, <2>2
    <3>4. Append(q, f)[k] = f
      BY <1>2, <2>2
    <3>5. QED
      BY <3>2, <3>3, <3>4
  <2>3. QED
    BY <1>2, <2>1, <2>2
<1>7. Carried(Append(q, f), t, n)
  BY <1>2, <1>5, <1>6 DEF Carried
<1>8. t[L + 1] + b2 = p2
  <2>1. s[L] + b = p /\ s[L] \in Nat
    BY <1>1, <1>2, <1>4 DEF L
  <2>2. t[L + 1] = s[L] + Text(f)
    BY <1>5
  <2>3. (s[L] + Text(f)) + b2 = p2
    <3> DEFINE a == s[L]
               c == Text(f)
    <3>1. a \in Nat /\ c \in Nat /\ a + b = p /\ c + b2 + p = b + p2
      BY <1>3, <2>1
    <3> HIDE DEF a, c
    <3>2. (a + c) + b2 = p2
      BY <3>1, Conserved
    <3>3. QED
      BY <3>2 DEF a, c
  <2>4. QED
    BY <2>2, <2>3
<1>9. ASSUME NEW k \in 1..(L + 1), Append(q, f)[k].type = "complete" PROVE t[k] = p2
  <2>1. CASE k \in 1..L
    <3>1. k \in DOMAIN q /\ q[k].type = "complete"
      BY <1>2, <1>9, <2>1
    <3>2. s[k] = p /\ ~Told(q, "none")
      BY <1>1, <3>1 DEF Told
    <3>3. t[k] = s[k]
      BY <1>2, <1>5, <2>1
    <3>4. p2 = p
      BY <3>2
    <3>5. QED
      BY <3>2, <3>3, <3>4
  <2>2. CASE k = L + 1
    <3>1. b2 = 0
      BY <1>2, <1>9, <2>2
    <3>2. t[L + 1] \in Nat
      BY <1>2, <1>5
    <3>3. t[L + 1] = p2
      BY <1>8, <3>1, <3>2
    <3>4. QED
      BY <2>2, <3>3
  <2>3. QED
    BY <1>2, <2>1, <2>2
<1>10. QED
  BY <1>2, <1>7, <1>8, <1>9 DEF Accounted

\* Text without a newline stays in the proxy.
LEMMA AccountedGrow ==
  ASSUME NEW q \in Seq(Frames), NEW n \in Nat, NEW b \in Nat, NEW p \in Nat,
         Accounted(q, n, b, p), Told(q, "none")
  PROVE  Accounted(q, n, b + 1, p + 1)
<1>1. PICK s : Carried(q, s, n) /\ s[Len(q)] + b = p
  BY DEF Accounted
<1>2. s[Len(q)] \in Nat
  BY <1>1 DEF Carried
<1>3. s[Len(q)] + (b + 1) = p + 1
  BY <1>1, <1>2
<1>4. QED
  BY <1>1, <1>3 DEF Accounted, Told

\* Reading a frame adds the text it holds to what has arrived; when it is the
\* complete frame, everything had arrived.
LEMMA AccountedTake ==
  ASSUME NEW q \in Seq(Frames), q # <<>>, NEW n \in Nat, NEW b \in Nat,
         NEW p \in Nat, Accounted(q, n, b, p)
  PROVE  /\ Accounted(Tail(q), n + Text(Head(q)), b, p)
         /\ Head(q).type = "complete" => n = p
<1>1. PICK s : /\ Carried(q, s, n) /\ s[Len(q)] + b = p
               /\ \A k \in DOMAIN q : q[k].type = "complete" => s[k] = p
  BY DEF Accounted
<1> DEFINE L == Len(q)
           t == [k \in 0..(L - 1) |-> s[k + 1]]
<1>2. /\ DOMAIN q = 1..L /\ L \in Nat \ {0} /\ Head(q) = q[1]
      /\ DOMAIN Tail(q) = 1..(L - 1) /\ Len(Tail(q)) = L - 1
      /\ \A k \in 1..(L - 1) : Tail(q)[k] = q[k + 1]
  OBVIOUS
<1>3. s \in [0..L -> Nat] /\ s[0] = n /\ \A k \in 1..L : s[k] = s[k - 1] + Text(q[k])
  BY <1>1, <1>2 DEF Carried
<1> HIDE DEF L
<1>4. s[1] = n + Text(Head(q))
  BY <1>2, <1>3
<1>5. t \in [0..(L - 1) -> Nat] /\ t[0] = s[1] /\ \A k \in 0..(L - 1) : t[k] = s[k + 1]
  BY <1>2, <1>3
<1> HIDE DEF t
<1>6. ASSUME NEW k \in 1..(L - 1) PROVE t[k] = t[k - 1] + Text(Tail(q)[k])
  <2>1. k + 1 \in 1..L /\ k \in 0..(L - 1) /\ k - 1 \in 0..(L - 1)
    BY <1>2
  <2>2. s[k + 1] = s[k] + Text(q[k + 1])
    BY <1>3, <2>1
  <2>3. t[k] = s[k + 1] /\ t[k - 1] = s[k]
    BY <1>5, <2>1
  <2>4. QED
    BY <1>2, <2>2, <2>3
<1>7. Carried(Tail(q), t, n + Text(Head(q)))
  BY <1>2, <1>4, <1>5, <1>6 DEF Carried
<1>8. t[L - 1] + b = p
  BY <1>1, <1>2, <1>5 DEF L
<1>9. ASSUME NEW k \in 1..(L - 1), Tail(q)[k].type = "complete" PROVE t[k] = p
  <2>1. k + 1 \in DOMAIN q /\ q[k + 1].type = "complete"
    BY <1>2, <1>9
  <2>2. s[k + 1] = p
    BY <1>1, <2>1
  <2>3. t[k] = s[k + 1]
    BY <1>2, <1>5
  <2>4. QED
    BY <2>2, <2>3
<1>10. ASSUME Head(q).type = "complete" PROVE n = p
  <2>1. s[1] = p
    BY <1>1, <1>2, <1>10
  <2>2. Text(Head(q)) = 0
    BY <1>10 DEF Text
  <2>3. QED
    BY <1>4, <2>1, <2>2
<1>11. QED
  BY <1>2, <1>7, <1>8, <1>9, <1>10 DEF Accounted

\* The account of the text survives every Python step, and nothing is printed
\* once an execution has been reported complete.
LEMMA PythonOutput == TypeOK /\ VerdictInv /\ OutputInv /\ PythonNext => OutputInv'
<1> SUFFICES ASSUME TypeOK, VerdictInv, OutputInv, PythonNext PROVE OutputInv'
  OBVIOUS
<1> DEFINE n == nodeOut + spoilt
<1>a. /\ toNode \in Seq(Frames) /\ n \in Nat /\ buffered \in Nat /\ printed \in Nat
      /\ outcome = "none" => Accounted(toNode, n, buffered, printed)
  BY DEF TypeOK, OutputInv, TextAccounted
<1>b. py = "running" => Told(toNode, "none") /\ verdict # "complete"
  BY DEF VerdictInv, FramesTold, RunningIsOpen, TruthfulVerdict
<1> DEFINE Node == UNCHANGED <<nodeOut, spoilt, outcome, verdict, finalOut>>
<1>c. ASSUME outcome = "none" => Accounted(toNode', n, buffered', printed'), Node,
             py = "running" \/ UNCHANGED printed
      PROVE  OutputInv'
  BY <1>b, <1>c DEF OutputInv, TextAccounted, OutputComplete
<1>d. ASSUME NEW t \in FrameTypes \ {"stdout", "complete"}, NEW a \in Nat,
             toNode' = Append(toNode, Frame(t, a)),
             Node, UNCHANGED <<buffered, printed>>
      PROVE  OutputInv'
  <2>1. Frame(t, a) \in Frames /\ Text(Frame(t, a)) = 0 /\ Frame(t, a).type # "complete"
    BY DEF Frame, Frames, Text
  <2>2. outcome = "none" => Accounted(toNode', n, buffered, printed)
    BY <1>a, <1>d, <2>1, AccountedPut
  <2>3. QED
    BY <1>c, <1>d, <2>2
<1>e. ASSUME Node, UNCHANGED <<toNode, buffered, printed>> PROVE OutputInv'
  BY <1>a, <1>c, <1>e
<1>f. /\ Flushed \in Seq(Frames)
      /\ outcome = "none" => Accounted(Flushed, n, 0, printed)
      /\ Told(toNode, "none") => Told(Flushed, "none")
  <2>1. CASE buffered > 0
    <3> DEFINE f == Frame("stdout", buffered)
    <3>1. f \in Frames /\ Text(f) = buffered /\ f.type = "stdout"
      BY <1>a DEF Frame, Frames, FrameTypes, Text
    <3>2. Flushed = Append(toNode, f)
      BY <2>1 DEF Flushed
    <3> HIDE DEF f
    <3>3. outcome = "none" => Accounted(Append(toNode, f), n, 0, printed)
      BY <1>a, <3>1, AccountedPut
    <3>4. QED
      BY <1>a, <3>1, <3>2, <3>3, PutLine, ToldAppend
  <2>2. CASE ~(buffered > 0)
    BY <1>a, <2>2 DEF Flushed
  <2>3. QED
    BY <2>1, <2>2
<1>1. CASE IssueCall
  <2>1. callId + 1 \in Nat /\ "tool_call" \in FrameTypes \ {"stdout", "complete"}
    BY DEF TypeOK, FrameTypes
  <2>2. /\ toNode' = Append(toNode, Frame("tool_call", callId + 1))
        /\ Node /\ UNCHANGED <<buffered, printed>>
    BY <1>1 DEF IssueCall, nodeVars
  <2>3. QED
    BY <1>d, <2>1, <2>2
<1>2. ASSUME NEW newline \in BOOLEAN, ProxyWrite(newline) PROVE OutputInv'
  <2>1. /\ py = "running" /\ printed' = printed + 1 /\ Told(toNode, "none")
        /\ Node
    BY <1>2, <1>b DEF ProxyWrite, nodeVars
  <2>2. CASE newline = TRUE
    <3> DEFINE f == Frame("stdout", buffered + 1)
    <3>1. f \in Frames /\ Text(f) = buffered + 1 /\ f.type = "stdout"
      BY <1>a DEF Frame, Frames, FrameTypes, Text
    <3>2. toNode' = Append(toNode, f) /\ buffered' = 0
      BY <1>2, <2>2 DEF ProxyWrite
    <3> HIDE DEF f
    <3>3. /\ printed + 1 \in Nat /\ 0 \in Nat
          /\ Text(f) + 0 + printed = buffered + (printed + 1)
      BY <1>a, <3>1
    <3>4. outcome = "none" => Accounted(Append(toNode, f), n, 0, printed + 1)
      BY <1>a, <2>1, <3>1, <3>3, AccountedPut
    <3>5. QED
      BY <1>c, <2>1, <3>2, <3>4
  <2>3. CASE newline = FALSE
    <3>1. UNCHANGED toNode /\ buffered' = buffered + 1
      BY <1>2, <2>3 DEF ProxyWrite
    <3>2. QED
      BY <1>a, <1>c, <2>1, <3>1, AccountedGrow
  <2>4. QED
    BY <2>2, <2>3
<1>3. CASE Progress
  <2>1. /\ toNode' = Append(toNode, Frame("progress", 0))
        /\ Node /\ UNCHANGED <<buffered, printed>>
    BY <1>3 DEF Progress, nodeVars
  <2>2. QED
    BY <1>d, <2>1 DEF FrameTypes
<1>4. ASSUME NEW newline \in BOOLEAN, RawText(newline) PROVE OutputInv'
  <2>1. {"noise", "fragment"} \subseteq FrameTypes \ {"stdout", "complete"}
    BY DEF FrameTypes
  <2>2. Node /\ UNCHANGED <<buffered, printed>>
    BY <1>4 DEF RawText, nodeVars
  <2>3. QED
    BY <1>4, <1>d, <1>e, <2>1, <2>2, RawTextPuts
<1>5. ASSUME NEW f \in {"complete", "badreport"}, ReturnValue(f) PROVE OutputInv'
  <2>1. Frame(f, 0) \in Frames /\ Text(Frame(f, 0)) = 0
    BY DEF Frame, Frames, FrameTypes, Text
  <2>2. /\ toNode' = Append(Flushed, Frame(f, 0)) /\ buffered' = 0
        /\ Node /\ UNCHANGED printed
    BY <1>5, <1>f, <2>1 DEF ReturnValue, nodeVars
  <2>3. outcome = "none" => Accounted(toNode', n, 0, printed)
    BY <1>a, <1>f, <2>1, <2>2, AccountedPut
  <2>4. QED
    BY <1>c, <2>2, <2>3
<1>6. ASSUME NEW returned \in BOOLEAN, RaiseException(returned) PROVE OutputInv'
  <2> DEFINE before == IF returned THEN Flushed ELSE toNode
             left   == IF returned THEN 0 ELSE buffered
  <2>1. /\ toNode' = before \o <<Frame("error", 0)>> /\ buffered' = left
        /\ Node /\ UNCHANGED printed
    BY <1>6 DEF RaiseException, nodeVars
  <2>2. /\ before \in Seq(Frames) /\ left \in Nat
        /\ outcome = "none" => Accounted(before, n, left, printed)
    BY <1>a, <1>f
  <2>3. /\ Frame("error", 0) \in Frames /\ Text(Frame("error", 0)) = 0
        /\ Frame("error", 0).type # "complete"
    BY DEF Frame, Frames, FrameTypes, Text
  <2> HIDE DEF before, left
  <2>4. toNode' = Append(before, Frame("error", 0))
    BY <2>1, <2>2, <2>3
  <2>5. outcome = "none" => Accounted(toNode', n, left, printed)
    BY <1>a, <2>2, <2>3, <2>4, AccountedPut
  <2>6. QED
    BY <1>c, <2>1, <2>5
<1>7. \/ RaiseSystemExit \/ \E tb \in BOOLEAN : Exit(tb)
      \/ KernelKill \/ HandleResponse \/ ReaderFails
      \/ Inherit \/ SubprocessEnds \/ CloseStdout
      \/ \E i \in Ids : ExpireCall(i) \/ ResumeExpired(i) \/ CancelCall(i)
      => Node /\ UNCHANGED <<toNode, buffered, printed>>
  BY DEF RaiseSystemExit, Exit, KernelKill, HandleResponse, ReaderFails,
     Inherit, SubprocessEnds, CloseStdout, ExpireCall, ResumeExpired, CancelCall,
     nodeVars
<1>8. QED
  BY <1>e, <1>1, <1>2, <1>3, <1>4, <1>5, <1>6, <1>7 DEF PythonNext

\* It survives every Node step, and the result of a run that is reported
\* complete is all the text.
LEMMA NodeOutput == TypeOK /\ VerdictInv /\ OutputInv /\ NodeNext => OutputInv'
<1> SUFFICES ASSUME TypeOK, VerdictInv, OutputInv, NodeNext PROVE OutputInv'
  OBVIOUS
<1> DEFINE n == nodeOut + spoilt
<1>a. /\ toNode \in Seq(Frames) /\ n \in Nat /\ nodeOut \in Nat /\ spoilt \in Nat
      /\ buffered \in Nat /\ printed \in Nat
      /\ outcome = "none" => Accounted(toNode, n, buffered, printed)
  BY DEF TypeOK, OutputInv, TextAccounted
<1>b. UNCHANGED <<buffered, printed>>
  BY DEF NodeNext, HandleLine, HandleToolCall, HandleProgress, HandleStdout,
     HandleInvalid, HandleMerged, HandleComplete, HandleError, RunRejection, FinishTool,
     StderrData, LineReaderClose, ProcessExit, SpawnError, ExecutionTimeout,
     Abort, KillTimer, pyVars
<1>c. ASSUME NextLine("tool_call") \/ NextLine("progress") \/ NextLine("noise")
             \/ NextLine("badreport") \/ NextLine("error") \/ NextLine("complete"),
             toNode' = Tail(toNode), UNCHANGED <<nodeOut, spoilt>>,
             outcome' = outcome \/ outcome' # "none"
      PROVE  /\ TextAccounted'
             /\ NextLine("complete") /\ outcome = "none" => n = printed
  <2>1. toNode # <<>> /\ Text(Head(toNode)) = 0
    BY <1>c DEF NextLine, Text
  <2>2. n + 0 = n
    BY <1>a
  <2>3. outcome = "none" =>
          /\ Accounted(Tail(toNode), n, buffered, printed)
          /\ Head(toNode).type = "complete" => n = printed
    BY <1>a, <2>1, <2>2, AccountedTake
  <2>4. QED
    BY <1>b, <1>c, <2>3 DEF TextAccounted, NextLine
<1>d. ASSUME UNCHANGED <<toNode, nodeOut, spoilt>>,
             outcome' = outcome \/ outcome' # "none"
      PROVE  TextAccounted'
  BY <1>a, <1>b, <1>d DEF TextAccounted
<1>e. ASSUME verdict' = "complete" => verdict = "complete",
             UNCHANGED <<finalOut, spoilt>>
      PROVE  OutputComplete'
  BY <1>b, <1>e DEF OutputInv, OutputComplete
<1>1. ASSUME HandleLine PROVE OutputInv'
  <2>1. ASSUME NEW throws \in BOOLEAN, HandleToolCall(throws) PROVE OutputInv'
    BY <1>c, <1>e, <2>1 DEF HandleToolCall, OutputInv
  <2>2. ASSUME NEW throws \in BOOLEAN, HandleProgress(throws) PROVE OutputInv'
    BY <1>c, <1>e, <2>2 DEF HandleProgress, OutputInv
  <2>3. CASE HandleStdout
    <3>1. /\ toNode # <<>> /\ toNode' = Tail(toNode)
          /\ nodeOut' = nodeOut + Text(Head(toNode)) /\ UNCHANGED <<outcome, spoilt>>
      BY <2>3 DEF HandleStdout, NextLine, Text
    <3>a. Text(Head(toNode)) \in Nat
      <4>1. Head(toNode) \in Frames
        BY <1>a, <3>1, TakeLine
      <4>2. QED
        BY <4>1 DEF Text, Frames
    <3>b. nodeOut' + spoilt' = n + Text(Head(toNode))
      BY <1>a, <3>1, <3>a
    <3>2. TextAccounted'
      BY <1>a, <1>b, <3>1, <3>b, AccountedTake DEF TextAccounted
    <3>3. QED
      BY <1>e, <2>3, <3>2 DEF HandleStdout, OutputInv
  <2>4. CASE HandleInvalid
    BY <1>c, <1>e, <2>4 DEF HandleInvalid, OutputInv
  <2>5. CASE HandleComplete
    <3>1. TextAccounted' /\ (outcome = "none" => n = printed)
      BY <1>c, <2>5 DEF HandleComplete, Settle
    <3>2. OutputComplete'
      <4>1. CASE outcome = "none"
        BY <1>b, <2>5, <3>1, <4>1 DEF HandleComplete, OutputComplete
      <4>2. CASE outcome # "none"
        <5>1. verdict # "none"
          BY <4>2 DEF VerdictInv, Settlements
        <5>2. QED
          BY <1>e, <2>5, <4>2, <5>1 DEF HandleComplete, Settle
      <4>3. QED
        BY <4>1, <4>2
    <3>3. QED
      BY <3>1, <3>2 DEF OutputInv
  <2>6. CASE HandleError
    BY <1>c, <1>e, <2>6 DEF HandleError, Settle, OutputInv
  <2>7. CASE HandleMerged
    <3>1. UNCHANGED <<nodeOut, outcome, verdict, finalOut>> /\ toNode # <<>>
          /\ Head(toNode).type = "fragment"
      BY <2>7 DEF HandleMerged, NextLine
    <3>2. CASE Len(toNode) > 1
      <4> DEFINE c == Text(toNode[2])
      <4>1. /\ toNode' = Tail(Tail(toNode))
            /\ spoilt' = spoilt + IF outcome = "none" THEN c ELSE 0
        BY <2>7, <3>2 DEF HandleMerged
      <4>2. /\ Tail(toNode) \in Seq(Frames) /\ Tail(toNode) # <<>>
            /\ c = Text(Head(Tail(toNode))) /\ c \in Nat
        BY <1>a, <3>2, TakeTwo DEF Text, Frames
      <4> HIDE DEF c
      <4>3. Text(Head(toNode)) = 0
        BY <3>1 DEF Text
      <4>4. outcome = "none" => Accounted(Tail(toNode), n, buffered, printed)
        <5>1. n + 0 = n
          BY <1>a
        <5>2. QED
          BY <1>a, <3>1, <4>3, <5>1, AccountedTake
      <4>5. outcome = "none" => Accounted(toNode', n + c, buffered, printed)
        BY <1>a, <4>1, <4>2, <4>4, AccountedTake
      <4>6. outcome = "none" => nodeOut' + spoilt' = n + c
        BY <1>a, <3>1, <4>1, <4>2
      <4>7. TextAccounted'
        BY <1>b, <3>1, <4>5, <4>6 DEF TextAccounted
      <4>8. OutputComplete'
        <5>1. CASE outcome = "none"
          BY <3>1, <5>1 DEF VerdictInv, Settlements, OutputComplete
        <5>2. CASE outcome # "none"
          <6>1. UNCHANGED spoilt
            BY <1>a, <4>1, <5>2
          <6>2. QED
            BY <1>e, <3>1, <6>1
        <5>3. QED
          BY <5>1, <5>2
      <4>9. QED
        BY <4>7, <4>8 DEF OutputInv
    <3>3. CASE ~(Len(toNode) > 1)
      <4>1. toNode' = <<>> /\ UNCHANGED spoilt
        BY <2>7, <3>3 DEF HandleMerged
      <4>2. Tail(toNode) = <<>>
        BY <1>a, <3>1, <3>3
      <4>3. Text(Head(toNode)) = 0 /\ n + 0 = n
        BY <1>a, <3>1 DEF Text
      <4>4. outcome = "none" => Accounted(<<>>, n, buffered, printed)
        BY <1>a, <3>1, <4>2, <4>3, AccountedTake
      <4>5. TextAccounted'
        BY <1>b, <3>1, <4>1, <4>4 DEF TextAccounted
      <4>6. QED
        BY <1>e, <3>1, <4>1, <4>5 DEF OutputInv
    <3>4. QED
      BY <3>2, <3>3
  <2>8. QED
    BY <1>1, <2>1, <2>2, <2>3, <2>4, <2>5, <2>6, <2>7 DEF HandleLine
<1>2. CASE RunRejection
  BY <1>2, <1>d, <1>e DEF RunRejection, Settle, OutputInv
<1>3. ASSUME NEW i \in Ids, NEW r \in Finished, FinishTool(i, r) PROVE OutputInv'
  BY <1>3, <1>d, <1>e DEF FinishTool, OutputInv
<1>4. CASE StderrData
  BY <1>4, <1>d, <1>e DEF StderrData, nodeVars, OutputInv
<1>5. CASE LineReaderClose
  BY <1>5, <1>d, <1>e DEF LineReaderClose, buildUnexpectedCloseError, Settle, OutputInv
<1>6. CASE ProcessExit
  BY <1>6, <1>d, <1>e DEF ProcessExit, OutputInv
<1>7. CASE SpawnError
  BY <1>7, <1>d, <1>e DEF SpawnError, Settle, OutputInv
<1>8. CASE ExecutionTimeout
  BY <1>8, <1>d, <1>e DEF ExecutionTimeout, OutputInv
<1>9. CASE Abort
  BY <1>9, <1>d, <1>e DEF Abort, Settle, OutputInv
<1>10. CASE KillTimer
  BY <1>10, <1>d, <1>e DEF KillTimer, OutputInv
<1>11. QED
  BY <1>1, <1>2, <1>3, <1>4, <1>5, <1>6, <1>7, <1>8, <1>9, <1>10 DEF NodeNext

\* A result reported complete is all that user code printed, however much it
\* printed and wherever the text was when the program returned, but for the text
\* of frames that raw text on the same stdout had been merged with.
THEOREM OutputIsComplete == Spec => []OutputComplete
<1>1. Init => OutputInv
  <2>1. ASSUME Init PROVE Accounted(<<>>, 0, 0, 0)
    <3> DEFINE s == [k \in 0..0 |-> 0]
    <3>1. Carried(<<>>, s, 0) /\ s[Len(<<>>)] + 0 = 0
      BY DEF Carried
    <3> HIDE DEF s
    <3>2. QED
      BY <3>1 DEF Accounted
  <2>2. ASSUME Init PROVE TextAccounted
    <3>1. toNode = <<>> /\ nodeOut + spoilt = 0 /\ buffered = 0 /\ printed = 0
      BY <2>2 DEF Init
    <3>2. QED
      BY <2>1, <2>2, <3>1 DEF TextAccounted
  <2>3. Init => OutputComplete
    BY DEF Init, OutputComplete
  <2>4. QED
    BY <2>2, <2>3 DEF OutputInv
<1>2. TypeOK /\ VerdictInv /\ OutputInv /\ [Next]_vars => OutputInv'
  <2>1. OutputInv /\ UNCHANGED vars => OutputInv'
    BY DEF vars, pyVars, nodeVars, OutputInv, TextAccounted, OutputComplete
  <2>2. QED
    BY <2>1, PythonOutput, NodeOutput DEF Next
<1>3. OutputInv => OutputComplete
  BY DEF OutputInv
<1>4. QED
  BY <1>1, <1>2, <1>3, TypeCorrect, VerdictInvariant, PTL DEF Spec

-----------------------------------------------------------------------------
(* No call is forgotten *)

ForgottenInv == CallInv /\ VerdictInv

\* What a line is about stays on the pipe when another line is written.
LEMMA StillThere ==
  ASSUME NEW S, NEW q \in Seq(S), NEW e \in S, NEW k \in DOMAIN q
  PROVE  k \in DOMAIN Append(q, e) /\ Append(q, e)[k] = q[k]
  BY PutLine

\* Taking a line removes that line only.
LEMMA StillBehind ==
  ASSUME NEW S, NEW q \in Seq(S), q # <<>>, NEW k \in DOMAIN q, k # 1
  PROVE  k - 1 \in DOMAIN Tail(q) /\ Tail(q)[k - 1] = q[k]
  OBVIOUS

\* A step that leaves every waiting call where it was, or marks the run failed.
LEMMA ForgottenQuiet ==
  ASSUME NoCallForgotten,
         py' = "running" => py = "running",
         reader' = "up" => reader = "up",
         pendingCalls' \subseteq pendingCalls, pendingCalls \subseteq Ids,
         UNCHANGED <<tool, toPy>>,
         \A i \in Ids : InToNode(i) => InToNode(i)',
         rejecting => rejecting',
         outcome' = outcome \/ outcome = "none"
  PROVE  NoCallForgotten'
<1> SUFFICES ASSUME NEW i \in pendingCalls', py' = "running", reader' = "up"
             PROVE  \/ InToNode(i)' \/ tool'[i] = "running" \/ InToPy(i)'
                    \/ rejecting' \/ outcome' \in {"protocol", "abort"}
  BY DEF NoCallForgotten
<1>1. \/ InToNode(i) \/ tool[i] = "running" \/ InToPy(i)
      \/ rejecting \/ outcome \in {"protocol", "abort"}
  BY DEF NoCallForgotten
<1>2. InToPy(i) => InToPy(i)'
  BY DEF InToPy
<1>3. QED
  BY <1>1, <1>2

\* A waiting call survives every Python step, or the step ends what it waits for.
LEMMA PythonForgets ==
  ForgottenInv /\ NoCallForgotten /\ PythonNext => NoCallForgotten'
<1> SUFFICES ASSUME ForgottenInv, NoCallForgotten, PythonNext PROVE NoCallForgotten'
  OBVIOUS
<1>a. TypeOK /\ toNode \in Seq(Frames) /\ toPy \in Seq(Answers)
  BY DEF ForgottenInv, CallInv, TypeOK
<1>b. ASSUME NEW t \in FrameTypes, NEW a \in Nat,
             toNode' = Append(toNode, Frame(t, a)) \/ UNCHANGED toNode
      PROVE  \A i \in Ids : InToNode(i) => InToNode(i)'
  <2>1. Frame(t, a) \in Frames
    BY DEF Frame, Frames
  <2> SUFFICES ASSUME NEW i \in Ids, InToNode(i) PROVE InToNode(i)'
    OBVIOUS
  <2>2. PICK k \in DOMAIN toNode : toNode[k] = Frame("tool_call", i)
    BY DEF InToNode
  <2>3. /\ k \in DOMAIN Append(toNode, Frame(t, a))
        /\ Append(toNode, Frame(t, a))[k] = toNode[k]
    BY <1>a, <2>1, StillThere
  <2>4. k \in DOMAIN toNode' /\ toNode'[k] = Frame("tool_call", i)
    BY <1>b, <2>2, <2>3
  <2>5. QED
    BY <2>4 DEF InToNode
<1>c. ASSUME UNCHANGED toNode PROVE \A i \in Ids : InToNode(i) => InToNode(i)'
  BY <1>c DEF InToNode
<1>p. pendingCalls \subseteq Ids
  BY <1>a DEF TypeOK
<1>d. py' # "running" => NoCallForgotten'
  BY DEF NoCallForgotten
<1>1. CASE IssueCall
  <2> SUFFICES ASSUME NEW i \in pendingCalls', py' = "running", reader' = "up"
               PROVE  \/ InToNode(i)' \/ tool'[i] = "running" \/ InToPy(i)'
                      \/ rejecting' \/ outcome' \in {"protocol", "abort"}
    BY DEF NoCallForgotten
  <2>1. /\ toNode' = Append(toNode, Frame("tool_call", callId + 1))
        /\ callId + 1 \in Nat /\ "tool_call" \in FrameTypes
        /\ UNCHANGED <<py, reader, toPy, tool, rejecting, outcome>>
        /\ pendingCalls' = pendingCalls \cup {callId + 1}
    BY <1>1, <1>a DEF IssueCall, TypeOK, FrameTypes, nodeVars
  <2>2. CASE i = callId + 1
    <3>1. Frame("tool_call", i) \in Frames
      BY <2>1, <2>2 DEF Frame, Frames
    <3>2. /\ Len(toNode) + 1 \in DOMAIN toNode'
          /\ toNode'[Len(toNode) + 1] = Frame("tool_call", i)
      BY <1>a, <2>1, <2>2, <3>1, PutLine
    <3>3. QED
      BY <3>2 DEF InToNode
  <2>3. CASE i # callId + 1
    <3>1. i \in pendingCalls /\ i \in Ids
      BY <1>a, <2>1, <2>3 DEF TypeOK
    <3>2. \/ InToNode(i) \/ tool[i] = "running" \/ InToPy(i)
          \/ rejecting \/ outcome \in {"protocol", "abort"}
      BY <2>1, <3>1 DEF NoCallForgotten
    <3>a. \A j \in Ids : InToNode(j) => InToNode(j)'
      BY <1>b, <2>1
    <3>3. InToNode(i) => InToNode(i)'
      BY <3>1, <3>a
    <3>4. QED
      BY <2>1, <3>2, <3>3 DEF InToPy
  <2>4. QED
    BY <2>2, <2>3
<1>2. ASSUME NEW newline \in BOOLEAN, ProxyWrite(newline) PROVE NoCallForgotten'
  <2>1. /\ toNode' = Append(toNode, Frame("stdout", buffered + 1)) \/ UNCHANGED toNode
        /\ buffered + 1 \in Nat /\ "stdout" \in FrameTypes
    BY <1>2, <1>a DEF ProxyWrite, TypeOK, FrameTypes
  <2>2. \A i \in Ids : InToNode(i) => InToNode(i)'
    BY <1>b, <2>1
  <2>3. QED
    BY <1>2, <1>p, <2>2, ForgottenQuiet DEF ProxyWrite, nodeVars
<1>3. CASE Progress
  <2>1. \A i \in Ids : InToNode(i) => InToNode(i)'
    BY <1>3, <1>b DEF Progress, FrameTypes
  <2>2. QED
    BY <1>3, <1>p, <2>1, ForgottenQuiet DEF Progress, nodeVars
<1>9. ASSUME NEW newline \in BOOLEAN, RawText(newline) PROVE NoCallForgotten'
  <2>1. {"noise", "fragment"} \subseteq FrameTypes /\ 0 \in Nat
    BY DEF FrameTypes
  <2>2. \A i \in Ids : InToNode(i) => InToNode(i)'
    BY <1>9, <1>b, <1>c, <2>1, RawTextPuts
  <2>3. UNCHANGED <<py, reader, pendingCalls, toPy, tool, rejecting, outcome>>
    BY <1>9 DEF RawText, nodeVars
  <2>4. QED
    BY <1>p, <2>2, <2>3, ForgottenQuiet
<1>4. \/ \E f \in {"complete", "badreport"} : ReturnValue(f)
      \/ \E returned \in BOOLEAN : RaiseException(returned)
      \/ RaiseSystemExit \/ (\E tb \in BOOLEAN : Exit(tb)) \/ KernelKill
      => py' # "running"
  BY DEF ReturnValue, RaiseException, RaiseSystemExit, Exit, KernelKill, WindDown
<1>5. CASE HandleResponse
  <2> SUFFICES ASSUME NEW i \in pendingCalls', py' = "running", reader' = "up"
               PROVE  \/ InToNode(i)' \/ tool'[i] = "running" \/ InToPy(i)'
                      \/ rejecting' \/ outcome' \in {"protocol", "abort"}
    BY DEF NoCallForgotten
  <2>1. /\ toPy # <<>> /\ toPy' = Tail(toPy) /\ py = "running" /\ reader = "up"
        /\ UNCHANGED <<toNode, tool, rejecting, outcome>>
    BY <1>5 DEF HandleResponse, nodeVars
  <2>2. Head(toPy) = toPy[1] /\ Head(toPy).kind \in {"ok", "err"} /\ Head(toPy).id \in Ids
    <3>1. Head(toPy) \in Answers /\ Head(toPy) = toPy[1]
      BY <1>a, <2>1, TakeLine
    <3>2. QED
      BY <1>5, <3>1 DEF HandleResponse, Answers
  <2>3. i \in pendingCalls /\ i # Head(toPy).id
    BY <1>5 DEF HandleResponse
  <2>5. ASSUME InToPy(i) PROVE InToPy(i)'
    <3>1. PICK k \in DOMAIN toPy : toPy[k].id = i
      BY <2>5 DEF InToPy
    <3>2. k # 1
      BY <2>2, <2>3, <3>1
    <3>3. k - 1 \in DOMAIN Tail(toPy) /\ Tail(toPy)[k - 1] = toPy[k]
      BY <1>a, <2>1, <3>2, StillBehind
    <3>4. k - 1 \in DOMAIN toPy' /\ toPy'[k - 1].id = i
      BY <2>1, <3>1, <3>3
    <3>5. QED
      BY <3>4 DEF InToPy
  <2>6. \/ InToNode(i) \/ tool[i] = "running" \/ InToPy(i)
        \/ rejecting \/ outcome \in {"protocol", "abort"}
    BY <2>1, <2>3 DEF NoCallForgotten
  <2>7. QED
    BY <2>1, <2>5, <2>6 DEF InToNode
<1>6. CASE ReaderFails
  BY <1>6 DEF ReaderFails, NoCallForgotten
<1>7. ASSUME \/ Inherit \/ SubprocessEnds \/ CloseStdout
             \/ \E i \in Ids : ExpireCall(i) \/ ResumeExpired(i) \/ CancelCall(i)
      PROVE  NoCallForgotten'
  <2>1. /\ pendingCalls' \subseteq pendingCalls
        /\ UNCHANGED <<py, reader, toNode, toPy, tool, rejecting, outcome>>
    BY <1>7 DEF Inherit, SubprocessEnds, CloseStdout, ExpireCall, ResumeExpired,
       CancelCall, nodeVars
  <2>2. QED
    BY <1>c, <1>p, <2>1, ForgottenQuiet
<1>8. QED
  BY <1>d, <1>1, <1>2, <1>3, <1>4, <1>5, <1>6, <1>7, <1>9 DEF PythonNext

\* A waiting call survives every Node step, or the step fails the run.
LEMMA NodeForgets ==
  ForgottenInv /\ NoCallForgotten /\ NodeNext => NoCallForgotten'
<1> SUFFICES ASSUME ForgottenInv, NoCallForgotten, NodeNext PROVE NoCallForgotten'
  OBVIOUS
<1>a. TypeOK /\ toNode \in Seq(Frames) /\ toPy \in Seq(Answers)
  BY DEF ForgottenInv, CallInv, TypeOK
<1>b. ASSUME toNode # <<>>, toNode' = Tail(toNode), NEW i \in Ids, InToNode(i)
      PROVE  InToNode(i)' \/ Head(toNode) = Frame("tool_call", i)
  <2>1. PICK k \in DOMAIN toNode : toNode[k] = Frame("tool_call", i)
    BY <1>b DEF InToNode
  <2>2. CASE k = 1
    BY <1>a, <1>b, <2>1, <2>2, TakeLine
  <2>3. CASE k # 1
    <3>1. k - 1 \in DOMAIN Tail(toNode) /\ Tail(toNode)[k - 1] = toNode[k]
      BY <1>a, <1>b, <2>3, StillBehind
    <3>2. QED
      BY <1>b, <2>1, <3>1 DEF InToNode
  <2>4. QED
    BY <2>2, <2>3
<1>p. pendingCalls \subseteq Ids
  BY <1>a DEF TypeOK
<1>c. ASSUME UNCHANGED toNode PROVE \A i \in Ids : InToNode(i) => InToNode(i)'
  BY <1>c DEF InToNode
<1>d. ASSUME toNode # <<>>, toNode' = Tail(toNode), Head(toNode).type # "tool_call"
      PROVE  \A i \in Ids : InToNode(i) => InToNode(i)'
  BY <1>b, <1>d DEF Frame
<1>1. ASSUME HandleLine PROVE NoCallForgotten'
  <2>1. ASSUME NEW throws \in BOOLEAN, HandleToolCall(throws) PROVE NoCallForgotten'
    <3>1. CASE throws = TRUE
      BY <2>1, <3>1 DEF HandleToolCall, NoCallForgotten
    <3>2. CASE throws = FALSE
      <4>1. /\ toNode # <<>> /\ toNode' = Tail(toNode)
            /\ tool' = [tool EXCEPT ![Head(toNode).arg] = "running"]
            /\ UNCHANGED <<py, reader, pendingCalls, toPy, rejecting, outcome>>
        BY <2>1, <3>2 DEF HandleToolCall, NextLine, pyVars
      <4>2. ASSUME NEW i \in Ids, InToNode(i) PROVE InToNode(i)' \/ tool'[i] = "running"
        BY <1>a, <1>b, <4>1, <4>2 DEF Frame, TypeOK
      <4>3. \A i \in Ids : tool[i] = "running" => tool'[i] = "running"
        BY <1>a, <4>1 DEF TypeOK
      <4>4. \A i \in Ids : InToPy(i) => InToPy(i)'
        BY <4>1 DEF InToPy
      <4>5. QED
        BY <1>p, <4>1, <4>2, <4>3, <4>4 DEF NoCallForgotten
    <3>3. QED
      BY <3>1, <3>2
  <2>2. ASSUME NEW throws \in BOOLEAN, HandleProgress(throws) PROVE NoCallForgotten'
    BY <1>d, <2>2, <1>p, ForgottenQuiet DEF HandleProgress, NextLine, pyVars
  <2>3. CASE HandleStdout
    BY <1>d, <2>3, <1>p, ForgottenQuiet DEF HandleStdout, NextLine, pyVars
  <2>4. CASE HandleInvalid
    BY <1>d, <2>4, <1>p, ForgottenQuiet DEF HandleInvalid, NextLine, pyVars
  <2>5. CASE HandleComplete
    BY <1>d, <2>5, <1>p, ForgottenQuiet DEF HandleComplete, Settle, NextLine, pyVars
  <2>6. CASE HandleError
    BY <1>d, <2>6, <1>p, ForgottenQuiet DEF HandleError, Settle, NextLine, pyVars
  <2>7. CASE HandleMerged
    BY <2>7 DEF HandleMerged, NoCallForgotten
  <2>8. QED
    BY <1>1, <2>1, <2>2, <2>3, <2>4, <2>5, <2>6, <2>7 DEF HandleLine
<1>2. CASE RunRejection
  <2>1. py = "running" => outcome' \in {"protocol", "abort"}
    BY <1>2, <1>a DEF RunRejection, Settle, ForgottenInv, VerdictInv,
       OutcomeOfRunning, ClosedIsHeard, TypeOK, Outcomes
  <2>2. UNCHANGED py
    BY <1>2 DEF RunRejection, pyVars
  <2>3. QED
    BY <2>1, <2>2 DEF NoCallForgotten
<1>3. ASSUME NEW c \in Ids, NEW r \in Finished, FinishTool(c, r) PROVE NoCallForgotten'
  <2> SUFFICES ASSUME NEW i \in pendingCalls', py' = "running", reader' = "up"
               PROVE  \/ InToNode(i)' \/ tool'[i] = "running" \/ InToPy(i)'
                      \/ rejecting' \/ outcome' \in {"protocol", "abort"}
    BY DEF NoCallForgotten
  <2> DEFINE e == [id |-> c, kind |-> AnswerKind(r)]
  <2>1. /\ tool' = [tool EXCEPT ![c] = r]
        /\ UNCHANGED <<toNode, py, reader, pendingCalls, rejecting, outcome>>
    BY <1>3 DEF FinishTool, pyVars
  <2>2. e \in Answers /\ e.id = c
    BY DEF Answers, AnswerKind
  <2>3. toPy' = Append(toPy, e)
    BY <1>3, <2>1 DEF FinishTool, ForgottenInv, VerdictInv, ReapedIsDead, Alive
  <2> HIDE DEF e
  <2>4. \/ InToNode(i) \/ tool[i] = "running" \/ InToPy(i)
        \/ rejecting \/ outcome \in {"protocol", "abort"}
    BY <2>1 DEF NoCallForgotten
  <2>5. InToPy(i) => InToPy(i)'
    BY <1>a, <2>2, <2>3, StillThere DEF InToPy
  <2>6. i = c => InToPy(i)'
    BY <1>a, <2>2, <2>3, PutLine DEF InToPy
  <2>7. i # c => tool'[i] = tool[i]
    BY <2>1, <1>a DEF TypeOK
  <2>8. QED
    BY <2>1, <2>4, <2>5, <2>6, <2>7 DEF InToNode
<1>4. CASE StderrData
  BY <1>4, <1>c, <1>p, ForgottenQuiet DEF StderrData, nodeVars
<1>5. CASE LineReaderClose
  BY <1>5, <1>c, <1>p, ForgottenQuiet DEF LineReaderClose, buildUnexpectedCloseError, Settle, pyVars
<1>6. CASE ProcessExit
  BY <1>6, <1>c, <1>p, ForgottenQuiet DEF ProcessExit, pyVars
<1>7. CASE SpawnError
  BY <1>7 DEF SpawnError, NoCallForgotten
<1>8. CASE ExecutionTimeout
  BY <1>8, <1>c, <1>p, ForgottenQuiet DEF ExecutionTimeout, pyVars
<1>9. CASE Abort
  BY <1>9, <1>c, <1>p, ForgottenQuiet DEF Abort, Settle, pyVars
<1>10. CASE KillTimer
  BY <1>10, <1>c, <1>p, ForgottenQuiet DEF KillTimer, pyVars
<1>11. QED
  BY <1>1, <1>2, <1>3, <1>4, <1>5, <1>6, <1>7, <1>8, <1>9, <1>10 DEF NodeNext

\* While user code runs and the reader lives, every call in pending_calls is
\* somewhere, for any number of calls, unless the whole run has been failed.
THEOREM NoneForgotten == Spec => []NoCallForgotten
<1>1. Init => NoCallForgotten
  BY DEF Init, NoCallForgotten
<1>2. ForgottenInv /\ NoCallForgotten /\ [Next]_vars => NoCallForgotten'
  <2>1. NoCallForgotten /\ UNCHANGED vars => NoCallForgotten'
    BY DEF vars, pyVars, nodeVars, InToNode, InToPy, NoCallForgotten
  <2>2. QED
    BY <2>1, PythonForgets, NodeForgets DEF Next
<1>3. Spec => []ForgottenInv
  BY CallInvariant, VerdictInvariant, PTL DEF ForgottenInv
<1>4. QED
  BY <1>1, <1>2, <1>3, PTL DEF Spec

-----------------------------------------------------------------------------
(* RpcBridge implements Execution: each step of the bridge is the step named *)
(* beside it below, or one Execution does not see.                           *)

\* The calls given out are those somebody has awaited.
IssuedCallers == \A i \in Ids : caller[i] = "idle" <=> i > callId

MapInv == TypeOK /\ CallInv /\ VerdictInv /\ IssuedCallers

\* Every Python step keeps the numbering of the calls.
LEMMA PythonIssued == TypeOK /\ PendingIsExact /\ IssuedCallers /\ PythonNext => IssuedCallers'
<1> SUFFICES ASSUME TypeOK, PendingIsExact, IssuedCallers, PythonNext PROVE IssuedCallers'
  OBVIOUS
<1>1. CASE IssueCall
  BY <1>1, BoundsAssumption DEF IssueCall, IssuedCallers, TypeOK, Ids
<1>2. CASE HandleResponse
  <2>1. toPy \in Seq(Answers) /\ toPy # <<>>
    BY <1>2 DEF HandleResponse, TypeOK
  <2>2. Head(toPy) \in Answers
    BY <2>1, TakeLine
  <2>3. Head(toPy).id \in Ids /\ Head(toPy).kind \in {"ok", "err"}
    BY <1>2, <2>2 DEF HandleResponse, Answers
  <2>4. QED
    BY <1>2, <2>3 DEF HandleResponse, IssuedCallers, TypeOK
<1>3. CASE ReaderFails
  BY <1>3 DEF ReaderFails, IssuedCallers, TypeOK
<1>4. ASSUME NEW i \in Ids, ExpireCall(i) \/ ResumeExpired(i) \/ CancelCall(i)
      PROVE  IssuedCallers'
  BY <1>4 DEF ExpireCall, ResumeExpired, CancelCall, IssuedCallers, TypeOK
<1>5. CASE UNCHANGED <<callId, caller>>
  BY <1>5 DEF IssuedCallers
<1>6. QED
  BY <1>1, <1>2, <1>3, <1>4, <1>5 DEF PythonNext, ProxyWrite, Progress,
     RawText, Inherit, SubprocessEnds, CloseStdout, ReturnValue, RaiseException,
     RaiseSystemExit, Exit, KernelKill

\* The invariant the refinement needs.
LEMMA MapInvariant == Spec => []MapInv
<1>1. Init => IssuedCallers
  BY BoundsAssumption DEF Init, IssuedCallers, Ids
<1>2. TypeOK /\ PendingIsExact /\ IssuedCallers /\ [Next]_vars => IssuedCallers'
  <2>1. NodeNext => UNCHANGED <<callId, caller>>
    BY DEF NodeNext, HandleLine, HandleToolCall, HandleProgress,
       HandleStdout, HandleInvalid, HandleMerged, HandleComplete, HandleError,
       RunRejection, FinishTool, StderrData, LineReaderClose, ProcessExit, SpawnError,
       ExecutionTimeout, Abort, KillTimer, pyVars
  <2>2. UNCHANGED vars => UNCHANGED <<callId, caller>>
    BY DEF vars, pyVars
  <2>3. IssuedCallers /\ UNCHANGED <<callId, caller>> => IssuedCallers'
    BY DEF IssuedCallers
  <2>4. QED
    BY <2>1, <2>2, <2>3, PythonIssued DEF Next
<1>3. Spec => []IssuedCallers
  BY <1>1, <1>2, TypeCorrect, PendingCallsExact, PTL DEF Spec
<1>4. QED
  BY <1>3, TypeCorrect, CallInvariant, VerdictInvariant, PTL DEF MapInv

-----------------------------------------------------------------------------
(* What the mapping sees of a step *)

\* The program is where the terminal frame and the process say it is.
LEMMA Programs ==
  /\ TypeOK => /\ absProgram = "returned" <=> terminal = "complete"
               /\ absProgram = "raised" <=> terminal = "error"
               /\ absProgram = "running" <=> terminal = "none" /\ PyHolds
               /\ absProgram = "gone" <=> terminal = "none" /\ ~PyHolds
  /\ TypeOK' => /\ absProgram' = "returned" <=> terminal' = "complete"
                /\ absProgram' = "raised" <=> terminal' = "error"
                /\ absProgram' = "running" <=> terminal' = "none" /\ PyHolds'
                /\ absProgram' = "gone" <=> terminal' = "none" /\ ~PyHolds'
  BY DEF absProgram, TypeOK

\* A step that changes neither leaves the program where it is.
LEMMA SameProgram ==
  ASSUME UNCHANGED terminal, PyHolds' <=> PyHolds
  PROVE  UNCHANGED absProgram
  BY DEF absProgram

\* A tool that is left alone is mapped to what it was mapped to.
LEMMA SameTool == UNCHANGED tool => UNCHANGED absTool
  BY DEF absTool

\* A caller that is left alone waits for what it waited for.
LEMMA SameCaller == UNCHANGED caller => UNCHANGED absCaller
  BY DEF absCaller

Step == Abstract!Next \/ UNCHANGED Abstract!vars

\* A step whose changes the mapping forgets.
LEMMA Unseen ==
  ASSUME UNCHANGED <<terminal, tool, caller, verdict>>, PyHolds' <=> PyHolds
  PROVE  Step
  BY SameProgram, SameTool, SameCaller DEF Step, Abstract!vars

\* The first settlement is what the agent is told; later ones are not seen.
LEMMA Tells ==
  ASSUME TypeOK, NEW v \in Abstract!Verdicts, verdict' = IF verdict = "none" THEN v ELSE verdict,
         UNCHANGED <<terminal, tool, caller>>, PyHolds' <=> PyHolds,
         verdict = "none" /\ v = "complete" => terminal = "complete",
         verdict = "none" /\ v = "python" => terminal = "error" \/ (terminal = "none" /\ ~PyHolds),
         verdict = "none" /\ v = "transport" => terminal = "none" /\ ~PyHolds
  PROVE  Step
<1>1. CASE verdict = "none"
  <2>1. Abstract!Tell(v)
    BY <1>1, Programs, SameProgram, SameTool, SameCaller DEF Abstract!Tell
  <2>2. QED
    BY <2>1 DEF Step, Abstract!Next
<1>2. CASE verdict # "none"
  BY <1>2, Unseen
<1>3. QED
  BY <1>1, <1>2

\* The program ends with the terminal frame, or with the process without one.
LEMMA Ends ==
  ASSUME TypeOK, TypeOK', terminal = "none", PyHolds, UNCHANGED <<tool, caller, verdict>>,
         terminal' # "none" \/ ~PyHolds'
  PROVE  Step
<1>1. absProgram = "running" /\ absProgram' \in {"returned", "raised", "gone"}
  BY Programs DEF TypeOK
<1>2. Abstract!EndProgram(absProgram')
  BY <1>1, SameTool, SameCaller DEF Abstract!EndProgram
<1>3. QED
  BY <1>1, <1>2 DEF Step, Abstract!Next

\* Calls that were waiting and now are not, without an answer, are given up.
LEMMA GivesUp ==
  ASSUME TypeOK, NEW S \in SUBSET Ids, \A i \in S : caller[i] = "waiting",
         NEW how \in {"expired", "lost", "cancelled"},
         caller' = [i \in Ids |-> IF i \in S THEN how ELSE caller[i]],
         UNCHANGED <<terminal, tool, verdict>>, PyHolds' <=> PyHolds
  PROVE  Step
<1>1. \A i \in S : absCaller[i] = "waiting"
  BY DEF absCaller
<1>2. absCaller' = [i \in Ids |-> IF i \in S THEN "failed" ELSE absCaller[i]]
  BY DEF absCaller
<1>3. UNCHANGED absProgram
  BY SameProgram
<1>4. Abstract!GiveUp(S)
  BY <1>1, <1>2, <1>3, SameTool DEF Abstract!GiveUp
<1>5. QED
  BY <1>4 DEF Step, Abstract!Next

-----------------------------------------------------------------------------
(* The steps *)

\* Every Python step is a step of Execution or unseen.
LEMMA PythonSteps == MapInv /\ TypeOK' /\ PythonNext => Step
<1> SUFFICES ASSUME MapInv, TypeOK', PythonNext PROVE Step
  OBVIOUS
<1>a. TypeOK /\ VerdictInv /\ (py = "running" => terminal = "none" /\ Alive)
  BY DEF MapInv, VerdictInv, RunningIsOpen, Alive
<1>h. UNCHANGED <<py, stdoutOpen>> => (PyHolds' <=> PyHolds)
  BY DEF PyHolds, Alive
<1>1. CASE IssueCall                                    \* Request
  <2> DEFINE c == callId + 1
  <2>1. /\ c \in Ids /\ caller[c] = "idle" /\ caller' = [caller EXCEPT ![c] = "waiting"]
        /\ UNCHANGED <<py, stdoutOpen, terminal, verdict, tool>>
    BY <1>1, <1>a, BoundsAssumption DEF IssueCall, holders, MapInv, IssuedCallers, TypeOK, Ids, nodeVars
  <2> HIDE DEF c
  <2>2. absCaller[c] = "idle" /\ absCaller' = [absCaller EXCEPT ![c] = "waiting"]
    BY <1>a, <2>1 DEF absCaller, TypeOK
  <2>3. Abstract!Request(c)
    BY <2>1, <2>2, SameProgram, SameTool DEF Abstract!Request, PyHolds, Alive
  <2>4. QED
    BY <2>1, <2>3 DEF Step, Abstract!Next
<1>2. ASSUME NEW f \in {"complete", "badreport"}, ReturnValue(f) PROVE Step  \* EndProgram
  BY <1>2, <1>a, Ends DEF ReturnValue, WindDown, nodeVars
<1>3. ASSUME NEW returned \in BOOLEAN, RaiseException(returned) PROVE Step   \* EndProgram
  BY <1>3, <1>a, Ends DEF RaiseException, WindDown, nodeVars
<1>4. ASSUME NEW tb \in BOOLEAN, Exit(tb) PROVE Step                         \* EndProgram
  <2>1. CASE terminal = "none" /\ stdoutOpen
    BY <1>4, <1>a, <2>1, Ends DEF Exit, PyHolds, Alive, nodeVars
  <2>2. CASE ~(terminal = "none" /\ stdoutOpen)
    <3>1. UNCHANGED absProgram
      BY <1>4, <1>a, <2>2 DEF Exit, PyHolds, holders, absProgram, TypeOK
    <3>2. QED
      BY <1>4, <3>1, SameTool, SameCaller DEF Exit, nodeVars, Step, Abstract!vars
  <2>3. QED
    BY <2>1, <2>2
<1>5. CASE KernelKill                                                        \* EndProgram
  <2>1. CASE terminal = "none" /\ stdoutOpen
    BY <1>5, <1>a, <2>1, Ends DEF KernelKill, PyHolds, Alive, nodeVars
  <2>2. CASE ~(terminal = "none" /\ stdoutOpen)
    <3>1. UNCHANGED absProgram
      BY <1>5, <1>a, <2>2 DEF KernelKill, PyHolds, holders, absProgram, TypeOK
    <3>2. QED
      BY <1>5, <3>1, SameTool, SameCaller DEF KernelKill, nodeVars, Step, Abstract!vars
  <2>3. QED
    BY <2>1, <2>2
<1>6. CASE HandleResponse                                                    \* Answer
  <2> DEFINE a == Head(toPy)
  <2>1. toPy \in Seq(Answers) /\ toPy # <<>>
    BY <1>6, <1>a DEF HandleResponse, TypeOK
  <2>2. /\ a \in Answers /\ tool[a.id] \in Finished /\ a.kind = AnswerKind(tool[a.id])
    BY <2>1, TakeLine DEF MapInv, CallInv, AnswersMatch
  <2>3. /\ a.id \in Ids /\ a.kind \in {"ok", "err"}
        /\ caller' = IF a.id \in pendingCalls /\ caller[a.id] = "waiting"
                     THEN [caller EXCEPT ![a.id] = a.kind] ELSE caller
        /\ UNCHANGED <<py, stdoutOpen, terminal, tool, verdict>>
    BY <1>6, <2>2 DEF HandleResponse, Answers, nodeVars, holders
  <2> HIDE DEF a
  <2>4. CASE a.id \in pendingCalls /\ caller[a.id] = "waiting"
    <3>1. absTool[a.id] = a.kind
      BY <2>2, <2>3 DEF absTool, AnswerKind, Finished
    <3>2. absCaller[a.id] = "waiting" /\ absCaller' = [absCaller EXCEPT ![a.id] = a.kind]
      BY <1>a, <2>3, <2>4 DEF absCaller, TypeOK
    <3>3. Abstract!Answer(a.id)
      BY <2>3, <3>1, <3>2, SameProgram, SameTool DEF Abstract!Answer, PyHolds, Alive
    <3>4. QED
      BY <2>3, <3>3 DEF Step, Abstract!Next
  <2>5. CASE ~(a.id \in pendingCalls /\ caller[a.id] = "waiting")
    BY <1>h, <2>3, <2>5, Unseen
  <2>6. QED
    BY <2>4, <2>5
<1>7. CASE ReaderFails                                                       \* GiveUp
  <2> DEFINE S == {i \in pendingCalls : caller[i] = "waiting"}
  <2>1. /\ S \in SUBSET Ids /\ \A i \in S : caller[i] = "waiting"
        /\ UNCHANGED <<terminal, tool, verdict, py, stdoutOpen>>
    BY <1>7, <1>a DEF ReaderFails, TypeOK, nodeVars, holders
  <2>2. caller' = [i \in Ids |-> IF i \in S THEN "lost" ELSE caller[i]]
    BY <1>7 DEF ReaderFails
  <2> HIDE DEF S
  <2>3. QED
    BY <1>a, <1>h, <2>1, <2>2, GivesUp
<1>8. ASSUME NEW i \in Ids, ExpireCall(i) PROVE Step                         \* GiveUp
  <2>1. /\ {i} \in SUBSET Ids /\ \A j \in {i} : caller[j] = "waiting"
        /\ UNCHANGED <<terminal, tool, verdict, py, stdoutOpen>>
    BY <1>8 DEF ExpireCall, nodeVars, holders
  <2>2. caller' = [j \in Ids |-> IF j \in {i} THEN "expired" ELSE caller[j]]
    BY <1>8, <1>a DEF ExpireCall, TypeOK
  <2>3. QED
    BY <1>a, <1>h, <2>1, <2>2, GivesUp
<1>9. ASSUME NEW i \in Ids, ResumeExpired(i) PROVE Step
  <2>1. UNCHANGED absCaller
    BY <1>9, <1>a DEF ResumeExpired, absCaller, TypeOK
  <2>2. QED
    BY <1>9, <2>1, SameProgram, SameTool
       DEF ResumeExpired, PyHolds, Alive, holders, nodeVars, Step, Abstract!vars
<1>12. ASSUME NEW i \in Ids, CancelCall(i) PROVE Step                        \* GiveUp
  <2>1. /\ UNCHANGED <<terminal, tool, verdict, py, stdoutOpen>>
        /\ caller' = [j \in Ids |-> IF j \in {i} THEN "cancelled" ELSE caller[j]]
    BY <1>12, <1>a DEF CancelCall, TypeOK, nodeVars, holders
  <2>2. CASE caller[i] = "waiting"
    BY <1>a, <1>h, <2>1, <2>2, GivesUp
  <2>3. CASE caller[i] # "waiting"
    <3>1. UNCHANGED absCaller
      BY <1>12, <1>a, <2>1, <2>3 DEF CancelCall, absCaller, TypeOK
    <3>2. QED
      BY <1>h, <2>1, <3>1, SameProgram, SameTool DEF Step, Abstract!vars
  <2>4. QED
    BY <2>2, <2>3
<1>13. CASE CloseStdout                                                      \* EndProgram
  <2>1. /\ PyHolds /\ stdoutOpen' = FALSE
        /\ UNCHANGED <<py, terminal, tool, caller, verdict>>
    BY <1>13 DEF CloseStdout, nodeVars
  <2>2. ~PyHolds'
    BY <2>1 DEF PyHolds
  <2>3. CASE terminal = "none"
    BY <1>a, <2>1, <2>2, <2>3, Ends
  <2>4. CASE terminal # "none"
    <3>1. UNCHANGED absProgram
      BY <1>a, <2>1, <2>4 DEF absProgram, TypeOK
    <3>2. QED
      BY <2>1, <3>1, SameTool, SameCaller DEF Step, Abstract!vars
  <2>5. QED
    BY <2>3, <2>4
<1>10. \/ \E newline \in BOOLEAN : ProxyWrite(newline) \/ RawText(newline)
       \/ Progress \/ Inherit \/ SubprocessEnds \/ RaiseSystemExit
       => Step
  <2>1. \/ \E newline \in BOOLEAN : ProxyWrite(newline) \/ RawText(newline)
        \/ Progress \/ Inherit \/ SubprocessEnds \/ RaiseSystemExit
        => UNCHANGED <<terminal, tool, caller, verdict>> /\ (PyHolds' <=> PyHolds)
    BY DEF ProxyWrite, RawText, Progress, Inherit, SubprocessEnds,
       RaiseSystemExit, WindDown, PyHolds, Alive, holders, nodeVars
  <2>2. QED
    BY <2>1, Unseen
<1>11. QED
  BY <1>1, <1>2, <1>3, <1>4, <1>5, <1>6, <1>7, <1>8, <1>9, <1>10, <1>12, <1>13
     DEF PythonNext

\* Every Node step is a step of Execution or unseen.
LEMMA NodeSteps == MapInv /\ TypeOK' /\ NodeNext => Step
<1> SUFFICES ASSUME MapInv, TypeOK', NodeNext PROVE Step
  OBVIOUS
<1>a. /\ TypeOK /\ VerdictInv /\ toNode \in Seq(Frames) /\ callId \in Nat
      /\ tool \in [Ids -> {"idle", "running"} \cup Finished]
      /\ Fresh(toNode, callId, tool)
  BY DEF MapInv, TypeOK, CallInv, RequestsFresh
<1>h. UNCHANGED pyVars => (PyHolds' <=> PyHolds)
  BY DEF pyVars, holders, PyHolds, Alive
<1>b. {"complete", "python", "protocol", "transport", "abort", "timeout"} = Abstract!Verdicts
  BY DEF Abstract!Verdicts
<1>1. ASSUME HandleLine PROVE Step
  <2>1. ASSUME NEW throws \in BOOLEAN, HandleToolCall(throws) PROVE Step    \* Run
    <3>1. /\ toNode # <<>> /\ Head(toNode).type = "tool_call"
          /\ UNCHANGED <<terminal, caller, verdict>> /\ (PyHolds' <=> PyHolds)
      BY <1>h, <2>1 DEF HandleToolCall, NextLine, pyVars
    <3>2. CASE throws = TRUE
      BY <2>1, <3>1, <3>2, Unseen DEF HandleToolCall
    <3>3. CASE throws = FALSE
      <4> DEFINE c == Head(toNode).arg
      <4>1. tool' = [tool EXCEPT ![c] = "running"]
        BY <2>1, <3>3 DEF HandleToolCall
      <4>2. tool[c] = "idle" /\ c \in 1..callId
        BY <1>a, <3>1, FreshTake
      <4> HIDE DEF c
      <4>3. c \in Ids /\ caller[c] # "idle"
        BY <1>a, <4>2, BoundsAssumption DEF MapInv, IssuedCallers, TypeOK, Ids
      <4>4. absTool[c] = "idle" /\ absTool' = [absTool EXCEPT ![c] = "running"]
        BY <1>a, <4>1, <4>2, <4>3 DEF absTool, Finished
      <4>5. absCaller[c] # "idle"
        BY <4>3 DEF absCaller
      <4>6. Abstract!Run(c)
        BY <3>1, <4>4, <4>5, SameProgram, SameCaller DEF Abstract!Run
      <4>7. QED
        BY <4>3, <4>6 DEF Step, Abstract!Next
    <3>4. QED
      BY <3>2, <3>3
  <2>2. ASSUME NEW throws \in BOOLEAN, HandleProgress(throws) PROVE Step
    BY <2>2, Unseen DEF HandleProgress, pyVars, holders, PyHolds, Alive
  <2>3. CASE HandleStdout
    BY <2>3, Unseen DEF HandleStdout, pyVars, holders, PyHolds, Alive
  <2>4. CASE HandleInvalid
    BY <2>4, Unseen DEF HandleInvalid, pyVars, holders, PyHolds, Alive
  <2>5. CASE HandleComplete                                                 \* Tell
    <3>1. terminal = "complete"
      BY <2>5, <1>a, TakeLine DEF HandleComplete, NextLine, VerdictInv, FramesTold, Told
    <3>2. QED
      BY <2>5, <1>a, <1>b, <3>1, Tells DEF HandleComplete, Settle, pyVars, holders, PyHolds, Alive
  <2>6. CASE HandleError                                                    \* Tell
    <3>1. terminal = "error"
      BY <2>6, <1>a, TakeLine DEF HandleError, NextLine, VerdictInv, FramesTold, Told
    <3>2. QED
      BY <2>6, <1>a, <1>b, <3>1, Tells DEF HandleError, Settle, pyVars, holders, PyHolds, Alive
  <2>7. CASE HandleMerged
    BY <1>h, <2>7, Unseen DEF HandleMerged, pyVars
  <2>8. QED
    BY <1>1, <2>1, <2>2, <2>3, <2>4, <2>5, <2>6, <2>7 DEF HandleLine
<1>2. CASE RunRejection                                                     \* Tell
  BY <1>2, <1>a, <1>b, Tells DEF RunRejection, Settle, pyVars, holders, PyHolds, Alive
<1>3. ASSUME NEW i \in Ids, NEW r \in Finished, FinishTool(i, r) PROVE Step \* Finish
  <2> DEFINE v == IF r \in {"ok", "big"} THEN "ok" ELSE "err"
  <2>1. /\ tool[i] = "running" /\ tool' = [tool EXCEPT ![i] = r]
        /\ UNCHANGED <<terminal, caller, verdict>> /\ (PyHolds' <=> PyHolds)
    BY <1>3, <1>h DEF FinishTool, pyVars
  <2>2. absTool[i] = "running" /\ absTool' = [absTool EXCEPT ![i] = v]
    BY <1>a, <2>1 DEF absTool, Finished
  <2>3. v \in {"ok", "err"}
    OBVIOUS
  <2> HIDE DEF v
  <2>4. Abstract!Finish(i, v)
    BY <2>1, <2>2, SameProgram, SameCaller DEF Abstract!Finish
  <2>5. QED
    BY <2>3, <2>4 DEF Step, Abstract!Next
<1>4. CASE StderrData
  BY <1>4, Unseen DEF StderrData, nodeVars, holders, PyHolds, Alive
<1>5. CASE LineReaderClose                                                  \* Tell
  <2> DEFINE v == IF traceback = "read" THEN "python" ELSE "transport"
  <2>1. /\ verdict' = IF verdict = "none" THEN v ELSE verdict
        /\ v \in Abstract!Verdicts
        /\ UNCHANGED <<terminal, tool, caller>> /\ (PyHolds' <=> PyHolds)
    BY <1>5, <1>b DEF LineReaderClose, buildUnexpectedCloseError, Settle, pyVars, holders,
        PyHolds, Alive
  <2>2. verdict = "none" => terminal = "none" /\ ~PyHolds
    BY <1>5, <1>a DEF LineReaderClose, VerdictInv, TerminalHeard, Carries
  <2>3. v # "complete"
    OBVIOUS
  <2> HIDE DEF v
  <2>4. QED
    BY <1>a, <2>1, <2>2, <2>3, Tells
<1>6. CASE ProcessExit
  BY <1>6, Unseen DEF ProcessExit, pyVars, holders, PyHolds, Alive
<1>7. CASE SpawnError                                                       \* NeverStarted
  <2>1. /\ PyHolds /\ terminal = "none" /\ verdict = "none"
        /\ verdict' = "transport" /\ py' = "exited"
        /\ UNCHANGED <<terminal, tool, caller>>
    BY <1>7, <1>a DEF SpawnError, Settle, VerdictInv, RunningIsOpen
  <2>2. absProgram = "running" /\ absProgram' = "gone"
    BY <1>a, <2>1, Programs DEF PyHolds, Alive
  <2>3. Abstract!NeverStarted
    BY <2>1, <2>2, SameTool, SameCaller DEF Abstract!NeverStarted
  <2>4. QED
    BY <2>3 DEF Step, Abstract!Next
<1>8. CASE ExecutionTimeout                                                 \* Tell
  BY <1>8, <1>a, <1>b, Tells DEF ExecutionTimeout, pyVars, holders, PyHolds, Alive
<1>9. CASE Abort                                                            \* Tell
  BY <1>9, <1>a, <1>b, Tells DEF Abort, Settle, pyVars, holders, PyHolds, Alive
<1>10. CASE KillTimer
  BY <1>10, Unseen DEF KillTimer, pyVars, holders, PyHolds, Alive
<1>11. QED
  BY <1>1, <1>2, <1>3, <1>4, <1>5, <1>6, <1>7, <1>8, <1>9, <1>10 DEF NodeNext

\* Two processes, two pipes, timers and microtasks together are one execution
\* with one verdict and calls that are answered with what their tools produced.
THEOREM BridgeImplementsExecution == Spec => ImplementsExecution
<1>1. Init => Abstract!Init
  BY DEF Init, Abstract!Init, absProgram, absTool, absCaller, PyHolds, Alive, Finished
<1>2. MapInv /\ MapInv' /\ [Next]_vars => [Abstract!Next]_(Abstract!vars)
  <2>1. UNCHANGED vars => Step
    BY Unseen DEF vars, pyVars, nodeVars, holders, PyHolds, Alive
  <2>2. MapInv /\ MapInv' /\ [Next]_vars => Step
    BY <2>1, PythonSteps, NodeSteps DEF Next, MapInv
  <2>3. QED
    BY <2>2 DEF Step
<1>3. QED
  BY <1>1, <1>2, MapInvariant, PTL DEF Spec, ImplementsExecution, Abstract!Spec

=============================================================================
