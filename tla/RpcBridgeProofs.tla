-------------------------- MODULE RpcBridgeProofs --------------------------
(***************************************************************************)
(* Theorems about RpcBridge for every number of calls and lines.           *)
(***************************************************************************)
EXTENDS RpcBridge, SequenceTheorems, TLAPS

\* A line taken off a pipe leaves a sequence of the same element type, each
\* element of which was in the pipe one place further.
LEMMA TakeLine ==
  ASSUME NEW S, NEW s \in Seq(S), s # <<>>
  PROVE  /\ Head(s) \in S /\ Tail(s) \in Seq(S)
         /\ Head(s) = s[1] /\ 1 \in DOMAIN s
         /\ \A k \in DOMAIN Tail(s) : Tail(s)[k] = s[k + 1] /\ k + 1 \in DOMAIN s
  OBVIOUS

\* A line put on a pipe leaves the lines before it where they were.
LEMMA PutLine ==
  ASSUME NEW S, NEW s \in Seq(S), NEW e \in S
  PROVE  /\ Append(s, e) \in Seq(S)
         /\ DOMAIN Append(s, e) = 1..(Len(s) + 1)
         /\ \A k \in DOMAIN s : Append(s, e)[k] = s[k]
         /\ Append(s, e)[Len(s) + 1] = e
         /\ DOMAIN s = 1..Len(s) /\ Len(s) \in Nat
  OBVIOUS

\* Two lines taken off a pipe one after the other.
LEMMA TakeTwo ==
  ASSUME NEW S, NEW s \in Seq(S), Len(s) > 1
  PROVE  /\ s # <<>> /\ Tail(s) \in Seq(S) /\ Tail(s) # <<>>
         /\ Head(Tail(s)) = s[2] /\ s[2] \in S /\ Tail(Tail(s)) \in Seq(S)
<1>1. s # <<>> /\ s[2] \in S /\ Len(s) \in Nat
  OBVIOUS
<1>2. Tail(s) \in Seq(S) /\ Len(Tail(s)) = Len(s) - 1
  BY <1>1
<1>3. Tail(s) # <<>>
  <2>1. Len(Tail(s)) # 0
    BY <1>1, <1>2
  <2>2. Len(<<>>) = 0
    OBVIOUS
  <2>3. QED
    BY <2>1, <2>2
<1>4. Head(Tail(s)) = s[2]
  BY <1>1, <1>2
<1>5. Tail(Tail(s)) \in Seq(S)
  BY <1>2, <1>3
<1>6. QED
  BY <1>1, <1>2, <1>3, <1>4, <1>5

\* Raw text puts at most one frame on the pipe, and not one of Python's.
LEMMA RawTextPuts ==
  ASSUME NEW newline, RawText(newline)
  PROVE  \/ UNCHANGED toNode
         \/ \E t \in {"noise", "fragment"} : toNode' = Append(toNode, Frame(t, 0))
  BY DEF RawText

\* Unterminated text is read with the line behind it, or as the last line.
LEMMA MergedTakes ==
  ASSUME toNode \in Seq(Frames), HandleMerged
  PROVE  \/ Len(toNode) > 1 /\ toNode' = Tail(Tail(toNode))
         \/ toNode' = <<>>
  BY DEF HandleMerged, NextLine

-----------------------------------------------------------------------------
(* Type correctness *)

\* What the two sides write on the pipes is well formed.
LEMMA PutFrame ==
  ASSUME toNode \in Seq(Frames), NEW t \in FrameTypes, NEW a \in Nat
  PROVE  Append(toNode, Frame(t, a)) \in Seq(Frames)
<1>1. Frame(t, a) \in Frames
  BY DEF Frame, Frames
<1>2. QED
  BY <1>1, PutLine

\* Each Python step keeps every variable in its type.
LEMMA PythonTypeOK == TypeOK /\ PythonNext => TypeOK'
<1> SUFFICES ASSUME TypeOK, PythonNext PROVE TypeOK'
  OBVIOUS
<1> USE BoundsAssumption DEF TypeOK, Ids, nodeVars, holders, FrameTypes
<1>1. CASE IssueCall
  BY <1>1, PutFrame DEF IssueCall
<1>2. ASSUME NEW newline \in BOOLEAN, ProxyWrite(newline) PROVE TypeOK'
  <2>1. CASE newline = TRUE
    <3>1. toNode' = Append(toNode, Frame("stdout", buffered + 1)) /\ buffered' = 0
      BY <1>2, <2>1 DEF ProxyWrite
    <3>2. toNode' \in Seq(Frames)
      BY <3>1, PutFrame
    <3>3. QED
      BY <1>2, <3>1, <3>2 DEF ProxyWrite
  <2>2. CASE newline = FALSE
    BY <1>2, <2>2 DEF ProxyWrite
  <2>3. QED
    BY <2>1, <2>2
<1>3. CASE Progress
  BY <1>3, PutFrame DEF Progress
<1>4. ASSUME NEW newline \in BOOLEAN, RawText(newline) PROVE TypeOK'
  <2>1. toNode' \in Seq(Frames)
    BY <1>4, RawTextPuts, PutFrame
  <2>2. QED
    BY <1>4, <2>1 DEF RawText
<1>14. CASE Inherit
  BY <1>14 DEF Inherit
<1>15. CASE SubprocessEnds
  <2>1. inherited' \in BOOLEAN
    BY <1>15 DEF SubprocessEnds
  <2>2. UNCHANGED <<py, callId, caller, pendingCalls, reader, buffered, printed,
                    written, stdoutOpen, terminal, traceback, toNode, toPy,
                    nodeVars>>
    BY <1>15 DEF SubprocessEnds
  <2>3. QED
    BY <2>1, <2>2
<1>16. CASE CloseStdout
  <2>1. /\ stdoutOpen' = FALSE /\ written' = written + 1
    BY <1>16 DEF CloseStdout
  <2>2. UNCHANGED <<py, callId, caller, pendingCalls, reader, buffered, printed,
                    inherited, terminal, traceback, toNode, toPy, nodeVars>>
    BY <1>16 DEF CloseStdout
  <2>3. stdoutOpen' \in BOOLEAN
    BY <2>1
  <2>4. written' \in Nat
    BY <2>1
  <2>5. QED
    BY <2>2, <2>3, <2>4
<1>f. Flushed \in Seq(Frames)
  BY PutFrame DEF Flushed
<1>5. ASSUME NEW f \in {"complete", "badreport"}, ReturnValue(f) PROVE TypeOK'
  <2>1. <<Frame(f, 0)>> \in Seq(Frames)
    BY DEF Frame, Frames, FrameTypes
  <2>2. toNode' \in Seq(Frames)
    BY <1>5, <1>f, <2>1 DEF ReturnValue
  <2>3. QED
    BY <1>5, <2>2 DEF ReturnValue, WindDown
<1>6. ASSUME NEW returned \in BOOLEAN, RaiseException(returned) PROVE TypeOK'
  <2> DEFINE before == IF returned THEN Flushed ELSE toNode
  <2>1. before \in Seq(Frames) /\ <<Frame("error", 0)>> \in Seq(Frames)
    <3>1. CASE returned = TRUE
      BY <3>1, <1>f DEF Frame, Frames, FrameTypes
    <3>2. CASE returned = FALSE
      BY <3>2 DEF Frame, Frames, FrameTypes
    <3>3. QED
      BY <3>1, <3>2
  <2>2. toNode' = before \o <<Frame("error", 0)>>
    BY <1>6 DEF RaiseException
  <2> HIDE DEF before
  <2>3. toNode' \in Seq(Frames)
    BY <2>1, <2>2
  <2>4. buffered' \in Nat
    BY <1>6 DEF RaiseException
  <2>5. QED
    BY <1>6, <2>3, <2>4 DEF RaiseException, WindDown
<1>7. CASE RaiseSystemExit
  BY <1>7 DEF RaiseSystemExit, WindDown
<1>8. ASSUME NEW tb \in BOOLEAN, Exit(tb) PROVE TypeOK'
  BY <1>8 DEF Exit
<1>9. CASE KernelKill
  BY <1>9 DEF KernelKill
<1>10. CASE HandleResponse
  <2>1. Head(toPy) \in Answers /\ toPy' \in Seq(Answers)
    BY <1>10, TakeLine DEF HandleResponse
  <2>2. Head(toPy).kind \in {"ok", "err"}
    BY <1>10, <2>1 DEF HandleResponse, Answers
  <2>3. caller' \in [Ids -> {"idle", "waiting", "ok", "err", "expired",
                             "timeout", "lost", "cancelled"}]
    BY <1>10, <2>2 DEF HandleResponse
  <2>4. pendingCalls' \in SUBSET Ids
    BY <1>10 DEF HandleResponse
  <2>5. QED
    BY <1>10, <2>1, <2>3, <2>4 DEF HandleResponse
<1>11. CASE ReaderFails
  BY <1>11 DEF ReaderFails
<1>12. ASSUME NEW i \in Ids, ExpireCall(i) \/ ResumeExpired(i) \/ CancelCall(i)
       PROVE  TypeOK'
  <2>1. CASE ExpireCall(i)
    BY <2>1 DEF ExpireCall
  <2>2. CASE ResumeExpired(i)
    BY <2>2 DEF ResumeExpired
  <2>3. CASE CancelCall(i)
    BY <2>3 DEF CancelCall
  <2>4. QED
    BY <1>12, <2>1, <2>2, <2>3
<1>13. QED
  BY <1>1, <1>2, <1>3, <1>4, <1>5, <1>6, <1>7, <1>8, <1>9, <1>10, <1>11, <1>12,
     <1>14, <1>15, <1>16 DEF PythonNext

\* Each Node step keeps every variable in its type.
LEMMA NodeTypeOK == TypeOK /\ NodeNext => TypeOK'
<1> SUFFICES ASSUME TypeOK, NodeNext PROVE TypeOK'
  OBVIOUS
<1> USE BoundsAssumption DEF TypeOK, Ids, pyVars, holders, Outcomes, Finished
<1>1. ASSUME HandleLine PROVE TypeOK'
  <2>1. toNode # <<>> => Head(toNode) \in Frames /\ Tail(toNode) \in Seq(Frames)
    BY TakeLine
  <2>2. ASSUME NEW throws \in BOOLEAN, HandleToolCall(throws) PROVE TypeOK'
    <3>1. toNode' \in Seq(Frames)
      BY <2>1, <2>2 DEF HandleToolCall, NextLine
    <3>2. CASE throws = TRUE
      BY <2>2, <3>1, <3>2 DEF HandleToolCall
    <3>3. CASE throws = FALSE
      <4>1. /\ tool' = [tool EXCEPT ![Head(toNode).arg] = "running"]
            /\ UNCHANGED rejecting
        BY <2>2, <3>3 DEF HandleToolCall
      <4>2. /\ UNCHANGED <<pyVars, toPy, outcome, verdict, nodeOut, finalOut, spoilt,
                            lineClosed, reaped, kill, aborted>>
        BY <2>2 DEF HandleToolCall
      <4>3. tool' \in [Ids -> {"idle", "running"} \cup Finished]
        BY <4>1
      <4>4. QED
        BY <3>1, <4>1, <4>2, <4>3
    <3>4. QED
      BY <3>2, <3>3
  <2>3. ASSUME NEW throws \in BOOLEAN, HandleProgress(throws) PROVE TypeOK'
    BY <2>1, <2>3 DEF HandleProgress, NextLine
  <2>4. CASE HandleStdout
    <3>1. nodeOut' \in Nat
      BY <2>1, <2>4 DEF HandleStdout, NextLine, Frames
    <3>2. QED
      BY <2>1, <2>4, <3>1 DEF HandleStdout, NextLine
  <2>5. CASE HandleInvalid
    BY <2>1, <2>5 DEF HandleInvalid, NextLine
  <2>6. CASE HandleComplete
    BY <2>1, <2>6 DEF HandleComplete, NextLine, Settle
  <2>7. CASE HandleError
    BY <2>1, <2>7 DEF HandleError, NextLine, Settle
  <2>8. CASE HandleMerged
    <3>1. toNode' \in Seq(Frames)
      <4>1. CASE Len(toNode) > 1 /\ toNode' = Tail(Tail(toNode))
        BY <4>1, TakeTwo
      <4>2. CASE toNode' = <<>>
        BY <4>2
      <4>3. QED
        BY <2>8, <4>1, <4>2, MergedTakes
    <3>2. spoilt' \in Nat
      <4>1. CASE Len(toNode) > 1
        <5>1. Text(toNode[2]) \in Nat
          BY <4>1, TakeTwo DEF Frames, Text
        <5>2. QED
          BY <2>8, <4>1, <5>1 DEF HandleMerged
      <4>2. CASE ~(Len(toNode) > 1)
        BY <2>8, <4>2 DEF HandleMerged
      <4>3. QED
        BY <4>1, <4>2
    <3>3. QED
      BY <2>8, <3>1, <3>2 DEF HandleMerged
  <2>9. QED
    BY <1>1, <2>2, <2>3, <2>4, <2>5, <2>6, <2>7, <2>8 DEF HandleLine
<1>2. CASE RunRejection
  <2>1. rejecting' \in BOOLEAN
    BY <1>2 DEF RunRejection
  <2>2. outcome' \in Outcomes /\ verdict' \in Outcomes \cup {"timeout"}
    BY <1>2 DEF RunRejection, Settle
  <2>3. UNCHANGED <<pyVars, toNode, toPy, tool, nodeOut, finalOut, spoilt, lineClosed,
                    reaped, kill, aborted>>
    BY <1>2 DEF RunRejection
  <2>4. QED
    BY <2>1, <2>2, <2>3
<1>3. ASSUME NEW i \in Ids, NEW r \in Finished, FinishTool(i, r) PROVE TypeOK'
  <2>1. [id |-> i, kind |-> AnswerKind(r)] \in Answers
    BY DEF Answers, AnswerKind
  <2>2. toPy' \in Seq(Answers)
    BY <1>3, <2>1, PutLine DEF FinishTool
  <2>3. tool' \in [Ids -> {"idle", "running"} \cup Finished]
    BY <1>3 DEF FinishTool
  <2>4. QED
    BY <1>3, <2>2, <2>3 DEF FinishTool
<1>4. CASE StderrData
  BY <1>4 DEF StderrData, nodeVars
<1>5. CASE LineReaderClose
  BY <1>5 DEF LineReaderClose, buildUnexpectedCloseError, Settle
<1>6. CASE ProcessExit
  BY <1>6 DEF ProcessExit
<1>7. CASE SpawnError
  BY <1>7 DEF SpawnError, Settle
<1>8. CASE ExecutionTimeout
  BY <1>8 DEF ExecutionTimeout, terminateProcess
<1>9. CASE Abort
  BY <1>9 DEF Abort, terminateProcess, Settle
<1>10. CASE KillTimer
  BY <1>10 DEF KillTimer
<1>11. QED
  BY <1>1, <1>2, <1>3, <1>4, <1>5, <1>6, <1>7, <1>8, <1>9, <1>10 DEF NodeNext

\* The initial state is well typed.
LEMMA TypeInit == Init => TypeOK
<1> SUFFICES ASSUME Init PROVE TypeOK
  OBVIOUS
<1>1. callId \in 0..MaxCalls
  BY BoundsAssumption DEF Init
<1>2. toNode \in Seq(Frames) /\ toPy \in Seq(Answers)
  BY DEF Init
<1>3. /\ caller \in [Ids -> {"idle", "waiting", "ok", "err", "expired",
                             "timeout", "lost", "cancelled"}]
      /\ tool \in [Ids -> {"idle", "running"} \cup Finished]
  BY DEF Init
<1>4. QED
  BY <1>1, <1>2, <1>3 DEF Init, TypeOK, Outcomes

\* Every reachable state is well typed, whatever the bounds.
THEOREM TypeCorrect == Spec => []TypeOK
<1>1. Init => TypeOK
  BY TypeInit
<1>2. TypeOK /\ [Next]_vars => TypeOK'
  <2>1. TypeOK /\ UNCHANGED vars => TypeOK'
    BY DEF TypeOK, vars, pyVars, nodeVars, holders
  <2>2. QED
    BY <2>1, PythonTypeOK, NodeTypeOK DEF Next
<1>3. QED
  BY <1>1, <1>2, PTL DEF Spec

-----------------------------------------------------------------------------
(* Calls and answers *)

\* A tool_call frame on pipe q has been issued (its number is at most n), is
\* there once, and its tool has not run according to t.
Fresh(q, n, t) ==
  \A k \in DOMAIN q : q[k].type = "tool_call" =>
    /\ q[k].arg \in 1..n /\ t[q[k].arg] = "idle"
    /\ \A j \in DOMAIN q :
         q[j].type = "tool_call" /\ q[j].arg = q[k].arg => j = k

RequestsFresh == Fresh(toNode, callId, tool)

\* Nothing has happened to a call number that has not been given out.
UnissuedIdle == \A i \in Ids : i > callId => tool[i] = "idle"

\* Every answer on the pipe is the one its tool produced.
AnswersMatch ==
  \A k \in DOMAIN toPy :
    /\ tool[toPy[k].id] \in Finished
    /\ toPy[k].kind = AnswerKind(tool[toPy[k].id])

CallInv == TypeOK /\ RequestsFresh /\ UnissuedIdle /\ AnswersMatch /\ AnswerMatchesTool

\* Writing any other frame keeps the tool calls on the pipe fresh.
LEMMA FreshAppendOther ==
  ASSUME NEW q \in Seq(Frames), NEW n, NEW t, Fresh(q, n, t),
         NEW f \in Frames, f.type # "tool_call"
  PROVE  Fresh(Append(q, f), n, t)
  BY PutLine DEF Fresh

\* Writing the next call's frame keeps them fresh too.
LEMMA FreshAppendCall ==
  ASSUME NEW q \in Seq(Frames), NEW n \in Nat, NEW t, Fresh(q, n, t),
         t[n + 1] = "idle"
  PROVE  Fresh(Append(q, Frame("tool_call", n + 1)), n + 1, t)
<1> DEFINE f == Frame("tool_call", n + 1)
<1>1. f \in Frames /\ f.type = "tool_call" /\ f.arg = n + 1
  BY DEF Frame, Frames, FrameTypes
<1>2. \A k \in DOMAIN q : q[k].type = "tool_call" => q[k].arg \in 1..n
  BY DEF Fresh
<1> HIDE DEF f
<1>3. /\ DOMAIN Append(q, f) = 1..(Len(q) + 1) /\ DOMAIN q = 1..Len(q)
      /\ \A k \in DOMAIN q : Append(q, f)[k] = q[k]
      /\ Append(q, f)[Len(q) + 1] = f /\ Len(q) \in Nat
  BY <1>1, PutLine
<1>4. Fresh(Append(q, f), n + 1, t)
  BY <1>1, <1>2, <1>3 DEF Fresh
<1>5. QED
  BY <1>4 DEF f

\* Taking a line keeps the rest fresh.
LEMMA FreshTail ==
  ASSUME NEW q \in Seq(Frames), q # <<>>, NEW n, NEW t, Fresh(q, n, t)
  PROVE  Fresh(Tail(q), n, t)
<1>1. \A k \in DOMAIN Tail(q) : Tail(q)[k] = q[k + 1] /\ k + 1 \in DOMAIN q
  BY TakeLine
<1>2. DOMAIN Tail(q) \subseteq Nat
  BY TakeLine
<1>3. QED
  BY <1>1, <1>2 DEF Fresh

\* Taking a tool call and running its tool keeps the rest fresh.
LEMMA FreshTake ==
  ASSUME NEW q \in Seq(Frames), q # <<>>, NEW n \in Nat,
         NEW t \in [Ids -> {"idle", "running"} \cup Finished],
         Fresh(q, n, t), Head(q).type = "tool_call"
  PROVE  /\ t[Head(q).arg] = "idle" /\ Head(q).arg \in 1..n
         /\ Fresh(Tail(q), n, [t EXCEPT ![Head(q).arg] = "running"])
<1>1. \A k \in DOMAIN Tail(q) : /\ Tail(q)[k] = q[k + 1] /\ k + 1 \in DOMAIN q
                                /\ k \in Nat /\ k + 1 # 1
  BY TakeLine
<1>2. Head(q) = q[1] /\ 1 \in DOMAIN q
  BY TakeLine
<1>3. t[Head(q).arg] = "idle" /\ Head(q).arg \in 1..n
  BY <1>2 DEF Fresh
<1>4. ASSUME NEW k \in DOMAIN Tail(q), Tail(q)[k].type = "tool_call"
      PROVE  Tail(q)[k].arg # Head(q).arg
  BY <1>1, <1>2, <1>4 DEF Fresh
<1>5. Fresh(Tail(q), n, t)
  BY FreshTail
<1>6. Fresh(Tail(q), n, [t EXCEPT ![Head(q).arg] = "running"])
  BY <1>4, <1>5 DEF Fresh
<1>7. QED
  BY <1>3, <1>6

\* A step that leaves the tools, the answers on the pipe and the issued calls
\* alone, and that answers no caller, has only the pipe to Node to keep fresh.
LEMMA QuietStep ==
  ASSUME CallInv, TypeOK', RequestsFresh', UNCHANGED <<toPy, tool, callId>>,
         \A i \in Ids : caller'[i] \in {"ok", "err"} => caller'[i] = caller[i]
  PROVE  CallInv'
<1>1. UnissuedIdle'
  BY DEF CallInv, UnissuedIdle
<1>2. AnswersMatch'
  BY DEF CallInv, AnswersMatch
<1>3. AnswerMatchesTool'
  BY DEF CallInv, AnswerMatchesTool
<1>4. QED
  BY <1>1, <1>2, <1>3 DEF CallInv

\* The invariant about calls and answers survives every Python step.
LEMMA PythonCallInv == CallInv /\ PythonNext => CallInv'
<1> SUFFICES ASSUME CallInv, PythonNext PROVE CallInv'
  OBVIOUS
<1>a. TypeOK /\ TypeOK'
  BY PythonTypeOK DEF CallInv
<1>b. toNode \in Seq(Frames) /\ callId \in Nat /\ UNCHANGED tool
  BY <1>a DEF TypeOK, PythonNext, IssueCall, ProxyWrite, Progress, RawText,
              Inherit, SubprocessEnds, CloseStdout, ReturnValue, RaiseException,
              RaiseSystemExit, Exit, KernelKill, HandleResponse, ReaderFails,
              ExpireCall, ResumeExpired, CancelCall, nodeVars
<1>c. \A t \in FrameTypes, a \in Nat :
        Frame(t, a) \in Frames /\ Frame(t, a).type = t
  BY DEF Frame, Frames
<1>d. \A t \in FrameTypes \ {"tool_call"}, a \in Nat :
        toNode' = Append(toNode, Frame(t, a)) /\ UNCHANGED callId => RequestsFresh'
  BY <1>b, <1>c, FreshAppendOther DEF CallInv, RequestsFresh
<1>e. UNCHANGED <<toNode, callId>> => RequestsFresh'
  BY <1>b DEF CallInv, RequestsFresh
<1>1. CASE IssueCall
  <2>1. callId + 1 \in Ids /\ tool[callId + 1] = "idle"
    BY <1>1, <1>a, BoundsAssumption DEF IssueCall, CallInv, UnissuedIdle, TypeOK, Ids
  <2>2. RequestsFresh'
    BY <1>1, <1>b, <2>1, FreshAppendCall DEF IssueCall, CallInv, RequestsFresh
  <2>3. UnissuedIdle'
    BY <1>1, <1>b DEF IssueCall, CallInv, UnissuedIdle, Ids
  <2>4. AnswersMatch'
    BY <1>1, <1>b DEF IssueCall, CallInv, AnswersMatch
  <2>5. AnswerMatchesTool'
    BY <1>1, <1>a, <1>b DEF IssueCall, CallInv, AnswerMatchesTool, TypeOK
  <2>6. QED
    BY <1>a, <2>2, <2>3, <2>4, <2>5 DEF CallInv
<1>2. ASSUME NEW newline \in BOOLEAN, ProxyWrite(newline) PROVE CallInv'
  <2>1. buffered + 1 \in Nat
    BY <1>a DEF TypeOK
  <2>2. RequestsFresh'
    <3>1. UNCHANGED callId
      BY <1>2 DEF ProxyWrite
    <3>2. toNode' = Append(toNode, Frame("stdout", buffered + 1)) \/ UNCHANGED toNode
      BY <1>2 DEF ProxyWrite
    <3>3. QED
      BY <1>d, <1>e, <2>1, <3>1, <3>2 DEF FrameTypes
  <2>3. QED
    BY <1>2, <1>a, <1>b, <2>2, QuietStep DEF ProxyWrite
<1>3. CASE Progress
  <2>1. RequestsFresh'
    BY <1>3, <1>d DEF Progress, FrameTypes
  <2>2. QED
    BY <1>3, <1>a, <1>b, <2>1, QuietStep DEF Progress
<1>4. ASSUME NEW newline \in BOOLEAN, RawText(newline) PROVE CallInv'
  <2>1. {"noise", "fragment"} \subseteq FrameTypes \ {"tool_call"}
    BY DEF FrameTypes
  <2>2. UNCHANGED <<callId, caller, toPy>>
    BY <1>4 DEF RawText
  <2>3. RequestsFresh'
    BY <1>4, <1>d, <1>e, <2>1, <2>2, RawTextPuts
  <2>4. QED
    BY <1>a, <1>b, <2>2, <2>3, QuietStep
<1>14. CASE Inherit \/ SubprocessEnds \/ CloseStdout
  <2>1. UNCHANGED <<toNode, callId, caller, toPy>>
    BY <1>14 DEF Inherit, SubprocessEnds, CloseStdout
  <2>2. QED
    BY <1>a, <1>b, <1>e, <2>1, QuietStep
<1>f. Flushed \in Seq(Frames) /\ Fresh(Flushed, callId, tool)
  <2>1. Frame("stdout", buffered) \in Frames
        /\ Frame("stdout", buffered).type # "tool_call"
    BY <1>a, <1>c DEF TypeOK, FrameTypes
  <2>2. Fresh(Append(toNode, Frame("stdout", buffered)), callId, tool)
    BY <1>b, <2>1, FreshAppendOther DEF CallInv, RequestsFresh
  <2>3. QED
    BY <1>b, <2>1, <2>2, PutLine DEF CallInv, RequestsFresh, Flushed
<1>g. ASSUME NEW q, q \in Seq(Frames) /\ Fresh(q, callId, tool),
             NEW t \in FrameTypes \ {"tool_call"}
      PROVE  Fresh(q \o <<Frame(t, 0)>>, callId, tool)
  <2>1. Frame(t, 0) \in Frames /\ Frame(t, 0).type # "tool_call"
    BY <1>c
  <2>2. q \o <<Frame(t, 0)>> = Append(q, Frame(t, 0))
    BY <2>1
  <2>3. QED
    BY <1>b, <1>g, <2>1, <2>2, FreshAppendOther
<1>5. ASSUME NEW f \in {"complete", "badreport"}, ReturnValue(f) PROVE CallInv'
  <2>1. f \in FrameTypes \ {"tool_call"}
    BY DEF FrameTypes
  <2>2. toNode' = Flushed \o <<Frame(f, 0)>>
    BY <1>5 DEF ReturnValue
  <2>3. Fresh(toNode', callId, tool)
    BY <1>f, <1>g, <2>1, <2>2
  <2>4. RequestsFresh'
    BY <1>5, <1>b, <2>3 DEF ReturnValue, RequestsFresh
  <2>5. QED
    BY <1>5, <1>a, <1>b, <2>4, QuietStep DEF ReturnValue
<1>6. ASSUME NEW returned \in BOOLEAN, RaiseException(returned) PROVE CallInv'
  <2> DEFINE before == IF returned THEN Flushed ELSE toNode
  <2>1. before \in Seq(Frames) /\ Fresh(before, callId, tool)
    <3>1. CASE returned = TRUE
      BY <3>1, <1>f
    <3>2. CASE returned = FALSE
      BY <3>2, <1>b DEF CallInv, RequestsFresh
    <3>3. QED
      BY <3>1, <3>2
  <2>2. toNode' = before \o <<Frame("error", 0)>>
    BY <1>6 DEF RaiseException
  <2>3. "error" \in FrameTypes \ {"tool_call"}
    BY DEF FrameTypes
  <2> HIDE DEF before
  <2>4. Fresh(toNode', callId, tool)
    BY <1>g, <2>1, <2>2, <2>3
  <2>5. RequestsFresh'
    BY <1>6, <1>b, <2>4 DEF RaiseException, RequestsFresh
  <2>6. QED
    BY <1>6, <1>a, <1>b, <2>5, QuietStep DEF RaiseException
<1>7. CASE RaiseSystemExit
  BY <1>7, <1>a, <1>b, <1>e, QuietStep DEF RaiseSystemExit
<1>8. ASSUME NEW tb \in BOOLEAN, Exit(tb) PROVE CallInv'
  BY <1>8, <1>a, <1>b, <1>e, QuietStep DEF Exit
<1>9. CASE KernelKill
  BY <1>9, <1>a, <1>b, <1>e, QuietStep DEF KernelKill
<1>10. CASE HandleResponse
  <2>1. RequestsFresh'
    BY <1>10, <1>e DEF HandleResponse
  <2>2. UnissuedIdle'
    BY <1>10, <1>b DEF HandleResponse, CallInv, UnissuedIdle
  <2>3. toPy \in Seq(Answers) /\ toPy # <<>> /\ toPy' = Tail(toPy)
    BY <1>10, <1>a DEF HandleResponse, TypeOK
  <2>4. AnswersMatch'
    BY <1>b, <2>3, TakeLine DEF CallInv, AnswersMatch
  <2>5. /\ tool[Head(toPy).id] \in Finished
        /\ Head(toPy).kind = AnswerKind(tool[Head(toPy).id])
    BY <2>3, TakeLine DEF CallInv, AnswersMatch
  <2>6. AnswerMatchesTool'
    BY <1>10, <1>a, <1>b, <2>5 DEF HandleResponse, CallInv, AnswerMatchesTool, TypeOK
  <2>7. QED
    BY <1>a, <2>1, <2>2, <2>4, <2>6 DEF CallInv
<1>11. CASE ReaderFails
  BY <1>11, <1>a, <1>b, <1>e, QuietStep DEF ReaderFails
<1>12. ASSUME NEW i \in Ids, ExpireCall(i) \/ ResumeExpired(i) \/ CancelCall(i)
       PROVE  CallInv'
  <2>1. CASE ExpireCall(i)
    BY <2>1, <1>a, <1>b, <1>e, QuietStep DEF ExpireCall, TypeOK
  <2>2. CASE ResumeExpired(i)
    BY <2>2, <1>a, <1>b, <1>e, QuietStep DEF ResumeExpired, TypeOK
  <2>3. CASE CancelCall(i)
    BY <2>3, <1>a, <1>b, <1>e, QuietStep DEF CancelCall, TypeOK
  <2>4. QED
    BY <1>12, <2>1, <2>2, <2>3
<1>13. QED
  BY <1>1, <1>2, <1>3, <1>4, <1>5, <1>6, <1>7, <1>8, <1>9, <1>10, <1>11, <1>12,
     <1>14 DEF PythonNext

\* The invariant about calls and answers survives every Node step.
LEMMA NodeCallInv == CallInv /\ NodeNext => CallInv'
<1> SUFFICES ASSUME CallInv, NodeNext PROVE CallInv'
  OBVIOUS
<1>a. TypeOK /\ TypeOK' /\ toNode \in Seq(Frames) /\ callId \in Nat
  BY NodeTypeOK DEF CallInv, TypeOK
<1>b. toNode # <<>> /\ toNode' = Tail(toNode) /\ UNCHANGED <<callId, tool>>
      => RequestsFresh'
  BY <1>a, FreshTail DEF CallInv, RequestsFresh
<1>c. UNCHANGED <<toNode, callId, tool>> => RequestsFresh'
  BY DEF CallInv, RequestsFresh
<1>1. ASSUME HandleLine PROVE CallInv'
  <2>1. ASSUME NEW throws \in BOOLEAN, HandleToolCall(throws) PROVE CallInv'
    <3>1. CASE throws = TRUE
      <4>1. toNode # <<>> /\ toNode' = Tail(toNode)
            /\ UNCHANGED <<tool, callId, toPy, caller>>
        BY <2>1, <3>1 DEF HandleToolCall, NextLine, pyVars
      <4>2. QED
        BY <1>a, <1>b, <4>1, QuietStep
    <3>2. CASE throws = FALSE
      <4>1. /\ toNode # <<>> /\ toNode' = Tail(toNode)
            /\ Head(toNode).type = "tool_call"
            /\ tool' = [tool EXCEPT ![Head(toNode).arg] = "running"]
            /\ UNCHANGED <<callId, toPy, caller>>
        BY <2>1, <3>2 DEF HandleToolCall, NextLine, pyVars
      <4> DEFINE c == Head(toNode).arg
      <4>2. tool[c] = "idle" /\ c \in 1..callId /\ RequestsFresh'
        <5>1. /\ tool \in [Ids -> {"idle", "running"} \cup Finished]
              /\ Fresh(toNode, callId, tool)
          BY DEF CallInv, RequestsFresh, TypeOK
        <5>2. /\ tool[c] = "idle" /\ c \in 1..callId
              /\ Fresh(Tail(toNode), callId, [tool EXCEPT ![c] = "running"])
          BY <1>a, <4>1, <5>1, FreshTake
        <5>3. QED
          BY <4>1, <5>2 DEF RequestsFresh
      <4>a. tool \in [Ids -> {"idle", "running"} \cup Finished] /\ callId \in Nat
        BY <1>a DEF TypeOK
      <4>3. UnissuedIdle'
        <5>1. UnissuedIdle
          BY DEF CallInv
        <5>2. QED
          BY <4>a, <4>1, <4>2, <5>1 DEF UnissuedIdle, Ids
      <4>4. AnswersMatch'
        <5>1. AnswersMatch
          BY DEF CallInv
        <5>2. QED
          BY <4>a, <4>1, <4>2, <5>1 DEF AnswersMatch, Finished
      <4>5. AnswerMatchesTool'
        <5>1. AnswerMatchesTool
          BY DEF CallInv
        <5>2. QED
          BY <4>a, <4>1, <4>2, <5>1 DEF AnswerMatchesTool, Finished
      <4>6. QED
        BY <1>a, <4>2, <4>3, <4>4, <4>5 DEF CallInv
    <3>3. QED
      BY <3>1, <3>2
  <2>2. ASSUME NEW throws \in BOOLEAN, HandleProgress(throws) PROVE CallInv'
    BY <2>2, <1>a, <1>b, QuietStep DEF HandleProgress, NextLine, pyVars
  <2>3. CASE HandleStdout
    BY <2>3, <1>a, <1>b, QuietStep DEF HandleStdout, NextLine, pyVars
  <2>4. CASE HandleInvalid
    BY <2>4, <1>a, <1>b, QuietStep DEF HandleInvalid, NextLine, pyVars
  <2>5. CASE HandleComplete
    BY <2>5, <1>a, <1>b, QuietStep DEF HandleComplete, NextLine, pyVars
  <2>6. CASE HandleError
    BY <2>6, <1>a, <1>b, QuietStep DEF HandleError, NextLine, pyVars
  <2>7. CASE HandleMerged
    <3>1. UNCHANGED <<callId, tool, toPy, caller>>
      BY <2>7 DEF HandleMerged, pyVars
    <3>2. RequestsFresh'
      <4>1. CASE Len(toNode) > 1 /\ toNode' = Tail(Tail(toNode))
        BY <1>a, <3>1, <4>1, TakeTwo, FreshTail DEF CallInv, RequestsFresh
      <4>2. CASE toNode' = <<>>
        BY <4>2 DEF RequestsFresh, Fresh
      <4>3. QED
        BY <1>a, <2>7, <4>1, <4>2, MergedTakes
    <3>3. QED
      BY <1>a, <3>1, <3>2, QuietStep
  <2>8. QED
    BY <1>1, <2>1, <2>2, <2>3, <2>4, <2>5, <2>6, <2>7 DEF HandleLine
<1>2. CASE RunRejection
  BY <1>2, <1>a, <1>c, QuietStep DEF RunRejection, pyVars
<1>3. ASSUME NEW i \in Ids, NEW r \in Finished, FinishTool(i, r) PROVE CallInv'
  <2>1. /\ tool[i] = "running" /\ tool' = [tool EXCEPT ![i] = r]
        /\ UNCHANGED <<toNode, callId, caller>>
    BY <1>3 DEF FinishTool, pyVars
  <2> DEFINE a == [id |-> i, kind |-> AnswerKind(r)]
  <2>2. toPy' = Append(toPy, a) \/ toPy' = toPy
    BY <1>3 DEF FinishTool
  <2>3. RequestsFresh'
    <3>1. \A j \in Ids : tool[j] = "idle" => tool'[j] = "idle"
      BY <1>a, <2>1 DEF TypeOK
    <3>2. \A j \in 1..callId : j \in Ids
      BY <1>a, BoundsAssumption DEF TypeOK, Ids
    <3>3. QED
      BY <1>a, <2>1, <3>1, <3>2 DEF CallInv, RequestsFresh, Fresh
  <2>4. i <= callId /\ UnissuedIdle'
    BY <1>a, <2>1 DEF CallInv, UnissuedIdle, TypeOK, Ids
  <2>5. /\ tool'[i] = r
        /\ \A j \in Ids : tool[j] \in Finished => tool'[j] = tool[j]
    BY <1>a, <2>1 DEF TypeOK, Finished
  <2>6. toPy \in Seq(Answers) /\ a \in Answers /\ a.id = i
        /\ a.kind = AnswerKind(r)
    BY <1>a DEF TypeOK, Answers, AnswerKind
  <2>7. \A k \in DOMAIN toPy : /\ toPy[k].id \in Ids
                               /\ tool'[toPy[k].id] \in Finished
                               /\ toPy[k].kind = AnswerKind(tool'[toPy[k].id])
    <3> SUFFICES ASSUME NEW k \in DOMAIN toPy
                 PROVE  /\ toPy[k].id \in Ids
                        /\ tool'[toPy[k].id] \in Finished
                        /\ toPy[k].kind = AnswerKind(tool'[toPy[k].id])
      OBVIOUS
    <3>1. toPy[k] \in Answers
      BY <2>6
    <3>2. toPy[k].id \in Ids
      BY <3>1 DEF Answers
    <3>3. /\ tool[toPy[k].id] \in Finished
          /\ toPy[k].kind = AnswerKind(tool[toPy[k].id])
      BY DEF CallInv, AnswersMatch
    <3>4. QED
      BY <2>5, <3>2, <3>3
  <2>8. AnswersMatch'
    <3> HIDE DEF a
    <3>1. CASE toPy' = toPy
      BY <2>7, <3>1 DEF AnswersMatch
    <3>2. CASE toPy' = Append(toPy, a)
      <4>1. /\ DOMAIN toPy' = 1..(Len(toPy) + 1) /\ DOMAIN toPy = 1..Len(toPy)
            /\ Len(toPy) \in Nat /\ toPy'[Len(toPy) + 1] = a
            /\ \A k \in DOMAIN toPy : toPy'[k] = toPy[k]
        BY <2>6, <3>2, PutLine
      <4>2. QED
        BY <2>5, <2>6, <2>7, <4>1 DEF AnswersMatch
    <3>3. QED
      BY <2>2, <3>1, <3>2
  <2>9. AnswerMatchesTool'
    BY <2>1, <2>5 DEF CallInv, AnswerMatchesTool
  <2>10. QED
    BY <1>a, <2>3, <2>4, <2>8, <2>9 DEF CallInv
<1>4. CASE StderrData
  BY <1>4, <1>a, <1>c, QuietStep DEF StderrData, nodeVars
<1>5. CASE LineReaderClose
  BY <1>5, <1>a, <1>c, QuietStep DEF LineReaderClose, pyVars
<1>6. CASE ProcessExit
  BY <1>6, <1>a, <1>c, QuietStep DEF ProcessExit, pyVars
<1>7. CASE SpawnError
  BY <1>7, <1>a, <1>c, QuietStep DEF SpawnError, nodeVars
<1>8. CASE ExecutionTimeout
  BY <1>8, <1>a, <1>c, QuietStep DEF ExecutionTimeout, pyVars
<1>9. CASE Abort
  BY <1>9, <1>a, <1>c, QuietStep DEF Abort, pyVars
<1>10. CASE KillTimer
  BY <1>10, <1>a, <1>c, QuietStep DEF KillTimer, pyVars
<1>11. QED
  BY <1>1, <1>2, <1>3, <1>4, <1>5, <1>6, <1>7, <1>8, <1>9, <1>10 DEF NodeNext

\* CallInv is an inductive invariant of the bridge.
LEMMA CallInvariant == Spec => []CallInv
<1>1. Init => CallInv
  <2>1. Init => TypeOK
    BY TypeInit
  <2>2. QED
    BY <2>1 DEF Init, CallInv, RequestsFresh, Fresh, UnissuedIdle, AnswersMatch,
                AnswerMatchesTool
<1>2. CallInv /\ [Next]_vars => CallInv'
  <2>1. ASSUME CallInv, UNCHANGED vars PROVE CallInv'
    <3>1. TypeOK' /\ RequestsFresh'
      BY <2>1 DEF vars, pyVars, nodeVars, holders, CallInv, TypeOK, RequestsFresh
    <3>2. QED
      BY <2>1, <3>1, QuietStep DEF vars, pyVars, nodeVars
  <2>2. QED
    BY <2>1, PythonCallInv, NodeCallInv DEF Next
<1>3. QED
  BY <1>1, <1>2, PTL DEF Spec

\* No coroutine ever gets another call's answer, for any number of calls and
\* any interleaving of tools, timers and pipes.
THEOREM AnswersCorrelate == Spec => []AnswerMatchesTool
<1>1. CallInv => AnswerMatchesTool
  BY DEF CallInv
<1>2. QED
  BY <1>1, CallInvariant, PTL

-----------------------------------------------------------------------------
(* A tool runs at most once per call *)

ToolStep == \A i \in Ids : tool[i] # "idle" =>
              \/ tool'[i] = tool[i]
              \/ tool[i] = "running" /\ tool'[i] \in Finished

\* Only a fresh call starts a tool, only a running tool finishes.
LEMMA ToolSteps == CallInv /\ [Next]_vars => ToolStep
<1> SUFFICES ASSUME CallInv, [Next]_vars PROVE ToolStep
  OBVIOUS
<1>1. ASSUME UNCHANGED tool PROVE ToolStep
  BY <1>1 DEF ToolStep
<1>2. CASE PythonNext
  <2>1. UNCHANGED tool
    BY <1>2 DEF PythonNext, IssueCall, ProxyWrite, Progress, RawText, Inherit,
       SubprocessEnds, CloseStdout, ReturnValue, RaiseException, RaiseSystemExit,
       Exit, KernelKill, HandleResponse, ReaderFails, ExpireCall, ResumeExpired,
       CancelCall, nodeVars
  <2>2. QED
    BY <1>1, <2>1
<1>3. CASE NodeNext
  <2>1. ASSUME NEW throws \in BOOLEAN, HandleToolCall(throws) PROVE ToolStep
    <3>1. CASE throws = TRUE
      BY <1>1, <2>1, <3>1 DEF HandleToolCall
    <3>2. CASE throws = FALSE
      <4>1. /\ toNode # <<>> /\ Head(toNode).type = "tool_call"
            /\ tool' = [tool EXCEPT ![Head(toNode).arg] = "running"]
        BY <2>1, <3>2 DEF HandleToolCall, NextLine
      <4>2. tool[Head(toNode).arg] = "idle"
        <5>1. toNode \in Seq(Frames) /\ callId \in Nat
              /\ tool \in [Ids -> {"idle", "running"} \cup Finished]
              /\ Fresh(toNode, callId, tool)
          BY DEF CallInv, TypeOK, RequestsFresh
        <5>2. QED
          BY <4>1, <5>1, FreshTake
      <4>3. QED
        BY <4>1, <4>2 DEF ToolStep, CallInv, TypeOK
    <3>3. QED
      BY <3>1, <3>2
  <2>2. ASSUME NEW i \in Ids, NEW r \in Finished, FinishTool(i, r) PROVE ToolStep
    BY <2>2 DEF FinishTool, ToolStep, CallInv, TypeOK
  <2>3. \/ \E throws \in BOOLEAN : HandleToolCall(throws)
        \/ \E i \in Ids, r \in Finished : FinishTool(i, r)
        \/ UNCHANGED tool
    BY <1>3 DEF NodeNext, HandleLine, HandleProgress, HandleStdout,
       HandleInvalid, HandleMerged, HandleComplete, HandleError, RunRejection,
       StderrData,
       LineReaderClose, ProcessExit, SpawnError, ExecutionTimeout, Abort,
       KillTimer, nodeVars
  <2>4. QED
    BY <1>1, <2>1, <2>2, <2>3
<1>4. CASE UNCHANGED vars
  BY <1>1, <1>4 DEF vars, nodeVars
<1>5. QED
  BY <1>2, <1>3, <1>4 DEF Next

\* Whatever is retried, buffered or delayed, a nested call executes its tool at
\* most once.
THEOREM ToolsRunOnce == Spec => ToolRunsAtMostOnce
<1>1. CallInv /\ [Next]_vars => [ToolStep]_vars
  BY ToolSteps
<1>2. Spec => [][ToolStep]_vars
  BY <1>1, CallInvariant, PTL DEF Spec
<1>3. QED
  BY <1>2 DEF ToolRunsAtMostOnce, ToolStep

-----------------------------------------------------------------------------
(* pending_calls *)

PendingInv == TypeOK /\ PendingIsExact

\* The steps that touch neither pending_calls nor a caller keep PendingIsExact.
LEMMA PendingQuiet ==
  ASSUME PendingIsExact, UNCHANGED <<pendingCalls, caller>>
  PROVE  PendingIsExact'
  BY DEF PendingIsExact

\* Every Python step keeps the table exact.
LEMMA PythonPending == PendingInv /\ PythonNext => PendingIsExact'
<1> SUFFICES ASSUME PendingInv, PythonNext PROVE PendingIsExact'
  OBVIOUS
<1>1. CASE IssueCall
  BY <1>1, BoundsAssumption DEF IssueCall, PendingInv, PendingIsExact, TypeOK, Ids
<1>2. CASE HandleResponse
  <2>1. toPy \in Seq(Answers) /\ toPy # <<>>
    BY <1>2 DEF HandleResponse, PendingInv, TypeOK
  <2>2. Head(toPy) \in Answers
    BY <2>1, TakeLine
  <2>3. Head(toPy).id \in Ids /\ Head(toPy).kind \in {"ok", "err"}
    BY <1>2, <2>2 DEF HandleResponse, Answers
  <2>4. QED
    BY <1>2, <2>3 DEF HandleResponse, PendingInv, PendingIsExact, TypeOK
<1>3. CASE ReaderFails
  BY <1>3 DEF ReaderFails, PendingInv, PendingIsExact, TypeOK
<1>4. ASSUME NEW i \in Ids, ExpireCall(i) PROVE PendingIsExact'
  BY <1>4 DEF ExpireCall, PendingInv, PendingIsExact, TypeOK
<1>5. ASSUME NEW i \in Ids, ResumeExpired(i) PROVE PendingIsExact'
  BY <1>5 DEF ResumeExpired, PendingInv, PendingIsExact, TypeOK
<1>6. ASSUME NEW i \in Ids, CancelCall(i) PROVE PendingIsExact'
  BY <1>6 DEF CancelCall, PendingInv, PendingIsExact, TypeOK
<1>7. CASE UNCHANGED <<pendingCalls, caller>>
  BY <1>7, PendingQuiet DEF PendingInv
<1>8. QED
  BY <1>1, <1>2, <1>3, <1>4, <1>5, <1>6, <1>7 DEF PythonNext, ProxyWrite,
     Progress, RawText, Inherit, SubprocessEnds, CloseStdout, ReturnValue,
     RaiseException, RaiseSystemExit, Exit, KernelKill

\* No call is dropped from pending_calls while its coroutine waits, and none
\* stays there once its coroutine has resumed but a call that user code has
\* cancelled, for any number of calls.
THEOREM PendingCallsExact == Spec => []PendingIsExact
<1>1. Init => PendingInv
  <2>1. Init => PendingIsExact
    BY DEF Init, PendingIsExact
  <2>2. QED
    BY <2>1, TypeInit DEF PendingInv
<1>2. PendingInv /\ [Next]_vars => PendingIsExact'
  <2>1. ASSUME PendingInv, NodeNext PROVE PendingIsExact'
    <3>1. UNCHANGED <<pendingCalls, caller>>
      BY <2>1 DEF NodeNext, HandleLine, HandleToolCall, HandleProgress,
         HandleStdout, HandleInvalid, HandleMerged, HandleComplete, HandleError,
         RunRejection,
         FinishTool, StderrData, LineReaderClose, ProcessExit, SpawnError,
         ExecutionTimeout, Abort, KillTimer, pyVars
    <3>2. QED
      BY <2>1, <3>1, PendingQuiet DEF PendingInv
  <2>2. ASSUME PendingInv, UNCHANGED vars PROVE PendingIsExact'
    BY <2>2, PendingQuiet DEF PendingInv, vars, pyVars
  <2>3. QED
    BY <2>1, <2>2, PythonPending DEF Next
<1>3. PendingInv /\ [Next]_vars => TypeOK'
  BY PythonTypeOK, NodeTypeOK DEF PendingInv, Next, TypeOK, vars, pyVars, nodeVars,
     holders
<1>4. PendingInv /\ [Next]_vars => PendingInv'
  BY <1>2, <1>3 DEF PendingInv
<1>5. PendingInv => PendingIsExact
  BY DEF PendingInv
<1>6. QED
  BY <1>1, <1>4, <1>5, PTL DEF Spec

=============================================================================
