----------------------------- MODULE Orchestration -----------------------------
(***************************************************************************)
(* The helpers of ptc that make several tool calls (python-runtime/        *)
(* runtime.py), as a program uses them, one after the other: gather_limit, *)
(* batch_tool, which collects errors or raises, read_many, first_success.  *)
(* reduce_tool is batch_tool and a fold over what it returns.              *)
(*                                                                         *)
(* asyncio runs one task at a time; a call is sent in the step that passes *)
(* the semaphore, and answered in any order (RpcBridge says how).  When    *)
(* the program is over, asyncio.run cancels what it has left behind.       *)
(***************************************************************************)
EXTENDS Integers, Sequences, FiniteSets

CONSTANTS MaxHelpers,      \* bound on the helpers a program uses
          Sizes,           \* numbers of calls a helper is given
          Limits,          \* max_concurrency, {} for None
          max_parallel_tool_calls

ASSUME OrchestrationAssumption ==
  /\ MaxHelpers \in Nat /\ Sizes \subseteq Nat /\ max_parallel_tool_calls \in Nat \ {0}
  /\ \A l \in Limits : l \subseteq Int /\ Cardinality(l) <= 1

VARIABLES
  at,        \* the helper the program is at, 0 before the first
  helper,    \* per helper: which one it is
  width,     \* the value of its semaphore
  calls,     \* its calls in the order given: "queued", "calling", how they were
             \* answered ("value", a tool's error as "payload", "exception") or
             \* "cancelled"
  answered,  \* until it settles: the numbers of the calls answered, in the order
             \* of the answers
  verdict,   \* what the helper has told the program
  ended      \* the program is over

vars == <<at, helper, width, calls, answered, verdict, ended>>

Helpers == {"gather_limit", "batch_tool", "collect", "read_many", "first_success"}
Ids == 1..MaxHelpers
Answers == {"value", "payload", "exception"}

Pending == [tag |-> "none", of |-> 0, entries |-> <<>>]
Raised(i) == [tag |-> "raised", of |-> i, entries |-> <<>>]
Returned(entries) == [tag |-> "returned", of |-> 0, entries |-> entries]
Settled(h) == verdict[h].tag # "none"

In(h, states) == {i \in DOMAIN calls[h] : calls[h][i] \in states}
Done(h) == In(h, Answers) = DOMAIN calls[h]

AtLeast(n, least) == IF n < least THEN least ELSE n

Init ==
  /\ at = 0 /\ ended = FALSE
  /\ helper = [h \in Ids |-> "gather_limit"] /\ width = [h \in Ids |-> 1]
  /\ calls = [h \in Ids |-> <<>>] /\ answered = [h \in Ids |-> <<>>]
  /\ verdict = [h \in Ids |-> Pending]

-----------------------------------------------------------------------------
(* Limits *)

\* Faulty variant: only None stands for the default.
GatherWidthOfNone(limit) ==
  IF limit = {} THEN max_parallel_tool_calls ELSE CHOOSE n \in limit : TRUE

\* gather_limit: zero is as good as None, and what is negative counts as one.
GatherWidth(limit) ==
  LET given == limit \ {0}
  IN AtLeast(IF given = {} THEN max_parallel_tool_calls ELSE CHOOSE n \in given : TRUE, 1)

\* _normalize_orchestration_limit; first_success asks it and goes one by one.
Invalid(kind, limit) ==
  kind \in {"batch_tool", "collect", "first_success"} /\ \E n \in limit : n < 1

\* batch_tool returns before it looks at the limit if it is given no calls,
\* first_success wants at least one.
Refuses(kind, size, limit) ==
  IF size = 0 THEN kind = "first_success" ELSE Invalid(kind, limit)

-----------------------------------------------------------------------------
(* Steps *)

\* The program calls a helper, unless it awaits one.
Use(kind, size, limit) ==
  /\ ~ended /\ at < MaxHelpers /\ (at > 0 => Settled(at))
  /\ at' = at + 1
  /\ helper' = [helper EXCEPT ![at + 1] = kind]
  /\ width' = [width EXCEPT ![at + 1] =
                 IF kind = "first_success" THEN 1 ELSE GatherWidth(limit)]
  /\ IF Refuses(kind, size, limit)
     THEN /\ verdict' = [verdict EXCEPT ![at + 1] = Raised(0)]
          /\ UNCHANGED calls
     ELSE /\ calls' = [calls EXCEPT ![at + 1] = [i \in 1..size |-> "queued"]]
          /\ UNCHANGED verdict
  /\ UNCHANGED <<answered, ended>>

\* The tasks pass the semaphore in order; first_success makes another call when
\* all so far have raised.
IsNext(h, i) ==
  /\ i \in In(h, {"queued"}) /\ \A j \in In(h, {"queued"}) : i <= j
  /\ helper[h] = "first_success" => \A j \in 1..i - 1 : calls[h][j] = "exception"

Send(h, i) ==
  /\ calls' = [calls EXCEPT ![h][i] = "calling"]
  /\ UNCHANGED <<at, helper, width, answered, verdict, ended>>

\* Faulty variant: a call that is answered does not release the semaphore.
CallWithoutRelease(h) ==
  \E i \in DOMAIN calls[h] :
    /\ ~ended /\ IsNext(h, i) /\ i <= width[h]
    /\ Send(h, i)

\* Faulty variant: each call counts the others that are in flight.
CallOneTooMany(h) ==
  \E i \in DOMAIN calls[h] :
    /\ ~ended /\ IsNext(h, i) /\ Cardinality(In(h, {"calling"})) <= width[h]
    /\ Send(h, i)

\* Faulty variant: first_success goes by the number of calls made.
CallRegardless(h) ==
  \E i \in DOMAIN calls[h] :
    /\ ~ended /\ i \in In(h, {"queued"}) /\ \A j \in In(h, {"queued"}) : i <= j
    /\ Cardinality(In(h, {"calling"})) < width[h]
    /\ Send(h, i)

Call(h) ==
  \E i \in DOMAIN calls[h] :
    /\ ~ended /\ IsNext(h, i) /\ Cardinality(In(h, {"calling"})) < width[h]
    /\ Send(h, i)

\* Node answers, or the client's 300 seconds are over.
Answer(h, i, how) ==
  /\ ~ended /\ i \in In(h, {"calling"})
  /\ calls' = [calls EXCEPT ![h][i] = how]
  /\ answered' = [answered EXCEPT ![h] = IF Settled(h) THEN @ ELSE Append(@, i)]
  /\ UNCHANGED <<at, helper, width, verdict, ended>>

Failed(h) == In(h, {"exception"})

\* The first in time to raise, of a gather none of whose coroutines catches.
FirstFailed(h) ==
  {answered[h][k] : k \in {k \in DOMAIN answered[h] :
                             /\ answered[h][k] \in Failed(h)
                             /\ \A j \in 1..k - 1 : answered[h][j] \notin Failed(h)}}
RaisesAtOnce(kind) == kind \in {"gather_limit", "batch_tool"}

\* Only collect looks into a value for a tool's error.
IsOk(h, i) ==
  IF helper[h] = "collect" THEN calls[h][i] = "value" ELSE calls[h][i] # "exception"

\* Faulty variant: the results are listed as they came.
EntriesAsAnswered(h) ==
  [k \in DOMAIN calls[h] |-> [index |-> k, ok |-> IsOk(h, answered[h][k])]]

\* gather lists the results in the order of the coroutines.
Entries(h) == [i \in DOMAIN calls[h] |-> [index |-> i, ok |-> IsOk(h, i)]]

\* Faulty variant: collect raises as well.
OutcomeRaises(h) ==
  IF Failed(h) # {} THEN {Raised(i) : i \in FirstFailed(h)}
  ELSE IF Done(h) THEN {Returned(Entries(h))} ELSE {}

Outcome(h) ==
  IF helper[h] = "first_success"
  THEN {Returned(<<[index |-> i, ok |-> TRUE]>>) : i \in In(h, {"value", "payload"})}
       \cup (IF Failed(h) = DOMAIN calls[h] THEN {Raised(0)} ELSE {})
  ELSE IF RaisesAtOnce(helper[h]) /\ Failed(h) # {} THEN {Raised(i) : i \in FirstFailed(h)}
  ELSE IF Done(h) THEN {Returned(Entries(h))} ELSE {}

\* The program goes on with what the helper returns or raises.
Settle ==
  /\ ~ended /\ at > 0 /\ ~Settled(at)
  /\ \E o \in Outcome(at) : verdict' = [verdict EXCEPT ![at] = o]
  /\ answered' = [answered EXCEPT ![at] = <<>>]
  /\ UNCHANGED <<at, helper, width, calls, ended>>

\* The program returns, or does not catch what a helper has raised.
End ==
  /\ ~ended /\ (at > 0 => Settled(at))
  /\ ended' = TRUE
  /\ calls' = [h \in Ids |-> [i \in DOMAIN calls[h] |->
                 IF calls[h][i] \in Answers THEN calls[h][i] ELSE "cancelled"]]
  /\ UNCHANGED <<at, helper, width, answered, verdict>>

Next ==
  \/ \E kind \in Helpers, size \in Sizes, limit \in Limits : Use(kind, size, limit)
  \/ \E h \in Ids : Call(h)
  \/ \E h \in Ids : \E i \in DOMAIN calls[h], how \in Answers : Answer(h, i, how)
  \/ Settle \/ End

Spec == Init /\ [][Next]_vars

\* asyncio runs every task that can run, and a call is answered within 300
\* seconds if only by the client's own timeout.
Fairness ==
  /\ WF_vars(Settle)
  /\ \A h \in Ids :
       /\ WF_vars(Call(h))
       /\ WF_vars(\E i \in DOMAIN calls[h], how \in Answers : Answer(h, i, how))

FairSpec == Spec /\ Fairness

-----------------------------------------------------------------------------
(* Properties *)

\* Every variable has its type (the helpers' lists and gather_limit's semaphore).
TypeOK ==
  /\ at \in 0..MaxHelpers /\ ended \in BOOLEAN
  /\ \A h \in Ids :
       /\ helper[h] \in Helpers /\ width[h] \in Nat \ {0}
       /\ Len(calls[h]) \in Sizes \cup {0}
       /\ \A i \in DOMAIN calls[h] :
            calls[h][i] \in Answers \cup {"queued", "calling", "cancelled"}
       /\ \A k \in DOMAIN answered[h] : answered[h][k] \in DOMAIN calls[h]
       /\ verdict[h].tag \in {"none", "returned", "raised"} /\ verdict[h].of \in Nat

\* While no helper has raised, the tool calls of the whole program in flight are
\* at most the limit of the helper it is at: no helper that returns leaves a call
\* behind.  One that raises does (gather does not cancel the others).
HasRaised(h) == verdict[h].tag = "raised" /\ RaisesAtOnce(helper[h])
InFlight == UNION {{<<h, i>> : i \in In(h, {"calling"})} : h \in Ids}
LimitHolds ==
  (\A h \in Ids : ~HasRaised(h)) =>
    \/ InFlight = {}
    \/ at > 0 /\ Cardinality(InFlight) <= width[at] /\ \A c \in InFlight : c[1] = at

\* What a helper returns has one entry per call, in the order of the calls, and
\* each says of its own call whether it has succeeded, in whatever order they
\* were answered (README, on read_many and batch_tool).
ResultsMatchCalls ==
  \A h \in Ids :
    verdict[h].tag = "returned" /\ helper[h] # "first_success" =>
      /\ Len(verdict[h].entries) = Len(calls[h])
      /\ \A k \in DOMAIN verdict[h].entries :
           /\ verdict[h].entries[k].index = k
           /\ verdict[h].entries[k].ok <=>
                \/ calls[h][k] = "value"
                \/ calls[h][k] = "payload" /\ helper[h] # "collect"

\* Helpers that collect never raise for a call that fails (README, "instead of
\* raising on first failure"); the others name one that has failed, and return
\* only if none has.
FailuresAreReported ==
  \A h \in Ids :
    /\ helper[h] \in {"collect", "read_many"} /\ In(h, Answers) # {} =>
         verdict[h].tag # "raised"
    /\ HasRaised(h) /\ verdict[h].of > 0 => calls[h][verdict[h].of] = "exception"
    /\ RaisesAtOnce(helper[h]) /\ verdict[h].tag = "returned" =>
         In(h, {"exception"}) = {}

\* first_success makes no call once one has succeeded, nor two at a time.
FirstSuccessIsLast ==
  \A h \in Ids : helper[h] = "first_success" =>
    \A i \in In(h, {"calling", "value", "payload"}) :
      \A j \in DOMAIN calls[h] :
        /\ j < i => calls[h][j] = "exception"
        /\ j > i => calls[h][j] \in {"queued", "cancelled"}

\* Every helper comes to an end, whatever its limit: the semaphore is released by
\* every call, those that raise among them.
HelpersSettle == \A h \in Ids : at = h ~> Settled(h)

=============================================================================
