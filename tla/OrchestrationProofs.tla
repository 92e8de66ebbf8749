-------------------------- MODULE OrchestrationProofs --------------------------
(***************************************************************************)
(* Theorems about Orchestration for every number of helpers, calls and     *)
(* limits.                                                                 *)
(***************************************************************************)
EXTENDS Orchestration, FiniteSetTheorems, TLAPS

States == Answers \cup {"queued", "calling", "cancelled"}
Started == Answers \cup {"calling"}
Verdicts == [tag : {"none", "returned", "raised"}, of : Nat,
             entries : Seq([index : Nat, ok : BOOLEAN])]

\* The types in full: the lists are lists, whatever they hold.
Shape ==
  /\ at \in 0..MaxHelpers /\ ended \in BOOLEAN
  /\ helper \in [Ids -> Helpers] /\ width \in [Ids -> Nat \ {0}]
  /\ calls \in [Ids -> Seq(States)] /\ answered \in [Ids -> Seq(Nat)]
  /\ verdict \in [Ids -> Verdicts]
  /\ \A h \in Ids :
       /\ Len(calls[h]) \in Sizes \cup {0}
       /\ \A k \in DOMAIN answered[h] : answered[h][k] \in DOMAIN calls[h]

\* The program has not come to the later helpers, and is done with the earlier.
NotYet == \A h \in Ids : h > at =>
  calls[h] = <<>> /\ answered[h] = <<>> /\ verdict[h] = Pending
Before == \A h \in Ids : h < at => Settled(h)

\* first_success makes a call once all before it have raised.
InOrder(h) == helper[h] = "first_success" =>
  \A i \in In(h, Started) : \A j \in 1..i - 1 : calls[h][j] = "exception"

\* The semaphore.
Bounded(h) == Cardinality(In(h, {"calling"})) <= width[h]

\* Nothing is left to be called, or first_success has what it wanted.
Over(h) ==
  \/ In(h, {"queued", "calling"}) = {}
  \/ helper[h] = "first_success" /\ In(h, {"value", "payload"}) # {}

\* What a verdict says of the calls, and the calls never take back.
Told(h) ==
  /\ Settled(h) /\ ~HasRaised(h) => Over(h)
  /\ helper[h] \in {"collect", "read_many"} /\ verdict[h].tag = "raised" => calls[h] = <<>>
  /\ HasRaised(h) /\ verdict[h].of > 0 => verdict[h].of \in Failed(h)
  /\ RaisesAtOnce(helper[h]) /\ verdict[h].tag = "returned" => Failed(h) = {}
  /\ verdict[h].tag = "returned" /\ helper[h] # "first_success" =>
       /\ Done(h)
       /\ Len(verdict[h].entries) = Len(calls[h])
       /\ \A k \in DOMAIN verdict[h].entries :
            /\ verdict[h].entries[k].index = k
            /\ verdict[h].entries[k].ok <=>
                 \/ calls[h][k] = "value"
                 \/ calls[h][k] = "payload" /\ helper[h] # "collect"

Good(h) == InOrder(h) /\ Bounded(h) /\ Told(h)

HelpersInv == Shape /\ NotYet /\ Before /\ \A h \in Ids : Good(h)

-----------------------------------------------------------------------------
(* The lists of calls *)

\* The calls in some states are finitely many.
LEMMA FewCalls ==
  ASSUME NEW q \in Seq(States), NEW T
  PROVE  IsFiniteSet({i \in DOMAIN q : q[i] \in T})
<1>1. IsFiniteSet(1..Len(q))
  BY FS_Interval
<1>2. {i \in DOMAIN q : q[i] \in T} \in SUBSET (1..Len(q))
  OBVIOUS
<1>3. QED
  BY <1>1, <1>2, FS_Subset

\* Changing the state of one call changes nothing else in the lists.
LEMMA SetCall ==
  ASSUME Shape, NEW h \in Ids, NEW i \in DOMAIN calls[h], NEW v \in States,
         calls' = [calls EXCEPT ![h][i] = v]
  PROVE  /\ calls' \in [Ids -> Seq(States)]
         /\ \A g \in Ids : /\ Len(calls'[g]) = Len(calls[g])
                           /\ DOMAIN calls'[g] = DOMAIN calls[g]
                           /\ g # h => calls'[g] = calls[g]
         /\ calls'[h][i] = v
         /\ \A j \in DOMAIN calls[h] : j # i => calls'[h][j] = calls[h][j]
<1> DEFINE c == [calls[h] EXCEPT ![i] = v]
<1>1. calls \in [Ids -> Seq(States)] /\ calls[h] \in Seq(States)
  BY DEF Shape
<1>2. calls' = [calls EXCEPT ![h] = c]
  OBVIOUS
<1>3. /\ c \in Seq(States) /\ Len(c) = Len(calls[h]) /\ DOMAIN c = DOMAIN calls[h]
      /\ c[i] = v /\ \A j \in DOMAIN calls[h] : j # i => c[j] = calls[h][j]
  BY <1>1
<1> HIDE DEF c
<1>4. QED
  BY <1>1, <1>2, <1>3

\* The end of the program leaves the calls that were answered.
LEMMA EndCalls ==
  ASSUME Shape, End
  PROVE  /\ calls' \in [Ids -> Seq(States)]
         /\ \A g \in Ids : /\ Len(calls'[g]) = Len(calls[g])
                           /\ DOMAIN calls'[g] = DOMAIN calls[g]
                           /\ \A i \in DOMAIN calls[g] :
                                calls'[g][i] = IF calls[g][i] \in Answers
                                               THEN calls[g][i] ELSE "cancelled"
<1>1. ASSUME NEW g \in Ids
      PROVE  /\ calls'[g] = [i \in DOMAIN calls[g] |->
                  IF calls[g][i] \in Answers THEN calls[g][i] ELSE "cancelled"]
             /\ calls[g] \in Seq(States)
  BY DEF End, Shape
<1>2. ASSUME NEW g \in Ids
      PROVE  /\ calls'[g] \in Seq(States)
             /\ Len(calls'[g]) = Len(calls[g]) /\ DOMAIN calls'[g] = DOMAIN calls[g]
             /\ \A i \in DOMAIN calls[g] :
                  calls'[g][i] = IF calls[g][i] \in Answers THEN calls[g][i] ELSE "cancelled"
  <2> DEFINE c == [i \in 1..Len(calls[g]) |->
                     IF calls[g][i] \in Answers THEN calls[g][i] ELSE "cancelled"]
  <2>1. calls'[g] = c /\ Len(calls[g]) \in Nat /\ DOMAIN calls[g] = 1..Len(calls[g])
    BY <1>1, <1>2
  <2>2. c \in [1..Len(calls[g]) -> States]
    BY <1>1, <1>2 DEF States
  <2>3. c \in Seq(States) /\ Len(c) = Len(calls[g])
    BY <2>1, <2>2
  <2>4. QED
    BY <2>1, <2>3
<1>3. calls' \in [Ids -> Seq(States)]
  BY <1>2 DEF End
<1>4. QED
  BY <1>2, <1>3

\* GatherWidth is never less than one.
LEMMA WidthIsPositive == ASSUME NEW limit \in Limits PROVE GatherWidth(limit) \in Nat \ {0}
<1> DEFINE given == limit \ {0}
           n == IF given = {} THEN max_parallel_tool_calls ELSE CHOOSE m \in given : TRUE
<1>1. n \in Int
  <2>1. CASE given = {}
    BY <2>1, OrchestrationAssumption
  <2>2. CASE given # {}
    <3>1. given \subseteq Int
      BY OrchestrationAssumption
    <3>2. n \in given
      BY <2>2
    <3>3. QED
      BY <3>1, <3>2
  <2>3. QED
    BY <2>1, <2>2
<1>2. GatherWidth(limit) = AtLeast(n, 1)
  BY DEF GatherWidth
<1> HIDE DEF n
<1>3. QED
  BY <1>1, <1>2 DEF AtLeast

\* What using a helper changes: the next helper, which gets its calls, or none
\* and an exception.
LEMMA UseEffect ==
  ASSUME Shape, NotYet, NEW kind \in Helpers, NEW size \in Sizes, NEW limit \in Limits,
         Use(kind, size, limit)
  PROVE  /\ at + 1 \in Ids /\ at' = at + 1 /\ (at > 0 => Settled(at))
         /\ UNCHANGED <<answered, ended>>
         /\ helper' \in [Ids -> Helpers] /\ width' \in [Ids -> Nat \ {0}]
         /\ calls' \in [Ids -> Seq(States)] /\ verdict' \in [Ids -> Verdicts]
         /\ helper'[at + 1] = kind
         /\ \A g \in Ids : g # at + 1 =>
              /\ helper'[g] = helper[g] /\ width'[g] = width[g]
              /\ calls'[g] = calls[g] /\ verdict'[g] = verdict[g]
         /\ Len(calls'[at + 1]) \in Sizes \cup {0}
         /\ \A i \in DOMAIN calls'[at + 1] : calls'[at + 1][i] = "queued"
         /\ \/ verdict'[at + 1] = Pending
            \/ verdict'[at + 1] = Raised(0) /\ calls'[at + 1] = <<>>
         /\ verdict[at + 1] = Pending /\ answered[at + 1] = <<>>
<1> DEFINE n == at + 1
           q == [i \in 1..size |-> "queued"]
           w == IF kind = "first_success" THEN 1 ELSE GatherWidth(limit)
<1>1. n \in Ids /\ n > at /\ calls[n] = <<>> /\ verdict[n] = Pending /\ answered[n] = <<>>
  <2>1. n \in Ids /\ n > at
    BY OrchestrationAssumption DEF Use, Ids, Shape
  <2>2. QED
    BY <2>1 DEF NotYet
<1>2. w \in Nat \ {0}
  BY WidthIsPositive
<1>3. size \in Nat /\ q \in Seq(States) /\ Len(q) = size /\ DOMAIN q = 1..size
      /\ \A i \in DOMAIN q : q[i] = "queued"
  <2>1. size \in Nat
    BY OrchestrationAssumption
  <2>2. q \in [1..size -> States]
    BY DEF States
  <2>3. QED
    BY <2>1, <2>2
<1>4. Raised(0) \in Verdicts /\ Pending \in Verdicts
  BY DEF Raised, Pending, Verdicts
<1>5. /\ at' = n /\ (at > 0 => Settled(at)) /\ UNCHANGED <<answered, ended>>
      /\ helper' = [helper EXCEPT ![n] = kind] /\ width' = [width EXCEPT ![n] = w]
  BY DEF Use
<1>6. \/ verdict' = [verdict EXCEPT ![n] = Raised(0)] /\ UNCHANGED calls
      \/ calls' = [calls EXCEPT ![n] = q] /\ UNCHANGED verdict
  BY DEF Use
<1>7. /\ calls \in [Ids -> Seq(States)] /\ verdict \in [Ids -> Verdicts]
      /\ helper \in [Ids -> Helpers] /\ width \in [Ids -> Nat \ {0}]
  BY DEF Shape
<1> HIDE DEF n, q, w
<1>8. /\ helper' \in [Ids -> Helpers] /\ width' \in [Ids -> Nat \ {0}]
      /\ helper'[n] = kind
      /\ \A g \in Ids : g # n => helper'[g] = helper[g] /\ width'[g] = width[g]
  BY <1>1, <1>2, <1>5, <1>7
<1>9. CASE verdict' = [verdict EXCEPT ![n] = Raised(0)] /\ UNCHANGED calls
  <2>1. /\ calls' \in [Ids -> Seq(States)] /\ verdict' \in [Ids -> Verdicts]
        /\ \A g \in Ids : g # n => calls'[g] = calls[g] /\ verdict'[g] = verdict[g]
        /\ verdict'[n] = Raised(0) /\ calls'[n] = <<>>
    BY <1>1, <1>4, <1>7, <1>9
  <2>2. Len(calls'[n]) = 0 /\ DOMAIN calls'[n] = {}
    BY <2>1
  <2>3. QED
    BY <1>1, <1>5, <1>8, <2>1, <2>2 DEF n
<1>10. CASE calls' = [calls EXCEPT ![n] = q] /\ UNCHANGED verdict
  <2>1. /\ calls' \in [Ids -> Seq(States)] /\ verdict' \in [Ids -> Verdicts]
        /\ \A g \in Ids : g # n => calls'[g] = calls[g] /\ verdict'[g] = verdict[g]
        /\ verdict'[n] = Pending /\ calls'[n] = q
    BY <1>1, <1>3, <1>7, <1>10
  <2>2. QED
    BY <1>1, <1>3, <1>5, <1>8, <2>1 DEF n
<1>11. QED
  BY <1>6, <1>9, <1>10

-----------------------------------------------------------------------------
(* Shape *)

\* The ways in which a helper settles.
LEMMA OutcomeCases ==
  ASSUME NEW h \in Ids, NEW o \in Outcome(h)
  PROVE  \/ /\ helper[h] = "first_success"
            /\ \E i \in In(h, {"value", "payload"}) : o = Returned(<<[index |-> i, ok |-> TRUE]>>)
         \/ helper[h] = "first_success" /\ Failed(h) = DOMAIN calls[h] /\ o = Raised(0)
         \/ RaisesAtOnce(helper[h]) /\ \E i \in Failed(h) : o = Raised(i)
         \/ /\ helper[h] # "first_success" /\ Done(h) /\ o = Returned(Entries(h))
            /\ RaisesAtOnce(helper[h]) => Failed(h) = {}
<1>1. FirstFailed(h) \subseteq Failed(h)
  BY DEF FirstFailed
<1>2. CASE helper[h] = "first_success"
  <2>1. \/ o \in {Returned(<<[index |-> i, ok |-> TRUE]>>) : i \in In(h, {"value", "payload"})}
        \/ Failed(h) = DOMAIN calls[h] /\ o = Raised(0)
    BY <1>2, Zenon DEF Outcome
  <2>2. QED
    BY <1>2, <2>1, Zenon
<1>3. CASE helper[h] # "first_success" /\ RaisesAtOnce(helper[h]) /\ Failed(h) # {}
  <2>1. o \in {Raised(i) : i \in FirstFailed(h)}
    BY <1>3, Zenon DEF Outcome
  <2>2. QED
    BY <1>1, <1>3, <2>1, Zenon
<1>4. CASE helper[h] # "first_success" /\ ~(RaisesAtOnce(helper[h]) /\ Failed(h) # {})
  <2>1. o \in (IF Done(h) THEN {Returned(Entries(h))} ELSE {})
    BY <1>4, Zenon DEF Outcome
  <2>2. Done(h) /\ o = Returned(Entries(h))
    BY <2>1, Zenon
  <2>3. QED
    BY <1>4, <2>2, Zenon
<1>5. QED
  BY <1>2, <1>3, <1>4, Zenon

\* What a helper may tell is a verdict.
LEMMA OutcomeType ==
  ASSUME Shape, NEW h \in Ids, NEW o \in Outcome(h)
  PROVE  o \in Verdicts
<1> DEFINE E == [index : Nat, ok : BOOLEAN]
           n == Len(calls[h])
<1>1. n \in Nat /\ DOMAIN calls[h] = 1..n
  BY DEF Shape
<1>2. \A i \in Nat : Raised(i) \in Verdicts
  BY DEF Raised, Verdicts
<1>3. \A i \in DOMAIN calls[h] : IsOk(h, i) \in BOOLEAN
  BY DEF IsOk
<1>4. Entries(h) \in [1..n -> E]
  BY <1>1, <1>3 DEF Entries
<1>5. \A i \in Nat : <<[index |-> i, ok |-> TRUE]>> \in Seq(E)
  OBVIOUS
<1>6. \A i \in DOMAIN calls[h] : i \in Nat
  BY <1>1
<1>7. Entries(h) \in Seq(E)
  <2> HIDE DEF n, E
  <2>1. QED
    BY <1>1, <1>4
<1> HIDE DEF n
<1>8. \A s \in Seq(E) : Returned(s) \in Verdicts
  BY DEF Returned, Verdicts
<1> HIDE DEF E
<1>9. /\ \A i \in Failed(h) : Raised(i) \in Verdicts
      /\ \A i \in In(h, {"value", "payload"}) : Returned(<<[index |-> i, ok |-> TRUE]>>) \in Verdicts
      /\ Raised(0) \in Verdicts /\ Returned(Entries(h)) \in Verdicts
  BY <1>2, <1>5, <1>6, <1>7, <1>8 DEF Failed, In
<1>10. QED
  BY <1>9, OutcomeCases, Zenon

\* Every step keeps the shape of the lists.
LEMMA ShapeStep == Shape /\ NotYet /\ [Next]_vars => Shape'
<1> SUFFICES ASSUME Shape, NotYet, [Next]_vars PROVE Shape'
  OBVIOUS
<1>a. calls \in [Ids -> Seq(States)] /\ answered \in [Ids -> Seq(Nat)]
  BY DEF Shape
<1>1. ASSUME NEW kind \in Helpers, NEW size \in Sizes, NEW limit \in Limits,
             Use(kind, size, limit)
      PROVE  Shape'
  <2>1. at' \in 0..MaxHelpers
    BY <1>1, UseEffect DEF Ids, Shape
  <2>2. ASSUME NEW h \in Ids
        PROVE  /\ Len(calls'[h]) \in Sizes \cup {0}
               /\ \A k \in DOMAIN answered'[h] : answered'[h][k] \in DOMAIN calls'[h]
    <3>1. CASE h = at + 1
      <4>1. Len(calls'[h]) \in Sizes \cup {0} /\ answered'[h] = <<>>
        BY <1>1, <3>1, UseEffect
      <4>2. QED
        BY <4>1
    <3>2. CASE h # at + 1
      <4>1. calls'[h] = calls[h] /\ answered'[h] = answered[h]
        BY <1>1, <3>2, UseEffect
      <4>2. QED
        BY <4>1 DEF Shape
    <3>3. QED
      BY <3>1, <3>2
  <2>3. QED
    BY <1>1, <2>1, <2>2, UseEffect DEF Shape
<1>2. ASSUME NEW h \in Ids, Call(h) PROVE Shape'
  <2>1. PICK i \in DOMAIN calls[h] : Send(h, i)
    BY <1>2 DEF Call
  <2>2. calls' = [calls EXCEPT ![h][i] = "calling"] /\ "calling" \in States
    BY <2>1 DEF Send, States
  <2>3. /\ calls' \in [Ids -> Seq(States)]
        /\ \A g \in Ids : Len(calls'[g]) = Len(calls[g]) /\ DOMAIN calls'[g] = DOMAIN calls[g]
    BY <2>2, SetCall
  <2>4. QED
    BY <2>1, <2>3 DEF Send, Shape
<1>3. ASSUME NEW h \in Ids, NEW i \in DOMAIN calls[h], NEW how \in Answers, Answer(h, i, how)
      PROVE  Shape'
  <2>1. calls' = [calls EXCEPT ![h][i] = how] /\ how \in States
    BY <1>3 DEF Answer, States
  <2>2. /\ calls' \in [Ids -> Seq(States)]
        /\ \A g \in Ids : Len(calls'[g]) = Len(calls[g]) /\ DOMAIN calls'[g] = DOMAIN calls[g]
    BY <2>1, SetCall
  <2>3. i \in Nat /\ Append(answered[h], i) \in Seq(Nat)
        /\ \A k \in DOMAIN Append(answered[h], i) :
             \/ k \in DOMAIN answered[h] /\ Append(answered[h], i)[k] = answered[h][k]
             \/ Append(answered[h], i)[k] = i
    BY <1>a
  <2>4. \/ answered' = answered
        \/ answered' = [answered EXCEPT ![h] = Append(answered[h], i)]
    BY <1>3, <1>a DEF Answer
  <2>5. /\ answered' \in [Ids -> Seq(Nat)]
        /\ \A g \in Ids : \A k \in DOMAIN answered'[g] : answered'[g][k] \in DOMAIN calls[g]
    <3>1. CASE answered' = answered
      BY <3>1 DEF Shape
    <3>2. CASE answered' = [answered EXCEPT ![h] = Append(answered[h], i)]
      BY <1>a, <2>3, <3>2 DEF Shape
    <3>3. QED
      BY <2>4, <3>1, <3>2
  <2>6. QED
    BY <1>3, <2>2, <2>5 DEF Answer, Shape
<1>4. CASE Settle
  <2>1. at \in Ids
    BY <1>4, OrchestrationAssumption DEF Settle, Shape, Ids
  <2>2. PICK o \in Outcome(at) : verdict' = [verdict EXCEPT ![at] = o]
    BY <1>4 DEF Settle
  <2>3. verdict' \in [Ids -> Verdicts]
    BY <2>1, <2>2, OutcomeType DEF Shape
  <2>4. /\ answered' \in [Ids -> Seq(Nat)]
        /\ \A g \in Ids : \A k \in DOMAIN answered'[g] : answered'[g][k] \in DOMAIN calls[g]
    BY <1>4, <2>1 DEF Settle, Shape
  <2>5. QED
    BY <1>4, <2>3, <2>4 DEF Settle, Shape
<1>5. CASE End
  BY <1>5, EndCalls DEF End, Shape
<1>6. CASE UNCHANGED vars
  BY <1>6 DEF vars, Shape
<1>7. QED
  BY <1>1, <1>2, <1>3, <1>4, <1>5, <1>6 DEF Next

-----------------------------------------------------------------------------
(* What each step does to the helper it is about, and to the others *)

\* A helper that nothing has happened to.
LEMMA SameGood ==
  ASSUME NEW g \in Ids, Good(g),
         helper'[g] = helper[g], width'[g] = width[g], calls'[g] = calls[g],
         verdict'[g] = verdict[g]
  PROVE  Good(g)'
<1>1. /\ \A T : In(g, T)' = In(g, T)
      /\ Settled(g)' = Settled(g) /\ HasRaised(g)' = HasRaised(g)
  BY DEF In, Settled, HasRaised
<1>2. Failed(g)' = Failed(g) /\ Done(g)' = Done(g) /\ Over(g)' = Over(g)
  BY <1>1 DEF Failed, Done, Over, In
<1>3. InOrder(g)' /\ Bounded(g)'
  BY DEF Good, InOrder, Bounded, In
<1>4. Told(g)'
  BY <1>1, <1>2 DEF Good, Told
<1>5. QED
  BY <1>3, <1>4 DEF Good

\* A helper with calls to make or to wait for has not settled, unless it raised
\* at once.
LEMMA RunningOrRaised ==
  ASSUME Shape, NEW h \in Ids, Good(h), NEW i \in In(h, {"queued", "calling"}),
         calls[h][i] = "queued" => IsNext(h, i)
  PROVE  ~Settled(h) \/ HasRaised(h)
<1> SUFFICES ASSUME Settled(h), ~HasRaised(h) PROVE FALSE
  OBVIOUS
<1>1. Over(h)
  BY DEF Good, Told
<1>2. PICK s \in In(h, {"value", "payload"}) : helper[h] = "first_success"
  BY <1>1 DEF Over
<1>3. /\ i \in Nat /\ s \in Nat /\ i > 0 /\ s > 0
      /\ calls[h][i] \in {"queued", "calling"} /\ calls[h][s] \in {"value", "payload"}
      /\ s \in In(h, Started)
  <2>1. DOMAIN calls[h] = 1..Len(calls[h]) /\ Len(calls[h]) \in Nat
    BY DEF Shape
  <2>2. QED
    BY <2>1 DEF In, Started, Answers
<1>4. ~(i < s)
  <2>1. \A j \in 1..s - 1 : calls[h][j] = "exception"
    BY <1>2, <1>3 DEF Good, InOrder
  <2>2. QED
    BY <1>3, <2>1
<1>5. ~(s < i)
  <2>1. \A j \in 1..i - 1 : calls[h][j] = "exception"
    <3>1. CASE calls[h][i] = "queued"
      BY <1>2, <3>1 DEF IsNext
    <3>2. CASE calls[h][i] = "calling"
      <4>1. i \in In(h, Started)
        BY <3>2 DEF In, Started
      <4>2. QED
        BY <1>2, <4>1 DEF Good, InOrder
    <3>3. QED
      BY <1>3, <3>1, <3>2
  <2>2. QED
    BY <1>3, <2>1
<1>6. QED
  BY <1>3, <1>4, <1>5

\* What has been told stays true while the calls go on.
LEMMA ToldStays ==
  ASSUME NEW h \in Ids, Told(h), ~Settled(h) \/ HasRaised(h),
         helper'[h] = helper[h], verdict'[h] = verdict[h], Failed(h) \subseteq Failed(h)'
  PROVE  Told(h)'
<1>1. Settled(h)' = Settled(h) /\ HasRaised(h)' = HasRaised(h)
  BY DEF Settled, HasRaised
<1>2. CASE ~Settled(h)
  <2>1. verdict'[h].tag = "none" /\ ~Settled(h)' /\ ~HasRaised(h)'
    BY <1>1, <1>2 DEF Settled, HasRaised
  <2>2. QED
    BY <2>1 DEF Told
<1>3. CASE HasRaised(h)
  <2>1. /\ verdict'[h].tag = "raised" /\ HasRaised(h)'
        /\ helper'[h] \notin {"collect", "read_many"}
    BY <1>1, <1>3 DEF HasRaised, RaisesAtOnce
  <2>2. verdict'[h].of > 0 => verdict'[h].of \in Failed(h)'
    BY <1>3 DEF Told
  <2>3. QED
    BY <2>1, <2>2 DEF Told
<1>4. QED
  BY <1>2, <1>3

\* A call is made.
LEMMA CallGood ==
  ASSUME Shape, NEW h \in Ids, Good(h), Call(h)
  PROVE  /\ Good(h)' /\ calls[h] # <<>>
         /\ UNCHANGED <<at, helper, width, answered, verdict, ended>>
         /\ \A g \in Ids : g # h => calls'[g] = calls[g]
<1>1. PICK i \in DOMAIN calls[h] :
        IsNext(h, i) /\ Cardinality(In(h, {"calling"})) < width[h] /\ Send(h, i)
  BY DEF Call
<1>2. /\ UNCHANGED <<at, helper, width, answered, verdict, ended>>
      /\ calls' = [calls EXCEPT ![h][i] = "calling"] /\ "calling" \in States
  BY <1>1 DEF Send, States
<1>3. /\ DOMAIN calls'[h] = DOMAIN calls[h] /\ calls'[h][i] = "calling"
      /\ \A j \in DOMAIN calls[h] : j # i => calls'[h][j] = calls[h][j]
      /\ \A g \in Ids : g # h => calls'[g] = calls[g]
  BY <1>2, SetCall
<1>4. calls[h][i] = "queued" /\ i \in In(h, {"queued", "calling"})
  BY <1>1 DEF IsNext, In
<1>5. DOMAIN calls[h] = 1..Len(calls[h]) /\ Len(calls[h]) \in Nat /\ calls[h] \in Seq(States)
  BY DEF Shape
<1>6. InOrder(h)'
  <2>1. SUFFICES ASSUME helper[h] = "first_success", NEW k \in In(h, Started)',
                        NEW j \in 1..k - 1
                 PROVE  calls'[h][j] = "exception"
    BY <1>2 DEF InOrder
  <2>2. k \in DOMAIN calls[h] /\ j \in DOMAIN calls[h] /\ j < k
    BY <1>3, <1>5 DEF In
  <2>3. calls[h][j] = "exception"
    <3>1. CASE k = i
      BY <1>1, <2>1, <3>1 DEF IsNext
    <3>2. CASE k # i
      <4>1. k \in In(h, Started)
        BY <1>3, <2>2, <3>2 DEF In
      <4>2. QED
        BY <2>1, <4>1 DEF Good, InOrder
    <3>3. QED
      BY <3>1, <3>2
  <2>4. QED
    BY <1>3, <1>4, <2>2, <2>3
<1>7. Bounded(h)'
  <2>1. In(h, {"calling"})' = In(h, {"calling"}) \cup {i} /\ i \notin In(h, {"calling"})
    BY <1>3, <1>4 DEF In
  <2>2. IsFiniteSet(In(h, {"calling"}))
    BY <1>5, FewCalls DEF In
  <2>3. Cardinality(In(h, {"calling"})') = Cardinality(In(h, {"calling"})) + 1
        /\ Cardinality(In(h, {"calling"})) \in Nat
    BY <2>1, <2>2, FS_AddElement, FS_CardinalityType
  <2>4. width[h] \in Nat
    BY DEF Shape
  <2>5. QED
    BY <1>1, <1>2, <2>3, <2>4 DEF Bounded
<1>8. Told(h)'
  <2>1. ~Settled(h) \/ HasRaised(h)
    BY <1>1, <1>4, RunningOrRaised
  <2>2. Failed(h) \subseteq Failed(h)'
    BY <1>3, <1>4 DEF Failed, In
  <2>3. QED
    BY <1>2, <2>1, <2>2, ToldStays DEF Good
<1>9. calls[h] # <<>>
  BY <1>5
<1>10. QED
  BY <1>2, <1>3, <1>6, <1>7, <1>8, <1>9 DEF Good

\* A call is answered.
LEMMA AnswerGood ==
  ASSUME Shape, NEW h \in Ids, Good(h), NEW i \in DOMAIN calls[h], NEW how \in Answers,
         Answer(h, i, how)
  PROVE  /\ Good(h)' /\ calls[h] # <<>>
         /\ UNCHANGED <<at, helper, width, verdict, ended>>
         /\ \A g \in Ids : g # h => calls'[g] = calls[g] /\ answered'[g] = answered[g]
<1>1. /\ UNCHANGED <<at, helper, width, verdict, ended>>
      /\ calls' = [calls EXCEPT ![h][i] = how] /\ how \in States
      /\ calls[h][i] = "calling" /\ i \in In(h, {"queued", "calling"})
      /\ \A g \in Ids : g # h => answered'[g] = answered[g]
  BY DEF Answer, States, In, Shape
<1>2. /\ DOMAIN calls'[h] = DOMAIN calls[h] /\ calls'[h][i] = how
      /\ \A j \in DOMAIN calls[h] : j # i => calls'[h][j] = calls[h][j]
      /\ \A g \in Ids : g # h => calls'[g] = calls[g]
  BY <1>1, SetCall
<1>3. DOMAIN calls[h] = 1..Len(calls[h]) /\ Len(calls[h]) \in Nat /\ calls[h] \in Seq(States)
  BY DEF Shape
<1>4. InOrder(h)'
  <2>1. SUFFICES ASSUME helper[h] = "first_success", NEW k \in In(h, Started)',
                        NEW j \in 1..k - 1
                 PROVE  calls'[h][j] = "exception"
    BY <1>1 DEF InOrder
  <2>2. k \in DOMAIN calls[h] /\ j \in DOMAIN calls[h] /\ k \in In(h, Started)
    BY <1>1, <1>2, <1>3 DEF In, Started
  <2>3. calls[h][j] = "exception"
    BY <2>1, <2>2 DEF Good, InOrder
  <2>4. QED
    BY <1>1, <1>2, <2>2, <2>3
<1>5. Bounded(h)'
  <2>1. In(h, {"calling"})' \subseteq In(h, {"calling"})
    BY <1>1, <1>2 DEF In
  <2>2. IsFiniteSet(In(h, {"calling"}))
    BY <1>3, FewCalls DEF In
  <2>3. /\ Cardinality(In(h, {"calling"})') <= Cardinality(In(h, {"calling"}))
        /\ Cardinality(In(h, {"calling"})') \in Nat /\ Cardinality(In(h, {"calling"})) \in Nat
    BY <2>1, <2>2, FS_Subset, FS_CardinalityType
  <2>4. width[h] \in Nat
    BY DEF Shape
  <2>5. QED
    BY <1>1, <2>3, <2>4 DEF Bounded, Good
<1>6. Told(h)'
  <2>1. ~Settled(h) \/ HasRaised(h)
    BY <1>1, RunningOrRaised
  <2>2. Failed(h) \subseteq Failed(h)'
    BY <1>1, <1>2 DEF Failed, In
  <2>3. QED
    BY <1>1, <2>1, <2>2, ToldStays DEF Good
<1>7. calls[h] # <<>>
  BY <1>3
<1>8. QED
  BY <1>1, <1>2, <1>4, <1>5, <1>6, <1>7 DEF Good

\* The program ends: what was not answered is cancelled.
LEMMA EndGood ==
  ASSUME Shape, End, NEW h \in Ids, Good(h)
  PROVE  Good(h)'
<1>1. UNCHANGED <<at, helper, width, answered, verdict>>
  BY DEF End
<1>2. /\ DOMAIN calls'[h] = DOMAIN calls[h] /\ Len(calls'[h]) = Len(calls[h])
      /\ calls' \in [Ids -> Seq(States)]
      /\ \A i \in DOMAIN calls[h] : calls'[h][i] = IF calls[h][i] \in Answers
                                                 THEN calls[h][i] ELSE "cancelled"
  BY EndCalls
<1>3. DOMAIN calls[h] = 1..Len(calls[h]) /\ Len(calls[h]) \in Nat
  BY DEF Shape
<1>4. /\ In(h, Started)' = In(h, Answers) /\ In(h, {"queued", "calling"})' = {}
      /\ In(h, {"calling"})' = {} /\ In(h, Answers)' = In(h, Answers)
      /\ Failed(h)' = Failed(h)
  BY <1>2 DEF In, Started, Answers, Failed
<1>5. InOrder(h)'
  <2>1. SUFFICES ASSUME helper[h] = "first_success", NEW k \in In(h, Started)',
                        NEW j \in 1..k - 1
                 PROVE  calls'[h][j] = "exception"
    BY <1>1 DEF InOrder
  <2>2. k \in In(h, Started)
    BY <1>4 DEF In, Started
  <2>3. calls[h][j] = "exception" /\ j \in DOMAIN calls[h]
    BY <1>3, <2>1, <2>2 DEF Good, InOrder, In
  <2>4. QED
    BY <1>2, <2>3 DEF Answers
<1>6. Bounded(h)'
  <2>1. Cardinality(In(h, {"calling"})') = 0
    BY <1>4, FS_EmptySet
  <2>2. width'[h] \in Nat
    BY <1>1 DEF Shape
  <2>3. QED
    BY <2>1, <2>2 DEF Bounded
<1>7. Settled(h)' = Settled(h) /\ HasRaised(h)' = HasRaised(h) /\ Over(h)'
  BY <1>1, <1>4 DEF Settled, HasRaised, Over
<1>8. Done(h)' = Done(h)
  BY <1>2, <1>4 DEF Done
<1>9. calls[h] = <<>> => calls'[h] = <<>>
  BY <1>2, <1>3
<1>10. verdict'[h].tag = "returned" /\ helper'[h] # "first_success" =>
         \A k \in DOMAIN calls[h] : calls'[h][k] = calls[h][k]
  <2>1. verdict[h].tag = "returned" /\ helper[h] # "first_success" => Done(h)
    BY DEF Good, Told
  <2>2. Done(h) => \A k \in DOMAIN calls[h] : calls[h][k] \in Answers
    BY DEF Done, In
  <2>3. QED
    BY <1>1, <1>2, <2>1, <2>2
<1>11. ASSUME verdict'[h].tag = "returned", helper'[h] # "first_success"
       PROVE  /\ Done(h)'
              /\ Len(verdict'[h].entries) = Len(calls'[h])
              /\ \A k \in DOMAIN verdict'[h].entries :
                   /\ verdict'[h].entries[k].index = k
                   /\ verdict'[h].entries[k].ok <=>
                        \/ calls'[h][k] = "value"
                        \/ calls'[h][k] = "payload" /\ helper'[h] # "collect"
  <2>1. /\ Done(h) /\ Len(verdict[h].entries) = Len(calls[h])
        /\ \A k \in DOMAIN verdict[h].entries :
             /\ verdict[h].entries[k].index = k
             /\ verdict[h].entries[k].ok <=>
                  \/ calls[h][k] = "value"
                  \/ calls[h][k] = "payload" /\ helper[h] # "collect"
    BY <1>1, <1>11 DEF Good, Told
  <2>2. verdict[h].entries \in Seq([index : Nat, ok : BOOLEAN])
    BY DEF Shape, Verdicts
  <2>3. DOMAIN verdict[h].entries = DOMAIN calls[h]
    BY <1>3, <2>1, <2>2
  <2>4. QED
    BY <1>1, <1>2, <1>8, <1>10, <1>11, <2>1, <2>3
<1>12. Told(h)'
  <2>1. Told(h)
    BY DEF Good
  <2>2. Settled(h)' /\ ~HasRaised(h)' => Over(h)'
    BY <1>7
  <2>3. helper'[h] \in {"collect", "read_many"} /\ verdict'[h].tag = "raised" => calls'[h] = <<>>
    BY <1>1, <1>9, <2>1 DEF Told
  <2>4. HasRaised(h)' /\ verdict'[h].of > 0 => verdict'[h].of \in Failed(h)'
    BY <1>1, <1>4, <1>7, <2>1 DEF Told
  <2>5. RaisesAtOnce(helper'[h]) /\ verdict'[h].tag = "returned" => Failed(h)' = {}
    BY <1>1, <1>4, <2>1 DEF Told
  <2>6. QED
    BY <1>11, <2>2, <2>3, <2>4, <2>5 DEF Told
<1>13. QED
  BY <1>5, <1>6, <1>12 DEF Good

\* The helper the program is at settles.
LEMMA SettleGood ==
  ASSUME Shape, Settle, NEW o \in Outcome(at), verdict' = [verdict EXCEPT ![at] = o],
         Good(at)
  PROVE  Good(at)'
<1> DEFINE h == at
<1>1. /\ h \in Ids /\ at' = h /\ UNCHANGED <<helper, width, calls>>
      /\ verdict'[h] = o
  BY OrchestrationAssumption DEF Settle, Shape, Ids
<1>2. DOMAIN calls[h] = 1..Len(calls[h]) /\ Len(calls[h]) \in Nat
  BY <1>1 DEF Shape
<1>3. Good(h)' <=> InOrder(h)' /\ Bounded(h)' /\ Told(h)'
  BY DEF Good
<1>4. InOrder(h)' /\ Bounded(h)'
  BY <1>1 DEF Good, InOrder, Bounded, In
<1>5. /\ \A T : In(h, T)' = In(h, T)
      /\ Failed(h)' = Failed(h) /\ Done(h)' = Done(h) /\ Over(h)' = Over(h)
  BY <1>1 DEF Failed, Done, Over, In
<1>6. /\ Settled(h)' <=> o.tag # "none"
      /\ HasRaised(h)' <=> o.tag = "raised" /\ RaisesAtOnce(helper[h])
  BY <1>1 DEF Settled, HasRaised
<1>7. Told(h)'
  <2>1. CASE /\ helper[h] = "first_success"
             /\ \E i \in In(h, {"value", "payload"}) : o = Returned(<<[index |-> i, ok |-> TRUE]>>)
    <3>1. o.tag = "returned" /\ Over(h) /\ ~RaisesAtOnce(helper[h])
      BY <2>1 DEF Returned, Over, RaisesAtOnce
    <3>2. QED
      BY <1>1, <1>5, <1>6, <2>1, <3>1 DEF Told
  <2>2. CASE helper[h] = "first_success" /\ Failed(h) = DOMAIN calls[h] /\ o = Raised(0)
    <3>1. In(h, {"queued", "calling"}) = {}
      BY <2>2 DEF Failed, In
    <3>2. o.tag = "raised" /\ Over(h) /\ ~RaisesAtOnce(helper[h])
      BY <2>2, <3>1 DEF Raised, Over, RaisesAtOnce
    <3>3. QED
      BY <1>1, <1>5, <1>6, <2>2, <3>2 DEF Told
  <2>3. CASE RaisesAtOnce(helper[h]) /\ \E i \in Failed(h) : o = Raised(i)
    <3>1. o.tag = "raised" /\ o.of \in Failed(h) /\ helper[h] \notin {"collect", "read_many"}
      BY <2>3 DEF Raised, RaisesAtOnce
    <3>2. QED
      BY <1>1, <1>5, <1>6, <2>3, <3>1 DEF Told
  <2>4. CASE /\ helper[h] # "first_success" /\ Done(h) /\ o = Returned(Entries(h))
             /\ RaisesAtOnce(helper[h]) => Failed(h) = {}
    <3>1. o.tag = "returned" /\ o.entries = Entries(h)
      BY <2>4 DEF Returned
    <3>2. In(h, {"queued", "calling"}) = {} /\ \A k \in DOMAIN calls[h] : calls[h][k] \in Answers
      BY <2>4 DEF Done, In, Answers
    <3>3. Over(h)
      BY <3>2 DEF Over
    <3>4. Len(Entries(h)) = Len(calls[h]) /\ DOMAIN Entries(h) = DOMAIN calls[h]
      <4> DEFINE n == Len(calls[h])
      <4>1. Entries(h) = [i \in 1..n |-> [index |-> i, ok |-> IsOk(h, i)]] /\ n \in Nat
        BY <1>2 DEF Entries
      <4> HIDE DEF n
      <4>2. Len(Entries(h)) = n /\ DOMAIN Entries(h) = 1..n
        BY <4>1
      <4>3. QED
        BY <1>2, <4>2 DEF n
    <3>5. \A k \in DOMAIN calls[h] :
            /\ Entries(h)[k].index = k
            /\ Entries(h)[k].ok <=>
                 \/ calls[h][k] = "value"
                 \/ calls[h][k] = "payload" /\ helper[h] # "collect"
      BY <3>2 DEF Entries, IsOk, Answers
    <3>6. QED
      BY <1>1, <1>5, <1>6, <2>4, <3>1, <3>3, <3>4, <3>5 DEF Told
  <2>5. QED
    BY <1>1, <2>1, <2>2, <2>3, <2>4, OutcomeCases
<1>8. QED
  BY <1>1, <1>3, <1>4, <1>7

\* A helper that is called has nothing in flight and nothing to tell, or it has
\* raised before it made a call.
LEMMA UseGood ==
  ASSUME Shape, NotYet, NEW kind \in Helpers, NEW size \in Sizes, NEW limit \in Limits,
         Use(kind, size, limit)
  PROVE  Good(at)'
<1> DEFINE n == at'
<1>1. /\ n \in Ids /\ width'[n] \in Nat /\ calls' \in [Ids -> Seq(States)]
      /\ \A i \in DOMAIN calls'[n] : calls'[n][i] = "queued"
      /\ \/ verdict'[n] = Pending
         \/ verdict'[n] = Raised(0) /\ calls'[n] = <<>>
  BY UseEffect
<1>2. {i \in DOMAIN calls'[n] : calls'[n][i] \in Started} = {}
      /\ {i \in DOMAIN calls'[n] : calls'[n][i] \in {"calling"}} = {}
  BY <1>1 DEF Started, Answers
<1>3. Cardinality({i \in DOMAIN calls'[n] : calls'[n][i] \in {"calling"}}) = 0
  BY <1>2, FS_EmptySet
<1>4. verdict'[n] = Raised(0) =>
        {i \in DOMAIN calls'[n] : calls'[n][i] \in {"queued", "calling"}} = {}
  BY <1>1 DEF Raised, Pending
<1>5. InOrder(at)'
  BY <1>2 DEF InOrder, In
<1>6. Bounded(at)'
  BY <1>1, <1>3 DEF Bounded, In
<1>7. Told(at)'
  BY <1>1, <1>4 DEF Told, Settled, HasRaised, Over, In, Pending, Raised
<1>8. QED
  BY <1>5, <1>6, <1>7 DEF Good

-----------------------------------------------------------------------------
(* The invariant *)

\* Nothing has been called, and nothing told, before the first step.
LEMMA HelpersInit == Init => HelpersInv
<1> SUFFICES ASSUME Init PROVE HelpersInv
  OBVIOUS
<1>1. /\ at = 0 /\ ended = FALSE /\ MaxHelpers \in Nat
      /\ \A h \in Ids : /\ helper[h] = "gather_limit" /\ width[h] = 1 /\ calls[h] = <<>>
                       /\ answered[h] = <<>> /\ verdict[h] = Pending
  BY OrchestrationAssumption DEF Init
<1>2. Pending \in Verdicts
  BY DEF Pending, Verdicts
<1>3. Shape
  <2>1. /\ helper \in [Ids -> Helpers] /\ width \in [Ids -> Nat \ {0}]
        /\ calls \in [Ids -> Seq(States)] /\ answered \in [Ids -> Seq(Nat)]
        /\ verdict \in [Ids -> Verdicts]
    BY <1>2 DEF Init, Helpers
  <2>2. \A h \in Ids : Len(calls[h]) = 0 /\ DOMAIN answered[h] = {}
    BY <1>1
  <2>3. at = 0 /\ MaxHelpers \in Nat => at \in 0..MaxHelpers
    OBVIOUS
  <2>4. ended = FALSE => ended \in BOOLEAN
    BY Zenon
  <2>5. QED
    BY <1>1, <2>1, <2>2, <2>3, <2>4, Zenon DEF Shape
<1>4. NotYet /\ Before
  BY <1>1 DEF NotYet, Before, Ids
<1>5. ASSUME NEW h \in Ids PROVE Good(h)
  <2>1. In(h, Started) = {} /\ In(h, {"calling"}) = {}
    BY <1>1 DEF In
  <2>2. InOrder(h) /\ Bounded(h)
    <3>1. Cardinality(In(h, {"calling"})) = 0
      BY <2>1, FS_EmptySet
    <3>2. QED
      BY <1>1, <2>1, <3>1 DEF InOrder, Bounded
  <2>3. Told(h)
    BY <1>1 DEF Told, Settled, HasRaised, Pending
  <2>4. QED
    BY <2>2, <2>3 DEF Good
<1>6. QED
  BY <1>3, <1>4, <1>5 DEF HelpersInv

\* Every step keeps the invariant.
LEMMA HelpersStep == HelpersInv /\ [Next]_vars => HelpersInv'
<1> SUFFICES ASSUME HelpersInv, [Next]_vars PROVE HelpersInv'
  OBVIOUS
<1>a. Shape /\ NotYet /\ Before /\ \A h \in Ids : Good(h)
  BY DEF HelpersInv
<1>b. Shape'
  BY <1>a, ShapeStep
<1>c. at \in Nat /\ \A h \in Ids : h \in Nat /\ h > 0
  BY <1>a DEF Shape, Ids
<1>d. SUFFICES NotYet' /\ Before' /\ \A g \in Ids : Good(g)'
  BY <1>b DEF HelpersInv
<1>1. ASSUME NEW kind \in Helpers, NEW size \in Sizes, NEW limit \in Limits,
             Use(kind, size, limit)
      PROVE  NotYet' /\ Before' /\ \A g \in Ids : Good(g)'
  <2>1. /\ at' = at + 1 /\ (at > 0 => Settled(at)) /\ UNCHANGED answered
        /\ at + 1 \in Ids /\ verdict[at + 1] = Pending /\ answered[at + 1] = <<>>
        /\ \A g \in Ids : g # at + 1 =>
             /\ helper'[g] = helper[g] /\ width'[g] = width[g]
             /\ calls'[g] = calls[g] /\ verdict'[g] = verdict[g]
    BY <1>1, <1>a, UseEffect
  <2>2. NotYet'
    BY <1>a, <1>c, <2>1 DEF NotYet
  <2>3. Before'
    BY <1>a, <1>c, <2>1 DEF Before, Settled
  <2>4. ASSUME NEW g \in Ids PROVE Good(g)'
    <3>1. CASE g = at + 1
      <4>1. g = at'
        BY <2>1, <3>1
      <4>2. Good(at)'
        BY <1>1, <1>a, UseGood
      <4>3. QED
        BY <4>1, <4>2 DEF Good, InOrder, Bounded, Told, In, Settled, HasRaised, Over,
                          Failed, Done
    <3>2. CASE g # at + 1
      BY <1>a, <2>1, <3>2, SameGood
    <3>3. QED
      BY <3>1, <3>2
  <2>5. QED
    BY <2>2, <2>3, <2>4
<1>2. ASSUME NEW h \in Ids, Call(h) PROVE NotYet' /\ Before' /\ \A g \in Ids : Good(g)'
  <2>1. /\ Good(h)' /\ calls[h] # <<>>
        /\ UNCHANGED <<at, helper, width, answered, verdict, ended>>
        /\ \A g \in Ids : g # h => calls'[g] = calls[g]
    BY <1>2, <1>a, CallGood
  <2>2. NotYet' /\ Before'
    BY <1>a, <2>1 DEF NotYet, Before, Settled
  <2>3. ASSUME NEW g \in Ids, g # h PROVE Good(g)'
    BY <1>a, <2>1, <2>3, SameGood
  <2>4. QED
    BY <2>1, <2>2, <2>3
<1>3. ASSUME NEW h \in Ids, NEW i \in DOMAIN calls[h], NEW how \in Answers, Answer(h, i, how)
      PROVE  NotYet' /\ Before' /\ \A g \in Ids : Good(g)'
  <2>1. /\ Good(h)' /\ calls[h] # <<>>
        /\ UNCHANGED <<at, helper, width, verdict, ended>>
        /\ \A g \in Ids : g # h => calls'[g] = calls[g] /\ answered'[g] = answered[g]
    BY <1>3, <1>a, AnswerGood
  <2>2. NotYet' /\ Before'
    BY <1>a, <2>1 DEF NotYet, Before, Settled
  <2>3. ASSUME NEW g \in Ids, g # h PROVE Good(g)'
    BY <1>a, <2>1, <2>3, SameGood
  <2>4. QED
    BY <2>1, <2>2, <2>3
<1>4. CASE Settle
  <2>1. at \in Ids /\ UNCHANGED <<at, helper, width, calls, ended>>
        /\ \A g \in Ids : g # at => answered'[g] = answered[g]
    BY <1>4, <1>a, OrchestrationAssumption DEF Settle, Shape, Ids
  <2>2. PICK o \in Outcome(at) : verdict' = [verdict EXCEPT ![at] = o]
    BY <1>4 DEF Settle
  <2>3. Good(at)'
    BY <1>4, <1>a, <2>1, <2>2, SettleGood
  <2>4. \A g \in Ids : g # at => verdict'[g] = verdict[g]
    BY <1>a, <2>2 DEF Shape
  <2>5. NotYet' /\ Before'
    <3>1. at' = at /\ calls' = calls
      BY <2>1
    <3>2. NotYet'
      <4>1. \A g \in Ids : g > at => g # at
        BY <1>c
      <4>2. QED
        BY <1>a, <2>1, <2>4, <3>1, <4>1, Zenon DEF NotYet
    <3>3. Before'
      BY <1>a, <1>c, <2>4, <3>1 DEF Before, Settled
    <3>4. QED
      BY <3>2, <3>3
  <2>6. ASSUME NEW g \in Ids, g # at PROVE Good(g)'
    BY <1>a, <2>1, <2>4, <2>6, SameGood
  <2>7. at' = at
    BY <2>1
  <2>8. \A g \in Ids : g = at => Good(g)'
    BY <2>3, <2>7 DEF Good, InOrder, Bounded, Told, In, Settled, HasRaised, Over, Failed, Done
  <2>9. QED
    BY <2>5, <2>6, <2>8
<1>5. CASE End
  <2>1. UNCHANGED <<at, answered, verdict>>
    BY <1>5 DEF End
  <2>2. \A h \in Ids : calls[h] = <<>> => calls'[h] = <<>>
    <3>1. ASSUME NEW h \in Ids, calls[h] = <<>> PROVE calls'[h] = <<>>
      <4>1. calls'[h] \in Seq(States) /\ Len(calls'[h]) = 0
        BY <1>5, <1>a, <3>1, EndCalls
      <4>2. QED
        BY <4>1
    <3>2. QED
      BY <3>1
  <2>3. NotYet' /\ Before'
    BY <1>a, <2>1, <2>2 DEF NotYet, Before, Settled
  <2>4. QED
    BY <1>5, <1>a, <2>3, EndGood
<1>6. CASE UNCHANGED vars
  <2>1. UNCHANGED <<at, helper, width, calls, answered, verdict>>
    BY <1>6 DEF vars
  <2>2. NotYet' /\ Before'
    BY <1>a, <2>1 DEF NotYet, Before, Settled
  <2>3. ASSUME NEW g \in Ids PROVE Good(g)'
    BY <1>a, <2>1, SameGood
  <2>4. QED
    BY <2>2, <2>3
<1>7. QED
  BY <1>1, <1>2, <1>3, <1>4, <1>5, <1>6 DEF Next

\* The invariant holds of every behaviour.
LEMMA HelpersInvariant == Spec => []HelpersInv
  BY HelpersInit, HelpersStep, PTL DEF Spec

\* The variables keep their types, for every number of helpers, calls and limits.
THEOREM HelperTypes == Spec => []TypeOK
<1>1. HelpersInv => TypeOK
  <2> SUFFICES ASSUME Shape PROVE TypeOK
    BY DEF HelpersInv
  <2>1. ASSUME NEW h \in Ids
        PROVE  /\ helper[h] \in Helpers /\ width[h] \in Nat \ {0}
               /\ \A i \in DOMAIN calls[h] : calls[h][i] \in States
               /\ verdict[h].tag \in {"none", "returned", "raised"} /\ verdict[h].of \in Nat
    BY DEF Shape, Verdicts
  <2>2. QED
    BY <2>1 DEF Shape, TypeOK, States
<1>2. QED
  BY <1>1, HelpersInvariant, PTL

\* The calls in flight are those of the helper the program is at, and within its
\* limit, as long as no helper has raised.
THEOREM LimitIsHeld == Spec => []LimitHolds
<1>1. HelpersInv => LimitHolds
  <2> SUFFICES ASSUME HelpersInv, \A h \in Ids : ~HasRaised(h), InFlight # {}
               PROVE  /\ at > 0 /\ Cardinality(InFlight) <= width[at]
                      /\ \A c \in InFlight : c[1] = at
    BY DEF LimitHolds
  <2>1. Shape /\ NotYet /\ Before /\ \A h \in Ids : Good(h)
    BY DEF HelpersInv
  <2>2. ASSUME NEW h \in Ids, In(h, {"calling"}) # {} PROVE h = at
    <3>1. PICK i \in In(h, {"calling"}) : TRUE
      BY <2>2
    <3>2. i \in In(h, {"queued", "calling"}) /\ calls[h][i] # "queued" /\ i \in DOMAIN calls[h]
      BY <3>1 DEF In
    <3>3. ~Settled(h)
      BY <2>1, <3>2, RunningOrRaised
    <3>4. calls[h] # <<>>
      BY <3>2
    <3>5. ~(h < at) /\ ~(h > at)
      BY <2>1, <3>3, <3>4 DEF NotYet, Before
    <3>6. QED
      BY <2>1, <3>5 DEF Shape, Ids
  <2>3. PICK g \in Ids : In(g, {"calling"}) # {}
    BY DEF InFlight
  <2>4. at \in Ids /\ at > 0
    BY <2>2, <2>3 DEF Ids
  <2> DEFINE S == In(at, {"calling"})
             T == {<<at, i>> : i \in S}
  <2>5. InFlight = T
    BY <2>2, <2>4 DEF InFlight
  <2>6. Cardinality(T) = Cardinality(S)
    <3>1. IsFiniteSet(S)
      <4>1. calls[at] \in Seq(States)
        BY <2>1, <2>4 DEF Shape
      <4>2. QED
        BY <4>1, FewCalls DEF In
    <3> HIDE DEF S
    <3> DEFINE f == [i \in S |-> <<at, i>>]
    <3>2. f \in [S -> T] /\ \A i \in S : f[i] = <<at, i>>
      OBVIOUS
    <3>3. \A t \in T : \E i \in S : f[i] = t
      OBVIOUS
    <3> HIDE DEF f
    <3>4. \A i, k \in S : f[i] = f[k] => i = k
      BY <3>2
    <3> HIDE DEF T
    <3>5. f \in Surjection(S, T) /\ f \in Injection(S, T)
      BY <3>2, <3>3, <3>4 DEF Injection, Surjection, IsInjective
    <3>6. QED
      BY <3>1, <3>5, FS_Surjection
  <2>7. Cardinality(S) <= width[at]
    BY <2>1, <2>4 DEF Good, Bounded
  <2>8. QED
    BY <2>4, <2>5, <2>6, <2>7
<1>2. QED
  BY <1>1, HelpersInvariant, PTL

\* What a helper returns says of each call, in the order given, how it went.
THEOREM ResultsAreTheCalls == Spec => []ResultsMatchCalls
<1>1. HelpersInv => ResultsMatchCalls
  <2> SUFFICES ASSUME \A h \in Ids : Told(h) PROVE ResultsMatchCalls
    BY DEF HelpersInv, Good
  <2>1. QED
    BY DEF Told, ResultsMatchCalls
<1>2. QED
  BY <1>1, HelpersInvariant, PTL

\* The helpers that collect do not raise for a failed call, the others name one
\* that failed and return only if none did.
THEOREM FailuresAreTold == Spec => []FailuresAreReported
<1>1. HelpersInv => FailuresAreReported
  <2> SUFFICES ASSUME \A h \in Ids : Told(h) PROVE FailuresAreReported
    BY DEF HelpersInv, Good
  <2>1. ASSUME NEW h \in Ids, calls[h] = <<>> PROVE In(h, Answers) = {}
    BY <2>1 DEF In
  <2>2. \A h \in Ids : \A i \in Failed(h) : calls[h][i] = "exception"
    BY DEF Failed, In
  <2>3. QED
    BY <2>1, <2>2 DEF Told, FailuresAreReported, Failed
<1>2. QED
  BY <1>1, HelpersInvariant, PTL

\* first_success calls one tool after the other, and none after a success.
THEOREM OneSuccessIsEnough == Spec => []FirstSuccessIsLast
<1>1. HelpersInv => FirstSuccessIsLast
  <2> SUFFICES ASSUME HelpersInv, NEW h \in Ids, helper[h] = "first_success",
                      NEW i \in In(h, {"calling", "value", "payload"}),
                      NEW j \in DOMAIN calls[h]
               PROVE  /\ j < i => calls[h][j] = "exception"
                      /\ j > i => calls[h][j] \in {"queued", "cancelled"}
    BY DEF FirstSuccessIsLast
  <2>1. InOrder(h) /\ DOMAIN calls[h] = 1..Len(calls[h]) /\ Len(calls[h]) \in Nat
        /\ calls[h][j] \in States
    BY DEF HelpersInv, Good, Shape
  <2>2. i \in In(h, Started) /\ i \in DOMAIN calls[h] /\ calls[h][i] # "exception"
    BY DEF In, Started, Answers
  <2>3. j < i => calls[h][j] = "exception"
    BY <2>1, <2>2 DEF InOrder
  <2>4. j > i => j \notin In(h, Started)
    BY <2>1, <2>2 DEF InOrder
  <2>5. j > i => calls[h][j] \in {"queued", "cancelled"}
    BY <2>1, <2>4 DEF In, States, Started
  <2>6. QED
    BY <2>3, <2>5
<1>2. QED
  BY <1>1, HelpersInvariant, PTL

=============================================================================
