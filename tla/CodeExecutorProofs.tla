-------------------------- MODULE CodeExecutorProofs --------------------------
(***************************************************************************)
(* Theorems about CodeExecutor for every set of executions, every timeout  *)
(* and every length a string can have.                                     *)
(***************************************************************************)
EXTENDS CodeExecutor, TLAPS

-----------------------------------------------------------------------------
(* truncateOutput *)

\* The powers of ten a length is compared with.
LEMMA Powers ==
  /\ 10^0 = 1 /\ 10^1 = 10 /\ 10^2 = 100 /\ 10^3 = 1000 /\ 10^4 = 10000
  /\ 10^5 = 100000 /\ 10^6 = 1000000 /\ 10^7 = 10000000 /\ 10^8 = 100000000
  /\ 10^9 = 1000000000
  BY SMT

\* Digits returns a number of digits that fits, if there is one.
LEMMA DigitsFit ==
  ASSUME NEW n, \E d \in 1..9 : n < 10^d /\ (d = 1 \/ n >= 10^(d - 1))
  PROVE  /\ Digits(n) \in 1..9
         /\ n < 10^Digits(n) /\ (Digits(n) = 1 \/ n >= 10^(Digits(n) - 1))
  BY Zenon DEF Digits

\* Below 10^9 a length has as many digits as the powers of ten say.
LEMMA DigitsTable ==
  ASSUME NEW n \in Nat, n < 10^9
  PROVE  /\ Digits(n) \in 1..9
         /\ n < 10^1 <=> Digits(n) <= 1
         /\ n < 10^2 <=> Digits(n) <= 2
         /\ n < 10^3 <=> Digits(n) <= 3
         /\ n < 10^4 <=> Digits(n) <= 4
         /\ n < 10^5 <=> Digits(n) <= 5
         /\ n < 10^6 <=> Digits(n) <= 6
         /\ n < 10^7 <=> Digits(n) <= 7
         /\ n < 10^8 <=> Digits(n) <= 8
<1> DEFINE Fits(d) == n < 10^d /\ (d = 1 \/ n >= 10^(d - 1))
<1>1. \E d \in 1..9 : Fits(d)
  <2>1. n < 10^1 => Fits(1)
    BY Powers, SMT
  <2>2. n >= 10^1 /\ n < 10^2 => Fits(2)
    BY Powers, SMT
  <2>3. n >= 10^2 /\ n < 10^3 => Fits(3)
    BY Powers, SMT
  <2>4. n >= 10^3 /\ n < 10^4 => Fits(4)
    BY Powers, SMT
  <2>5. n >= 10^4 /\ n < 10^5 => Fits(5)
    BY Powers, SMT
  <2>6. n >= 10^5 /\ n < 10^6 => Fits(6)
    BY Powers, SMT
  <2>7. n >= 10^6 /\ n < 10^7 => Fits(7)
    BY Powers, SMT
  <2>8. n >= 10^7 /\ n < 10^8 => Fits(8)
    BY Powers, SMT
  <2>9. n >= 10^8 /\ n < 10^9 => Fits(9)
    BY Powers, SMT
  <2> HIDE DEF Fits
  <2>10. QED
    BY <2>1, <2>2, <2>3, <2>4, <2>5, <2>6, <2>7, <2>8, <2>9, Powers, SMT
<1>2. Digits(n) \in 1..9 /\ Fits(Digits(n))
  BY <1>1, DigitsFit, Zenon
<1>3. Fits(1) => n < 10^1
  BY Powers, SMT
<1>4. Fits(2) => n < 10^2 /\ n >= 10^1
  BY Powers, SMT
<1>5. Fits(3) => n < 10^3 /\ n >= 10^2
  BY Powers, SMT
<1>6. Fits(4) => n < 10^4 /\ n >= 10^3
  BY Powers, SMT
<1>7. Fits(5) => n < 10^5 /\ n >= 10^4
  BY Powers, SMT
<1>8. Fits(6) => n < 10^6 /\ n >= 10^5
  BY Powers, SMT
<1>9. Fits(7) => n < 10^7 /\ n >= 10^6
  BY Powers, SMT
<1>10. Fits(8) => n < 10^8 /\ n >= 10^7
  BY Powers, SMT
<1>11. Fits(9) => n < 10^9 /\ n >= 10^8
  BY Powers, SMT
<1> HIDE DEF Fits
<1>12. QED
  BY <1>2, <1>3, <1>4, <1>5, <1>6, <1>7, <1>8, <1>9, <1>10, <1>11, Powers, SMT

\* A longer length has at least as many digits, and the next one at most one more.
LEMMA DigitsGrow ==
  ASSUME NEW m \in Nat, NEW n \in Nat, m <= n, n < 10^9
  PROVE  /\ Digits(m) <= Digits(n)
         /\ n <= m + 1 => Digits(n) <= Digits(m) + 1
<1>1. m < 10^9
  BY Powers, SMT
<1>2. QED
  BY <1>1, DigitsTable, Powers, SMT

\* What a notice leaves of a limit has at most one digit less than the limit.
LEMMA DigitsLeft ==
  ASSUME NEW n \in Nat, n < 10^9, NEW b \in Nat \ {0}, b <= n, n <= b + 70
  PROVE  Digits(n) <= Digits(b) + 1
<1>1. b < 10^9
  BY Powers, SMT
<1>2. QED
  BY <1>1, DigitsTable, Powers, SMT

\* What is promised of an output of some length, truncated.
Fitting(out, length, max) ==
  /\ out.shown \in Nat /\ out.told \subseteq Nat /\ out.length \in Nat
  /\ out.length <= max
  /\ length <= max => out.shown = length /\ out.told = {}
  /\ \A told \in out.told : told - out.shown \in {0, 1} /\ out.shown > 0

\* Nine digits are enough for the length of any string.
LEMMA LengthsAreShort == MaxStringLength \in Nat /\ MaxStringLength < 10^9
  BY Powers, SMT DEF MaxStringLength

\* truncateOutput keeps the limit, and the number its notice shows is right or
\* one more than the characters in front of it.
LEMMA TruncatedFits ==
  ASSUME NEW length \in 0..MaxStringLength, NEW max \in Nat \ {0}
  PROVE  Fitting(truncateOutput(length, max), length, max)
<1> DEFINE next(b) == max - NoticeLength(AtLeast(b, 0), length)
           b0 == next(max)
           b1 == next(b0)
           b2 == next(b1)
           b3 == next(b2)
           b4 == next(b3)
           out == truncateOutput(length, max)
<1> SUFFICES Fitting(out, length, max)
  OBVIOUS
<1>1. AtLeast(max, 1) = max
  BY SMT DEF AtLeast
<1>2. length \in Nat /\ length < 10^9
  BY LengthsAreShort, Powers, SMT
<1>3. out = IF length <= max THEN [shown |-> length, told |-> {}, length |-> length]
            ELSE IF \E b \in {b0, b1, b2, b3, b4} : b <= 0
            THEN [shown |-> max, told |-> {}, length |-> max]
            ELSE [shown |-> b4, told |-> {b3}, length |-> b4 + NoticeLength(b3, length)]
  BY <1>1, Zenon DEF truncateOutput
<1>4. CASE length <= max
  <2>1. out = [shown |-> length, told |-> {}, length |-> length]
    BY <1>3, <1>4, Zenon
  <2> HIDE DEF out
  <2>2. QED
    BY <1>2, <1>4, <2>1, SMT DEF Fitting
<1>5. CASE ~(length <= max) /\ \E b \in {b0, b1, b2, b3, b4} : b <= 0
  <2>1. out = [shown |-> max, told |-> {}, length |-> max]
    BY <1>3, <1>5, Zenon
  <2> HIDE DEF out
  <2>2. QED
    BY <1>2, <1>5, <2>1, SMT DEF Fitting
<1>6. CASE ~(length <= max) /\ ~\E b \in {b0, b1, b2, b3, b4} : b <= 0
  <2>1. max < 10^9
    BY <1>2, <1>6, SMT
  <2>2. ASSUME NEW b \in Nat, b < 10^9
        PROVE  /\ NoticeLength(b, length) = 52 + Digits(b) + Digits(length)
               /\ Digits(b) \in 1..9 /\ Digits(length) \in 1..9
               /\ next(b) = max - 52 - Digits(b) - Digits(length)
    <3>1. AtLeast(b, 0) = b
      BY SMT DEF AtLeast
    <3>2. Digits(b) \in 1..9 /\ Digits(length) \in 1..9
      BY <1>2, <2>2, DigitsTable, Zenon
    <3>3. QED
      BY <3>1, <3>2, SMT DEF NoticeLength
  <2>3. ~(b0 <= 0) /\ ~(b1 <= 0) /\ ~(b2 <= 0) /\ ~(b3 <= 0) /\ ~(b4 <= 0)
    BY <1>6, Zenon
  <2>4. out = [shown |-> b4, told |-> {b3}, length |-> b4 + NoticeLength(b3, length)]
    BY <1>3, <1>6, Zenon
  <2>5. b0 = next(max) /\ b1 = next(b0) /\ b2 = next(b1) /\ b3 = next(b2) /\ b4 = next(b3)
    BY Zenon
  <2> HIDE DEF out, b0, b1, b2, b3, b4
  <2>6. ASSUME NEW b \in Nat, b < 10^9, ~(next(b) <= 0)
        PROVE  next(b) \in Nat \ {0} /\ next(b) < 10^9 /\ next(b) <= max
               /\ max <= next(b) + 70
    <3>1. /\ Digits(b) \in 1..9 /\ Digits(length) \in 1..9
          /\ next(b) = max - 52 - Digits(b) - Digits(length)
      BY <2>2, <2>6, Zenon
    <3> HIDE DEF next
    <3>2. QED
      BY <2>1, <2>6, <3>1, Powers, SMT
  <2> DEFINE ok(b) == b \in Nat \ {0} /\ b < 10^9 /\ b <= max /\ max <= b + 70
  <2>7. ok(b0) /\ ok(b1) /\ ok(b2) /\ ok(b3) /\ ok(b4)
    <3>1. ok(b0)
      BY <2>1, <2>3, <2>5, <2>6
    <3>2. ok(b1)
      BY <2>3, <2>5, <2>6, <3>1
    <3>3. ok(b2)
      BY <2>3, <2>5, <2>6, <3>2
    <3>4. ok(b3)
      BY <2>3, <2>5, <2>6, <3>3
    <3>5. ok(b4)
      BY <2>3, <2>5, <2>6, <3>4
    <3>6. QED
      BY <3>1, <3>2, <3>3, <3>4, <3>5
  <2>8. /\ Digits(max) \in 1..9 /\ Digits(length) \in 1..9
        /\ b0 = max - 52 - Digits(max) - Digits(length)
    BY <2>1, <2>2, <2>5
  <2>9. /\ Digits(b0) \in 1..9 /\ Digits(b1) \in 1..9 /\ Digits(b2) \in 1..9
        /\ Digits(b3) \in 1..9
        /\ b1 = max - 52 - Digits(b0) - Digits(length)
        /\ b2 = max - 52 - Digits(b1) - Digits(length)
        /\ b3 = max - 52 - Digits(b2) - Digits(length)
        /\ b4 = max - 52 - Digits(b3) - Digits(length)
        /\ NoticeLength(b3, length) = 52 + Digits(b3) + Digits(length)
    BY <2>2, <2>5, <2>7
  <2> HIDE DEF next
  <2>10. b1 - b0 \in {0, 1}
    <3>1. Digits(b0) <= Digits(max) /\ Digits(max) <= Digits(b0) + 1
      BY <2>1, <2>7, DigitsGrow, DigitsLeft
    <3>2. QED
      BY <2>8, <2>9, <3>1
  <2>11. b1 - b2 \in {0, 1}
    <3>1. b0 <= b1 /\ b1 <= b0 + 1
      BY <2>7, <2>10
    <3>2. Digits(b0) <= Digits(b1) /\ Digits(b1) <= Digits(b0) + 1
      BY <2>7, <3>1, DigitsGrow
    <3>3. QED
      BY <2>8, <2>9, <3>2
  <2>12. b3 - b2 \in {0, 1}
    <3>1. b2 <= b1 /\ b1 <= b2 + 1
      BY <2>7, <2>11
    <3>2. Digits(b2) <= Digits(b1) /\ Digits(b1) <= Digits(b2) + 1
      BY <2>7, <3>1, DigitsGrow
    <3>3. QED
      BY <2>8, <2>9, <3>2
  <2>13. b3 - b4 \in {0, 1}
    <3>1. b2 <= b3 /\ b3 <= b2 + 1
      BY <2>7, <2>12
    <3>2. Digits(b2) <= Digits(b3) /\ Digits(b3) <= Digits(b2) + 1
      BY <2>7, <3>1, DigitsGrow
    <3>3. QED
      BY <2>8, <2>9, <3>2
  <2>14. b4 + NoticeLength(b3, length) = max
    BY <2>7, <2>8, <2>9
  <2>15. QED
    BY <1>2, <1>6, <2>4, <2>7, <2>13, <2>14, SMT DEF Fitting
<1>7. QED
  BY <1>4, <1>5, <1>6

-----------------------------------------------------------------------------
(* Types *)

\* The settings chosen at the start are legal, the last output fits them.
OutputInv == /\ maxOutputChars \in MaxOutputs
             /\ printed \in Nat /\ Fitting(output, printed, maxOutputChars)

\* Every output is one truncateOutput returned for the setting.
LEMMA OutputInvariant == Spec => []OutputInv
<1>a. \A n \in MaxOutputs : n \in Nat \ {0}
  BY ExecutorAssumption
<1>b. 0 \in 0..MaxStringLength /\ Sizes \subseteq 0..MaxStringLength
  BY LengthsAreShort, ExecutorAssumption
<1>1. Init => OutputInv
  BY <1>a, <1>b, TruncatedFits DEF Init, OutputInv
<1>2. OutputInv /\ [Next]_vars => OutputInv'
  <2> SUFFICES ASSUME OutputInv, [Next]_vars PROVE OutputInv'
    OBVIOUS
  <2>1. ASSUME NEW r \in Runs, NEW length \in Sizes, Complete(r, length)
        PROVE  OutputInv'
    BY <1>a, <1>b, <2>1, TruncatedFits DEF Complete, Settle, settings, OutputInv
  <2>2. CASE UNCHANGED <<settings, result>>
    BY <2>2 DEF settings, result, OutputInv
  <2>3. \/ \E r \in Runs, length \in Sizes : Complete(r, length)
        \/ UNCHANGED <<settings, result>>
    BY DEF Next, Reject, SpawnSubprocess, ReuseContainer, StartContainer,
       FailToStart, TimeOut, Abort, Lose, cleanupExpired, cleanup, Tick,
       ContainerDies, Settle, Started, vars
  <2>4. QED
    BY <2>1, <2>2, <2>3
<1>3. QED
  BY <1>1, <1>2, PTL DEF Spec

\* Whatever is printed, what execute returns fits the limit and does not
\* mis-state what it shows.
THEOREM OutputsFit == Spec => []OutputFits
<1>1. OutputInv => OutputFits
  BY DEF OutputInv, Fitting, OutputFits
<1>2. QED
  BY <1>1, OutputInvariant, PTL

\* What the sandbox knows of is one container at most, named after a run.
LEMMA Names ==
  ASSUME containerId \in Containers
  PROVE  /\ Known \subseteq Runs
         /\ \A c \in Known : c = containerId
         /\ containerId # "none" => containerId \in Known
  BY DEF Known, Containers

\* A finished run leaves the types of the run variables.
LEMMA SettleType ==
  ASSUME TypeOK, NEW r \in Runs, Settle(r)
  PROVE  /\ status' \in [Runs -> {"new", "running", "settled"}]
         /\ home' \in [Runs -> Containers \cup {"host"}]
         /\ age' \in [Runs -> 0..executionTimeout']
         /\ UNCHANGED <<settings, idle, armed, died, closed>>
<1>1. executionTimeout \in Nat \ {0} /\ UNCHANGED executionTimeout
  BY ExecutorAssumption DEF TypeOK, Settle, settings
<1>2. 0 \in 0..executionTimeout
  BY <1>1
<1>3. age' \in [Runs -> 0..executionTimeout]
  BY <1>2 DEF TypeOK, Settle
<1>4. "none" \in Containers
  BY DEF Containers
<1>5. home' \in [Runs -> Containers \cup {"host"}]
  BY <1>4 DEF TypeOK, Settle
<1>6. status' \in [Runs -> {"new", "running", "settled"}]
  BY DEF TypeOK, Settle
<1>7. QED
  BY <1>1, <1>3, <1>5, <1>6 DEF Settle

\* So does a run that starts somewhere.
LEMMA StartedType ==
  ASSUME TypeOK, NEW r \in Runs, NEW where \in Containers \cup {"host"}, Started(r, where)
  PROVE  /\ status' \in [Runs -> {"new", "running", "settled"}]
         /\ home' \in [Runs -> Containers \cup {"host"}]
         /\ UNCHANGED <<settings, armed, age, result, died, closed>>
<1>1. home' \in [Runs -> Containers \cup {"host"}]
  BY DEF TypeOK, Started
<1>2. status' \in [Runs -> {"new", "running", "settled"}]
  BY DEF TypeOK, Started
<1>3. QED
  BY <1>1, <1>2 DEF Started

\* docker stop leaves a set of containers.
LEMMA StopType ==
  ASSUME TypeOK, NEW works, stopContainerNow(works)
  PROVE  containerId' \in Containers /\ up' \subseteq Runs /\ unstopped' \subseteq Runs
  BY Names DEF TypeOK, stopContainerNow, LeftUp, Containers

\* Each step keeps every variable in its type; what execute returns has been
\* dealt with above.
LEMMA TypeStep == TypeOK /\ OutputInv' /\ [Next]_vars => TypeOK'
<1> SUFFICES ASSUME TypeOK, OutputInv', [Next]_vars PROVE TypeOK'
  OBVIOUS
<1>a. /\ output'.shown \in Nat /\ output'.told \subseteq Nat /\ output'.length \in Nat
      /\ printed' \in Nat /\ maxOutputChars' \in MaxOutputs
  BY DEF OutputInv, Fitting
<1>b. EXECUTION_TIMEOUT \in Nat \ {0} /\ 0 \in 0..EXECUTION_TIMEOUT + 1
  BY ExecutorAssumption
<1>c. executionTimeout \in Nat \ {0}
  BY ExecutorAssumption DEF TypeOK
<1>d. \A r \in Runs : Settle(r) /\ UNCHANGED containerVars => TypeOK'
  BY <1>a, SettleType DEF TypeOK, settings, containerVars
<1>1. ASSUME NEW r \in Runs, Reject(r) \/ TimeOut(r) \/ Abort(r) \/ Lose(r)
      PROVE  TypeOK'
  BY <1>d, <1>1 DEF Reject, TimeOut, Abort, Lose
<1>2. ASSUME NEW r \in Runs, NEW length \in Sizes, Complete(r, length) PROVE TypeOK'
  BY <1>d, <1>2 DEF Complete
<1>3. ASSUME NEW r \in Runs, SpawnSubprocess(r) PROVE TypeOK'
  BY <1>a, <1>3, StartedType DEF SpawnSubprocess, TypeOK, settings, containerVars
<1>4. ASSUME NEW r \in Runs, ReuseContainer(r) PROVE TypeOK'
  <2>1. containerId \in Containers \cup {"host"} /\ Started(r, containerId)
        /\ idle' = 0 /\ UNCHANGED containerVars
    BY <1>4 DEF ReuseContainer, TypeOK
  <2>2. QED
    BY <1>a, <1>b, <2>1, StartedType DEF TypeOK, settings, containerVars
<1>5. ASSUME NEW r \in Runs, NEW works \in BOOLEAN, StartContainer(r, works) PROVE TypeOK'
  <2>1. /\ r \in Containers /\ Started(r, r) /\ idle' = 0 /\ UNCHANGED unstopped
        /\ containerId' = r /\ up' \subseteq Runs
    BY <1>5 DEF StartContainer, TypeOK, Containers
  <2>2. QED
    BY <1>a, <1>b, <2>1, StartedType DEF TypeOK, settings
<1>6. ASSUME NEW r \in Runs, NEW works \in BOOLEAN, FailToStart(r, works) PROVE TypeOK'
  BY <1>a, <1>6, StopType, SettleType DEF FailToStart, TypeOK, settings
<1>7. ASSUME NEW works \in BOOLEAN, cleanupExpired(works) \/ cleanup(works) PROVE TypeOK'
  <2>1. /\ stopContainerNow(works) /\ UNCHANGED <<settings, idle, runVars, died>>
        /\ armed' \in BOOLEAN /\ closed' \in BOOLEAN
    BY <1>7 DEF cleanupExpired, cleanup, TypeOK
  <2>2. QED
    BY <1>a, <2>1, StopType DEF TypeOK, settings, runVars
<1>8. CASE Tick
  <2>1. idle' \in 0..EXECUTION_TIMEOUT + 1
    BY <1>8, <1>b DEF Tick, Cap, TypeOK
  <2>2. age' \in [Runs -> 0..executionTimeout]
    BY <1>8, <1>c DEF Tick, TypeOK
  <2>3. QED
    BY <1>8, <1>a, <2>1, <2>2 DEF Tick, TypeOK, settings, containerVars
<1>9. ASSUME NEW c \in Runs, ContainerDies(c) PROVE TypeOK'
  BY <1>a, <1>9 DEF ContainerDies, TypeOK, settings, runVars
<1>10. CASE UNCHANGED vars
  BY <1>10 DEF vars, settings, containerVars, runVars, result, TypeOK
<1>11. QED
  BY <1>1, <1>2, <1>3, <1>4, <1>5, <1>6, <1>7, <1>8, <1>9, <1>10 DEF Next

\* Every reachable state of the executor and its sandbox is well typed.
THEOREM ExecutorTypes == Spec => []TypeOK
<1>1. Init /\ OutputInv => TypeOK
  <2> SUFFICES ASSUME Init, OutputInv PROVE TypeOK
    OBVIOUS
  <2>1. /\ EXECUTION_TIMEOUT \in Nat /\ executionTimeout \in Nat
        /\ idle \in 0..EXECUTION_TIMEOUT + 1 /\ 0 \in 0..executionTimeout
    BY ExecutorAssumption DEF Init
  <2>2. sandbox \in {"docker", "subprocess", "refused"} /\ armed \in BOOLEAN
    BY DEF Init, createSandbox
  <2>3. /\ status \in [Runs -> {"new", "running", "settled"}]
        /\ home \in [Runs -> Containers \cup {"host"}]
        /\ age \in [Runs -> 0..executionTimeout]
    BY <2>1 DEF Init, Containers
  <2>4. /\ output.shown \in Nat /\ output.told \subseteq Nat /\ output.length \in Nat
        /\ printed \in Nat
    BY DEF OutputInv, Fitting
  <2>5. QED
    BY <2>1, <2>2, <2>3, <2>4 DEF Init, TypeOK, Containers
<1>2. QED
  BY <1>1, TypeStep, OutputInvariant, PTL DEF Spec

-----------------------------------------------------------------------------
(* Containers *)

\* The invariants about containers read what is up, what is known and what has
\* gone wrong.
ContainerInv == TypeOK /\ KnownContainerIsUp /\ NoContainerIsForgotten

\* docker stop, called on the container the sandbox knows, accounts for it.
LEMMA StopAccounts ==
  ASSUME ContainerInv, NEW works, stopContainerNow(works), UNCHANGED died
  PROVE  KnownContainerIsUp' /\ NoContainerIsForgotten'
<1>1. Known' = {}
  BY DEF stopContainerNow, Known
<1>2. NoContainerIsForgotten'
  BY <1>1 DEF stopContainerNow, NoContainerIsForgotten, ContainerInv, LeftUp
<1>3. QED
  BY <1>1, <1>2 DEF KnownContainerIsUp

\* Every step keeps both invariants.
LEMMA ContainerStep ==
  ContainerInv /\ [Next]_vars => KnownContainerIsUp' /\ NoContainerIsForgotten'
<1> SUFFICES ASSUME ContainerInv, [Next]_vars
             PROVE  KnownContainerIsUp' /\ NoContainerIsForgotten'
  OBVIOUS
<1>1. CASE UNCHANGED <<containerVars, died>>
  BY <1>1 DEF containerVars, ContainerInv, KnownContainerIsUp, NoContainerIsForgotten, Known
<1>2. ASSUME NEW r \in Runs, NEW works \in BOOLEAN, StartContainer(r, works)
      PROVE  KnownContainerIsUp' /\ NoContainerIsForgotten'
  <2>1. Known' \subseteq {r} /\ up' = (up \ Known) \cup {r} /\ UNCHANGED <<unstopped, died>>
    BY <1>2 DEF StartContainer, Started, Known
  <2>2. r \in Known'
    BY <1>2, ExecutorAssumption DEF StartContainer, Known
  <2>3. QED
    BY <2>1, <2>2 DEF ContainerInv, KnownContainerIsUp, NoContainerIsForgotten
<1>3. ASSUME NEW r \in Runs, NEW works \in BOOLEAN, FailToStart(r, works)
      PROVE  KnownContainerIsUp' /\ NoContainerIsForgotten'
  BY <1>3, StopAccounts DEF FailToStart, Settle
<1>4. ASSUME NEW works \in BOOLEAN, cleanupExpired(works) \/ cleanup(works)
      PROVE  KnownContainerIsUp' /\ NoContainerIsForgotten'
  BY <1>4, StopAccounts DEF cleanupExpired, cleanup
<1>5. ASSUME NEW c \in Runs, ContainerDies(c)
      PROVE  KnownContainerIsUp' /\ NoContainerIsForgotten'
  BY <1>5 DEF ContainerDies, ContainerInv, KnownContainerIsUp, NoContainerIsForgotten, Known
<1>6. \/ UNCHANGED <<containerVars, died>>
      \/ \E r \in Runs, works \in BOOLEAN : StartContainer(r, works) \/ FailToStart(r, works)
      \/ \E works \in BOOLEAN : cleanupExpired(works) \/ cleanup(works)
      \/ \E c \in Runs : ContainerDies(c)
  BY DEF Next, Reject, SpawnSubprocess, ReuseContainer, Complete, TimeOut,
     Abort, Lose, Tick, Settle, Started, vars
<1>7. QED
  BY <1>1, <1>2, <1>3, <1>4, <1>5, <1>6

\* Both invariants hold together with the types.
LEMMA ContainerInvariant == Spec => []ContainerInv
<1>1. Init => KnownContainerIsUp /\ NoContainerIsForgotten
  BY DEF Init, KnownContainerIsUp, NoContainerIsForgotten, Known
<1>2. TypeOK /\ KnownContainerIsUp /\ NoContainerIsForgotten <=> ContainerInv
  BY DEF ContainerInv
<1>3. QED
  BY <1>1, <1>2, ContainerStep, ExecutorTypes, PTL DEF Spec

\* ensureContainer hands out only containers that are up or have died on their own.
THEOREM KnownIsUp == Spec => []KnownContainerIsUp
<1>1. ContainerInv => KnownContainerIsUp
  BY DEF ContainerInv
<1>2. QED
  BY <1>1, ContainerInvariant, PTL

\* Only a docker stop that failed leaves a container behind.
THEOREM NoneLeftBehind == Spec => []NoContainerIsForgotten
<1>1. ContainerInv => NoContainerIsForgotten
  BY DEF ContainerInv
<1>2. QED
  BY <1>1, ContainerInvariant, PTL

-----------------------------------------------------------------------------
(* Running programs *)

\* A program in a container has run at least as long as the sandbox has been
\* idle: lastUsed is set whenever one starts.
IdleIsYounger == \A r \in Runs : Running(r) /\ home[r] # "host" => age[r] >= idle

RunInv == ContainerInv /\ IdleIsYounger

\* A step after which the same runs or fewer are running, where and for as long
\* as before.
LEMMA IdleQuiet ==
  ASSUME IdleIsYounger, UNCHANGED idle,
         \A r \in Runs : status'[r] = "running" =>
           status[r] = "running" /\ home'[r] = home[r] /\ age'[r] = age[r]
  PROVE  IdleIsYounger'
  BY DEF IdleIsYounger, Running

\* Every step keeps the sandbox's idle time below every program's age.
LEMMA IdleStep == TypeOK /\ TypeOK' /\ IdleIsYounger /\ [Next]_vars => IdleIsYounger'
<1> SUFFICES ASSUME TypeOK, TypeOK', IdleIsYounger, [Next]_vars PROVE IdleIsYounger'
  OBVIOUS
<1>a. executionTimeout \in Nat /\ EXECUTION_TIMEOUT \in Nat
      /\ executionTimeout' \in Nat
  BY ExecutorAssumption DEF TypeOK
<1>b. \A r \in Runs : age[r] \in Nat /\ age'[r] \in Nat /\ idle \in Nat
  BY <1>a DEF TypeOK
<1>1. ASSUME NEW r \in Runs, Settle(r) PROVE IdleIsYounger'
  <2>1. \A q \in Runs : status'[q] = "running" =>
          status[q] = "running" /\ home'[q] = home[q] /\ age'[q] = age[q]
    BY <1>1 DEF Settle, TypeOK
  <2>2. QED
    BY <1>1, <2>1, IdleQuiet DEF Settle
<1>2. ASSUME NEW r \in Runs, SpawnSubprocess(r) PROVE IdleIsYounger'
  BY <1>2 DEF SpawnSubprocess, Started, IdleIsYounger, Running, TypeOK
<1>3. CASE idle' = 0
  BY <1>b, <1>3 DEF IdleIsYounger
<1>4. CASE Tick
  <2> SUFFICES ASSUME NEW r \in Runs, status'[r] = "running", home'[r] # "host"
               PROVE  age'[r] >= idle'
    BY DEF IdleIsYounger, Running
  <2>1. age'[r] = age[r] + 1 /\ age[r] >= idle
    BY <1>4 DEF Tick, IdleIsYounger, Running, TypeOK
  <2>2. idle' <= idle + 1 /\ idle' \in Nat
    BY <1>4, <1>a, <1>b DEF Tick, Cap
  <2>3. QED
    BY <1>b, <2>1, <2>2
<1>5. CASE UNCHANGED <<idle, status, home, age>>
  BY <1>5, IdleQuiet
<1>6. \/ \E r \in Runs : Settle(r) \/ SpawnSubprocess(r)
      \/ idle' = 0 \/ Tick \/ UNCHANGED <<idle, status, home, age>>
  BY DEF Next, Reject, ReuseContainer, StartContainer, FailToStart, Complete,
     TimeOut, Abort, Lose, cleanupExpired, cleanup, ContainerDies, runVars, vars
<1>7. QED
  BY <1>1, <1>2, <1>3, <1>4, <1>5, <1>6

\* The idle time is known along with the containers.
LEMMA RunInvariant == Spec => []RunInv
<1>1. Init => IdleIsYounger
  BY DEF Init, IdleIsYounger, Running
<1>2. Spec => []IdleIsYounger
  BY <1>1, IdleStep, ExecutorTypes, PTL DEF Spec
<1>3. QED
  BY <1>2, ContainerInvariant, PTL DEF RunInv

ContainerKept ==
  \A r \in Runs :
    (Running(r) /\ home[r] \in up /\ home[r] \notin up') =>
      \/ home[r] \in died'
      \/ \E works \in BOOLEAN : cleanup(works)
      \/ age[r] > EXECUTION_TIMEOUT

\* The container a running program loses has died, is the one cleanup stops, or
\* is stopped for having been idle: longer than EXECUTION_TIMEOUT, so the
\* program is older than that.
LEMMA KeepStep == RunInv /\ [Next]_vars => ContainerKept
<1> SUFFICES ASSUME RunInv, [Next]_vars, NEW r \in Runs,
                    Running(r), home[r] \in up, home[r] \notin up'
             PROVE  \/ home[r] \in died'
                    \/ \E works \in BOOLEAN : cleanup(works)
                    \/ age[r] > EXECUTION_TIMEOUT
  BY DEF ContainerKept
<1>a. /\ TypeOK /\ age[r] >= idle /\ age[r] \in Nat /\ idle \in Nat
      /\ EXECUTION_TIMEOUT \in Nat
  BY ExecutorAssumption DEF RunInv, ContainerInv, IdleIsYounger, TypeOK
<1>1. ASSUME idle > EXECUTION_TIMEOUT PROVE age[r] > EXECUTION_TIMEOUT
  BY <1>a, <1>1
<1>2. ASSUME NEW q \in Runs, NEW works \in BOOLEAN,
             StartContainer(q, works) \/ FailToStart(q, works)
      PROVE  age[r] > EXECUTION_TIMEOUT
  <2>1. ~Reusable /\ home[r] \in Known
    BY <1>2 DEF StartContainer, FailToStart, stopContainerNow
  <2>2. idle > EXECUTION_TIMEOUT
    BY <1>a, <2>1 DEF Reusable, Known
  <2>3. QED
    BY <1>1, <2>2
<1>3. ASSUME NEW works \in BOOLEAN, cleanupExpired(works)
      PROVE  age[r] > EXECUTION_TIMEOUT
  BY <1>1, <1>3 DEF cleanupExpired
<1>4. ASSUME NEW c \in Runs, ContainerDies(c) PROVE home[r] \in died'
  BY <1>4 DEF ContainerDies
<1>5. \/ \E q \in Runs, works \in BOOLEAN : StartContainer(q, works) \/ FailToStart(q, works)
      \/ \E works \in BOOLEAN : cleanupExpired(works) \/ cleanup(works)
      \/ \E c \in Runs : ContainerDies(c)
  BY DEF Next, Reject, SpawnSubprocess, ReuseContainer, Complete, TimeOut,
     Abort, Lose, Tick, vars, containerVars
<1>6. QED
  BY <1>2, <1>3, <1>4, <1>5

\* For any timeouts and any overlap of runs, a program in its first
\* EXECUTION_TIMEOUT keeps the container it runs in.
THEOREM RunsKeepContainers == Spec => RunsKeepTheirContainer
<1>1. RunInv /\ [Next]_vars => [ContainerKept]_vars
  BY KeepStep
<1>2. Spec => [][ContainerKept]_vars
  BY <1>1, RunInvariant, PTL DEF Spec
<1>3. QED
  BY <1>2 DEF RunsKeepTheirContainer, ContainerKept

=============================================================================
