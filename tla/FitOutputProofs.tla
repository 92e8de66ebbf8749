---------------------------- MODULE FitOutputProofs ----------------------------
(***************************************************************************)
(* Theorems about FitOutput for every value, limit and request: nothing is *)
(* assumed of a text but that JSON makes none of its characters shorter.   *)
(***************************************************************************)
EXTENDS FitOutput, FiniteSetTheorems, TLAPS

\* A longer number has no fewer digits.
LEMMA DigitsGrow ==
  ASSUME NEW m \in Nat, NEW n \in Nat, m <= n
  PROVE  Digits(m) \in Nat /\ Digits(n) \in Nat /\ Digits(m) <= Digits(n)
<1> DEFINE P(x) == {k \in 1..8 : 10^k <= x}
<1>1. P(m) \subseteq P(n)
  <2>1. \A k \in 1..8 : 10^k \in Nat
    <3>1. /\ 10^1 = 10 /\ 10^2 = 100 /\ 10^3 = 1000 /\ 10^4 = 10000
          /\ 10^5 = 100000 /\ 10^6 = 1000000 /\ 10^7 = 10000000 /\ 10^8 = 100000000
      BY SMT
    <3>2. /\ 10^1 \in Nat /\ 10^2 \in Nat /\ 10^3 \in Nat /\ 10^4 \in Nat
          /\ 10^5 \in Nat /\ 10^6 \in Nat /\ 10^7 \in Nat /\ 10^8 \in Nat
      BY <3>1, SMT
    <3>3. 1..8 = {1, 2, 3, 4, 5, 6, 7, 8}
      BY SMT
    <3>4. QED
      BY <3>2, <3>3, Zenon
  <2>2. QED
    BY <2>1
<1>2. IsFiniteSet(P(m)) /\ IsFiniteSet(P(n))
  <2>1. IsFiniteSet(1..8)
    <3>1. 1 \in Int /\ 8 \in Int
      OBVIOUS
    <3>2. QED
      BY <3>1, FS_Interval, Zenon
  <2>2. P(m) \subseteq 1..8 /\ P(n) \subseteq 1..8
    OBVIOUS
  <2>3. QED
    BY <2>1, <2>2, FS_Subset, Zenon
<1>3. Cardinality(P(m)) \in Nat /\ Cardinality(P(n)) \in Nat
  BY <1>2, FS_CardinalityType, Zenon
<1>4. Cardinality(P(m)) <= Cardinality(P(n))
  BY <1>1, <1>2, FS_Subset, Zenon
<1>5. Digits(m) = 1 + Cardinality(P(m)) /\ Digits(n) = 1 + Cardinality(P(n))
  BY Zenon DEF Digits
<1> HIDE DEF P
<1>6. QED
  BY <1>3, <1>4, <1>5

\* What is assumed of a value.
LEMMA ValueFields ==
  ASSUME NEW v \in Values
  PROVE  /\ v.whole \in Nat /\ v.frame \in Nat /\ v.minimal \in Nat /\ v.text \in Nat \ {0}
         /\ \A n \in 0..v.text : v.json[n] \in Nat
         /\ \A m, n \in 0..v.text : m <= n => v.json[n] - v.json[m] >= n - m
  BY FitAssumption
\* A number of digits is a number.
LEMMA DigitsType == ASSUME NEW n \in Nat PROVE Digits(n) \in Nat
  BY DigitsGrow

-----------------------------------------------------------------------------
(* The loop *)

\* What the loop has: the whole text, or one that has been cut and fits, or of
\* which one character is left.
Cut ==
  /\ value.whole > limit /\ previewChars = kept + dots
  /\ dots = 0 => kept = value.text
  /\ dots > 0 => /\ dots = 3 /\ kept >= 1 /\ value.text > 4
                 /\ Length <= limit \/ kept = 1

LoopInv ==
  /\ at \in {"start", "whole"} => dots = 0 /\ shape = "none"
  /\ at \in {"whole", "loop"} => limit \in 1..SessionLimit
  /\ at = "loop" => shape = "none"
  /\ at = "loop" \/ Returned({"text", "minimal", "bare"}) => Cut

FitInv == TypeOK /\ LoopInv /\ FitsTheLimit

\* The measured length is a number.
LEMMA LengthType ==
  ASSUME TypeOK
  PROVE  /\ Length \in Nat
         /\ \A n \in 0..value.text, c \in Nat : TextLength(n, 3, c) \in Nat
<1>1. \A n \in 0..value.text : value.json[n] \in Nat
  BY ValueFields DEF TypeOK
<1>2. value.frame \in Nat /\ kept \in 0..value.text /\ dots \in Nat /\ previewChars \in Nat
  BY ValueFields DEF TypeOK
<1>3. \A c \in Nat : Digits(c) \in Nat
  BY DigitsType
<1>4. QED
  BY <1>1, <1>2, <1>3 DEF Length, TextLength

\* A text that has been cut is not cut again.
LEMMA CutOnce ==
  ASSUME TypeOK, LoopInv, Shrink
  PROVE  dots = 0 /\ kept = value.text /\ kept > 4
<1>1. at = "loop" /\ Length > limit /\ kept + dots > 4 /\ Cut
  BY DEF Shrink, LoopInv
<1>2. kept \in Nat /\ dots \in Nat /\ limit \in Nat /\ Length \in Nat
  BY LengthType, ValueFields DEF TypeOK
<1>3. ~(dots > 0)
  <2>1. SUFFICES ASSUME dots > 0 PROVE FALSE
    OBVIOUS
  <2>2. dots = 3 /\ (Length <= limit \/ kept = 1)
    BY <1>1, <2>1 DEF Cut
  <2>3. QED
    BY <1>1, <1>2, <2>2
<1>4. dots = 0
  BY <1>2, <1>3
<1>5. QED
  BY <1>1, <1>2, <1>4 DEF Cut

\* One round of the loop: the text is shorter, and fits or is down to a character.
LEMMA RoundFits ==
  ASSUME TypeOK, LoopInv, Shrink
  PROVE  /\ kept' \in 1..value.text /\ dots' = 3
         /\ previewChars' = kept' + 3 /\ previewChars' \in Nat
         /\ Length' <= limit \/ kept' = 1
<1> DEFINE by == AtLeast(Length - limit + 3, 8)
           next == AtLeast(kept + dots - by, 1)
<1>1. dots = 0 /\ kept = value.text /\ kept > 4 /\ kept \in Nat /\ limit \in Nat
      /\ Length \in Nat /\ Length > limit /\ value \in Values
  BY CutOnce, LengthType, ValueFields DEF TypeOK, Shrink
<1>2. /\ kept' = AtMost(next, kept) /\ dots' = next - kept' + 3 /\ previewChars' = next + 3
      /\ UNCHANGED <<value, limit>>
  BY DEF Shrink
<1>3. by \in Nat /\ by >= 8 /\ by >= Length - limit + 3
  BY <1>1 DEF AtLeast
<1> HIDE DEF by
<1>4. next \in 1..kept /\ (next = 1 \/ next = kept - by)
  BY <1>1, <1>3 DEF AtLeast
<1> HIDE DEF next
<1>5. kept' = next /\ dots' = 3 /\ previewChars' = next + 3
  BY <1>1, <1>2, <1>4 DEF AtMost
<1>6. CASE next = 1
  BY <1>1, <1>5, <1>6
<1>7. CASE next = kept - by
  <2>1. /\ value.frame \in Nat /\ value.json[kept] \in Nat /\ value.json[next] \in Nat
        /\ value.json[kept] - value.json[next] >= by
    <3>1. next \in 0..value.text /\ kept \in 0..value.text /\ next <= kept /\ kept - next = by
      BY <1>1, <1>3, <1>4, <1>7
    <3>2. value.json[kept] - value.json[next] >= kept - next
      BY <1>1, <3>1, ValueFields
    <3>3. QED
      BY <1>1, <3>1, <3>2, ValueFields
  <2>2. previewChars = kept
    BY <1>1 DEF LoopInv, Shrink, Cut
  <2>3. Digits(next + 3) \in Nat /\ Digits(kept) \in Nat /\ Digits(next + 3) <= Digits(kept)
    <3>1. next + 3 \in Nat /\ next + 3 <= kept
      BY <1>1, <1>3, <1>4, <1>7
    <3>2. QED
      BY <1>1, <3>1, DigitsGrow
  <2>4. Length = value.frame + value.json[kept] + 0 + Digits(kept)
    BY <1>1, <2>2 DEF Length, TextLength
  <2>5. Length' = value.frame + value.json[next] + 3 + Digits(next + 3)
    BY <1>2, <1>5 DEF Length, TextLength
  <2>6. Length' <= limit
    BY <1>1, <1>3, <2>1, <2>3, <2>4, <2>5
  <2>7. QED
    BY <1>1, <1>4, <1>5, <2>6
<1>8. QED
  BY <1>4, <1>6, <1>7

\* Down to a character, no shorter text than the value's fits.
LEMMA NoTextFits ==
  ASSUME TypeOK, Cut, Length > limit, kept + dots <= 4,
         NEW n \in 1..(value.text - 4)
  PROVE  TextLength(n, 3, n + 3) > limit
<1>1. /\ value \in Values /\ value.text \in Nat /\ value.frame \in Nat /\ kept \in Nat
      /\ dots \in Nat /\ limit \in Nat
  BY ValueFields DEF TypeOK
<1>2. dots = 3 /\ kept = 1
  BY <1>1 DEF Cut
<1>3. previewChars = 4
  BY <1>2 DEF Cut
<1>4. Length = value.frame + value.json[1] + 3 + Digits(4)
  BY <1>2, <1>3 DEF Length, TextLength
<1>5. /\ value.json[1] \in Nat /\ value.json[n] \in Nat
      /\ value.json[n] >= value.json[1]
  <2>1. 1 \in 0..value.text /\ n \in 0..value.text /\ 1 <= n
    BY <1>1
  <2>2. value.json[n] - value.json[1] >= n - 1
    BY <1>1, <2>1, ValueFields
  <2>3. value.json[1] \in Nat /\ value.json[n] \in Nat
    BY <1>1, <2>1, ValueFields
  <2>4. QED
    BY <2>1, <2>2, <2>3
<1>6. Digits(4) \in Nat /\ Digits(n + 3) \in Nat /\ Digits(4) <= Digits(n + 3)
  <2>1. n + 3 \in Nat /\ 4 <= n + 3
    BY <1>1
  <2>2. QED
    BY <2>1, DigitsGrow
<1>7. TextLength(n, 3, n + 3) = value.frame + value.json[n] + 3 + Digits(n + 3)
  BY DEF TextLength
<1>8. value.frame + value.json[n] + 3 + Digits(n + 3) > limit
  BY <1>1, <1>4, <1>5, <1>6
<1>9. QED
  BY <1>7, <1>8
-----------------------------------------------------------------------------
(* The invariant *)

\* The session's limit is at least one character.
LEMMA SessionLimitType == SessionLimit \in Nat \ {0}
  BY FitAssumption DEF SessionLimit, AtLeast

\* The invariant holds at first.
LEMMA FitInit == Init => FitInv
<1> SUFFICES ASSUME Init PROVE FitInv
  OBVIOUS
<1>1. TypeOK
  BY ValueFields DEF Init, TypeOK
<1>2. LoopInv /\ FitsTheLimit
  BY DEF Init, LoopInv, FitsTheLimit, Returned
<1>3. QED
  BY <1>1, <1>2 DEF FitInv

\* Normalising the limit keeps the invariant.
LEMMA NormalizeKeeps == FitInv /\ Normalize => FitInv'
<1> SUFFICES ASSUME FitInv, Normalize PROVE FitInv'
  OBVIOUS
<1>1. at = "start" /\ dots = 0 /\ shape = "none" /\ UNCHANGED <<request, value, kept, dots, previewChars>>
  BY DEF FitInv, LoopInv, Normalize
<1>2. TypeOK
  BY DEF FitInv
<1>3. CASE at' = "done" /\ shape' = "raised" /\ UNCHANGED limit
  <2>1. TypeOK'
    BY <1>1, <1>2, <1>3 DEF TypeOK
  <2>2. LoopInv' /\ FitsTheLimit'
    BY <1>1, <1>3 DEF LoopInv, FitsTheLimit, Returned
  <2>3. QED
    BY <2>1, <2>2 DEF FitInv
<1>4. CASE ~\E n \in request : n < 1
  <2>1. at' = "whole" /\ UNCHANGED shape
    BY <1>4 DEF Normalize
  <2>2. limit' \in 1..SessionLimit
    <3>1. CASE request = {} /\ limit' = SessionLimit
      BY <3>1, SessionLimitType
    <3>2. CASE \E n \in request : limit' = AtMost(n, SessionLimit)
      <4>1. PICK n \in request : limit' = AtMost(n, SessionLimit)
        BY <3>2
      <4>2. n \in Int /\ n >= 1
        BY <1>2, <1>4, FitAssumption DEF TypeOK
      <4>3. QED
        BY <4>1, <4>2, SessionLimitType DEF AtMost
    <3>3. QED
      BY <1>4, <3>1, <3>2 DEF Normalize
  <2>3. limit' \in Nat /\ SessionLimit' = SessionLimit
    BY <2>2, SessionLimitType DEF SessionLimit
  <2>4. TypeOK'
    BY <1>1, <1>2, <2>1, <2>3 DEF TypeOK
  <2>5. LoopInv' /\ FitsTheLimit'
    BY <1>1, <2>1, <2>2, <2>3 DEF LoopInv, FitsTheLimit, Returned
  <2>6. QED
    BY <2>4, <2>5 DEF FitInv
<1>5. QED
  BY <1>3, <1>4 DEF Normalize

\* So does measuring the whole result.
LEMMA MeasureKeeps == FitInv /\ MeasureWhole => FitInv'
<1> SUFFICES ASSUME FitInv, MeasureWhole PROVE FitInv'
  OBVIOUS
<1>1. /\ at = "whole" /\ dots = 0 /\ shape = "none" /\ limit \in 1..SessionLimit
      /\ UNCHANGED <<request, value, limit, dots>>
  BY DEF FitInv, LoopInv, MeasureWhole
<1>2. TypeOK /\ value.text \in Nat /\ value.whole \in Nat /\ limit \in Nat /\ SessionLimit' = SessionLimit
  BY ValueFields DEF FitInv, TypeOK, SessionLimit
<1>3. CASE value.whole <= limit
  <2>1. at' = "done" /\ shape' = "whole" /\ UNCHANGED <<kept, previewChars>>
    BY <1>3 DEF MeasureWhole
  <2>2. TypeOK'
    BY <1>1, <1>2, <2>1 DEF TypeOK
  <2>3. LoopInv' /\ FitsTheLimit'
    BY <1>1, <1>3, <2>1 DEF LoopInv, FitsTheLimit, Returned
  <2>4. QED
    BY <2>2, <2>3 DEF FitInv
<1>4. CASE ~(value.whole <= limit)
  <2>1. /\ kept' = value.text /\ previewChars' = value.text
        /\ at' = "loop" /\ UNCHANGED shape
    BY <1>4 DEF MeasureWhole
  <2>2. TypeOK'
    BY <1>1, <1>2, <2>1 DEF TypeOK
  <2>3. Cut'
    <3>1. value.whole > limit
      BY <1>2, <1>4
    <3>2. kept' + dots' = value.text
      BY <1>1, <1>2, <2>1
    <3>3. QED
      BY <1>1, <2>1, <3>1, <3>2 DEF Cut
  <2>4. LoopInv' /\ FitsTheLimit'
    BY <1>1, <1>2, <2>1, <2>3 DEF LoopInv, FitsTheLimit, Returned
  <2>5. QED
    BY <2>2, <2>4 DEF FitInv
<1>5. QED
  BY <1>3, <1>4

\* So does a round of the loop.
LEMMA ShrinkKeeps == FitInv /\ Shrink => FitInv'
<1> SUFFICES ASSUME FitInv, Shrink PROVE FitInv'
  OBVIOUS
<1>1. /\ kept' \in 1..value.text /\ dots' = 3
      /\ previewChars' = kept' + 3 /\ previewChars' \in Nat
      /\ Length' <= limit \/ kept' = 1
  BY RoundFits DEF FitInv
<1>2. dots = 0 /\ kept = value.text /\ kept > 4 /\ value.text \in Nat
  BY CutOnce, ValueFields DEF FitInv, TypeOK
<1>3. at = "loop" /\ UNCHANGED <<request, value, limit, at, shape>> /\ SessionLimit' = SessionLimit
  BY DEF Shrink, SessionLimit
<1>4. TypeOK'
  <2>1. kept' \in 0..value.text /\ dots' \in Nat /\ previewChars' \in Nat
    <3>1. kept' \in 1..value.text /\ value.text \in Nat
      BY <1>1, <1>2
    <3>2. kept' \in 0..value.text
      BY <3>1
    <3>3. dots' \in Nat /\ previewChars' \in Nat
      BY <1>1, Zenon
    <3>4. QED
      BY <3>2, <3>3, Zenon
  <2>2. UNCHANGED <<request, value, limit, at, shape>> /\ TypeOK
    BY <1>3 DEF FitInv
  <2>3. QED
    BY <2>1, <2>2 DEF TypeOK
<1>5. Cut'
  BY <1>1, <1>2, <1>3 DEF FitInv, LoopInv, Cut
<1>6. LoopInv' /\ FitsTheLimit'
  BY <1>3, <1>5 DEF FitInv, LoopInv, FitsTheLimit, Returned
<1>7. QED
  BY <1>4, <1>6 DEF FitInv

\* And so does what comes after it.
LEMMA FallBackKeeps == FitInv /\ FallBack => FitInv'
<1> SUFFICES ASSUME FitInv, FallBack PROVE FitInv'
  OBVIOUS
<1>1. /\ at = "loop" /\ at' = "done"
      /\ UNCHANGED <<request, value, limit, kept, dots, previewChars>>
      /\ shape' = IF Length <= limit THEN "text"
                  ELSE IF value.minimal <= limit THEN "minimal" ELSE "bare"
  BY DEF FallBack
<1>2. TypeOK /\ Cut /\ limit \in Nat /\ Length \in Nat /\ value.minimal \in Nat
  BY <1>1, LengthType, ValueFields DEF FitInv, LoopInv, TypeOK
<1>3. Length' = Length /\ Cut' /\ \A n \in 1..(value.text - 4) :
        TextLength(n, 3, n + 3)' = TextLength(n, 3, n + 3)
  BY <1>1, <1>2 DEF Length, TextLength, Cut
<1>4. ~(Length <= limit) => \A n \in 1..(value.text - 4) : TextLength(n, 3, n + 3) > limit
  <2>1. SUFFICES ASSUME ~(Length <= limit), NEW n \in 1..(value.text - 4)
                 PROVE  TextLength(n, 3, n + 3) > limit
    OBVIOUS
  <2>2. Length > limit /\ kept + dots <= 4
    BY <1>2, <2>1 DEF FallBack
  <2>3. QED
    BY <1>2, <2>2, NoTextFits
<1>5. TypeOK'
  BY <1>1, <1>2 DEF TypeOK
<1>6. LoopInv'
  BY <1>1, <1>3 DEF LoopInv
<1>7. FitsTheLimit'
  <2>1. CASE Length <= limit
    BY <1>1, <1>2, <1>3, <2>1 DEF FitsTheLimit, Returned, Cut
  <2>2. CASE ~(Length <= limit) /\ value.minimal <= limit
    BY <1>1, <1>2, <1>3, <1>4, <2>2 DEF FitsTheLimit, Returned, Cut
  <2>3. CASE ~(Length <= limit) /\ ~(value.minimal <= limit)
    BY <1>1, <1>2, <1>3, <1>4, <2>3 DEF FitsTheLimit, Returned, Cut
  <2>4. QED
    BY <2>1, <2>2, <2>3
<1>8. QED
  BY <1>5, <1>6, <1>7 DEF FitInv

\* Nothing happens in a step that changes nothing.
LEMMA StutterKeeps == FitInv /\ UNCHANGED vars => FitInv'
  BY DEF FitInv, TypeOK, LoopInv, FitsTheLimit, Cut, Length, TextLength, Returned,
         SessionLimit, vars

\* The invariant holds of every run of the function.
LEMMA FitAlways == Spec => []FitInv
<1>1. FitInv /\ [Next]_vars => FitInv'
  BY NormalizeKeeps, MeasureKeeps, ShrinkKeeps, FallBackKeeps, StutterKeeps DEF Next
<1>2. QED
  BY <1>1, FitInit, PTL DEF Spec

-----------------------------------------------------------------------------
(* Theorems *)

\* The variables of fit_output stay in their types.
THEOREM FitTypes == Spec => []TypeOK
<1>1. FitInv => TypeOK
  BY DEF FitInv
<1>2. QED
  BY <1>1, FitAlways, PTL

\* Whatever the value and the limit, what fit_output returns fits, and no more of
\* the value is given up than must be.
THEOREM ResultFits == Spec => []FitsTheLimit
<1>1. FitInv => FitsTheLimit
  BY DEF FitInv
<1>2. QED
  BY <1>1, FitAlways, PTL

\* The loop of _fit_result_to_char_budget is left after one round.
THEOREM OneRound == Spec => CutsOnce
<1>1. FitInv /\ [Next]_vars => [dots > 0 => UNCHANGED <<kept, dots>>]_vars
  <2> SUFFICES ASSUME FitInv, Next PROVE dots > 0 => UNCHANGED <<kept, dots>>
    OBVIOUS
  <2>1. CASE Normalize
    BY <2>1 DEF Normalize
  <2>2. CASE MeasureWhole
    BY <2>2 DEF FitInv, LoopInv, MeasureWhole
  <2>3. CASE Shrink
    BY <2>3, CutOnce DEF FitInv
  <2>4. CASE FallBack
    BY <2>4 DEF FallBack
  <2>5. QED
    BY <2>1, <2>2, <2>3, <2>4 DEF Next
<1>2. QED
  BY <1>1, FitAlways, PTL DEF Spec, CutsOnce
=============================================================================
