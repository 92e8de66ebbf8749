------------------------------- MODULE FitOutput -------------------------------
(***************************************************************************)
(* ptc.fit_output (python-runtime/runtime.py) by lengths: the result with  *)
(* a preview of the value, or one with the preview's text cut until it     *)
(* fits, or one of two fallbacks.  A value is given by the lengths the     *)
(* function measures; how the preview leaves out items is not modelled.    *)
(***************************************************************************)
EXTENDS Integers, FiniteSets

CONSTANTS
  max_output_chars,  \* the session's limit, as the runtime was given it
  Requests,          \* max_chars of a call, {} for None and {0} for a refused call
  Values             \* values, each a record of lengths:
                     \*   whole    the result with the preview as it is
                     \*   text     the preview as a text, and
                     \*   json[n]  its first n characters in a JSON string
                     \*   frame    the result with an empty text, without the
                     \*            digits of previewChars
                     \*   minimal  the result with three dots and no statistics

\* In a JSON string a character takes at least one place.
ASSUME FitAssumption ==
  /\ max_output_chars \in Int
  /\ \A r \in Requests : r \subseteq Int /\ Cardinality(r) <= 1
  /\ \A v \in Values :
       /\ v.whole \in Nat /\ v.frame \in Nat /\ v.minimal \in Nat /\ v.text \in Nat \ {0}
       /\ v.json \in [0..v.text -> Nat]
       /\ \A m, n \in 0..v.text : m <= n => v.json[n] - v.json[m] >= n - m

VARIABLES
  request, value,  \* the call
  limit,           \* max_chars as normalised
  kept, dots,      \* the preview's text: so many of its characters, then dots
  previewChars,    \* the length of it the result reports
  at,              \* "start", "whole", "loop", "done"
  shape            \* what is returned: "whole", "text", "minimal", "bare", or
                   \* "raised"; "none" before

vars == <<request, value, limit, kept, dots, previewChars, at, shape>>

AtLeast(n, least) == IF n < least THEN least ELSE n
AtMost(n, most) == IF n > most THEN most ELSE n

\* The number of digits of a number below 10^9.
Digits(n) == 1 + Cardinality({k \in 1..8 : 10^k <= n})

\* What _measure_json_chars says of the result with a preview of k characters and
\* d dots, c of them reported.
TextLength(k, d, c) == value.frame + value.json[k] + d + Digits(c)

Init ==
  /\ request \in Requests /\ value \in Values
  /\ limit = 0 /\ kept = 0 /\ dots = 0 /\ previewChars = 0
  /\ at = "start" /\ shape = "none"

SessionLimit == AtLeast(max_output_chars, 1)

\* _normalize_fit_output_limits
Normalize ==
  /\ at = "start"
  /\ IF \E n \in request : n < 1
     THEN at' = "done" /\ shape' = "raised" /\ UNCHANGED limit
     ELSE /\ \/ request = {} /\ limit' = SessionLimit
             \/ \E n \in request : limit' = AtMost(n, SessionLimit)
          /\ at' = "whole" /\ UNCHANGED shape
  /\ UNCHANGED <<request, value, kept, dots, previewChars>>

\* _fit_result_to_char_budget up to its loop: the result fits, or its preview
\* becomes a text.
MeasureWhole ==
  /\ at = "whole"
  /\ IF value.whole <= limit
     THEN at' = "done" /\ shape' = "whole" /\ UNCHANGED <<kept, previewChars>>
     ELSE /\ kept' = value.text /\ previewChars' = value.text
          /\ at' = "loop" /\ UNCHANGED shape
  /\ UNCHANGED <<request, value, limit, dots>>

Length == TextLength(kept, dots, previewChars)

\* Faulty variant: no room is left for the dots.
ShrinkTooLittle ==
  /\ at = "loop" /\ Length > limit /\ kept + dots > 4
  /\ LET next == AtLeast(kept + dots - AtLeast(Length - limit, 8), 1)
     IN /\ kept' = AtMost(next, kept) /\ dots' = next - kept' + 3
        /\ previewChars' = next + 3
  /\ UNCHANGED <<request, value, limit, at, shape>>

\* The body of the loop: next characters stay, and dots are put behind them.
Shrink ==
  /\ at = "loop" /\ Length > limit /\ kept + dots > 4
  /\ LET next == AtLeast(kept + dots - AtLeast(Length - limit + 3, 8), 1)
     IN /\ kept' = AtMost(next, kept) /\ dots' = next - kept' + 3
        /\ previewChars' = next + 3
  /\ UNCHANGED <<request, value, limit, at, shape>>

\* Faulty variant: a preview of as many characters as are cut off at least is
\* not cut any more.
FallBackEarly ==
  /\ at = "loop" /\ (Length <= limit \/ kept + dots <= 8)
  /\ shape' = IF Length <= limit THEN "text"
              ELSE IF value.minimal <= limit THEN "minimal" ELSE "bare"
  /\ at' = "done"
  /\ UNCHANGED <<request, value, limit, kept, dots, previewChars>>

\* After the loop.
FallBack ==
  /\ at = "loop" /\ (Length <= limit \/ kept + dots <= 4)
  /\ shape' = IF Length <= limit THEN "text"
              ELSE IF value.minimal <= limit THEN "minimal" ELSE "bare"
  /\ at' = "done"
  /\ UNCHANGED <<request, value, limit, kept, dots, previewChars>>

Next == Normalize \/ MeasureWhole \/ Shrink \/ FallBack

Spec == Init /\ [][Next]_vars

-----------------------------------------------------------------------------
(* Properties *)

\* The variables stay in their types.
TypeOK ==
  /\ request \in Requests /\ value \in Values /\ limit \in Nat
  /\ kept \in 0..value.text /\ dots \in Nat /\ previewChars \in Nat
  /\ at \in {"start", "whole", "loop", "done"}
  /\ shape \in {"none", "whole", "text", "minimal", "bare", "raised"}

Returned(shapes) == at = "done" /\ shape \in shapes

\* fit_output returns what fits the caller's limit and the session's, by the
\* length it has in the end (which depends on the digits of a number it holds),
\* and gives up no more than it must: the structure only if the whole result is
\* too long, the text only if not even one character of it and the dots fit,
\* and the last fallback, whose 47 characters nothing measures, only if the
\* first is too long.
FitsTheLimit ==
  /\ at \in {"whole", "loop"} => limit \in 1..SessionLimit
  /\ Returned({"whole"}) => value.whole <= limit
  /\ Returned({"text"}) => Length <= limit /\ previewChars = kept + dots
  /\ Returned({"minimal"}) => value.minimal <= limit
  /\ Returned({"text", "minimal", "bare"}) => value.whole > limit
  /\ Returned({"minimal", "bare"}) =>
       \A n \in 1..(value.text - 4) : TextLength(n, 3, n + 3) > limit
  /\ Returned({"bare"}) => value.minimal > limit

\* The loop that cuts the preview ends, because one round of it is enough: what
\* it takes off pays for the dots, for characters that JSON escapes and for the
\* digits of the new length.
CutsOnce == [][dots > 0 => UNCHANGED <<kept, dots>>]_vars
=============================================================================
