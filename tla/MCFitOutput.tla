------------------------------ MODULE MCFitOutput ------------------------------
\* FitOutput for TLC: texts whose characters take one place or two in JSON.
EXTENDS FitOutput

CONSTANT Texts  \* lengths of a preview's text

Quoted(k) == [n \in 0..k |-> 2 * n]
FirstQuoted(k) == [n \in 0..k |-> IF n = 0 THEN 0 ELSE n + 1]
LastQuoted(k) == [n \in 0..k |-> IF n = k THEN n + 1 ELSE n]
Mixed(k) == [n \in 0..k |-> n + n \div 2]

\* The lengths of the envelopes are those of a dict with limits of one digit.
MCValues ==
  UNION {{[whole |-> w, text |-> k, json |-> j, frame |-> 326, minimal |-> 93] :
            j \in {[n \in 0..k |-> n], Quoted(k), FirstQuoted(k), LastQuoted(k), Mixed(k)},
            w \in {340, 1000}} : k \in Texts}
\* What fits at 47 and 93 is the fallbacks, and from 333 a text of one character.
MCRequests == {{}} \cup {{n} : n \in {0, 1, 46, 47, 48, 92, 93, 94} \cup 327..440}
=============================================================================
