---------------------------- MODULE MCCodeExecutor ----------------------------
(* TLC instance of CodeExecutor: lengths at which the notice's own changes. *)
EXTENDS CodeExecutor

\* 1 leaves no room for a notice; 65 just fits 65, and the notice for 66 says 10
\* there and shows 9.
Limits == {1, 65, 80}
Printed == {65, 66, 100}
=============================================================================
