----------------------------- MODULE MCHotReload -----------------------------
(* TLC instances of HotReload: which tools the two files define, and how many *)
(* reloads of each may overlap.                                               *)
EXTENDS HotReload

\* Each file has its own tools; "odd" is a name Python helpers cannot have.
OwnTools == [f \in Files |-> IF f = "echo.js" THEN {"echo", "echo_v2"}
                                              ELSE {"search", "odd"}]
TwoOfEcho == [f \in Files |-> IF f = "echo.js" THEN 2 ELSE 1]

\* The tool is moved from one file to the other.
MovedTool == [f \in Files |-> {"echo"}]
OneReload == [f \in Files |-> 1]
=============================================================================
