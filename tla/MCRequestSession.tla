-------------------------- MODULE MCRequestSession --------------------------
(* TLC instances of RequestSession.  Tools and calls are interchangeable. *)
EXTENDS RequestSession, TLC
Symmetry == Permutations(Tools) \cup Permutations(Calls)
=============================================================================
