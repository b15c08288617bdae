------------------------------ MODULE MCRestore ------------------------------
(* Instances of Restore for TLC.  Requests are interchangeable, and so are  *)
(* attempts; a run that checks a liveness property uses no symmetry.        *)
EXTENDS Restore, TLC

Symmetry == Permutations(Requests) \cup Permutations(Attempts)

=============================================================================
