-------------------------- MODULE MCSyncScheduler --------------------------
(* Instances of SyncScheduler for TLC. *)
EXTENDS SyncScheduler, TLC

ShortIntervals == [incremental |-> 2, compensation |-> 3]
SoonIntervals  == [incremental |-> 1, compensation |-> 1]

Symmetry == Permutations(Owner)

=============================================================================
