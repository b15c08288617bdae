--------------------------- MODULE MCSyncCandidates ---------------------------
(* Instances of SyncCandidates for TLC: two plays of one item. *)
EXTENDS SyncCandidates, TLC

OneItem == [e \in Event |-> CHOOSE i \in Item : TRUE]

Symmetry == Permutations(Client) \cup Permutations(Event) \cup Permutations(Media)

=============================================================================
