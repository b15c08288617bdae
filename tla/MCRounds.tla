------------------------------ MODULE MCRounds ------------------------------
(* Instances of Rounds for TLC.  Round ids and clients are interchangeable; *)
(* external event ids are not (their order stands for the event uuids').    *)
EXTENDS Rounds, TLC

Symmetry == Permutations(RoundId) \cup Permutations(Client)

=============================================================================
