----------------------------- MODULE MCLibrary -----------------------------
(* Library for TLC: two movies, the title of the first with a separator; a *)
(* cursor of it keeps what is before, and reads on from there.  Two tags,  *)
(* "'=a|=a" and "=a": the first, which is at the head of every cell it is  *)
(* in, loses its apostrophe and comes apart into the second, twice.        *)
EXTENDS Library, TLC

MCTitleOf == [m \in Media |-> 2 * m]
MCCutOf   == [m \in Media |-> IF m = 1 THEN 1 ELSE 2 * m]
MCRestOf  == [m \in Media |-> 0]

MCPartsOf      == [n \in Tags |-> {2}]
MCFirstPartsOf == [n \in Tags |-> {2}]

Alike == Permutations(Clients)
=============================================================================
